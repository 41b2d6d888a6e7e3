----------------------------- MODULE NodeLifecycle -----------------------------
(***************************************************************************)
(* How a node leaves the active set and comes back: supersession by a new   *)
(* node or an existing one, merge, the reversal of a merge, archival and   *)
(* restore (mcp/tools.py, pipelines/graph_construction/versioning.py and   *)
(* the `_tx` writes of storage/memory.py).                                 *)
(*                                                                         *)
(* Each tool call reads the graph and plans, awaits, and then writes what  *)
(* it planned in one transaction that does not look at the plan's premises *)
(* again.  One call at a time is a sequential session; several are what    *)
(* the guard of active_graph.py lets run together.                         *)
(***************************************************************************)
EXTENDS Integers, FiniteSets, Sequences, SequencesExt

CONSTANTS
    Facts,          \* the facts ingested
    Fresh,          \* ids for the nodes that merges and updates write
    Others,         \* what facts are linked to: documents, inferences, metacontexts
    Known,          \* the edges ingested
    Inferences,     \* the members of Others that are drawn on facts
    Document,       \* the member of Others a recurring claim is restored from
    Links,          \* the edges other calls may add
    Calls,          \* tool calls that may run together
    CycleLimit,     \* merge_cycle_limit
    UndoDepth,      \* merge_undo_depth
    NamesRetired,   \* whether callers of update and supersede_by name retired nodes
    MaxCalls        \* bound: calls made

Nodes == Facts \cup Fresh
Retired == {"corrected", "historical", "merged", "archived"}
Statuses == {"absent", "active"} \cup Retired
Types == {"sourced_from", "derived_from", "related", "has_metacontext", "contradiction",
          "merged_into", "superseded_by", "temporally_followed_by",
          "evidence_merged", "evidence_superseded", "supersession_candidate"}
Edges == [src : Nodes \cup Others, dst : Nodes \cup Others, type : Types]

NoUndo == [sources |-> {}, edges |-> {}]
NoCall == [op |-> "none", nodes |-> {}, into |-> Document, because |-> "active",
           undo |-> {}, puts |-> {}, drops |-> {}, was |-> <<>>]
Ops == {"none", "embed", "merge", "evict", "clear", "update", "supersede",
        "restore", "reverse", "status", "link"}

ASSUME LifecycleAssumption ==
    /\ Facts \cap Fresh = {} /\ Nodes \cap Others = {}
    /\ Inferences \subseteq Others /\ Document \in Others
    /\ Known \subseteq Edges /\ Links \subseteq Edges
    /\ CycleLimit \in Nat \ {0} /\ UndoDepth \in Nat \ {0} /\ MaxCalls \in Nat

VARIABLES
    status,     \* each node's status, "absent" when the store has no such node
    lifecycle,  \* each node's episodes: why it retired, and whether still open
    undo,       \* the merge payload a survivor carries
    edges,
    call,       \* what each call has planned and not yet written
    calls,      \* calls made so far
    before      \* history: the edges each merge was about to move

graph == <<status, lifecycle, undo, edges>>
vars == <<graph, call, calls, before>>

Init ==
    /\ status = [n \in Nodes |-> IF n \in Facts THEN "active" ELSE "absent"]
    /\ lifecycle = [n \in Nodes |-> <<>>]
    /\ undo = [n \in Nodes |-> NoUndo]
    /\ edges = Known
    /\ call = [c \in Calls |-> NoCall]
    /\ calls = 0
    /\ before = [n \in Nodes |-> {}]

-------------------------------------------------------------------------------
(* Edges.                                                                    *)

Edge(s, d, t) == [src |-> s, dst |-> d, type |-> t]
Touches(e, N) == e.src \in N \/ e.dst \in N
Incident(E, N) == {e \in E : Touches(e, N)}

\* What becomes of an edge when its node is retired.
Disposition(type, because) ==
    CASE type \in {"merged_into", "superseded_by", "temporally_followed_by",
                   "evidence_merged", "evidence_superseded", "supersession_candidate",
                   "contradiction"} -> "keep"
      [] because = "historical" -> IF type = "has_metacontext" THEN "copy" ELSE "keep"
      [] because = "merged" /\ type = "has_metacontext" -> "keep"
      [] OTHER -> "move"

\* The edges a merge of S moves or drops.
Moving(E, S) == {e \in Incident(E, S) : Disposition(e.type, "merged") = "move"}

Repoint(e, S, n) ==
    LET To(x) == IF x \in S THEN n ELSE x IN Edge(To(e.src), To(e.dst), e.type)

\* E once the nodes S are retired in favour of n: self-loops are dropped, and edges
\* that have become one edge collapse.
Migrated(E, S, n, because) ==
    LET Gone == {e \in Incident(E, S) : Disposition(e.type, because) = "move"}
        New == {Repoint(e, S, n) :
                   e \in {x \in Incident(E, S) : Disposition(x.type, because) # "keep"}}
    IN  (E \ Gone) \cup {e \in New : e.src # e.dst}

\* The inferences that rest on x directly.
Dependents(x) == {i \in Inferences : Edge(i, x, "derived_from") \in edges}
Metacontexts(x) == {m \in Others : Edge(x, m, "has_metacontext") \in edges}

-------------------------------------------------------------------------------
(* Episodes.                                                                 *)

WithRetirement(eps, because) == Append(eps, [because |-> because, open |-> TRUE])

\* Mutant: a return leaves the episode open.
WithReturnUnclosed(eps) == eps

\* Only the last episode is closed.
WithReturn(eps) ==
    IF eps = <<>> THEN eps ELSE [eps EXCEPT ![Len(eps)].open = FALSE]

CompletedMergeCycles(n) ==
    Cardinality({i \in DOMAIN lifecycle[n] :
        lifecycle[n][i].because = "merged" /\ ~lifecycle[n][i].open})

Retire(S, because) ==
    [n \in Nodes |-> IF n \in S THEN WithRetirement(lifecycle[n], because) ELSE lifecycle[n]]

Return(S) == [n \in Nodes |-> IF n \in S THEN WithReturn(lifecycle[n]) ELSE lifecycle[n]]

-------------------------------------------------------------------------------
(* Calls.                                                                    *)

Stored(n) == status[n] # "absent"
Active(n) == status[n] = "active"

\* An id no node, edge, payload or call mentions.  A destroyed survivor's id is one again,
\* and stands for the next id the program draws.
Unused(n) ==
    /\ n \in Fresh /\ ~Stored(n)
    /\ Incident(edges, {n}) = {}
    /\ \A s \in Nodes : n \notin undo[s].sources
    /\ \A c \in Calls : n # call[c].into /\ n \notin call[c].nodes

Plan(c, r) ==
    /\ call[c].op = "none"
    /\ calls < MaxCalls
    /\ calls' = calls + 1
    /\ call' = [call EXCEPT ![c] = r]
    /\ UNCHANGED <<graph, before>>

Done(c) == call' = [call EXCEPT ![c] = NoCall]

-------------------------------------------------------------------------------
(* merge_facts, merge_inferences.                                            *)

\* The gate: several active facts of one set of metacontexts, none of which has been
\* merged and un-merged too often.  That the claims are states and alike enough is
\* the caller's.  The survivor is then embedded.
GateMerge(c, S, n) ==
    /\ Cardinality(S) >= 2
    /\ \A x \in S : Active(x) /\ CompletedMergeCycles(x) < CycleLimit
    /\ \A x, y \in S : Metacontexts(x) = Metacontexts(y)
    /\ Unused(n)
    /\ Plan(c, [NoCall EXCEPT !.op = "embed", !.nodes = S, !.into = n])

\* The edges a merge of S into n writes beside those it moves: lineage, the sources'
\* metacontexts, and a flag for each inference drawn on one.
MergeEdges(S, n) ==
    {Edge(x, n, "merged_into") : x \in S}
    \cup (UNION {{Edge(n, m, "has_metacontext") : m \in Metacontexts(x)} : x \in S})
    \cup (UNION {{Edge(x, i, "evidence_merged") : i \in Dependents(x)} : x \in S})

\* Mutant: only the edges that leave the sources are captured.
CaptureOutgoing(c) ==
    LET S == call[c].nodes  n == call[c].into IN
    /\ call[c].op = "embed"
    /\ call' = [call EXCEPT
          ![c].op = "merge",
          ![c].undo = {e \in Moving(edges, S) : e.src \in S},
          ![c].puts = MergeEdges(S, n)]
    /\ UNCHANGED <<graph, calls, before>>

\* merge_nodes reads the partition, and plans the edges it will write.
CaptureMerge(c) ==
    LET S == call[c].nodes  n == call[c].into IN
    /\ call[c].op = "embed"
    /\ call' = [call EXCEPT
          ![c].op = "merge",
          ![c].undo = Moving(edges, S),
          ![c].puts = MergeEdges(S, n)]
    /\ UNCHANGED <<graph, calls, before>>

\* The transaction retires the sources whatever has become of them since the gate.
CommitMerge(c) ==
    LET S == call[c].nodes  n == call[c].into IN
    /\ call[c].op = "merge"
    /\ \A x \in S : Stored(x)
    /\ status' = [x \in Nodes |-> IF x \in S THEN "merged" ELSE IF x = n THEN "active" ELSE status[x]]
    /\ lifecycle' = Retire(S, "merged")
    /\ undo' = [undo EXCEPT ![n] = [sources |-> S, edges |-> call[c].undo]]
    /\ edges' = Migrated(edges, S, n, "merged") \cup call[c].puts
    /\ before' = [before EXCEPT ![n] = Moving(edges, S)]
    /\ call' = [call EXCEPT ![c].op = "evict"]
    /\ UNCHANGED calls

\* The survivors `level` merges back from s, counting s itself as the first, which
\* the walk reaches through the payloads they still carry.
Ancestors(s) ==
    LET f[level \in Nat] == IF level <= 1 THEN {s} ELSE UNION {undo[n].sources : n \in f[level - 1]}
    IN  f

Within(s, levels) == UNION {Ancestors(s)[l] : l \in levels \cap (1 .. Cardinality(Nodes))}

\* The ancestors whose payload is too far back to be kept.
TooDeep(s) ==
    {n \in Nodes : /\ undo[n] # NoUndo
                   /\ n \in Within(s, UndoDepth + 1 .. Cardinality(Nodes))
                   /\ n \notin Within(s, 1 .. UndoDepth)}

\* Mutant: nothing is too deep.
EvictNothing(c) ==
    /\ call[c].op = "evict"
    /\ Done(c)
    /\ UNCHANGED <<graph, calls, before>>

\* evict_deep_merge_undo walks the payloads, reading each ancestor ...
Evict(c) ==
    LET deep == TooDeep(call[c].into) IN
    /\ call[c].op = "evict"
    /\ IF deep = {} THEN Done(c)
       ELSE call' = [call EXCEPT
               ![c].op = "clear",
               ![c].nodes = deep,
               ![c].was = [n \in deep |-> [status |-> status[n], lifecycle |-> lifecycle[n]]]]
    /\ UNCHANGED <<graph, calls, before>>

\* ... and writes it back whole, as it was read, without its payload.
ClearUndo(c) ==
    \E n \in call[c].nodes :
        /\ call[c].op = "clear"
        /\ status' = [status EXCEPT ![n] = call[c].was[n].status]
        /\ lifecycle' = [lifecycle EXCEPT ![n] = call[c].was[n].lifecycle]
        /\ undo' = [undo EXCEPT ![n] = NoUndo]
        /\ IF call[c].nodes = {n} THEN Done(c)
           ELSE call' = [call EXCEPT ![c].nodes = @ \ {n}]
        /\ UNCHANGED <<edges, calls, before>>

-------------------------------------------------------------------------------
(* reverse_merge.                                                            *)

\* The edges a reversal expects on the survivor: those the merge re-pointed, and
\* those it wrote.
Expected(s) ==
    LET S == undo[s].sources IN
    {Repoint(e, S, s) : e \in {x \in undo[s].edges : ~(x.src \in S /\ x.dst \in S)}}
    \cup {Edge(x, s, "merged_into") : x \in S}
    \cup UNION {{Edge(s, m, "has_metacontext") : m \in Metacontexts(x)} : x \in S}

\* Mutant: the edges between sources, which the merge dropped, are not recreated.
ReverseRepointed(c, s) ==
    LET S == undo[s].sources IN
    /\ Active(s)
    /\ undo[s] # NoUndo
    /\ Incident(edges, {s}) \subseteq Expected(s)
    /\ Plan(c, [NoCall EXCEPT !.op = "restore", !.nodes = S, !.into = s,
                !.puts = {e \in undo[s].edges : ~(e.src \in S /\ e.dst \in S)}])

\* Refused unless the survivor is active and carries its payload, and every edge on it
\* is one the merge put there.
PlanReverse(c, s) ==
    /\ Active(s)
    /\ undo[s] # NoUndo
    /\ Incident(edges, {s}) \subseteq Expected(s)
    /\ Plan(c, [NoCall EXCEPT !.op = "restore", !.nodes = undo[s].sources, !.into = s,
                !.puts = undo[s].edges])

\* Mutant: the flags the merge raised stay.
DropsOfSurvivor(c) ==
    LET S == call[c].nodes  s == call[c].into IN
    /\ call[c].op = "restore"
    /\ \A x \in S : Stored(x)
    /\ call' = [call EXCEPT ![c].op = "reverse", ![c].drops = Incident(edges, {s})]
    /\ UNCHANGED <<graph, calls, before>>

\* The sources are still there; the edges on the survivor are read again, and whatever
\* is on it now is to go.
PlanDrops(c) ==
    LET S == call[c].nodes  s == call[c].into IN
    /\ call[c].op = "restore"
    /\ \A x \in S : Stored(x)
    /\ call' = [call EXCEPT
          ![c].op = "reverse",
          ![c].drops = Incident(edges, {s})
                       \cup {e \in edges : e.src \in S /\ e.type = "evidence_merged"}]
    /\ UNCHANGED <<graph, calls, before>>

\* Mutant: the survivor is destroyed and its edges are left.
CommitReverseLeaving(c) ==
    LET S == call[c].nodes  s == call[c].into IN
    /\ call[c].op = "reverse"
    /\ \A x \in S : Stored(x)
    /\ edges' = edges \cup call[c].puts
    /\ status' = [x \in Nodes |-> IF x \in S THEN "active" ELSE IF x = s THEN "absent" ELSE status[x]]
    /\ lifecycle' = [Return(S) EXCEPT ![s] = <<>>]
    /\ undo' = [undo EXCEPT ![s] = NoUndo]
    /\ before' = [before EXCEPT ![s] = {}]
    /\ Done(c)
    /\ UNCHANGED calls

\* The transaction raises, and nothing is written, if an edge would be left on the
\* survivor it destroys.
CommitReverse(c) ==
    LET S == call[c].nodes  s == call[c].into  E == (edges \ call[c].drops) \cup call[c].puts IN
    /\ call[c].op = "reverse"
    /\ \A x \in S : Stored(x)
    /\ Incident(E, {s}) = {}
    /\ edges' = E
    /\ status' = [x \in Nodes |-> IF x \in S THEN "active" ELSE IF x = s THEN "absent" ELSE status[x]]
    /\ lifecycle' = [Return(S) EXCEPT ![s] = <<>>]
    /\ undo' = [undo EXCEPT ![s] = NoUndo]
    /\ before' = [before EXCEPT ![s] = {}]
    /\ Done(c)
    /\ UNCHANGED calls

-------------------------------------------------------------------------------
(* update, supersede_by.                                                     *)

Lineage(because) ==
    IF because = "historical" THEN "temporally_followed_by" ELSE "superseded_by"

\* Neither looks at the status of the node it retires, or of the one that replaces
\* it: both only have to exist.
MayName(x) == Stored(x) /\ (NamesRetired \/ Active(x))

PlanSupersession(c, op, x, y, because) ==
    /\ MayName(x)
    /\ Plan(c, [NoCall EXCEPT !.op = op, !.nodes = {x}, !.into = y, !.because = because,
                !.puts = {Edge(x, y, Lineage(because))}
                         \cup {Edge(x, i, "evidence_superseded") : i \in Dependents(x)},
                !.drops = {e \in edges : e.dst = x /\ e.type = "supersession_candidate"}])

PlanUpdate(c, x, n, because) ==
    /\ Unused(n)
    /\ PlanSupersession(c, "update", x, n, because)

PlanSupersedeBy(c, x, y, because) ==
    /\ x # y
    /\ MayName(y)
    /\ PlanSupersession(c, "supersede", x, y, because)

\* An update writes its new node and migrates edges onto it; the existing node of a
\* supersede_by keeps to its own, and is not looked at again.
CommitSupersession(c) ==
    LET S == call[c].nodes  y == call[c].into  because == call[c].because
        new == call[c].op = "update" IN
    /\ call[c].op \in {"update", "supersede"}
    /\ \A x \in S : Stored(x)
    /\ status' = [n \in Nodes |-> IF n \in S THEN because
                                  ELSE IF new /\ n = y THEN "active" ELSE status[n]]
    /\ lifecycle' = Retire(S, because)
    /\ edges' = ((IF new THEN Migrated(edges, S, y, because) ELSE edges) \cup call[c].puts)
                \ call[c].drops
    /\ Done(c)
    /\ UNCHANGED <<undo, calls, before>>

-------------------------------------------------------------------------------
(* Archival, and restore by id.                                              *)

PlanArchive(c, x) ==
    /\ Active(x)
    /\ Plan(c, [NoCall EXCEPT !.op = "status", !.nodes = {x}, !.because = "archived"])

\* A historical claim comes back with the source that asserts it again; an archived
\* one may.
PlanRestore(c, x) ==
    \E source \in {{}, {Edge(x, Document, "sourced_from")}} :
        /\ status[x] \in {"archived", "historical"}
        /\ status[x] = "historical" => source # {}
        /\ Plan(c, [NoCall EXCEPT !.op = "status", !.nodes = {x}, !.because = "active", !.puts = source])

\* set_node_status_tx.
CommitStatus(c) ==
    LET S == call[c].nodes  because == call[c].because IN
    /\ call[c].op = "status"
    /\ \A x \in S : Stored(x)
    /\ status' = [n \in Nodes |-> IF n \in S THEN because ELSE status[n]]
    /\ lifecycle' = IF because = "active" THEN Return(S) ELSE Retire(S, because)
    /\ edges' = edges \cup call[c].puts
    /\ Done(c)
    /\ UNCHANGED <<undo, calls, before>>

\* A contradiction or a candidacy recorded between two claims, or an inference drawn on
\* one: an edge there is one of, written without another look at its ends.
PlanLink(c, e) ==
    /\ \A x \in {e.src, e.dst} \cap Nodes : MayName(x)
    /\ e \notin edges
    /\ Plan(c, [NoCall EXCEPT !.op = "link", !.puts = {e}])

CommitLink(c) ==
    /\ call[c].op = "link"
    /\ edges' = edges \cup call[c].puts
    /\ Done(c)
    /\ UNCHANGED <<status, lifecycle, undo, calls, before>>

-------------------------------------------------------------------------------

\* A call that finds a node gone, or an edge left on one it would destroy, is refused
\* or raises, and leaves the graph as it was.
Abort(c) ==
    /\ call[c].op \in {"merge", "restore", "reverse", "update", "supersede", "status"}
    /\ \/ \E x \in call[c].nodes : ~Stored(x)
       \/ /\ call[c].op = "reverse"
          /\ Incident((edges \ call[c].drops) \cup call[c].puts, {call[c].into}) # {}
    /\ Done(c)
    /\ UNCHANGED <<graph, calls, before>>

Write(c) ==
    \/ CaptureMerge(c) \/ CommitMerge(c) \/ Evict(c) \/ ClearUndo(c)
    \/ PlanDrops(c) \/ CommitReverse(c) \/ CommitSupersession(c) \/ CommitStatus(c) \/ CommitLink(c)
    \/ Abort(c)

Begin(c) ==
    \/ \E S \in SUBSET Nodes, n \in Fresh : GateMerge(c, S, n)
    \/ \E x \in Nodes, b \in {"corrected", "historical"} :
          \/ \E n \in Fresh : PlanUpdate(c, x, n, b)
          \/ \E y \in Nodes : PlanSupersedeBy(c, x, y, b)
    \/ \E x \in Nodes : PlanReverse(c, x) \/ PlanArchive(c, x) \/ PlanRestore(c, x)
    \/ \E e \in Links : PlanLink(c, e)

Next == \E c \in Calls : Begin(c) \/ Write(c)

Spec == Init /\ [][Next]_vars

-------------------------------------------------------------------------------
(* Properties.                                                               *)

\* The variables have their types.
TypeOK ==
    /\ status \in [Nodes -> Statuses]
    /\ \A n \in Nodes : lifecycle[n] \in Seq([because : Retired, open : BOOLEAN])
    /\ undo \in [Nodes -> [sources : SUBSET Nodes, edges : SUBSET Edges]]
    /\ edges \subseteq Edges
    /\ \A c \in Calls : call[c].op \in Ops /\ call[c].nodes \subseteq Nodes
    /\ calls \in 0 .. MaxCalls
    /\ \A n \in Nodes : before[n] \subseteq Edges

\* "A claim concluded wrong has no route back": no sequence of calls brings a node
\* that was retired for being wrong into the active set again.
NoRouteBack ==
    \A n \in Nodes : Active(n) => \A i \in DOMAIN lifecycle[n] : lifecycle[n][i].because # "corrected"

\* "A retirement appends an episode; a return closes the open one": a node in the
\* active set has none open, a retired one exactly the last.
OneOpenEpisode ==
    \A n \in Nodes : \A i \in DOMAIN lifecycle[n] :
        lifecycle[n][i].open <=> ~Active(n) /\ i = Len(lifecycle[n])

\* "A source is retired by the merge ... and stays retired until this reversal": while
\* a survivor carries the payload that would bring them back, its sources are merged.
SourcesStayMerged ==
    \A s \in Nodes : \A x \in undo[s].sources : status[x] = "merged"

\* Reversing returns the graph to the status it had before the merge: each source is
\* active with the very edges it had, and no trace of the merge points at it.
ReverseRestores ==
    [][ \A s \in Nodes : Active(s) /\ status'[s] = "absent" =>
          /\ \A x \in undo[s].sources : status'[x] = "active"
          /\ Moving(edges', undo[s].sources) = before[s]
          /\ ~\E e \in edges' : e.src \in undo[s].sources
                                /\ e.type \in {"merged_into", "evidence_merged"} ]_vars

\* The partition captured for the reversal is the one the transaction moves ("the
\* adapter is single-connection ..., so nothing interleaves").
CaptureIsCurrent ==
    \A s \in Nodes : undo[s] # NoUndo => undo[s].edges = before[s]

\* "A dangling lineage is a graph defect": a node that was merged away or corrected
\* names the one node that carries its content now, which the store still has.
LineageIsWhole ==
    \A n \in Nodes : status[n] \in {"merged", "corrected"} =>
        \E y \in Nodes :
            /\ Stored(y)
            /\ {e.dst : e \in {x \in edges : x.src = n /\
                                   x.type \in {"merged_into", "superseded_by"}}} = {y}

\* Every edge ends at nodes the store has: destroying a survivor strands none.
NoDanglingEdge ==
    \A e \in edges : \A n \in {e.src, e.dst} \cap Nodes : Stored(n)

\* The live inferences a merge reworded the premise of are told, and told by the
\* sources that went away ("the flag is the only record there will ever be"); a
\* source that is back tells nobody.
ReworkedPremisesAreFlagged ==
    /\ \A s \in Nodes : \A e \in undo[s].edges :
          e.type = "derived_from" => Edge(e.dst, e.src, "evidence_merged") \in edges
    /\ \A e \in edges : e.type = "evidence_merged" => status[e.src] = "merged"

\* A merged node is left nothing that can move: an inference or a document is never
\* left holding on to a wording that was merged away.
MergedKeepNothing ==
    \A n \in Nodes : status[n] = "merged" => Moving(edges, {n}) = {}

\* A fact oscillates at most CycleLimit times.
CyclesAreBounded == \A n \in Nodes : CompletedMergeCycles(n) <= CycleLimit

\* At most UndoDepth merges of one line can be undone: once every merge has evicted,
\* no payload lies deeper than that behind a survivor.
UndoIsBounded ==
    (\A c \in Calls : call[c].op \notin {"evict", "clear"}) => \A s \in Nodes : TooDeep(s) = {}

\* What a node's status may be and how it came to it: the shape of the state, the
\* episodes beside the status, and the two retirements nothing but their own return
\* may undo.
StandingIsSound == TypeOK /\ OneOpenEpisode /\ NoRouteBack /\ SourcesStayMerged

\* What the edges say of retired nodes is whole, and says it of nodes that exist.
EdgesAreSound == LineageIsWhole /\ NoDanglingEdge /\ MergedKeepNothing

\* What a merge kept so that it can be reversed is current, and so is the count of
\* the reversals that went before.
UndoIsSound == CaptureIsCurrent /\ CyclesAreBounded
===============================================================================
