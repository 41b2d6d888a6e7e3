------------------------------ MODULE Retrieval ------------------------------
(* One search, and the graph changing under it.  The vector arm and the lexical
   arm run side by side and each reads the store more than once; their rankings
   are fused by reciprocal rank, retired versions fold into the version that
   replaced them, the result is cut to k, expanded along live edges, narrowed to
   the metacontexts asked for (and fetched again, wider, when that leaves too
   few), and each node returned is stamped as retrieved.  Similarity, term
   matching, what a passage was decomposed into and which claims are provably
   valid at the moment asked about are part of the query.                       *)
EXTENDS Integers, Sequences, FiniteSets, FiniteSetsExt, SequencesExt

CONSTANTS
    Nodes,             \* ids: numbers, since ties of a score break on them
    Queries,           \* the searches that may be made
    K,                 \* results asked for
    Rrf,               \* the constant of the fusion
    Unit,              \* what a rank is worth is a part of this: a multiple of each k + rank
    Overfetch,         \* how far past K a scoped search reaches at first
    MaxK,              \* ... and at most
    LineageOverfetch,  \* how far past k fusion reaches when retired nodes are seeds
    MaxHistory,        \* bound: changes made to the graph before the search
    MaxWrites          \* bound: changes made to it during the search

ASSUME NodesAssumption == IsFiniteSet(Nodes) /\ Nodes \subseteq Nat
ASSUME LimitsAssumption == /\ K \in Nat \ {0} /\ Overfetch \in Nat \ {0} /\ MaxK \in Nat
                           /\ K <= MaxK /\ LineageOverfetch \in Nat \ {0}
                           /\ MaxHistory \in Nat /\ MaxWrites \in Nat
ASSUME RanksAssumption == /\ Rrf \in Nat /\ Unit \in Nat
                          /\ \A rank \in 1 .. Cardinality(Nodes) : Unit % (Rrf + rank) = 0

SupersededStatuses == {"historical", "corrected"}
Reachable == SupersededStatuses \cup {"active"}

\* A ranking names a node once.  Every node has an embedding, so each is as like the
\* query as it is; what is current may always be returned.
ASSUME QueriesAssumption ==
    \A q \in Queries :
        /\ \A ranking \in {q.like, q.exact, q.passage} :
              ranking \in Seq(Nodes) /\ IsInjective(ranking)
        /\ ToSet(q.like) = Nodes
        /\ q.statuses \subseteq Reachable /\ "active" \in q.statuses
        /\ q.declared \in BOOLEAN /\ q.valid \subseteq Nodes /\ q.scope \subseteq Nodes
        /\ q.links \subseteq SUBSET Nodes

VARIABLES
    graph,      \* the status of each node, and the lineage edges
    query,      \* the search
    fetch,      \* the k of the run of the net under way
    vec,        \* the vector arm: where it is, the ids found and the nodes read
    lex,        \* the lexical arm: where it is, its rankings and what it protects
    stage,      \* where the net is: before the search, in the arms, or past their join
    seeds,      \* the nodes it starts from, best first, as they were read
    fold,       \* what became of retired versions: who went where, who kept a slot
    expansion,  \* nodes reached along edges, edges still to follow, nodes still to stamp
    writes,     \* bound: changes made before the search, then during it
    admitted    \* history: nodes the search might return at some moment of it

searchVars == <<graph, query, fetch, vec, lex, stage, seeds, fold, expansion, writes, admitted>>

Gone == "gone"
Statuses == Reachable \cup {Gone}

Fresh == [status |-> [n \in Nodes |-> "active"], lineage |-> {}]

\* What one tool call may make of a graph: a claim retired in favour of another, a
\* historical one restored, a lineage edge linked with no status changed, a node
\* destroyed by a reversal.
After(g) ==
    LET live == {n \in Nodes : g.status[n] = "active"}
        pairs == {p \in Nodes \X Nodes :
                     p[1] # p[2] /\ g.status[p[1]] # Gone /\ g.status[p[2]] # Gone}
    IN  {[status |-> [g.status EXCEPT ![p[1]] = how], lineage |-> g.lineage \cup {p}] :
            p \in pairs \cap (live \X live), how \in SupersededStatuses}
        \cup {[g EXCEPT !.status[n] = "active"] : n \in {m \in Nodes : g.status[m] = "historical"}}
        \cup {[g EXCEPT !.lineage = @ \cup {p}] : p \in pairs}
        \cup {[status |-> [g.status EXCEPT ![n] = Gone], lineage |-> {e \in g.lineage : n \notin Range(e)}] :
                 n \in live}

Unsought == [at |-> "find", due |-> <<>>, ids |-> <<>>, nodes |-> {}]
Unread == [at |-> "nodes", nodes |-> <<>>, passages |-> <<>>, guarded |-> {}]
Unfolded == [pairs |-> {}, kept |-> {}, read |-> {}]
Unexpanded == [nodes |-> {}, due |-> {}, unstamped |-> {}]

Admits(g, q, n) == g.status[n] \in q.statuses
AllAdmitted(g, q) == {n \in Nodes : Admits(g, q, n)}

Scoped == query.scope # Nodes
FirstFetch(q) == IF q.scope # Nodes THEN Min({K * Overfetch, MaxK}) ELSE K

SearchInit ==
    /\ graph = Fresh /\ query \in Queries
    /\ fetch = FirstFetch(query)
    /\ vec = Unsought /\ lex = Unread /\ stage = "before"
    /\ seeds = <<>> /\ fold = Unfolded /\ expansion = Unexpanded
    /\ writes = 0 /\ admitted = {}

\* What the graph has been through before the search.
WriteBefore ==
    /\ stage = "before" /\ writes < MaxHistory
    /\ writes' = writes + 1 /\ graph' \in After(graph)
    /\ UNCHANGED <<query, fetch, vec, lex, stage, seeds, fold, expansion, admitted>>

BeginSearch ==
    /\ stage = "before"
    /\ stage' = "arms" /\ writes' = 0 /\ admitted' = AllAdmitted(graph, query)
    /\ UNCHANGED <<graph, query, fetch, vec, lex, seeds, fold, expansion>>

----------------------------------------------------------------------------
(* Rankings.                                                                    *)

First(n, s) == SubSeq(s, 1, Min({n, Len(s)}))
Place(x, s) == CHOOSE i \in DOMAIN s : s[i] = x
BestOf(S, s) == CHOOSE x \in S : \A y \in S : Place(x, s) <= Place(y, s)

\* The members of S, each behind those that are ahead of it; and those of S that are
\* in s, in the order they have there.
Sorted(S, ahead) ==
    [i \in 1 .. Cardinality(S) |->
        CHOOSE x \in S : Cardinality({y \in S : <<y, x>> \in ahead}) = i - 1]

Among(S, s) ==
    LET kept == S \cap ToSet(s)
    IN  Sorted(kept, {p \in kept \X kept : Place(p[1], s) < Place(p[2], s)})

\* 1 / (k + rank) for each ranking that holds the node.
Share(n, ranking) == IF n \in ToSet(ranking) THEN Unit \div (Rrf + Place(n, ranking)) ELSE 0
Score(rankings, n) == Share(n, rankings[1]) + Share(n, rankings[2]) + Share(n, rankings[3])

Found(rankings) == ToSet(rankings[1]) \cup ToSet(rankings[2]) \cup ToSet(rankings[3])

ByScore(S, rankings) ==
    Sorted(S, {p \in S \X S : \/ Score(rankings, p[1]) > Score(rankings, p[2])
                              \/ Score(rankings, p[1]) = Score(rankings, p[2]) /\ p[1] < p[2]})

\* fuse: the best `limit`, and the protected ids that some ranking holds.
\* Mutant: nobody protected from the cut.
FusedAlone(rankings, limit, protected) == First(limit, ByScore(Found(rankings), rankings))

Fused(rankings, limit, protected) ==
    LET found == Found(rankings)
    IN  ByScore(ToSet(First(limit, ByScore(found, rankings))) \cup (protected \cap found), rankings)

FusionLimit == IF query.statuses = {"active"} THEN fetch ELSE fetch * LineageOverfetch

Ids(s) == [i \in DOMAIN s |-> s[i].id]
IdsOf(records) == {r.id : r \in records}
Read(n) == [id |-> n, status |-> graph.status[n]]
Standing(ns) == {n \in ns : graph.status[n] # Gone}

----------------------------------------------------------------------------
(* The two arms.                                                                *)

Matching(s) == Among(AllAdmitted(graph, query), s)

VectorFind ==
    /\ stage = "arms" /\ vec.at = "find"
    /\ LET hits == First(fetch, Matching(query.like))
       IN  vec' = [vec EXCEPT !.at = "fetch", !.due = hits, !.ids = hits]
    /\ UNCHANGED <<graph, query, fetch, lex, stage, seeds, fold, expansion, writes, admitted>>

\* The nodes are read one at a time; one that is gone is no result.
VectorFetch ==
    /\ stage = "arms" /\ vec.at = "fetch"
    /\ IF vec.due = <<>> THEN vec' = [vec EXCEPT !.at = "done"]
       ELSE LET n == Head(vec.due)
            IN  vec' = [vec EXCEPT !.due = Tail(@),
                                   !.ids = IF graph.status[n] = Gone THEN Among(Nodes \ {n}, @) ELSE @,
                                   !.nodes = @ \cup {Read(m) : m \in Standing({n})}]
    /\ UNCHANGED <<graph, query, fetch, lex, stage, seeds, fold, expansion, writes, admitted>>

\* Each list protects its best hit for a term the caller declared.
Guarding(hits) == IF query.declared /\ hits # <<>> THEN {hits[1]} ELSE {}

LexNodes ==
    /\ stage = "arms" /\ lex.at = "nodes"
    /\ LET hits == First(fetch, Matching(query.exact))
       IN  lex' = [lex EXCEPT !.at = "passages", !.nodes = hits, !.guarded = Guarding(hits)]
    /\ UNCHANGED <<graph, query, fetch, vec, stage, seeds, fold, expansion, writes, admitted>>

\* The nodes concluded from the passage that matched.  Mutant: the bridge as a
\* side door round the gate on statuses.
BridgedUngated(s) == Among({n \in Nodes : graph.status[n] # Gone}, s)

Bridged(s) == Matching(s)

LexPassages ==
    /\ stage = "arms" /\ lex.at = "passages"
    /\ LET hits == Bridged(query.passage)
       IN  lex' = [lex EXCEPT !.at = "done", !.passages = hits, !.guarded = @ \cup Guarding(hits)]
    /\ UNCHANGED <<graph, query, fetch, vec, stage, seeds, fold, expansion, writes, admitted>>

----------------------------------------------------------------------------
(* The join, the fold and the cut.                                              *)

\* fuse_seeds: the vector arm's nodes as it read them, the others read now.
FuseSeeds ==
    /\ stage = "arms" /\ vec.at = "done" /\ lex.at = "done"
    /\ LET order == Fused(<<vec.ids, lex.nodes, lex.passages>>, FusionLimit, lex.guarded)
           known == IdsOf(vec.nodes)
           nodes == vec.nodes \cup {Read(n) : n \in Standing(ToSet(order) \ known)}
           found == Among(IdsOf(nodes), order)
       IN  seeds' = [i \in DOMAIN found |-> CHOOSE r \in nodes : r.id = found[i]]
    /\ stage' = "fused"
    /\ UNCHANGED <<graph, query, fetch, vec, lex, fold, expansion, writes, admitted>>

Protected == lex.guarded \cup query.valid

Successors(n) == {d \in ToSet(Ids(seeds)) : <<n, d>> \in graph.lineage}

\* The walk from a retired node, one lineage edge at a time and never twice to a
\* node, to the end, or to a protected node.
Onward(path) ==
    LET last == path[Len(path)]
        ahead == Successors(last) \ ToSet(path)
    IN  IF ahead = {} \/ (Len(path) > 1 /\ last \in Protected) THEN path
        ELSE Append(path, BestOf(ahead, Ids(seeds)))

Walk(n) ==
    LET path[steps \in Nat] == IF steps = 0 THEN <<n>> ELSE Onward(path[steps - 1])
    IN  path[Len(seeds)]

\* The best-ranked member of the cycle the walk closed.  Mutant: whoever came last.
CycleHostLast(path, behind) == path[Len(path)]

CycleHost(path, behind) ==
    BestOf(ToSet(SubSeq(path, Place(BestOf(behind, Ids(seeds)), path), Len(path))), Ids(seeds))

HostFor(n) ==
    LET path == Walk(n)
        last == path[Len(path)]
        behind == Successors(last) \ {last}
    IN  IF behind = {} \/ (Len(path) > 1 /\ last \in Protected) THEN last ELSE CycleHost(path, behind)

Foldable(r) == r.status \in SupersededStatuses /\ r.id \notin Protected

\* collapse_lineage, over the edges as they are now: fold, then cut to k.
Survivors(kept) ==
    Among(ToSet(First(fetch, kept)) \cup {r \in ToSet(kept) : r.id \in lex.guarded}, kept)

CollapseLineage ==
    /\ stage = "fused"
    /\ LET Keeps(r) == Foldable(r) => HostFor(r.id) = r.id
           kept == Among({r \in ToSet(seeds) : Keeps(r)}, seeds)
       IN  /\ fold' = [pairs |-> {<<r, HostFor(r.id)>> : r \in {s \in ToSet(seeds) : ~Keeps(s)}},
                       kept |-> ToSet(kept),
                       read |-> {e \in graph.lineage : Range(e) \subseteq ToSet(Ids(seeds))}]
           /\ seeds' = Survivors(kept)
    /\ stage' = "collapsed"
    /\ UNCHANGED <<graph, query, fetch, vec, lex, expansion, writes, admitted>>

----------------------------------------------------------------------------
(* Expansion, the scope, and the stamp.                                         *)

Seen == IdsOf(ToSet(seeds) \cup expansion.nodes)

ReadEdges ==
    /\ stage = "collapsed"
    /\ expansion' = [Unexpanded EXCEPT !.due = {e \in query.links : /\ e \cap ToSet(Ids(seeds)) # {}
                                                                     /\ Standing(e) = e}]
    /\ stage' = "expanding"
    /\ UNCHANGED <<graph, query, fetch, vec, lex, seeds, fold, writes, admitted>>

\* Only an active neighbour is followed to.
Follows(n) == graph.status[n] = "active"

FollowEdge ==
    /\ stage = "expanding"
    /\ \E e \in expansion.due :
         expansion' = [expansion EXCEPT !.nodes = @ \cup {Read(n) : n \in {m \in e \ Seen : Follows(m)}},
                                        !.due = @ \ {e}]
    /\ UNCHANGED <<graph, query, fetch, vec, lex, stage, seeds, fold, writes, admitted>>

InScope == {r \in ToSet(seeds) \cup expansion.nodes : r.id \in query.scope}

\* A scoped search that comes back short asks again for twice as much, until the
\* vector store has no more to give or the ceiling is reached.  Mutant: it does not.
EnoughAtOnce == TRUE

Enough == \/ ~Scoped \/ Cardinality(InScope) >= K
          \/ Len(vec.ids) < fetch \/ fetch >= MaxK

Answer ==
    /\ stage = "expanding" /\ expansion.due = {} /\ Enough
    /\ stage' = "answered"
    /\ expansion' = [expansion EXCEPT !.unstamped = InScope]
    /\ UNCHANGED <<graph, query, fetch, vec, lex, seeds, fold, writes, admitted>>

Widen ==
    /\ stage = "expanding" /\ expansion.due = {} /\ ~Enough
    /\ fetch' = Min({fetch * 2, MaxK})
    /\ vec' = Unsought /\ lex' = Unread /\ stage' = "arms"
    /\ seeds' = <<>> /\ fold' = Unfolded /\ expansion' = Unexpanded
    /\ UNCHANGED <<graph, query, writes, admitted>>

\* _record_retrieval: each node is stored whole, as the search read it.
StampNode ==
    /\ stage = "answered"
    /\ \E r \in expansion.unstamped :
         /\ expansion' = [expansion EXCEPT !.unstamped = @ \ {r}]
         /\ graph' = [graph EXCEPT !.status[r.id] = r.status]
    /\ UNCHANGED <<query, fetch, vec, lex, stage, seeds, fold, writes, admitted>>

\* Other calls are users of the graph too, and run between the search's reads.
WriteBeside ==
    /\ stage # "before" /\ writes < MaxWrites /\ (stage = "answered" => expansion.unstamped # {})
    /\ writes' = writes + 1
    /\ \E g \in After(graph) :
         graph' = g /\ admitted' = admitted \cup AllAdmitted(g, query)
    /\ UNCHANGED <<query, fetch, vec, lex, stage, seeds, fold, expansion>>

SearchNext ==
    \/ WriteBefore \/ BeginSearch
    \/ VectorFind \/ VectorFetch \/ LexNodes \/ LexPassages \/ FuseSeeds \/ CollapseLineage
    \/ ReadEdges \/ FollowEdge \/ Answer \/ Widen \/ StampNode \/ WriteBeside

SearchSpec == SearchInit /\ [][SearchNext]_searchVars

----------------------------------------------------------------------------
(* Properties.                                                                  *)

Records == [id : Nodes, status : Statuses]

SearchTypeOK ==
    /\ graph \in [status : [Nodes -> Statuses], lineage : SUBSET (Nodes \X Nodes)]
    /\ query \in Queries /\ fetch \in 1 .. MaxK
    /\ vec \in [at : {"find", "fetch", "done"}, due : Seq(Nodes), ids : Seq(Nodes), nodes : SUBSET Records]
    /\ IsInjective(vec.ids) /\ IdsOf(vec.nodes) \cup ToSet(vec.due) = ToSet(vec.ids)
    /\ lex \in [at : {"nodes", "passages", "done"}, nodes : Seq(Nodes), passages : Seq(Nodes), guarded : SUBSET Nodes]
    /\ stage \in {"before", "arms", "fused", "collapsed", "expanding", "answered"}
    /\ seeds \in Seq(Records) /\ IsInjective(Ids(seeds))
    /\ expansion \in [nodes : SUBSET Records, due : SUBSET query.links, unstamped : SUBSET Records]
    /\ writes \in Nat /\ (stage # "before" => writes <= MaxWrites) /\ admitted \subseteq Nodes

\* The nodes the edges lead back to: a set that holds where they lead from n, and from
\* its own members, holds n.
Cycles(edges) ==
    {n \in Nodes : \A S \in SUBSET Nodes :
        (\A e \in edges : e[1] \in S \cup {n} => e[2] \in S) => n \in S}

Forked(edges) == \E e, f \in edges : e[1] = f[1] /\ e[2] # f[2]

\* "When a retired node and its successor both match, the successor takes the slot
\* and the retired one attaches to it": a version folded away hangs on a result
\* that kept its slot, so no answer disappears, whether or not the lineage is
\* cyclic, a retired version keeps a slot beside a later one only on a cycle, and
\* what is folded is neither current nor an answer valid at the moment asked about.
\* Lineage that is cyclic and forks as well is left out: two walks may then end at
\* each other's start, and both answers are lost.
HistoryFolds ==
    stage = "collapsed" =>
      /\ (Cycles(fold.read) = {} \/ ~Forked(fold.read)) =>
             \A p \in fold.pairs : \E r \in fold.kept : r.id = p[2]
      /\ \A r \in fold.kept :
             (Foldable(r) /\ \E e \in fold.read : e[1] = r.id /\ e[2] # r.id) => r.id \in Cycles(fold.read)
      /\ \A p \in fold.pairs : p[1].status # "active" /\ p[1].id \notin query.valid

\* "Its best hit survives the top-k cut": what the search protects for a declared
\* term is in the result, through the fusion, the fold and both cuts, unless the
\* node is gone; and the result passes k by no more than what is so protected.
DeclaredHitSurvives ==
    stage = "collapsed" =>
                 /\ Standing(lex.guarded) \subseteq ToSet(Ids(seeds))
                 /\ Len(seeds) <= fetch + Cardinality(lex.guarded)

\* "The two seed routes cannot disagree about whether a node exists": whichever
\* route brought a node, and whatever was written meanwhile, it had a status the
\* search asks for at some moment of the search.
GatedWhenFound ==
    stage = "answered" => Seen \subseteq admitted

\* A scoped search that comes back short has looked at everything: with nothing
\* written meanwhile and the ceiling not reached, each node of the metacontexts
\* named that the search may return is in the answer or folded into another's.
ScopeIsSearchedThrough ==
    (stage = "answered" /\ Scoped /\ writes = 0 /\ fetch < MaxK /\ Cardinality(InScope) < K) =>
        query.scope \cap admitted \subseteq IdsOf(InScope) \cup {p[1].id : p \in fold.pairs}

\* "Reactivation stays explicit": a search stamps the nodes it returns, and leaves
\* every node at the status it stands at.
SearchMovesNoStatus ==
    [][(stage = "answered" /\ writes' = writes) => graph' = graph]_searchVars

\* The shape of the state, and what may be in an answer.
AnswerIsSound == SearchTypeOK /\ GatedWhenFound
=============================================================================
