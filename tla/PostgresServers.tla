--------------------------- MODULE PostgresServers ---------------------------
(***************************************************************************)
(* storage/postgres_adapter.py: several server processes on one graph of   *)
(* one Postgres database.  Each process has one connection, one            *)
(* asyncio.Lock round every unit of work, and the rule that a unit outside *)
(* a transaction is tried once more on a fresh connection while one inside *)
(* a transaction is not.  What keeps two processes apart is the database:  *)
(* row locks (FOR UPDATE), two table locks, a version in a WHERE clause    *)
(* and single-statement upserts, each held to the end of its transaction.  *)
(*                                                                         *)
(* A call is a tool call as the backend sees it: one or more units, each a *)
(* sequence of statements, each statement atomic.  The database is         *)
(* external: read committed, locks granted or waited for, a deadlock       *)
(* broken by aborting one of the two, an open transaction rolled back when *)
(* its connection is lost.                                                 *)
(***************************************************************************)
EXTENDS Naturals, Sequences, FiniteSets, Functions

CONSTANTS
  Servers,    \* the processes sharing the graph
  Calls,      \* the tool calls of the behaviour, each made once
  Home,       \* the process each call runs in
  Nodes,      \* nodes that get archived
  NoRow,      \* a row the database does not hold
  NoCall,     \* nobody holds the process's lock
  MaxLosses,  \* bound: connections lost
  MaxCuts     \* bound: calls cancelled by the server's timeout

Ops == {"archive", "complete", "ingest", "timeline", "coin", "recut", "verdict"}

\* The rows that are not a node's: two counters, a timeline, a relation label
\* and a document with its passages.  A call's own insert is keyed by the call.
Singles == {"counter", "round", "timeline", "label", "cut"}
Keys == Nodes \union Calls \union Singles

ASSUME ServersAssumption ==
  /\ Home \in [Calls -> Servers] /\ IsFiniteSet(Calls)
  /\ IsFiniteSet(Nodes) /\ Nodes # {}
  /\ NoCall \notin Calls \union Servers
  /\ NoRow \notin Calls \union {NoCall} \union Nat
  /\ NoRow \notin [id : Calls, said : SUBSET Calls]
  /\ Nodes \intersect Calls = {}
  /\ (Nodes \union Calls) \intersect (Singles \union {"nodes", "labels"}) = {}
  /\ MaxLosses \in Nat /\ MaxCuts \in Nat

VARIABLES
  db,      \* what is committed, by key
  locks,   \* locks held: on what, in which mode, by which call's transaction
  conn,    \* "open" or "lost", by process
  holder,  \* who holds the process's asyncio.Lock
  call,    \* each call: its operation, statement, transaction and answer
  landed,  \* calls whose write the database has committed
  bumps,   \* how often a store was counted
  cleared, \* how many of those the completed rounds have returned
  losses, cuts

counts == <<bumps, cleared>>
vars == <<db, locks, conn, holder, call, landed, counts, losses, cuts>>

Empty == [k \in {} |-> NoRow]

FirstUnit(op) ==
  CASE op = "archive"  -> "selectNode"
    [] op = "complete" -> "selectCounter"
    [] op = "ingest"   -> "readPassages"
    [] op = "timeline" -> "getTimeline"
    [] op = "coin"     -> "lockLabels"
    [] op = "recut"    -> "lockDocument"
    [] op = "verdict"  -> "insertVerdict"

\* A store reads the passages, writes its batch and counts itself; a timeline
\* is read and then written.  Every other operation is one unit.
NextUnit(unit) ==
  CASE unit = "readPassages" -> "insertClaim"
    [] unit = "insertClaim"  -> "bump"
    [] unit = "getTimeline"  -> "updateTimeline"
    [] OTHER                 -> "none"

\* The units run by _run, which retries; the others are _atomic's.
Retried == {"readPassages", "bump", "getTimeline", "insertVerdict"}

\* An archival names its nodes in the order its caller listed them.
Orders == Bijection(1..Cardinality(Nodes), Nodes)

Init ==
  /\ db = [k \in Keys |->
             CASE k \in Nodes -> <<>>
               [] k \in {"round", "timeline"} -> 0
               [] k = "cut" -> NoCall
               [] OTHER -> NoRow]
  /\ locks = {}
  /\ conn = [s \in Servers |-> "open"]
  /\ holder = [s \in Servers |-> NoCall]
  /\ \E op \in [Calls -> Ops], todo \in [Calls -> Orders] :
       /\ \A c \in Calls : op[c] # "archive" => todo[c] = CHOOSE q \in Orders : TRUE
       /\ call = [c \in Calls |->
                   [op |-> op[c], at |-> "queued", unit |-> FirstUnit(op[c]), tries |-> 1,
                    tx |-> Empty, read |-> NoRow, todo |-> todo[c], told |-> "nothing"]]
  /\ landed = {} /\ bumps = 0 /\ cleared = 0 /\ losses = 0 /\ cuts = 0

----------------------------------------------------------------------------
(* Locks and transactions.                                                 *)

Row(k) == [on |-> k, mode |-> "row"]
NodesShare == [on |-> "nodes", mode |-> "share"]    \* LOCK TABLE node IN SHARE MODE
NodesWrite == [on |-> "nodes", mode |-> "write"]    \* taken by any write to the table
LabelsAlone == [on |-> "labels", mode |-> "row"]    \* SHARE ROW EXCLUSIVE: conflicts with itself

Conflict(a, b) == /\ a.on = b.on
                  /\ a.mode = "row" \/ a.mode # b.mode

\* What a transaction has written, and what it leaves of the database.
Put(k, value, tx) == [j \in DOMAIN tx \union {k} |-> IF j = k THEN value ELSE tx[j]]
Committed(tx) == [k \in DOMAIN db |-> IF k \in DOMAIN tx THEN tx[k] ELSE db[k]]

View(c, k) == IF k \in DOMAIN call[c].tx THEN call[c].tx[k] ELSE db[k]

\* SELECT ... FOR UPDATE: the node, counter or document row a transaction starts from.
\* Mutant: without it.
ForUpdateDropped(c) == {}

ForUpdate(c) ==
  CASE call[c].at = "selectNode"   -> {Row(Head(call[c].todo))}
    [] call[c].at = "lockDocument" -> {Row("cut")}
    [] call[c].at = "selectCounter" /\ db["counter"] # NoRow -> {Row("counter")}
    [] OTHER -> {}

\* LOCK TABLE.  Mutant: a re-cut that takes none.
TableLocksOfLabels(c) == IF call[c].at = "lockLabels" THEN {LabelsAlone} ELSE {}

TableLocks(c) ==
  CASE call[c].at = "lockLabels" -> {LabelsAlone}
    [] call[c].at = "lockNodes"  -> {NodesShare}
    [] OTHER -> {}

\* An INSERT or UPDATE holds the rows it writes, and its table against SHARE.
\* A timeline is written WHERE its version is the one read: another's matches
\* nothing and waits for nobody.
Writing(c) ==
  CASE call[c].at = "putNode" -> {Row(Head(call[c].todo)), NodesWrite}
    [] call[c].at \in {"setCounter", "bump"} -> {Row("counter")}
    [] call[c].at = "bumpRound" -> {Row("round")}
    [] call[c].at = "updateTimeline" /\ db["timeline"] = call[c].read -> {Row("timeline")}
    [] call[c].at = "insertClaim" -> {NodesWrite}
    [] OTHER -> {}

Wanted(c) == ForUpdate(c) \union TableLocks(c) \union Writing(c)

Blockers(c) == {l.by : l \in {h \in locks : h.by # c /\ \E w \in Wanted(c) : Conflict(h, w)}}

\* The statement at which c stands can run: its process is connected, c has the
\* process's lock, and no other transaction holds what it needs.
At(c, statement) ==
  /\ call[c].at = statement
  /\ holder[Home[c]] = c /\ conn[Home[c]] = "open"
  /\ Blockers(c) = {}

Held(c) == {[on |-> w.on, mode |-> w.mode, by |-> c] : w \in Wanted(c)}
Without(c) == {l \in locks : l.by # c}

----------------------------------------------------------------------------
(* How a unit ends.                                                        *)

Leave(c, told) ==
  /\ holder' = [holder EXCEPT ![Home[c]] = NoCall]
  /\ locks' = Without(c)
  /\ call' = [call EXCEPT ![c].at = "ended", ![c].told = told, ![c].tx = Empty]

NextQueued(c, read) ==
  /\ holder' = [holder EXCEPT ![Home[c]] = NoCall]
  /\ locks' = Without(c)
  /\ call' = [call EXCEPT ![c].at = "queued", ![c].unit = NextUnit(@), ![c].tries = 1,
                          ![c].tx = Empty, ![c].read = read]

Heard(c, read) ==
  /\ IF NextUnit(call[c].unit) = "none" THEN Leave(c, "done") ELSE NextQueued(c, read)
  /\ UNCHANGED <<conn, losses, cuts>>

\* The socket went under a unit.  _run tries it once more, on a fresh
\* connection; _atomic passes the error on, its transaction rolled back.
Raise(c) ==
  IF call[c].unit \in Retried /\ call[c].tries = 1
  THEN /\ call' = [call EXCEPT ![c].at = "rebuild", ![c].tries = 2]
       /\ locks' = Without(c) /\ UNCHANGED holder
  ELSE Leave(c, "failed")

\* What a statement did stands, and its reply never came.
Unheard(c) ==
  /\ losses < MaxLosses
  /\ losses' = losses + 1
  /\ conn' = [conn EXCEPT ![Home[c]] = "lost"]
  /\ Raise(c)
  /\ UNCHANGED cuts

CutShort(c) ==
  /\ cuts < MaxCuts
  /\ cuts' = cuts + 1
  /\ Leave(c, "cut")
  /\ UNCHANGED <<conn, losses>>

Reply(c) == Heard(c, call[c].read) \/ Unheard(c) \/ CutShort(c)

----------------------------------------------------------------------------
(* The connection and its lock.                                            *)

Take(c) ==
  /\ call[c].at = "queued" /\ holder[Home[c]] = NoCall
  /\ holder' = [holder EXCEPT ![Home[c]] = c]
  /\ call' = [call EXCEPT ![c].at = IF conn[Home[c]] = "open" THEN call[c].unit ELSE "rebuild"]
  /\ UNCHANGED <<db, locks, conn, landed, counts, losses, cuts>>

Reopened(c) ==
  /\ conn' = [conn EXCEPT ![Home[c]] = "open"]
  /\ call' = [call EXCEPT ![c].at = call[c].unit]
  /\ UNCHANGED <<locks, holder>>

\* The database answers, or is still down: then the caller hears it, and the
\* next call tries again.  Mutant: a rebuild through _run, which takes the lock.
RebuildThroughRun(c) ==
  /\ call[c].at = "rebuild" /\ holder[Home[c]] = NoCall
  /\ Reopened(c) \/ (Leave(c, "failed") /\ UNCHANGED conn)
  /\ UNCHANGED <<db, landed, counts, losses, cuts>>

Rebuild(c) ==
  /\ call[c].at = "rebuild" /\ holder[Home[c]] = c
  /\ Reopened(c) \/ (Leave(c, "failed") /\ UNCHANGED conn)
  /\ UNCHANGED <<db, landed, counts, losses, cuts>>

LoseConnection(s) ==
  /\ conn[s] = "open" /\ losses < MaxLosses
  /\ conn' = [conn EXCEPT ![s] = "lost"]
  /\ losses' = losses + 1
  /\ IF holder[s] = NoCall THEN UNCHANGED <<call, locks, holder>> ELSE Raise(holder[s])
  /\ UNCHANGED <<db, landed, counts, cuts>>

Cancel(c) ==
  /\ call[c].at # "ended" /\ cuts < MaxCuts
  /\ cuts' = cuts + 1
  /\ IF holder[Home[c]] = c THEN Leave(c, "cut")
     ELSE /\ call' = [call EXCEPT ![c].at = "ended", ![c].told = "cut"]
          /\ UNCHANGED <<holder, locks>>
  /\ UNCHANGED <<db, conn, landed, counts, losses>>

\* Each of two transactions waits for the other: the database aborts one.
Deadlock(c) ==
  /\ holder[Home[c]] = c /\ conn[Home[c]] = "open"
  /\ \E d \in Blockers(c) : holder[Home[d]] = d /\ c \in Blockers(d)
  /\ Leave(c, "failed")
  /\ UNCHANGED <<db, conn, landed, counts, losses, cuts>>

----------------------------------------------------------------------------
(* The statements.                                                         *)

Step(c, next, tx, read) ==
  /\ locks' = locks \union Held(c)
  /\ call' = [call EXCEPT ![c].at = next, ![c].tx = tx, ![c].read = read]
  /\ UNCHANGED <<db, conn, holder, landed, counts, losses, cuts>>

Refused(c) == Leave(c, "refused") /\ UNCHANGED <<db, conn, landed, counts, losses, cuts>>

Commit(c) ==
  /\ At(c, "commit")
  /\ db' = Committed(call[c].tx)
  /\ landed' = landed \union {c}
  /\ cleared' = IF call[c].op = "complete" THEN cleared + call[c].read ELSE cleared
  /\ Reply(c)
  /\ UNCHANGED bumps

\* set_node_status_tx: each node locked as it is read, its episode appended.
SelectNode(c) ==
  /\ At(c, "selectNode")
  /\ Step(c, "putNode", call[c].tx, View(c, Head(call[c].todo)))

PutNode(c) ==
  LET n == Head(call[c].todo)
      rest == Tail(call[c].todo)
  IN /\ At(c, "putNode")
     /\ locks' = locks \union Held(c)
     /\ call' = [call EXCEPT ![c].tx = Put(n, Append(call[c].read, c), @), ![c].todo = rest,
                             ![c].at = IF rest = <<>> THEN "commit" ELSE "selectNode"]
     /\ UNCHANGED <<db, conn, holder, landed, counts, losses, cuts>>

\* complete_reflect_round: zero the counter, and advance the round if it counted.
SelectCounter(c) ==
  /\ At(c, "selectCounter")
  /\ IF db["counter"] = NoRow THEN Step(c, "commit", call[c].tx, 0)
     ELSE Step(c, "setCounter", call[c].tx, db["counter"])

SetCounter(c) ==
  /\ At(c, "setCounter")
  /\ Step(c, IF call[c].read > 0 THEN "bumpRound" ELSE "commit",
          Put("counter", 0, call[c].tx), call[c].read)

BumpRound(c) ==
  /\ At(c, "bumpRound")
  /\ Step(c, "commit", Put("round", db["round"] + 1, call[c].tx), call[c].read)

\* store_decomposition: the passages it cites, its batch, and the count of stores.
ReadPassages(c) ==
  /\ At(c, "readPassages")
  /\ Heard(c, db["cut"])
  /\ UNCHANGED <<db, landed, counts>>

InsertClaim(c) ==
  /\ At(c, "insertClaim")
  /\ Step(c, "commit", Put(c, call[c].read, call[c].tx), call[c].read)

Bump(c) ==
  /\ At(c, "bump")
  /\ db' = [db EXCEPT !["counter"] = IF @ = NoRow THEN 1 ELSE @ + 1]
  /\ bumps' = bumps + 1
  /\ Reply(c)
  /\ UNCHANGED <<landed, cleared>>

\* store_timeline: replaced only where the stored version is the one read.
GetTimeline(c) ==
  /\ At(c, "getTimeline")
  /\ Heard(c, db["timeline"])
  /\ UNCHANGED <<db, landed, counts>>

UpdateTimeline(c) ==
  /\ At(c, "updateTimeline")
  /\ IF db["timeline"] = call[c].read
     THEN Step(c, "commit", Put("timeline", call[c].read + 1, call[c].tx), call[c].read)
     ELSE Refused(c)

\* store_relation_label: one record per label, its identity kept.
LockLabels(c) == At(c, "lockLabels") /\ Step(c, "readLabel", call[c].tx, NoRow)

ReadLabel(c) == At(c, "readLabel") /\ Step(c, "writeLabel", call[c].tx, db["label"])

WriteLabel(c) ==
  LET stored == IF call[c].read = NoRow THEN [id |-> c, said |-> {c}]
                ELSE [call[c].read EXCEPT !.said = @ \union {c}]
  IN /\ At(c, "writeLabel")
     /\ Step(c, "commit", Put("label", stored, call[c].tx), call[c].read)

\* resegment_tx: nothing cites the passages, so they are replaced.
LockDocument(c) == At(c, "lockDocument") /\ Step(c, "lockNodes", call[c].tx, NoRow)

LockNodes(c) == At(c, "lockNodes") /\ Step(c, "countCiting", call[c].tx, NoRow)

Claims == {c \in Calls : call[c].op = "ingest" /\ db[c] # NoRow}

CountCiting(c) ==
  /\ At(c, "countCiting")
  /\ IF \E d \in Claims : db[d] = db["cut"] THEN Refused(c)
     ELSE Step(c, "replacePassages", call[c].tx, NoRow)

ReplacePassages(c) ==
  /\ At(c, "replacePassages")
  /\ Step(c, "commit", Put("cut", c, call[c].tx), NoRow)

\* record_relation_verdict: a plain insert, so a retry of one that landed fails.
InsertVerdict(c) ==
  /\ At(c, "insertVerdict")
  /\ IF db[c] = NoRow
     THEN /\ db' = [db EXCEPT ![c] = c]
          /\ landed' = landed \union {c}
          /\ Reply(c)
          /\ UNCHANGED counts
     ELSE /\ Leave(c, "failed")
          /\ UNCHANGED <<db, conn, landed, counts, losses, cuts>>

Advance(c) ==
  \/ Take(c) \/ Rebuild(c) \/ Commit(c) \/ Deadlock(c)
  \/ SelectNode(c) \/ PutNode(c) \/ SelectCounter(c) \/ SetCounter(c) \/ BumpRound(c)
  \/ ReadPassages(c) \/ InsertClaim(c) \/ Bump(c) \/ GetTimeline(c) \/ UpdateTimeline(c)
  \/ LockLabels(c) \/ ReadLabel(c) \/ WriteLabel(c)
  \/ LockDocument(c) \/ LockNodes(c) \/ CountCiting(c) \/ ReplacePassages(c) \/ InsertVerdict(c)

Next ==
  \/ \E c \in Calls : Advance(c) \/ Cancel(c)
  \/ \E s \in Servers : LoseConnection(s)

Spec == Init /\ [][Next]_vars

\* While some call can go on, one does: a loop runs the task that holds its
\* lock, and the database answers, or says why not.
Fairness == WF_vars(\E c \in Calls : Advance(c))
FairSpec == Spec /\ Fairness

----------------------------------------------------------------------------
(* Properties.                                                             *)

Statements ==
  {"queued", "rebuild", "ended", "commit", "selectNode", "putNode", "selectCounter", "setCounter",
   "bumpRound", "readPassages", "insertClaim", "bump", "getTimeline", "updateTimeline", "lockLabels",
   "readLabel", "writeLabel", "lockDocument", "lockNodes", "countCiting", "replacePassages",
   "insertVerdict"}

\* Every variable keeps its type, no unit is tried a third time, and a lock of
\* the database belongs to the unit its process is running.
TypeOK ==
  /\ DOMAIN db = Keys
  /\ \A n \in Nodes : db[n] \in Seq(Calls)
  /\ db["round"] \in Nat /\ db["timeline"] \in Nat /\ db["cut"] \in Calls \union {NoCall}
  /\ db["counter"] \in Nat \union {NoRow}
  /\ locks \subseteq [on : Keys \union {"nodes", "labels"}, mode : {"row", "share", "write"}, by : Calls]
  /\ \A l \in locks : holder[Home[l.by]] = l.by
  /\ conn \in [Servers -> {"open", "lost"}]
  /\ holder \in [Servers -> Calls \union {NoCall}]
  /\ \A c \in Calls : /\ call[c].op \in Ops /\ call[c].at \in Statements
                      /\ call[c].tries \in {1, 2} /\ DOMAIN call[c].tx \subseteq Keys
                      /\ call[c].told \in {"nothing", "done", "refused", "failed", "cut"}
  /\ landed \subseteq Calls /\ bumps \in Nat /\ cleared \in Nat
  /\ losses \in 0..MaxLosses /\ cuts \in 0..MaxCuts

Landed(op) == {c \in landed : call[c].op = op}

\* "Two servers retiring one node apply their episodes one after the other
\* rather than one over the other": a node's history holds one episode of
\* every archival that landed, and of no other.
EpisodesAreKept ==
  \A n \in Nodes : /\ Range(db[n]) = Landed("archive")
                   /\ Len(db[n]) = Cardinality(Landed("archive"))

\* "Two bumps at once both count", and a store lands "either before the reset,
\* and is counted in what it returns, or after it": what the completed rounds
\* cleared and what the counter holds add up to every count made, and the
\* round has moved once for each completion that cleared something.
StoresAreCounted ==
  /\ bumps = cleared + (IF db["counter"] = NoRow THEN 0 ELSE db["counter"])
  /\ db["round"] = Cardinality({c \in Landed("complete") : call[c].read > 0})

\* A store is counted once, save that a count whose reply was lost may be made
\* again: at most one too many for each connection lost, and never one for a
\* store whose batch did not land.
StoresCountOnce ==
  /\ Cardinality({c \in Calls : call[c].op = "ingest" /\ call[c].told = "done"}) <= bumps
  /\ bumps <= Cardinality(Landed("ingest")) + losses

\* A label has one record: whoever coined it first, and what everyone whose
\* write landed said of it since.
LabelIsMerged ==
  Landed("coin") # {} =>
    /\ db["label"].id \in Landed("coin")
    /\ db["label"].said = Landed("coin")

\* "Of two servers writing one timeline from one version, the second is
\* refused rather than written over the first": it moves one version at a
\* time, written by whoever read the version before.
TimelineMovesOn ==
  [][db'["timeline"] # db["timeline"] =>
       /\ db'["timeline"] = db["timeline"] + 1
       /\ \E c \in landed' \ landed : call[c].op = "timeline" /\ call[c].read = db["timeline"]]_vars

\* A re-cut deletes no passage that a committed claim cites, whichever server
\* the claim is written by and however the two are timed.
RecutSparesTheCited ==
  [][db'["cut"] # db["cut"] => \A c \in Claims : db[c] # db["cut"]]_vars

\* Every call ends: nobody waits for ever on the process's lock, on a lock of
\* the database, or on a connection that is being rebuilt.
CallsEnd == <>(\A c \in Calls : call[c].at = "ended")

\* The shape of the state, and what landed is what is there: no episode, count or
\* word on a label is lost to another server's write, and none is made up.
NothingIsLost == TypeOK /\ EpisodesAreKept /\ StoresAreCounted /\ StoresCountOnce /\ LabelIsMerged

\* What is replaced was read as it stands, and nothing depends on it.
NothingIsOverwritten == TimelineMovesOn /\ RecutSparesTheCited
=============================================================================
