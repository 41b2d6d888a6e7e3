------------------------ MODULE PostgresServersProofs -------------------------
(***************************************************************************)
(* For any number of servers, tool calls and nodes of one graph: what a    *)
(* transaction has read, it still stands on when it commits, because the   *)
(* locks it took keep everyone else from writing it.  So nothing that      *)
(* landed is lost, and nothing is written over.                            *)
(***************************************************************************)
EXTENDS PostgresServers, FiniteSetTheorems, SequenceTheorems, TLAPS

USE ServersAssumption DEF Keys, Singles

Resting == {"queued", "rebuild", "ended"}

\* The units of each operation, and the statements of each unit.
Belongs(op, unit, at) ==
  \/ op = "archive"  /\ unit = "selectNode"     /\ at \in Resting \union {"selectNode", "putNode", "commit"}
  \/ op = "complete" /\ unit = "selectCounter"
       /\ at \in Resting \union {"selectCounter", "setCounter", "bumpRound", "commit"}
  \/ op = "ingest"   /\ unit = "readPassages"   /\ at \in Resting \union {"readPassages"}
  \/ op = "ingest"   /\ unit = "insertClaim"    /\ at \in Resting \union {"insertClaim", "commit"}
  \/ op = "ingest"   /\ unit = "bump"           /\ at \in Resting \union {"bump"}
  \/ op = "timeline" /\ unit = "getTimeline"    /\ at \in Resting \union {"getTimeline"}
  \/ op = "timeline" /\ unit = "updateTimeline" /\ at \in Resting \union {"updateTimeline", "commit"}
  \/ op = "coin"     /\ unit = "lockLabels"
       /\ at \in Resting \union {"lockLabels", "readLabel", "writeLabel", "commit"}
  \/ op = "recut"    /\ unit = "lockDocument"
       /\ at \in Resting \union {"lockDocument", "lockNodes", "countCiting", "replacePassages", "commit"}
  \/ op = "verdict"  /\ unit = "insertVerdict"  /\ at \in Resting \union {"insertVerdict"}

Tolds == {"nothing", "done", "refused", "failed", "cut"}

CallOf(op, at, unit, tries, tx, read, todo, told) ==
  [op |-> op, at |-> at, unit |-> unit, tries |-> tries, tx |-> tx, read |-> read, todo |-> todo,
   told |-> told]

Shape(c) ==
  /\ call[c] = CallOf(call[c].op, call[c].at, call[c].unit, call[c].tries, call[c].tx, call[c].read,
                      call[c].todo, call[c].told)
  /\ Belongs(call[c].op, call[c].unit, call[c].at)
  /\ call[c].tries \in {1, 2} /\ DOMAIN call[c].tx \subseteq Keys
  /\ call[c].told \in Tolds /\ (call[c].at # "ended" => call[c].told = "nothing")

CallTypes == call = [c \in Calls |-> call[c]] /\ \A c \in Calls : Shape(c)

DbTypes ==
  /\ db = [k \in Keys |-> db[k]]
  /\ \A n \in Nodes : db[n] \in Seq(Calls)
  /\ db["round"] \in Nat /\ db["timeline"] \in Nat /\ db["cut"] \in Calls \union {NoCall}
  /\ db["counter"] \in Nat \union {NoRow}

LockModes == [on : Keys \union {"nodes", "labels"}, mode : {"row", "share", "write"}]
Holding(c, w) == [on |-> w.on, mode |-> w.mode, by |-> c]
Holds(c, w) == Holding(c, w) \in locks

LockTypes ==
  /\ locks \subseteq [on : Keys \union {"nodes", "labels"}, mode : {"row", "share", "write"}, by : Calls]
  /\ \A l \in locks : holder[Home[l.by]] = l.by
  /\ holder \in [Servers -> Calls \union {NoCall}]
  /\ \A s \in Servers : holder[s] # NoCall => Home[holder[s]] = s

\* Who has a process's lock is at work.
HoldersRun ==
  \A s \in Servers : holder[s] # NoCall => call[holder[s]].at \notin {"queued", "ended"}

RestTypes ==
  /\ conn \in [Servers -> {"open", "lost"}]
  /\ landed \subseteq Calls
  /\ losses \in 0..MaxLosses /\ cuts \in 0..MaxCuts

\* No two transactions hold locks that conflict.
LocksAreApart == \A l, h \in locks : l.by # h.by => ~Conflict(l, h)

\* What holds a key for the transaction that is to write it.
GuardOf(k) == IF k = "label" THEN LabelsAlone ELSE Row(k)

\* No committed claim cites the passages as they are cut.
NoneCite == \A d \in Claims : db[d] # db["cut"]

Coined(label, c) ==
  IF label = NoRow THEN [id |-> c, said |-> {c}] ELSE [label EXCEPT !.said = @ \union {c}]

Zeroed == Put("counter", 0, Empty)

\* What each operation has read and means to write is still so, and is locked.
ArchiveStands(c) ==
  call[c].op = "archive" /\ call[c].at # "ended" =>
    /\ call[c].todo \in Seq(Nodes) /\ IsInjective(call[c].todo)
    /\ DOMAIN call[c].tx = Nodes \ Range(call[c].todo)
    /\ \A n \in DOMAIN call[c].tx : Holds(c, Row(n)) /\ call[c].tx[n] = Append(db[n], c)
    /\ call[c].at = "commit" <=> call[c].todo = <<>>
    /\ call[c].at = "putNode" =>
         Holds(c, Row(Head(call[c].todo))) /\ call[c].read = db[Head(call[c].todo)]

CompleteStands(c) ==
  call[c].op = "complete" /\ call[c].at # "ended" =>
    /\ call[c].at \notin {"bumpRound", "commit"} => call[c].tx = Empty
    /\ call[c].at \in {"setCounter", "bumpRound"} =>
         Holds(c, Row("counter")) /\ call[c].read = db["counter"] /\ call[c].read \in Nat
    /\ call[c].at = "bumpRound" => call[c].read > 0 /\ call[c].tx = Zeroed
    /\ call[c].at = "commit" =>
         \/ call[c].read = 0 /\ call[c].tx = Empty
         \/ /\ Holds(c, Row("counter")) /\ call[c].read = db["counter"]
            /\ call[c].read = 0 /\ call[c].tx = Zeroed
         \/ /\ Holds(c, Row("counter")) /\ call[c].read = db["counter"] /\ Holds(c, Row("round"))
            /\ call[c].read \in Nat /\ call[c].read > 0
            /\ call[c].tx = Put("round", db["round"] + 1, Zeroed)

IngestStands(c) ==
  call[c].op = "ingest" /\ call[c].at # "ended" =>
    /\ call[c].at # "commit" => call[c].tx = Empty
    /\ call[c].at = "commit" => call[c].tx = Put(c, call[c].read, Empty) /\ Holds(c, NodesWrite)

TimelineStands(c) ==
  call[c].op = "timeline" /\ call[c].at # "ended" =>
    /\ call[c].at # "commit" => call[c].tx = Empty
    /\ call[c].at = "commit" =>
         /\ call[c].tx = Put("timeline", call[c].read + 1, Empty)
         /\ Holds(c, Row("timeline")) /\ call[c].read = db["timeline"]

CoinStands(c) ==
  call[c].op = "coin" /\ call[c].at # "ended" =>
    /\ call[c].at # "commit" => call[c].tx = Empty
    /\ call[c].at \in {"readLabel", "writeLabel", "commit"} => Holds(c, LabelsAlone)
    /\ call[c].at = "writeLabel" => call[c].read = db["label"]
    /\ call[c].at = "commit" => call[c].tx = Put("label", Coined(db["label"], c), Empty)

RecutStands(c) ==
  call[c].op = "recut" /\ call[c].at # "ended" =>
    /\ call[c].at # "commit" => call[c].tx = Empty
    /\ call[c].at \in {"lockNodes", "countCiting", "replacePassages", "commit"} => Holds(c, Row("cut"))
    /\ call[c].at \in {"countCiting", "replacePassages", "commit"} => Holds(c, NodesShare)
    /\ call[c].at \in {"replacePassages", "commit"} => NoneCite
    /\ call[c].at = "commit" => call[c].tx = Put("cut", c, Empty)

VerdictStands(c) == call[c].op = "verdict" => call[c].tx = Empty

Stands(c) ==
  /\ ArchiveStands(c) /\ CompleteStands(c) /\ IngestStands(c) /\ TimelineStands(c)
  /\ CoinStands(c) /\ RecutStands(c) /\ VerdictStands(c)

\* A call whose write landed has no more to write, save a store that is to be counted and a
\* verdict whose reply was lost.
Landing(c) ==
  /\ c \in landed => \/ call[c].at = "ended" \/ call[c].op = "verdict"
                     \/ call[c].op = "ingest" /\ call[c].unit = "bump"
  /\ call[c].op = "ingest" /\ call[c].unit = "bump" => c \in landed

\* A store is counted by each of its tries; those that are over are counted at most once for
\* each, but for the replies that were lost.
StoresDone == {c \in Calls : call[c].op = "ingest" /\ call[c].told = "done"}
StoresOver == {c \in Landed("ingest") : call[c].at = "ended"}

CountsAreDue ==
  /\ bumps \in Nat /\ cleared \in Nat
  /\ Cardinality(StoresDone) <= bumps
  /\ bumps <= Cardinality(StoresOver) + losses

LabelIsKept ==
  \/ db["label"] = NoRow /\ Landed("coin") = {}
  \/ \E i \in Landed("coin") : db["label"] = [id |-> i, said |-> Landed("coin")]

Totals == EpisodesAreKept /\ StoresAreCounted /\ CountsAreDue /\ LabelIsKept

ServersInv ==
  /\ CallTypes /\ DbTypes /\ LockTypes /\ HoldersRun /\ RestTypes /\ LocksAreApart
  /\ \A c \in Calls : Stands(c) /\ Landing(c)
  /\ Totals

--------------------------------------------------------------------------------
(* Locks, and what a call becomes.                                           *)

Becomes(c, r) == call' = [d \in Calls |-> IF d = c THEN r ELSE call[d]]

LEMMA EmptyIs == DOMAIN Empty = {}
BY DEF Empty

LEMMA PutIs ==
    ASSUME NEW k, NEW v, NEW tx
    PROVE  /\ DOMAIN Put(k, v, tx) = DOMAIN tx \union {k}
           /\ Put(k, v, tx)[k] = v
           /\ \A j \in DOMAIN tx \ {k} : Put(k, v, tx)[j] = tx[j]
BY DEF Put

Fields == {"op", "at", "unit", "tries", "tx", "read", "todo", "told"}

LEMMA CallIs ==
    ASSUME NEW r, r = [f \in Fields |-> r[f]]
    PROVE  r = CallOf(r.op, r.at, r.unit, r.tries, r.tx, r.read, r.todo, r.told)
BY DEF CallOf, Fields

LEMMA FieldsAre ==
    ASSUME CallTypes
    PROVE  /\ DOMAIN call = Calls
           /\ \A c \in Calls : call[c] = [f \in Fields |-> call[c][f]]
<1>1. DOMAIN call = Calls
    BY DEF CallTypes
<1>2. ASSUME NEW c \in Calls PROVE call[c] = [f \in Fields |-> call[c][f]]
  <2>1. call[c] = CallOf(call[c].op, call[c].at, call[c].unit, call[c].tries, call[c].tx, call[c].read,
                         call[c].todo, call[c].told)
      BY DEF CallTypes, Shape
  <2>2. ASSUME NEW op, NEW at, NEW unit, NEW tries, NEW tx, NEW read, NEW todo, NEW told
        PROVE  CallOf(op, at, unit, tries, tx, read, todo, told)
                 = [f \in Fields |-> CallOf(op, at, unit, tries, tx, read, todo, told)[f]]
      BY DEF CallOf, Fields
  <2> QED BY <2>1, <2>2
<1> QED BY <1>1, <1>2

LEMMA LeaveIs ==
    ASSUME CallTypes, NEW c \in Calls, NEW told, Leave(c, told)
    PROVE  Becomes(c, CallOf(call[c].op, "ended", call[c].unit, call[c].tries,
                             Empty, call[c].read, call[c].todo, told))
<1>1. call' = [call EXCEPT ![c].at = "ended", ![c].told = told, ![c].tx = Empty]
    BY DEF Leave
<1> DEFINE r == call'[c]
<1>2. DOMAIN call' = Calls /\ call' = [d \in Calls |-> call'[d]] /\ \A d \in Calls \ {c} : call'[d] = call[d]
    BY <1>1, FieldsAre
<1>3. r = [f \in Fields |-> r[f]]
    BY <1>1, FieldsAre
<1>4. /\ r.op = call[c].op /\ r.at = "ended" /\ r.unit = call[c].unit /\ r.tries = call[c].tries
      /\ r.tx = Empty /\ r.read = call[c].read /\ r.todo = call[c].todo /\ r.told = told
    BY <1>1, FieldsAre DEF Fields
<1> HIDE DEF r
<1>5. r = CallOf(r.op, r.at, r.unit, r.tries, r.tx, r.read, r.todo, r.told)
    BY <1>3, CallIs
<1> QED BY <1>2, <1>4, <1>5 DEF Becomes, r

LEMMA NextQueuedIs ==
    ASSUME CallTypes, NEW c \in Calls, NEW read, NextQueued(c, read)
    PROVE  Becomes(c, CallOf(call[c].op, "queued", NextUnit(call[c].unit), 1,
                             Empty, read, call[c].todo, call[c].told))
<1>1. call' = [call EXCEPT ![c].at = "queued", ![c].unit = NextUnit(@), ![c].tries = 1,
                          ![c].tx = Empty, ![c].read = read]
    BY DEF NextQueued
<1> DEFINE r == call'[c]
<1>2. DOMAIN call' = Calls /\ call' = [d \in Calls |-> call'[d]] /\ \A d \in Calls \ {c} : call'[d] = call[d]
    BY <1>1, FieldsAre
<1>3. r = [f \in Fields |-> r[f]]
    BY <1>1, FieldsAre
<1>4. /\ r.op = call[c].op /\ r.at = "queued" /\ r.unit = NextUnit(call[c].unit) /\ r.tries = 1
      /\ r.tx = Empty /\ r.read = read /\ r.todo = call[c].todo /\ r.told = call[c].told
    BY <1>1, FieldsAre DEF Fields
<1> HIDE DEF r
<1>5. r = CallOf(r.op, r.at, r.unit, r.tries, r.tx, r.read, r.todo, r.told)
    BY <1>3, CallIs
<1> QED BY <1>2, <1>4, <1>5 DEF Becomes, r

LEMMA StepIs ==
    ASSUME CallTypes, NEW c \in Calls, NEW next, NEW tx, NEW read, Step(c, next, tx, read)
    PROVE  Becomes(c, CallOf(call[c].op, next, call[c].unit, call[c].tries,
                             tx, read, call[c].todo, call[c].told))
<1>1. call' = [call EXCEPT ![c].at = next, ![c].tx = tx, ![c].read = read]
    BY DEF Step
<1> DEFINE r == call'[c]
<1>2. DOMAIN call' = Calls /\ call' = [d \in Calls |-> call'[d]] /\ \A d \in Calls \ {c} : call'[d] = call[d]
    BY <1>1, FieldsAre
<1>3. r = [f \in Fields |-> r[f]]
    BY <1>1, FieldsAre
<1>4. /\ r.op = call[c].op /\ r.at = next /\ r.unit = call[c].unit /\ r.tries = call[c].tries
      /\ r.tx = tx /\ r.read = read /\ r.todo = call[c].todo /\ r.told = call[c].told
    BY <1>1, FieldsAre DEF Fields
<1> HIDE DEF r
<1>5. r = CallOf(r.op, r.at, r.unit, r.tries, r.tx, r.read, r.todo, r.told)
    BY <1>3, CallIs
<1> QED BY <1>2, <1>4, <1>5 DEF Becomes, r

\* A unit that is tried again, or a call that ends.
LEMMA RaiseIs ==
    ASSUME CallTypes, NEW c \in Calls, Raise(c)
    PROVE  \/ /\ call[c].unit \in Retried /\ call[c].tries = 1 /\ locks' = Without(c) /\ holder' = holder
              /\ Becomes(c, CallOf(call[c].op, "rebuild", call[c].unit, 2,
                                   call[c].tx, call[c].read, call[c].todo, call[c].told))
           \/ Leave(c, "failed")
<1>1. CASE call[c].unit \in Retried /\ call[c].tries = 1
  <2>1. /\ locks' = Without(c) /\ holder' = holder
        /\ call' = [call EXCEPT ![c].at = "rebuild", ![c].tries = 2]
      BY <1>1 DEF Raise
  <2>2. Becomes(c, CallOf(call[c].op, "rebuild", call[c].unit, 2,
                          call[c].tx, call[c].read, call[c].todo, call[c].told))
    <3> DEFINE r == call'[c]
    <3>2. DOMAIN call' = Calls /\ call' = [d \in Calls |-> call'[d]] /\ \A d \in Calls \ {c} : call'[d] = call[d]
        BY <2>1, FieldsAre
    <3>3. r = [f \in Fields |-> r[f]]
        BY <2>1, FieldsAre
    <3>4. /\ r.op = call[c].op /\ r.at = "rebuild" /\ r.unit = call[c].unit /\ r.tries = 2
          /\ r.tx = call[c].tx /\ r.read = call[c].read /\ r.todo = call[c].todo /\ r.told = call[c].told
        BY <2>1, FieldsAre DEF Fields
    <3> HIDE DEF r
    <3>5. r = CallOf(r.op, r.at, r.unit, r.tries, r.tx, r.read, r.todo, r.told)
        BY <3>3, CallIs
    <3> QED BY <3>2, <3>4, <3>5 DEF Becomes, r
  <2> QED BY <1>1, <2>1, <2>2
<1>2. CASE ~(call[c].unit \in Retried /\ call[c].tries = 1)
    BY <1>2 DEF Raise
<1> QED BY <1>1, <1>2

\* What a transaction locks does not conflict with what another holds.
LEMMA HeldApart ==
    ASSUME LocksAreApart, LockTypes, NEW c \in Calls, Blockers(c) = {}, Wanted(c) \subseteq LockModes,
           locks' = locks \union Held(c), holder' = holder, holder[Home[c]] = c
    PROVE  /\ LocksAreApart' /\ LockTypes'
           /\ \A w \in Wanted(c) : Holds(c, w)'
           /\ \A w : Holds(c, w) => Holds(c, w)'
           /\ \A d \in Calls \ {c} : \A w : Holds(d, w)' <=> Holds(d, w)
<1>1. \A h \in locks : h.by # c => \A w \in Wanted(c) : ~Conflict(h, w)
    BY DEF Blockers
<1>2. \A l \in Held(c) : \E w \in Wanted(c) : l = Holding(c, w)
    BY DEF Held, Holding
<1>3. \A l \in Held(c) : l.by = c
    BY <1>2 DEF Holding
<1>4. \A h \in locks, l \in Held(c) : h.by # c => ~Conflict(h, l) /\ ~Conflict(l, h)
    BY <1>1, <1>2 DEF Conflict, Holding
<1>5. LocksAreApart'
    BY <1>3, <1>4 DEF LocksAreApart, Conflict
<1>6. Held(c) \subseteq [on : Keys \union {"nodes", "labels"}, mode : {"row", "share", "write"}, by : Calls]
    BY <1>2 DEF LockModes, Holding
<1>7. LockTypes'
    BY <1>3, <1>6 DEF LockTypes
<1>8. \A w \in Wanted(c) : Holds(c, w)'
    BY DEF Holds, Holding, Held
<1>9. \A w : Holds(c, w) => Holds(c, w)'
    BY DEF Holds
<1>10. \A d \in Calls \ {c} : \A w : Holds(d, w)' <=> Holds(d, w)
    BY <1>3 DEF Holds, Holding
<1> QED BY <1>5, <1>7, <1>8, <1>9, <1>10

\* What a transaction leaves behind is nobody's.
LEMMA DroppedApart ==
    ASSUME LocksAreApart, LockTypes, NEW c \in Calls, locks' = Without(c),
           holder' \in {holder, [holder EXCEPT ![Home[c]] = NoCall]}, holder[Home[c]] = c
    PROVE  /\ LocksAreApart' /\ LockTypes'
           /\ \A w : ~Holds(c, w)'
           /\ \A d \in Calls \ {c} : \A w : Holds(d, w)' <=> Holds(d, w)
<1>1. locks' \subseteq locks /\ \A l \in locks' : l.by # c
    BY DEF Without
<1>2. LocksAreApart'
    BY <1>1 DEF LocksAreApart, Conflict
<1>3. \A l \in locks' : Home[l.by] # Home[c]
    BY <1>1 DEF LockTypes
<1>4. Home[c] \in Servers
    OBVIOUS
<1>5. \A s \in Servers : holder'[s] = holder[s] \/ holder'[s] = NoCall
    BY <1>4 DEF LockTypes
<1>6. \A l \in locks' : holder'[Home[l.by]] = l.by
    BY <1>1, <1>3, <1>4 DEF LockTypes
<1>7. LockTypes'
    BY <1>1, <1>4, <1>5, <1>6 DEF LockTypes
<1>8. /\ \A w : ~Holds(c, w)'
      /\ \A d \in Calls \ {c} : \A w : Holds(d, w)' <=> Holds(d, w)
    BY DEF Holds, Holding, Without
<1> QED BY <1>2, <1>7, <1>8

\* A row, or the table of labels, is locked by one transaction.
LEMMA GuardsApart ==
    ASSUME LocksAreApart, NEW c \in Calls, NEW d \in Calls, c # d, NEW w, w.mode = "row",
           Holds(c, w), Holds(d, w)
    PROVE  FALSE
BY DEF LocksAreApart, Conflict, Holds, Holding

LEMMA ShareApart ==
    ASSUME LocksAreApart, NEW c \in Calls, NEW d \in Calls, c # d,
           Holds(c, NodesShare), Holds(d, NodesWrite)
    PROVE  FALSE
BY DEF LocksAreApart, Conflict, Holds, Holding, NodesShare, NodesWrite

--------------------------------------------------------------------------------
(* A step of one call.                                                       *)

LEMMA OpsAreFixed ==
    ASSUME CallTypes, NEW c \in Calls, NEW r, Becomes(c, r), r.op = call[c].op
    PROVE  /\ \A d \in Calls : call'[d].op = call[d].op
           /\ call'[c] = r /\ \A d \in Calls \ {c} : call'[d] = call[d]
BY DEF Becomes

\* Who waits for its turn stands where it stood, while nobody writes what it has locked.
LEMMA OthersStand ==
    ASSUME ServersInv, NEW d \in Calls, call'[d] = call[d],
           \A w : Holds(d, w)' <=> Holds(d, w),
           \A k \in Nodes \union Singles : Holds(d, GuardOf(k)) => db'[k] = db[k],
           Holds(d, NodesShare) /\ Holds(d, Row("cut")) /\ NoneCite => NoneCite'
    PROVE  Stands(d)'
<1>1. Stands(d)
    BY DEF ServersInv
<1>2. /\ \A n \in Nodes : Holds(d, Row(n)) => db'[n] = db[n]
      /\ \A k \in {"counter", "round", "timeline", "cut"} : Holds(d, Row(k)) => db'[k] = db[k]
      /\ Holds(d, LabelsAlone) => db'["label"] = db["label"]
    BY DEF GuardOf
<1>3. ArchiveStands(d)'
  <2>1. SUFFICES ASSUME call[d].op = "archive" /\ call[d].at # "ended" PROVE ArchiveStands(d)'
      BY DEF ArchiveStands
  <2>2. ArchiveStands(d)
      BY <1>1 DEF Stands
  <2>3. \A n \in DOMAIN call[d].tx : n \in Nodes /\ Holds(d, Row(n)) /\ call[d].tx[n] = Append(db[n], d)
      BY <2>1, <2>2 DEF ArchiveStands
  <2>4. \A n \in DOMAIN call'[d].tx : Holds(d, Row(n))' /\ call'[d].tx[n] = Append(db'[n], d)
      BY <1>2, <2>3
  <2>5. ASSUME call[d].at = "putNode"
        PROVE  Holds(d, Row(Head(call[d].todo)))' /\ call[d].read = db'[Head(call[d].todo)]
    <3>1. call[d].todo \in Seq(Nodes) /\ call[d].todo # <<>>
        BY <2>1, <2>2, <2>5 DEF ArchiveStands
    <3>2. Head(call[d].todo) \in Nodes
        BY <3>1
    <3> QED BY <1>2, <2>1, <2>2, <2>5, <3>2 DEF ArchiveStands
  <2> QED BY <2>1, <2>2, <2>4, <2>5 DEF ArchiveStands
<1>4. CompleteStands(d)'
    BY <1>1, <1>2 DEF Stands, CompleteStands
<1>5. IngestStands(d)' /\ VerdictStands(d)'
    BY <1>1 DEF Stands, IngestStands, VerdictStands
<1>6. TimelineStands(d)' /\ CoinStands(d)'
    BY <1>1, <1>2 DEF Stands, TimelineStands, CoinStands
<1>7. RecutStands(d)'
    BY <1>1 DEF Stands, RecutStands
<1> QED BY <1>3, <1>4, <1>5, <1>6, <1>7 DEF Stands

\* The invariant after a step of one call, from what the step is to show of that call and of
\* the database.
LEMMA FrameInv ==
    ASSUME ServersInv, NEW c \in Calls, NEW r, Becomes(c, r), r.op = call[c].op,
           Shape(c)', DbTypes', LockTypes', RestTypes', LocksAreApart', Totals',
           Stands(c)', Landing(c)', landed \subseteq landed', landed' \subseteq landed \union {c},
           \A s \in Servers : holder'[s] \in {holder[s], NoCall, c},
           \A s \in Servers : holder'[s] = c => r.at \notin {"queued", "ended"},
           \A d \in Calls \ {c} : \A w : Holds(d, w)' <=> Holds(d, w),
           \A d \in Calls \ {c} : \A k \in Nodes \union Singles : Holds(d, GuardOf(k)) => db'[k] = db[k],
           \A d \in Calls \ {c} : Holds(d, NodesShare) /\ Holds(d, Row("cut")) /\ NoneCite => NoneCite'
    PROVE  ServersInv'
<1>1. call'[c] = r /\ \A d \in Calls \ {c} : call'[d] = call[d]
    BY DEF Becomes
<1>2. \A d \in Calls \ {c} : Stands(d)'
    BY <1>1, OthersStand
<1>3. \A d \in Calls \ {c} : Landing(d)'
    BY <1>1 DEF ServersInv, Landing
<1>4. CallTypes'
  <2>1. call' = [d \in Calls |-> call'[d]]
      BY DEF Becomes
  <2>2. \A d \in Calls \ {c} : Shape(d)'
      BY <1>1 DEF ServersInv, CallTypes, Shape
  <2> QED BY <2>1, <2>2 DEF CallTypes
<1>5. HoldersRun'
  <2> SUFFICES ASSUME NEW s \in Servers, holder'[s] # NoCall
               PROVE  call'[holder'[s]].at \notin {"queued", "ended"}
      BY DEF HoldersRun
  <2>1. CASE holder'[s] = c
      BY <1>1, <2>1
  <2>2. CASE holder'[s] # c
    <3>1. holder'[s] = holder[s] /\ holder[s] \in Calls
        BY <2>2 DEF ServersInv, LockTypes
    <3> QED BY <1>1, <2>2, <3>1 DEF ServersInv, HoldersRun
  <2> QED BY <2>1, <2>2
<1> QED BY <1>2, <1>3, <1>4, <1>5 DEF ServersInv

LEMMA NoneCiteIs ==
    ASSUME \A d \in Calls : call'[d].op = call[d].op, db' = db
    PROVE  NoneCite <=> NoneCite'
BY DEF NoneCite, Claims

LEMMA CountsQuiet ==
    ASSUME ServersInv, NEW c \in Calls, NEW r, Becomes(c, r), r.op = call[c].op, call[c].at # "ended",
           bumps' = bumps, cleared' \in Nat, landed \subseteq landed', landed' \subseteq Calls,
           losses' \in Nat, losses' >= losses, r.told = "done" => r.op # "ingest"
    PROVE  CountsAreDue'
<1>1. StoresDone' \subseteq StoresDone
    BY DEF Becomes, StoresDone
<1>2. StoresOver \subseteq StoresOver' /\ StoresOver' \subseteq Calls /\ StoresDone \subseteq Calls
  <2>1. \A d \in StoresOver : d # c /\ d \in Calls
      BY DEF ServersInv, RestTypes, StoresOver, Landed
  <2> QED BY <2>1 DEF Becomes, StoresOver, Landed, StoresDone
<1>3. /\ IsFiniteSet(StoresDone) /\ IsFiniteSet(StoresOver')
    BY <1>2, FS_Subset
<1>4. Cardinality(StoresDone') <= Cardinality(StoresDone)
    BY <1>1, <1>3, FS_Subset
<1>5. Cardinality(StoresOver) <= Cardinality(StoresOver')
    BY <1>2, <1>3, FS_Subset
<1>6. /\ Cardinality(StoresDone) \in Nat /\ Cardinality(StoresDone') \in Nat
      /\ Cardinality(StoresOver) \in Nat /\ Cardinality(StoresOver') \in Nat
  <2>1. IsFiniteSet(StoresDone') /\ IsFiniteSet(StoresOver)
      BY <1>1, <1>2, <1>3, FS_Subset
  <2> QED BY <1>3, <2>1, FS_CardinalityType
<1> HIDE DEF StoresDone, StoresOver
<1>7. /\ bumps \in Nat /\ cleared \in Nat /\ Cardinality(StoresDone) <= bumps
      /\ bumps <= Cardinality(StoresOver) + losses
    BY DEF ServersInv, Totals, CountsAreDue
<1>8. Cardinality(StoresDone') <= bumps' /\ bumps' <= Cardinality(StoresOver') + losses'
  <2>1. losses \in Nat
      BY DEF ServersInv, RestTypes
  <2> QED BY <2>1, <1>4, <1>5, <1>6, <1>7
<1> QED BY <1>7, <1>8 DEF CountsAreDue

LEMMA TotalsQuiet ==
    ASSUME ServersInv, NEW c \in Calls, NEW r, Becomes(c, r), r.op = call[c].op, call[c].at # "ended",
           UNCHANGED <<db, landed, bumps, cleared>>, losses' \in Nat, losses' >= losses,
           r.told = "done" => r.op # "ingest"
    PROVE  Totals'
<1>1. /\ \A d \in Calls : call'[d].op = call[d].op
      /\ call'[c] = r /\ \A d \in Calls \ {c} : call'[d] = call[d]
    BY DEF Becomes
<1>2. landed \subseteq Calls /\ losses \in Nat
    BY DEF ServersInv, RestTypes
<1>3. \A op : Landed(op)' = Landed(op)
    BY <1>1, <1>2 DEF Landed
<1>4. EpisodesAreKept'
    BY <1>3 DEF ServersInv, Totals, EpisodesAreKept
<1>5. LabelIsKept'
    BY <1>3 DEF ServersInv, Totals, LabelIsKept
<1>6. StoresAreCounted'
  <2>1. c \notin Landed("complete")
      BY DEF ServersInv, Landing, Landed
  <2>2. Landed("complete") \subseteq Calls
      BY <1>2 DEF Landed
  <2>3. \A d \in Landed("complete") : call'[d].read = call[d].read
      BY <1>1, <2>1, <2>2
  <2>4. {d \in Landed("complete") : call[d].read > 0}' = {d \in Landed("complete") : call[d].read > 0}
      BY <1>3, <2>3
  <2> QED BY <2>4 DEF ServersInv, Totals, StoresAreCounted
<1>7. CountsAreDue'
  <2>1. cleared' \in Nat
      BY DEF ServersInv, Totals, CountsAreDue
  <2> QED BY <1>2, <2>1, CountsQuiet
<1> QED BY <1>4, <1>5, <1>6, <1>7 DEF Totals

--------------------------------------------------------------------------------
(* Steps that commit nothing.                                                *)

\* A call that ends with nothing said to have been done.
LEMMA EndInv ==
    ASSUME ServersInv, NEW c \in Calls, call[c].at # "ended", holder[Home[c]] = c,
           NEW told \in Tolds, told # "done", Leave(c, told), UNCHANGED <<db, landed, counts>>,
           RestTypes', losses' >= losses
    PROVE  ServersInv'
<1> DEFINE r == CallOf(call[c].op, "ended", call[c].unit, call[c].tries, Empty, call[c].read, call[c].todo, told)
<1>1. Becomes(c, r)
    BY LeaveIs DEF ServersInv
<1>2. r.op = call[c].op /\ r.at = "ended" /\ r.tx = Empty /\ r.told = told /\ r.unit = call[c].unit /\ r.tries = call[c].tries
      /\ r = CallOf(r.op, r.at, r.unit, r.tries, r.tx, r.read, r.todo, r.told)
    BY DEF CallOf
<1> HIDE DEF r
<1>3. /\ \A d \in Calls : call'[d].op = call[d].op
      /\ call'[c] = r /\ \A d \in Calls \ {c} : call'[d] = call[d]
    BY <1>1, <1>2 DEF Becomes
<1>4. Shape(c)'
  <2>1. Shape(c)
      BY DEF ServersInv, CallTypes
  <2>2. Belongs(r.op, r.unit, "ended")
      BY <1>2, <2>1 DEF Shape, Belongs, Resting
  <2> QED BY <1>2, <1>3, <2>1, <2>2, EmptyIs DEF Shape
<1>5. DbTypes' /\ Landing(c)'
    BY <1>2, <1>3 DEF ServersInv, DbTypes, Landing, counts
<1>6. Stands(c)'
    BY <1>2, <1>3 DEF Stands, ArchiveStands, CompleteStands, IngestStands, TimelineStands, CoinStands,
       RecutStands, VerdictStands
<1>7. /\ LocksAreApart' /\ LockTypes'
      /\ \A d \in Calls \ {c} : \A w : Holds(d, w)' <=> Holds(d, w)
    BY DroppedApart DEF ServersInv, Leave
<1>8. Totals'
  <2>1. losses' \in Nat
      BY DEF RestTypes
  <2> QED BY <1>1, <1>2, <2>1, TotalsQuiet DEF counts
<1>9. NoneCite <=> NoneCite'
    BY <1>3, NoneCiteIs
<1>10. \A s \in Servers : holder'[s] \in {holder[s], NoCall, c} /\ holder'[s] # c
    BY DEF Leave, ServersInv, LockTypes
<1>11. landed' = landed /\ db' = db
    OBVIOUS
<1> QED BY <1>1, <1>2, <1>4, <1>5, <1>6, <1>7, <1>8, <1>9, <1>10, <1>11, FrameInv

\* A statement that takes its locks and leaves the rest of the transaction to come.
LEMMA StepInv ==
    ASSUME ServersInv, NEW c \in Calls, NEW next, NEW tx, NEW read, NEW statement,
           At(c, statement), statement # "ended", Step(c, next, tx, read),
           Belongs(call[c].op, call[c].unit, next), next \notin {"queued", "ended"},
           DOMAIN tx \subseteq Keys, Wanted(c) \subseteq LockModes, Stands(c)'
    PROVE  ServersInv'
<1> DEFINE r == CallOf(call[c].op, next, call[c].unit, call[c].tries, tx, read, call[c].todo, call[c].told)
<1>1. Becomes(c, r)
    BY StepIs DEF ServersInv
<1>2. r.op = call[c].op /\ r.at = next /\ r.tx = tx /\ r.told = call[c].told /\ r.unit = call[c].unit
      /\ r.tries = call[c].tries
      /\ r = CallOf(r.op, r.at, r.unit, r.tries, r.tx, r.read, r.todo, r.told)
    BY DEF CallOf
<1> HIDE DEF r
<1>3. /\ \A d \in Calls : call'[d].op = call[d].op
      /\ call'[c] = r /\ \A d \in Calls \ {c} : call'[d] = call[d]
    BY <1>1, <1>2 DEF Becomes
<1>4. Shape(c)'
  <2>1. Shape(c)
      BY DEF ServersInv, CallTypes
  <2>2. call[c].told = "nothing"
      BY <2>1 DEF Shape, At
  <2> QED BY <1>2, <1>3, <2>1, <2>2 DEF Shape
<1>5. UNCHANGED <<db, conn, holder, landed, bumps, cleared, losses, cuts>> /\ locks' = locks \union Held(c)
    BY DEF Step, counts
<1>6. DbTypes' /\ RestTypes'
    BY <1>5 DEF ServersInv, DbTypes, RestTypes
<1>7. Landing(c)'
    BY <1>2, <1>3, <1>5 DEF ServersInv, Landing, At
<1>8. /\ LocksAreApart' /\ LockTypes'
      /\ \A d \in Calls \ {c} : \A w : Holds(d, w)' <=> Holds(d, w)
    BY <1>5, HeldApart DEF ServersInv, At
<1>9. Totals'
  <2>1. call[c].told # "done" /\ call[c].at # "ended"
      BY DEF ServersInv, CallTypes, Shape, At
  <2>2. losses' \in Nat /\ losses' >= losses
      BY <1>5 DEF ServersInv, RestTypes
  <2> QED BY <1>1, <1>2, <1>5, <2>1, <2>2, TotalsQuiet DEF At
<1>10. NoneCite <=> NoneCite'
    BY <1>3, <1>5, NoneCiteIs
<1>11. \A s \in Servers : holder'[s] \in {holder[s], NoCall, c}
    BY <1>5
<1>12. r.at \notin {"queued", "ended"}
    BY <1>2
<1> QED BY <1>1, <1>2, <1>4, <1>5, <1>6, <1>7, <1>8, <1>9, <1>10, <1>11, <1>12, FrameInv

--------------------------------------------------------------------------------
(* The connection and its lock.                                              *)

\* A call between two units, or two tries of one, has read and written nothing of its own.
LEMMA RestStands ==
    ASSUME ServersInv, NEW c \in Calls, NEW r, call'[c] = r, r.op = call[c].op, r.todo = call[c].todo,
           r.tx = call[c].tx, call[c].at \in {"queued", "rebuild"}, r.at \in {call[c].unit, "rebuild"},
           \A w : Holds(c, w) => Holds(c, w)', db' = db
    PROVE  Stands(c)'
<1>1. Stands(c) /\ Belongs(call[c].op, call[c].unit, call[c].at)
    BY DEF ServersInv, CallTypes, Shape
<1>2. ArchiveStands(c)'
  <2>1. SUFFICES ASSUME call[c].op = "archive" PROVE ArchiveStands(c)'
      BY DEF ArchiveStands
  <2>2. r.at \in {"selectNode", "rebuild"}
      BY <1>1, <2>1 DEF Belongs
  <2> QED BY <1>1, <2>1, <2>2 DEF Stands, ArchiveStands
<1>3. CompleteStands(c)'
    BY <1>1 DEF Stands, CompleteStands, Belongs
<1>4. IngestStands(c)' /\ TimelineStands(c)'
    BY <1>1 DEF Stands, IngestStands, TimelineStands, Belongs
<1>5. CoinStands(c)' /\ VerdictStands(c)'
    BY <1>1 DEF Stands, CoinStands, VerdictStands, Belongs
<1>6. RecutStands(c)'
    BY <1>1 DEF Stands, RecutStands, Belongs
<1> QED BY <1>2, <1>3, <1>4, <1>5, <1>6 DEF Stands

LEMMA StartBelongs ==
    ASSUME NEW op, NEW unit, NEW at, Belongs(op, unit, at)
    PROVE  /\ Belongs(op, unit, unit) /\ Belongs(op, unit, "rebuild") /\ Belongs(op, unit, "ended")
           /\ unit \notin Resting \union {"commit"}
BY DEF Belongs, Resting

\* A call that comes to its unit, or to a connection that is to be opened first.
LEMMA StartInv ==
    ASSUME ServersInv, NEW c \in Calls, call[c].at \in {"queued", "rebuild"},
           NEW at \in {call[c].unit, "rebuild"}, call' = [call EXCEPT ![c].at = at],
           holder' \in {holder, [holder EXCEPT ![Home[c]] = c]}, holder[Home[c]] \in {NoCall, c},
           UNCHANGED <<db, locks, landed, counts, losses, cuts>>, conn' \in [Servers -> {"open", "lost"}]
    PROVE  ServersInv'
<1> DEFINE r == CallOf(call[c].op, at, call[c].unit, call[c].tries, call[c].tx, call[c].read,
                       call[c].todo, call[c].told)
<1>1. Becomes(c, r)
  <2>2. DOMAIN call' = Calls /\ call' = [d \in Calls |-> call'[d]] /\ \A d \in Calls \ {c} : call'[d] = call[d]
      BY FieldsAre DEF ServersInv
  <2>3. call'[c] = [f \in Fields |-> call'[c][f]]
      BY FieldsAre DEF ServersInv
  <2>4. /\ call'[c].op = call[c].op /\ call'[c].at = at /\ call'[c].unit = call[c].unit
        /\ call'[c].tries = call[c].tries /\ call'[c].tx = call[c].tx /\ call'[c].read = call[c].read
        /\ call'[c].todo = call[c].todo /\ call'[c].told = call[c].told
      BY FieldsAre DEF Fields, ServersInv
  <2>5. call'[c] = CallOf(call'[c].op, call'[c].at, call'[c].unit, call'[c].tries, call'[c].tx,
                          call'[c].read, call'[c].todo, call'[c].told)
      BY <2>3, CallIs
  <2> QED BY <2>2, <2>4, <2>5 DEF Becomes
<1>2. /\ r.op = call[c].op /\ r.at = at /\ r.tx = call[c].tx /\ r.told = call[c].told /\ r.unit = call[c].unit
      /\ r.tries = call[c].tries /\ r.todo = call[c].todo
      /\ r = CallOf(r.op, r.at, r.unit, r.tries, r.tx, r.read, r.todo, r.told)
    BY DEF CallOf
<1> HIDE DEF r
<1>3. /\ \A d \in Calls : call'[d].op = call[d].op
      /\ call'[c] = r /\ \A d \in Calls \ {c} : call'[d] = call[d]
    BY <1>1, <1>2 DEF Becomes
<1>4. Shape(c) /\ Belongs(r.op, r.unit, r.at) /\ r.at \notin {"queued", "ended"} /\ r.told = "nothing"
  <2>1. Shape(c)
      BY DEF ServersInv, CallTypes
  <2> QED BY <1>2, <2>1, StartBelongs DEF Shape, Resting
<1>5. Shape(c)'
    BY <1>2, <1>3, <1>4 DEF Shape
<1>6. DbTypes' /\ RestTypes' /\ LocksAreApart'
    BY DEF ServersInv, DbTypes, RestTypes, LocksAreApart, Conflict
<1>7. LockTypes'
  <2>1. CASE holder' = holder
      BY <2>1 DEF ServersInv, LockTypes
  <2>2. CASE holder' = [holder EXCEPT ![Home[c]] = c]
    <3>1. \A l \in locks : Home[l.by] # Home[c] \/ l.by = c
        BY DEF ServersInv, LockTypes
    <3> QED BY <2>2, <3>1 DEF ServersInv, LockTypes
  <2> QED BY <2>1, <2>2
<1>8. Landing(c)'
    BY <1>2, <1>3, <1>4 DEF ServersInv, Landing
<1>9. Stands(c)'
  <2>1. \A w : Holds(c, w) => Holds(c, w)'
      BY DEF Holds
  <2> QED BY <1>2, <1>3, <2>1, RestStands
<1>10. Totals'
  <2>1. losses' \in Nat /\ losses' >= losses
      BY DEF ServersInv, RestTypes
  <2> QED BY <1>1, <1>2, <1>4, <2>1, TotalsQuiet DEF counts
<1>11. NoneCite <=> NoneCite'
    BY <1>3, NoneCiteIs
<1>12. \A s \in Servers : holder'[s] \in {holder[s], NoCall, c}
    BY DEF ServersInv, LockTypes
<1>13. \A d \in Calls \ {c} : \A w : Holds(d, w)' <=> Holds(d, w)
    BY DEF Holds
<1> QED BY <1>1, <1>2, <1>4, <1>5, <1>6, <1>7, <1>8, <1>9, <1>10, <1>11, <1>12, <1>13, FrameInv

LEMMA TakeInv ==
    ASSUME ServersInv, NEW c \in Calls, Take(c)
    PROVE  ServersInv'
<1>1. PICK at \in {call[c].unit, "rebuild"} : call' = [call EXCEPT ![c].at = at]
    BY DEF Take
<1>2. conn' \in [Servers -> {"open", "lost"}]
    BY DEF Take, ServersInv, RestTypes
<1> QED BY <1>1, <1>2, StartInv DEF Take

LEMMA RebuildInv ==
    ASSUME ServersInv, NEW c \in Calls, Rebuild(c)
    PROVE  ServersInv'
<1>1. CASE Reopened(c)
  <2>1. conn' \in [Servers -> {"open", "lost"}]
      BY <1>1 DEF Reopened, ServersInv, RestTypes
  <2> QED BY <1>1, <2>1, StartInv DEF Rebuild, Reopened
<1>2. CASE Leave(c, "failed") /\ UNCHANGED conn
  <2>1. RestTypes' /\ losses' >= losses /\ "failed" \in Tolds
      BY <1>2 DEF Rebuild, ServersInv, RestTypes, Tolds
  <2> QED BY <1>2, <2>1, EndInv DEF Rebuild
<1> QED BY <1>1, <1>2 DEF Rebuild

\* A unit whose connection is gone, with nothing committed by it just now.
LEMMA RaiseInv ==
    ASSUME ServersInv, NEW c \in Calls, holder[Home[c]] = c, Raise(c), UNCHANGED <<db, landed, counts>>,
           RestTypes', losses' >= losses
    PROVE  ServersInv'
<1>0. call[c].at \notin {"queued", "ended"} /\ Home[c] \in Servers
    BY DEF ServersInv, HoldersRun
<1>1. CASE Leave(c, "failed")
    BY <1>0, <1>1, EndInv DEF Tolds
<1>2. ASSUME call[c].unit \in Retried, call[c].tries = 1, locks' = Without(c), holder' = holder,
             Becomes(c, CallOf(call[c].op, "rebuild", call[c].unit, 2, call[c].tx, call[c].read,
                               call[c].todo, call[c].told))
      PROVE  ServersInv'
  <2> DEFINE r == CallOf(call[c].op, "rebuild", call[c].unit, 2, call[c].tx, call[c].read,
                         call[c].todo, call[c].told)
  <2>1. Becomes(c, r)
      BY <1>2
  <2>2. /\ r.op = call[c].op /\ r.at = "rebuild" /\ r.tx = call[c].tx /\ r.told = call[c].told
        /\ r.unit = call[c].unit /\ r.tries = 2
        /\ r = CallOf(r.op, r.at, r.unit, r.tries, r.tx, r.read, r.todo, r.told)
      BY DEF CallOf
  <2> HIDE DEF r
  <2>3. /\ \A d \in Calls : call'[d].op = call[d].op
        /\ call'[c] = r /\ \A d \in Calls \ {c} : call'[d] = call[d]
      BY <2>1, <2>2 DEF Becomes
  <2>4. Shape(c)
      BY DEF ServersInv, CallTypes
  <2>5. Shape(c)' /\ r.told = "nothing"
      BY <1>0, <2>2, <2>3, <2>4, StartBelongs DEF Shape
  <2>6. DbTypes'
      BY DEF ServersInv, DbTypes
  <2>7. /\ LocksAreApart' /\ LockTypes'
        /\ \A d \in Calls \ {c} : \A w : Holds(d, w)' <=> Holds(d, w)
      BY <1>2, DroppedApart DEF ServersInv
  <2>8. Landing(c)'
      BY <1>0, <2>2, <2>3 DEF ServersInv, Landing
  <2>9. call[c].op \in {"ingest", "timeline", "verdict"} /\ call[c].at # "commit"
      BY <1>0, <1>2, <2>4 DEF Shape, Belongs, Retried, Resting
  <2>10. Stands(c)'
    <3>1. Stands(c)
        BY DEF ServersInv
    <3> QED BY <1>0, <2>2, <2>3, <2>9, <3>1 DEF Stands, ArchiveStands, CompleteStands, IngestStands,
            TimelineStands, CoinStands, RecutStands, VerdictStands
  <2>11. Totals'
    <3>1. losses' \in Nat
        BY DEF RestTypes
    <3> QED BY <1>0, <2>1, <2>2, <2>5, <3>1, TotalsQuiet DEF counts
  <2>12. NoneCite <=> NoneCite'
      BY <2>3, NoneCiteIs
  <2>13. \A s \in Servers : holder'[s] \in {holder[s], NoCall, c}
      BY <1>2
  <2> QED BY <2>1, <2>2, <2>5, <2>6, <2>7, <2>8, <2>10, <2>11, <2>12, <2>13, FrameInv
<1> QED BY <1>1, <1>2, RaiseIs DEF ServersInv

LEMMA CancelInv ==
    ASSUME ServersInv, NEW c \in Calls, Cancel(c)
    PROVE  ServersInv'
<1>1. UNCHANGED <<db, conn, landed, counts, losses>> /\ cuts < MaxCuts /\ cuts' = cuts + 1 /\ call[c].at # "ended"
    BY DEF Cancel
<1>2. RestTypes' /\ losses' >= losses
    BY <1>1 DEF ServersInv, RestTypes
<1>3. CASE holder[Home[c]] = c
    BY <1>1, <1>2, <1>3, EndInv DEF Cancel, Tolds
<1>4. CASE holder[Home[c]] # c
  <2> DEFINE r == CallOf(call[c].op, "ended", call[c].unit, call[c].tries, call[c].tx, call[c].read,
                         call[c].todo, "cut")
  <2>0. call' = [call EXCEPT ![c].at = "ended", ![c].told = "cut"] /\ UNCHANGED <<holder, locks>>
      BY <1>4 DEF Cancel
  <2>1. Becomes(c, r)
    <3>2. DOMAIN call' = Calls /\ call' = [d \in Calls |-> call'[d]] /\ \A d \in Calls \ {c} : call'[d] = call[d]
        BY <2>0, FieldsAre DEF ServersInv
    <3>3. call'[c] = [f \in Fields |-> call'[c][f]]
        BY <2>0, FieldsAre DEF ServersInv
    <3>4. /\ call'[c].op = call[c].op /\ call'[c].at = "ended" /\ call'[c].unit = call[c].unit
          /\ call'[c].tries = call[c].tries /\ call'[c].tx = call[c].tx /\ call'[c].read = call[c].read
          /\ call'[c].todo = call[c].todo /\ call'[c].told = "cut"
        BY <2>0, FieldsAre DEF Fields, ServersInv
    <3>5. call'[c] = CallOf(call'[c].op, call'[c].at, call'[c].unit, call'[c].tries, call'[c].tx,
                            call'[c].read, call'[c].todo, call'[c].told)
        BY <3>3, CallIs
    <3> QED BY <3>2, <3>4, <3>5 DEF Becomes
  <2>2. /\ r.op = call[c].op /\ r.at = "ended" /\ r.tx = call[c].tx /\ r.told = "cut"
        /\ r.unit = call[c].unit /\ r.tries = call[c].tries
        /\ r = CallOf(r.op, r.at, r.unit, r.tries, r.tx, r.read, r.todo, r.told)
      BY DEF CallOf
  <2> HIDE DEF r
  <2>3. /\ \A d \in Calls : call'[d].op = call[d].op
        /\ call'[c] = r /\ \A d \in Calls \ {c} : call'[d] = call[d]
      BY <2>1, <2>2 DEF Becomes
  <2>4. Shape(c)
      BY DEF ServersInv, CallTypes
  <2>5. Shape(c)'
      BY <2>2, <2>3, <2>4, StartBelongs DEF Shape, Tolds
  <2>6. DbTypes' /\ LocksAreApart' /\ LockTypes'
      BY <1>1, <2>0 DEF ServersInv, DbTypes, LocksAreApart, LockTypes, Conflict
  <2>7. \A d \in Calls \ {c} : \A w : Holds(d, w)' <=> Holds(d, w)
      BY <2>0 DEF Holds
  <2>8. Landing(c)'
      BY <1>1, <2>2, <2>3 DEF ServersInv, Landing
  <2>9. Stands(c)'
    <3>1. Stands(c)
        BY DEF ServersInv
    <3> QED BY <2>2, <2>3, <3>1 DEF Stands, ArchiveStands, CompleteStands, IngestStands,
            TimelineStands, CoinStands, RecutStands, VerdictStands
  <2>10. Totals'
    <3>1. losses' \in Nat
        BY <1>2 DEF RestTypes
    <3> QED BY <1>1, <1>2, <2>1, <2>2, <3>1, TotalsQuiet DEF counts
  <2>11. NoneCite <=> NoneCite'
      BY <1>1, <2>3, NoneCiteIs
  <2>12. \A s \in Servers : holder'[s] \in {holder[s], NoCall, c} /\ holder'[s] # c
      BY <1>4, <2>0 DEF ServersInv, LockTypes
  <2>13. landed' = landed /\ db' = db
      BY <1>1
  <2> QED BY <1>2, <2>1, <2>2, <2>5, <2>6, <2>7, <2>8, <2>9, <2>10, <2>11, <2>12, <2>13, FrameInv
<1> QED BY <1>3, <1>4

LEMMA LoseInv ==
    ASSUME ServersInv, NEW s \in Servers, LoseConnection(s)
    PROVE  ServersInv'
<1>1. UNCHANGED <<db, landed, counts, cuts>> /\ losses' = losses + 1 /\ losses < MaxLosses
    BY DEF LoseConnection
<1>2. RestTypes' /\ losses' >= losses
    BY <1>1 DEF LoseConnection, ServersInv, RestTypes
<1>3. CASE holder[s] = NoCall
  <2>1. UNCHANGED <<call, locks, holder>>
      BY <1>3 DEF LoseConnection
  <2>2. StoresDone' = StoresDone /\ StoresOver' = StoresOver /\ \A op : Landed(op)' = Landed(op)
      BY <1>1, <2>1 DEF StoresDone, StoresOver, Landed
  <2>3. CountsAreDue'
    <3> HIDE DEF StoresDone, StoresOver
    <3>1. IsFiniteSet(StoresOver)
      <4>1. StoresOver \subseteq Calls
          BY DEF StoresOver, Landed, ServersInv, RestTypes
      <4> QED BY <4>1, FS_Subset
    <3>2. Cardinality(StoresOver) \in Nat
        BY <3>1, FS_CardinalityType
    <3>3. losses \in Nat
        BY DEF ServersInv, RestTypes
    <3>4. bumps \in Nat /\ cleared \in Nat /\ Cardinality(StoresDone) <= bumps
          /\ bumps <= Cardinality(StoresOver) + losses
        BY DEF ServersInv, Totals, CountsAreDue
    <3>5. bumps' = bumps /\ cleared' = cleared
        BY <1>1 DEF counts
    <3> QED BY <1>1, <2>2, <3>2, <3>3, <3>4, <3>5 DEF CountsAreDue
  <2>4. Totals'
      BY <1>1, <2>1, <2>2, <2>3 DEF ServersInv, Totals, EpisodesAreKept, StoresAreCounted, LabelIsKept, counts
  <2>5. \A c \in Calls : Stands(c)' /\ Landing(c)'
    <3> SUFFICES ASSUME NEW c \in Calls PROVE Stands(c)' /\ Landing(c)'
        OBVIOUS
    <3>1. NoneCite <=> NoneCite'
        BY <1>1, <2>1, NoneCiteIs
    <3>2. \A w : Holds(c, w)' <=> Holds(c, w)
        BY <2>1 DEF Holds
    <3>3. Stands(c)'
        BY <1>1, <2>1, <3>1, <3>2, OthersStand
    <3> QED BY <1>1, <2>1, <3>3 DEF ServersInv, Landing
  <2>6. CallTypes'
      BY <2>1 DEF ServersInv, CallTypes, Shape
  <2>7. DbTypes' /\ HoldersRun'
      BY <1>1, <2>1 DEF ServersInv, DbTypes, HoldersRun
  <2>8. LockTypes' /\ LocksAreApart'
      BY <2>1 DEF ServersInv, LockTypes, LocksAreApart, Conflict
  <2> QED BY <1>2, <2>4, <2>5, <2>6, <2>7, <2>8 DEF ServersInv
<1>4. CASE holder[s] # NoCall
  <2>1. holder[s] \in Calls /\ Home[holder[s]] = s
      BY <1>4 DEF ServersInv, LockTypes
  <2>2. Raise(holder[s])
      BY <1>4 DEF LoseConnection
  <2> QED BY <1>1, <1>2, <2>1, <2>2, RaiseInv
<1> QED BY <1>3, <1>4

LEMMA DeadlockInv ==
    ASSUME ServersInv, NEW c \in Calls, Deadlock(c)
    PROVE  ServersInv'
<1>1. call[c].at # "ended"
    BY DEF Deadlock, ServersInv, HoldersRun
<1>2. RestTypes' /\ losses' >= losses
    BY DEF Deadlock, ServersInv, RestTypes
<1> QED BY <1>1, <1>2, EndInv DEF Deadlock, Tolds

LEMMA RefusedInv ==
    ASSUME ServersInv, NEW c \in Calls, holder[Home[c]] = c, Refused(c)
    PROVE  ServersInv'
<1>1. call[c].at # "ended"
    BY DEF ServersInv, HoldersRun
<1>2. RestTypes' /\ losses' >= losses
    BY DEF Refused, ServersInv, RestTypes
<1> QED BY <1>1, <1>2, EndInv DEF Refused, Tolds
--------------------------------------------------------------------------------
(* How a unit ends.                                                          *)

\* What a call becomes when its unit is over, or is to be tried again.
EndsAs(c, r) ==
  \/ /\ NextUnit(call[c].unit) = "none"
     /\ r = CallOf(call[c].op, "ended", call[c].unit, call[c].tries, Empty, call[c].read,
                   call[c].todo, "done")
     /\ holder' = [holder EXCEPT ![Home[c]] = NoCall] /\ losses' = losses
  \/ /\ NextUnit(call[c].unit) # "none"
     /\ \E read : r = CallOf(call[c].op, "queued", NextUnit(call[c].unit), 1, Empty, read,
                             call[c].todo, call[c].told)
     /\ holder' = [holder EXCEPT ![Home[c]] = NoCall] /\ losses' = losses
  \/ /\ call[c].unit \in Retried
     /\ r = CallOf(call[c].op, "rebuild", call[c].unit, 2, call[c].tx, call[c].read,
                   call[c].todo, call[c].told)
     /\ holder' = holder /\ losses' = losses + 1
  \/ /\ r = CallOf(call[c].op, "ended", call[c].unit, call[c].tries, Empty, call[c].read,
                   call[c].todo, "failed")
     /\ holder' = [holder EXCEPT ![Home[c]] = NoCall] /\ losses' = losses + 1
  \/ /\ r = CallOf(call[c].op, "ended", call[c].unit, call[c].tries, Empty, call[c].read,
                   call[c].todo, "cut")
     /\ holder' = [holder EXCEPT ![Home[c]] = NoCall] /\ losses' = losses

LEMMA HeardIs ==
    ASSUME ServersInv, NEW c \in Calls, NEW read, Heard(c, read)
    PROVE  \E r : /\ Becomes(c, r) /\ EndsAs(c, r) /\ locks' = Without(c)
                  /\ UNCHANGED <<conn, losses, cuts>>
<1>1. UNCHANGED <<conn, losses, cuts>>
    BY DEF Heard
<1>2. CASE NextUnit(call[c].unit) = "none"
  <2>1. Leave(c, "done")
      BY <1>2 DEF Heard
  <2>2. Becomes(c, CallOf(call[c].op, "ended", call[c].unit, call[c].tries, Empty, call[c].read,
                          call[c].todo, "done"))
      BY <2>1, LeaveIs DEF ServersInv
  <2>3. locks' = Without(c) /\ holder' = [holder EXCEPT ![Home[c]] = NoCall]
      BY <2>1 DEF Leave
  <2> QED BY <1>1, <1>2, <2>2, <2>3 DEF EndsAs
<1>3. CASE NextUnit(call[c].unit) # "none"
  <2>1. NextQueued(c, read)
      BY <1>3 DEF Heard
  <2>2. Becomes(c, CallOf(call[c].op, "queued", NextUnit(call[c].unit), 1, Empty, read,
                          call[c].todo, call[c].told))
      BY <2>1, NextQueuedIs DEF ServersInv
  <2>3. locks' = Without(c) /\ holder' = [holder EXCEPT ![Home[c]] = NoCall]
      BY <2>1 DEF NextQueued
  <2> QED BY <1>1, <1>3, <2>2, <2>3 DEF EndsAs
<1> QED BY <1>2, <1>3

LEMMA ReplyIs ==
    ASSUME ServersInv, NEW c \in Calls, Reply(c)
    PROVE  \E r : /\ Becomes(c, r) /\ EndsAs(c, r) /\ locks' = Without(c)
                  /\ conn' \in [Servers -> {"open", "lost"}]
                  /\ losses' \in 0..MaxLosses /\ losses' >= losses /\ cuts' \in 0..MaxCuts
<1>1. RestTypes
    BY DEF ServersInv
<1>2. CASE Heard(c, call[c].read)
  <2>1. PICK r : Becomes(c, r) /\ EndsAs(c, r) /\ locks' = Without(c) /\ UNCHANGED <<conn, losses, cuts>>
      BY <1>2, HeardIs
  <2> QED BY <1>1, <2>1 DEF RestTypes
<1>3. CASE Unheard(c)
  <2>1. /\ conn' \in [Servers -> {"open", "lost"}] /\ losses' \in 0..MaxLosses /\ losses' = losses + 1
        /\ losses' >= losses /\ cuts' \in 0..MaxCuts /\ Raise(c)
      BY <1>1, <1>3 DEF Unheard, RestTypes
  <2>2. CASE Leave(c, "failed")
    <3>1. Becomes(c, CallOf(call[c].op, "ended", call[c].unit, call[c].tries, Empty, call[c].read,
                            call[c].todo, "failed"))
        BY <2>2, LeaveIs DEF ServersInv
    <3>2. locks' = Without(c) /\ holder' = [holder EXCEPT ![Home[c]] = NoCall]
        BY <2>2 DEF Leave
    <3> QED BY <2>1, <3>1, <3>2 DEF EndsAs
  <2>3. CASE ~Leave(c, "failed")
    <3>1. /\ call[c].unit \in Retried /\ locks' = Without(c) /\ holder' = holder
          /\ Becomes(c, CallOf(call[c].op, "rebuild", call[c].unit, 2,
                               call[c].tx, call[c].read, call[c].todo, call[c].told))
        BY <2>1, <2>3, RaiseIs DEF ServersInv
    <3> QED BY <2>1, <3>1 DEF EndsAs
  <2> QED BY <2>2, <2>3
<1>4. CASE CutShort(c)
  <2>1. /\ conn' \in [Servers -> {"open", "lost"}] /\ losses' \in 0..MaxLosses /\ losses' = losses
        /\ losses' >= losses /\ cuts' \in 0..MaxCuts
      BY <1>1, <1>4 DEF CutShort, RestTypes
  <2>2. Becomes(c, CallOf(call[c].op, "ended", call[c].unit, call[c].tries, Empty, call[c].read,
                          call[c].todo, "cut"))
      BY <1>4, LeaveIs DEF ServersInv, CutShort
  <2>3. locks' = Without(c) /\ holder' = [holder EXCEPT ![Home[c]] = NoCall]
      BY <1>4 DEF CutShort, Leave
  <2> QED BY <2>1, <2>2, <2>3 DEF EndsAs
<1> QED BY <1>2, <1>3, <1>4 DEF Reply

\* A unit that is over leaves its call as it should be, whatever became of the database.
LEMMA EndsWell ==
    ASSUME ServersInv, NEW c \in Calls, holder[Home[c]] = c, NEW r, Becomes(c, r), EndsAs(c, r)
    PROVE  /\ r.op = call[c].op /\ Shape(c)' /\ Stands(c)'
           /\ r.at \in Resting /\ (r.at \in {"queued", "ended"} => holder' = [holder EXCEPT ![Home[c]] = NoCall])
           /\ (r.at = "rebuild" => holder' = holder)
           /\ (r.at # "queued" => r.read = call[c].read)
           /\ (r.at # "ended" => r.told = "nothing")
           /\ \A d \in Calls : call'[d].op = call[d].op
           /\ call'[c] = r /\ \A d \in Calls \ {c} : call'[d] = call[d]
           /\ (r.told = "done" => r.at = "ended" /\ NextUnit(call[c].unit) = "none")
           /\ (r.at = "queued" => r.unit = NextUnit(call[c].unit) /\ NextUnit(call[c].unit) # "none")
           /\ (r.at # "queued" => r.unit = call[c].unit)
           /\ (r.at = "rebuild" => call[c].unit \in Retried)
<1>1. call[c].at \notin {"queued", "ended"} /\ Shape(c) /\ Stands(c) /\ Home[c] \in Servers
    BY DEF ServersInv, HoldersRun, CallTypes
<1>2. call[c].told = "nothing" /\ call[c].tries \in {1, 2} /\ DOMAIN call[c].tx \subseteq Keys
      /\ Belongs(call[c].op, call[c].unit, call[c].at)
    BY <1>1 DEF Shape
<1>3. /\ r.op = call[c].op /\ r.todo = call[c].todo
      /\ r = CallOf(r.op, r.at, r.unit, r.tries, r.tx, r.read, r.todo, r.told)
      /\ r.tries \in {1, 2} /\ r.told \in Tolds /\ r.tx \in {Empty, call[c].tx}
      /\ r.at \in Resting
      /\ (r.at # "rebuild" => r.tx = Empty /\ holder' = [holder EXCEPT ![Home[c]] = NoCall])
      /\ (r.at = "rebuild" => r.tx = call[c].tx /\ holder' = holder /\ call[c].unit \in Retried)
      /\ (r.at # "queued" => r.read = call[c].read /\ r.unit = call[c].unit)
      /\ (r.at # "ended" => r.told = "nothing")
      /\ (r.at = "queued" => r.unit = NextUnit(call[c].unit) /\ NextUnit(call[c].unit) # "none")
      /\ (r.told = "done" => r.at = "ended" /\ NextUnit(call[c].unit) = "none")
    BY <1>1, <1>2 DEF EndsAs, CallOf, Resting, Tolds
<1>4. /\ \A d \in Calls : call'[d].op = call[d].op
      /\ call'[c] = r /\ \A d \in Calls \ {c} : call'[d] = call[d]
    BY <1>3 DEF Becomes
<1>5. Belongs(r.op, r.unit, r.at)
  <2>1. CASE r.at # "queued"
      BY <1>2, <1>3, <2>1, StartBelongs DEF Resting
  <2>2. CASE r.at = "queued"
      BY <1>2, <1>3, <2>2 DEF Belongs, NextUnit, Resting
  <2> QED BY <2>1, <2>2
<1>6. Shape(c)'
    BY <1>2, <1>3, <1>4, <1>5, EmptyIs DEF Shape
<1>7. Stands(c)'
  <2>1. CASE r.at = "ended"
      BY <1>1, <1>3, <1>4, <2>1 DEF Stands, ArchiveStands, CompleteStands, IngestStands, TimelineStands,
         CoinStands, RecutStands, VerdictStands
  <2>2. CASE r.at = "queued"
    <3>1. call[c].op \in {"ingest", "timeline"}
        BY <1>2, <1>3, <2>2 DEF Belongs, NextUnit
    <3> QED BY <1>3, <1>4, <2>2, <3>1 DEF Stands, ArchiveStands, CompleteStands, IngestStands,
            TimelineStands, CoinStands, RecutStands, VerdictStands
  <2>3. CASE r.at = "rebuild"
    <3>1. call[c].op \in {"ingest", "timeline", "verdict"} /\ call[c].at # "commit"
        BY <1>2, <1>3, <2>3 DEF Belongs, Retried, Resting
    <3> QED BY <1>1, <1>3, <1>4, <2>3, <3>1 DEF Stands, ArchiveStands, CompleteStands, IngestStands,
            TimelineStands, CoinStands, RecutStands, VerdictStands
  <2> QED BY <1>3, <2>1, <2>2, <2>3 DEF Resting
<1> QED BY <1>3, <1>4, <1>6, <1>7

\* What a write to the database leaves alone: all that others have locked, and what a re-cut counted.
Spares(c) ==
  /\ \A d \in Calls \ {c} : \A k \in Nodes \union Singles : Holds(d, GuardOf(k)) => db'[k] = db[k]
  /\ \A d \in Calls \ {c} : Holds(d, NodesShare) /\ Holds(d, Row("cut")) /\ NoneCite => NoneCite'

LEMMA EndsInv ==
    ASSUME ServersInv, NEW c \in Calls, holder[Home[c]] = c, NEW r, Becomes(c, r), EndsAs(c, r),
           locks' = Without(c), DbTypes', RestTypes', Totals', Landing(c)', Spares(c),
           landed \subseteq landed', landed' \subseteq landed \union {c}
    PROVE  ServersInv'
<1>1. Home[c] \in Servers /\ holder \in [Servers -> Calls \union {NoCall}]
    BY DEF ServersInv, LockTypes
<1>2. /\ r.op = call[c].op /\ Shape(c)' /\ Stands(c)' /\ r.at \in Resting
      /\ (r.at \in {"queued", "ended"} => holder' = [holder EXCEPT ![Home[c]] = NoCall])
      /\ (r.at = "rebuild" => holder' = holder)
    BY EndsWell
<1>3. holder' \in {holder, [holder EXCEPT ![Home[c]] = NoCall]}
    BY <1>2 DEF Resting
<1>4. /\ LocksAreApart' /\ LockTypes'
      /\ \A d \in Calls \ {c} : \A w : Holds(d, w)' <=> Holds(d, w)
    BY <1>3, DroppedApart DEF ServersInv
<1>5. \A s \in Servers : holder'[s] \in {holder[s], NoCall, c}
    BY <1>1, <1>3
<1>6. \A s \in Servers : holder'[s] = c => r.at \notin {"queued", "ended"}
  <2> SUFFICES ASSUME NEW s \in Servers, holder'[s] = c, r.at \in {"queued", "ended"} PROVE FALSE
      OBVIOUS
  <2>1. holder' = [holder EXCEPT ![Home[c]] = NoCall]
      BY <1>2
  <2>2. s # Home[c] /\ holder[s] = c
      BY <1>1, <2>1
  <2> QED BY <2>2 DEF ServersInv, LockTypes
<1> QED BY <1>2, <1>4, <1>5, <1>6, FrameInv DEF Spares
\* A read that is heard leaves the call to wait for its next unit.
LEMMA ReadInv ==
    ASSUME ServersInv, NEW c \in Calls, NEW unit \in {"readPassages", "getTimeline"}, At(c, unit),
           NEW read, Heard(c, read), UNCHANGED <<db, landed, counts>>
    PROVE  ServersInv'
<1>1. PICK r : Becomes(c, r) /\ EndsAs(c, r) /\ locks' = Without(c) /\ UNCHANGED <<conn, losses, cuts>>
    BY HeardIs
<1>2. holder[Home[c]] = c /\ call[c].at = unit
    BY DEF At
<1>3. Shape(c) /\ Landing(c) /\ RestTypes
    BY DEF ServersInv, CallTypes
<1>4. call[c].unit = unit /\ call[c].op \in {"ingest", "timeline"} /\ NextUnit(unit) \notin {"none", "bump"}
    BY <1>2, <1>3 DEF Shape, Belongs, Resting, NextUnit
<1>5. /\ r.op = call[c].op /\ call'[c] = r /\ \A d \in Calls : call'[d].op = call[d].op
      /\ (r.at # "ended" => r.told = "nothing")
      /\ (r.told = "done" => NextUnit(call[c].unit) = "none")
      /\ (r.at = "queued" => r.unit = NextUnit(unit)) /\ (r.at # "queued" => r.unit = unit)
    BY <1>1, <1>2, <1>4, EndsWell
<1>6. DbTypes' /\ RestTypes'
    BY <1>1, <1>3 DEF ServersInv, DbTypes, RestTypes
<1>7. Totals'
  <2>1. losses' \in Nat /\ losses' >= losses
      BY <1>1, <1>3 DEF RestTypes
  <2> QED BY <1>1, <1>2, <1>4, <1>5, <2>1, TotalsQuiet DEF counts
<1>8. Landing(c)'
  <2>1. c \notin landed
      BY <1>2, <1>3, <1>4 DEF Landing
  <2> QED BY <1>4, <1>5, <2>1 DEF Landing
<1>9. Spares(c)
    BY <1>5, NoneCiteIs DEF Spares
<1> QED BY <1>1, <1>2, <1>6, <1>7, <1>8, <1>9, EndsInv

LEMMA ReadPassagesInv ==
    ASSUME ServersInv, NEW c \in Calls, ReadPassages(c)
    PROVE  ServersInv'
BY ReadInv DEF ReadPassages

LEMMA GetTimelineInv ==
    ASSUME ServersInv, NEW c \in Calls, GetTimeline(c)
    PROVE  ServersInv'
BY ReadInv DEF GetTimeline

--------------------------------------------------------------------------------
(* The statements of a transaction.                                          *)

\* What a statement sees of its own call, and what it leaves.
LEMMA AtStep ==
    ASSUME ServersInv, NEW c \in Calls, NEW statement, At(c, statement)
    PROVE  /\ call[c].at = statement /\ holder[Home[c]] = c /\ Blockers(c) = {}
           /\ Belongs(call[c].op, call[c].unit, statement) /\ Stands(c)
           /\ DOMAIN call[c].tx \subseteq Keys /\ call[c].told = "nothing"
<1>1. call[c].at = statement /\ holder[Home[c]] = c /\ Blockers(c) = {} /\ Home[c] \in Servers
    BY DEF At
<1>2. Shape(c) /\ Stands(c) /\ call[c].at # "ended"
    BY <1>1 DEF ServersInv, CallTypes, HoldersRun
<1> QED BY <1>1, <1>2 DEF Shape

LEMMA StepLeaves ==
    ASSUME ServersInv, NEW c \in Calls, NEW statement, At(c, statement), Wanted(c) \subseteq LockModes,
           NEW next, NEW tx, NEW read, Step(c, next, tx, read)
    PROVE  /\ call'[c].op = call[c].op /\ call'[c].at = next /\ call'[c].tx = tx /\ call'[c].read = read
           /\ call'[c].todo = call[c].todo /\ db' = db
           /\ \A w \in Wanted(c) : Holds(c, w)'
           /\ \A w : Holds(c, w) => Holds(c, w)'
           /\ NoneCite <=> NoneCite'
<1>1. Becomes(c, CallOf(call[c].op, next, call[c].unit, call[c].tries, tx, read, call[c].todo, call[c].told))
    BY StepIs DEF ServersInv
<1>2. /\ call'[c].op = call[c].op /\ call'[c].at = next /\ call'[c].tx = tx /\ call'[c].read = read
      /\ call'[c].todo = call[c].todo
      /\ \A d \in Calls : call'[d].op = call[d].op
    BY <1>1 DEF Becomes, CallOf
<1>3. locks' = locks \union Held(c) /\ holder' = holder /\ db' = db
    BY DEF Step
<1>4. /\ \A w \in Wanted(c) : Holds(c, w)'
      /\ \A w : Holds(c, w) => Holds(c, w)'
    BY <1>3, AtStep, HeldApart DEF ServersInv
<1> QED BY <1>2, <1>3, <1>4, NoneCiteIs

LEMMA RowsAreLocks ==
    /\ \A k \in Keys : Row(k) \in LockModes
    /\ LabelsAlone \in LockModes /\ NodesShare \in LockModes /\ NodesWrite \in LockModes
BY DEF Row, LockModes, LabelsAlone, NodesShare, NodesWrite

LEMMA SelectNodeInv ==
    ASSUME ServersInv, NEW c \in Calls, SelectNode(c)
    PROVE  ServersInv'
<1>1. At(c, "selectNode") /\ Step(c, "putNode", call[c].tx, View(c, Head(call[c].todo)))
    BY DEF SelectNode
<1>2. /\ call[c].at = "selectNode" /\ Belongs(call[c].op, call[c].unit, "selectNode") /\ Stands(c)
      /\ DOMAIN call[c].tx \subseteq Keys
    BY <1>1, AtStep
<1>3. call[c].op = "archive" /\ Belongs(call[c].op, call[c].unit, "putNode")
    BY <1>2 DEF Belongs, Resting
<1>4. ArchiveStands(c)
    BY <1>2 DEF Stands
<1>5. call[c].todo \in Seq(Nodes) /\ call[c].todo # <<>> /\ DOMAIN call[c].tx = Nodes \ Range(call[c].todo)
    BY <1>2, <1>3, <1>4 DEF ArchiveStands
<1>6. PICK n \in Nodes : n = Head(call[c].todo) /\ n \in Range(call[c].todo)
    BY <1>5 DEF Range
<1>7. Step(c, "putNode", call[c].tx, db[n])
    BY <1>1, <1>5, <1>6 DEF View
<1>8. Wanted(c) = {Row(n)}
    BY <1>2, <1>6 DEF Wanted, ForUpdate, TableLocks, Writing
<1>9. Wanted(c) \subseteq LockModes
    BY <1>6, <1>8, RowsAreLocks
<1>10. /\ call'[c].op = call[c].op /\ call'[c].at = "putNode" /\ call'[c].tx = call[c].tx
       /\ call'[c].read = db[n] /\ call'[c].todo = call[c].todo /\ db' = db
       /\ Holds(c, Row(n))'
       /\ \A w : Holds(c, w) => Holds(c, w)'
    BY <1>1, <1>7, <1>8, <1>9, StepLeaves
<1>11. ArchiveStands(c)'
    BY <1>2, <1>3, <1>4, <1>5, <1>6, <1>10 DEF ArchiveStands
<1>12. Stands(c)'
    BY <1>3, <1>10, <1>11 DEF Stands, CompleteStands, IngestStands, TimelineStands, CoinStands, RecutStands,
       VerdictStands
<1> QED BY <1>1, <1>2, <1>3, <1>7, <1>9, <1>12, StepInv

LEMMA SelectCounterInv ==
    ASSUME ServersInv, NEW c \in Calls, SelectCounter(c)
    PROVE  ServersInv'
<1>1. At(c, "selectCounter")
    BY DEF SelectCounter
<1>2. /\ call[c].at = "selectCounter" /\ Belongs(call[c].op, call[c].unit, "selectCounter") /\ Stands(c)
      /\ DOMAIN call[c].tx \subseteq Keys
    BY <1>1, AtStep
<1>3. /\ call[c].op = "complete" /\ Belongs(call[c].op, call[c].unit, "commit")
      /\ Belongs(call[c].op, call[c].unit, "setCounter")
    BY <1>2 DEF Belongs, Resting
<1>4. call[c].tx = Empty
    BY <1>2, <1>3 DEF Stands, CompleteStands
<1>5. Wanted(c) \subseteq LockModes
    BY <1>2, RowsAreLocks DEF Wanted, ForUpdate, TableLocks, Writing
<1>6. CASE db["counter"] = NoRow
  <2>1. Step(c, "commit", call[c].tx, 0)
      BY <1>6 DEF SelectCounter
  <2>2. /\ call'[c].op = call[c].op /\ call'[c].at = "commit" /\ call'[c].tx = call[c].tx /\ call'[c].read = 0
      BY <1>1, <1>5, <2>1, StepLeaves
  <2>3. Stands(c)'
      BY <1>3, <1>4, <2>2 DEF Stands, ArchiveStands, CompleteStands, IngestStands, TimelineStands, CoinStands,
         RecutStands, VerdictStands
  <2> QED BY <1>1, <1>2, <1>3, <1>5, <2>1, <2>3, StepInv
<1>7. CASE db["counter"] # NoRow
  <2>1. Step(c, "setCounter", call[c].tx, db["counter"])
      BY <1>7 DEF SelectCounter
  <2>2. Row("counter") \in Wanted(c)
      BY <1>2, <1>7 DEF Wanted, ForUpdate
  <2>3. /\ call'[c].op = call[c].op /\ call'[c].at = "setCounter" /\ call'[c].tx = call[c].tx
        /\ call'[c].read = db["counter"] /\ db' = db /\ Holds(c, Row("counter"))'
      BY <1>1, <1>5, <2>1, <2>2, StepLeaves
  <2>4. db["counter"] \in Nat
      BY <1>7 DEF ServersInv, DbTypes
  <2>5. Stands(c)'
      BY <1>3, <1>4, <2>3, <2>4 DEF Stands, ArchiveStands, CompleteStands, IngestStands, TimelineStands,
         CoinStands, RecutStands, VerdictStands
  <2> QED BY <1>1, <1>2, <1>3, <1>5, <2>1, <2>5, StepInv
<1> QED BY <1>6, <1>7

LEMMA SetCounterInv ==
    ASSUME ServersInv, NEW c \in Calls, SetCounter(c)
    PROVE  ServersInv'
<1> DEFINE next == IF call[c].read > 0 THEN "bumpRound" ELSE "commit"
           tx == Put("counter", 0, call[c].tx)
<1>1. At(c, "setCounter") /\ Step(c, next, tx, call[c].read)
    BY DEF SetCounter
<1>2. /\ call[c].at = "setCounter" /\ Belongs(call[c].op, call[c].unit, "setCounter") /\ Stands(c)
      /\ DOMAIN call[c].tx \subseteq Keys
    BY <1>1, AtStep
<1>3. /\ call[c].op = "complete" /\ Belongs(call[c].op, call[c].unit, next) /\ next \notin {"queued", "ended"}
    BY <1>2 DEF Belongs, Resting
<1>4. /\ call[c].tx = Empty /\ call[c].read = db["counter"] /\ call[c].read \in Nat /\ tx = Zeroed
      /\ Holds(c, Row("counter"))
    BY <1>2, <1>3 DEF Stands, CompleteStands, Zeroed
<1>5. Wanted(c) \subseteq LockModes
    BY <1>2, RowsAreLocks DEF Wanted, ForUpdate, TableLocks, Writing
<1>6. DOMAIN tx \subseteq Keys
  <2>1. DOMAIN tx = DOMAIN call[c].tx \union {"counter"}
      BY PutIs
  <2> QED BY <1>2, <2>1
<1>7. \/ next = "bumpRound" /\ call[c].read > 0
      \/ next = "commit" /\ call[c].read = 0
  <2>1. ~(call[c].read > 0) => call[c].read = 0
      BY <1>4
  <2> QED BY <2>1
<1> HIDE DEF next, tx
<1>8. /\ call'[c].op = call[c].op /\ call'[c].at = next /\ call'[c].tx = tx
      /\ call'[c].read = call[c].read /\ db' = db /\ Holds(c, Row("counter"))'
    BY <1>1, <1>4, <1>5, StepLeaves
<1>9. CompleteStands(c)'
    BY <1>3, <1>4, <1>7, <1>8 DEF CompleteStands
<1>10. Stands(c)'
    BY <1>3, <1>8, <1>9 DEF Stands, ArchiveStands, IngestStands, TimelineStands,
       CoinStands, RecutStands, VerdictStands
<1> QED BY <1>1, <1>2, <1>3, <1>5, <1>6, <1>10, StepInv

LEMMA BumpRoundInv ==
    ASSUME ServersInv, NEW c \in Calls, BumpRound(c)
    PROVE  ServersInv'
<1> DEFINE tx == Put("round", db["round"] + 1, call[c].tx)
<1>1. At(c, "bumpRound") /\ Step(c, "commit", tx, call[c].read)
    BY DEF BumpRound
<1>2. /\ call[c].at = "bumpRound" /\ Belongs(call[c].op, call[c].unit, "bumpRound") /\ Stands(c)
      /\ DOMAIN call[c].tx \subseteq Keys
    BY <1>1, AtStep
<1>3. /\ call[c].op = "complete" /\ Belongs(call[c].op, call[c].unit, "commit")
    BY <1>2 DEF Belongs, Resting
<1>4. /\ call[c].tx = Zeroed /\ call[c].read = db["counter"] /\ call[c].read \in Nat /\ call[c].read > 0
      /\ Holds(c, Row("counter")) /\ tx = Put("round", db["round"] + 1, Zeroed)
    BY <1>2, <1>3 DEF Stands, CompleteStands
<1>5. Wanted(c) \subseteq LockModes /\ Row("round") \in Wanted(c)
    BY <1>2, RowsAreLocks DEF Wanted, ForUpdate, TableLocks, Writing
<1>6. DOMAIN tx \subseteq Keys
  <2>1. DOMAIN tx = DOMAIN call[c].tx \union {"round"}
      BY PutIs
  <2> QED BY <1>2, <2>1
<1> HIDE DEF tx
<1>7. /\ call'[c].op = call[c].op /\ call'[c].at = "commit" /\ call'[c].tx = tx
      /\ call'[c].read = call[c].read /\ db' = db /\ Holds(c, Row("counter"))' /\ Holds(c, Row("round"))'
    BY <1>1, <1>4, <1>5, StepLeaves
<1>8. CompleteStands(c)'
    BY <1>3, <1>4, <1>7 DEF CompleteStands
<1>9. Stands(c)'
    BY <1>3, <1>7, <1>8 DEF Stands, ArchiveStands, IngestStands, TimelineStands,
       CoinStands, RecutStands, VerdictStands
<1> QED BY <1>1, <1>2, <1>3, <1>5, <1>6, <1>9, StepInv
LEMMA InsertClaimInv ==
    ASSUME ServersInv, NEW c \in Calls, InsertClaim(c)
    PROVE  ServersInv'
<1>1. At(c, "insertClaim") /\ Step(c, "commit", Put(c, call[c].read, call[c].tx), call[c].read)
    BY DEF InsertClaim
<1>2. /\ call[c].at = "insertClaim" /\ Belongs(call[c].op, call[c].unit, "insertClaim") /\ Stands(c)
      /\ DOMAIN call[c].tx \subseteq Keys
    BY <1>1, AtStep
<1>3. call[c].op = "ingest" /\ Belongs(call[c].op, call[c].unit, "commit")
    BY <1>2 DEF Belongs, Resting
<1>4. IngestStands(c) /\ call[c].tx = Empty
    BY <1>2, <1>3 DEF Stands, IngestStands
<1>5. Wanted(c) \subseteq LockModes /\ NodesWrite \in Wanted(c)
    BY <1>2, RowsAreLocks DEF Wanted, ForUpdate, TableLocks, Writing
<1>6. DOMAIN Put(c, call[c].read, call[c].tx) \subseteq Keys
  <2>1. DOMAIN Put(c, call[c].read, call[c].tx) = DOMAIN call[c].tx \union {c}
      BY PutIs
  <2> QED BY <1>2, <2>1
<1>7. /\ call'[c].op = call[c].op /\ call'[c].at = "commit" /\ call'[c].tx = Put(c, call[c].read, call[c].tx)
      /\ call'[c].read = call[c].read /\ db' = db
      /\ \A w : Holds(c, w) => Holds(c, w)'
      /\ NoneCite <=> NoneCite'
      /\ Holds(c, NodesWrite)'
    BY <1>1, <1>5, StepLeaves
<1>8. IngestStands(c)'
    BY <1>2, <1>3, <1>4, <1>7 DEF IngestStands
<1>9. Stands(c)'
    BY <1>3, <1>7, <1>8 DEF Stands, ArchiveStands, CompleteStands, TimelineStands, CoinStands, RecutStands, VerdictStands
<1> QED BY <1>1, <1>2, <1>3, <1>5, <1>6, <1>9, StepInv

LEMMA LockLabelsInv ==
    ASSUME ServersInv, NEW c \in Calls, LockLabels(c)
    PROVE  ServersInv'
<1>1. At(c, "lockLabels") /\ Step(c, "readLabel", call[c].tx, NoRow)
    BY DEF LockLabels
<1>2. /\ call[c].at = "lockLabels" /\ Belongs(call[c].op, call[c].unit, "lockLabels") /\ Stands(c)
      /\ DOMAIN call[c].tx \subseteq Keys
    BY <1>1, AtStep
<1>3. call[c].op = "coin" /\ Belongs(call[c].op, call[c].unit, "readLabel")
    BY <1>2 DEF Belongs, Resting
<1>4. CoinStands(c) /\ call[c].tx = Empty
    BY <1>2, <1>3 DEF Stands, CoinStands
<1>5. Wanted(c) \subseteq LockModes /\ LabelsAlone \in Wanted(c)
    BY <1>2, RowsAreLocks DEF Wanted, ForUpdate, TableLocks, Writing
<1>6. DOMAIN call[c].tx \subseteq Keys
    BY <1>2
<1>7. /\ call'[c].op = call[c].op /\ call'[c].at = "readLabel" /\ call'[c].tx = call[c].tx
      /\ call'[c].read = NoRow /\ db' = db
      /\ \A w : Holds(c, w) => Holds(c, w)'
      /\ NoneCite <=> NoneCite'
      /\ Holds(c, LabelsAlone)'
    BY <1>1, <1>5, StepLeaves
<1>8. CoinStands(c)'
    BY <1>2, <1>3, <1>4, <1>7 DEF CoinStands
<1>9. Stands(c)'
    BY <1>3, <1>7, <1>8 DEF Stands, ArchiveStands, CompleteStands, IngestStands, TimelineStands, RecutStands, VerdictStands
<1> QED BY <1>1, <1>2, <1>3, <1>5, <1>6, <1>9, StepInv

LEMMA ReadLabelInv ==
    ASSUME ServersInv, NEW c \in Calls, ReadLabel(c)
    PROVE  ServersInv'
<1>1. At(c, "readLabel") /\ Step(c, "writeLabel", call[c].tx, db["label"])
    BY DEF ReadLabel
<1>2. /\ call[c].at = "readLabel" /\ Belongs(call[c].op, call[c].unit, "readLabel") /\ Stands(c)
      /\ DOMAIN call[c].tx \subseteq Keys
    BY <1>1, AtStep
<1>3. call[c].op = "coin" /\ Belongs(call[c].op, call[c].unit, "writeLabel")
    BY <1>2 DEF Belongs, Resting
<1>4. CoinStands(c) /\ call[c].tx = Empty
    BY <1>2, <1>3 DEF Stands, CoinStands
<1>5. Wanted(c) \subseteq LockModes
    BY <1>2, RowsAreLocks DEF Wanted, ForUpdate, TableLocks, Writing
<1>6. DOMAIN call[c].tx \subseteq Keys
    BY <1>2
<1>7. /\ call'[c].op = call[c].op /\ call'[c].at = "writeLabel" /\ call'[c].tx = call[c].tx
      /\ call'[c].read = db["label"] /\ db' = db
      /\ \A w : Holds(c, w) => Holds(c, w)'
      /\ NoneCite <=> NoneCite'
    BY <1>1, <1>5, StepLeaves
<1>8. CoinStands(c)'
    BY <1>2, <1>3, <1>4, <1>7 DEF CoinStands
<1>9. Stands(c)'
    BY <1>3, <1>7, <1>8 DEF Stands, ArchiveStands, CompleteStands, IngestStands, TimelineStands, RecutStands, VerdictStands
<1> QED BY <1>1, <1>2, <1>3, <1>5, <1>6, <1>9, StepInv

LEMMA LockDocumentInv ==
    ASSUME ServersInv, NEW c \in Calls, LockDocument(c)
    PROVE  ServersInv'
<1>1. At(c, "lockDocument") /\ Step(c, "lockNodes", call[c].tx, NoRow)
    BY DEF LockDocument
<1>2. /\ call[c].at = "lockDocument" /\ Belongs(call[c].op, call[c].unit, "lockDocument") /\ Stands(c)
      /\ DOMAIN call[c].tx \subseteq Keys
    BY <1>1, AtStep
<1>3. call[c].op = "recut" /\ Belongs(call[c].op, call[c].unit, "lockNodes")
    BY <1>2 DEF Belongs, Resting
<1>4. RecutStands(c) /\ call[c].tx = Empty
    BY <1>2, <1>3 DEF Stands, RecutStands
<1>5. Wanted(c) \subseteq LockModes /\ Row("cut") \in Wanted(c)
    BY <1>2, RowsAreLocks DEF Wanted, ForUpdate, TableLocks, Writing
<1>6. DOMAIN call[c].tx \subseteq Keys
    BY <1>2
<1>7. /\ call'[c].op = call[c].op /\ call'[c].at = "lockNodes" /\ call'[c].tx = call[c].tx
      /\ call'[c].read = NoRow /\ db' = db
      /\ \A w : Holds(c, w) => Holds(c, w)'
      /\ NoneCite <=> NoneCite'
      /\ Holds(c, Row("cut"))'
    BY <1>1, <1>5, StepLeaves
<1>8. RecutStands(c)'
    BY <1>2, <1>3, <1>4, <1>7 DEF RecutStands
<1>9. Stands(c)'
    BY <1>3, <1>7, <1>8 DEF Stands, ArchiveStands, CompleteStands, IngestStands, TimelineStands, CoinStands, VerdictStands
<1> QED BY <1>1, <1>2, <1>3, <1>5, <1>6, <1>9, StepInv

LEMMA LockNodesInv ==
    ASSUME ServersInv, NEW c \in Calls, LockNodes(c)
    PROVE  ServersInv'
<1>1. At(c, "lockNodes") /\ Step(c, "countCiting", call[c].tx, NoRow)
    BY DEF LockNodes
<1>2. /\ call[c].at = "lockNodes" /\ Belongs(call[c].op, call[c].unit, "lockNodes") /\ Stands(c)
      /\ DOMAIN call[c].tx \subseteq Keys
    BY <1>1, AtStep
<1>3. call[c].op = "recut" /\ Belongs(call[c].op, call[c].unit, "countCiting")
    BY <1>2 DEF Belongs, Resting
<1>4. RecutStands(c) /\ call[c].tx = Empty
    BY <1>2, <1>3 DEF Stands, RecutStands
<1>5. Wanted(c) \subseteq LockModes /\ NodesShare \in Wanted(c)
    BY <1>2, RowsAreLocks DEF Wanted, ForUpdate, TableLocks, Writing
<1>6. DOMAIN call[c].tx \subseteq Keys
    BY <1>2
<1>7. /\ call'[c].op = call[c].op /\ call'[c].at = "countCiting" /\ call'[c].tx = call[c].tx
      /\ call'[c].read = NoRow /\ db' = db
      /\ \A w : Holds(c, w) => Holds(c, w)'
      /\ NoneCite <=> NoneCite'
      /\ Holds(c, NodesShare)'
    BY <1>1, <1>5, StepLeaves
<1>8. RecutStands(c)'
    BY <1>2, <1>3, <1>4, <1>7 DEF RecutStands
<1>9. Stands(c)'
    BY <1>3, <1>7, <1>8 DEF Stands, ArchiveStands, CompleteStands, IngestStands, TimelineStands, CoinStands, VerdictStands
<1> QED BY <1>1, <1>2, <1>3, <1>5, <1>6, <1>9, StepInv

LEMMA ReplacePassagesInv ==
    ASSUME ServersInv, NEW c \in Calls, ReplacePassages(c)
    PROVE  ServersInv'
<1>1. At(c, "replacePassages") /\ Step(c, "commit", Put("cut", c, call[c].tx), NoRow)
    BY DEF ReplacePassages
<1>2. /\ call[c].at = "replacePassages" /\ Belongs(call[c].op, call[c].unit, "replacePassages") /\ Stands(c)
      /\ DOMAIN call[c].tx \subseteq Keys
    BY <1>1, AtStep
<1>3. call[c].op = "recut" /\ Belongs(call[c].op, call[c].unit, "commit")
    BY <1>2 DEF Belongs, Resting
<1>4. RecutStands(c) /\ call[c].tx = Empty
    BY <1>2, <1>3 DEF Stands, RecutStands
<1>5. Wanted(c) \subseteq LockModes
    BY <1>2, RowsAreLocks DEF Wanted, ForUpdate, TableLocks, Writing
<1>6. DOMAIN Put("cut", c, call[c].tx) \subseteq Keys
  <2>1. DOMAIN Put("cut", c, call[c].tx) = DOMAIN call[c].tx \union {"cut"}
      BY PutIs
  <2> QED BY <1>2, <2>1
<1>7. /\ call'[c].op = call[c].op /\ call'[c].at = "commit" /\ call'[c].tx = Put("cut", c, call[c].tx)
      /\ call'[c].read = NoRow /\ db' = db
      /\ \A w : Holds(c, w) => Holds(c, w)'
      /\ NoneCite <=> NoneCite'
    BY <1>1, <1>5, StepLeaves
<1>8. RecutStands(c)'
    BY <1>2, <1>3, <1>4, <1>7 DEF RecutStands
<1>9. Stands(c)'
    BY <1>3, <1>7, <1>8 DEF Stands, ArchiveStands, CompleteStands, IngestStands, TimelineStands, CoinStands, VerdictStands
<1> QED BY <1>1, <1>2, <1>3, <1>5, <1>6, <1>9, StepInv

LEMMA WriteLabelInv ==
    ASSUME ServersInv, NEW c \in Calls, WriteLabel(c)
    PROVE  ServersInv'
<1> DEFINE tx == Put("label", Coined(db["label"], c), Empty)
<1>1. /\ At(c, "writeLabel")
      /\ Step(c, "commit", Put("label", Coined(call[c].read, c), call[c].tx), call[c].read)
    BY DEF WriteLabel, Coined
<1>2. /\ call[c].at = "writeLabel" /\ Belongs(call[c].op, call[c].unit, "writeLabel") /\ Stands(c)
      /\ DOMAIN call[c].tx \subseteq Keys
    BY <1>1, AtStep
<1>3. call[c].op = "coin" /\ Belongs(call[c].op, call[c].unit, "commit")
    BY <1>2 DEF Belongs, Resting
<1>4. CoinStands(c) /\ call[c].tx = Empty /\ call[c].read = db["label"]
    BY <1>2, <1>3 DEF Stands, CoinStands
<1>5. Wanted(c) \subseteq LockModes
    BY <1>2, RowsAreLocks DEF Wanted, ForUpdate, TableLocks, Writing
<1>6. DOMAIN tx \subseteq Keys
  <2>1. DOMAIN tx = DOMAIN Empty \union {"label"}
      BY PutIs
  <2> QED BY EmptyIs, <2>1
<1>7. Step(c, "commit", tx, call[c].read)
    BY <1>1, <1>4
<1> HIDE DEF tx
<1>8. /\ call'[c].op = call[c].op /\ call'[c].at = "commit" /\ call'[c].tx = tx /\ db' = db
      /\ \A w : Holds(c, w) => Holds(c, w)'
    BY <1>1, <1>5, <1>7, StepLeaves
<1>9. CoinStands(c)'
  <2>1. call'[c].tx = Put("label", Coined(db'["label"], c), Empty)
      BY <1>8 DEF tx
  <2> QED BY <1>2, <1>3, <1>4, <1>8, <2>1 DEF CoinStands
<1>10. Stands(c)'
    BY <1>3, <1>8, <1>9 DEF Stands, ArchiveStands, CompleteStands, IngestStands, TimelineStands, RecutStands,
       VerdictStands
<1> QED BY <1>1, <1>2, <1>3, <1>5, <1>6, <1>7, <1>10, StepInv

LEMMA UpdateTimelineInv ==
    ASSUME ServersInv, NEW c \in Calls, UpdateTimeline(c)
    PROVE  ServersInv'
<1> DEFINE tx == Put("timeline", call[c].read + 1, Empty)
<1>1. At(c, "updateTimeline")
    BY DEF UpdateTimeline
<1>2. /\ call[c].at = "updateTimeline" /\ Belongs(call[c].op, call[c].unit, "updateTimeline") /\ Stands(c)
      /\ holder[Home[c]] = c
    BY <1>1, AtStep
<1>3. call[c].op = "timeline" /\ Belongs(call[c].op, call[c].unit, "commit")
    BY <1>2 DEF Belongs, Resting
<1>4. TimelineStands(c) /\ call[c].tx = Empty
    BY <1>2, <1>3 DEF Stands, TimelineStands
<1>5. CASE db["timeline"] = call[c].read
  <2>1. Wanted(c) \subseteq LockModes /\ Row("timeline") \in Wanted(c)
      BY <1>2, <1>5, RowsAreLocks DEF Wanted, ForUpdate, TableLocks, Writing
  <2>2. DOMAIN tx \subseteq Keys
    <3>1. DOMAIN tx = DOMAIN Empty \union {"timeline"}
        BY PutIs
    <3> QED BY EmptyIs, <3>1
  <2>3. Step(c, "commit", tx, call[c].read)
      BY <1>4, <1>5 DEF UpdateTimeline
  <2> HIDE DEF tx
  <2>4. /\ call'[c].op = call[c].op /\ call'[c].at = "commit" /\ call'[c].tx = tx
        /\ call'[c].read = call[c].read /\ db' = db /\ Holds(c, Row("timeline"))'
      BY <1>1, <2>1, <2>3, StepLeaves
  <2>5. TimelineStands(c)'
    <3>1. call'[c].tx = Put("timeline", call'[c].read + 1, Empty)
        BY <2>4 DEF tx
    <3> QED BY <1>3, <1>5, <2>4, <3>1 DEF TimelineStands
  <2>6. Stands(c)'
      BY <1>3, <2>4, <2>5 DEF Stands, ArchiveStands, CompleteStands, IngestStands, CoinStands, RecutStands,
         VerdictStands
  <2> QED BY <1>1, <1>2, <1>3, <2>1, <2>2, <2>3, <2>6, StepInv
<1>6. CASE db["timeline"] # call[c].read
    BY <1>2, <1>6, RefusedInv DEF UpdateTimeline
<1> QED BY <1>5, <1>6

LEMMA CountCitingInv ==
    ASSUME ServersInv, NEW c \in Calls, CountCiting(c)
    PROVE  ServersInv'
<1>1. At(c, "countCiting")
    BY DEF CountCiting
<1>2. /\ call[c].at = "countCiting" /\ Belongs(call[c].op, call[c].unit, "countCiting") /\ Stands(c)
      /\ holder[Home[c]] = c /\ DOMAIN call[c].tx \subseteq Keys
    BY <1>1, AtStep
<1>3. call[c].op = "recut" /\ Belongs(call[c].op, call[c].unit, "replacePassages")
    BY <1>2 DEF Belongs, Resting
<1>4. RecutStands(c)
    BY <1>2 DEF Stands
<1>5. CASE \E d \in Claims : db[d] = db["cut"]
    BY <1>2, <1>5, RefusedInv DEF CountCiting
<1>6. CASE ~\E d \in Claims : db[d] = db["cut"]
  <2>1. Step(c, "replacePassages", call[c].tx, NoRow) /\ NoneCite
      BY <1>6 DEF CountCiting, NoneCite
  <2>2. Wanted(c) \subseteq LockModes
      BY <1>2, RowsAreLocks DEF Wanted, ForUpdate, TableLocks, Writing
  <2>3. /\ call'[c].op = call[c].op /\ call'[c].at = "replacePassages" /\ call'[c].tx = call[c].tx
        /\ \A w : Holds(c, w) => Holds(c, w)'
        /\ NoneCite <=> NoneCite'
      BY <1>1, <2>1, <2>2, StepLeaves
  <2>4. RecutStands(c)'
      BY <1>2, <1>3, <1>4, <2>1, <2>3 DEF RecutStands
  <2>5. Stands(c)'
      BY <1>3, <2>3, <2>4 DEF Stands, ArchiveStands, CompleteStands, IngestStands, TimelineStands, CoinStands,
         VerdictStands
  <2> QED BY <1>1, <1>2, <1>3, <2>1, <2>2, <2>5, StepInv
<1> QED BY <1>5, <1>6
\* A sequence that lists nothing twice, without the first of what it lists.
LEMMA TailIs ==
    ASSUME NEW S, NEW q \in Seq(S), q # <<>>, IsInjective(q)
    PROVE  /\ Head(q) \in S /\ Tail(q) \in Seq(S) /\ IsInjective(Tail(q))
           /\ Head(q) \in Range(q) /\ Range(Tail(q)) = Range(q) \ {Head(q)}
<1>1. Len(q) \in Nat /\ Len(q) # 0 /\ DOMAIN q = 1..Len(q) /\ Head(q) = q[1] /\ Head(q) \in S
    BY EmptySeq
<1>2. /\ Tail(q) \in Seq(S) /\ Len(Tail(q)) = Len(q) - 1 /\ DOMAIN Tail(q) = 1..(Len(q) - 1)
      /\ \A i \in 1..(Len(q) - 1) : Tail(q)[i] = q[i + 1]
    BY <1>1
<1>3. \A a, b \in 1..Len(q) : q[a] = q[b] => a = b
    BY <1>1 DEF IsInjective
<1> DEFINE t == Tail(q)
           h == Head(q)
<1>4. /\ t \in Seq(S) /\ DOMAIN t = 1..(Len(q) - 1)
      /\ \A i \in 1..(Len(q) - 1) : t[i] = q[i + 1]
      /\ h = q[1] /\ h \in S
    BY <1>1, <1>2
<1> HIDE DEF t, h
<1>5. IsInjective(t)
  <2> SUFFICES ASSUME NEW a \in 1..(Len(q) - 1), NEW b \in 1..(Len(q) - 1), t[a] = t[b] PROVE a = b
      BY <1>4 DEF IsInjective
  <2>1. q[a + 1] = q[b + 1] /\ a + 1 \in 1..Len(q) /\ b + 1 \in 1..Len(q)
      BY <1>1, <1>4
  <2> QED BY <1>3, <2>1
<1>6. h \in Range(q)
    BY <1>1, <1>4 DEF Range
<1>7. Range(t) \subseteq Range(q) \ {h}
  <2> SUFFICES ASSUME NEW a \in 1..(Len(q) - 1) PROVE t[a] \in Range(q) /\ t[a] # h
      BY <1>4 DEF Range
  <2>1. a + 1 \in 1..Len(q) /\ 1 \in 1..Len(q) /\ a + 1 # 1
      BY <1>1
  <2> QED BY <1>1, <1>3, <1>4, <2>1 DEF Range
<1>8. Range(q) \ {h} \subseteq Range(t)
  <2> SUFFICES ASSUME NEW b \in 1..Len(q), q[b] # h PROVE q[b] \in Range(t)
      BY <1>1 DEF Range
  <2>1. b - 1 \in 1..(Len(q) - 1) /\ b = (b - 1) + 1
      BY <1>1, <1>4
  <2>2. t[b - 1] = q[b]
      BY <1>4, <2>1
  <2> QED BY <1>4, <2>1, <2>2 DEF Range
<1> QED BY <1>4, <1>5, <1>6, <1>7, <1>8 DEF t, h

LEMMA PutNodeInv ==
    ASSUME ServersInv, NEW c \in Calls, PutNode(c)
    PROVE  ServersInv'
<1>1. At(c, "putNode") /\ locks' = locks \union Held(c) /\ UNCHANGED <<db, conn, holder, landed, counts, losses, cuts>>
    BY DEF PutNode
<1>2. /\ call[c].at = "putNode" /\ Belongs(call[c].op, call[c].unit, "putNode") /\ Stands(c) /\ Shape(c)
      /\ Landing(c) /\ Blockers(c) = {} /\ holder[Home[c]] = c /\ call[c].told = "nothing"
      /\ DOMAIN call[c].tx \subseteq Keys
    BY <1>1, AtStep DEF ServersInv, CallTypes
<1>3. call[c].op = "archive"
    BY <1>2 DEF Belongs, Resting
<1>4. ArchiveStands(c)
    BY <1>2 DEF Stands
<1>5. /\ call[c].todo \in Seq(Nodes) /\ call[c].todo # <<>> /\ IsInjective(call[c].todo)
      /\ DOMAIN call[c].tx = Nodes \ Range(call[c].todo)
      /\ \A n \in DOMAIN call[c].tx : Holds(c, Row(n)) /\ call[c].tx[n] = Append(db[n], c)
      /\ Holds(c, Row(Head(call[c].todo))) /\ call[c].read = db[Head(call[c].todo)]
    BY <1>2, <1>3, <1>4 DEF ArchiveStands
<1>6. PICK n, rest : n = Head(call[c].todo) /\ rest = Tail(call[c].todo)
    OBVIOUS
<1>7. /\ n \in Nodes /\ rest \in Seq(Nodes) /\ IsInjective(rest) /\ n \in Range(call[c].todo)
      /\ Range(rest) = Range(call[c].todo) \ {n}
    BY <1>5, <1>6, TailIs
<1>8. PICK next : next = IF rest = <<>> THEN "commit" ELSE "selectNode"
    OBVIOUS
<1>9. PICK tx : tx = Put(n, Append(call[c].read, c), call[c].tx)
    OBVIOUS
<1>10. call' = [call EXCEPT ![c].tx = tx, ![c].todo = rest, ![c].at = next]
    BY <1>6, <1>8, <1>9 DEF PutNode
<1> DEFINE r == CallOf(call[c].op, next, call[c].unit, call[c].tries, tx, call[c].read, rest, call[c].told)
<1>11. Becomes(c, r)
  <2>2. DOMAIN call' = Calls /\ call' = [d \in Calls |-> call'[d]] /\ \A d \in Calls \ {c} : call'[d] = call[d]
      BY <1>10, FieldsAre DEF ServersInv
  <2>3. call'[c] = [f \in Fields |-> call'[c][f]]
      BY <1>10, FieldsAre DEF ServersInv
  <2>4. /\ call'[c].op = call[c].op /\ call'[c].at = next /\ call'[c].unit = call[c].unit
        /\ call'[c].tries = call[c].tries /\ call'[c].tx = tx /\ call'[c].read = call[c].read
        /\ call'[c].todo = rest /\ call'[c].told = call[c].told
      BY <1>10, FieldsAre DEF Fields, ServersInv
  <2>5. call'[c] = CallOf(call'[c].op, call'[c].at, call'[c].unit, call'[c].tries, call'[c].tx,
                          call'[c].read, call'[c].todo, call'[c].told)
      BY <2>3, CallIs
  <2> QED BY <2>2, <2>4, <2>5 DEF Becomes
<1>12. /\ r.op = call[c].op /\ r.at = next /\ r.tx = tx /\ r.told = call[c].told /\ r.unit = call[c].unit
       /\ r.tries = call[c].tries /\ r.todo = rest /\ r.read = call[c].read
       /\ r = CallOf(r.op, r.at, r.unit, r.tries, r.tx, r.read, r.todo, r.told)
    BY DEF CallOf
<1> HIDE DEF r
<1>13. /\ \A d \in Calls : call'[d].op = call[d].op
       /\ call'[c] = r /\ \A d \in Calls \ {c} : call'[d] = call[d]
    BY <1>11, <1>12 DEF Becomes
<1>14. next \in {"commit", "selectNode"} /\ (next = "commit" <=> rest = <<>>)
    BY <1>8
<1>15. /\ DOMAIN tx = DOMAIN call[c].tx \union {n} /\ tx[n] = Append(db[n], c)
       /\ \A j \in DOMAIN call[c].tx \ {n} : tx[j] = call[c].tx[j]
  <2>1. PICK value, was : value = Append(call[c].read, c) /\ was = call[c].tx
      OBVIOUS
  <2>2. tx = Put(n, value, was)
      BY <1>9, <2>1
  <2>3. DOMAIN tx = DOMAIN was \union {n} /\ tx[n] = value /\ \A j \in DOMAIN was \ {n} : tx[j] = was[j]
      BY <2>2 DEF Put
  <2> QED BY <1>5, <1>6, <2>1, <2>3
<1>16. Shape(c)'
  <2>1. DOMAIN tx \subseteq Keys
      BY <1>2, <1>7, <1>15
  <2>2. Belongs(r.op, r.unit, r.at)
      BY <1>2, <1>3, <1>12, <1>14 DEF Belongs
  <2> QED BY <1>2, <1>12, <1>13, <2>1, <2>2 DEF Shape
<1>17. Wanted(c) \subseteq LockModes
  <2>1. Wanted(c) = {Row(n), NodesWrite}
      BY <1>2, <1>6 DEF Wanted, ForUpdate, TableLocks, Writing
  <2> QED BY <1>7, <2>1, RowsAreLocks
<1>18. /\ LocksAreApart' /\ LockTypes'
       /\ \A w : Holds(c, w) => Holds(c, w)'
       /\ \A d \in Calls \ {c} : \A w : Holds(d, w)' <=> Holds(d, w)
    BY <1>1, <1>2, <1>17, HeldApart DEF ServersInv
<1>19. ArchiveStands(c)'
  <2>1. DOMAIN tx = Nodes \ Range(rest)
      BY <1>5, <1>7, <1>15
  <2>2. ASSUME NEW j \in DOMAIN tx PROVE Holds(c, Row(j))' /\ tx[j] = Append(db'[j], c)
    <3>1. db' = db
        BY <1>1
    <3>2. CASE j = n
        BY <1>5, <1>6, <1>15, <1>18, <3>1, <3>2
    <3>3. CASE j # n
        BY <1>5, <1>15, <1>18, <3>1, <3>3
    <3> QED BY <3>2, <3>3
  <2> QED BY <1>3, <1>7, <1>12, <1>13, <1>14, <2>1, <2>2 DEF ArchiveStands
<1>20. Stands(c)'
    BY <1>3, <1>12, <1>13, <1>19 DEF Stands, CompleteStands, IngestStands, TimelineStands, CoinStands,
       RecutStands, VerdictStands
<1>21. DbTypes' /\ RestTypes'
    BY <1>1 DEF ServersInv, DbTypes, RestTypes
<1>22. Landing(c)'
    BY <1>1, <1>2, <1>3, <1>12, <1>13 DEF Landing
<1>23. Totals'
  <2>1. losses' \in Nat /\ losses' >= losses
      BY <1>1 DEF ServersInv, RestTypes
  <2> QED BY <1>1, <1>2, <1>11, <1>12, <2>1, TotalsQuiet DEF counts
<1>24. NoneCite <=> NoneCite'
    BY <1>1, <1>13, NoneCiteIs
<1>25. (\A s \in Servers : holder'[s] \in {holder[s], NoCall, c}) /\ r.at \notin {"queued", "ended"}
    BY <1>1, <1>12, <1>14
<1>26. landed' = landed /\ db' = db
    BY <1>1
<1> QED BY <1>11, <1>12, <1>16, <1>18, <1>20, <1>21, <1>22, <1>23, <1>24, <1>25, <1>26, FrameInv
--------------------------------------------------------------------------------
(* A commit.                                                                 *)

LEMMA CommittedIs ==
    ASSUME ServersInv, NEW tx, DOMAIN tx \subseteq Keys, db' = Committed(tx)
    PROVE  /\ db' = [k \in Keys |-> db'[k]]
           /\ \A k \in DOMAIN tx : db'[k] = tx[k]
           /\ \A k \in Keys \ DOMAIN tx : db'[k] = db[k]
<1>1. DOMAIN db = Keys
    BY DEF ServersInv, DbTypes
<1> QED BY <1>1 DEF Committed

\* What is locked by the one that writes it is locked by nobody else.
LEMMA SparesBy ==
    ASSUME ServersInv, NEW c \in Calls, \A d \in Calls : call'[d].op = call[d].op,
           \A k \in Nodes \union Singles : db'[k] = db[k] \/ Holds(c, GuardOf(k)),
           \/ /\ db'["cut"] = db["cut"]
              /\ \A d \in Calls : call[d].op = "ingest" => db'[d] = db[d]
           \/ Holds(c, Row("cut")) \/ Holds(c, NodesWrite)
    PROVE  Spares(c)
<1>1. LocksAreApart
    BY DEF ServersInv
<1>2. \A k : GuardOf(k).mode = "row" /\ Row(k).mode = "row"
    BY DEF GuardOf, Row, LabelsAlone
<1>3. ASSUME NEW d \in Calls \ {c}, NEW k \in Nodes \union Singles, Holds(d, GuardOf(k)) PROVE db'[k] = db[k]
  <2>1. ~Holds(c, GuardOf(k))
      BY <1>1, <1>2, <1>3, GuardsApart
  <2> QED BY <2>1
<1>4. ASSUME NEW d \in Calls \ {c}, Holds(d, NodesShare), Holds(d, Row("cut")), NoneCite PROVE NoneCite'
  <2>1. ~Holds(c, Row("cut")) /\ ~Holds(c, NodesWrite)
      BY <1>1, <1>2, <1>4, GuardsApart, ShareApart
  <2> QED BY <1>4, <2>1 DEF NoneCite, Claims
<1> QED BY <1>3, <1>4 DEF Spares

LEMMA LandedIs ==
    ASSUME ServersInv, NEW c \in Calls, c \notin landed, landed' = landed \union {c},
           \A d \in Calls : call'[d].op = call[d].op
    PROVE  /\ \A op : op = call[c].op => Landed(op)' = Landed(op) \union {c} /\ c \notin Landed(op)
           /\ \A op : op # call[c].op => Landed(op)' = Landed(op)
           /\ \A op : IsFiniteSet(Landed(op)) /\ Landed(op) \subseteq Calls
<1>1. landed \subseteq Calls
    BY DEF ServersInv, RestTypes
<1>2. \A op : Landed(op) \subseteq Calls
    BY <1>1 DEF Landed
<1>3. \A op : IsFiniteSet(Landed(op))
    BY <1>2, FS_Subset
<1> QED BY <1>1, <1>2, <1>3 DEF Landed

\* What a commit does besides the writes themselves.
LEMMA CommitIs ==
    ASSUME ServersInv, NEW c \in Calls, Commit(c)
    PROVE  /\ call[c].at = "commit" /\ holder[Home[c]] = c /\ Stands(c) /\ Shape(c)
           /\ DOMAIN call[c].tx \subseteq Keys /\ c \notin landed
           /\ call[c].op \in {"archive", "complete", "ingest", "timeline", "coin", "recut"}
           /\ db' = [k \in Keys |-> db'[k]]
           /\ \A k \in DOMAIN call[c].tx : db'[k] = call[c].tx[k]
           /\ \A k \in Keys \ DOMAIN call[c].tx : db'[k] = db[k]
           /\ landed' = landed \union {c} /\ bumps' = bumps
           /\ \A d \in Calls : call'[d].op = call[d].op
           /\ \A d \in Calls \ {c} : call'[d] = call[d]
           /\ call[c].op # "ingest" => call'[c].read = call[c].read
           /\ \A op : op = call[c].op => Landed(op)' = Landed(op) \union {c} /\ c \notin Landed(op)
           /\ \A op : op # call[c].op => Landed(op)' = Landed(op)
           /\ \A op : IsFiniteSet(Landed(op)) /\ Landed(op) \subseteq Calls
<1>1. At(c, "commit") /\ db' = Committed(call[c].tx) /\ landed' = landed \union {c} /\ Reply(c) /\ bumps' = bumps
    BY DEF Commit
<1>2. /\ call[c].at = "commit" /\ holder[Home[c]] = c /\ Belongs(call[c].op, call[c].unit, "commit") /\ Stands(c)
      /\ DOMAIN call[c].tx \subseteq Keys
    BY <1>1, AtStep
<1>3. Landing(c) /\ Shape(c)
    BY DEF ServersInv, CallTypes
<1>4. /\ call[c].op \in {"archive", "complete", "ingest", "timeline", "coin", "recut"} /\ c \notin landed
      /\ (call[c].op # "ingest" => NextUnit(call[c].unit) = "none")
    BY <1>2, <1>3 DEF Belongs, Resting, Landing, NextUnit
<1>5. PICK r : Becomes(c, r) /\ EndsAs(c, r)
    BY <1>1, ReplyIs
<1>6. /\ \A d \in Calls : call'[d].op = call[d].op
      /\ call'[c] = r /\ \A d \in Calls \ {c} : call'[d] = call[d]
      /\ (r.at # "queued" => r.read = call[c].read)
      /\ (r.at = "queued" => NextUnit(call[c].unit) # "none")
    BY <1>2, <1>5, EndsWell
<1>7. /\ db' = [k \in Keys |-> db'[k]]
      /\ \A k \in DOMAIN call[c].tx : db'[k] = call[c].tx[k]
      /\ \A k \in Keys \ DOMAIN call[c].tx : db'[k] = db[k]
    BY <1>1, <1>2, CommittedIs
<1>8. call[c].op # "ingest" => call'[c].read = call[c].read
    BY <1>4, <1>6
<1>9. /\ \A op : op = call[c].op => Landed(op)' = Landed(op) \union {c} /\ c \notin Landed(op)
      /\ \A op : op # call[c].op => Landed(op)' = Landed(op)
      /\ \A op : IsFiniteSet(Landed(op)) /\ Landed(op) \subseteq Calls
    BY <1>1, <1>4, <1>6, LandedIs
<1> QED BY <1>1, <1>2, <1>3, <1>4, <1>6, <1>7, <1>8, <1>9

\* The invariant after a commit, from what is to be shown of what it wrote.
LEMMA LandInv ==
    ASSUME ServersInv, NEW c \in Calls, Commit(c), DbTypes', Spares(c), cleared' \in Nat,
           EpisodesAreKept', StoresAreCounted', LabelIsKept'
    PROVE  ServersInv'
<1>1. At(c, "commit") /\ Reply(c)
    BY DEF Commit
<1>2. PICK r : /\ Becomes(c, r) /\ EndsAs(c, r) /\ locks' = Without(c)
               /\ conn' \in [Servers -> {"open", "lost"}]
               /\ losses' \in 0..MaxLosses /\ losses' >= losses /\ cuts' \in 0..MaxCuts
    BY <1>1, ReplyIs
<1>3. /\ call[c].at = "commit" /\ holder[Home[c]] = c /\ Shape(c) /\ c \notin landed
      /\ landed' = landed \union {c} /\ bumps' = bumps
    BY CommitIs
<1>4. /\ r.op = call[c].op /\ call'[c] = r
      /\ r.at \in Resting
      /\ (r.told = "done" => r.at = "ended" /\ NextUnit(call[c].unit) = "none")
      /\ (r.at = "queued" => r.unit = NextUnit(call[c].unit) /\ NextUnit(call[c].unit) # "none")
      /\ (r.at # "queued" => r.unit = call[c].unit)
      /\ (r.at = "rebuild" => call[c].unit \in Retried)
    BY <1>2, <1>3, EndsWell
<1>5. Belongs(call[c].op, call[c].unit, "commit")
    BY <1>3 DEF Shape
<1>6. /\ call[c].unit \notin Retried
      /\ (call[c].op = "ingest" => NextUnit(call[c].unit) = "bump")
      /\ (call[c].op # "ingest" => NextUnit(call[c].unit) = "none")
      /\ call[c].unit # "bump"
    BY <1>5 DEF Belongs, Resting, Retried, NextUnit
<1>7. RestTypes'
  <2>1. landed' \subseteq Calls
      BY <1>3 DEF ServersInv, RestTypes
  <2> QED BY <1>2, <2>1 DEF RestTypes
<1>8. Landing(c)'
    BY <1>3, <1>4, <1>6 DEF Landing, Resting
<1>9. CountsAreDue'
  <2>1. landed \subseteq landed' /\ landed' \subseteq Calls /\ losses' \in Nat
      BY <1>2, <1>3, <1>7 DEF RestTypes
  <2>2. r.told = "done" => r.op # "ingest"
      BY <1>4, <1>6
  <2> QED BY <1>2, <1>3, <1>4, <2>1, <2>2, CountsQuiet
<1>10. Totals'
    BY <1>9 DEF Totals
<1>11. landed \subseteq landed' /\ landed' \subseteq landed \union {c}
    BY <1>3
<1> QED BY <1>2, <1>3, <1>7, <1>8, <1>10, <1>11, EndsInv

\* What is not this operation's to write stays as it was.
LEMMA EpisodesQuiet ==
    ASSUME ServersInv, NEW c \in Calls, Commit(c), call[c].op # "archive", \A n \in Nodes : db'[n] = db[n]
    PROVE  EpisodesAreKept'
<1>1. Landed("archive")' = Landed("archive")
    BY CommitIs
<1> QED BY <1>1 DEF ServersInv, Totals, EpisodesAreKept

LEMMA StoresQuiet ==
    ASSUME ServersInv, NEW c \in Calls, Commit(c), call[c].op # "complete",
           db'["counter"] = db["counter"], db'["round"] = db["round"]
    PROVE  StoresAreCounted' /\ cleared' \in Nat
<1>1. /\ Landed("complete")' = Landed("complete") /\ bumps' = bumps
      /\ \A d \in Calls \ {c} : call'[d] = call[d]
      /\ Landed("complete") \subseteq Calls
    BY CommitIs
<1>2. c \notin Landed("complete")
    BY DEF Landed
<1>3. {d \in Landed("complete") : call[d].read > 0}' = {d \in Landed("complete") : call[d].read > 0}
    BY <1>1, <1>2
<1>4. cleared' = cleared
    BY DEF Commit
<1>5. cleared \in Nat
    BY DEF ServersInv, Totals, CountsAreDue
<1> QED BY <1>1, <1>3, <1>4, <1>5 DEF ServersInv, Totals, StoresAreCounted

LEMMA LabelQuiet ==
    ASSUME ServersInv, NEW c \in Calls, Commit(c), call[c].op # "coin", db'["label"] = db["label"]
    PROVE  LabelIsKept'
<1>1. Landed("coin")' = Landed("coin")
    BY CommitIs
<1> QED BY <1>1 DEF ServersInv, Totals, LabelIsKept
\* A timeline moves on from what its writer read, and passages are cut that no claim cites.
OverwritesNothing(c) ==
  /\ db'["timeline"] # db["timeline"] =>
       /\ db'["timeline"] = db["timeline"] + 1
       /\ c \in landed' \ landed /\ call[c].op = "timeline" /\ call[c].read = db["timeline"]
  /\ db'["cut"] # db["cut"] => NoneCite

LEMMA ArchiveCommits ==
    ASSUME ServersInv, NEW c \in Calls, Commit(c), call[c].op = "archive"
    PROVE  ServersInv' /\ OverwritesNothing(c)
<1>1. /\ call[c].at = "commit" /\ Stands(c) /\ db' = [k \in Keys |-> db'[k]]
      /\ \A k \in DOMAIN call[c].tx : db'[k] = call[c].tx[k]
      /\ \A k \in Keys \ DOMAIN call[c].tx : db'[k] = db[k]
      /\ \A d \in Calls : call'[d].op = call[d].op
      /\ Landed("archive")' = Landed("archive") \union {c} /\ c \notin Landed("archive")
      /\ IsFiniteSet(Landed("archive"))
    BY CommitIs
<1>2. /\ call[c].todo = <<>> /\ DOMAIN call[c].tx = Nodes \ Range(call[c].todo)
      /\ \A n \in DOMAIN call[c].tx : Holds(c, Row(n)) /\ call[c].tx[n] = Append(db[n], c)
    BY <1>1 DEF Stands, ArchiveStands
<1>3. DOMAIN call[c].tx = Nodes
    BY <1>2 DEF Range
<1>4. /\ \A n \in Nodes : Holds(c, Row(n)) /\ db'[n] = Append(db[n], c)
      /\ \A k \in Keys \ Nodes : db'[k] = db[k]
    BY <1>1, <1>2, <1>3
<1>5. \A n \in Nodes : db[n] \in Seq(Calls)
    BY DEF ServersInv, DbTypes
<1>6. DbTypes'
  <2>1. \A n \in Nodes : db'[n] \in Seq(Calls)
    <3> SUFFICES ASSUME NEW n \in Nodes PROVE db'[n] \in Seq(Calls)
        OBVIOUS
    <3>1. PICK q \in Seq(Calls) : q = db[n] /\ db'[n] = Append(q, c)
        BY <1>4, <1>5
    <3> QED BY <3>1
  <2>2. \A k \in Singles : db'[k] = db[k]
      BY <1>4
  <2> QED BY <1>1, <2>1, <2>2 DEF ServersInv, DbTypes
<1>7. Spares(c)
  <2>1. \A k \in Nodes \union Singles : db'[k] = db[k] \/ Holds(c, GuardOf(k))
      BY <1>4 DEF GuardOf
  <2>2. db'["cut"] = db["cut"] /\ \A d \in Calls : db'[d] = db[d]
      BY <1>4
  <2> QED BY <1>1, <2>1, <2>2, SparesBy
<1>8. EpisodesAreKept'
  <2>1. Cardinality(Landed("archive") \union {c}) = Cardinality(Landed("archive")) + 1
      BY <1>1, FS_AddElement
  <2> SUFFICES ASSUME NEW n \in Nodes
               PROVE  /\ Range(db'[n]) = Landed("archive")'
                      /\ Len(db'[n]) = Cardinality(Landed("archive")')
      BY DEF EpisodesAreKept
  <2>2. Range(db[n]) = Landed("archive") /\ Len(db[n]) = Cardinality(Landed("archive"))
      BY DEF ServersInv, Totals, EpisodesAreKept
  <2>3. PICK q \in Seq(Calls) : q = db[n] /\ db'[n] = Append(q, c)
      BY <1>4, <1>5
  <2>4. Len(Append(q, c)) = Len(q) + 1 /\ Range(Append(q, c)) = Range(q) \union {c}
    <3>1. /\ Len(q) \in Nat /\ DOMAIN q = 1..Len(q) /\ Append(q, c) \in Seq(Calls)
          /\ DOMAIN Append(q, c) = 1..(Len(q) + 1) /\ Len(Append(q, c)) = Len(q) + 1
          /\ \A i \in 1..Len(q) : Append(q, c)[i] = q[i] /\ Append(q, c)[Len(q) + 1] = c
        OBVIOUS
    <3>2. Append(q, c)[Len(q) + 1] = c
        OBVIOUS
    <3>3. PICK a : a = Append(q, c)
        OBVIOUS
    <3>4. Range(a) = Range(q) \union {c}
        BY <3>1, <3>2, <3>3 DEF Range
    <3> QED BY <3>1, <3>3, <3>4
  <2> QED BY <1>1, <2>1, <2>2, <2>3, <2>4
<1>9. StoresAreCounted' /\ cleared' \in Nat
    BY <1>4, StoresQuiet
<1>10. LabelIsKept'
    BY <1>4, LabelQuiet
<1>11. OverwritesNothing(c)
    BY <1>4 DEF OverwritesNothing
<1> QED BY <1>6, <1>7, <1>8, <1>9, <1>10, <1>11, LandInv

Value(counter) == IF counter = NoRow THEN 0 ELSE counter

\* What a completion commits: the counter it read is cleared, and the round moves if it counted.
LEMMA CompletionIs ==
    ASSUME ServersInv, NEW c \in Calls, Commit(c), call[c].op = "complete"
    PROVE  /\ call[c].read \in Nat /\ \A k \in Keys \ {"counter", "round"} : db'[k] = db[k]
           /\ db'["counter"] \in Nat \union {NoRow} /\ db'["round"] \in Nat
           /\ db'["counter"] = db["counter"] \/ Holds(c, Row("counter"))
           /\ db'["round"] = db["round"] \/ Holds(c, Row("round"))
           /\ Value(db["counter"]) = Value(db'["counter"]) + call[c].read
           /\ db'["round"] = IF call[c].read > 0 THEN db["round"] + 1 ELSE db["round"]
<1>1. /\ call[c].at = "commit" /\ Stands(c)
      /\ \A k \in DOMAIN call[c].tx : db'[k] = call[c].tx[k]
      /\ \A k \in Keys \ DOMAIN call[c].tx : db'[k] = db[k]
    BY CommitIs
<1>2. db["counter"] \in Nat \union {NoRow} /\ db["round"] \in Nat /\ NoRow \notin Nat
    BY DEF ServersInv, DbTypes
<1>3. CompleteStands(c)
    BY <1>1 DEF Stands
<1>4. DOMAIN Zeroed = {"counter"} /\ Zeroed["counter"] = 0
  <2>1. DOMAIN Zeroed = DOMAIN Empty \union {"counter"} /\ Zeroed["counter"] = 0
      BY DEF Zeroed, Put
  <2> QED BY <2>1, EmptyIs
<1>5. CASE call[c].read = 0 /\ call[c].tx = Empty
  <2>1. \A k \in Keys : db'[k] = db[k]
      BY <1>1, <1>5, EmptyIs
  <2> QED BY <1>2, <1>5, <2>1 DEF Value
<1>6. CASE /\ Holds(c, Row("counter")) /\ call[c].read = db["counter"]
           /\ call[c].read = 0 /\ call[c].tx = Zeroed
  <2>1. db'["counter"] = 0 /\ \A k \in Keys \ {"counter"} : db'[k] = db[k]
      BY <1>1, <1>4, <1>6
  <2>2. db'["round"] = db["round"] /\ \A k \in Keys \ {"counter", "round"} : db'[k] = db[k]
      BY <2>1
  <2>3. Value(db'["counter"]) = 0 /\ Value(db["counter"]) = 0
      BY <1>2, <1>6, <2>1 DEF Value
  <2> QED BY <1>2, <1>6, <2>1, <2>2, <2>3
<1>7. CASE /\ Holds(c, Row("counter")) /\ call[c].read = db["counter"] /\ Holds(c, Row("round"))
           /\ call[c].read \in Nat /\ call[c].read > 0
           /\ call[c].tx = Put("round", db["round"] + 1, Zeroed)
  <2>1. PICK more : more = db["round"] + 1
      OBVIOUS
  <2>2. call[c].tx = Put("round", more, Zeroed)
      BY <1>7, <2>1
  <2>3. /\ DOMAIN call[c].tx = {"counter", "round"} /\ call[c].tx["round"] = more
        /\ call[c].tx["counter"] = 0
      BY <1>4, <2>2 DEF Put
  <2>4. db'["counter"] = 0 /\ db'["round"] = db["round"] + 1 /\ \A k \in Keys \ {"counter", "round"} : db'[k] = db[k]
      BY <1>1, <2>1, <2>3
  <2>5. Value(db'["counter"]) = 0 /\ Value(db["counter"]) = call[c].read
      BY <1>2, <1>7, <2>4 DEF Value
  <2> QED BY <1>2, <1>7, <2>4, <2>5
<1> QED BY <1>1, <1>3, <1>5, <1>6, <1>7 DEF CompleteStands, ServersInv

LEMMA CompleteCommits ==
    ASSUME ServersInv, NEW c \in Calls, Commit(c), call[c].op = "complete"
    PROVE  ServersInv' /\ OverwritesNothing(c)
<1>1. /\ db' = [k \in Keys |-> db'[k]] /\ bumps' = bumps /\ call'[c].read = call[c].read
      /\ \A d \in Calls : call'[d].op = call[d].op
      /\ \A d \in Calls \ {c} : call'[d] = call[d]
      /\ Landed("complete")' = Landed("complete") \union {c} /\ c \notin Landed("complete")
      /\ IsFiniteSet(Landed("complete")) /\ Landed("complete") \subseteq Calls
    BY CommitIs
<1>2. /\ call[c].read \in Nat /\ \A k \in Keys \ {"counter", "round"} : db'[k] = db[k]
      /\ db'["counter"] \in Nat \union {NoRow} /\ db'["round"] \in Nat
      /\ db'["counter"] = db["counter"] \/ Holds(c, Row("counter"))
      /\ db'["round"] = db["round"] \/ Holds(c, Row("round"))
      /\ Value(db["counter"]) = Value(db'["counter"]) + call[c].read
      /\ db'["round"] = IF call[c].read > 0 THEN db["round"] + 1 ELSE db["round"]
    BY CompletionIs
<1>3. cleared' = cleared + call[c].read /\ cleared \in Nat
    BY DEF Commit, ServersInv, Totals, CountsAreDue
<1>4. (\A n \in Nodes : db'[n] = db[n]) /\ (\A d \in Calls : db'[d] = db[d])
      /\ \A k \in {"timeline", "cut", "label"} : db'[k] = db[k]
    BY <1>2
<1>5. DbTypes'
    BY <1>1, <1>2, <1>4 DEF ServersInv, DbTypes
<1>6. Spares(c)
  <2>1. \A k \in Nodes \union Singles : db'[k] = db[k] \/ Holds(c, GuardOf(k))
      BY <1>2, <1>4 DEF GuardOf
  <2> QED BY <1>1, <1>4, <2>1, SparesBy
<1>7. EpisodesAreKept' /\ LabelIsKept'
    BY <1>4, EpisodesQuiet, LabelQuiet
<1>8. StoresAreCounted'
  <2> DEFINE D == {d \in Landed("complete") : call[d].read > 0}
  <2>1. bumps = cleared + Value(db["counter"]) /\ db["round"] = Cardinality(D)
      BY DEF ServersInv, Totals, StoresAreCounted, Value
  <2>2. D' = IF call[c].read > 0 THEN D \union {c} ELSE D
      BY <1>1
  <2>3. IsFiniteSet(D) /\ c \notin D
      BY <1>1, FS_Subset
  <2> HIDE DEF D
  <2>4. Cardinality(D \union {c}) = Cardinality(D) + 1
      BY <2>3, FS_AddElement
  <2>5. db'["round"] = Cardinality(D')
      BY <1>2, <2>1, <2>2, <2>4
  <2>6. Value(db["counter"]) \in Nat /\ Value(db'["counter"]) \in Nat
      BY <1>2 DEF Value, ServersInv, DbTypes
  <2>7. bumps' = cleared' + Value(db'["counter"])
      BY <1>1, <1>2, <1>3, <2>1, <2>6
  <2> QED BY <2>5, <2>7 DEF StoresAreCounted, Value, D
<1>9. OverwritesNothing(c)
    BY <1>4 DEF OverwritesNothing
<1> QED BY <1>2, <1>3, <1>5, <1>6, <1>7, <1>8, <1>9, LandInv

\* A commit of one row.
LEMMA OneRowIs ==
    ASSUME ServersInv, NEW c \in Calls, Commit(c), NEW k \in Keys, NEW v, call[c].tx = Put(k, v, Empty)
    PROVE  db'[k] = v /\ \A j \in Keys \ {k} : db'[j] = db[j]
<1>1. DOMAIN call[c].tx = DOMAIN Empty \union {k} /\ call[c].tx[k] = v
    BY DEF Put
<1>2. /\ \A j \in DOMAIN call[c].tx : db'[j] = call[c].tx[j]
      /\ \A j \in Keys \ DOMAIN call[c].tx : db'[j] = db[j]
    BY CommitIs
<1> QED BY <1>1, <1>2, EmptyIs

LEMMA IngestCommits ==
    ASSUME ServersInv, NEW c \in Calls, Commit(c), call[c].op = "ingest"
    PROVE  ServersInv' /\ OverwritesNothing(c)
<1>1. /\ call[c].at = "commit" /\ Stands(c) /\ db' = [k \in Keys |-> db'[k]]
      /\ \A d \in Calls : call'[d].op = call[d].op
    BY CommitIs
<1>2. call[c].tx = Put(c, call[c].read, Empty) /\ Holds(c, NodesWrite)
    BY <1>1 DEF Stands, IngestStands
<1>3. \A j \in Keys \ {c} : db'[j] = db[j]
    BY <1>2, OneRowIs
<1>4. \A k \in Nodes \union Singles : db'[k] = db[k]
    BY <1>3
<1>5. DbTypes'
    BY <1>1, <1>4 DEF ServersInv, DbTypes
<1>6. Spares(c)
    BY <1>1, <1>2, <1>4, SparesBy
<1>7. EpisodesAreKept' /\ StoresAreCounted' /\ cleared' \in Nat /\ LabelIsKept'
    BY <1>4, EpisodesQuiet, StoresQuiet, LabelQuiet
<1>8. OverwritesNothing(c)
    BY <1>4 DEF OverwritesNothing
<1> QED BY <1>5, <1>6, <1>7, <1>8, LandInv

LEMMA TimelineCommits ==
    ASSUME ServersInv, NEW c \in Calls, Commit(c), call[c].op = "timeline"
    PROVE  ServersInv' /\ OverwritesNothing(c)
<1>1. /\ call[c].at = "commit" /\ Stands(c) /\ db' = [k \in Keys |-> db'[k]]
      /\ \A d \in Calls : call'[d].op = call[d].op
    BY CommitIs
<1>2. call[c].tx = Put("timeline", call[c].read + 1, Empty) /\ Holds(c, Row("timeline"))
      /\ call[c].read = db["timeline"]
    BY <1>1 DEF Stands, TimelineStands
<1>3. db'["timeline"] = call[c].read + 1 /\ \A j \in Keys \ {"timeline"} : db'[j] = db[j]
    BY <1>2, OneRowIs
<1>4. /\ \A n \in Nodes : db'[n] = db[n]
      /\ \A d \in Calls : db'[d] = db[d]
      /\ \A k \in Singles \ {"timeline"} : db'[k] = db[k]
    BY <1>3
<1>5. DbTypes'
  <2>1. db'["timeline"] \in Nat
      BY <1>2, <1>3 DEF ServersInv, DbTypes
  <2> QED BY <1>1, <1>4, <2>1 DEF ServersInv, DbTypes
<1>6. Spares(c)
  <2>1. \A k \in Nodes \union Singles : db'[k] = db[k] \/ Holds(c, GuardOf(k))
      BY <1>2, <1>4 DEF GuardOf
  <2> QED BY <1>1, <1>4, <2>1, SparesBy
<1>7. EpisodesAreKept' /\ StoresAreCounted' /\ cleared' \in Nat /\ LabelIsKept'
    BY <1>4, EpisodesQuiet, StoresQuiet, LabelQuiet
<1>8. OverwritesNothing(c)
  <2>1. c \in landed' \ landed /\ call[c].op = "timeline"
      BY CommitIs
  <2> QED BY <1>2, <1>3, <1>4, <2>1 DEF OverwritesNothing
<1> QED BY <1>5, <1>6, <1>7, <1>8, LandInv

LEMMA CoinCommits ==
    ASSUME ServersInv, NEW c \in Calls, Commit(c), call[c].op = "coin"
    PROVE  ServersInv' /\ OverwritesNothing(c)
<1>1. /\ call[c].at = "commit" /\ Stands(c) /\ db' = [k \in Keys |-> db'[k]]
      /\ \A d \in Calls : call'[d].op = call[d].op
      /\ Landed("coin")' = Landed("coin") \union {c} /\ Landed("coin") \subseteq Calls
    BY CommitIs
<1>2. call[c].tx = Put("label", Coined(db["label"], c), Empty) /\ Holds(c, LabelsAlone)
    BY <1>1 DEF Stands, CoinStands
<1>3. db'["label"] = Coined(db["label"], c) /\ \A j \in Keys \ {"label"} : db'[j] = db[j]
    BY <1>2, OneRowIs
<1>4. /\ \A n \in Nodes : db'[n] = db[n]
      /\ \A d \in Calls : db'[d] = db[d]
      /\ \A k \in Singles \ {"label"} : db'[k] = db[k]
    BY <1>3
<1>5. DbTypes'
    BY <1>1, <1>4 DEF ServersInv, DbTypes
<1>6. Spares(c)
  <2>1. \A k \in Nodes \union Singles : db'[k] = db[k] \/ Holds(c, GuardOf(k))
      BY <1>2, <1>4 DEF GuardOf
  <2> QED BY <1>1, <1>4, <2>1, SparesBy
<1>7. EpisodesAreKept' /\ StoresAreCounted' /\ cleared' \in Nat
    BY <1>4, EpisodesQuiet, StoresQuiet
<1>8. LabelIsKept'
  <2>1. LabelIsKept
      BY DEF ServersInv, Totals
  <2>2. CASE db["label"] = NoRow /\ Landed("coin") = {}
    <3>1. db'["label"] = [id |-> c, said |-> {c}] /\ Landed("coin")' = {c}
        BY <1>1, <1>3, <2>2 DEF Coined
    <3> QED BY <3>1 DEF LabelIsKept
  <2>3. ASSUME NEW i \in Landed("coin"), db["label"] = [id |-> i, said |-> Landed("coin")]
        PROVE  LabelIsKept'
    <3>1. PICK said : said = Landed("coin") /\ said \subseteq Calls /\ i \in said
        BY <1>1
    <3>2. db["label"] # NoRow
        BY <2>3, <3>1
    <3>3. db'["label"] = [id |-> i, said |-> said \union {c}]
        BY <1>3, <2>3, <3>1, <3>2 DEF Coined
    <3>4. Landed("coin")' = said \union {c} /\ i \in said \union {c}
        BY <1>1, <3>1
    <3> QED BY <3>3, <3>4 DEF LabelIsKept
  <2> QED BY <2>1, <2>2, <2>3 DEF LabelIsKept
<1>9. OverwritesNothing(c)
    BY <1>4 DEF OverwritesNothing
<1> QED BY <1>5, <1>6, <1>7, <1>8, <1>9, LandInv

LEMMA RecutCommits ==
    ASSUME ServersInv, NEW c \in Calls, Commit(c), call[c].op = "recut"
    PROVE  ServersInv' /\ OverwritesNothing(c)
<1>1. /\ call[c].at = "commit" /\ Stands(c) /\ db' = [k \in Keys |-> db'[k]]
      /\ \A d \in Calls : call'[d].op = call[d].op
    BY CommitIs
<1>2. call[c].tx = Put("cut", c, Empty) /\ Holds(c, Row("cut")) /\ NoneCite
    BY <1>1 DEF Stands, RecutStands
<1>3. db'["cut"] = c /\ \A j \in Keys \ {"cut"} : db'[j] = db[j]
    BY <1>2, OneRowIs
<1>4. /\ \A n \in Nodes : db'[n] = db[n]
      /\ \A k \in Singles \ {"cut"} : db'[k] = db[k]
    BY <1>3
<1>5. DbTypes'
    BY <1>1, <1>3, <1>4 DEF ServersInv, DbTypes
<1>6. Spares(c)
  <2>1. \A k \in Nodes \union Singles : db'[k] = db[k] \/ Holds(c, GuardOf(k))
      BY <1>2, <1>4 DEF GuardOf
  <2> QED BY <1>1, <1>2, <2>1, SparesBy
<1>7. EpisodesAreKept' /\ StoresAreCounted' /\ cleared' \in Nat /\ LabelIsKept'
    BY <1>4, EpisodesQuiet, StoresQuiet, LabelQuiet
<1>8. OverwritesNothing(c)
    BY <1>2, <1>4 DEF OverwritesNothing
<1> QED BY <1>5, <1>6, <1>7, <1>8, LandInv
LEMMA CommitInv ==
    ASSUME ServersInv, NEW c \in Calls, Commit(c)
    PROVE  ServersInv' /\ OverwritesNothing(c)
<1>1. call[c].op \in {"archive", "complete", "ingest", "timeline", "coin", "recut"}
    BY CommitIs
<1> QED BY <1>1, ArchiveCommits, CompleteCommits, IngestCommits, TimelineCommits, CoinCommits, RecutCommits

--------------------------------------------------------------------------------
(* Writes outside a transaction.                                             *)

\* The count of stores: made by each try, and lost to nobody.
LEMMA BumpInv ==
    ASSUME ServersInv, NEW c \in Calls, Bump(c)
    PROVE  ServersInv'
<1>1. /\ At(c, "bump") /\ Reply(c) /\ db' = [db EXCEPT !["counter"] = IF @ = NoRow THEN 1 ELSE @ + 1]
      /\ bumps' = bumps + 1 /\ landed' = landed /\ cleared' = cleared
    BY DEF Bump
<1>2. /\ call[c].at = "bump" /\ holder[Home[c]] = c /\ Blockers(c) = {} /\ call[c].told = "nothing"
      /\ Belongs(call[c].op, call[c].unit, "bump")
    BY <1>1, AtStep
<1>3. call[c].op = "ingest" /\ call[c].unit = "bump" /\ NextUnit(call[c].unit) = "none" /\ c \in landed
    BY <1>2 DEF Belongs, Resting, NextUnit, ServersInv, Landing
<1>4. PICK r : /\ Becomes(c, r) /\ EndsAs(c, r) /\ locks' = Without(c)
               /\ conn' \in [Servers -> {"open", "lost"}]
               /\ losses' \in 0..MaxLosses /\ losses' >= losses /\ cuts' \in 0..MaxCuts
    BY <1>1, ReplyIs
<1>5. /\ r.op = call[c].op /\ \A d \in Calls : call'[d].op = call[d].op
      /\ call'[c] = r /\ \A d \in Calls \ {c} : call'[d] = call[d]
      /\ r.at \in {"ended", "rebuild"} /\ (r.at # "ended" => r.told = "nothing") /\ r.unit = "bump"
    BY <1>2, <1>3, <1>4, EndsWell DEF Resting
<1>6. r.at = "rebuild" => losses' = losses + 1
    BY <1>3, <1>4 DEF EndsAs, CallOf
<1>7. /\ db' = [k \in Keys |-> db'[k]] /\ \A k \in Keys \ {"counter"} : db'[k] = db[k]
      /\ db'["counter"] = IF db["counter"] = NoRow THEN 1 ELSE db["counter"] + 1
  <2>1. db = [k \in Keys |-> db[k]] /\ "counter" \in Keys
      BY DEF ServersInv, DbTypes
  <2> QED BY <1>1, <2>1
<1>8. /\ \A n \in Nodes : db'[n] = db[n]
      /\ \A d \in Calls : db'[d] = db[d]
      /\ \A k \in Singles \ {"counter"} : db'[k] = db[k]
    BY <1>7
<1>9. db["counter"] \in Nat \union {NoRow} /\ NoRow \notin Nat
    BY DEF ServersInv, DbTypes
<1>10. DbTypes'
  <2>1. db'["counter"] \in Nat
      BY <1>7, <1>9
  <2> QED BY <1>7, <1>8, <2>1 DEF ServersInv, DbTypes
<1>11. RestTypes' /\ Landing(c)'
    BY <1>1, <1>3, <1>4, <1>5 DEF ServersInv, RestTypes, Landing
<1>12. Spares(c)
  <2>1. Row("counter") \in Wanted(c)
      BY <1>2 DEF Wanted, Writing
  <2>2. \A d \in Calls \ {c} : ~Holds(d, Row("counter"))
      BY <1>2, <2>1 DEF Blockers, Holds, Holding, Conflict, Row
  <2>3. \A d \in Calls \ {c} : \A k \in Nodes \union Singles : Holds(d, GuardOf(k)) => db'[k] = db[k]
      BY <1>8, <2>2 DEF GuardOf
  <2>4. NoneCite => NoneCite'
      BY <1>5, <1>8 DEF NoneCite, Claims
  <2> QED BY <2>3, <2>4 DEF Spares
<1>13. \A op : Landed(op)' = Landed(op)
    BY <1>1, <1>5 DEF Landed, ServersInv, RestTypes
<1>14. EpisodesAreKept' /\ LabelIsKept'
    BY <1>8, <1>13 DEF ServersInv, Totals, EpisodesAreKept, LabelIsKept
<1>15. StoresAreCounted'
  <2>1. c \notin Landed("complete") /\ Landed("complete") \subseteq Calls
      BY <1>3 DEF Landed, ServersInv, RestTypes
  <2>2. {d \in Landed("complete") : call[d].read > 0}' = {d \in Landed("complete") : call[d].read > 0}
      BY <1>5, <1>13, <2>1
  <2>3. cleared \in Nat /\ bumps \in Nat
      BY DEF ServersInv, Totals, CountsAreDue
  <2>4. bumps' = cleared' + (IF db'["counter"] = NoRow THEN 0 ELSE db'["counter"])
    <3>1. bumps = cleared + (IF db["counter"] = NoRow THEN 0 ELSE db["counter"])
        BY DEF ServersInv, Totals, StoresAreCounted
    <3>2. CASE db["counter"] = NoRow
        BY <1>1, <1>7, <1>9, <2>3, <3>1, <3>2
    <3>3. CASE db["counter"] \in Nat
        BY <1>1, <1>7, <1>9, <2>3, <3>1, <3>3
    <3> QED BY <1>9, <3>2, <3>3
  <2>5. db'["round"] = db["round"]
      BY <1>8
  <2>6. db["round"] = Cardinality({d \in Landed("complete") : call[d].read > 0})
      BY DEF ServersInv, Totals, StoresAreCounted
  <2> QED BY <2>2, <2>4, <2>5, <2>6 DEF StoresAreCounted
<1>16. CountsAreDue'
  <2>1. c \notin StoresDone /\ c \notin StoresOver /\ StoresDone \subseteq Calls /\ StoresOver \subseteq Calls
      BY <1>2 DEF StoresDone, StoresOver, Landed, ServersInv, RestTypes
  <2>2. StoresDone' \subseteq StoresDone \union {c}
      BY <1>5 DEF StoresDone
  <2>3. StoresOver' = IF r.at = "ended" THEN StoresOver \union {c} ELSE StoresOver
    <3>1. PICK L : L = Landed("ingest") /\ Landed("ingest")' = L /\ c \in L /\ L \subseteq Calls
      <4>1. c \in Landed("ingest") /\ Landed("ingest") \subseteq Calls
          BY <1>3 DEF Landed, ServersInv, RestTypes
      <4>2. Landed("ingest")' = Landed("ingest")
          BY <1>13
      <4> HIDE DEF Landed
      <4> QED BY <4>1, <4>2
    <3>2. StoresOver' = {d \in L : call'[d].at = "ended"} /\ StoresOver = {d \in L : call[d].at = "ended"}
        BY <3>1 DEF StoresOver
    <3> QED BY <1>2, <1>5, <3>1, <3>2
  <2> HIDE DEF StoresDone, StoresOver
  <2>4. IsFiniteSet(StoresDone) /\ IsFiniteSet(StoresOver)
      BY <2>1, FS_Subset
  <2>5. /\ Cardinality(StoresDone \union {c}) = Cardinality(StoresDone) + 1
        /\ Cardinality(StoresOver \union {c}) = Cardinality(StoresOver) + 1
        /\ IsFiniteSet(StoresDone \union {c})
      BY <2>1, <2>4, FS_AddElement
  <2>6. Cardinality(StoresDone') <= Cardinality(StoresDone \union {c}) /\ IsFiniteSet(StoresDone')
      BY <2>2, <2>5, FS_Subset
  <2>7. Cardinality(StoresDone) \in Nat /\ Cardinality(StoresOver) \in Nat /\ Cardinality(StoresDone') \in Nat
      BY <2>4, <2>6, FS_CardinalityType
  <2>8. /\ bumps \in Nat /\ cleared \in Nat /\ losses \in Nat /\ losses' \in Nat
        /\ Cardinality(StoresDone) <= bumps /\ bumps <= Cardinality(StoresOver) + losses
      BY <1>4 DEF ServersInv, Totals, CountsAreDue, RestTypes
  <2>9. Cardinality(StoresDone') <= bumps'
      BY <1>1, <2>5, <2>6, <2>7, <2>8
  <2>10. bumps' <= Cardinality(StoresOver') + losses'
    <3>1. CASE r.at = "ended"
        BY <1>1, <1>4, <2>3, <2>5, <2>7, <2>8, <3>1
    <3>2. CASE r.at = "rebuild"
        BY <1>1, <1>6, <2>3, <2>7, <2>8, <3>2
    <3> QED BY <1>5, <3>1, <3>2
  <2> QED BY <1>1, <2>8, <2>9, <2>10 DEF CountsAreDue
<1>17. Totals'
    BY <1>14, <1>15, <1>16 DEF Totals
<1>18. landed \subseteq landed' /\ landed' \subseteq landed \union {c}
    BY <1>1
<1> QED BY <1>2, <1>4, <1>10, <1>11, <1>12, <1>17, <1>18, EndsInv

LEMMA InsertVerdictInv ==
    ASSUME ServersInv, NEW c \in Calls, InsertVerdict(c)
    PROVE  ServersInv'
<1>1. /\ call[c].at = "insertVerdict" /\ holder[Home[c]] = c /\ Belongs(call[c].op, call[c].unit, "insertVerdict")
    BY AtStep DEF InsertVerdict
<1>2. call[c].op = "verdict"
    BY <1>1 DEF Belongs, Resting
<1>3. CASE db[c] # NoRow
  <2>1. Leave(c, "failed") /\ UNCHANGED <<db, conn, landed, counts, losses, cuts>>
      BY <1>3 DEF InsertVerdict
  <2>2. RestTypes' /\ losses' >= losses
      BY <2>1 DEF ServersInv, RestTypes
  <2> QED BY <1>1, <2>1, <2>2, EndInv DEF Tolds
<1>4. CASE db[c] = NoRow
  <2>1. db' = [db EXCEPT ![c] = c] /\ landed' = landed \union {c} /\ Reply(c) /\ UNCHANGED <<bumps, cleared>>
      BY <1>4 DEF InsertVerdict, counts
  <2>2. PICK r : /\ Becomes(c, r) /\ EndsAs(c, r) /\ locks' = Without(c)
                 /\ conn' \in [Servers -> {"open", "lost"}]
                 /\ losses' \in 0..MaxLosses /\ losses' >= losses /\ cuts' \in 0..MaxCuts
      BY <2>1, ReplyIs
  <2>3. /\ r.op = call[c].op /\ \A d \in Calls : call'[d].op = call[d].op
        /\ call'[c] = r /\ \A d \in Calls \ {c} : call'[d] = call[d]
      BY <1>1, <2>2, EndsWell
  <2>4. db' = [k \in Keys |-> db'[k]] /\ \A k \in Keys \ {c} : db'[k] = db[k]
    <3>1. db = [k \in Keys |-> db[k]] /\ c \in Keys
        BY DEF ServersInv, DbTypes
    <3> QED BY <2>1, <3>1
  <2>5. \A k \in Nodes \union Singles : db'[k] = db[k]
      BY <2>4
  <2>6. DbTypes'
      BY <2>4, <2>5 DEF ServersInv, DbTypes
  <2>7. RestTypes' /\ Landing(c)'
      BY <1>2, <2>1, <2>2, <2>3 DEF ServersInv, RestTypes, Landing
  <2>8. Spares(c)
    <3>1. \A d \in Calls : call[d].op = "ingest" => db'[d] = db[d]
        BY <1>2, <2>4
    <3> QED BY <2>3, <2>5, <3>1, SparesBy
  <2>9. \A op : op # "verdict" => Landed(op)' = Landed(op)
      BY <1>2, <2>1, <2>3 DEF Landed, ServersInv, RestTypes
  <2>10. EpisodesAreKept' /\ LabelIsKept'
      BY <2>5, <2>9 DEF ServersInv, Totals, EpisodesAreKept, LabelIsKept
  <2>11. StoresAreCounted'
    <3>1. c \notin Landed("complete") /\ Landed("complete") \subseteq Calls
        BY <1>2 DEF Landed, ServersInv, RestTypes
    <3>2. {d \in Landed("complete") : call[d].read > 0}' = {d \in Landed("complete") : call[d].read > 0}
        BY <2>3, <2>9, <3>1
    <3> QED BY <2>1, <2>5, <3>2 DEF ServersInv, Totals, StoresAreCounted
  <2>12. CountsAreDue'
    <3>1. landed \subseteq landed' /\ landed' \subseteq Calls /\ losses' \in Nat /\ cleared' \in Nat
        BY <2>1, <2>2, <2>7 DEF RestTypes, ServersInv, Totals, CountsAreDue
    <3> QED BY <1>1, <1>2, <2>1, <2>2, <2>3, <3>1, CountsQuiet
  <2>13. Totals'
      BY <2>10, <2>11, <2>12 DEF Totals
  <2>14. landed \subseteq landed' /\ landed' \subseteq landed \union {c}
      BY <2>1
  <2> QED BY <1>1, <2>2, <2>6, <2>7, <2>8, <2>13, <2>14, EndsInv
<1> QED BY <1>3, <1>4
--------------------------------------------------------------------------------
(* The theorems.                                                             *)

LEMMA InitInv ==
    ASSUME Init
    PROVE  ServersInv
<1>1. PICK op \in [Calls -> Ops], todo \in [Calls -> Orders] :
        call = [c \in Calls |->
                 [op |-> op[c], at |-> "queued", unit |-> FirstUnit(op[c]), tries |-> 1,
                  tx |-> Empty, read |-> NoRow, todo |-> todo[c], told |-> "nothing"]]
    BY DEF Init
<1>2. \A c \in Calls : /\ call[c].op = op[c] /\ call[c].at = "queued" /\ call[c].unit = FirstUnit(op[c])
                       /\ call[c].tries = 1 /\ call[c].tx = Empty /\ call[c].todo = todo[c]
                       /\ call[c].told = "nothing"
                       /\ call[c] = CallOf(op[c], "queued", FirstUnit(op[c]), 1, Empty, NoRow, todo[c], "nothing")
    BY <1>1 DEF CallOf
<1>3. CallTypes
  <2>1. call = [c \in Calls |-> call[c]]
      BY <1>1
  <2>2. ASSUME NEW c \in Calls PROVE Shape(c)
    <3>1. Belongs(op[c], FirstUnit(op[c]), "queued")
        BY DEF Ops, FirstUnit, Belongs, Resting
    <3>2. call[c].read = NoRow
        BY <1>1
    <3> QED BY <1>2, <3>1, <3>2, EmptyIs DEF Shape, Tolds
  <2> QED BY <2>1, <2>2 DEF CallTypes
<1>4. /\ db = [k \in Keys |-> db[k]] /\ \A n \in Nodes : db[n] = <<>>
      /\ db["round"] = 0 /\ db["timeline"] = 0 /\ db["cut"] = NoCall /\ db["counter"] = NoRow
      /\ db["label"] = NoRow
    BY DEF Init
<1>5. DbTypes
  <2>1. \A n \in Nodes : db[n] \in Seq(Calls)
    <3>1. <<>> \in Seq(Calls)
        OBVIOUS
    <3> QED BY <1>4, <3>1
  <2>2. 0 \in Nat /\ NoRow \in Nat \union {NoRow} /\ NoCall \in Calls \union {NoCall}
      OBVIOUS
  <2> QED BY <1>4, <2>1, <2>2 DEF DbTypes
<1>6. /\ locks = {} /\ conn = [s \in Servers |-> "open"] /\ holder = [s \in Servers |-> NoCall]
      /\ landed = {} /\ bumps = 0 /\ cleared = 0 /\ losses = 0 /\ cuts = 0
    BY DEF Init
<1>7. LockTypes /\ HoldersRun /\ RestTypes /\ LocksAreApart
    BY <1>6 DEF LockTypes, HoldersRun, RestTypes, LocksAreApart
<1>8. ASSUME NEW c \in Calls PROVE Stands(c) /\ Landing(c)
  <2>1. PICK q \in Orders : q = todo[c]
      OBVIOUS
  <2>2. /\ q \in [1..Cardinality(Nodes) -> Nodes] /\ IsInjective(q)
        /\ \A n \in Nodes : \E i \in 1..Cardinality(Nodes) : q[i] = n
      BY <2>1 DEF Orders, Bijection, Injection, Surjection
  <2>3. Cardinality(Nodes) \in Nat
      BY FS_CardinalityType
  <2>4. q \in Seq(Nodes)
      BY <2>2, <2>3
  <2>5. Range(q) = Nodes /\ q # <<>>
      BY <2>2, <2>3 DEF Range
  <2>6. ArchiveStands(c)
      BY <1>2, <2>1, <2>2, <2>4, <2>5, EmptyIs DEF ArchiveStands
  <2>7. Stands(c)
      BY <1>2, <2>6 DEF Stands, CompleteStands, IngestStands, TimelineStands, CoinStands, RecutStands,
         VerdictStands
  <2>8. ~(call[c].op = "ingest" /\ call[c].unit = "bump")
      BY <1>2 DEF FirstUnit
  <2> QED BY <1>6, <2>7, <2>8 DEF Landing
<1>9. Totals
  <2>1. \A o : Landed(o) = {}
      BY <1>6 DEF Landed
  <2>2. EpisodesAreKept
    <3>1. Cardinality({}) = 0
        BY FS_EmptySet
    <3>2. Len(<<>>) = 0 /\ Range(<<>>) = {}
        BY DEF Range
    <3> QED BY <1>4, <2>1, <3>1, <3>2 DEF EpisodesAreKept
  <2>3. {c \in Landed("complete") : call[c].read > 0} = {}
      BY <2>1
  <2>4. StoresAreCounted
    <3>1. Cardinality({}) = 0
        BY FS_EmptySet
    <3>2. db["round"] = Cardinality({c \in Landed("complete") : call[c].read > 0})
        BY <1>4, <2>3, <3>1
    <3>3. bumps = cleared + (IF db["counter"] = NoRow THEN 0 ELSE db["counter"])
        BY <1>4, <1>6
    <3> QED BY <3>2, <3>3 DEF StoresAreCounted
  <2>5. StoresDone = {} /\ StoresOver = {}
      BY <1>2, <2>1 DEF StoresDone, StoresOver
  <2>6. CountsAreDue
      BY <1>6, <2>5, FS_EmptySet DEF CountsAreDue
  <2>7. LabelIsKept
      BY <1>4, <2>1 DEF LabelIsKept
  <2> QED BY <2>2, <2>4, <2>6, <2>7 DEF Totals
<1> QED BY <1>3, <1>5, <1>7, <1>8, <1>9 DEF ServersInv

LEMMA NextInv ==
    ASSUME ServersInv, Next
    PROVE  ServersInv'
<1>1. ASSUME NEW c \in Calls, Advance(c)
      PROVE  ServersInv'
    BY <1>1, TakeInv, RebuildInv, CommitInv, DeadlockInv, SelectNodeInv, PutNodeInv, SelectCounterInv,
       SetCounterInv, BumpRoundInv, ReadPassagesInv, InsertClaimInv, BumpInv, GetTimelineInv,
       UpdateTimelineInv, LockLabelsInv, ReadLabelInv, WriteLabelInv, LockDocumentInv, LockNodesInv,
       CountCitingInv, ReplacePassagesInv, InsertVerdictInv DEF Advance
<1>2. ASSUME NEW c \in Calls, Cancel(c)
      PROVE  ServersInv'
    BY <1>2, CancelInv
<1>3. ASSUME NEW s \in Servers, LoseConnection(s)
      PROVE  ServersInv'
    BY <1>3, LoseInv
<1> QED BY <1>1, <1>2, <1>3 DEF Next

LEMMA StutterInv ==
    ASSUME ServersInv, UNCHANGED vars
    PROVE  ServersInv'
<1>1. /\ db' = db /\ locks' = locks /\ conn' = conn /\ holder' = holder /\ call' = call /\ landed' = landed
      /\ bumps' = bumps /\ cleared' = cleared /\ losses' = losses /\ cuts' = cuts
    BY DEF vars, counts
<1>2. CallTypes' /\ DbTypes' /\ LockTypes' /\ HoldersRun' /\ RestTypes' /\ LocksAreApart'
  <2>1. CallTypes'
      BY <1>1 DEF ServersInv, CallTypes, Shape
  <2>2. DbTypes' /\ HoldersRun' /\ RestTypes'
      BY <1>1 DEF ServersInv, DbTypes, HoldersRun, RestTypes
  <2>3. LockTypes' /\ LocksAreApart'
      BY <1>1 DEF ServersInv, LockTypes, LocksAreApart, Conflict
  <2> QED BY <2>1, <2>2, <2>3
<1>3. \A op : Landed(op)' = Landed(op)
    BY <1>1 DEF Landed
<1>4. StoresDone' = StoresDone /\ StoresOver' = StoresOver
    BY <1>1, <1>3 DEF StoresDone, StoresOver
<1>5. Totals'
    BY <1>1, <1>3, <1>4 DEF ServersInv, Totals, EpisodesAreKept, StoresAreCounted, CountsAreDue, LabelIsKept
<1>6. \A c \in Calls : Stands(c)' /\ Landing(c)'
  <2> SUFFICES ASSUME NEW c \in Calls PROVE Stands(c)' /\ Landing(c)'
      OBVIOUS
  <2>1. NoneCite <=> NoneCite'
      BY <1>1, NoneCiteIs
  <2>2. \A w : Holds(c, w)' <=> Holds(c, w)
      BY <1>1 DEF Holds
  <2>3. Stands(c)'
      BY <1>1, <2>1, <2>2, OthersStand
  <2> QED BY <1>1, <2>3 DEF ServersInv, Landing
<1> QED BY <1>2, <1>5, <1>6 DEF ServersInv

\* What a reader is promised follows from what the transactions stand on.
LEMMA InvIsNothingLost == ServersInv => NothingIsLost
<1> SUFFICES ASSUME ServersInv PROVE NothingIsLost
    OBVIOUS
<1>1. TypeOK
  <2>1. DOMAIN db = Keys
      BY DEF ServersInv, DbTypes
  <2>2. ASSUME NEW c \in Calls
        PROVE  /\ call[c].op \in Ops /\ call[c].at \in Statements
               /\ call[c].tries \in {1, 2} /\ DOMAIN call[c].tx \subseteq Keys
               /\ call[c].told \in {"nothing", "done", "refused", "failed", "cut"}
    <3>1. Shape(c)
        BY DEF ServersInv, CallTypes
    <3>2. call[c].op \in Ops /\ call[c].at \in Statements
        BY <3>1 DEF Shape, Belongs, Resting, Ops, Statements
    <3> QED BY <3>1, <3>2 DEF Shape, Tolds
  <2>3. bumps \in Nat /\ cleared \in Nat
      BY DEF ServersInv, Totals, CountsAreDue
  <2> QED BY <2>1, <2>2, <2>3 DEF TypeOK, ServersInv, DbTypes, LockTypes, RestTypes
<1>2. EpisodesAreKept /\ StoresAreCounted
    BY DEF ServersInv, Totals
<1>3. StoresCountOnce
  <2>1. StoresOver \subseteq Landed("ingest") /\ Landed("ingest") \subseteq Calls
      BY DEF StoresOver, Landed, ServersInv, RestTypes
  <2>2. IsFiniteSet(Landed("ingest")) /\ IsFiniteSet(StoresOver)
      BY <2>1, FS_Subset
  <2>3. Cardinality(StoresOver) <= Cardinality(Landed("ingest"))
      BY <2>1, <2>2, FS_Subset
  <2>4. Cardinality(StoresOver) \in Nat /\ Cardinality(Landed("ingest")) \in Nat
      BY <2>2, FS_CardinalityType
  <2>5. Cardinality(StoresDone) <= bumps /\ bumps <= Cardinality(StoresOver) + losses
        /\ bumps \in Nat /\ losses \in Nat
      BY DEF ServersInv, Totals, CountsAreDue, RestTypes
  <2> HIDE DEF StoresOver
  <2>6. bumps <= Cardinality(Landed("ingest")) + losses
      BY <2>3, <2>4, <2>5
  <2> QED BY <2>5, <2>6 DEF StoresCountOnce, StoresDone
<1>4. LabelIsMerged
  <2>1. LabelIsKept
      BY DEF ServersInv, Totals
  <2>2. SUFFICES ASSUME Landed("coin") # {}
                 PROVE  db["label"].id \in Landed("coin") /\ db["label"].said = Landed("coin")
      BY DEF LabelIsMerged
  <2>3. PICK i \in Landed("coin") : db["label"] = [id |-> i, said |-> Landed("coin")]
      BY <2>1, <2>2 DEF LabelIsKept
  <2> QED BY <2>3
<1> QED BY <1>1, <1>2, <1>3, <1>4 DEF NothingIsLost

LEMMA SpecKeepsInv == Spec => []ServersInv
<1>1. Init => ServersInv
    BY InitInv
<1>2. ServersInv /\ [Next]_vars => ServersInv'
    BY NextInv, StutterInv
<1> QED BY <1>1, <1>2, PTL DEF Spec

\* No episode, count or word on a label that landed is lost to another server's write, and none
\* is made up: whatever the servers, the calls, the losses of connections and the cancellations.
THEOREM NothingStaysLost == Spec => []NothingIsLost
BY SpecKeepsInv, InvIsNothingLost, PTL

\* A timeline is written by who read the version before, and passages are cut that no claim
\* committed by any server cites.
THEOREM WritesAreOnWhatWasRead == Spec => NothingIsOverwritten
<1> DEFINE Moves == db'["timeline"] # db["timeline"] =>
                      /\ db'["timeline"] = db["timeline"] + 1
                      /\ \E c \in landed' \ landed : call[c].op = "timeline" /\ call[c].read = db["timeline"]
           Cuts == db'["cut"] # db["cut"] => \A c \in Claims : db[c] # db["cut"]
<1>1. ServersInv /\ [Next]_vars => [Moves]_vars /\ [Cuts]_vars
  <2> SUFFICES ASSUME ServersInv, Next PROVE Moves /\ Cuts
      OBVIOUS
  <2>1. CASE db'["timeline"] = db["timeline"] /\ db'["cut"] = db["cut"]
      BY <2>1
  <2>2. ASSUME NEW c \in Calls, Commit(c) PROVE Moves /\ Cuts
    <3>1. OverwritesNothing(c)
        BY <2>2, CommitInv
    <3> QED BY <3>1 DEF OverwritesNothing, NoneCite
  <2>3. ASSUME NEW c \in Calls, Bump(c) \/ InsertVerdict(c)
        PROVE  db'["timeline"] = db["timeline"] /\ db'["cut"] = db["cut"]
    <3>1. db' = [db EXCEPT !["counter"] = IF @ = NoRow THEN 1 ELSE @ + 1] \/ db' = [db EXCEPT ![c] = c] \/ db' = db
        BY <2>3 DEF Bump, InsertVerdict
    <3>2. c \notin {"timeline", "cut"} /\ DOMAIN db = Keys
        BY DEF ServersInv, DbTypes
    <3> QED BY <3>1, <3>2
  <2>4. ASSUME NEW c \in Calls, Advance(c), ~Commit(c), ~Bump(c), ~InsertVerdict(c) PROVE db' = db
      BY <2>4 DEF Advance, Take, Rebuild, Deadlock, SelectNode, PutNode, SelectCounter, SetCounter, BumpRound,
         ReadPassages, InsertClaim, GetTimeline, UpdateTimeline, LockLabels, ReadLabel, WriteLabel,
         LockDocument, LockNodes, CountCiting, ReplacePassages, Step, Refused
  <2>5. ASSUME \/ \E c \in Calls : Cancel(c)
               \/ \E s \in Servers : LoseConnection(s)
        PROVE  db' = db
      BY <2>5 DEF Cancel, LoseConnection
  <2> QED BY <2>1, <2>2, <2>3, <2>4, <2>5 DEF Next
<1> HIDE DEF Moves, Cuts
<1>2. Spec => [][Moves]_vars /\ [][Cuts]_vars
    BY <1>1, SpecKeepsInv, PTL DEF Spec
<1> QED BY <1>2, PTL DEF NothingIsOverwritten, TimelineMovesOn, RecutSparesTheCited, Moves, Cuts

==============================================================================
