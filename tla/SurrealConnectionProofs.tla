----------------------- MODULE SurrealConnectionProofs -----------------------
(***************************************************************************)
(* For any tasks, graphs, SDKs and number of faults: one connection is     *)
(* opened for each that was lost; and, with no mover's call cancelled in   *)
(* flight, the connection is where the adapter believes it is and every    *)
(* statement of an operation runs in one graph.                            *)
(***************************************************************************)
EXTENDS SurrealConnection, SequenceTheorems, FiniteSetTheorems, TLAPS

USE ConnectionAssumption DEF Tasks, Movers, conn, belief, call, turn, around, vars

\* The task that holds _reconnect_lock is the one that is rebuilding.
RebuilderHolds == \A t \in Tasks : pc[t] \in {"rebuild", "setup"} <=> rebuilder = t

\* The connection in use is of no more use: its socket is gone, or a rebuild of it was
\* given up.
Spent == db # 0 /\ (~alive[db] \/ dropped = db)

\* A rebuild is of a connection, which has been closed before another is opened.
RebuildsTheClosed ==
    /\ \A t \in Tasks : pc[t] \in {"rebuild", "setup"} => db # 0
    /\ \A t \in Tasks : pc[t] = "rebuild" => ~alive[db]

\* A task waits for the lock because the connection its call captured is spent, or has
\* been replaced meanwhile; a task in flight captured one.
CallsCaptured ==
    /\ \A t \in Tasks : pc[t] = "lock" => at[t] # 0 /\ (db = at[t] => Spent)
    /\ \A t \in Tasks : pc[t] = "flight" => at[t] # 0

\* Whatever was replaced is closed.
OnlyTheLastLives == \A k \in DOMAIN alive : alive[k] => k = db

\* What was opened, and what is about to be replaced, was paid for by a loss or by a
\* cancelled rebuild.
LossesPay ==
    /\ losses \in Nat /\ cancels \in Nat
    /\ Len(wire) <= losses + cancels + 1
    /\ Spent => Len(wire) <= losses + cancels

\* Users and movers go through stages of their own, a mover's has where to go, and a
\* turn with no stage left has no call under way.
StagesFit ==
    /\ \A t \in Tasks : stage[t] = "none" => pc[t] \in {"idle", "ready"}
    /\ \A u \in Users : stage[u] \in {"none", "work", "again"}
    /\ \A m \in Movers :
          /\ stage[m] \notin {"work", "again"}
          /\ stage[m] # "none" => target[m] \in Graphs /\ original[m] \in Graphs

ConnInv ==
    /\ TypeOK
    /\ RebuilderHolds
    /\ RebuildsTheClosed
    /\ CallsCaptured
    /\ OnlyTheLastLives
    /\ LossesPay
    /\ StagesFit

\* Turns exclude each other, but for two users.
TurnsExclude ==
    \A t, x \in Tasks : t # x /\ Active(t) /\ Active(x) => t \in Users /\ x \in Users

\* A connection that works is where the adapter believes it is.
WireFollows == db # 0 /\ alive[db] => wire[db] = selected

\* An operation is in one graph: what has run, and what is in flight on a connection
\* however stale; the graph selected, unless the store is closed.
OperationIsIn(u, g) ==
    /\ landed[u] \subseteq {g}
    /\ pc[u] = "flight" => wire[at[u]] = g
    /\ db # 0 => g = selected

GraphInv ==
    /\ ConnInv
    /\ TurnsExclude
    /\ WireFollows
    /\ \A u \in Users : Active(u) => \E g \in Graphs : OperationIsIn(u, g)
    /\ \A u \in Users : ~Active(u) => landed[u] = {}

--------------------------------------------------------------------------------
(* Sequences changed in one place, or grown by one.                          *)

LEMMA SetOne ==
    ASSUME NEW S, NEW s \in Seq(S), NEW k \in DOMAIN s, NEW e \in S
    PROVE  /\ [s EXCEPT ![k] = e] \in Seq(S)
           /\ Len([s EXCEPT ![k] = e]) = Len(s)
           /\ DOMAIN [s EXCEPT ![k] = e] = DOMAIN s
           /\ \A j \in DOMAIN s : [s EXCEPT ![k] = e][j] = IF j = k THEN e ELSE s[j]
BY ExceptSeq

LEMMA AddOne ==
    ASSUME NEW S, NEW s \in Seq(S), NEW e \in S
    PROVE  /\ Append(s, e) \in Seq(S)
           /\ Len(Append(s, e)) = Len(s) + 1
           /\ DOMAIN Append(s, e) = DOMAIN s \cup {Len(s) + 1}
           /\ \A j \in DOMAIN s : Append(s, e)[j] = s[j]
           /\ Append(s, e)[Len(s) + 1] = e
BY AppendProperties

\* The adapter just constructed.
LEMMA InitConn == Init => ConnInv
BY DEF Init, ConnInv, TypeOK, RebuilderHolds, RebuildsTheClosed, CallsCaptured, Spent,
       OnlyTheLastLives, LossesPay, StagesFit, Places, Stages

\* A step that leaves the connection alone, of a task that is not rebuilding it.
LEMMA QuietStep ==
    ASSUME ConnInv, TypeOK', NEW t \in Tasks,
           UNCHANGED <<alive, db, dropped, rebuilder, losses, cancels>>, Len(wire') = Len(wire),
           \A x \in Tasks \ {t} : pc'[x] = pc[x] /\ at'[x] = at[x],
           {pc[t], pc'[t]} \cap {"rebuild", "setup"} = {},
           pc'[t] = "flight" => at'[t] # 0,
           pc'[t] = "lock" => at'[t] # 0 /\ (db = at'[t] => Spent),
           StagesFit'
    PROVE  ConnInv'
<1>1. RebuilderHolds'
    BY DEF ConnInv, RebuilderHolds
<1>2. RebuildsTheClosed'
    BY DEF ConnInv, RebuildsTheClosed
<1>3. Spent' <=> Spent
    BY DEF Spent
<1>4. CallsCaptured'
    BY <1>3 DEF ConnInv, CallsCaptured
<1>5. OnlyTheLastLives'
    BY DEF ConnInv, OnlyTheLastLives
<1>6. LossesPay'
    BY <1>3 DEF ConnInv, LossesPay
<1> QED BY <1>1, <1>2, <1>4, <1>5, <1>6 DEF ConnInv

LEMMA TurnStep ==
    ASSUME ConnInv, NEW t \in Tasks, Begin(t) \/ End(t) \/ Fail(t)
    PROVE  ConnInv'
<1>1. TypeOK'
  <2>1. CASE Begin(t)
    <3>1. pc' \in [Tasks -> Places] /\ stage' \in [Tasks -> Stages]
        BY <2>1 DEF Begin, Goto, Stage, ConnInv, TypeOK, Places, Stages
    <3>2. target' \in [Movers -> Graphs \cup {NoGraph}]
        BY <2>1 DEF Begin, ConnInv, TypeOK
    <3>3. original' \in [Movers -> Graphs \cup {NoGraph}]
        BY <2>1 DEF Begin, ConnInv, TypeOK
    <3> QED BY <2>1, <3>1, <3>2, <3>3 DEF Begin, ConnInv, TypeOK
  <2>2. CASE End(t)
      BY <2>2 DEF End, Goto, ConnInv, TypeOK, Places
  <2>3. CASE Fail(t)
      BY <2>3 DEF Fail, Goto, Stage, ConnInv, TypeOK, Places, Stages
  <2> QED BY <2>1, <2>2, <2>3
<1>2. StagesFit'
    BY DEF Begin, End, Fail, Goto, Stage, ConnInv, TypeOK, StagesFit
<1>3. pc'[t] \in {"idle", "ready"} /\ pc[t] \notin {"rebuild", "setup"}
    BY DEF Begin, End, Fail, Goto, ConnInv, TypeOK, StagesFit
<1>4. \A x \in Tasks \ {t} : pc'[x] = pc[x] /\ at'[x] = at[x]
    BY DEF Begin, End, Fail, Goto, ConnInv, TypeOK
<1> QED BY <1>1, <1>2, <1>3, <1>4, QuietStep DEF Begin, End, Fail

\* A send goes out on a connection that is open, or finds the one in use lost.
LEMMA SendIs ==
    ASSUME ConnInv, NEW t \in Tasks, Send(t)
    PROVE  /\ at' = [at EXCEPT ![t] = db] /\ at' \in [Tasks -> DOMAIN wire \cup {0}]
           /\ \E p \in {"failed", "flight", "lock"} :
                 /\ pc' = [pc EXCEPT ![t] = p]
                 /\ p = "flight" => db # 0 /\ alive[db]
                 /\ p = "lock" => db # 0 /\ ~alive[db]
           /\ last' = last \/ last' = [last EXCEPT ![t] = TRUE]
<1>1. at' = [at EXCEPT ![t] = db] /\ at' \in [Tasks -> DOMAIN wire \cup {0}]
    BY DEF Send, ConnInv, TypeOK
<1>2. CASE db = 0
    BY <1>1, <1>2 DEF Send, Goto
<1>3. CASE db # 0 /\ alive[db]
    BY <1>1, <1>3 DEF Send, Goto
<1>4. CASE db # 0 /\ ~alive[db]
    BY <1>1, <1>4 DEF Send, SendOnDead, Raise, Goto
<1> QED BY <1>2, <1>3, <1>4

\* A call that starts, or is sent again after a rebuild.
LEMMA SendStep ==
    ASSUME ConnInv, NEW t \in Tasks, StartCall(t) \/ StartSchema(t) \/ Resend(t)
    PROVE  ConnInv'
<1>1. /\ at' = [at EXCEPT ![t] = db] /\ at' \in [Tasks -> DOMAIN wire \cup {0}]
      /\ \E p \in {"failed", "flight", "lock"} :
            /\ pc' = [pc EXCEPT ![t] = p]
            /\ p = "flight" => db # 0
            /\ p = "lock" => Spent
      /\ last' = last \/ last' = [last EXCEPT ![t] = TRUE]
  <2>1. CASE StartCall(t) /\ db = dropped /\ db # 0
      BY <2>1 DEF StartCall, Goto, Spent, ConnInv, TypeOK
  <2>2. CASE StartSchema(t)
      BY <2>2 DEF StartSchema, Goto, ConnInv, TypeOK
  <2>3. CASE Send(t)
      BY <2>3, SendIs DEF Spent
  <2> QED BY <2>1, <2>2, <2>3 DEF StartCall, Resend
<1>2. last' \in [Tasks -> BOOLEAN]
    BY <1>1 DEF ConnInv, TypeOK
<1>3. pc' \in [Tasks -> Places] /\ pc'[t] \in {"failed", "flight", "lock"}
    BY <1>1 DEF ConnInv, TypeOK, Places
<1>4. TypeOK'
    BY <1>1, <1>2, <1>3 DEF StartCall, StartSchema, Resend, ConnInv, TypeOK
<1>5. \A x \in Tasks \ {t} : pc'[x] = pc[x] /\ at'[x] = at[x]
    BY <1>1 DEF ConnInv, TypeOK
<1>6. pc[t] \in {"ready", "resend"} /\ stage[t] # "none"
    BY DEF StartCall, StartSchema, Resend, ConnInv, StagesFit
<1>7. pc'[t] = "flight" => at'[t] # 0
    BY <1>1 DEF ConnInv, TypeOK
<1>8. pc'[t] = "lock" => at'[t] # 0 /\ Spent
    BY <1>1 DEF ConnInv, TypeOK, Spent
<1>9. StagesFit'
    BY <1>5, <1>6 DEF StartCall, StartSchema, Resend, ConnInv, StagesFit
<1> QED BY <1>3, <1>4, <1>5, <1>6, <1>7, <1>8, <1>9, QuietStep DEF StartCall, StartSchema, Resend

\* What a statement in flight may do on the server.
LEMMA RunsIs ==
    ASSUME ConnInv, NEW t \in Tasks, pc[t] = "flight", Runs(t) \/ UNCHANGED <<wire, landed>>
    PROVE  /\ wire' \in Seq(Graphs) /\ Len(wire') = Len(wire) /\ DOMAIN wire' = DOMAIN wire
           /\ landed' \in [Users -> SUBSET Graphs]
<1>1. at[t] \in DOMAIN wire /\ wire \in Seq(Graphs)
    BY DEF ConnInv, CallsCaptured, TypeOK
<1>2. wire[at[t]] \in Graphs
    BY <1>1, ElementOfSeq
<1>3. Uses(t) # NoGraph => Uses(t) \in Graphs
    BY DEF Uses, ConnInv, StagesFit
<1>4. CASE Uses(t) # NoGraph /\ Runs(t)
  <2>1. wire' = [wire EXCEPT ![at[t]] = Uses(t)] /\ landed' = landed
      BY <1>4 DEF Runs
  <2> QED BY <1>1, <1>3, <1>4, <2>1, SetOne DEF ConnInv, TypeOK
<1>5. CASE Uses(t) = NoGraph /\ Runs(t)
    BY <1>1, <1>2, <1>5 DEF Runs, ConnInv, TypeOK
<1>6. CASE UNCHANGED <<wire, landed>>
    BY <1>1, <1>6 DEF ConnInv, TypeOK
<1> QED BY <1>4, <1>5, <1>6

LEMMA AfterIs ==
    ASSUME ConnInv, NEW t \in Tasks, NEW s \in After(t)
    PROVE  /\ s \in Stages
           /\ t \in Users => s \in {"none", "work", "again"}
           /\ t \in Movers => s \notin {"work", "again"} /\ (s # "none" => stage[t] # "none")
BY DEF After, Stages, ConnInv, StagesFit

\* An answer moves on the selection with the wire, and the task.
LEMMA AnswerStep ==
    ASSUME ConnInv, NEW t \in Tasks, Answer(t)
    PROVE  ConnInv'
<1>1. /\ wire' \in Seq(Graphs) /\ Len(wire') = Len(wire) /\ DOMAIN wire' = DOMAIN wire
      /\ landed' \in [Users -> SUBSET Graphs]
    BY RunsIs DEF Answer
<1>2. PICK s \in After(t) : stage' = [stage EXCEPT ![t] = s]
    BY DEF Answer, Stage
<1>3. Uses(t) # NoGraph => Uses(t) \in Graphs
    BY DEF Uses, ConnInv, StagesFit
<1>4. selected' \in Graphs /\ database' \in Graphs
  <2>1. stage[t] \in {"switch", "back"} => Uses(t) \in Graphs
      BY DEF Uses, ConnInv, StagesFit
  <2> QED BY <1>3, <2>1 DEF Answer, ConnInv, TypeOK
<1>5. pc' \in [Tasks -> Places] /\ at' \in [Tasks -> DOMAIN wire \cup {0}]
    BY DEF Answer, Goto, ConnInv, TypeOK, Places
<1>6. last' \in [Tasks -> BOOLEAN]
    BY DEF Answer, ConnInv, TypeOK
<1>7. stage' \in [Tasks -> Stages]
    BY <1>2, AfterIs DEF ConnInv, TypeOK
<1>8. TypeOK'
    BY <1>1, <1>4, <1>5, <1>6, <1>7 DEF Answer, ConnInv, TypeOK
<1>9. /\ pc[t] = "flight" /\ pc'[t] = "ready"
      /\ \A x \in Tasks \ {t} : pc'[x] = pc[x] /\ at'[x] = at[x]
    BY DEF Answer, Goto, ConnInv, TypeOK
<1>10. stage'[t] = s /\ \A x \in Tasks \ {t} : stage'[x] = stage[x]
    BY <1>2 DEF ConnInv, TypeOK
<1>11. StagesFit'
    BY <1>9, <1>10, AfterIs DEF Answer, ConnInv, StagesFit
<1> QED BY <1>1, <1>8, <1>9, <1>11, QuietStep DEF Answer

\* A statement lost in flight, and the wait for a rebuild that is over.
LEMMA LostStep ==
    ASSUME ConnInv, NEW t \in Tasks, LostInFlight(t) \/ FindReplaced(t)
    PROVE  ConnInv'
<1>1. CASE LostInFlight(t)
  <2>1. /\ wire' \in Seq(Graphs) /\ Len(wire') = Len(wire) /\ DOMAIN wire' = DOMAIN wire
        /\ landed' \in [Users -> SUBSET Graphs]
      BY <1>1, RunsIs DEF LostInFlight
  <2>2. /\ pc[t] = "flight" /\ at[t] # 0 /\ ~alive[at[t]]
        /\ \E p \in {"failed", "lock"} : pc' = [pc EXCEPT ![t] = p]
        /\ last' = last \/ last' = [last EXCEPT ![t] = TRUE]
      BY <1>1 DEF LostInFlight, Raise, Goto, ConnInv, CallsCaptured
  <2>3. last' \in [Tasks -> BOOLEAN]
      BY <2>2 DEF ConnInv, TypeOK
  <2>4. pc' \in [Tasks -> Places] /\ pc'[t] \in {"failed", "lock"}
        /\ \A x \in Tasks \ {t} : pc'[x] = pc[x]
      BY <2>2 DEF ConnInv, TypeOK, Places
  <2>5. TypeOK'
      BY <1>1, <2>1, <2>3, <2>4 DEF LostInFlight, ConnInv, TypeOK
  <2>6. stage[t] # "none" /\ StagesFit'
      BY <1>1, <2>2, <2>4 DEF LostInFlight, ConnInv, StagesFit
  <2>7. db = at[t] => Spent
      BY <2>2 DEF Spent
  <2> QED BY <1>1, <2>1, <2>2, <2>4, <2>5, <2>6, <2>7, QuietStep DEF LostInFlight
<1>2. CASE FindReplaced(t)
  <2>1. TypeOK'
      BY <1>2 DEF FindReplaced, Goto, ConnInv, TypeOK, Places
  <2>2. pc[t] = "lock" /\ pc'[t] = "resend" /\ \A x \in Tasks \ {t} : pc'[x] = pc[x]
      BY <1>2 DEF FindReplaced, Goto, ConnInv, TypeOK
  <2>3. StagesFit'
      BY <1>2, <2>2 DEF FindReplaced, ConnInv, StagesFit
  <2> QED BY <1>2, <2>1, <2>2, <2>3, QuietStep DEF FindReplaced
<1> QED BY <1>1, <1>2

\* A rebuild begins on a spent connection, and closes it.
LEMMA StartRebuildStep ==
    ASSUME ConnInv, NEW t \in Tasks, StartRebuild(t)
    PROVE  ConnInv'
<1>1. db \in DOMAIN alive /\ db # 0 /\ Spent /\ alive \in Seq(BOOLEAN)
    BY DEF StartRebuild, ConnInv, CallsCaptured, TypeOK
<1>2. /\ alive' \in Seq(BOOLEAN) /\ Len(alive') = Len(alive) /\ DOMAIN alive' = DOMAIN alive
      /\ \A k \in DOMAIN alive : alive'[k] => alive[k]
      /\ ~alive'[db]
    BY <1>1, SetOne DEF StartRebuild
<1>3. pc' \in [Tasks -> Places] /\ pc[t] = "lock" /\ pc'[t] = "rebuild"
      /\ \A x \in Tasks \ {t} : pc'[x] = pc[x]
    BY DEF StartRebuild, Goto, ConnInv, TypeOK, Places
<1>4. TypeOK'
    BY <1>1, <1>2, <1>3 DEF StartRebuild, ConnInv, TypeOK
<1>5. RebuilderHolds'
    BY <1>3 DEF StartRebuild, ConnInv, RebuilderHolds
<1>6. RebuildsTheClosed'
    BY <1>1, <1>2, <1>3 DEF StartRebuild, ConnInv, RebuildsTheClosed
<1>7. Spent'
    BY <1>1, <1>2 DEF StartRebuild, Spent
<1>8. CallsCaptured'
    BY <1>3, <1>7 DEF StartRebuild, ConnInv, CallsCaptured
<1>9. OnlyTheLastLives'
    BY <1>2 DEF StartRebuild, ConnInv, OnlyTheLastLives
<1>10. LossesPay'
    BY <1>1 DEF StartRebuild, ConnInv, LossesPay
<1>11. StagesFit'
    BY <1>3 DEF StartRebuild, ConnInv, StagesFit
<1> QED BY <1>4, <1>5, <1>6, <1>8, <1>9, <1>10, <1>11 DEF ConnInv

\* The connection opened takes the place of one that is spent, which has paid for it.
LEMMA OpenStep ==
    ASSUME ConnInv, NEW t \in Tasks, OpenConnection(t)
    PROVE  ConnInv'
<1>1. /\ pc[t] = "rebuild" /\ rebuilder = t /\ db # 0 /\ ~alive[db] /\ Spent
      /\ \A x \in Tasks \ {t} : pc[x] \notin {"rebuild", "setup"}
    BY DEF OpenConnection, ConnInv, RebuilderHolds, RebuildsTheClosed, Spent
<1>2. /\ wire' \in Seq(Graphs) /\ Len(wire') = Len(wire) + 1
      /\ DOMAIN wire' = DOMAIN wire \cup {Len(wire) + 1} /\ Len(wire) \in Nat
    BY AddOne DEF OpenConnection, ConnInv, TypeOK
<1>3. /\ alive' \in Seq(BOOLEAN) /\ Len(alive') = Len(wire')
      /\ DOMAIN alive' = DOMAIN alive \cup {Len(wire) + 1}
      /\ \A k \in DOMAIN alive : alive'[k] = alive[k]
      /\ alive'[Len(wire) + 1]
  <2>1. alive \in Seq(BOOLEAN) /\ TRUE \in BOOLEAN /\ Len(alive) = Len(wire) /\ alive' = Append(alive, TRUE)
      BY DEF OpenConnection, ConnInv, TypeOK
  <2>2. /\ Append(alive, TRUE) \in Seq(BOOLEAN)
        /\ Len(Append(alive, TRUE)) = Len(alive) + 1
        /\ DOMAIN Append(alive, TRUE) = DOMAIN alive \cup {Len(alive) + 1}
        /\ \A j \in DOMAIN alive : Append(alive, TRUE)[j] = alive[j]
        /\ Append(alive, TRUE)[Len(alive) + 1] = TRUE
      BY <2>1, AddOne, Zenon
  <2> QED BY <1>2, <2>1, <2>2
<1>4. pc' \in [Tasks -> Places] /\ pc'[t] = "setup" /\ \A x \in Tasks \ {t} : pc'[x] = pc[x]
    BY DEF OpenConnection, Goto, ConnInv, TypeOK, Places
<1>5. DOMAIN wire = 1..Len(wire) /\ db' = Len(wire) + 1
    BY DEF OpenConnection, ConnInv, TypeOK
<1>6. TypeOK'
    BY <1>2, <1>3, <1>4, <1>5 DEF OpenConnection, ConnInv, TypeOK
<1>7. RebuilderHolds'
    BY <1>1, <1>4 DEF OpenConnection, ConnInv, RebuilderHolds
<1>8. RebuildsTheClosed'
    BY <1>1, <1>2, <1>4, <1>5 DEF RebuildsTheClosed
<1>9. ~Spent'
  <2>1. dropped' \in 0..Len(wire)
      BY <1>5 DEF OpenConnection, ConnInv, TypeOK
  <2> QED BY <1>2, <1>3, <1>5, <2>1 DEF Spent
<1>10. \A x \in Tasks : at'[x] = at[x] /\ at[x] # db'
    BY <1>2, <1>5 DEF OpenConnection, ConnInv, TypeOK
<1>11. CallsCaptured'
    BY <1>4, <1>10 DEF ConnInv, CallsCaptured
<1>12. OnlyTheLastLives'
    BY <1>1, <1>3, <1>5 DEF ConnInv, OnlyTheLastLives
<1>13. LossesPay'
    BY <1>1, <1>2, <1>9 DEF OpenConnection, ConnInv, LossesPay
<1>14. StagesFit'
    BY <1>1, <1>4 DEF OpenConnection, ConnInv, StagesFit
<1> QED BY <1>6, <1>7, <1>8, <1>11, <1>12, <1>13, <1>14 DEF ConnInv

\* A rebuild ends, with a connection to send on or with one that is marked: what marks a
\* connection that works is a cancelled rebuild.
LEMMA EndRebuildStep ==
    ASSUME ConnInv, NEW t \in Tasks, pc[t] \in {"rebuild", "setup"},
           UNCHANGED <<alive, db, belief, at, last, stage, target, original, wire, landed, sdk, losses>>,
           rebuilder' = NoTask,
           \E p \in {"failed", "resend"} : Goto(t, p),
           dropped' \in {db, dropped}, dropped' = db /\ alive[db] /\ dropped # db => cancels' = cancels + 1,
           cancels' \in {cancels, cancels + 1}
    PROVE  ConnInv'
<1>1. /\ rebuilder = t /\ db # 0
      /\ \A x \in Tasks \ {t} : pc[x] \notin {"rebuild", "setup"}
    BY DEF ConnInv, RebuilderHolds, RebuildsTheClosed
<1>2. pc' \in [Tasks -> Places] /\ pc'[t] \in {"failed", "resend"} /\ \A x \in Tasks \ {t} : pc'[x] = pc[x]
    BY DEF Goto, ConnInv, TypeOK, Places
<1>3. TypeOK'
    BY <1>1, <1>2 DEF ConnInv, TypeOK
<1>4. RebuilderHolds' /\ RebuildsTheClosed'
    BY <1>1, <1>2 DEF RebuilderHolds, RebuildsTheClosed
<1>5. /\ Spent => Spent'
      /\ Spent' => Spent \/ cancels' = cancels + 1
    BY DEF Spent
<1>6. CallsCaptured'
    BY <1>2, <1>5 DEF ConnInv, CallsCaptured
<1>7. OnlyTheLastLives'
    BY DEF ConnInv, OnlyTheLastLives
<1>8. LossesPay'
  <2>1. Len(wire) \in Nat
      BY DEF ConnInv, TypeOK
  <2> QED BY <1>5, <2>1 DEF ConnInv, LossesPay
<1>9. StagesFit'
    BY <1>2 DEF ConnInv, StagesFit
<1> QED BY <1>3, <1>4, <1>6, <1>7, <1>8, <1>9 DEF ConnInv

LEMMA RebuildStep ==
    ASSUME ConnInv, NEW t \in Tasks, ServerAway(t) \/ SetupSchema(t)
    PROVE  ConnInv'
<1>1. CASE ServerAway(t)
  <2>1. ~alive[db]
      BY <1>1 DEF ServerAway, ConnInv, RebuildsTheClosed
  <2> QED BY <1>1, <2>1, EndRebuildStep DEF ServerAway, AbandonRebuild
<1>2. CASE SetupSchema(t)
    BY <1>2, EndRebuildStep DEF SetupSchema, AbandonRebuild
<1> QED BY <1>1, <1>2

\* A graph that is too new closes the store for good.
LEMMA RefuseStep ==
    ASSUME ConnInv, NEW t \in Tasks, RefuseSchema(t)
    PROVE  ConnInv'
<1>1. db \in DOMAIN alive /\ db # 0 /\ alive \in Seq(BOOLEAN)
      /\ rebuilder = t /\ \A x \in Tasks \ {t} : pc[x] \notin {"rebuild", "setup"}
    BY DEF RefuseSchema, ConnInv, RebuilderHolds, RebuildsTheClosed, TypeOK
<1>2. /\ alive' \in Seq(BOOLEAN) /\ Len(alive') = Len(alive) /\ DOMAIN alive' = DOMAIN alive
      /\ \A k \in DOMAIN alive : alive'[k] => alive[k] /\ k # db
    BY <1>1, SetOne DEF RefuseSchema
<1>3. pc' \in [Tasks -> Places] /\ pc[t] = "setup" /\ pc'[t] = "failed"
      /\ \A x \in Tasks \ {t} : pc'[x] = pc[x]
    BY DEF RefuseSchema, Goto, ConnInv, TypeOK, Places
<1>4. TypeOK'
    BY <1>1, <1>2, <1>3 DEF RefuseSchema, ConnInv, TypeOK
<1>5. RebuilderHolds' /\ RebuildsTheClosed'
    BY <1>1, <1>3 DEF RefuseSchema, RebuilderHolds, RebuildsTheClosed
<1>6. db' = 0 /\ ~Spent'
    BY DEF RefuseSchema, Spent
<1>7. CallsCaptured'
    BY <1>3, <1>6 DEF RefuseSchema, ConnInv, CallsCaptured
<1>8. OnlyTheLastLives'
    BY <1>2 DEF RefuseSchema, ConnInv, OnlyTheLastLives
<1>9. LossesPay'
    BY <1>6 DEF RefuseSchema, ConnInv, LossesPay
<1>10. StagesFit'
    BY <1>3 DEF RefuseSchema, ConnInv, StagesFit
<1> QED BY <1>4, <1>5, <1>7, <1>8, <1>9, <1>10 DEF ConnInv

\* A socket lost pays for the connection that will replace it.
LEMMA LossStep ==
    ASSUME ConnInv, LoseSocket
    PROVE  ConnInv'
<1>1. db \in DOMAIN alive /\ db # 0 /\ alive[db] /\ alive \in Seq(BOOLEAN)
    BY DEF LoseSocket, ConnInv, TypeOK
<1>2. /\ alive' \in Seq(BOOLEAN) /\ Len(alive') = Len(alive) /\ DOMAIN alive' = DOMAIN alive
      /\ \A k \in DOMAIN alive : alive'[k] => alive[k]
      /\ ~alive'[db]
    BY <1>1, SetOne DEF LoseSocket
<1>3. TypeOK'
    BY <1>1, <1>2 DEF LoseSocket, ConnInv, TypeOK
<1>4. RebuilderHolds' /\ RebuildsTheClosed'
    BY <1>2 DEF LoseSocket, ConnInv, RebuilderHolds, RebuildsTheClosed
<1>5. Spent'
    BY <1>1, <1>2 DEF LoseSocket, Spent
<1>6. CallsCaptured' /\ StagesFit'
    BY <1>5 DEF LoseSocket, ConnInv, CallsCaptured, StagesFit
<1>7. OnlyTheLastLives'
    BY <1>2 DEF LoseSocket, ConnInv, OnlyTheLastLives
<1>8. LossesPay'
  <2>1. Len(wire) \in Nat
      BY DEF ConnInv, TypeOK
  <2> QED BY <2>1 DEF LoseSocket, ConnInv, LossesPay
<1> QED BY <1>3, <1>4, <1>6, <1>7, <1>8 DEF ConnInv

\* A call is cancelled in flight, in the queue of the lock, or while it rebuilds.
LEMMA CancelStep ==
    ASSUME ConnInv, NEW t \in Tasks, CancelCall(t)
    PROVE  ConnInv'
<1>1. CASE pc[t] \in {"rebuild", "setup"}
    BY <1>1, EndRebuildStep DEF CancelCall, AbandonRebuild
<1>2. CASE pc[t] \in {"flight", "lock"}
  <2>1. /\ wire' \in Seq(Graphs) /\ Len(wire') = Len(wire) /\ DOMAIN wire' = DOMAIN wire
        /\ landed' \in [Users -> SUBSET Graphs]
      BY <1>2, RunsIs DEF CancelCall, ConnInv, TypeOK
  <2>2. pc' \in [Tasks -> Places] /\ pc'[t] = "failed" /\ \A x \in Tasks \ {t} : pc'[x] = pc[x]
      BY <1>2 DEF CancelCall, Goto, ConnInv, TypeOK, Places
  <2>3. UNCHANGED <<alive, db, dropped, rebuilder, belief, at, last, stage, target, original, sdk,
                    losses>> /\ cancels' = cancels + 1
      BY <1>2 DEF CancelCall
  <2>4. TypeOK'
      BY <2>1, <2>2, <2>3 DEF ConnInv, TypeOK
  <2>5. RebuilderHolds' /\ RebuildsTheClosed'
      BY <1>2, <2>2, <2>3 DEF ConnInv, RebuilderHolds, RebuildsTheClosed
  <2>6. Spent' <=> Spent
      BY <2>3 DEF Spent
  <2>7. CallsCaptured' /\ StagesFit'
      BY <1>2, <2>2, <2>3, <2>6 DEF ConnInv, CallsCaptured, StagesFit
  <2>8. OnlyTheLastLives'
      BY <2>3 DEF ConnInv, OnlyTheLastLives
  <2>9. LossesPay'
    <3>1. Len(wire) \in Nat
        BY DEF ConnInv, TypeOK
    <3> QED BY <2>1, <2>3, <2>6, <3>1 DEF ConnInv, LossesPay
  <2> QED BY <2>4, <2>5, <2>7, <2>8, <2>9 DEF ConnInv
<1> QED BY <1>1, <1>2 DEF CancelCall

\* Every step preserves the invariant of the connection.
LEMMA NextConn == ConnInv /\ [Next]_vars => ConnInv'
<1> SUFFICES ASSUME ConnInv, [Next]_vars PROVE ConnInv'
    OBVIOUS
<1>1. CASE UNCHANGED vars
  <2>1. UNCHANGED <<wire, alive, db, dropped, rebuilder, database, selected, pc, at, last, stage, target,
                    original, landed, sdk, losses, cancels>>
      BY <1>1
  <2>2. TypeOK'
      BY <2>1 DEF ConnInv, TypeOK
  <2> QED BY <2>1, <2>2 DEF ConnInv, RebuilderHolds, RebuildsTheClosed, CallsCaptured, Spent,
          OnlyTheLastLives, LossesPay, StagesFit
<1>2. ASSUME NEW t \in Tasks,
             Begin(t) \/ End(t) \/ StartCall(t) \/ StartSchema(t) \/ InCall(t) \/ CancelCall(t)
      PROVE  ConnInv'
    BY <1>2, TurnStep, SendStep, AnswerStep, LostStep, StartRebuildStep, OpenStep, RebuildStep,
       RefuseStep, CancelStep DEF InCall
<1> QED BY <1>1, <1>2, LossStep DEF Next

LEMMA ConnHolds == Spec => []ConnInv
BY InitConn, NextConn, PTL DEF Spec

\* The adapter's fields keep their types, and of all the calls a loss takes down one
\* rebuilds: no more connections are opened than sockets were lost and rebuilds cancelled.
THEOREM ConnectionStaysSound == Spec => []ConnectionIsSound
<1>1. ConnInv => ConnectionIsSound
    BY DEF ConnInv, LossesPay, ConnectionIsSound, OneRebuildPerLoss
<1> QED BY <1>1, ConnHolds, PTL

--------------------------------------------------------------------------------
(* The graph of an operation, when no mover's call is cancelled in flight.   *)

LEMMA InitGraph == Init => GraphInv
<1> SUFFICES ASSUME Init PROVE GraphInv
    OBVIOUS
<1>1. ConnInv
    BY InitConn
<1> QED BY <1>1 DEF Init, GraphInv, TurnsExclude, WireFollows, Active

\* A step within a turn that moves neither the connection nor the selection; what it sends
\* goes out on the connection in use, while that works.
LEMMA WithinTurn ==
    ASSUME GraphInv, ConnInv', NEW t \in Tasks, UNCHANGED <<wire, selected, landed, db>>,
           \A k \in DOMAIN alive : alive'[k] => alive[k],
           \A x \in Tasks \ {t} : pc'[x] = pc[x] /\ at'[x] = at[x],
           pc[t] # "idle", pc'[t] # "idle",
           pc'[t] = "flight" => \/ pc[t] = "flight" /\ at'[t] = at[t]
                                \/ at'[t] = db /\ db # 0 /\ alive[db]
    PROVE  GraphInv'
<1>1. \A x \in Tasks : Active(x)' <=> Active(x)
    BY DEF Active
<1>2. TurnsExclude'
    BY <1>1 DEF GraphInv, TurnsExclude
<1>3. WireFollows'
  <2>1. db # 0 => db \in DOMAIN alive
      BY DEF GraphInv, ConnInv, TypeOK
  <2> QED BY <2>1 DEF GraphInv, WireFollows
<1>4. ASSUME NEW u \in Users, NEW g \in Graphs, OperationIsIn(u, g) PROVE OperationIsIn(u, g)'
    BY <1>4 DEF OperationIsIn, GraphInv, WireFollows
<1>5. \A u \in Users : Active(u)' => \E g \in Graphs : OperationIsIn(u, g)'
    BY <1>1, <1>4 DEF GraphInv
<1>6. \A u \in Users : ~Active(u)' => landed'[u] = {}
    BY <1>1 DEF GraphInv
<1> QED BY <1>2, <1>3, <1>5, <1>6 DEF GraphInv

\* A user that begins is in the graph selected, and none of its statements has run; a mover
\* that begins is alone.
LEMMA BeginGraph ==
    ASSUME GraphInv, ConnInv', NEW t \in Tasks, Begin(t)
    PROVE  GraphInv'
<1>1. /\ ~Active(t) /\ pc'[t] = "ready" /\ \A x \in Tasks \ {t} : pc'[x] = pc[x]
      /\ UNCHANGED <<wire, alive, db, selected, at, landed>>
      /\ \A x \in Tasks \ {t} : Active(x) => t \in Users /\ x \in Users
    BY DEF Begin, Goto, Active, GraphInv, ConnInv, TypeOK
<1>2. \A x \in Tasks \ {t} : Active(x)' <=> Active(x)
    BY <1>1 DEF Active
<1>3. TurnsExclude'
    BY <1>1, <1>2 DEF GraphInv, TurnsExclude
<1>4. WireFollows'
    BY <1>1 DEF GraphInv, WireFollows
<1>5. ASSUME NEW u \in Users, Active(u)' PROVE \E g \in Graphs : OperationIsIn(u, g)'
  <2>1. CASE u = t
    <3>1. OperationIsIn(u, selected)' /\ selected' \in Graphs
        BY <1>1, <2>1 DEF OperationIsIn, GraphInv, ConnInv, TypeOK
    <3>2. selected' = selected
        BY <1>1
    <3> QED BY <3>1, <3>2 DEF OperationIsIn
  <2>2. CASE u # t
    <3>1. PICK g \in Graphs : OperationIsIn(u, g)
        BY <1>2, <1>5, <2>2 DEF GraphInv
    <3>2. OperationIsIn(u, g)'
        BY <1>1, <2>2, <3>1 DEF OperationIsIn
    <3> QED BY <3>2
  <2> QED BY <2>1, <2>2
<1>6. \A u \in Users : ~Active(u)' => landed'[u] = {}
    BY <1>1, <1>2 DEF GraphInv, Active
<1> QED BY <1>3, <1>4, <1>5, <1>6 DEF GraphInv

\* An operation that is over.
LEMMA EndGraph ==
    ASSUME GraphInv, ConnInv', NEW t \in Tasks, End(t)
    PROVE  GraphInv'
<1>1. /\ ~Active(t)' /\ \A x \in Tasks \ {t} : pc'[x] = pc[x]
      /\ UNCHANGED <<wire, alive, db, selected, at>>
      /\ \A u \in Users : landed'[u] = IF u = t THEN {} ELSE landed[u]
    BY DEF End, Goto, Active, GraphInv, ConnInv, TypeOK
<1>2. \A x \in Tasks : Active(x)' => Active(x) /\ x # t
    BY <1>1 DEF Active
<1>3. TurnsExclude'
    BY <1>2 DEF GraphInv, TurnsExclude
<1>4. WireFollows'
    BY <1>1 DEF GraphInv, WireFollows
<1>5. ASSUME NEW u \in Users, Active(u)' PROVE \E g \in Graphs : OperationIsIn(u, g)'
  <2>1. PICK g \in Graphs : OperationIsIn(u, g)
      BY <1>2, <1>5 DEF GraphInv
  <2>2. OperationIsIn(u, g)'
      BY <1>1, <1>2, <1>5, <2>1 DEF OperationIsIn
  <2> QED BY <2>2
<1>6. \A u \in Users : ~Active(u)' => landed'[u] = {}
    BY <1>1 DEF GraphInv, Active
<1> QED BY <1>3, <1>4, <1>5, <1>6 DEF GraphInv

\* A connection opened is pointed at the graph selected; what is in flight is so on those
\* opened before.
LEMMA OpenGraph ==
    ASSUME GraphInv, ConnInv', NEW t \in Tasks, OpenConnection(t)
    PROVE  GraphInv'
<1>1. wire \in Seq(Graphs) /\ selected \in Graphs /\ db # 0 /\ pc[t] = "rebuild"
    BY DEF OpenConnection, GraphInv, ConnInv, TypeOK, RebuildsTheClosed
<1>2. /\ \A j \in DOMAIN wire : wire'[j] = wire[j]
      /\ wire'[Len(wire) + 1] = selected
    BY <1>1, AddOne DEF OpenConnection
<1>3. /\ db' = Len(wire) + 1 /\ UNCHANGED <<selected, at, landed>>
      /\ pc'[t] = "setup" /\ \A x \in Tasks \ {t} : pc'[x] = pc[x]
    BY DEF OpenConnection, Goto, GraphInv, ConnInv, TypeOK
<1>4. \A x \in Tasks : Active(x)' <=> Active(x)
    BY <1>1, <1>3 DEF Active
<1>5. TurnsExclude'
    BY <1>4 DEF GraphInv, TurnsExclude
<1>6. WireFollows'
    BY <1>2, <1>3 DEF WireFollows
<1>7. \A x \in Tasks : pc[x] = "flight" => at[x] \in DOMAIN wire
    BY DEF GraphInv, ConnInv, TypeOK, CallsCaptured
<1>8. ASSUME NEW u \in Users, NEW g \in Graphs, OperationIsIn(u, g) PROVE OperationIsIn(u, g)'
    BY <1>1, <1>2, <1>3, <1>7, <1>8 DEF OperationIsIn
<1>9. \A u \in Users : Active(u)' => \E g \in Graphs : OperationIsIn(u, g)'
    BY <1>4, <1>8 DEF GraphInv
<1>10. \A u \in Users : ~Active(u)' => landed'[u] = {}
    BY <1>3, <1>4 DEF GraphInv
<1> QED BY <1>5, <1>6, <1>9, <1>10 DEF GraphInv

\* A store closed for good: nothing is sent from here on.
LEMMA RefuseGraph ==
    ASSUME GraphInv, ConnInv', NEW t \in Tasks, RefuseSchema(t)
    PROVE  GraphInv'
<1>1. /\ db' = 0 /\ UNCHANGED <<wire, at, landed>> /\ pc[t] = "setup"
      /\ pc'[t] = "failed" /\ \A x \in Tasks \ {t} : pc'[x] = pc[x]
    BY DEF RefuseSchema, Goto, GraphInv, ConnInv, TypeOK
<1>2. \A x \in Tasks : Active(x)' <=> Active(x)
    BY <1>1 DEF Active
<1>3. TurnsExclude'
    BY <1>2 DEF GraphInv, TurnsExclude
<1>4. WireFollows'
    BY <1>1 DEF WireFollows
<1>5. ASSUME NEW u \in Users, NEW g \in Graphs, OperationIsIn(u, g) PROVE OperationIsIn(u, g)'
    BY <1>1, <1>5 DEF OperationIsIn
<1>6. \A u \in Users : Active(u)' => \E g \in Graphs : OperationIsIn(u, g)'
    BY <1>2, <1>5 DEF GraphInv
<1>7. \A u \in Users : ~Active(u)' => landed'[u] = {}
    BY <1>1, <1>2 DEF GraphInv
<1> QED BY <1>3, <1>4, <1>6, <1>7 DEF GraphInv

\* A user's statement in flight, answered, lost or cancelled: it moves nothing, and where it
\* runs is the operation's graph.
LEMMA UserRuns ==
    ASSUME GraphInv, ConnInv', NEW t \in Users, pc[t] = "flight", pc'[t] # "idle", pc'[t] # "flight",
           Runs(t) \/ UNCHANGED <<wire, landed>>,
           UNCHANGED <<alive, db, selected>>,
           \A x \in Tasks \ {t} : pc'[x] = pc[x] /\ at'[x] = at[x]
    PROVE  GraphInv'
<1>1. Uses(t) = NoGraph
    BY DEF Uses, GraphInv, ConnInv, StagesFit
<1>2. /\ wire' = wire
      /\ landed'[t] \subseteq landed[t] \cup {wire[at[t]]}
      /\ \A u \in Users \ {t} : landed'[u] = landed[u]
  <2>1. CASE Runs(t)
    <3>1. wire' = wire /\ \A u \in Users : landed'[u] = landed[u] \cup IF u = t THEN {wire[at[t]]} ELSE {}
        BY <1>1, <2>1 DEF Runs
    <3>2. landed'[t] = landed[t] \cup {wire[at[t]]}
        BY <3>1, Zenon
    <3>3. \A u \in Users \ {t} : landed'[u] = landed[u] \cup {}
        BY <3>1
    <3> QED BY <3>1, <3>2, <3>3
  <2>2. CASE UNCHANGED <<wire, landed>>
      BY <2>2
  <2> QED BY <2>1, <2>2
<1>3. \A x \in Tasks : Active(x)' <=> Active(x)
    BY DEF Active
<1>4. TurnsExclude'
    BY <1>3 DEF GraphInv, TurnsExclude
<1>5. WireFollows'
    BY <1>2 DEF GraphInv, WireFollows
<1>6. ASSUME NEW u \in Users, NEW g \in Graphs, OperationIsIn(u, g) PROVE OperationIsIn(u, g)'
  <2>1. landed'[u] \subseteq {g}
      BY <1>2, <1>6 DEF OperationIsIn
  <2>2. pc'[u] = "flight" => wire'[at'[u]] = g
      BY <1>2, <1>6 DEF OperationIsIn
  <2> QED BY <1>6, <2>1, <2>2 DEF OperationIsIn
<1>7. \A u \in Users : Active(u)' => \E g \in Graphs : OperationIsIn(u, g)'
    BY <1>3, <1>6 DEF GraphInv
<1>8. \A u \in Users : ~Active(u)' => landed'[u] = {}
    BY <1>2, <1>3 DEF GraphInv, Active
<1> QED BY <1>4, <1>5, <1>7, <1>8 DEF GraphInv

\* A mover's statement in flight, answered or lost: no user is in a turn to be moved, and the
\* selection follows the connection, or that is dead.
LEMMA MoverRuns ==
    ASSUME GraphInv, ConnInv', NEW t \in Movers, pc[t] = "flight", pc'[t] # "idle",
           Runs(t) \/ UNCHANGED <<wire, landed>>,
           UNCHANGED <<alive, db>>,
           \A x \in Tasks \ {t} : pc'[x] = pc[x] /\ at'[x] = at[x],
           \/ /\ Runs(t) /\ alive[at[t]]
              /\ selected' = IF Uses(t) # NoGraph THEN Uses(t) ELSE selected
           \/ ~alive[at[t]] /\ selected' = selected
    PROVE  GraphInv'
<1>1. \A u \in Users : ~Active(u)
    BY DEF GraphInv, TurnsExclude, Active
<1>2. \A x \in Tasks : Active(x)' <=> Active(x)
    BY DEF Active
<1>3. TurnsExclude'
    BY <1>2 DEF GraphInv, TurnsExclude
<1>4. \A u \in Users : landed'[u] = landed[u]
  <2>1. CASE Runs(t)
      BY <2>1 DEF Runs
  <2>2. CASE UNCHANGED <<wire, landed>>
      BY <2>2
  <2> QED BY <2>1, <2>2
<1>5. at[t] \in DOMAIN wire /\ at[t] \in DOMAIN alive /\ (alive[at[t]] => at[t] = db)
    BY DEF GraphInv, ConnInv, TypeOK, CallsCaptured, OnlyTheLastLives
<1>6. \/ wire' = wire /\ (Runs(t) => Uses(t) = NoGraph)
      \/ Uses(t) # NoGraph /\ wire' = [wire EXCEPT ![at[t]] = Uses(t)]
    BY DEF Runs
<1>7. WireFollows'
  <2> SUFFICES ASSUME db # 0, alive[db] PROVE wire'[db] = selected'
      BY DEF WireFollows
  <2>1. wire[db] = selected
      BY DEF GraphInv, WireFollows
  <2>2. CASE alive[at[t]]
      BY <1>5, <1>6, <2>1, <2>2 DEF Runs
  <2>3. CASE ~alive[at[t]]
    <3>1. wire'[db] = wire[db] /\ selected' = selected
        BY <1>5, <1>6, <2>3 DEF GraphInv, ConnInv, TypeOK
    <3> QED BY <2>1, <3>1
  <2> QED BY <2>2, <2>3
<1> QED BY <1>1, <1>2, <1>3, <1>4, <1>7 DEF GraphInv

\* What a task sends goes out on the connection in use, while that works.
LEMMA SendGraph ==
    ASSUME GraphInv, ConnInv', NEW t \in Tasks, StartCall(t) \/ StartSchema(t) \/ Resend(t)
    PROVE  GraphInv'
<1>1. /\ at' = [at EXCEPT ![t] = db]
      /\ \E p \in {"failed", "flight", "lock"} :
            /\ pc' = [pc EXCEPT ![t] = p]
            /\ p = "flight" => db # 0 /\ alive[db]
  <2>1. CASE StartCall(t) /\ db = dropped /\ db # 0
      BY <2>1 DEF StartCall, Goto
  <2>2. CASE StartSchema(t)
      BY <2>2 DEF StartSchema, Goto
  <2>3. CASE Send(t)
      BY <2>3, SendIs DEF GraphInv
  <2> QED BY <2>1, <2>2, <2>3 DEF StartCall, Resend
<1>2. /\ \A x \in Tasks \ {t} : pc'[x] = pc[x] /\ at'[x] = at[x]
      /\ pc'[t] # "idle" /\ (pc'[t] = "flight" => at'[t] = db /\ db # 0 /\ alive[db])
    BY <1>1 DEF GraphInv, ConnInv, TypeOK
<1>3. pc[t] # "idle" /\ UNCHANGED <<wire, alive, db, selected, landed>>
    BY DEF StartCall, StartSchema, Resend
<1> QED BY <1>2, <1>3, WithinTurn

\* Failing, and rebuilding but for the connection opened.
LEMMA RebuildGraph ==
    ASSUME GraphInv, ConnInv', NEW t \in Tasks,
           \/ Fail(t) \/ FindReplaced(t) \/ StartRebuild(t) \/ ServerAway(t) \/ SetupSchema(t)
           \/ CancelCall(t) /\ pc[t] \in {"lock", "rebuild", "setup"}
    PROVE  GraphInv'
<1>1. /\ pc[t] # "idle" /\ UNCHANGED <<wire, selected, landed, db>>
      /\ \E p \in {"ready", "resend", "rebuild", "failed"} : pc' = [pc EXCEPT ![t] = p]
      /\ at' = at \/ at' = [at EXCEPT ![t] = 0]
    BY DEF Fail, FindReplaced, StartRebuild, ServerAway, SetupSchema, CancelCall, AbandonRebuild, Goto
<1>2. \A x \in Tasks \ {t} : pc'[x] = pc[x] /\ at'[x] = at[x]
    BY <1>1 DEF GraphInv, ConnInv, TypeOK
<1>3. pc'[t] \in {"ready", "resend", "rebuild", "failed"}
    BY <1>1 DEF GraphInv, ConnInv, TypeOK
<1>4. \A k \in DOMAIN alive : alive'[k] => alive[k]
  <2>1. CASE StartRebuild(t)
      BY <2>1 DEF StartRebuild, GraphInv, ConnInv, TypeOK
  <2>2. CASE alive' = alive
      BY <2>2
  <2> QED BY <2>1, <2>2 DEF Fail, FindReplaced, ServerAway, SetupSchema, CancelCall
<1> QED BY <1>1, <1>2, <1>3, <1>4, WithinTurn

\* A statement that was in flight and is no more.
LEMMA FlightGraph ==
    ASSUME GraphInv, ConnInv', NEW t \in Tasks, Cancellable \cap Movers = {},
           Answer(t) \/ LostInFlight(t) \/ (CancelCall(t) /\ pc[t] = "flight")
    PROVE  GraphInv'
<1>1. /\ pc[t] = "flight" /\ (Runs(t) \/ UNCHANGED <<wire, landed>>) /\ UNCHANGED <<alive, db>>
      /\ \E p \in {"ready", "failed", "lock"} : pc' = [pc EXCEPT ![t] = p]
      /\ at' = at \/ at' = [at EXCEPT ![t] = 0]
    BY DEF Answer, LostInFlight, CancelCall, Raise, Goto
<1>2. \A x \in Tasks \ {t} : pc'[x] = pc[x] /\ at'[x] = at[x]
    BY <1>1 DEF GraphInv, ConnInv, TypeOK
<1>3. pc'[t] \in {"ready", "failed", "lock"}
    BY <1>1 DEF GraphInv, ConnInv, TypeOK
<1>4. CASE t \in Users
  <2>1. Uses(t) = NoGraph
      BY <1>4 DEF Uses, GraphInv, ConnInv, StagesFit
  <2>2. selected' = selected
      BY <2>1 DEF Answer, LostInFlight, CancelCall
  <2> QED BY <1>1, <1>2, <1>3, <1>4, <2>2, UserRuns
<1>5. CASE t \in Movers
  <2>1. \/ /\ Runs(t) /\ alive[at[t]]
           /\ selected' = IF Uses(t) # NoGraph THEN Uses(t) ELSE selected
        \/ ~alive[at[t]] /\ selected' = selected
      BY <1>5 DEF Answer, LostInFlight, CancelCall
  <2> QED BY <1>1, <1>2, <1>3, <1>5, <2>1, MoverRuns
<1> QED BY <1>4, <1>5

\* A socket lost: the connection works less, and is no elsewhere.
LEMMA LossGraph ==
    ASSUME GraphInv, ConnInv', LoseSocket
    PROVE  GraphInv'
<1>1. UNCHANGED <<wire, selected, landed, db, pc, at>> /\ ~alive'[db]
    BY DEF LoseSocket, GraphInv, ConnInv, TypeOK
<1>2. \A x \in Tasks : Active(x)' <=> Active(x)
    BY <1>1 DEF Active
<1>3. TurnsExclude' /\ WireFollows'
    BY <1>1, <1>2 DEF GraphInv, TurnsExclude, WireFollows
<1>4. \A u \in Users, g \in Graphs : OperationIsIn(u, g) => OperationIsIn(u, g)'
    BY <1>1 DEF OperationIsIn
<1> QED BY <1>1, <1>2, <1>3, <1>4 DEF GraphInv

LEMMA NextGraph == Cancellable \cap Movers = {} /\ GraphInv /\ [Next]_vars => GraphInv'
<1> SUFFICES ASSUME Cancellable \cap Movers = {}, GraphInv, [Next]_vars PROVE GraphInv'
    OBVIOUS
<1>1. ConnInv'
    BY NextConn DEF GraphInv
<1>2. CASE UNCHANGED vars
  <2>1. UNCHANGED <<wire, alive, db, selected, pc, at, landed>>
      BY <1>2
  <2>2. \A x \in Tasks : Active(x)' <=> Active(x)
      BY <2>1 DEF Active
  <2>3. TurnsExclude' /\ WireFollows'
      BY <2>1, <2>2 DEF GraphInv, TurnsExclude, WireFollows
  <2>4. \A u \in Users, g \in Graphs : OperationIsIn(u, g) => OperationIsIn(u, g)'
      BY <2>1 DEF OperationIsIn
  <2> QED BY <1>1, <2>1, <2>2, <2>3, <2>4 DEF GraphInv
<1>3. ASSUME NEW t \in Tasks,
             Begin(t) \/ End(t) \/ StartCall(t) \/ StartSchema(t) \/ InCall(t) \/ CancelCall(t)
      PROVE  GraphInv'
  <2>1. CancelCall(t) => pc[t] \in {"flight", "lock", "rebuild", "setup"}
      BY DEF CancelCall
  <2> QED BY <1>1, <1>3, <2>1, BeginGraph, EndGraph, SendGraph, FlightGraph, RebuildGraph,
          OpenGraph, RefuseGraph DEF InCall
<1> QED BY <1>1, <1>2, <1>3, LossGraph DEF Next

\* Every statement of an operation runs in one graph, the one selected, and with no mover at
\* work the connection is on it: through every loss, rebuild and refusal, and every call of
\* an operation that is cancelled.  A USE cancelled in flight has moved the connection with
\* nothing recorded, which the hypothesis leaves out.
THEOREM GraphIsHeld ==
    Cancellable \cap Movers = {} => (Spec => [](OneGraphPerOperation /\ WireIsSelected))
<1> SUFFICES ASSUME Cancellable \cap Movers = {}
             PROVE  Spec => [](OneGraphPerOperation /\ WireIsSelected)
    OBVIOUS
<1>1. GraphInv => WireIsSelected
    BY DEF GraphInv, WireFollows, WireIsSelected
<1>2. GraphInv => OneGraphPerOperation
  <2> SUFFICES ASSUME GraphInv, NEW u \in Users
               PROVE  Cardinality(landed[u]) <= 1 /\ (db # 0 => landed[u] \subseteq {selected})
      BY DEF OneGraphPerOperation
  <2>1. \E g : landed[u] \subseteq {g} /\ (db # 0 => landed[u] \subseteq {selected})
      BY DEF GraphInv, OperationIsIn
  <2>2. landed[u] = {} \/ \E g : landed[u] = {g}
      BY <2>1
  <2>3. Cardinality(landed[u]) <= 1
    <3>1. ASSUME NEW S, S = {} \/ \E g : S = {g} PROVE Cardinality(S) = 0 \/ Cardinality(S) = 1
        BY <3>1, FS_EmptySet, FS_Singleton, Zenon
    <3>2. Cardinality(landed[u]) = 0 \/ Cardinality(landed[u]) = 1
        BY <2>2, <3>1, Zenon
    <3> QED BY <3>2
  <2> QED BY <2>1, <2>3
<1>3. GraphInv /\ [Next]_vars => GraphInv'
    BY NextGraph
<1> QED BY <1>1, <1>2, <1>3, InitGraph, PTL DEF Spec

\* With no mover at work the connection in use is on the graph selected, under the
\* same hypothesis.
THEOREM WireStaysSelected ==
    Cancellable \cap Movers = {} => (Spec => []WireIsSelected)
<1> SUFFICES ASSUME Cancellable \cap Movers = {} PROVE Spec => []WireIsSelected
    OBVIOUS
<1>1. Spec => [](OneGraphPerOperation /\ WireIsSelected)
    BY GraphIsHeld
<1> QED BY <1>1, PTL

==============================================================================
