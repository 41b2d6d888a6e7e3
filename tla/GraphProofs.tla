----------------------------- MODULE GraphProofs -----------------------------
(***************************************************************************)
(* For every finite set of users and movers: the guard excludes users from *)
(* moves and moves from each other, its count and its event stay exact,    *)
(* its queue holds the queued tasks once each, and no wakeup is lost.       *)
(* For any graphs besides: under the guard an operation's graph does not   *)
(* move, every borrow is given back, and the guarded graph implements      *)
(* ActiveGraph.                                                            *)
(*                                                                         *)
(* In the last two parts, for every set of nodes and any bounds: a backup  *)
(* nobody disturbed holds the whole graph, pruning spares it, and with one *)
(* import at a time a success means the bundle and a failure leaves none.  *)
(***************************************************************************)
EXTENDS GuardedGraph, GraphTransfer, FiniteSetTheorems, SequenceTheorems,
        WellFoundedInduction, TLAPS

USE TasksAssumption, GraphsAssumption DEF Tasks, Places

-------------------------------------------------------------------------------
(* Lemmas: what the three operations on the queue do to the set it lists.    *)

\* q lists the tasks of Q, once each.
Lists(q, Q) ==
    /\ q \in Seq(Tasks)
    /\ \A t \in Tasks : t \in Q <=> \E i \in 1 .. Len(q) : q[i] = t
    /\ \A i, j \in 1 .. Len(q) : q[i] = q[j] => i = j

\* A task not listed yet is listed once appended.
LEMMA AppendLists ==
    ASSUME NEW q, NEW Q, Lists(q, Q), NEW t \in Tasks \ Q
    PROVE  Lists(Append(q, t), Q \cup {t})
<1> DEFINE r == Append(q, t)
<1>1. /\ r \in Seq(Tasks)
      /\ Len(r) = Len(q) + 1 /\ Len(q) \in Nat
      /\ \A i \in 1 .. Len(q) : r[i] = q[i]
      /\ r[Len(q) + 1] = t
    BY AppendProperties DEF Lists
<1>2. \A i \in 1 .. Len(q) : q[i] # t
    BY DEF Lists
<1>3. \A x \in Tasks : x \in Q \cup {t} <=> \E i \in 1 .. Len(r) : r[i] = x
  <2> SUFFICES ASSUME NEW x \in Tasks
               PROVE  x \in Q \cup {t} <=> \E i \in 1 .. Len(r) : r[i] = x
      OBVIOUS
  <2>1. CASE x = t
      BY <1>1, <2>1
  <2>2. CASE x # t
    <3>1. x \in Q <=> \E i \in 1 .. Len(q) : q[i] = x
        BY DEF Lists
    <3>2. (\E i \in 1 .. Len(q) : q[i] = x) <=> \E i \in 1 .. Len(r) : r[i] = x
        BY <1>1, <2>2
    <3> QED BY <2>2, <3>1, <3>2
  <2> QED BY <2>1, <2>2
<1>4. \A i, j \in 1 .. Len(r) : r[i] = r[j] => i = j
    BY <1>1, <1>2 DEF Lists
<1> QED BY <1>1, <1>3, <1>4 DEF Lists

\* The head of the queue is listed, and its tail lists the others.
LEMMA TailLists ==
    ASSUME NEW q, NEW Q, Lists(q, Q), q # <<>>
    PROVE  /\ Head(q) \in Tasks
           /\ Head(q) \in Q
           /\ Lists(Tail(q), Q \ {Head(q)})
<1> DEFINE r == Tail(q)
<1>1. /\ Head(q) \in Tasks
      /\ r \in Seq(Tasks)
      /\ Len(r) = Len(q) - 1
      /\ \A i \in 1 .. Len(r) : r[i] = q[i + 1]
    BY HeadTailProperties DEF Lists
<1>2. Head(q) = q[1] /\ Len(q) \in Nat /\ Len(q) > 0
    BY EmptySeq DEF Lists
<1>3. \A x \in Tasks : x \in Q \ {Head(q)} <=> \E i \in 1 .. Len(r) : r[i] = x
  <2> SUFFICES ASSUME NEW x \in Tasks
               PROVE  x \in Q \ {q[1]} <=> \E i \in 1 .. Len(r) : r[i] = x
      BY <1>2
  <2>1. x \in Q <=> \E i \in 1 .. Len(q) : q[i] = x
      BY DEF Lists
  <2>2. ASSUME NEW i \in 1 .. Len(r), r[i] = x PROVE x \in Q \ {q[1]}
    <3>1. i + 1 \in 1 .. Len(q) /\ q[i + 1] = x /\ 1 \in 1 .. Len(q) /\ i + 1 # 1
        BY <1>1, <1>2, <2>2
    <3> QED BY <2>1, <3>1 DEF Lists
  <2>3. ASSUME x \in Q, x # q[1] PROVE \E i \in 1 .. Len(r) : r[i] = x
    <3>1. PICK j \in 1 .. Len(q) : q[j] = x
        BY <2>1, <2>3
    <3>2. j # 1
        BY <2>3, <3>1
    <3>3. j - 1 \in 1 .. Len(r) /\ r[j - 1] = x
        BY <1>1, <1>2, <3>1, <3>2
    <3> QED BY <3>3
  <2> QED BY <2>2, <2>3
<1>4. \A i, j \in 1 .. Len(r) : r[i] = r[j] => i = j
  <2> SUFFICES ASSUME NEW i \in 1 .. Len(r), NEW j \in 1 .. Len(r), r[i] = r[j]
               PROVE  i = j
      OBVIOUS
  <2>1. i + 1 \in 1 .. Len(q) /\ j + 1 \in 1 .. Len(q) /\ q[i + 1] = q[j + 1]
      BY <1>1, <1>2
  <2> QED BY <1>1, <1>2, <2>1 DEF Lists
<1>5. Head(q) \in Q
    BY <1>1, <1>2 DEF Lists
<1> QED BY <1>1, <1>3, <1>4, <1>5 DEF Lists

\* Removing one entry leaves the others listed.
LEMMA RemoveAtLists ==
    ASSUME NEW q, NEW Q, Lists(q, Q), NEW k \in 1 .. Len(q)
    PROVE  Lists(RemoveAt(q, k), Q \ {q[k]})
<1> DEFINE a == SubSeq(q, 1, k - 1)
           b == SubSeq(q, k + 1, Len(q))
           r == RemoveAt(q, k)
<1>1. Len(q) \in Nat /\ \A i \in 1 .. Len(q) : q[i] \in Tasks
    BY ElementOfSeq, LenProperties DEF Lists
<1>2. /\ a \in Seq(Tasks) /\ Len(a) = k - 1
      /\ \A i \in 1 .. k - 1 : a[i] = q[i]
  <2>1. \A i \in 1 .. k - 1 : q[i] \in Tasks
      BY <1>1
  <2> HIDE DEF Lists
  <2>2. /\ a \in Seq(Tasks)
        /\ Len(a) = IF 1 <= k - 1 THEN (k - 1) - 1 + 1 ELSE 0
        /\ \A i \in 1 .. (k - 1) - 1 + 1 : a[i] = q[1 + i - 1]
      BY <2>1, <1>1, SubSeqProperties
  <2> QED BY <1>1, <2>2
<1>3. /\ b \in Seq(Tasks) /\ Len(b) = Len(q) - k
      /\ \A i \in 1 .. Len(q) - k : b[i] = q[k + i]
  <2>1. \A i \in k + 1 .. Len(q) : q[i] \in Tasks
      BY <1>1
  <2>2. /\ b \in Seq(Tasks)
        /\ Len(b) = IF k + 1 <= Len(q) THEN Len(q) - (k + 1) + 1 ELSE 0
        /\ \A i \in 1 .. Len(q) - (k + 1) + 1 : b[i] = q[k + 1 + i - 1]
      BY <2>1, <1>1, SubSeqProperties
  <2> QED BY <1>1, <2>2
<1>4. /\ r \in Seq(Tasks)
      /\ Len(r) = Len(q) - 1
      /\ \A i \in 1 .. Len(r) : r[i] = IF i < k THEN q[i] ELSE q[i + 1]
  <2>1. /\ r \in Seq(Tasks)
        /\ Len(r) = Len(a) + Len(b)
        /\ \A i \in 1 .. Len(a) + Len(b) : r[i] = IF i <= Len(a) THEN a[i] ELSE b[i - Len(a)]
      BY <1>2, <1>3, ConcatProperties DEF RemoveAt
  <2> HIDE DEF a, b, r
  <2>2. ASSUME NEW i \in 1 .. Len(r) PROVE r[i] = IF i < k THEN q[i] ELSE q[i + 1]
    <3>1. CASE i < k
        BY <1>1, <1>2, <1>3, <2>1, <3>1
    <3>2. CASE ~(i < k)
      <4>1. i - Len(a) \in 1 .. Len(q) - k /\ k + (i - Len(a)) = i + 1
          BY <1>1, <1>2, <1>3, <2>1, <3>2
      <4>2. i \in 1 .. Len(a) + Len(b) /\ ~(i <= Len(a))
          BY <1>1, <1>2, <2>1, <3>2
      <4>3. r[i] = b[i - Len(a)]
          BY <2>1, <4>2
      <4> QED BY <1>3, <4>1, <4>3, <3>2
    <3> QED BY <3>1, <3>2
  <2> QED BY <1>1, <1>2, <1>3, <2>1, <2>2
<1> HIDE DEF a, b, r
<1>5. \A i \in 1 .. Len(r) :
        /\ i < k => i \in 1 .. Len(q) /\ r[i] = q[i]
        /\ ~(i < k) => i + 1 \in 1 .. Len(q) /\ r[i] = q[i + 1]
    BY <1>1, <1>4
<1>6. \A x \in Tasks : x \in Q \ {q[k]} <=> \E i \in 1 .. Len(r) : r[i] = x
  <2> SUFFICES ASSUME NEW x \in Tasks
               PROVE  x \in Q \ {q[k]} <=> \E i \in 1 .. Len(r) : r[i] = x
      OBVIOUS
  <2>1. x \in Q <=> \E i \in 1 .. Len(q) : q[i] = x
      BY DEF Lists
  <2>2. ASSUME NEW i \in 1 .. Len(r), r[i] = x PROVE x \in Q \ {q[k]}
    <3>1. PICK j \in 1 .. Len(q) : j # k /\ q[j] = x
        BY <1>1, <1>5, <2>2
    <3> QED BY <2>1, <3>1 DEF Lists
  <2>3. ASSUME x \in Q, x # q[k] PROVE \E i \in 1 .. Len(r) : r[i] = x
    <3>1. PICK j \in 1 .. Len(q) : q[j] = x
        BY <2>1, <2>3
    <3>2. CASE j < k
        BY <1>1, <1>4, <3>1, <3>2
    <3>3. CASE j > k
      <4>1. j - 1 \in 1 .. Len(r) /\ r[j - 1] = x
          BY <1>1, <1>4, <3>1, <3>3
      <4> QED BY <4>1
    <3> QED BY <1>1, <2>3, <3>1, <3>2, <3>3
  <2> QED BY <2>2, <2>3
<1>7. \A i, j \in 1 .. Len(r) : r[i] = r[j] => i = j
  <2> SUFFICES ASSUME NEW i \in 1 .. Len(r), NEW j \in 1 .. Len(r), r[i] = r[j]
               PROVE  i = j
      OBVIOUS
  <2> DEFINE old(x) == IF x < k THEN x ELSE x + 1
  <2>1. old(i) \in 1 .. Len(q) /\ old(j) \in 1 .. Len(q) /\ q[old(i)] = q[old(j)]
      BY <1>5
  <2>2. old(i) = old(j)
      BY <2>1 DEF Lists
  <2> QED BY <1>1, <1>4, <2>2
<1> QED BY <1>4, <1>6, <1>7 DEF r, Lists

-------------------------------------------------------------------------------
(* The inductive invariant.                                                  *)

Queued == {t \in Tasks : pc[t] = "queued"}

Inv ==
    /\ TypeOK
    /\ TurnstileHeld
    /\ CountIsUsersIn
    /\ WakeupIsComing
    /\ Lists(queue, Queued)

\* Users in their bodies are a finite set, so counting them means something.
LEMMA UsersInFinite == IsFiniteSet(UsersIn) /\ Cardinality(UsersIn) \in Nat
<1>1. IsFiniteSet(UsersIn)
    BY FS_Subset DEF UsersIn
<1> QED BY <1>1, FS_CardinalityType

\* The inductive invariant holds as make_graph_guard leaves its locals.
THEOREM InitInv == GuardInit => Inv
<1> SUFFICES ASSUME GuardInit PROVE Inv
    OBVIOUS
<1> USE DEF GuardInit
<1>1. TypeOK
    BY EmptySeq DEF TypeOK
<1>2. TurnstileHeld
    BY DEF TurnstileHeld
<1>3. CountIsUsersIn
  <2>1. UsersIn = {}
      BY DEF UsersIn
  <2> QED BY <2>1, FS_EmptySet DEF CountIsUsersIn
<1>4. WakeupIsComing
    BY DEF WakeupIsComing
<1>5. Lists(queue, Queued)
    BY EmptySeq DEF Lists, Queued
<1> QED BY <1>1, <1>2, <1>3, <1>4, <1>5 DEF Inv

\* Taking the turnstile, for a task that is not inside yet: everything but the
\* queue.
LEMMA AcquiredInv ==
    ASSUME Inv, NEW t \in Tasks, pc[t] \in {"out", "queued"}, lock = NoTask, Acquired(t)
    PROVE  /\ pc' \in [Tasks -> Places]
           /\ lock' \in Movers \cup {NoTask} /\ users' \in Nat /\ idle' \in BOOLEAN
           /\ TurnstileHeld' /\ CountIsUsersIn' /\ WakeupIsComing'
           /\ Queued' = Queued \ {t}
<1> USE DEF Inv, TypeOK
<1>0. \A m \in Movers : pc[m] \notin {"waiting", "woken", "in"}
    BY DEF TurnstileHeld
<1>1. CASE t \in Users
  <2>1. /\ users' = users + 1 /\ idle' = FALSE /\ lock' = lock
        /\ pc' = [pc EXCEPT ![t] = "in"]
      BY <1>1 DEF Acquired, Register
  <2>2. TurnstileHeld' /\ WakeupIsComing'
      BY <1>0, <1>1, <2>1 DEF TurnstileHeld, WakeupIsComing
  <2>3. CountIsUsersIn'
    <3>1. UsersIn' = UsersIn \cup {t} /\ t \notin UsersIn
        BY <1>1, <2>1 DEF UsersIn
    <3>2. Cardinality(UsersIn') = Cardinality(UsersIn) + 1
        BY <3>1, UsersInFinite, FS_AddElement
    <3> QED BY <2>1, <3>2, UsersInFinite DEF CountIsUsersIn
  <2>4. Queued' = Queued \ {t}
      BY <2>1 DEF Queued
  <2>5. users' \in Nat /\ lock' \in Movers \cup {NoTask}
      BY <2>1
  <2>7. idle' \in BOOLEAN
      BY <2>1, Zenon
  <2>6. pc' \in [Tasks -> Places]
      BY <2>1
  <2> QED BY <2>2, <2>3, <2>4, <2>5, <2>6, <2>7
<1>2. CASE t \notin Users
  <2>1. /\ users' = users /\ idle' = idle /\ lock' = t /\ t \in Movers
        /\ pc' = [pc EXCEPT ![t] = IF idle THEN "in" ELSE "waiting"]
      BY <1>2 DEF Acquired, TakeTurn
  <2>2. TurnstileHeld'
      BY <1>0, <2>1 DEF TurnstileHeld
  <2>3. CountIsUsersIn'
    <3>1. UsersIn' = UsersIn
        BY <1>2, <2>1 DEF UsersIn
    <3> QED BY <2>1, <3>1 DEF CountIsUsersIn
  <2>4. WakeupIsComing'
      BY <1>0, <2>1 DEF WakeupIsComing, CountIsUsersIn
  <2>5. Queued' = Queued \ {t}
      BY <2>1 DEF Queued
  <2> QED BY <2>1, <2>2, <2>3, <2>4, <2>5
<1> QED BY <1>1, <1>2

\* A task that takes the free turnstile at once preserves the invariant.
LEMMA EnterFreeInv == ASSUME Inv, NEW t \in Tasks, EnterFree(t) PROVE Inv'
<1>1. pc[t] = "out" /\ lock = NoTask /\ Acquired(t) /\ queue' = queue
    BY DEF EnterFree
<1>2. Queued \ {t} = Queued
    BY <1>1 DEF Queued
<1>3. Lists(queue', Queued')
    BY <1>1, <1>2, AcquiredInv DEF Inv
<1> QED BY <1>1, <1>3, AcquiredInv DEF Inv, TypeOK, Lists

\* So does the head of the queue taking it.
LEMMA EnterQueuedInv == ASSUME Inv, NEW t \in Tasks, EnterQueued(t) PROVE Inv'
<1>1. /\ queue # <<>> /\ t = Head(queue) /\ lock = NoTask
      /\ queue' = Tail(queue) /\ Acquired(t)
    BY DEF EnterQueued
<1>2. Lists(Tail(queue), Queued \ {t}) /\ t \in Queued
    BY <1>1, TailLists DEF Inv
<1>3. pc[t] = "queued"
    BY <1>2 DEF Queued
<1>4. Lists(queue', Queued')
    BY <1>1, <1>2, <1>3, AcquiredInv
<1> QED BY <1>1, <1>3, <1>4, AcquiredInv DEF Inv, TypeOK, Lists

\* So does a task that queues.
LEMMA EnqueueInv == ASSUME Inv, NEW t \in Tasks, Enqueue(t) PROVE Inv'
<1> USE DEF Inv, TypeOK
<1>1. /\ pc[t] = "out" /\ queue' = Append(queue, t)
      /\ pc' = [pc EXCEPT ![t] = "queued"]
      /\ lock' = lock /\ users' = users /\ idle' = idle
    BY DEF Enqueue
<1>2. Queued' = Queued \cup {t} /\ t \notin Queued /\ UsersIn' = UsersIn
    BY <1>1 DEF Queued, UsersIn
<1>3. Lists(queue', Queued')
    BY <1>1, <1>2, AppendLists
<1>4. TurnstileHeld' /\ WakeupIsComing'
    BY <1>1 DEF TurnstileHeld, WakeupIsComing
<1>5. CountIsUsersIn'
    BY <1>1, <1>2 DEF CountIsUsersIn
<1>6. TypeOK'
    BY <1>1, <1>3 DEF Lists
<1> QED BY <1>3, <1>4, <1>5, <1>6

\* A woken mover goes in: the turnstile it holds has kept everyone out.
LEMMA ResumeInv == ASSUME Inv, NEW t \in Tasks, Resume(t) PROVE Inv'
<1> USE DEF Inv, TypeOK
<1>1. /\ t \in Movers /\ pc[t] = "woken" /\ pc' = [pc EXCEPT ![t] = "in"]
      /\ lock' = lock /\ users' = users /\ idle' = idle /\ queue' = queue
    BY DEF Resume
<1>2. Queued' = Queued /\ UsersIn' = UsersIn
    BY <1>1 DEF Queued, UsersIn
<1>3. TurnstileHeld' /\ WakeupIsComing'
    BY <1>1 DEF TurnstileHeld, WakeupIsComing
<1> QED BY <1>1, <1>2, <1>3 DEF CountIsUsersIn

\* A user that leaves is counted out, and the last one wakes the waiting mover.
LEMMA LeaveUsingInv == ASSUME Inv, NEW t \in Tasks, LeaveUsing(t) PROVE Inv'
<1> USE DEF Inv, TypeOK
<1>1. /\ t \in Users /\ pc[t] = "in" /\ users' = users - 1
      /\ idle' = (users' = 0) /\ lock' = lock /\ queue' = queue
      /\ pc' = [x \in Tasks |-> IF x = t THEN "out"
                                ELSE IF pc[x] = "waiting" /\ idle' THEN "woken"
                                ELSE pc[x]]
    BY DEF LeaveUsing
<1>2. UsersIn' = UsersIn \ {t} /\ t \in UsersIn
    BY <1>1 DEF UsersIn
<1>3. Cardinality(UsersIn') = Cardinality(UsersIn) - 1
    BY <1>2, UsersInFinite, FS_RemoveElement
<1>4. users = Cardinality(UsersIn) /\ users > 0
    BY <1>2, UsersInFinite, FS_EmptySet DEF CountIsUsersIn
<1>5. CountIsUsersIn' /\ users' \in Nat
  <2>1. users' = Cardinality(UsersIn') /\ users' \in Nat
      BY <1>1, <1>3, <1>4, UsersInFinite
  <2>2. idle' <=> users' = 0
      BY <1>1
  <2> QED BY <2>1, <2>2 DEF CountIsUsersIn
<1>6. TurnstileHeld'
    BY <1>1 DEF TurnstileHeld
<1>7. WakeupIsComing'
  <2>1. \A m \in Movers : pc'[m] = "waiting" => ~idle' /\ pc[m] = "waiting"
      BY <1>1
  <2>2. ~idle' => users' > 0
    <3>1. ~idle' => users' # 0
        BY <1>1
    <3> QED BY <1>5, <3>1
  <2>3. \A m \in Movers : pc'[m] \in {"woken", "in"} => idle' \/ pc[m] \in {"woken", "in"}
      BY <1>1
  <2>4. idle' => users' = 0
      BY <1>1
  <2> QED BY <1>4, <2>1, <2>2, <2>3, <2>4 DEF WakeupIsComing
<1>8. Queued' = Queued
    BY <1>1 DEF Queued
<1> QED BY <1>1, <1>5, <1>6, <1>7, <1>8

\* A mover that leaves lets go of the turnstile.
LEMMA LeaveMovingInv == ASSUME Inv, NEW t \in Tasks, LeaveMoving(t) PROVE Inv'
<1> USE DEF Inv, TypeOK
<1>1. /\ t \in Movers /\ pc[t] = "in" /\ pc' = [pc EXCEPT ![t] = "out"]
      /\ lock' = NoTask /\ users' = users /\ idle' = idle /\ queue' = queue
    BY DEF LeaveMoving
<1>2. Queued' = Queued /\ UsersIn' = UsersIn
    BY <1>1 DEF Queued, UsersIn
<1>3. TurnstileHeld' /\ WakeupIsComing'
    BY <1>1 DEF TurnstileHeld, WakeupIsComing
<1> QED BY <1>1, <1>2, <1>3 DEF CountIsUsersIn

\* So does one cancelled at its wait.
LEMMA CancelWaitingInv == ASSUME Inv, NEW t \in Tasks, CancelWaiting(t) PROVE Inv'
<1> USE DEF Inv, TypeOK
<1>1. /\ t \in Movers /\ pc[t] \in {"waiting", "woken"} /\ pc' = [pc EXCEPT ![t] = "out"]
      /\ lock' = NoTask /\ users' = users /\ idle' = idle /\ queue' = queue
    BY DEF CancelWaiting
<1>2. Queued' = Queued /\ UsersIn' = UsersIn
    BY <1>1 DEF Queued, UsersIn
<1>3. TurnstileHeld' /\ WakeupIsComing'
    BY <1>1 DEF TurnstileHeld, WakeupIsComing
<1> QED BY <1>1, <1>2, <1>3 DEF CountIsUsersIn

\* A cancelled task leaves the queue, and only that.
LEMMA CancelQueuedInv == ASSUME Inv, NEW t \in Tasks, CancelQueued(t) PROVE Inv'
<1> USE DEF Inv, TypeOK
<1>1. /\ pc[t] = "queued" /\ pc' = [pc EXCEPT ![t] = "out"]
      /\ lock' = lock /\ users' = users /\ idle' = idle
    BY DEF CancelQueued
<1>2. PICK i \in 1 .. Len(queue) : queue[i] = t /\ queue' = RemoveAt(queue, i)
    BY LenProperties DEF CancelQueued
<1>3. Queued' = Queued \ {t} /\ UsersIn' = UsersIn
    BY <1>1 DEF Queued, UsersIn
<1>4. Lists(queue', Queued')
    BY <1>2, <1>3, RemoveAtLists
<1>5. TurnstileHeld' /\ WakeupIsComing'
    BY <1>1 DEF TurnstileHeld, WakeupIsComing
<1>6. TypeOK'
    BY <1>1, <1>4 DEF Lists
<1> QED BY <1>1, <1>3, <1>4, <1>5, <1>6 DEF CountIsUsersIn

\* Every step of the guard, whichever task takes it, preserves the invariant.
THEOREM NextInv == Inv /\ [GuardNext]_guardVars => Inv'
<1> SUFFICES ASSUME Inv, [GuardNext]_guardVars PROVE Inv'
    OBVIOUS
<1>1. CASE UNCHANGED guardVars
    BY <1>1 DEF guardVars, Inv, TypeOK, TurnstileHeld, CountIsUsersIn, UsersIn,
                WakeupIsComing, Queued
<1>2. ASSUME NEW t \in Tasks,
             Enter(t) \/ Enqueue(t) \/ Resume(t) \/ Leave(t) \/ Cancel(t)
      PROVE  Inv'
    BY <1>2, EnterFreeInv, EnterQueuedInv, EnqueueInv, ResumeInv, LeaveUsingInv,
       LeaveMovingInv, CancelQueuedInv, CancelWaitingInv DEF Enter, Leave, Cancel
<1> QED BY <1>1, <1>2 DEF GuardNext

\* The inductive invariant says what the named properties say.
LEMMA InvProperties ==
    Inv => TypeOK /\ TurnExclusion /\ CountIsUsersIn /\ TurnstileHeld /\ QueueIsQueued
               /\ WakeupIsComing
<1> SUFFICES ASSUME Inv
             PROVE  TurnExclusion /\ QueueIsQueued
    BY DEF Inv
<1>1. TurnExclusion
  <2> SUFFICES ASSUME NEW m \in Movers, pc[m] = "in" PROVE UsersIn = {} /\ MoversIn = {m}
      BY DEF TurnExclusion, MoversIn
  <2>1. UsersIn = {}
      BY UsersInFinite, FS_EmptySet DEF Inv, WakeupIsComing, CountIsUsersIn
  <2>2. \A x \in Movers : pc[x] = "in" => x = m
      BY DEF Inv, TurnstileHeld
  <2> QED BY <2>1, <2>2 DEF MoversIn
<1>2. QueueIsQueued
    BY LenProperties DEF Inv, Lists, Queued, QueueIsQueued
<1> QED BY <1>1, <1>2

-------------------------------------------------------------------------------
(* The theorems.                                                             *)

\* The inductive invariant always holds.
LEMMA InvHolds == GuardSpec => []Inv
<1> QED BY InitInv, NextInv, PTL DEF GuardSpec

\* The guard's variables keep their types, for any number of tasks.
THEOREM GuardTyped == GuardSpec => []TypeOK
<1> QED BY InvHolds, InvProperties, PTL

\* make_graph_guard: while a mover is in its body nobody else is in theirs.
THEOREM MoveExcludesAll == GuardSpec => []TurnExclusion
<1> QED BY InvHolds, InvProperties, PTL

\* make_graph_guard: the count and the event stand for exactly the users inside.
THEOREM CountIsExact == GuardSpec => []CountIsUsersIn
<1> QED BY InvHolds, InvProperties, PTL

\* make_graph_guard: the turnstile is held by the mover that waits or moves.
THEOREM TurnstileIsHeld == GuardSpec => []TurnstileHeld
<1> QED BY InvHolds, InvProperties, PTL

\* asyncio.Lock's waiters, as the guard uses them: the queued tasks, once each.
THEOREM QueueIsExact == GuardSpec => []QueueIsQueued
<1> QED BY InvHolds, InvProperties, PTL

\* make_graph_guard: a mover that waits will be woken, and one woken finds nobody.
THEOREM NoWakeupIsLost == GuardSpec => []WakeupIsComing
<1> QED BY InvHolds, InvProperties, PTL

\* make_graph_guard: nobody enters past a waiting mover.
THEOREM NoneOvertakesAMover == GuardSpec => MoversPreferred
<1>1. Inv /\ [GuardNext]_guardVars
        => [\A m \in Movers : pc[m] \in {"waiting", "woken"} =>
              \A t \in Tasks \ {m} : pc[t] # "in" => pc'[t] # "in"]_guardVars
  <2> SUFFICES ASSUME Inv, GuardNext,
                      NEW m \in Movers, pc[m] \in {"waiting", "woken"},
                      NEW t \in Tasks \ {m}, pc[t] # "in"
               PROVE  pc'[t] # "in"
      OBVIOUS
  <2>1. lock = m /\ lock # NoTask
      BY DEF Inv, TurnstileHeld
  <2>2. pc[t] # "woken" \/ t \in Users
      BY <2>1 DEF Inv, TurnstileHeld
  <2>3. PICK x \in Tasks : Enqueue(x) \/ Resume(x) \/ Leave(x) \/ Cancel(x)
      BY <2>1 DEF GuardNext, Enter, EnterFree, EnterQueued
  <2>4. CASE Enqueue(x) \/ Cancel(x) \/ LeaveMoving(x)
      BY <2>4 DEF Enqueue, Cancel, CancelQueued, CancelWaiting, LeaveMoving, Inv, TypeOK
  <2>5. CASE LeaveUsing(x)
      BY <2>5 DEF LeaveUsing, Inv, TypeOK
  <2>6. CASE Resume(x)
      BY <2>1, <2>6 DEF Resume, Inv, TypeOK, TurnstileHeld
  <2> QED BY <2>3, <2>4, <2>5, <2>6 DEF Leave
<1> QED BY <1>1, InvHolds, PTL DEF GuardSpec, MoversPreferred

-------------------------------------------------------------------------------
(* The graph under the guard.                                                *)

\* What the graph adds to the guard's invariant: a user inside is in the graph
\* selected now, which is the session's; only a mover inside has borrowed, and
\* from the session's graph; with nothing borrowed the two agree.
GraphInv ==
    /\ Inv
    /\ GraphTypeOK
    /\ \A u \in Users : pc[u] # "in" => seen[u] = NoGraph
    /\ \A u \in Users : pc[u] = "in" => seen[u] = selected /\ seen[u] = database
    /\ \A m \in Movers : original[m] # NoGraph => pc[m] = "in" /\ original[m] = database
    /\ (\A m \in Movers : original[m] = NoGraph) => selected = database

\* A mover in its body is alone there, and holds the turnstile.
LEMMA MoverAlone ==
    ASSUME Inv, NEW m \in Movers, pc[m] = "in"
    PROVE  /\ lock = m
           /\ \A u \in Users : pc[u] # "in"
           /\ \A x \in Movers : pc[x] = "in" => x = m
BY InvProperties DEF TurnExclusion, TurnstileHeld, UsersIn, MoversIn

\* With the turnstile free, no mover is inside or about to be.
LEMMA NoMover ==
    ASSUME Inv, lock = NoTask
    PROVE  \A m \in Movers : pc[m] \notin {"waiting", "woken", "in"}
BY DEF Inv, TurnstileHeld

\* With the count at zero, no user is inside.
LEMMA NobodyIn == ASSUME Inv, users = 0 PROVE \A u \in Users : pc[u] # "in"
<1>1. UsersIn = {}
    BY UsersInFinite, FS_EmptySet DEF Inv, CountIsUsersIn
<1> QED BY <1>1 DEF UsersIn

\* The inductive invariant holds of a backend just constructed.
THEOREM GraphInit == Init => GraphInv
<1> SUFFICES ASSUME Init PROVE GraphInv
    OBVIOUS
<1>1. Inv
    BY InitInv DEF Init
<1>2. GraphTypeOK
    BY <1>1 DEF Init, GraphTypeOK, Inv
<1> QED BY <1>1, <1>2 DEF Init, GuardInit, GraphInv

\* The guard's own steps preserve its invariant, whatever happens to the graph.
LEMMA GuardStepInv ==
    ASSUME Inv, NEW t \in Tasks,
           Enter(t) \/ Enqueue(t) \/ Resume(t) \/ Leave(t) \/ Cancel(t)
    PROVE  Inv'
BY NextInv DEF GuardNext

\* A turn's first step, as the graph sees it: a user enters with no mover inside,
\* or a mover takes the turnstile, or one that was woken goes in.
LEMMA BeginEffect ==
    ASSUME Inv, NEW t \in Tasks, Enter(t) \/ Resume(t)
    PROVE  /\ pc[t] # "in"
           /\ \A x \in Tasks \ {t} : pc'[x] = pc[x]
           /\ t \in Users => /\ pc'[t] = "in" /\ lock = NoTask /\ lock' = NoTask
           /\ t \in Movers => /\ pc'[t] \in {"in", "waiting"} /\ lock' = t
                              /\ \A m \in Movers : pc[m] # "in"
                              /\ pc'[t] = "in" => \A u \in Users : pc[u] # "in"
<1> USE DEF Inv, TypeOK
<1>1. CASE Resume(t)
  <2>1. /\ t \in Movers /\ pc[t] = "woken" /\ pc' = [pc EXCEPT ![t] = "in"] /\ lock' = lock
      BY <1>1 DEF Resume
  <2>2. lock = t /\ \A m \in Movers : pc[m] # "in"
      BY <2>1 DEF TurnstileHeld
  <2>3. \A u \in Users : pc[u] # "in"
      BY <2>1, NobodyIn DEF WakeupIsComing
  <2> QED BY <2>1, <2>2, <2>3
<1>2. CASE Enter(t)
  <2>1. pc[t] \in {"out", "queued"} /\ lock = NoTask /\ Acquired(t)
    <3>1. CASE EnterFree(t)
        BY <3>1 DEF EnterFree
    <3>2. CASE EnterQueued(t)
      <4>1. t \in Queued
          BY <3>2, TailLists DEF EnterQueued
      <4> QED BY <3>2, <4>1 DEF EnterQueued, Queued
    <3> QED BY <1>2, <3>1, <3>2 DEF Enter
  <2>2. \A m \in Movers : pc[m] # "in"
      BY <2>1, NoMover
  <2>4. CASE t \in Users
      BY <2>1, <2>2, <2>4 DEF Acquired, Register
  <2>5. CASE t \in Movers
    <3>1. /\ lock' = t /\ pc' = [pc EXCEPT ![t] = IF idle THEN "in" ELSE "waiting"]
        BY <2>1, <2>5 DEF Acquired, TakeTurn
    <3>2. idle => \A u \in Users : pc[u] # "in"
        BY NobodyIn DEF CountIsUsersIn
    <3> QED BY <2>1, <2>2, <2>5, <3>1, <3>2
  <2> QED BY <2>4, <2>5
<1> QED BY <1>1, <1>2

\* A turn that begins preserves it: a user goes in with nothing borrowed.
LEMMA BeginTurnInv == ASSUME GraphInv, NEW t \in Tasks, BeginTurn(t) PROVE GraphInv'
<1> USE DEF GraphInv, GraphTypeOK
<1>1. /\ Enter(t) \/ Resume(t)
      /\ seen' = [u \in Users |-> IF u = t THEN selected ELSE seen[u]]
      /\ database' = database /\ selected' = selected /\ original' = original
    BY DEF BeginTurn
<1>2. Inv'
    BY <1>1, GuardStepInv
<1>3. GraphTypeOK'
    BY <1>1, <1>2 DEF Inv
<1>4. t \in Users => \A m \in Movers : original[m] = NoGraph
    BY <1>1, BeginEffect, NoMover
<1>5. \A u \in Users : pc'[u] # "in" => seen'[u] = NoGraph
    BY <1>1, BeginEffect
<1>6. \A u \in Users : pc'[u] = "in" => seen'[u] = selected' /\ seen'[u] = database'
    BY <1>1, <1>4, BeginEffect
<1>7. \A m \in Movers : original'[m] # NoGraph => pc'[m] = "in" /\ original'[m] = database'
    BY <1>1, BeginEffect
<1> QED BY <1>1, <1>2, <1>3, <1>5, <1>6, <1>7

\* What a task's leaving, queueing or being cancelled does to the others.
LEMMA EndEffect ==
    ASSUME Inv, NEW t \in Tasks, Leave(t) \/ Enqueue(t) \/ Cancel(t)
    PROVE  /\ pc'[t] # "in"
           /\ \A x \in Tasks \ {t} : pc'[x] = "in" <=> pc[x] = "in"
           /\ Leave(t) => pc[t] = "in"
           /\ ~Leave(t) => pc[t] # "in"
BY DEF Leave, LeaveUsing, LeaveMoving, Enqueue, Cancel, CancelQueued, CancelWaiting,
       Inv, TypeOK

\* So does one that ends.
LEMMA EndTurnInv == ASSUME GraphInv, NEW t \in Tasks, EndTurn(t) PROVE GraphInv'
<1> USE DEF GraphInv, GraphTypeOK
<1>1. /\ Leave(t) /\ (t \in Movers => original[t] = NoGraph)
      /\ seen' = [u \in Users |-> IF u = t THEN NoGraph ELSE seen[u]]
      /\ database' = database /\ selected' = selected /\ original' = original
    BY DEF EndTurn
<1>2. Inv'
    BY <1>1, GuardStepInv
<1>3. GraphTypeOK'
    BY <1>1, <1>2 DEF Inv
<1> QED BY <1>1, <1>2, <1>3, EndEffect

\* So does a task that queues, or stops waiting.
LEMMA WaitInv == ASSUME GraphInv, NEW t \in Tasks, Wait(t) PROVE GraphInv'
<1> USE DEF GraphInv, GraphTypeOK
<1>1. /\ Enqueue(t) \/ Cancel(t)
      /\ seen' = seen /\ database' = database /\ selected' = selected /\ original' = original
    BY DEF Wait, graphVars
<1>2. Inv'
    BY <1>1, GuardStepInv
<1>3. GraphTypeOK'
    BY <1>1, <1>2 DEF Inv
<1>4. pc[t] # "in" /\ \A x \in Tasks : pc'[x] = "in" <=> pc[x] = "in"
  <2>1. ~Leave(t)
      BY <1>1 DEF Leave, LeaveUsing, LeaveMoving, Enqueue, Cancel, CancelQueued, CancelWaiting
  <2> QED BY <1>1, <2>1, EndEffect
<1> QED BY <1>1, <1>2, <1>3, <1>4

\* A step of a mover's body leaves the guard as it is.
LEMMA BodyKeepsGuard == ASSUME Inv, UNCHANGED guardVars PROVE Inv' /\ pc' = pc /\ lock' = lock
BY NextInv DEF guardVars

\* A switch moves the graph under a mover that is alone.
LEMMA SwitchInv ==
    ASSUME GraphInv, NEW m \in Movers, NEW g \in Graphs, Switch(m, g) PROVE GraphInv'
<1> USE DEF GraphInv, GraphTypeOK
<1>1. /\ pc[m] = "in" /\ original[m] = NoGraph /\ database' = g /\ selected' = g
      /\ UNCHANGED guardVars /\ original' = original /\ seen' = seen
    BY DEF Switch
<1>2. Inv' /\ pc' = pc
    BY <1>1, BodyKeepsGuard
<1>3. GraphTypeOK'
    BY <1>1, <1>2 DEF Inv
<1>4. (\A u \in Users : pc[u] # "in") /\ \A x \in Movers : original[x] = NoGraph
    BY <1>1, MoverAlone
<1> QED BY <1>1, <1>2, <1>3, <1>4

\* So does a borrow, which starts from the session's graph.
LEMMA BorrowInv ==
    ASSUME GraphInv, NEW m \in Movers, NEW g \in Graphs, Borrow(m, g) PROVE GraphInv'
<1> USE DEF GraphInv, GraphTypeOK
<1>1. /\ pc[m] = "in" /\ original[m] = NoGraph /\ selected' = g
      /\ original' = [original EXCEPT ![m] = selected]
      /\ UNCHANGED guardVars /\ database' = database /\ seen' = seen
    BY DEF Borrow
<1>2. Inv' /\ pc' = pc
    BY <1>1, BodyKeepsGuard
<1>3. GraphTypeOK'
    BY <1>1, <1>2 DEF Inv
<1>4. /\ \A u \in Users : pc[u] # "in"
      /\ \A x \in Movers : original[x] = NoGraph
    BY <1>1, MoverAlone
<1>5. original'[m] = database /\ original'[m] # NoGraph
    BY <1>1, <1>4
<1> QED BY <1>1, <1>2, <1>3, <1>4, <1>5

\* Giving back returns the connection to the session's graph.
LEMMA GiveBackInv == ASSUME GraphInv, NEW m \in Movers, GiveBack(m) PROVE GraphInv'
<1> USE DEF GraphInv, GraphTypeOK
<1>1. /\ original[m] # NoGraph /\ selected' = original[m]
      /\ original' = [original EXCEPT ![m] = NoGraph]
      /\ UNCHANGED guardVars /\ database' = database /\ seen' = seen
    BY DEF GiveBack
<1>2. Inv' /\ pc' = pc
    BY <1>1, BodyKeepsGuard
<1>3. GraphTypeOK'
    BY <1>1, <1>2 DEF Inv
<1>4. pc[m] = "in" /\ original[m] = database
    BY <1>1
<1>5. \A u \in Users : pc[u] # "in"
    BY <1>4, MoverAlone
<1> QED BY <1>1, <1>2, <1>3, <1>4, <1>5

\* Every step, of the guard or of a mover's body, preserves the invariant.
THEOREM GraphNext == GraphInv /\ [Next]_vars => GraphInv'
<1> SUFFICES ASSUME GraphInv, [Next]_vars PROVE GraphInv'
    OBVIOUS
<1>1. CASE UNCHANGED vars
  <2>1. Inv' /\ pc' = pc
      BY <1>1, BodyKeepsGuard DEF vars, GraphInv
  <2> QED BY <1>1, <2>1 DEF vars, graphVars, GraphInv, GraphTypeOK, Inv
<1>2. CASE Next
    BY <1>2, BeginTurnInv, EndTurnInv, WaitInv, SwitchInv, BorrowInv, GiveBackInv DEF Next
<1> QED BY <1>1, <1>2

-------------------------------------------------------------------------------
(* The theorems.                                                             *)

\* The inductive invariant always holds.
LEMMA GraphInvHolds == Spec => []GraphInv
<1> QED BY GraphInit, GraphNext, PTL DEF Spec

\* make_graph_guard under the storage calls made in its turns: exclusion, the count,
\* the event, the lock, its queue and the wakeup that is coming, for any tasks.
THEOREM GuardStaysSound == Spec => []GuardIsSound
<1>1. GraphInv => GuardIsSound
    BY InvProperties DEF GraphInv, GuardIsSound
<1> QED BY <1>1, GraphInvHolds, PTL

\* active_graph.py: the active graph does not move while an operation uses it.
THEOREM GraphIsSteady == Spec => []SteadyWhileUsed
<1>1. GraphInv => SteadyWhileUsed
    BY DEF GraphInv, SteadyWhileUsed, UsersIn
<1> QED BY <1>1, GraphInvHolds, PTL

\* surrealdb_adapter.py, _borrowed: what a viz read borrows is given back.
THEOREM BorrowsComeBack == Spec => []BorrowsAreReturned
<1>1. GraphInv => BorrowsAreReturned
    BY DEF GraphInv, BorrowsAreReturned, MoversIn
<1> QED BY <1>1, GraphInvHolds, PTL

-------------------------------------------------------------------------------
(* The guarded graph implements ActiveGraph: each step is one of its steps,  *)
(* or changes nothing it speaks of.                                          *)

\* A backend just constructed maps to an initial state of ActiveGraph.
LEMMA PromiseInit == Init => Promise!Init
BY DEF Init, GuardInit, Promise!Init, TurnOf

\* The first step of a turn is Begin, BeginMove or a stutter.
LEMMA PromiseBegin ==
    ASSUME GraphInv, GraphInv', NEW t \in Tasks, BeginTurn(t)
    PROVE  [Promise!Next]_<<selected, seen, TurnOf>>
<1> USE DEF GraphInv, GraphTypeOK
<1>1. /\ Enter(t) \/ Resume(t)
      /\ seen' = [u \in Users |-> IF u = t THEN selected ELSE seen[u]]
      /\ selected' = selected
    BY DEF BeginTurn
<1>2. CASE t \in Users
  <2>1. pc[t] # "in" /\ TurnOf = NoTask /\ TurnOf' = NoTask
      BY <1>1, <1>2, BeginEffect DEF TurnOf
  <2>2. seen[t] = NoGraph /\ seen' = [seen EXCEPT ![t] = selected]
      BY <1>1, <1>2, <2>1
  <2>3. Promise!Begin(t)
      BY <1>1, <2>1, <2>2 DEF Promise!Begin
  <2> QED BY <1>2, <2>3 DEF Promise!Next
<1>3. CASE t \in Movers
  <2>1. /\ pc'[t] \in {"in", "waiting"} /\ lock' = t /\ t # NoTask
        /\ \A m \in Movers : pc[m] # "in"
        /\ pc'[t] = "in" => \A u \in Users : pc[u] # "in"
      BY <1>1, <1>3, BeginEffect
  <2>2. TurnOf = NoTask
      BY <2>1 DEF TurnOf, Inv, TypeOK
  <2>3. seen' = seen
      BY <1>1, <1>3
  <2>4. CASE pc'[t] = "in"
    <3>1. TurnOf' = t
        BY <2>1, <2>4 DEF TurnOf
    <3>2. \A u \in Users : seen[u] = NoGraph
        BY <2>1, <2>4
    <3>3. Promise!BeginMove(t)
        BY <1>1, <2>2, <2>3, <3>1, <3>2 DEF Promise!BeginMove
    <3> QED BY <1>3, <3>3 DEF Promise!Next
  <2>5. CASE pc'[t] = "waiting"
    <3>1. TurnOf' = NoTask
        BY <2>1, <2>5 DEF TurnOf
    <3> QED BY <1>1, <2>2, <2>3, <3>1
  <2> QED BY <2>1, <2>4, <2>5
<1> QED BY <1>2, <1>3

\* The end of a turn is End or EndMove.
LEMMA PromiseEnd ==
    ASSUME GraphInv, GraphInv', NEW t \in Tasks, EndTurn(t)
    PROVE  [Promise!Next]_<<selected, seen, TurnOf>>
<1> USE DEF GraphInv, GraphTypeOK
<1>1. /\ Leave(t) /\ selected' = selected /\ pc[t] = "in"
      /\ seen' = [u \in Users |-> IF u = t THEN NoGraph ELSE seen[u]]
    BY EndEffect DEF EndTurn
<1>2. CASE t \in Users
  <2>1. TurnOf = NoTask /\ TurnOf' = NoTask
    <3>1. \A m \in Movers : pc[m] # "in"
        BY <1>1, <1>2, MoverAlone
    <3>2. \A m \in Movers : pc'[m] # "in"
        BY <1>1, <1>2, <3>1, EndEffect
    <3> QED BY <3>1, <3>2 DEF TurnOf, Inv, TypeOK
  <2>2. seen[t] # NoGraph /\ seen' = [seen EXCEPT ![t] = NoGraph]
      BY <1>1, <1>2
  <2>3. Promise!End(t)
      BY <1>1, <2>1, <2>2 DEF Promise!End
  <2> QED BY <1>2, <2>3 DEF Promise!Next
<1>3. CASE t \in Movers
  <2>1. TurnOf = t /\ t # NoTask
      BY <1>1, <1>3, MoverAlone DEF TurnOf
  <2>2. lock' = NoTask
      BY <1>1, <1>3 DEF Leave, LeaveUsing, LeaveMoving
  <2>3. Promise!EndMove
      BY <1>1, <1>3, <2>1, <2>2 DEF Promise!EndMove, TurnOf
  <2> QED BY <2>3 DEF Promise!Next
<1> QED BY <1>2, <1>3

\* Queueing and being cancelled are stutters.
LEMMA PromiseWait ==
    ASSUME GraphInv, GraphInv', NEW t \in Tasks, Wait(t)
    PROVE  UNCHANGED <<selected, seen, TurnOf>>
<1> USE DEF GraphInv, GraphTypeOK
<1>1. (Enqueue(t) \/ Cancel(t)) /\ selected' = selected /\ seen' = seen
    BY DEF Wait, graphVars
<1>2. TurnOf' = TurnOf
  <2>1. CASE Enqueue(t) \/ CancelQueued(t)
      BY <2>1 DEF Enqueue, CancelQueued, TurnOf, Inv, TypeOK
  <2>2. CASE CancelWaiting(t)
    <3>1. lock = t /\ lock' = NoTask /\ pc[t] # "in"
        BY <2>2 DEF CancelWaiting, Inv, TurnstileHeld
    <3> QED BY <3>1 DEF TurnOf
  <2> QED BY <1>1, <2>1, <2>2 DEF Cancel
<1> QED BY <1>1, <1>2

\* A switch, a borrow and a giving back are Moves.
LEMMA PromiseMove ==
    ASSUME GraphInv, NEW m \in Movers, pc[m] = "in", NEW g \in Graphs,
           selected' = g, seen' = seen, UNCHANGED guardVars
    PROVE  Promise!Next
<1>1. TurnOf = m /\ m # NoTask /\ TurnOf' = TurnOf
    BY MoverAlone DEF TurnOf, GraphInv, guardVars
<1>2. Promise!Move(g)
    BY <1>1 DEF Promise!Move
<1> QED BY <1>2 DEF Promise!Next

\* Every step of the guarded graph is a step of ActiveGraph or a stutter.
LEMMA PromiseStep ==
    GraphInv /\ GraphInv' /\ [Next]_vars => [Promise!Next]_<<selected, seen, TurnOf>>
<1> SUFFICES ASSUME GraphInv, GraphInv', [Next]_vars
             PROVE  [Promise!Next]_<<selected, seen, TurnOf>>
    OBVIOUS
<1>1. CASE UNCHANGED vars
    BY <1>1 DEF vars, guardVars, graphVars, TurnOf
<1>2. ASSUME NEW t \in Tasks, BeginTurn(t) \/ EndTurn(t) \/ Wait(t)
      PROVE  [Promise!Next]_<<selected, seen, TurnOf>>
    BY <1>2, PromiseBegin, PromiseEnd, PromiseWait
<1>3. ASSUME NEW m \in Movers, NEW g \in Graphs, Switch(m, g) \/ Borrow(m, g)
      PROVE  [Promise!Next]_<<selected, seen, TurnOf>>
    BY <1>3, PromiseMove DEF Switch, Borrow
<1>4. ASSUME NEW m \in Movers, GiveBack(m)
      PROVE  [Promise!Next]_<<selected, seen, TurnOf>>
  <2>1. pc[m] = "in" /\ original[m] \in Graphs
      BY <1>4 DEF GiveBack, GraphInv, GraphTypeOK
  <2> QED BY <1>4, <2>1, PromiseMove DEF GiveBack
<1> QED BY <1>1, <1>2, <1>3, <1>4 DEF Next

\* The guard keeps active_graph.py's promise: every behaviour of the guarded graph
\* is one of ActiveGraph, where a graph moves only while nobody works.
THEOREM GuardKeepsPromise == Spec => ImplementsActiveGraph
<1> QED BY PromiseInit, PromiseStep, GraphInvHolds, PTL
        DEF Spec, ImplementsActiveGraph, Promise!Spec

-------------------------------------------------------------------------------
(* Backups: what a call reads of a graph, and what it leaves of the files.   *)

HIDE DEF Tasks, Places

Steps == {"idle", "nodes", "edges", "settings", "open", "write", "reset", "prune"}

\* The types of the state in full: the domains that TransferTypeOK leaves out.
TransferShape ==
    /\ status \in [Nodes -> Statuses \cup {"none"}]
    /\ edges \in SUBSET (Nodes \X Nodes)
    /\ counter \in Nat /\ unbumped \in Nat
    /\ day \in Days
    /\ files \in [Days -> [state : {"absent", "cut", "whole"}, bundle : Bundles]]
    /\ backup \in [step : Steps, next : 1 .. 4, bundle : Bundles, day : Days, quiet : BOOLEAN]
    /\ backup.step = "nodes" => backup.next \in 1 .. 3
    /\ imports \in [Importers ->
          [pc : {"start", "refused", "check", "switch", "write", "settings",
                 "verify", "drop", "done", "failed", "killed"}, bundle : Bundles]]
    /\ copy \in [there : BOOLEAN,
                 rows : [nodes : SUBSET ((Nodes \cup UserNodes) \X Statuses),
                         edges : SUBSET (Nodes \X Nodes), counter : Nat]]
    /\ IsFiniteSet(copy.rows.nodes)

\* The rows of the statuses asked for so far, of a graph whose nodes have these.
RowsBefore(of, i) == {<<n, of[n]>> : n \in {m \in Nodes : \E j \in 1 .. i - 1 : of[m] = StatusOrder[j]}}

\* What a backup nobody disturbed has read is what the graph holds.
QuietReadsAreTrue ==
    backup.quiet =>
        /\ backup.step = "nodes" => backup.bundle.nodes = RowsBefore(status, backup.next)
        /\ backup.step \in {"edges", "settings", "open", "write"} => backup.bundle.nodes = RowsBefore(status, 4)
        /\ backup.step \in {"settings", "open", "write"} => backup.bundle.edges = edges
        /\ backup.step \in {"open", "write"} => backup.bundle.counter = counter
        /\ backup.step = "reset" =>
              files[backup.day].bundle = [nodes |-> RowsBefore(status, 4), edges |-> edges, counter |-> counter]

\* No bundle is named for a later day than the one a backup under way is named for,
\* and the backup's own is whole from its write to its end.
BackupIsNewest ==
    /\ \A d \in Present : d <= day
    /\ backup.step # "idle" => backup.day <= day /\ \A d \in Present : d <= backup.day
    /\ backup.step \in {"reset", "prune"} => files[backup.day].state = "whole"

BackupInv == TransferShape /\ QuietReadsAreTrue /\ BackupIsNewest

\* The three statuses asked for are all that a stored node can have.
LEMMA RowsBeforeAll ==
    ASSUME TransferShape
    PROVE  /\ RowsBefore(status, 4) = {<<n, status[n]>> : n \in Stored}
           /\ RowsBefore(status, 1) = {} /\ RowsBefore(status', 1) = {}
<1>1. 1 .. 4 - 1 = {1, 2, 3} /\ 1 .. 1 - 1 = {}
    OBVIOUS
<1>2. \A m \in Nodes : (\E j \in {1, 2, 3} : status[m] = StatusOrder[j]) <=> status[m] # "none"
    BY DEF TransferShape, StatusOrder, Statuses
<1> QED BY <1>1, <1>2 DEF RowsBefore, Stored

\* One more query returns the rows of one more status.
LEMMA OneMoreStatus ==
    ASSUME TransferShape, NEW i \in 1 .. 3
    PROVE  RowsBefore(status, i + 1) = RowsBefore(status, i) \cup NodesOf(StatusOrder[i])
<1>1. 1 .. (i + 1) - 1 = (1 .. i - 1) \cup {i}
    OBVIOUS
<1>2. ASSUME NEW r
      PROVE  r \in RowsBefore(status, i + 1) <=> r \in RowsBefore(status, i) \cup NodesOf(StatusOrder[i])
  <2>1. r \in RowsBefore(status, i + 1) <=>
          \E m \in Nodes : r = <<m, status[m]>> /\ \E j \in (1 .. i - 1) \cup {i} : status[m] = StatusOrder[j]
      BY <1>1 DEF RowsBefore
  <2>2. r \in RowsBefore(status, i) <=>
          \E m \in Nodes : r = <<m, status[m]>> /\ \E j \in 1 .. i - 1 : status[m] = StatusOrder[j]
      BY DEF RowsBefore
  <2>3. r \in NodesOf(StatusOrder[i]) <=> \E m \in Nodes : r = <<m, status[m]>> /\ status[m] = StatusOrder[i]
      BY DEF NodesOf
  <2> QED BY <2>1, <2>2, <2>3
<1> QED BY <1>2

\* What a query returns is rows of the graph's nodes.
LEMMA QueryIsRows ==
    ASSUME NEW s \in Statuses
    PROVE  NodesOf(s) \in SUBSET Rows
    BY DEF NodesOf, Rows

LEMMA ShapeInit == TransferInit => TransferShape
<1> SUFFICES ASSUME TransferInit PROVE TransferShape
    OBVIOUS
<1>1. EmptyBundle \in Bundles
    BY DEF EmptyBundle, Bundles
<1>2. IsFiniteSet(copy.rows.nodes)
    BY FS_EmptySet DEF TransferInit, NoCopy, EmptyBundle
<1>3. copy \in [there : BOOLEAN,
                 rows : [nodes : SUBSET ((Nodes \cup UserNodes) \X Statuses),
                         edges : SUBSET (Nodes \X Nodes), counter : Nat]]
    BY DEF TransferInit, NoCopy, EmptyBundle
<1>4. 1 \in Days
    BY TransferAssumption DEF Days
<1>5. backup \in [step : Steps, next : 1 .. 4, bundle : Bundles, day : Days, quiet : BOOLEAN]
    BY <1>1, <1>4 DEF TransferInit, Idle, Steps
<1>6. files \in [Days -> [state : {"absent", "cut", "whole"}, bundle : Bundles]]
    BY <1>1 DEF TransferInit, NoFile, File
<1>7. imports \in [Importers ->
          [pc : {"start", "refused", "check", "switch", "write", "settings",
                 "verify", "drop", "done", "failed", "killed"}, bundle : Bundles]]
    BY <1>1 DEF TransferInit, Waiting
<1> QED BY <1>2, <1>3, <1>4, <1>5, <1>6, <1>7 DEF TransferInit, TransferShape, Idle, Waiting

\* A write disturbs a backup and nothing else of it.
LEMMA DisturbedShape ==
    ASSUME TransferShape
    PROVE  /\ Disturbed \in [step : Steps, next : 1 .. 4, bundle : Bundles, day : Days, quiet : BOOLEAN]
           /\ Disturbed.step = backup.step /\ Disturbed.next = backup.next
           /\ Disturbed.day = backup.day /\ Disturbed.bundle = backup.bundle
           /\ Disturbed.quiet <=> backup.quiet /\ backup.step \notin Reading
    BY DEF TransferShape, Disturbed

LEMMA StoreShape ==
    ASSUME TransferShape, NEW n \in Nodes, Store(n) \/ \E s \in Statuses : Move(n, s)
    PROVE  TransferShape'
<1>1. status' \in [Nodes -> Statuses \cup {"none"}]
    BY DEF TransferShape, Store, Move, Statuses
<1>2. edges' \in SUBSET (Nodes \X Nodes)
    BY DEF TransferShape, Store, Move, Stored
<1>3. unbumped' \in Nat
    BY DEF TransferShape, Store, Move
<1> QED BY <1>1, <1>2, <1>3, DisturbedShape DEF TransferShape, Store, Move

LEMMA BumpShape ==
    ASSUME TransferShape, BumpCounter \/ NextDay
    PROVE  TransferShape'
<1>1. counter' \in Nat /\ unbumped' \in Nat
    BY DEF TransferShape, BumpCounter, NextDay, graph
<1>2. day' \in Days
    BY TransferAssumption DEF TransferShape, BumpCounter, NextDay, Days
<1> QED BY <1>1, <1>2, DisturbedShape DEF TransferShape, BumpCounter, NextDay, graph

LEMMA NoBackupShape ==
    /\ Idle \in [step : Steps, next : 1 .. 4, bundle : Bundles, day : Days, quiet : BOOLEAN]
    /\ Idle.step = "idle" /\ Idle.next = 1 /\ Idle.quiet /\ Idle.bundle = EmptyBundle
<1>1. EmptyBundle \in Bundles
    BY DEF EmptyBundle, Bundles
<1>2. 1 \in Days
    BY TransferAssumption DEF Days
<1> QED BY <1>1, <1>2 DEF Idle, Steps

\* What each step of a backup makes of the call and of the files.
LEMMA BackupStepShape ==
    ASSUME TransferShape, Backup
    PROVE  TransferShape'
<1> USE DEF graph
<1>1. EmptyBundle \in Bundles
    BY DEF EmptyBundle, Bundles
<1>2. /\ status' = status /\ edges' = edges /\ unbumped' = unbumped /\ day' = day
      /\ imports' = imports /\ copy' = copy
    BY DEF Backup, StartBackup, ReadNodes, ReadEdges, ReadSettings, OpenFile, WriteFile,
           BackupFails, ResetCounter, Prune
<1>3. counter' \in Nat
    BY DEF TransferShape, Backup, StartBackup, ReadNodes, ReadEdges, ReadSettings, OpenFile, WriteFile,
           BackupFails, ResetCounter, Prune
<1>4. files' \in [Days -> [state : {"absent", "cut", "whole"}, bundle : Bundles]]
  <2>1. CASE OpenFile \/ WriteFile \/ Prune
      BY <1>1, <2>1 DEF TransferShape, OpenFile, WriteFile, Prune, File, NoFile
  <2>2. CASE StartBackup \/ ReadNodes \/ ReadEdges \/ ReadSettings \/ BackupFails \/ ResetCounter
      BY <2>2 DEF TransferShape, StartBackup, ReadNodes, ReadEdges, ReadSettings, BackupFails, ResetCounter
  <2> QED BY <2>1, <2>2 DEF Backup
<1>5. /\ backup' \in [step : Steps, next : 1 .. 4, bundle : Bundles, day : Days, quiet : BOOLEAN]
      /\ backup'.step = "nodes" => backup'.next \in 1 .. 3
  <2>1. CASE StartBackup
    <3>1. /\ backup' = [Idle EXCEPT !.step = "nodes", !.day = day]
          /\ day \in Days
        BY <2>1 DEF StartBackup, TransferShape
    <3>2. "nodes" \in Steps
        BY DEF Steps
    <3>3. backup' \in [step : Steps, next : 1 .. 4, bundle : Bundles, day : Days, quiet : BOOLEAN]
        BY <3>1, <3>2, NoBackupShape
    <3>4. backup'.next = 1
        BY <3>1, NoBackupShape
    <3> QED BY <3>3, <3>4
  <2>2. CASE ReadNodes
    <3> DEFINE s == StatusOrder[backup.next]
               b == [backup.bundle EXCEPT !.nodes = @ \cup NodesOf(s)]
    <3>1. backup.next \in 1 .. 3 /\ s \in Statuses
        BY <2>2 DEF ReadNodes, TransferShape, StatusOrder, Statuses
    <3>2. b \in Bundles
      <4>1. backup.bundle \in Bundles
          BY DEF TransferShape
      <4>2. backup.bundle.nodes \cup NodesOf(s) \in SUBSET Rows
          BY <3>1, <4>1, QueryIsRows DEF Bundles
      <4> HIDE DEF s
      <4> QED BY <4>1, <4>2 DEF Bundles
    <3>3. backup' = [backup EXCEPT !.bundle = b, !.next = backup.next + 1,
                        !.step = IF backup.next = 3 THEN "edges" ELSE backup.step]
        BY <2>2 DEF ReadNodes, TransferShape, StatusOrder
    <3>4. backup \in [step : Steps, next : 1 .. 4, bundle : Bundles, day : Days, quiet : BOOLEAN]
        BY DEF TransferShape
    <3>5. /\ backup.next + 1 \in 1 .. 4
          /\ (IF backup.next = 3 THEN "edges" ELSE backup.step) \in Steps
          /\ backup.next # 3 => backup.next + 1 \in 1 .. 3
        BY <3>1, <3>4 DEF Steps
    <3> HIDE DEF b
    <3>6. backup' \in [step : Steps, next : 1 .. 4, bundle : Bundles, day : Days, quiet : BOOLEAN]
        BY <3>2, <3>3, <3>4, <3>5
    <3>7. backup'.step = "nodes" => backup'.next \in 1 .. 3
        BY <3>3, <3>4, <3>5
    <3> QED BY <3>6, <3>7
  <2>3. CASE ReadEdges
    <3> DEFINE b == [backup.bundle EXCEPT !.edges = edges]
    <3>1. b \in Bundles
        BY DEF TransferShape, Bundles
    <3>2. backup' = [backup EXCEPT !.step = "settings", !.bundle = b]
        BY <2>3 DEF ReadEdges, TransferShape
    <3> HIDE DEF b
    <3> QED BY <3>1, <3>2 DEF TransferShape, Steps
  <2>4. CASE ReadSettings
    <3> DEFINE b == [backup.bundle EXCEPT !.counter = counter]
    <3>1. b \in Bundles
        BY DEF TransferShape, Bundles
    <3>2. backup' = [backup EXCEPT !.step = "open", !.bundle = b]
        BY <2>4 DEF ReadSettings, TransferShape
    <3> HIDE DEF b
    <3> QED BY <3>1, <3>2 DEF TransferShape, Steps
  <2>5. CASE OpenFile \/ WriteFile \/ ResetCounter
      BY <1>1, <2>5 DEF TransferShape, OpenFile, WriteFile, ResetCounter, Steps
  <2>6. CASE BackupFails \/ Prune
    <3>1. backup' = Idle
        BY <2>6 DEF BackupFails, Prune
    <3> QED BY <3>1, NoBackupShape
  <2> QED BY <2>1, <2>2, <2>3, <2>4, <2>5, <2>6 DEF Backup
<1> QED BY <1>2, <1>3, <1>4, <1>5 DEF TransferShape

LEMMA BundlesAreFinite ==
    ASSUME NEW b \in Bundles
    PROVE  IsFiniteSet(b.nodes) /\ IsFiniteSet(b.edges)
<1>1. IsFiniteSet(Statuses)
  <2>1. IsFiniteSet({"active"})
      BY FS_Singleton
  <2>2. IsFiniteSet({"active"} \cup {"historical"})
      BY <2>1, FS_AddElement
  <2>3. IsFiniteSet(({"active"} \cup {"historical"}) \cup {"archived"})
      BY <2>2, FS_AddElement
  <2>4. Statuses = ({"active"} \cup {"historical"}) \cup {"archived"}
      BY DEF Statuses
  <2> QED BY <2>3, <2>4
<1>2. IsFiniteSet(Rows) /\ IsFiniteSet(Nodes \X Nodes)
    BY <1>1, TransferAssumption, FS_Product DEF Rows
<1> QED BY <1>2, FS_Subset DEF Bundles

\* What an import hands over is a bundle, and what it adds to the copy is rows.
LEMMA ImportStepShape ==
    ASSUME TransferShape, NEW p \in Importers, Import(p)
    PROVE  TransferShape'
<1> USE DEF graph
<1>1. EmptyBundle \in Bundles
    BY DEF EmptyBundle, Bundles
<1>2. /\ status' = status /\ edges' = edges /\ unbumped' = unbumped /\ day' = day
      /\ counter' = counter /\ files' = files /\ backup' = backup
    BY DEF Import, ReadBundle, CheckName, SwitchToCopy, WriteVerbatim, RestoreSettings, Verify,
           ImportFails, DropCopy, Killed
<1>3. imports' \in [Importers ->
          [pc : {"start", "refused", "check", "switch", "write", "settings",
                 "verify", "drop", "done", "failed", "killed"}, bundle : Bundles]]
  <2>1. CASE \E d \in Days : ReadBundle(p, d)
      BY <1>1, <2>1 DEF ReadBundle, TransferShape, Ended, Waiting
  <2>2. CASE CheckName(p)
    <3>1. CASE copy.there
        BY <1>1, <2>2, <3>1 DEF CheckName, TransferShape, Ended, Waiting
    <3>2. CASE ~copy.there
        BY <2>2, <3>2 DEF CheckName, TransferShape
    <3> QED BY <3>1, <3>2
  <2>6. CASE Killed(p)
      BY <1>1, <2>6 DEF Killed, TransferShape, Ended, Waiting
  <2>3. CASE SwitchToCopy(p) \/ RestoreSettings(p) \/ ImportFails(p) \/ DropCopy(p)
      BY <2>3 DEF SwitchToCopy, RestoreSettings, ImportFails, DropCopy, TransferShape
  <2>4. CASE Verify(p)
      BY <2>4 DEF Verify, Verdict, TransferShape
  <2>5. CASE WriteVerbatim(p)
      BY <2>5 DEF WriteVerbatim, TransferShape
  <2> QED BY <2>1, <2>2, <2>3, <2>4, <2>5, <2>6 DEF Import
<1>4. /\ imports[p].bundle \in Bundles
      /\ copy.rows \in [nodes : SUBSET ((Nodes \cup UserNodes) \X Statuses),
                        edges : SUBSET (Nodes \X Nodes), counter : Nat]
      /\ IsFiniteSet(copy.rows.nodes)
    BY DEF TransferShape
<1>5. IsFiniteSet(imports[p].bundle.nodes)
    BY <1>4, BundlesAreFinite
<1>6. /\ copy' \in [there : BOOLEAN,
                 rows : [nodes : SUBSET ((Nodes \cup UserNodes) \X Statuses),
                         edges : SUBSET (Nodes \X Nodes), counter : Nat]]
      /\ IsFiniteSet(copy'.rows.nodes)
  <2>1. CASE WriteVerbatim(p)
    <3> DEFINE b == imports[p].bundle
    <3>1. CASE Insertable(b)
      <4>0. copy' = [copy EXCEPT !.there = TRUE, !.rows.nodes = @ \cup b.nodes,
                                                !.rows.edges = @ \cup b.edges]
          BY <2>1, <3>1 DEF WriteVerbatim
      <4>1. copy' = [there |-> TRUE, rows |-> [nodes |-> copy.rows.nodes \cup b.nodes,
                                               edges |-> copy.rows.edges \cup b.edges,
                                               counter |-> copy.rows.counter]]
        <5> HIDE DEF b
        <5> QED BY <4>0 DEF TransferShape
      <4>2. /\ copy.rows.nodes \cup b.nodes \in SUBSET ((Nodes \cup UserNodes) \X Statuses)
            /\ copy.rows.edges \cup b.edges \in SUBSET (Nodes \X Nodes)
          BY <1>4 DEF Bundles, Rows
      <4>3. IsFiniteSet(copy.rows.nodes \cup b.nodes)
          BY <1>4, <1>5, FS_Union
      <4> HIDE DEF b
      <4> QED BY <1>4, <4>1, <4>2, <4>3 DEF TransferShape
    <3>2. CASE ~Insertable(b)
        BY <2>1, <3>2 DEF WriteVerbatim, TransferShape
    <3> QED BY <3>1, <3>2
  <2>2. CASE RestoreSettings(p)
    <3>1. imports[p].bundle.counter \in Nat
        BY <1>4 DEF Bundles
    <3>2. /\ copy' = [copy EXCEPT !.there = TRUE, !.rows =
                          [copy.rows EXCEPT !.counter = imports[p].bundle.counter]]
          /\ copy'.rows.nodes = copy.rows.nodes
        BY <1>4, <2>2 DEF RestoreSettings, TransferShape
    <3> QED BY <1>4, <3>1, <3>2 DEF TransferShape
  <2>3. CASE SwitchToCopy(p)
      BY <2>3 DEF SwitchToCopy, TransferShape
  <2>4. CASE DropCopy(p)
      BY <2>4, FS_EmptySet DEF DropCopy, NoCopy, EmptyBundle
  <2>5. CASE (\E d \in Days : ReadBundle(p, d)) \/ CheckName(p) \/ Verify(p) \/ ImportFails(p) \/ Killed(p)
      BY <2>5 DEF ReadBundle, CheckName, Verify, ImportFails, Killed, TransferShape
  <2> QED BY <2>1, <2>2, <2>3, <2>4, <2>5 DEF Import
<1> QED BY <1>2, <1>3, <1>6 DEF TransferShape

LEMMA UserStepShape ==
    ASSUME TransferShape, NEW x \in UserNodes, WorkInCopy(x)
    PROVE  TransferShape'
<1> DEFINE r == <<x, "active">>
<1>1. r \in (Nodes \cup UserNodes) \X Statuses
    BY DEF Statuses
<1>2. /\ copy' = [copy EXCEPT !.there = TRUE, !.rows =
                      [copy.rows EXCEPT !.nodes = copy.rows.nodes \cup {r}]]
      /\ copy'.rows.nodes = copy.rows.nodes \cup {r}
    BY DEF WorkInCopy, TransferShape
<1>3. IsFiniteSet(copy.rows.nodes \cup {r})
    BY FS_AddElement DEF TransferShape
<1> HIDE DEF r
<1>4. copy' \in [there : BOOLEAN,
                 rows : [nodes : SUBSET ((Nodes \cup UserNodes) \X Statuses),
                         edges : SUBSET (Nodes \X Nodes), counter : Nat]]
    BY <1>1, <1>2 DEF TransferShape
<1> QED BY <1>2, <1>3, <1>4 DEF TransferShape, WorkInCopy, graph

LEMMA ShapeNext ==
    ASSUME TransferShape, [TransferNext]_transferVars
    PROVE  TransferShape'
<1>1. CASE UNCHANGED transferVars
    BY <1>1 DEF TransferShape, transferVars, graph
<1>2. CASE TransferNext
    BY <1>2, StoreShape, BumpShape, BackupStepShape, ImportStepShape, UserStepShape DEF TransferNext
<1> QED BY <1>1, <1>2

\* What a backup reads and where it writes, step by step.
LEMMA BackupStep ==
    ASSUME TransferShape, Backup
    PROVE  /\ status' = status /\ edges' = edges /\ day' = day
           /\ \/ StartBackup /\ backup'.step = "nodes" /\ backup'.next = 1 /\ backup'.bundle.nodes = {}
                 /\ backup'.day = day /\ files' = files
              \/ /\ ReadNodes /\ backup'.next = backup.next + 1 /\ backup.next \in 1 .. 3
                 /\ backup'.step = (IF backup.next = 3 THEN "edges" ELSE "nodes")
                 /\ backup'.bundle.nodes = backup.bundle.nodes \cup NodesOf(StatusOrder[backup.next])
                 /\ backup'.day = backup.day /\ backup'.quiet = backup.quiet /\ files' = files
              \/ /\ ReadEdges /\ backup'.step = "settings" /\ backup'.bundle.edges = edges
                 /\ backup'.bundle.nodes = backup.bundle.nodes
                 /\ backup'.day = backup.day /\ backup'.quiet = backup.quiet /\ files' = files
              \/ /\ ReadSettings /\ backup'.step = "open" /\ backup'.bundle.counter = counter
                 /\ backup'.bundle.nodes = backup.bundle.nodes /\ counter' = counter
                 /\ backup'.bundle.edges = backup.bundle.edges
                 /\ backup'.day = backup.day /\ backup'.quiet = backup.quiet /\ files' = files
              \/ /\ OpenFile /\ backup'.step = "write" /\ backup'.bundle = backup.bundle
                 /\ backup'.day = backup.day /\ backup'.quiet = backup.quiet /\ counter' = counter
                 /\ files' = [files EXCEPT ![backup.day] = File("cut", EmptyBundle)]
              \/ /\ WriteFile /\ backup'.step = "reset" /\ counter' = counter
                 /\ backup'.day = backup.day /\ backup'.quiet = backup.quiet
                 /\ files' = [files EXCEPT ![backup.day] = File("whole", backup.bundle)]
              \/ /\ ResetCounter /\ backup'.step = "prune" /\ backup'.day = backup.day /\ files' = files
              \/ /\ BackupFails /\ backup'.step = "idle" /\ files' = files
              \/ /\ Prune /\ backup'.step = "idle"
                 /\ files' = [d \in Days |-> IF d \in Stale(Present, Keep) THEN NoFile ELSE files[d]]
<1> USE DEF graph
<1>1. status' = status /\ edges' = edges /\ day' = day
    BY DEF Backup, StartBackup, ReadNodes, ReadEdges, ReadSettings, OpenFile, WriteFile,
           BackupFails, ResetCounter, Prune
<1>2. CASE StartBackup
  <2>1. backup' = [Idle EXCEPT !.step = "nodes", !.day = day] /\ files' = files
      BY <1>2 DEF StartBackup
  <2>2. backup'.step = "nodes" /\ backup'.next = 1 /\ backup'.bundle = EmptyBundle /\ backup'.day = day
      BY <2>1, NoBackupShape
  <2> QED BY <1>1, <1>2, <2>1, <2>2 DEF EmptyBundle
<1>3. CASE ReadNodes
  <2> DEFINE s == StatusOrder[backup.next]
  <2>1. backup.next \in 1 .. 3 /\ backup.step = "nodes" /\ Len(StatusOrder) = 3
      BY <1>3 DEF ReadNodes, TransferShape, StatusOrder
  <2>2. /\ backup' = [backup EXCEPT
                        !.bundle.nodes = @ \cup NodesOf(s),
                        !.next = @ + 1,
                        !.step = IF backup.next = Len(StatusOrder) THEN "edges" ELSE @]
        /\ files' = files
      BY <1>3 DEF ReadNodes
  <2> HIDE DEF s
  <2>3. /\ backup'.next = backup.next + 1
        /\ backup'.step = (IF backup.next = 3 THEN "edges" ELSE "nodes")
        /\ backup'.day = backup.day /\ backup'.quiet = backup.quiet
        /\ backup'.bundle = [backup.bundle EXCEPT !.nodes = @ \cup NodesOf(s)]
      BY <2>1, <2>2 DEF TransferShape
  <2>4. backup'.bundle.nodes = backup.bundle.nodes \cup NodesOf(s)
      BY <2>3 DEF TransferShape, Bundles
  <2> QED BY <1>1, <1>3, <2>1, <2>2, <2>3, <2>4 DEF s
<1>4. CASE ReadEdges
  <2>1. backup' = [backup EXCEPT !.step = "settings", !.bundle.edges = edges] /\ files' = files
      BY <1>4 DEF ReadEdges
  <2>2. /\ backup'.step = "settings" /\ backup'.day = backup.day /\ backup'.quiet = backup.quiet
        /\ backup'.bundle = [backup.bundle EXCEPT !.edges = edges]
      BY <2>1 DEF TransferShape
  <2>3. backup'.bundle.edges = edges /\ backup'.bundle.nodes = backup.bundle.nodes
      BY <2>2 DEF TransferShape, Bundles
  <2> QED BY <1>1, <1>4, <2>1, <2>2, <2>3
<1>5. CASE ReadSettings
  <2>1. backup' = [backup EXCEPT !.step = "open", !.bundle.counter = counter] /\ files' = files
        /\ counter' = counter
      BY <1>5 DEF ReadSettings
  <2>2. /\ backup'.step = "open" /\ backup'.day = backup.day /\ backup'.quiet = backup.quiet
        /\ backup'.bundle = [backup.bundle EXCEPT !.counter = counter]
      BY <2>1 DEF TransferShape
  <2>3. /\ backup'.bundle.counter = counter /\ backup'.bundle.nodes = backup.bundle.nodes
        /\ backup'.bundle.edges = backup.bundle.edges
      BY <2>2 DEF TransferShape, Bundles
  <2> QED BY <1>1, <1>5, <2>1, <2>2, <2>3
<1>6. CASE OpenFile
    BY <1>1, <1>6 DEF OpenFile, TransferShape
<1>7. CASE WriteFile
    BY <1>1, <1>7 DEF WriteFile, TransferShape
<1>8. CASE ResetCounter
    BY <1>1, <1>8 DEF ResetCounter, TransferShape
<1>9. CASE BackupFails \/ Prune
    BY <1>1, <1>9, NoBackupShape DEF BackupFails, Prune
<1> QED BY <1>2, <1>3, <1>4, <1>5, <1>6, <1>7, <1>8, <1>9 DEF Backup

\* Steps that write the graph leave no backup that was reading it undisturbed, and
\* those of the imports and the clock touch neither.
LEMMA OtherStep ==
    ASSUME TransferShape, [TransferNext]_transferVars, ~Backup
    PROVE  /\ files' = files /\ day \in Nat /\ day' \in Nat /\ day <= day'
           /\ backup'.step = backup.step /\ backup'.day = backup.day
           /\ backup'.next = backup.next /\ backup'.bundle = backup.bundle
           /\ (backup'.quiet /\ backup.step \in Reading) =>
                 /\ backup.quiet /\ status' = status /\ edges' = edges /\ counter' = counter
<1> USE DEF graph
<1>1. day \in Nat
    BY TransferAssumption DEF TransferShape, Days
<1>2. ASSUME NEW n \in Nodes, NEW s \in Statuses, Store(n) \/ Move(n, s) \/ BumpCounter
      PROVE  files' = files /\ day' = day /\ backup' = Disturbed
    BY <1>2 DEF Store, Move, BumpCounter
<1>3. ASSUME BumpCounter
      PROVE  files' = files /\ day' = day /\ backup' = Disturbed
    BY <1>3 DEF BumpCounter
<1>4. ASSUME NEW p \in Importers, Import(p)
      PROVE  /\ files' = files /\ day' = day /\ backup' = backup
             /\ status' = status /\ edges' = edges /\ counter' = counter
    BY <1>4 DEF Import, ReadBundle, CheckName, SwitchToCopy, WriteVerbatim, RestoreSettings, Verify,
                ImportFails, DropCopy, Killed
<1>5. ASSUME NEW x \in UserNodes, WorkInCopy(x)
      PROVE  /\ files' = files /\ day' = day /\ backup' = backup
             /\ status' = status /\ edges' = edges /\ counter' = counter
    BY <1>5 DEF WorkInCopy
<1>6. ASSUME NextDay
      PROVE  /\ files' = files /\ day' = day + 1 /\ backup' = backup
             /\ status' = status /\ edges' = edges /\ counter' = counter
    BY <1>6 DEF NextDay
<1>7. ASSUME UNCHANGED transferVars
      PROVE  /\ files' = files /\ day' = day /\ backup' = backup
             /\ status' = status /\ edges' = edges /\ counter' = counter
    BY <1>7 DEF transferVars
<1>8. ASSUME NEW n \in Nodes, Store(n)
      PROVE  files' = files /\ day' = day /\ backup' = Disturbed
    BY <1>8 DEF Store
<1>9. \/ /\ files' = files /\ day' \in {day, day + 1} /\ backup' = backup
         /\ status' = status /\ edges' = edges /\ counter' = counter
      \/ files' = files /\ day' = day /\ backup' = Disturbed
    BY <1>2, <1>3, <1>4, <1>5, <1>6, <1>7, <1>8 DEF TransferNext
<1>10. /\ Disturbed.step = backup.step /\ Disturbed.next = backup.next
       /\ Disturbed.day = backup.day /\ Disturbed.bundle = backup.bundle
       /\ Disturbed.quiet <=> backup.quiet /\ backup.step \notin Reading
    BY DisturbedShape
<1>11. backup.quiet \in BOOLEAN
    BY DEF TransferShape
<1>12. CASE /\ files' = files /\ day' \in {day, day + 1} /\ backup' = backup
            /\ status' = status /\ edges' = edges /\ counter' = counter
    BY <1>1, <1>12
<1>13. CASE files' = files /\ day' = day /\ backup' = Disturbed
    BY <1>1, <1>10, <1>13
<1> QED BY <1>9, <1>12, <1>13

LEMMA QuietNext ==
    ASSUME TransferShape, QuietReadsAreTrue, [TransferNext]_transferVars
    PROVE  QuietReadsAreTrue'
<1>1. CASE ~Backup
  <2>1. backup'.step = backup.step /\ backup'.next = backup.next /\ backup'.bundle = backup.bundle
        /\ files' = files /\ backup'.day = backup.day
      BY <1>1, OtherStep
  <2>2. CASE backup'.quiet /\ backup.step \in Reading
    <3>1. backup.quiet /\ status' = status /\ edges' = edges /\ counter' = counter
        BY <1>1, <2>2, OtherStep
    <3> QED BY <2>1, <2>2, <3>1 DEF QuietReadsAreTrue
  <2>3. CASE backup.step \notin Reading
      BY <2>1, <2>3 DEF QuietReadsAreTrue, Reading
  <2>4. CASE ~backup'.quiet
      BY <2>4 DEF QuietReadsAreTrue
  <2> QED BY <2>2, <2>3, <2>4
<1>2. CASE Backup
  <2>1. status' = status /\ edges' = edges
      BY <1>2, BackupStep
  <2>2. CASE StartBackup /\ backup'.step = "nodes" /\ backup'.next = 1 /\ backup'.bundle.nodes = {}
      BY <2>1, <2>2, RowsBeforeAll DEF QuietReadsAreTrue
  <2>3. CASE /\ ReadNodes /\ backup'.next = backup.next + 1 /\ backup.next \in 1 .. 3
             /\ backup'.step = (IF backup.next = 3 THEN "edges" ELSE "nodes")
             /\ backup'.bundle.nodes = backup.bundle.nodes \cup NodesOf(StatusOrder[backup.next])
             /\ backup'.quiet = backup.quiet
    <3>1. RowsBefore(status, backup.next + 1) = RowsBefore(status, backup.next) \cup NodesOf(StatusOrder[backup.next])
        BY <2>3, OneMoreStatus
    <3>2. backup.step = "nodes"
        BY <2>3 DEF ReadNodes
    <3>3. CASE backup.quiet
      <4>1. backup'.bundle.nodes = RowsBefore(status, backup'.next)
          BY <2>3, <3>1, <3>2, <3>3 DEF QuietReadsAreTrue
      <4>2. backup.next = 3 => backup'.next = 4
          BY <2>3
      <4> QED BY <2>1, <2>3, <4>1, <4>2 DEF QuietReadsAreTrue
    <3>4. CASE ~backup.quiet
        BY <2>3, <3>4 DEF QuietReadsAreTrue
    <3> QED BY <3>3, <3>4
  <2>4. CASE /\ ReadEdges /\ backup'.step = "settings" /\ backup'.bundle.edges = edges
             /\ backup'.bundle.nodes = backup.bundle.nodes /\ backup'.quiet = backup.quiet
      BY <2>1, <2>4 DEF QuietReadsAreTrue, ReadEdges
  <2>5. CASE /\ ReadSettings /\ backup'.step = "open" /\ backup'.bundle.counter = counter
             /\ backup'.bundle.nodes = backup.bundle.nodes /\ counter' = counter
             /\ backup'.bundle.edges = backup.bundle.edges /\ backup'.quiet = backup.quiet
      BY <2>1, <2>5 DEF QuietReadsAreTrue, ReadSettings
  <2>6. CASE /\ OpenFile /\ backup'.step = "write" /\ backup'.bundle = backup.bundle
             /\ backup'.quiet = backup.quiet /\ counter' = counter
      BY <2>1, <2>6 DEF QuietReadsAreTrue, OpenFile
  <2>7. CASE /\ WriteFile /\ backup'.step = "reset" /\ counter' = counter
             /\ backup'.day = backup.day /\ backup'.quiet = backup.quiet
             /\ files' = [files EXCEPT ![backup.day] = File("whole", backup.bundle)]
    <3>1. files'[backup.day].bundle = backup.bundle
        BY <2>7 DEF TransferShape, File
    <3>2. backup.bundle = [nodes |-> backup.bundle.nodes, edges |-> backup.bundle.edges,
                           counter |-> backup.bundle.counter]
        BY DEF TransferShape, Bundles
    <3>3. CASE backup.quiet
      <4>1. /\ backup.bundle.nodes = RowsBefore(status, 4)
            /\ backup.bundle.edges = edges /\ backup.bundle.counter = counter
          BY <2>7, <3>3 DEF QuietReadsAreTrue, WriteFile
      <4> QED BY <2>1, <2>7, <3>1, <3>2, <4>1 DEF QuietReadsAreTrue
    <3>4. CASE ~backup.quiet
        BY <2>7, <3>4 DEF QuietReadsAreTrue
    <3> QED BY <3>3, <3>4
  <2>8. CASE backup'.step \in {"idle", "prune"}
      BY <2>8 DEF QuietReadsAreTrue
  <2> QED BY <1>2, <2>2, <2>3, <2>4, <2>5, <2>6, <2>7, <2>8, BackupStep
<1> QED BY <1>1, <1>2

\* Days that are not none have a first.
LEMMA LeastDay ==
    ASSUME NEW S \in SUBSET Nat, S # {}
    PROVE  \E m \in S : \A e \in S : m <= e
<1> DEFINE R == OpToRel(<, Nat)
<1>1. IsWellFoundedOn(R, Nat)
    BY NatLessThanWellFounded
<1>2. \A u, t \in Nat : u < t => <<u, t>> \in R
    BY DEF OpToRel
<1> HIDE DEF R
<1>3. PICK m \in S : \A e \in S : <<e, m>> \notin R
    BY <1>1, WFMin
<1>4. \A e \in S : ~(e < m) /\ e \in Nat /\ m \in Nat
    BY <1>2, <1>3
<1> QED BY <1>4

\* stale_bundles spares the newest bundle, and all but keep are stale.
LEMMA StaleSparesNewest ==
    ASSUME NEW present \in SUBSET Days, NEW keep \in Nat \ {0}
    PROVE  /\ \A d \in present : (\A e \in present : e <= d) => d \notin Stale(present, keep)
           /\ Cardinality(present \ Stale(present, keep)) <= keep
<1> DEFINE After(d) == {e \in present : e > d}
           kept == present \ Stale(present, keep)
<1>1. Days \subseteq Nat /\ IsFiniteSet(Days)
    BY TransferAssumption, FS_Interval DEF Days
<1>2. IsFiniteSet(present)
    BY <1>1, FS_Subset
<1>3. \A d \in present : IsFiniteSet(After(d)) /\ Cardinality(After(d)) \in Nat
    BY <1>2, FS_Subset, FS_CardinalityType
<1>4. ASSUME NEW d \in present, \A e \in present : e <= d
      PROVE  d \notin Stale(present, keep)
  <2>1. \A e \in present : e \in Nat
      BY <1>1
  <2>2. d \in Nat /\ \A e \in present : ~(e > d)
      BY <1>4, <2>1
  <2>3. {e \in present : e > d} = {}
      BY <2>2
  <2>4. Cardinality({e \in present : e > d}) = 0
      BY <2>3, FS_EmptySet
  <2> QED BY <2>4 DEF Stale
<1>5. Cardinality(kept) <= keep
  <2>1. CASE kept = {}
      BY <2>1, FS_EmptySet
  <2>2. CASE kept # {}
    <3>0. kept \in SUBSET Nat
        BY <1>1
    <3>1. PICK m \in kept : \A e \in kept : m <= e
        BY <2>2, <3>0, LeastDay
    <3>2. \A e \in kept : e = m \/ e > m
        BY <3>0, <3>1
    <3>3. kept \subseteq After(m) \cup {m}
        BY <3>2
    <3>4. Cardinality(After(m)) < keep
      <4>1. m \notin Stale(present, keep) /\ m \in present /\ keep \in Nat
          OBVIOUS
      <4>2. ~(Cardinality(After(m)) >= keep)
          BY <4>1 DEF Stale
      <4>3. Cardinality(After(m)) \in Nat
          BY <1>3, <4>1
      <4> QED BY <4>1, <4>2, <4>3
    <3>5. /\ IsFiniteSet(After(m) \cup {m})
          /\ Cardinality(After(m) \cup {m}) = Cardinality(After(m)) + 1
      <4>1. m \notin After(m)
          BY <3>0
      <4>2. IsFiniteSet(After(m))
          BY <1>3
      <4> HIDE DEF After
      <4> QED BY <4>1, <4>2, FS_AddElement
    <3>6. Cardinality(kept) <= Cardinality(After(m) \cup {m}) /\ Cardinality(kept) \in Nat
        BY <3>3, <3>5, FS_Subset, FS_CardinalityType
    <3> QED BY <1>3, <3>4, <3>5, <3>6
  <2> QED BY <2>1, <2>2
<1> QED BY <1>4, <1>5

\* What is present once the older bundles are pruned.
LEMMA PresentAfterPrune ==
    ASSUME TransferShape, Prune
    PROVE  Present' = Present \ Stale(Present, Keep)
<1>1. files' = [d \in Days |-> IF d \in Stale(Present, Keep) THEN NoFile ELSE files[d]]
    BY DEF Prune
<1>2. NoFile.state = "absent"
    BY DEF NoFile, File
<1>3. ASSUME NEW d \in Days
      PROVE  files'[d].state # "absent" <=> d \notin Stale(Present, Keep) /\ files[d].state # "absent"
  <2>1. CASE d \in Stale(Present, Keep)
      BY <1>1, <1>2, <2>1
  <2>2. CASE d \notin Stale(Present, Keep)
      BY <1>1, <2>2
  <2> QED BY <2>1, <2>2
<1> QED BY <1>3 DEF Present

LEMMA NewestNext ==
    ASSUME TransferShape, BackupIsNewest, [TransferNext]_transferVars
    PROVE  BackupIsNewest'
<1>0. day \in Nat /\ backup.day \in Nat /\ \A d \in Present : d \in Nat
    BY TransferAssumption DEF TransferShape, Days, Present
<1>1. CASE ~Backup
  <2>1. /\ files' = files /\ day' \in Nat /\ day <= day'
        /\ backup'.step = backup.step /\ backup'.day = backup.day
      BY <1>1, OtherStep
  <2>2. Present' = Present
      BY <2>1 DEF Present
  <2> QED BY <1>0, <2>1, <2>2 DEF BackupIsNewest
<1>2. CASE Backup
  <2>1. day' = day
      BY <1>2, BackupStep
  <2>2. CASE ~(OpenFile \/ WriteFile \/ Prune)
    <3>0. files' = files
        BY <1>2, <2>2 DEF Backup, StartBackup, ReadNodes, ReadEdges, ReadSettings, BackupFails, ResetCounter
    <3>1. Present' = Present
        BY <3>0 DEF Present
    <3>2. CASE backup'.step = "idle"
        BY <2>1, <3>1, <3>2 DEF BackupIsNewest
    <3>3. CASE StartBackup /\ backup'.step = "nodes" /\ backup'.day = day
        BY <1>0, <2>1, <3>1, <3>3 DEF BackupIsNewest
    <3>4. CASE backup.step # "idle" /\ backup'.day = backup.day /\ backup'.step \notin {"reset", "prune"}
        BY <2>1, <3>1, <3>4 DEF BackupIsNewest
    <3>5. CASE ResetCounter /\ backup'.step = "prune" /\ backup'.day = backup.day
        BY <2>1, <3>0, <3>1, <3>5 DEF BackupIsNewest, ResetCounter
    <3>7. CASE ReadNodes \/ ReadEdges \/ ReadSettings
        BY <1>2, <3>4, <3>7, BackupStep DEF ReadNodes, ReadEdges, ReadSettings, TransferShape
    <3>8. CASE StartBackup \/ ResetCounter \/ BackupFails \/ Prune
      <4>1. \/ StartBackup /\ backup'.step = "nodes" /\ backup'.day = day
            \/ ResetCounter /\ backup'.step = "prune" /\ backup'.day = backup.day
            \/ backup'.step = "idle"
          BY <3>8, NoBackupShape DEF StartBackup, ResetCounter, BackupFails, Prune, TransferShape
      <4> QED BY <3>2, <3>3, <3>5, <4>1
    <3> QED BY <1>2, <2>2, <3>7, <3>8 DEF Backup
  <2>3. CASE OpenFile \/ WriteFile
    <3>1. /\ backup'.day = backup.day /\ backup.step \notin {"idle", "reset", "prune"}
          /\ \A d \in Days : d # backup.day => files'[d] = files[d]
          /\ \/ backup'.step = "write"
             \/ backup'.step = "reset" /\ files'[backup.day].state = "whole"
      <4>1. CASE OpenFile
        <5>1. backup' = [backup EXCEPT !.step = "write"] /\ backup.step = "open"
            BY <4>1 DEF OpenFile
        <5>2. backup'.day = backup.day /\ backup'.step = "write"
            BY <5>1 DEF TransferShape
        <5>3. \A d \in Days : d # backup.day => files'[d] = files[d]
            BY <4>1 DEF OpenFile, TransferShape
        <5>4. backup.step \notin {"idle", "reset", "prune"}
            BY <5>1
        <5> QED BY <5>2, <5>3, <5>4
      <4>2. CASE WriteFile
          BY <4>2 DEF WriteFile, TransferShape, File
      <4> QED BY <2>3, <4>1, <4>2
    <3>2. \A d \in Present' : d \in Present \/ d = backup.day
        BY <3>1 DEF Present
    <3> QED BY <1>0, <2>1, <3>1, <3>2 DEF BackupIsNewest
  <2>5. CASE Prune
    <3>1. Present' \subseteq Present /\ backup'.step = "idle"
        BY <1>2, <2>5, PresentAfterPrune, NoBackupShape DEF Prune
    <3> QED BY <2>1, <3>1 DEF BackupIsNewest
  <2> QED BY <2>2, <2>3, <2>5
<1> QED BY <1>1, <1>2

LEMMA BackupInvInit == TransferInit => BackupInv
<1> SUFFICES ASSUME TransferInit PROVE BackupInv
    OBVIOUS
<1>1. backup.step = "idle" /\ Present = {}
    BY NoBackupShape DEF TransferInit, Present, NoFile, File
<1> QED BY <1>1, ShapeInit DEF BackupInv, QuietReadsAreTrue, BackupIsNewest

LEMMA BackupInvNext ==
    ASSUME BackupInv, [TransferNext]_transferVars
    PROVE  BackupInv'
    BY ShapeNext, QuietNext, NewestNext DEF BackupInv

LEMMA BackupInvImplies ==
    BackupInv => TransferTypeOK /\ QuietBackupIsWhole
<1> SUFFICES ASSUME BackupInv PROVE TransferTypeOK /\ QuietBackupIsWhole
    OBVIOUS
<1>1. TransferTypeOK
  <2>1. Len(StatusOrder) = 3
      BY DEF StatusOrder
  <2>2. backup \in [step : Steps, next : 1 .. 4, bundle : Bundles, day : Days, quiet : BOOLEAN]
      BY DEF BackupInv, TransferShape
  <2>3. 1 .. Len(StatusOrder) + 1 = 1 .. 4
      BY <2>1
  <2> QED BY <2>2, <2>3 DEF BackupInv, TransferShape, TransferTypeOK, Steps
<1>2. QuietBackupIsWhole
    BY RowsBeforeAll DEF BackupInv, QuietReadsAreTrue, QuietBackupIsWhole
<1> QED BY <1>1, <1>2

\* A backup that ends well spares its own bundle and leaves Keep at most.
LEMMA PruneStep ==
    ASSUME BackupInv, [TransferNext]_transferVars, backup.step = "prune", backup'.step = "idle"
    PROVE  /\ files'[backup.day].state = "whole"
           /\ Cardinality({d \in Days : files'[d].state # "absent"}) <= Keep
<1>1. Prune
  <2>1. Backup
      BY OtherStep DEF BackupInv
  <2> QED BY <2>1 DEF Backup, StartBackup, ReadNodes, ReadEdges, ReadSettings, OpenFile, WriteFile,
                      BackupFails, ResetCounter
<1>2. /\ backup.day \in Present /\ files[backup.day].state = "whole"
      /\ \A e \in Present : e <= backup.day
    BY DEF BackupInv, TransferShape, BackupIsNewest, Present
<1>3. Present \in SUBSET Days
    BY DEF Present
<1>4. /\ backup.day \notin Stale(Present, Keep)
      /\ Cardinality(Present \ Stale(Present, Keep)) <= Keep
    BY <1>2, <1>3, TransferAssumption, StaleSparesNewest
<1>5. files'[backup.day] = files[backup.day]
    BY <1>1, <1>4 DEF Prune, BackupInv, TransferShape
<1>6. {d \in Days : files'[d].state # "absent"} = Present \ Stale(Present, Keep)
    BY <1>1, PresentAfterPrune DEF Present, BackupInv
<1> QED BY <1>2, <1>4, <1>5, <1>6

THEOREM BackupsAreTyped == TransferSpec => []TransferTypeOK
<1>1. TransferSpec => []BackupInv
    BY BackupInvInit, BackupInvNext, PTL DEF TransferSpec
<1> QED BY <1>1, BackupInvImplies, PTL

\* A backup nobody wrote to the graph under holds the whole of it.
THEOREM QuietBackupsAreWhole == TransferSpec => []QuietBackupIsWhole
<1>1. TransferSpec => []BackupInv
    BY BackupInvInit, BackupInvNext, PTL DEF TransferSpec
<1> QED BY <1>1, BackupInvImplies, PTL

\* The pruning spares the bundle just written.
THEOREM PrunesSpareTheNewest == TransferSpec => PruneSparesTheNewest
<1>1. TransferSpec => []BackupInv
    BY BackupInvInit, BackupInvNext, PTL DEF TransferSpec
<1>2. BackupInv /\ [TransferNext]_transferVars =>
          [backup.step = "prune" /\ backup'.step = "idle" =>
             /\ files'[backup.day].state = "whole"
             /\ Cardinality({d \in Days : files'[d].state # "absent"}) <= Keep]_transferVars
    BY PruneStep
<1> QED BY <1>1, <1>2, PTL DEF TransferSpec, PruneSparesTheNewest

-------------------------------------------------------------------------------
(* One import at a time, and the server's user in the graph it creates.      *)

OneImporter == \A p, q \in Importers : p = q

\* What the server's user can have stored in the copy.
UserRows == UserNodes \X {"active"}

\* Until the import has written, and once its cleanup has run, the copy holds what
\* the user stored; in between it holds the bundle besides, and the bundle's edges.
CopyIsTheImports ==
    \A p \in Importers :
        /\ imports[p].pc \in {"start", "check", "switch", "write", "refused", "failed"} =>
              copy.rows.nodes \subseteq UserRows /\ copy.rows.edges = {}
        /\ imports[p].pc \in {"settings", "verify"} =>
              /\ imports[p].bundle.nodes \subseteq copy.rows.nodes
              /\ copy.rows.nodes \ imports[p].bundle.nodes \subseteq UserRows
              /\ copy.rows.edges = imports[p].bundle.edges

ImportInv == TransferShape /\ CopyIsTheImports

\* The user's step adds one row of the user's.
LEMMA UserStep ==
    ASSUME TransferShape, NEW x \in UserNodes, WorkInCopy(x)
    PROVE  /\ copy'.rows.nodes = copy.rows.nodes \cup {<<x, "active">>}
           /\ copy'.rows.edges = copy.rows.edges /\ imports' = imports
           /\ <<x, "active">> \in UserRows
    BY DEF TransferShape, WorkInCopy, UserRows

LEMMA CopyNext ==
    ASSUME ImportInv, [TransferNext]_transferVars, OneImporter
    PROVE  CopyIsTheImports'
<1> USE DEF ImportInv
<1>1. CASE copy' = copy /\ imports' = imports
    BY <1>1 DEF CopyIsTheImports
<1>2. ASSUME NEW x \in UserNodes, WorkInCopy(x)
      PROVE  CopyIsTheImports'
    BY <1>2, UserStep DEF CopyIsTheImports
<1>3. ASSUME NEW p \in Importers, Import(p)
      PROVE  CopyIsTheImports'
  <2> DEFINE b == imports[p].bundle
  <2>0. /\ Importers = {p}
        /\ imports[p] \in [pc : {"start", "refused", "check", "switch", "write", "settings",
                                "verify", "drop", "done", "failed", "killed"}, bundle : Bundles]
        /\ DOMAIN imports = Importers
        /\ copy \in [there : BOOLEAN,
                     rows : [nodes : SUBSET ((Nodes \cup UserNodes) \X Statuses),
                             edges : SUBSET (Nodes \X Nodes), counter : Nat]]
      BY <1>3 DEF OneImporter, TransferShape
  <2>1. SUFFICES
          /\ imports'[p].pc \in {"start", "check", "switch", "write", "refused", "failed"} =>
                copy'.rows.nodes \subseteq UserRows /\ copy'.rows.edges = {}
          /\ imports'[p].pc \in {"settings", "verify"} =>
                /\ imports'[p].bundle.nodes \subseteq copy'.rows.nodes
                /\ copy'.rows.nodes \ imports'[p].bundle.nodes \subseteq UserRows
                /\ copy'.rows.edges = imports'[p].bundle.edges
      BY <2>0 DEF CopyIsTheImports
  <2>2. /\ imports[p].pc \in {"start", "check", "switch", "write", "refused", "failed"} =>
              copy.rows.nodes \subseteq UserRows /\ copy.rows.edges = {}
        /\ imports[p].pc \in {"settings", "verify"} =>
              /\ b.nodes \subseteq copy.rows.nodes
              /\ copy.rows.nodes \ b.nodes \subseteq UserRows
              /\ copy.rows.edges = b.edges
      BY <1>3 DEF CopyIsTheImports
  <2>3. CASE \E d \in Days : ReadBundle(p, d)
    <3>1. /\ imports[p].pc = "start" /\ copy' = copy
          /\ imports'[p].pc \in {"refused", "check"}
        BY <2>0, <2>3 DEF ReadBundle, Ended, Waiting
    <3> QED BY <2>2, <3>1
  <2>4. CASE CheckName(p)
    <3>1. imports[p].pc = "check" /\ copy' = copy
        BY <2>4 DEF CheckName
    <3>2. imports'[p].pc \in {"refused", "switch"}
      <4>1. CASE copy.there
          BY <2>0, <2>4, <4>1 DEF CheckName, Ended, Waiting
      <4>2. CASE ~copy.there
          BY <2>0, <2>4, <4>2 DEF CheckName
      <4> QED BY <4>1, <4>2
    <3> QED BY <2>2, <3>1, <3>2
  <2>5. CASE SwitchToCopy(p)
    <3>1. /\ imports[p].pc = "switch" /\ imports'[p].pc = "write"
          /\ copy'.rows = copy.rows
        BY <2>0, <2>5 DEF SwitchToCopy
    <3> QED BY <2>2, <3>1
  <2>6. CASE WriteVerbatim(p)
    <3>1. imports[p].pc = "write"
        BY <2>6 DEF WriteVerbatim
    <3>2. CASE Insertable(b)
      <4>1. /\ imports' = [imports EXCEPT ![p].pc = "settings"]
            /\ copy' = [copy EXCEPT !.there = TRUE, !.rows.nodes = @ \cup b.nodes,
                                                    !.rows.edges = @ \cup b.edges]
          BY <2>6, <3>2 DEF WriteVerbatim
      <4>2. imports'[p].pc = "settings" /\ imports'[p].bundle = b
          BY <2>0, <4>1
      <4> HIDE DEF b
      <4>3. /\ copy'.rows.nodes = copy.rows.nodes \cup b.nodes
            /\ copy'.rows.edges = copy.rows.edges \cup b.edges
          BY <2>0, <4>1
      <4> QED BY <2>2, <3>1, <4>2, <4>3
    <3>3. CASE ~Insertable(b)
        BY <2>0, <2>6, <3>3 DEF WriteVerbatim
    <3> QED BY <3>2, <3>3
  <2>7. CASE RestoreSettings(p)
    <3>1. /\ imports[p].pc = "settings" /\ imports' = [imports EXCEPT ![p].pc = "verify"]
          /\ copy' = [copy EXCEPT !.there = TRUE, !.rows.counter = b.counter]
        BY <2>7 DEF RestoreSettings
    <3>2. imports'[p].pc = "verify" /\ imports'[p].bundle = b
        BY <2>0, <3>1
    <3> HIDE DEF b
    <3>3. copy'.rows.nodes = copy.rows.nodes /\ copy'.rows.edges = copy.rows.edges
        BY <2>0, <3>1
    <3> QED BY <2>2, <3>1, <3>2, <3>3
  <2>8. CASE Verify(p) \/ ImportFails(p)
    <3>1. imports'[p].pc \in {"done", "drop"}
        BY <2>0, <2>8 DEF Verify, ImportFails, Verdict
    <3> QED BY <3>1
  <2>9. CASE DropCopy(p)
    <3>1. /\ imports'[p].pc = "failed" /\ copy'.rows.nodes = {} /\ copy'.rows.edges = {}
        BY <2>0, <2>9 DEF DropCopy, NoCopy, EmptyBundle
    <3> QED BY <3>1
  <2>10. CASE Killed(p)
    <3>1. imports'[p].pc = "killed"
        BY <2>0, <2>10 DEF Killed, Ended, Waiting
    <3> QED BY <3>1
  <2> QED BY <1>3, <2>3, <2>4, <2>5, <2>6, <2>7, <2>8, <2>9, <2>10 DEF Import
<1>4. CASE UNCHANGED transferVars \/ BumpCounter \/ NextDay \/ Backup
           \/ (\E n \in Nodes : Store(n)) \/ (\E n \in Nodes, s \in Statuses : Move(n, s))
    BY <1>1, <1>4 DEF transferVars, BumpCounter, NextDay, Store, Move, Backup, StartBackup, ReadNodes,
           ReadEdges, ReadSettings, OpenFile, WriteFile, BackupFails, ResetCounter, Prune
<1> QED BY <1>2, <1>3, <1>4 DEF TransferNext

LEMMA ImportInvInit == TransferInit => ImportInv
<1> SUFFICES ASSUME TransferInit PROVE ImportInv
    OBVIOUS
<1>1. copy.rows.nodes = {} /\ copy.rows.edges = {} /\ \A p \in Importers : imports[p].pc = "start"
    BY DEF TransferInit, NoCopy, EmptyBundle, Waiting
<1> QED BY <1>1, ShapeInit DEF ImportInv, CopyIsTheImports

LEMMA ImportInvNext ==
    ASSUME ImportInv, [TransferNext]_transferVars, OneImporter
    PROVE  ImportInv'
    BY ShapeNext, CopyNext DEF ImportInv

LEMMA ImportInvImplies ==
    ASSUME ImportInv
    PROVE  FailureLeavesNothing
<1> SUFFICES ASSUME NEW p \in Importers, imports[p].pc = "failed"
             PROVE  copy.rows.nodes \cap imports[p].bundle.nodes = {}
    BY DEF FailureLeavesNothing
<1>1. copy.rows.nodes \subseteq UserNodes \X {"active"}
    BY DEF ImportInv, CopyIsTheImports, UserRows
<1>2. imports[p].bundle.nodes \subseteq Nodes \X Statuses
    BY DEF ImportInv, TransferShape, Bundles, Rows
<1> QED BY <1>1, <1>2, TransferAssumption

\* The counts agree only when the user stored nothing in the copy.
LEMMA CountsTell ==
    ASSUME ImportInv, [TransferNext]_transferVars, NEW p \in Importers,
           imports[p].pc # "done", imports'[p].pc = "done"
    PROVE  /\ copy'.rows.nodes = imports[p].bundle.nodes
           /\ copy'.rows.edges = imports[p].bundle.edges
<1> DEFINE b == imports[p].bundle
<1>1. Verify(p)
  <2>0. imports \in [Importers ->
          [pc : {"start", "refused", "check", "switch", "write", "settings",
                 "verify", "drop", "done", "failed", "killed"}, bundle : Bundles]]
      BY DEF ImportInv, TransferShape
  <2>1. imports' # imports
      OBVIOUS
  <2>2. \E q \in Importers : Import(q)
      BY <2>1 DEF TransferNext, transferVars, BumpCounter, NextDay, Store, Move, WorkInCopy, Backup,
             StartBackup, ReadNodes, ReadEdges, ReadSettings, OpenFile, WriteFile, BackupFails,
             ResetCounter, Prune
  <2>3. PICK q \in Importers : Import(q)
      BY <2>2
  <2>4. CASE q # p
    <3>1. imports'[p] = imports[p]
        BY <2>0, <2>3, <2>4 DEF Import, ReadBundle, CheckName, SwitchToCopy, WriteVerbatim,
               RestoreSettings, Verify, ImportFails, DropCopy, Killed
    <3> QED BY <3>1
  <2>5. CASE q = p /\ ~Verify(p)
    <3>1. imports'[p].pc # "done"
      <4>1. CASE \E d \in Days : ReadBundle(p, d)
          BY <2>0, <4>1 DEF ReadBundle, Ended, Waiting
      <4>2. CASE CheckName(p)
        <5>1. CASE copy.there
            BY <2>0, <4>2, <5>1 DEF CheckName, Ended, Waiting
        <5>2. CASE ~copy.there
            BY <2>0, <4>2, <5>2 DEF CheckName
        <5> QED BY <5>1, <5>2
      <4>3. CASE SwitchToCopy(p) \/ RestoreSettings(p) \/ ImportFails(p) \/ DropCopy(p) \/ WriteVerbatim(p)
          BY <2>0, <4>3 DEF SwitchToCopy, RestoreSettings, ImportFails, DropCopy, WriteVerbatim
      <4>4. CASE Killed(p)
          BY <2>0, <4>4 DEF Killed, Ended, Waiting
      <4> QED BY <2>3, <2>5, <4>1, <4>2, <4>3, <4>4 DEF Import
    <3> QED BY <3>1
  <2> QED BY <2>3, <2>4, <2>5
<1>2. /\ imports[p].pc = "verify" /\ copy' = copy
      /\ imports' = [imports EXCEPT ![p].pc = Verdict(b)]
    BY <1>1 DEF Verify
<1>3. Verdict(b) = "done"
    BY <1>2 DEF ImportInv, TransferShape
<1>4. Cardinality(copy.rows.nodes) = Cardinality(b.nodes)
    BY <1>3 DEF Verdict, Matches, Counts
<1>5. b.nodes \subseteq copy.rows.nodes /\ copy.rows.edges = b.edges
    BY <1>2 DEF ImportInv, CopyIsTheImports
<1>6. IsFiniteSet(copy.rows.nodes)
    BY DEF ImportInv, TransferShape
<1>7. copy.rows.nodes = b.nodes
    BY <1>4, <1>5, <1>6, FS_Subset
<1> QED BY <1>2, <1>5, <1>7

\* The types, and what a failed import leaves, with one import at a time.
THEOREM TransfersAreSound ==
    ASSUME OneImporter
    PROVE  TransferSpec => []TransferIsSound
<1>1. ImportInv /\ [TransferNext]_transferVars => ImportInv'
    BY ImportInvNext
<1>2. TransferSpec => []ImportInv
    BY <1>1, ImportInvInit, PTL DEF TransferSpec
<1>3. TransferTypeOK /\ ImportInv => TransferIsSound
    BY ImportInvImplies DEF TransferIsSound
<1> QED BY <1>2, <1>3, BackupsAreTyped, PTL

\* A success report means the bundle is there, and nothing else.
THEOREM RestoresAreTheBundle ==
    ASSUME OneImporter
    PROVE  TransferSpec => RestoredIsTheBundle
<1>1. ImportInv /\ [TransferNext]_transferVars => ImportInv'
    BY ImportInvNext
<1>2. TransferSpec => []ImportInv
    BY <1>1, ImportInvInit, PTL DEF TransferSpec
<1>3. ImportInv /\ [TransferNext]_transferVars =>
        [\A p \in Importers : imports[p].pc # "done" /\ imports'[p].pc = "done" =>
          /\ copy'.rows.nodes = imports[p].bundle.nodes
          /\ copy'.rows.edges = imports[p].bundle.edges]_transferVars
    BY CountsTell
<1> QED BY <1>2, <1>3, PTL DEF TransferSpec, RestoredIsTheBundle

===============================================================================
