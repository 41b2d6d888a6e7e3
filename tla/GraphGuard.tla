------------------------------ MODULE GraphGuard ------------------------------
(***************************************************************************)
(* The guard every storage backend makes for itself (make_graph_guard in   *)
(* storage/active_graph.py): any number of users work against the active   *)
(* graph together, a mover works alone, and a waiting mover is preferred.  *)
(*                                                                         *)
(* The state the two context managers share is four locals: the turnstile  *)
(* (an asyncio.Lock: who holds it, and the FIFO of tasks queued on it), the *)
(* count of users, and the event `idle`.  What asyncio does with the lock   *)
(* and the event is modelled from how the guard uses them: a task takes a   *)
(* free turnstile at once only when nobody is queued; a released turnstile *)
(* goes to the head of the queue; a task waiting on the event is woken by  *)
(* set() and does not look at the event again when it resumes.             *)
(***************************************************************************)
EXTENDS Integers, FiniteSets, Sequences, SequencesExt

CONSTANTS
    Users,      \* tasks that call using(): tool calls
    Movers,     \* tasks that call moving(): use_graph, review, viz RPCs
    NoTask      \* nobody holds the turnstile

ASSUME TasksAssumption ==
    /\ IsFiniteSet(Users)
    /\ IsFiniteSet(Movers)
    /\ Users \cap Movers = {}
    /\ NoTask \notin Users \cup Movers

Tasks == Users \cup Movers

VARIABLES
    pc,         \* where each task is in its context manager
    lock,       \* turnstile: the mover that holds it, or NoTask
    queue,      \* turnstile: the tasks queued on it, in arrival order
    users,      \* the count of users inside
    idle        \* the event: set when the count is zero

guardVars == <<pc, lock, queue, users, idle>>

Places == {"out", "queued", "waiting", "woken", "in"}

GuardInit ==
    /\ pc = [t \in Tasks |-> "out"]
    /\ lock = NoTask
    /\ queue = <<>>
    /\ users = 0
    /\ idle = TRUE

-------------------------------------------------------------------------------
(* Taking the turnstile.                                                     *)

\* A user registers and releases the turnstile without a suspension between.
Register(t) ==
    /\ users' = users + 1
    /\ idle' = FALSE
    /\ pc' = [pc EXCEPT ![t] = "in"]
    /\ UNCHANGED lock

\* A mover keeps the turnstile for its whole turn, and waits for `idle` first.
TakeTurn(t) ==
    /\ lock' = t
    /\ pc' = [pc EXCEPT ![t] = IF idle THEN "in" ELSE "waiting"]
    /\ UNCHANGED <<users, idle>>

Acquired(t) == IF t \in Users THEN Register(t) ELSE TakeTurn(t)

\* Mutant: a task does not look whether the turnstile is held.
EnterHeld(t) ==
    /\ pc[t] = "out"
    /\ queue = <<>>
    /\ Acquired(t)
    /\ UNCHANGED queue

\* The turnstile is free and nobody is queued: taken at once.
EnterFree(t) ==
    /\ pc[t] = "out"
    /\ lock = NoTask
    /\ queue = <<>>
    /\ Acquired(t)
    /\ UNCHANGED queue

\* Otherwise the task queues, behind whoever is there already.
Enqueue(t) ==
    /\ pc[t] = "out"
    /\ lock # NoTask \/ queue # <<>>
    /\ queue' = Append(queue, t)
    /\ pc' = [pc EXCEPT ![t] = "queued"]
    /\ UNCHANGED <<lock, users, idle>>

\* The free turnstile goes to the head of the queue.
EnterQueued(t) ==
    /\ queue # <<>>
    /\ t = Head(queue)
    /\ lock = NoTask
    /\ queue' = Tail(queue)
    /\ Acquired(t)

\* A woken mover resumes.  Event.wait does not look at the event again, so what
\* keeps this safe is the turnstile the mover holds.
Resume(t) ==
    /\ t \in Movers
    /\ pc[t] = "woken"
    /\ pc' = [pc EXCEPT ![t] = "in"]
    /\ UNCHANGED <<lock, queue, users, idle>>

-------------------------------------------------------------------------------
(* Leaving, on every way out of the body.                                    *)

\* Mutant: the event is never set again.
LeaveSilently(t) ==
    /\ t \in Users
    /\ pc[t] = "in"
    /\ users' = users - 1
    /\ pc' = [pc EXCEPT ![t] = "out"]
    /\ UNCHANGED <<lock, queue, idle>>

\* Mutant: every user that leaves sets the event, not the last.
LeaveSettingIdle(t) ==
    /\ t \in Users
    /\ pc[t] = "in"
    /\ users' = users - 1
    /\ idle' = TRUE
    /\ pc' = [x \in Tasks |-> IF x = t THEN "out"
                              ELSE IF pc[x] = "waiting" THEN "woken" ELSE pc[x]]
    /\ UNCHANGED <<lock, queue>>

\* The last user out sets `idle`, which wakes the mover waiting on it.
LeaveUsing(t) ==
    /\ t \in Users
    /\ pc[t] = "in"
    /\ users' = users - 1
    /\ idle' = (users' = 0)
    /\ pc' = [x \in Tasks |-> IF x = t THEN "out"
                              ELSE IF pc[x] = "waiting" /\ idle' THEN "woken"
                              ELSE pc[x]]
    /\ UNCHANGED <<lock, queue>>

LeaveMoving(t) ==
    /\ t \in Movers
    /\ pc[t] = "in"
    /\ lock' = NoTask
    /\ pc' = [pc EXCEPT ![t] = "out"]
    /\ UNCHANGED <<queue, users, idle>>

\* A task cancelled while it is queued (a request abandoned, a server stopping).
CancelQueued(t) ==
    /\ pc[t] = "queued"
    /\ \E i \in DOMAIN queue : queue[i] = t /\ queue' = RemoveAt(queue, i)
    /\ pc' = [pc EXCEPT ![t] = "out"]
    /\ UNCHANGED <<lock, users, idle>>

\* A mover cancelled at its wait, before or after it is woken, lets go of the
\* turnstile on the way out.
CancelWaiting(t) ==
    /\ t \in Movers
    /\ pc[t] \in {"waiting", "woken"}
    /\ lock' = NoTask
    /\ pc' = [pc EXCEPT ![t] = "out"]
    /\ UNCHANGED <<queue, users, idle>>

Enter(t) == EnterFree(t) \/ EnterQueued(t)

Leave(t) == LeaveUsing(t) \/ LeaveMoving(t)

Cancel(t) == CancelQueued(t) \/ CancelWaiting(t)

GuardNext ==
    \E t \in Tasks : Enter(t) \/ Enqueue(t) \/ Resume(t) \/ Leave(t) \/ Cancel(t)

\* What the event loop owes a task that is ready to run, and what a body owes
\* the guard: it ends.  A tool call ends because _run_with_timeout bounds it, a
\* viz read because it is a handful of reads.  Nothing makes a task call.
GuardFairness ==
    \A t \in Tasks :
        /\ WF_guardVars(EnterQueued(t))
        /\ WF_guardVars(Resume(t))
        /\ WF_guardVars(Leave(t))

GuardSpec == GuardInit /\ [][GuardNext]_guardVars /\ GuardFairness

-------------------------------------------------------------------------------
(* Properties.                                                               *)

UsersIn == {t \in Users : pc[t] = "in"}
MoversIn == {t \in Movers : pc[t] = "in"}

\* The variables have their types.
TypeOK ==
    /\ pc \in [Tasks -> Places]
    /\ lock \in Movers \cup {NoTask}
    /\ queue \in Seq(Tasks)
    /\ users \in Nat
    /\ idle \in BOOLEAN

\* A move excludes everyone: while a mover is in its body no user and no other
\* mover is, whatever the order in which tasks queued, were cancelled, waited
\* and were woken (the invariant make_graph_guard exists for).
TurnExclusion ==
    \A m \in MoversIn : UsersIn = {} /\ MoversIn = {m}

\* The count and the event say what they stand for: the users in their bodies.
\* A user lost from the count would let a move in under it; one counted twice
\* would keep `idle` clear, and every later move waiting, for good.
CountIsUsersIn ==
    /\ users = Cardinality(UsersIn)
    /\ idle <=> users = 0

\* The turnstile is held exactly by the mover that waits or moves: a cancelled
\* mover does not take it away with it, and none moves without it.
TurnstileHeld ==
    \A m \in Movers : lock = m <=> pc[m] \in {"waiting", "woken", "in"}

\* Exactly the queued tasks are in the queue, once each: a cancelled task leaves
\* no entry behind for the turnstile to go to.
QueueIsQueued ==
    /\ \A t \in Tasks : pc[t] = "queued" <=> \E i \in DOMAIN queue : queue[i] = t
    /\ \A i, j \in DOMAIN queue : queue[i] = queue[j] => i = j

\* No wakeup is lost: a mover that waits has a user inside whose leaving will wake
\* it, and one that was woken finds nobody, though it does not look again.
WakeupIsComing ==
    \A m \in Movers :
        /\ pc[m] = "waiting" => users > 0
        /\ pc[m] \in {"woken", "in"} => users = 0

\* Movers are preferred: while one waits for the users inside to finish, nobody
\* else gets in ("users arriving behind it queue rather than overtaking").
MoversPreferred ==
    [][ \A m \in Movers : pc[m] \in {"waiting", "woken"} =>
            \A t \in Tasks \ {m} : pc[t] # "in" => pc'[t] # "in" ]_guardVars

\* A task that asks for a turn gets it, or is cancelled: a trickle of users does
\* not starve a mover, and a mover's wakeup is never lost.
TurnIsGranted ==
    \A t \in Tasks : pc[t] \in {"queued", "waiting", "woken"} ~> pc[t] \in {"in", "out"}

===============================================================================
