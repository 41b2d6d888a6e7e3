------------------------------ MODULE GuardedGraph ------------------------------
(***************************************************************************)
(* The guard put to its use: tool calls that work against the active graph *)
(* (users), and the two things that move it (movers).  `use_graph` switches *)
(* it for good; a viz read or a review of another graph borrows SurrealDB's *)
(* connection, read by read, and gives it back.                            *)
(*                                                                         *)
(* It implements ActiveGraph: an operation works in the graph it began in. *)
(***************************************************************************)
EXTENDS GraphGuard

CONSTANTS Graphs, NoGraph

ASSUME GraphsAssumption == NoGraph \notin Graphs

VARIABLES
    database,   \* current_database: the graph the session believes it is on
    selected,   \* the graph a storage call lands in
    original,   \* the selection a mover's borrow will give back, or NoGraph
    seen        \* the graph each user's operation began in, or NoGraph

graphVars == <<database, selected, original, seen>>
vars == <<guardVars, graphVars>>

Init ==
    /\ GuardInit
    /\ database \in Graphs
    /\ selected = database
    /\ original = [m \in Movers |-> NoGraph]
    /\ seen = [u \in Users |-> NoGraph]

\* A turn begins; a user's operation is in whatever graph is selected now.
BeginTurn(t) ==
    /\ Enter(t) \/ Resume(t)
    /\ seen' = [u \in Users |-> IF u = t THEN selected ELSE seen[u]]
    /\ UNCHANGED <<database, selected, original>>

\* Mutant: the borrow is not given back on the way out.
EndTurnBorrowing(t) ==
    /\ Leave(t)
    /\ seen' = [u \in Users |-> IF u = t THEN NoGraph ELSE seen[u]]
    /\ UNCHANGED <<database, selected, original>>

\* A turn ends.  A mover's borrow has been given back by its `finally`.
EndTurn(t) ==
    /\ Leave(t)
    /\ t \in Movers => original[t] = NoGraph
    /\ seen' = [u \in Users |-> IF u = t THEN NoGraph ELSE seen[u]]
    /\ UNCHANGED <<database, selected, original>>

\* A task waits for its turn, or stops waiting.
Wait(t) ==
    /\ Enqueue(t) \/ Cancel(t)
    /\ UNCHANGED graphVars

\* Mutant: the switch takes no turn.
SwitchAtOnce(m, g) ==
    /\ original[m] = NoGraph
    /\ database' = g
    /\ selected' = g
    /\ UNCHANGED <<guardVars, original, seen>>

\* switch_database, under the mover turn its caller holds (its own moving() is
\* nested, and does nothing).
Switch(m, g) ==
    /\ pc[m] = "in"
    /\ original[m] = NoGraph
    /\ database' = g
    /\ selected' = g
    /\ UNCHANGED <<guardVars, original, seen>>

\* Mutant: the borrow takes no turn.
BorrowAtOnce(m, g) ==
    /\ original[m] = NoGraph
    /\ original' = [original EXCEPT ![m] = selected]
    /\ selected' = g
    /\ UNCHANGED <<guardVars, database, seen>>

\* One viz read of a graph: the connection is pointed at it ...
Borrow(m, g) ==
    /\ pc[m] = "in"
    /\ original[m] = NoGraph
    /\ original' = [original EXCEPT ![m] = selected]
    /\ selected' = g
    /\ UNCHANGED <<guardVars, database, seen>>

\* ... and given back, on every way out.
GiveBack(m) ==
    /\ original[m] # NoGraph
    /\ selected' = original[m]
    /\ original' = [original EXCEPT ![m] = NoGraph]
    /\ UNCHANGED <<guardVars, database, seen>>

Next ==
    \/ \E t \in Tasks : BeginTurn(t) \/ EndTurn(t) \/ Wait(t)
    \/ \E m \in Movers : GiveBack(m) \/ \E g \in Graphs : Switch(m, g) \/ Borrow(m, g)

Spec == Init /\ [][Next]_vars

\* What GraphGuard's fairness says of a task, said of its turn here: a task that is
\* queued or woken runs, and a body ends.  A mover's body may borrow and give back
\* between, a handful of reads, and ends all the same.
Fairness ==
    \A t \in Tasks :
        /\ WF_vars(BeginTurn(t) /\ pc[t] # "out")
        /\ SF_vars(EndTurn(t))
        /\ t \in Movers => WF_vars(GiveBack(t))

FairSpec == Spec /\ Fairness

-------------------------------------------------------------------------------
(* Properties.                                                               *)

\* The variables have their types, the guard's included.
GraphTypeOK ==
    /\ TypeOK
    /\ database \in Graphs
    /\ selected \in Graphs
    /\ original \in [Movers -> Graphs \cup {NoGraph}]
    /\ seen \in [Users -> Graphs \cup {NoGraph}]

\* make_graph_guard, with the graph under it: a move excludes everyone, the count,
\* the event, the lock and its queue say what they stand for, and no wakeup is lost.
GuardIsSound ==
    /\ GraphTypeOK
    /\ TurnExclusion
    /\ CountIsUsersIn
    /\ TurnstileHeld
    /\ QueueIsQueued
    /\ WakeupIsComing

\* The invariant active_graph.py states: the active graph does not move while a
\* logical operation is using it.  Every storage call of a tool call lands in the
\* graph the call began in, and that is the graph the session reports.
SteadyWhileUsed ==
    \A u \in UsersIn : selected = seen[u] /\ database = seen[u]

\* A borrow is invisible from outside its turn: once no mover is in its body the
\* connection points where the session believes it does.
BorrowsAreReturned ==
    MoversIn = {} => selected = database /\ \A m \in Movers : original[m] = NoGraph

\* The promise of ActiveGraph, implemented: the turn to move the graph is the one
\* of the mover that holds the turnstile and is past its wait.
TurnOf == IF lock # NoTask /\ pc[lock] = "in" THEN lock ELSE NoTask

Promise == INSTANCE ActiveGraph WITH working <- seen, mover <- TurnOf

\* Every behaviour of the guarded graph is one of ActiveGraph: an operation runs from
\* its first storage call to its last in one graph, as if there were no guard.
ImplementsActiveGraph == Promise!Spec

===============================================================================
