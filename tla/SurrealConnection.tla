--------------------------- MODULE SurrealConnection ---------------------------
(***************************************************************************)
(* The one connection SurrealDBStorage sends everything down, over a real  *)
(* network (storage/surrealdb_adapter.py): every call of every task goes    *)
(* through _call, which rebuilds a connection whose socket has gone; _use   *)
(* points the connection at a graph; a switch does so for good, unless the *)
(* graph's schema is too new, and a viz read borrows the connection and    *)
(* gives it back in a `finally`.                                           *)
(*                                                                         *)
(* Tasks take their turns as ActiveGraph promises (users together, a mover *)
(* alone), which GuardedGraph shows the guard provides.  Within a turn a   *)
(* task makes calls; a socket can be lost at any moment, the server can be *)
(* away when a connection is rebuilt, and a call can be cancelled (the     *)
(* tool timeout) wherever it awaits.                                       *)
(***************************************************************************)
EXTENDS Integers, FiniteSets, Sequences

CONSTANTS
    Users,          \* tool calls that work in the active graph
    Switchers,      \* calls of use_graph
    Borrowers,      \* viz reads of another graph
    Graphs, NoGraph,
    TooNew,         \* the graphs a newer Epimemer wrote, which are refused
    NoTask,
    Cancellable,    \* the tasks whose calls may be cancelled: a USE cancelled in flight has
                    \* moved the wire with nothing recorded, so a run may leave movers out
    Sdks,           \* the SDKs it may be built with: 3.x reports a lost socket as an
                    \* event, 2.x raises from the next send instead
    MaxFaults       \* bound: sockets lost, rebuilds that find the server away, calls
                    \* cancelled while they await

Tasks == Users \cup Switchers \cup Borrowers
Movers == Switchers \cup Borrowers

ASSUME ConnectionAssumption ==
    /\ Users \cap Movers = {} /\ NoTask \notin Tasks
    /\ NoGraph \notin Graphs /\ MaxFaults \in Nat

VARIABLES
    wire,       \* for each connection opened so far, the graph the server has it on
    alive,      \* for each connection opened so far, whether its socket is open
    db,         \* _db: the connection in use, or 0 once it is closed for good
    dropped,    \* _dropped: the connection known to have lost its socket, or 0
    rebuilder,  \* the task holding _reconnect_lock, which is also _reconnecting
    database,   \* _database: the graph the session believes it is on
    selected,   \* _selected: the graph the adapter believes the wire is on
    pc,         \* where each task is
    at,         \* the connection each task's call captured, or 0
    last,       \* the call is past its `try`: no further rebuild
    stage,      \* how far each task's turn has come
    target,     \* the graph a mover is to point the connection at
    original,   \* what a borrow, or a switch refused, will point back at
    landed,     \* the graphs each user's statements ran in
    sdk,        \* the SDK it is built with
    losses, refusals, cancels

conn == <<wire, alive, db, dropped, rebuilder>>
belief == <<database, selected>>
call == <<pc, at, last>>
turn == <<stage, target, original, landed>>
around == <<sdk, losses, refusals, cancels>>
vars == <<conn, belief, call, turn, around>>

Places == {"idle", "ready", "flight", "lock", "rebuild", "setup", "resend", "failed"}
Stages == {"none", "work", "again", "switch", "schema", "migrate", "back",
           "take", "read", "give"}

Init ==
    /\ database \in Graphs \ TooNew
    /\ selected = database
    /\ wire = <<database>>
    /\ alive = <<TRUE>>
    /\ db = 1
    /\ dropped = 0
    /\ rebuilder = NoTask
    /\ pc = [t \in Tasks |-> "idle"]
    /\ at = [t \in Tasks |-> 0]
    /\ last = [t \in Tasks |-> FALSE]
    /\ stage = [t \in Tasks |-> "none"]
    /\ target = [m \in Movers |-> NoGraph]
    /\ original = [m \in Movers |-> NoGraph]
    /\ landed = [u \in Users |-> {}]
    /\ sdk \in Sdks
    /\ losses = 0 /\ refusals = 0 /\ cancels = 0

Goto(t, p) == pc' = [pc EXCEPT ![t] = p]
Stage(t, s) == stage' = [stage EXCEPT ![t] = s]

-------------------------------------------------------------------------------
(* Turns, and the calls each kind of task makes in one.                      *)

\* Mutant: turns do not exclude each other.
BeginTogether(t) ==
    /\ pc[t] = "idle"
    /\ Goto(t, "ready")
    /\ \/ t \in Users /\ Stage(t, "work") /\ UNCHANGED <<target, original>>
       \/ \E g \in Graphs \ {database} :
            /\ t \in Movers
            /\ target' = [target EXCEPT ![t] = g]
            /\ Stage(t, IF t \in Borrowers THEN "take" ELSE "switch")
            /\ original' = [original EXCEPT ![t] = selected]
    /\ UNCHANGED <<conn, belief, at, last, landed, around>>

Begin(t) ==
    /\ pc[t] = "idle"
    /\ \A x \in Tasks \ {t} :
          pc[x] = "idle" \/ (t \in Users /\ x \in Users)
    /\ Goto(t, "ready")
    /\ \/ t \in Users /\ Stage(t, "work") /\ UNCHANGED <<target, original>>
       \/ \E g \in Graphs \ {database} :
            /\ t \in Movers
            /\ target' = [target EXCEPT ![t] = g]
            /\ Stage(t, IF t \in Borrowers THEN "take" ELSE "switch")
            /\ original' = [original EXCEPT ![t] =
                               IF t \in Borrowers THEN selected ELSE database]
    /\ UNCHANGED <<conn, belief, at, last, landed, around>>

End(t) ==
    /\ stage[t] = "none"
    /\ pc[t] # "idle"
    /\ Goto(t, "idle")
    /\ target' = [m \in Movers |-> IF m = t THEN NoGraph ELSE target[m]]
    /\ original' = [m \in Movers |-> IF m = t THEN NoGraph ELSE original[m]]
    /\ landed' = [u \in Users |-> IF u = t THEN {} ELSE landed[u]]
    /\ UNCHANGED <<conn, belief, at, last, stage, around>>

\* The graph the call of this stage points the connection at: _use's argument.
\* Every other stage's call is a query.
Uses(t) ==
    CASE stage[t] \in {"switch", "take"} -> target[t]
      [] stage[t] \in {"back", "give"} -> original[t]
      [] OTHER -> NoGraph

\* What the task may do once its call has answered.  A switch reads the graph's
\* schema version: too new, it points back; older, the migration walks the graph.
After(t) ==
    CASE stage[t] = "work" -> {"again"}
      [] stage[t] = "switch" -> {"schema"}
      [] stage[t] = "schema" -> IF wire[at[t]] \in TooNew THEN {"back"} ELSE {"migrate", "none"}
      [] stage[t] = "take" -> {"read"}
      [] stage[t] = "read" -> {"give"}
      [] OTHER -> {"none"}

\* What the task does once its call has raised.  The borrow's `finally` makes the
\* call that gives the connection back; everything else leaves the turn.
Fail(t) ==
    /\ pc[t] = "failed"
    /\ Goto(t, "ready")
    /\ Stage(t, IF stage[t] \in {"take", "read"} THEN "give" ELSE "none")
    /\ at' = [at EXCEPT ![t] = 0]
    /\ last' = [last EXCEPT ![t] = FALSE]
    /\ UNCHANGED <<conn, belief, target, original, landed, around>>

-------------------------------------------------------------------------------
(* _call.                                                                    *)

\* A first attempt that raises ConnectionClosed rebuilds and tries once more.
Raise(t) ==
    /\ Goto(t, IF last[t] THEN "failed" ELSE "lock")
    /\ last' = [last EXCEPT ![t] = TRUE]

\* A statement sent on a connection that has lost its socket.  The 2.x SDK raises
\* at once; the 3.x SDK opens a bare socket that is signed in as nobody, and the
\* statement fails there.
SendOnDead(t) == IF sdk = "3.x" THEN Goto(t, "failed") /\ UNCHANGED last ELSE Raise(t)

\* The statement goes out on the connection in use now.
Send(t) ==
    /\ at' = [at EXCEPT ![t] = db]
    /\ CASE db = 0 -> Goto(t, "failed") /\ UNCHANGED last
         [] db # 0 /\ alive[db] -> Goto(t, "flight") /\ UNCHANGED last
         [] OTHER -> SendOnDead(t)

\* A call sends on the connection in use, unless that is known to be dropped.
StartCall(t) ==
    /\ pc[t] = "ready"
    /\ stage[t] \notin {"none", "schema"}
    /\ IF db = dropped /\ db # 0
       THEN at' = [at EXCEPT ![t] = db] /\ Goto(t, "lock") /\ UNCHANGED last
       ELSE Send(t)
    /\ UNCHANGED <<conn, belief, turn, around>>

\* A switch sets the schema up on the connection directly, past _call: a socket
\* found lost there fails the switch.
StartSchema(t) ==
    /\ pc[t] = "ready"
    /\ stage[t] = "schema"
    /\ at' = [at EXCEPT ![t] = db]
    /\ Goto(t, IF db # 0 /\ alive[db] THEN "flight" ELSE "failed")
    /\ last' = [last EXCEPT ![t] = TRUE]
    /\ UNCHANGED <<conn, belief, turn, around>>

\* A rebuild is over, this task's or another's, and the statement is sent again.
Resend(t) ==
    /\ pc[t] = "resend"
    /\ Send(t)
    /\ UNCHANGED <<conn, belief, turn, around>>

\* The server runs the statement, whether or not the caller hears of it.
Runs(t) ==
    IF Uses(t) # NoGraph
    THEN wire' = [wire EXCEPT ![at[t]] = Uses(t)] /\ UNCHANGED landed
    ELSE /\ landed' = [u \in Users |->
                        landed[u] \cup IF u = t THEN {wire[at[t]]} ELSE {}]
         /\ UNCHANGED wire

\* The answer: _use records the selection, and a switch the session's graph, when
\* it goes and when it points back.
Answer(t) ==
    /\ pc[t] = "flight"
    /\ alive[at[t]]
    /\ Runs(t)
    /\ \E s \in After(t) : Stage(t, s)
    /\ Goto(t, "ready")
    /\ at' = [at EXCEPT ![t] = 0]
    /\ last' = [last EXCEPT ![t] = FALSE]
    /\ selected' = IF Uses(t) # NoGraph THEN Uses(t) ELSE selected
    /\ database' = IF stage[t] \in {"switch", "back"} THEN Uses(t) ELSE database
    /\ UNCHANGED <<alive, db, dropped, rebuilder, target, original, around>>

\* The socket went while the statement was in flight: it ran or it did not, and
\* the caller's future is cancelled, or raises.
LostInFlight(t) ==
    /\ pc[t] = "flight"
    /\ ~alive[at[t]]
    /\ Runs(t) \/ UNCHANGED <<wire, landed>>
    /\ (Goto(t, "failed") /\ UNCHANGED last) \/ Raise(t)
    /\ UNCHANGED <<alive, db, dropped, rebuilder, belief, at, stage, target,
                   original, around>>

-------------------------------------------------------------------------------
(* _reconnect, and the connect() it makes.                                   *)

\* The lock is free and another task has replaced the connection meanwhile.
FindReplaced(t) ==
    /\ pc[t] = "lock"
    /\ rebuilder = NoTask
    /\ db # at[t]
    /\ Goto(t, "resend")
    /\ UNCHANGED <<conn, belief, at, last, turn, around>>

\* Mutant: a task does not look whether another has rebuilt meanwhile.
RebuildRegardless(t) ==
    /\ pc[t] = "lock"
    /\ rebuilder = NoTask
    /\ db # 0
    /\ dropped' = db
    /\ alive' = [alive EXCEPT ![db] = FALSE]
    /\ rebuilder' = t
    /\ Goto(t, "rebuild")
    /\ UNCHANGED <<wire, db, belief, at, last, turn, around>>

\* The lock is free and the stale connection is still the one in use: it is
\* marked, so that no call starts on it, and closed.
StartRebuild(t) ==
    /\ pc[t] = "lock"
    /\ rebuilder = NoTask
    /\ db = at[t]
    /\ dropped' = db
    /\ alive' = [alive EXCEPT ![db] = FALSE]
    /\ rebuilder' = t
    /\ Goto(t, "rebuild")
    /\ UNCHANGED <<wire, db, belief, at, last, turn, around>>

\* Mutant: the rebuilt connection is on the graph the process started on.
OpenAsConfigured(t) ==
    /\ pc[t] = "rebuild"
    /\ wire' = Append(wire, wire[1])
    /\ alive' = Append(alive, TRUE)
    /\ db' = Len(wire) + 1
    /\ Goto(t, "setup")
    /\ UNCHANGED <<dropped, rebuilder, belief, at, last, turn, around>>

\* A connection signed in and pointed at `_selected` takes the stale one's place,
\* before its schema is set up: other tasks send on it from here on.
OpenConnection(t) ==
    /\ pc[t] = "rebuild"
    /\ wire' = Append(wire, selected)
    /\ alive' = Append(alive, TRUE)
    /\ db' = Len(wire) + 1
    /\ Goto(t, "setup")
    /\ UNCHANGED <<dropped, rebuilder, belief, at, last, turn, around>>

\* A rebuild that raises leaves the connection marked, and the lock free.
AbandonRebuild(t) ==
    /\ dropped' = db
    /\ rebuilder' = NoTask
    /\ Goto(t, "failed")

ServerAway(t) ==
    /\ pc[t] = "rebuild"
    /\ losses + refusals + cancels < MaxFaults
    /\ refusals' = refusals + 1
    /\ AbandonRebuild(t)
    /\ UNCHANGED <<wire, alive, db, belief, at, last, turn, sdk, losses, cancels>>

\* Mutant: a call the rebuilder makes waits for the lock it holds.
SetupThroughLock(t) ==
    /\ pc[t] = "setup"
    /\ alive[db] => wire[db] \notin TooNew
    /\ IF alive[db]
       THEN rebuilder' = NoTask /\ Goto(t, "resend") /\ UNCHANGED at
       ELSE Goto(t, "lock") /\ at' = [at EXCEPT ![t] = db] /\ UNCHANGED rebuilder
    /\ UNCHANGED <<wire, alive, db, dropped, belief, last, turn, around>>

\* The schema is set up on the new connection, partly through _call.  A call the
\* rebuilder makes there goes nowhere near the lock it holds: what it finds wrong
\* is a failed rebuild.
SetupSchema(t) ==
    /\ pc[t] = "setup"
    /\ alive[db] => wire[db] \notin TooNew
    /\ IF alive[db]
       THEN rebuilder' = NoTask /\ Goto(t, "resend") /\ UNCHANGED dropped
       ELSE AbandonRebuild(t)
    /\ UNCHANGED <<wire, alive, db, belief, at, last, turn, around>>

\* The graph the rebuild came back to is too new: connect() closes the store, which
\* is left with no connection, and a rebuild with none to mark.
RefuseSchema(t) ==
    /\ pc[t] = "setup"
    /\ alive[db]
    /\ wire[db] \in TooNew
    /\ alive' = [alive EXCEPT ![db] = FALSE]
    /\ db' = 0
    /\ dropped' = 0
    /\ selected' = database
    /\ rebuilder' = NoTask
    /\ Goto(t, "failed")
    /\ UNCHANGED <<wire, database, at, last, turn, around>>

-------------------------------------------------------------------------------
(* What goes wrong.                                                          *)

\* The socket of the connection in use goes.
LoseSocket ==
    /\ db # 0 /\ alive[db]
    /\ losses + refusals + cancels < MaxFaults
    /\ losses' = losses + 1
    /\ alive' = [alive EXCEPT ![db] = FALSE]
    /\ dropped' = IF sdk = "3.x" THEN db ELSE dropped
    /\ UNCHANGED <<wire, db, rebuilder, belief, call, turn, sdk, refusals, cancels>>

\* A call is cancelled at its await: a statement in flight has run or it has not,
\* a task queued on the lock leaves it, and a rebuild is abandoned.
CancelCall(t) ==
    /\ t \in Cancellable
    /\ losses + refusals + cancels < MaxFaults
    /\ cancels' = cancels + 1
    /\ \/ /\ pc[t] = "flight"
          /\ alive[at[t]]
          /\ Runs(t) \/ UNCHANGED <<wire, landed>>
          /\ Goto(t, "failed")
          /\ UNCHANGED <<dropped, rebuilder>>
       \/ pc[t] = "lock" /\ Goto(t, "failed") /\ UNCHANGED <<wire, dropped, rebuilder, landed>>
       \/ pc[t] \in {"rebuild", "setup"} /\ AbandonRebuild(t) /\ UNCHANGED <<wire, landed>>
    /\ UNCHANGED <<alive, db, belief, at, last, stage, target, original, sdk,
                   losses, refusals>>

-------------------------------------------------------------------------------

InCall(t) ==
    \/ Answer(t) \/ LostInFlight(t)
    \/ FindReplaced(t) \/ StartRebuild(t) \/ Resend(t)
    \/ OpenConnection(t) \/ ServerAway(t) \/ SetupSchema(t) \/ RefuseSchema(t)
    \/ Fail(t)

Next ==
    \/ \E t \in Tasks : Begin(t) \/ End(t) \/ StartCall(t) \/ StartSchema(t) \/ InCall(t) \/ CancelCall(t)
    \/ LoseSocket

\* A task that is ready to run is run; the network answers or the socket is found
\* to have gone.  Nothing makes a task begin, a socket drop or a call be cancelled.
Fairness == \A t \in Tasks : WF_vars(InCall(t)) /\ WF_vars(StartCall(t) \/ StartSchema(t) \/ End(t))

Spec == Init /\ [][Next]_vars
FairSpec == Spec /\ Fairness

-------------------------------------------------------------------------------
(* Properties.                                                               *)

Active(t) == pc[t] # "idle"

\* The variables have their types.
TypeOK ==
    /\ wire \in Seq(Graphs) /\ alive \in Seq(BOOLEAN) /\ Len(wire) = Len(alive)
    /\ db \in DOMAIN wire \cup {0} /\ dropped \in DOMAIN wire \cup {0}
    /\ rebuilder \in Tasks \cup {NoTask}
    /\ database \in Graphs /\ selected \in Graphs
    /\ pc \in [Tasks -> Places] /\ stage \in [Tasks -> Stages]
    /\ last \in [Tasks -> BOOLEAN] /\ at \in [Tasks -> DOMAIN wire \cup {0}]
    /\ target \in [Movers -> Graphs \cup {NoGraph}]
    /\ original \in [Movers -> Graphs \cup {NoGraph}]
    /\ landed \in [Users -> SUBSET Graphs]
    /\ sdk \in Sdks

\* Every statement of one operation runs in one graph, the one selected, through
\* every loss and rebuild of the connection: a rebuild comes back pointed where
\* the caller believes it is, or the store is closed.
OneGraphPerOperation ==
    \A u \in Users :
        /\ Cardinality(landed[u]) <= 1
        /\ db # 0 => landed[u] \subseteq {selected}

\* What the adapter says of `_selected`, "the database actually selected on the
\* wire":  Nothing is in flight that is about to change it.
WireIsSelected ==
    db # 0 /\ alive[db] /\ (\A m \in Movers : ~Active(m)) => wire[db] = selected

\* A connection that works is not rebuilt: everything in flight fails together,
\* and only one of the tasks that land in _reconnect opens a connection for it.  A
\* rebuild cancelled after it opened one is done again.
OneRebuildPerLoss == Len(wire) <= losses + cancels + 1

\* A call ends, whatever is lost, refused or cancelled meanwhile: no task waits on
\* the lock it holds itself, and none holds the lock for ever.
CallsEnd == \A t \in Tasks : Active(t) ~> ~Active(t)

\* The two together: the shape of the adapter's state, and that a loss costs one
\* connection however many calls it took down.
ConnectionIsSound == TypeOK /\ OneRebuildPerLoss
===============================================================================
