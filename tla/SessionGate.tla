------------------------------ MODULE SessionGate ------------------------------
(***************************************************************************)
(* The boundary every tool call of one connection passes (mcp/server.py):  *)
(* who is judging, in which graph, and under whose turn.  Several agents   *)
(* share the connection and their calls interleave at every await; the     *)
(* dashboard's reads borrow the one SurrealDB connection between them.     *)
(*                                                                         *)
(* The turn itself is ActiveGraph's, which GuardedGraph shows the guard to *)
(* implement.  The judge is looked up before the turn is asked for.        *)
(***************************************************************************)
EXTENDS Integers, FiniteSets

CONSTANTS
    Calls,      \* the tool calls in flight together
    Viz,        \* the dashboard's reads, which take the mover turn
    Graphs,
    Home,       \* the graph the server was started on
    Judges,
    Seats,
    MaxCalls,   \* bound: calls begun
    MaxEvents,  \* bound: dashboard reads and changes of seat
    NoTask, NoGraph, NoJudge, NoClaim

ASSUME GateAssumption ==
    /\ Home \in Graphs /\ NoGraph \notin Graphs /\ NoJudge \notin Judges
    /\ Viz \notin Calls /\ NoTask \notin Calls \cup {Viz}
    /\ MaxCalls \in Nat /\ MaxEvents \in Nat

VARIABLES
    selected,   \* the graph a storage call lands in
    working,    \* the graph each call's turn began in, or NoGraph
    mover,      \* whose turn it is to move the graph, or NoTask
    database,   \* current_database: the graph the session believes it is on
    graphs,     \* the graphs that exist
    approved,   \* each graph's approved judges
    required,   \* the graphs that refuse a write naming no judge
    rows,       \* each graph's decisions: the graph the call named, its token's judge, its credit
    seat,       \* the seat the client says it is in now
    binding,    \* the connection's latest claim, <<judge, seat>>, or NoClaim
    tokens,     \* the claims its tokens name
    call,       \* each call in flight
    recorded,   \* the responses kept: the graph each is stamped with, the graph it ran in
    begun, events

turnVars == <<selected, working, mover>>
stored == <<graphs, approved, required, rows>>
connection == <<binding, tokens>>
counts == <<begun, events>>
vars == <<turnVars, database, stored, seat, connection, call, recorded, counts>>

\* The guard's turns, as it promises them.
Turn == INSTANCE ActiveGraph WITH Users <- Calls, Movers <- Calls \cup {Viz}

Claim == Judges \X Seats
Idle == [at |-> "idle", tool |-> "none", graph |-> NoGraph, token |-> NoJudge,
         judge |-> NoJudge, seat |-> CHOOSE s \in Seats : TRUE]

Init ==
    /\ selected = Home /\ database = Home
    /\ working = [c \in Calls |-> NoGraph] /\ mover = NoTask
    /\ graphs = {Home}
    /\ approved \in [Graphs -> {{}, Judges}] /\ \A g \in Graphs \ {Home} : approved[g] = {}
    /\ required \in {{}, {Home}}
    /\ rows = [g \in Graphs |-> {}]
    /\ seat \in Seats
    /\ binding = NoClaim /\ tokens = {}
    /\ call = [c \in Calls |-> Idle]
    /\ recorded = {}
    /\ begun = 0 /\ events = 0

JudgeOf(claim) == IF claim = NoClaim THEN NoJudge ELSE claim[1]

Begin(c, record) ==
    /\ call[c].at = "idle"
    /\ begun < MaxCalls
    /\ begun' = begun + 1
    /\ call' = [call EXCEPT ![c] = record]
    /\ UNCHANGED events

Goes(c, at) == call' = [call EXCEPT ![c].at = at]

-------------------------------------------------------------------------------
(* Who is judging: _judge_for_write, in the tool's body.                     *)

\* wrong_graph, then the claim the write stands on, which must be this seat's; a
\* call this refuses is over with nothing changed.
StartWrite(c, g, claim) ==
    /\ g = database
    /\ claim \in tokens \cup {NoClaim}
    /\ LET stands == IF claim = NoClaim THEN binding ELSE claim
       IN /\ stands # NoClaim => stands[2] = seat
          /\ Begin(c, [Idle EXCEPT !.at = "approving", !.tool = "write", !.graph = g,
                        !.token = JudgeOf(claim), !.judge = JudgeOf(stands)])
    /\ UNCHANGED <<turnVars, database, stored, seat, connection, recorded>>

\* _approved_judge: the judge if the graph approves it, else unknown.
Credited(judge) == IF judge \in approved[selected] THEN judge ELSE NoJudge

ReadApproval(c) ==
    /\ call[c].at = "approving"
    /\ LET judge == Credited(call[c].judge)
       IN call' = [call EXCEPT ![c].judge = judge,
              ![c].at = IF call[c].tool = "write" /\ judge = NoJudge THEN "policy" ELSE "queued"]
    /\ UNCHANGED <<turnVars, database, stored, seat, connection, recorded, counts>>

\* judge_required, read only for a write that names no judge.
ReadPolicy(c) ==
    /\ call[c].at = "policy"
    /\ call' = [call EXCEPT ![c] = IF selected \in required THEN Idle
                                   ELSE [call[c] EXCEPT !.at = "queued"]]
    /\ UNCHANGED <<turnVars, database, stored, seat, connection, recorded, counts>>

\* use_graph reads the bound judge in the same way; delete_graph names no judge.
StartUse(c, g) ==
    /\ Begin(c, [Idle EXCEPT !.at = "approving", !.tool = "use", !.graph = g,
                  !.judge = JudgeOf(binding)])
    /\ UNCHANGED <<turnVars, database, stored, seat, connection, recorded>>

StartDelete(c, g) ==
    /\ Begin(c, [Idle EXCEPT !.at = "queued", !.tool = "delete", !.graph = g])
    /\ UNCHANGED <<turnVars, database, stored, seat, connection, recorded>>

-------------------------------------------------------------------------------
(* Under which turn: _run_with_timeout.                                      *)

TakeTurn(c) ==
    /\ call[c].at = "queued"
    /\ IF call[c].tool = "use" THEN Turn!BeginMove(c) ELSE Turn!Begin(c)
    /\ Goes(c, "in")
    /\ UNCHANGED <<database, stored, seat, connection, recorded, counts>>

\* Mutant: the gate of the tool's body is taken for the gate inside the turn.
PassesGateOnce(c) == TRUE

\* The gate again, now that the graph cannot move.
PassesGate(c) == call[c].tool = "write" => call[c].graph = database

\* The tool's storage calls.
Write(c) ==
    /\ call[c].at = "in" /\ call[c].tool = "write"
    /\ PassesGate(c)
    /\ rows' = [rows EXCEPT ![selected] = @ \cup
                  {[graph |-> call[c].graph, token |-> call[c].token, judge |-> call[c].judge]}]
    /\ Goes(c, "done")
    /\ UNCHANGED <<turnVars, database, graphs, approved, required, seat, connection, recorded, counts>>

\* switch_database, which creates a graph that is not there.
SwitchGraph(c) ==
    /\ call[c].at = "in" /\ call[c].tool = "use"
    /\ Turn!Move(call[c].graph)
    /\ database' = call[c].graph
    /\ graphs' = graphs \cup {call[c].graph}
    /\ Goes(c, "switched")
    /\ UNCHANGED <<approved, required, rows, seat, connection, recorded, counts>>

\* The judge read before the turn, against the graph switched to.
RecheckJudge(c) ==
    /\ call[c].at = "switched"
    /\ binding' = IF call[c].judge \in {NoJudge} \cup approved[selected] THEN binding ELSE NoClaim
    /\ Goes(c, "done")
    /\ UNCHANGED <<turnVars, database, stored, seat, tokens, recorded, counts>>

\* Mutant: the active graph is looked for before the turn, where it may still change.
MayDeleteUnlooked(c) == call[c].graph \in graphs

\* delete_graph looks the graph up and refuses the active one ...
MayDelete(c) == call[c].graph \in graphs /\ call[c].graph # database

CheckDelete(c) ==
    /\ call[c].at = "in" /\ call[c].tool = "delete"
    /\ MayDelete(c)
    /\ Goes(c, "doomed")
    /\ UNCHANGED <<turnVars, database, stored, seat, connection, recorded, counts>>

\* ... and removes it and everything in it.
DeleteGraph(c) ==
    /\ call[c].at = "doomed"
    /\ graphs' = graphs \ {call[c].graph}
    /\ approved' = [approved EXCEPT ![call[c].graph] = {}]
    /\ required' = required \ {call[c].graph}
    /\ rows' = [rows EXCEPT ![call[c].graph] = {}]
    /\ Goes(c, "done")
    /\ UNCHANGED <<turnVars, database, seat, connection, recorded, counts>>

Leave(c) == IF call[c].tool = "use" THEN Turn!EndMove ELSE Turn!End(c)

\* Mutant: a response is stamped with the graph the call named.
StampNamed(c) == call[c].graph

\* _record_response stamps a response with the session's graph.
Stamp(c) == database

\* The turn ends and the response is kept, with nothing between; so for a call the
\* gate or the tool has refused.
Respond(c) ==
    /\ call[c].at = "done" \/ (call[c].at = "in" /\ IF call[c].tool = "delete"
                               THEN ~MayDelete(c) ELSE ~PassesGate(c))
    /\ Leave(c)
    /\ recorded' = recorded \cup {[graph |-> Stamp(c), ran |-> selected]}
    /\ call' = [call EXCEPT ![c] = Idle]
    /\ UNCHANGED <<database, stored, seat, connection, counts>>

\* The tool runs out of time, or fails, anywhere in its turn: nothing is kept of it.
TimeOut(c) ==
    /\ call[c].at \in {"in", "switched", "doomed"}
    /\ Leave(c)
    /\ call' = [call EXCEPT ![c] = Idle]
    /\ UNCHANGED <<database, stored, seat, connection, recorded, counts>>

-------------------------------------------------------------------------------
(* claim_agent, which takes no turn: it waits on a person.                   *)

StartClaim(c, g) ==
    /\ g = database
    /\ Begin(c, [Idle EXCEPT !.at = "asked", !.tool = "claim", !.graph = g, !.seat = seat])
    /\ UNCHANGED <<turnVars, database, stored, seat, connection, recorded>>

\* The user picks a judge, which is approved in the graph the connection is on.
AnswerClaim(c, j) ==
    /\ call[c].at = "asked"
    /\ approved' = [approved EXCEPT ![selected] = @ \cup {j}]
    /\ call' = [call EXCEPT ![c].at = "claimed", ![c].judge = j]
    /\ UNCHANGED <<turnVars, database, graphs, required, rows, seat, connection, recorded, counts>>

\* The claim's record written, it binds in the seat it began in and gets its token.
BindClaim(c) ==
    /\ call[c].at = "claimed"
    /\ binding' = <<call[c].judge, call[c].seat>>
    /\ tokens' = tokens \cup {<<call[c].judge, call[c].seat>>}
    /\ call' = [call EXCEPT ![c] = Idle]
    /\ UNCHANGED <<turnVars, database, stored, seat, recorded, counts>>

-------------------------------------------------------------------------------
(* The rest of the world.                                                    *)

\* The user switches model, or starts another conversation.
ChangeSeat(s) ==
    /\ events < MaxEvents /\ events' = events + 1
    /\ seat' = s
    /\ UNCHANGED <<turnVars, database, stored, connection, call, recorded, begun>>

\* A dashboard read of another graph, under the mover turn.
Borrow(g) ==
    /\ events < MaxEvents /\ events' = events + 1
    /\ mover = NoTask /\ \A c \in Calls : working[c] = NoGraph
    /\ mover' = Viz /\ selected' = g
    /\ UNCHANGED <<working, database, stored, seat, connection, call, recorded, begun>>

GiveBack ==
    /\ mover = Viz
    /\ mover' = NoTask /\ selected' = database
    /\ UNCHANGED <<working, database, stored, seat, connection, call, recorded, counts>>

Next ==
    \/ \E c \in Calls :
          \/ \E g \in Graphs : StartUse(c, g) \/ StartDelete(c, g) \/ StartClaim(c, g)
          \/ \E g \in Graphs, claim \in Claim \cup {NoClaim} : StartWrite(c, g, claim)
          \/ ReadApproval(c) \/ ReadPolicy(c) \/ TakeTurn(c)
          \/ Write(c) \/ SwitchGraph(c) \/ RecheckJudge(c) \/ CheckDelete(c) \/ DeleteGraph(c)
          \/ Respond(c) \/ TimeOut(c)
          \/ \E j \in Judges : AnswerClaim(c, j)
          \/ BindClaim(c)
    \/ \E s \in Seats : ChangeSeat(s)
    \/ \E g \in Graphs : Borrow(g)
    \/ GiveBack

Spec == Init /\ [][Next]_vars
-------------------------------------------------------------------------------
(* Properties.                                                               *)

Row == [graph : Graphs, token : Judges \cup {NoJudge}, judge : Judges \cup {NoJudge}]
Steps == {"idle", "approving", "policy", "queued", "in", "switched", "doomed", "done",
          "asked", "claimed"}
CallRecord == [at : Steps, tool : {"none", "write", "use", "delete", "claim"},
               graph : Graphs \cup {NoGraph}, token : Judges \cup {NoJudge},
               judge : Judges \cup {NoJudge}, seat : Seats]

\* The variables have their types.
TypeOK ==
    /\ selected \in Graphs /\ database \in Graphs
    /\ working \in [Calls -> Graphs \cup {NoGraph}] /\ mover \in Calls \cup {Viz, NoTask}
    /\ graphs \subseteq Graphs /\ required \subseteq Graphs
    /\ approved \in [Graphs -> SUBSET Judges] /\ rows \in [Graphs -> SUBSET Row]
    /\ seat \in Seats /\ binding \in Claim \cup {NoClaim} /\ tokens \subseteq Claim
    /\ call \in [Calls -> CallRecord]
    /\ recorded \subseteq [graph : Graphs, ran : Graphs]
    /\ begun \in 0..MaxCalls /\ events \in 0..MaxEvents

\* The wrong-graph gate: a decision is in the graph its call named, and that graph is
\* there, whatever was switched, borrowed or deleted between the call's first line
\* and its last.
WritesLandWhereNamed == \A g \in Graphs : \A r \in rows[g] : r.graph = g /\ g \in graphs

\* delete_graph runs beside calls of other kinds, and never takes the graph the
\* session is on away from under it.
ActiveGraphExists == database \in graphs

\* A write that carries a token is credited to that claim's judge or to nobody; "it
\* never falls back to the binding", which another agent may have claimed since.
TokenCreditsItsClaim ==
    \A g \in Graphs : \A r \in rows[g] : r.token # NoJudge => r.judge \in {r.token, NoJudge}

\* A response is kept under the graph its call ran in: the graph it was read in for a
\* read, and the graph it was switched to for a switch.
RecordedWhereItRan == \A r \in recorded : r.graph = r.ran

\* The shape of the state, the graph under the session, and the judge on each row.
SessionIsSound == TypeOK /\ ActiveGraphExists /\ TokenCreditsItsClaim
===============================================================================
