------------------------------ MODULE ActiveGraph ------------------------------
(***************************************************************************)
(* What storage/active_graph.py promises, with no guard in sight: the      *)
(* active graph does not move while a logical operation is using it.       *)
(***************************************************************************)
CONSTANTS Users, Movers, Graphs, NoTask, NoGraph

VARIABLES
    selected,   \* the graph every storage call lands in
    working,    \* the graph each user began its operation in, or NoGraph
    mover       \* whose turn it is to move the graph, or NoTask

Init ==
    /\ selected \in Graphs
    /\ working = [u \in Users |-> NoGraph]
    /\ mover = NoTask

Begin(u) ==
    /\ working[u] = NoGraph
    /\ mover = NoTask
    /\ working' = [working EXCEPT ![u] = selected]
    /\ UNCHANGED <<selected, mover>>

End(u) ==
    /\ working[u] # NoGraph
    /\ working' = [working EXCEPT ![u] = NoGraph]
    /\ UNCHANGED <<selected, mover>>

BeginMove(m) ==
    /\ mover = NoTask
    /\ \A u \in Users : working[u] = NoGraph
    /\ mover' = m
    /\ UNCHANGED <<selected, working>>

Move(g) ==
    /\ mover # NoTask
    /\ selected' = g
    /\ UNCHANGED <<working, mover>>

EndMove ==
    /\ mover # NoTask
    /\ mover' = NoTask
    /\ UNCHANGED <<selected, working>>

Next ==
    \/ \E u \in Users : Begin(u) \/ End(u)
    \/ \E m \in Movers : BeginMove(m)
    \/ \E g \in Graphs : Move(g)
    \/ EndMove

Spec == Init /\ [][Next]_<<selected, working, mover>>

===============================================================================
