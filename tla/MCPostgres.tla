------------------------------ MODULE MCPostgres ------------------------------
(***************************************************************************)
(* Two servers on one graph: one with two tool calls, the other with one.  *)
(* The two calls of one server, and the two nodes, may be exchanged in any *)
(* behaviour, so one of each pair of initial states is enough.             *)
(***************************************************************************)
EXTENDS PostgresServers, TLC

CONSTANTS s1, s2, c1, c2, c3, n1, n2

MCHome == (c1 :> s1) @@ (c2 :> s1) @@ (c3 :> s2)

Rank == [op \in Ops |-> CHOOSE r \in 1..7 :
           <<"archive", "complete", "ingest", "timeline", "coin", "recut", "verdict">>[r] = op]

MCInit ==
  /\ Init
  /\ Rank[call[c1].op] <= Rank[call[c2].op]
  /\ \A c \in {c1, c3} : (call[c].op = "archive" /\ (c = c3 => call[c1].op # "archive"))
                           => call[c].todo = <<n1, n2>>

MCSpec == MCInit /\ [][Next]_vars /\ Fairness
=============================================================================
