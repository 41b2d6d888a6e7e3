----------------------------- MODULE MCRetrieval -----------------------------
(* Three nodes, alike in the order of their ids.  The searches differ in what the
   terms and the passage match, whether the terms are declared, which statuses and
   which metacontexts are asked for, and what is valid at the moment asked about.  *)
EXTENDS Retrieval

Search(exact, passage, declared, statuses, valid, scope) ==
    [like |-> <<1, 2, 3>>, exact |-> exact, passage |-> passage, declared |-> declared,
     statuses |-> statuses, valid |-> valid, scope |-> scope, links |-> {{1, 2}, {2, 3}}]

Current == {"active"}
WithHistory == {"active", "historical"}
WithErrors == {"active", "historical", "corrected"}

MCQueries ==
    {Search(exact, passage, TRUE, WithHistory, {}, Nodes) :
        exact \in {<<3>>, <<3, 2>>}, passage \in {<<>>, <<2, 1>>}}
    \cup {Search(<<>>, <<1>>, TRUE, statuses, {2}, scope) :
        statuses \in {WithHistory, WithErrors}, scope \in {Nodes, {3}}}
    \cup {Search(<<3>>, <<2>>, TRUE, Current, {}, Nodes), Search(<<3>>, <<2>>, FALSE, WithHistory, {}, Nodes)}
=============================================================================
