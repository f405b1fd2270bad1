------------------------------ MODULE MCClient ------------------------------
(***************************************************************************)
(* Three paths.  The last one takes the place of the service of the first, *)
(* the second has a service of that name in another namespace, and the     *)
(* code of the first and the last may change.                              *)
(***************************************************************************)
EXTENDS Client

AnyServer == Permutations(Servers)

MCPaths == <<"p1", "p2", "p3">>

MCCode == [p1 |-> {<<"sys", "chat", "put">>},
           p2 |-> {<<"user", "chat", "get">>},
           p3 |-> {<<"sys", "chat", "get">>, <<"sys", "chat", "list">>}]

MCNewCode == [p1 |-> {<<"sys", "chat", "put">>, <<"sys", "chat", "get">>},
              p2 |-> {<<"user", "chat", "get">>},
              p3 |-> {<<"sys", "chat", "get">>}]
=============================================================================
