------------------------------ MODULE Services ------------------------------
(***************************************************************************)
(* The services of a server: how they are loaded (rpc-server/server), how  *)
(* mqtt2 codes the names of a call by their positions (util/utils and      *)
(* util/coder), and how the dispatcher finds the method of a call.         *)
(*                                                                         *)
(* A method is a triple of namespace, service and method name, and the     *)
(* services are the set of their methods.  The order in which the nested   *)
(* objects are enumerated is any fixed one: both sides code by one map.    *)
(***************************************************************************)
EXTENDS Integers, Sequences, FiniteSets, Functions, SequencesExt

CONSTANT NoMethod  \* what a call that finds no method runs

-----------------------------------------------------------------------------

ServiceOf(m) == SubSeq(m, 1, 2)

\* loadRemoteServices: a service takes the place of that of an earlier path with
\* the same namespace and name.
LoadRemoteServices(paths, code) ==
  UNION {{m \in code[paths[i]] :
            \A j \in i + 1 .. Len(paths) :
              ServiceOf(m) \notin {ServiceOf(l) : l \in code[paths[j]]}} :
         i \in DOMAIN paths}

\* The namespaces (n = 1), services (n = 2) or methods (n = 3), enumerated: a
\* name comes once for each object it is a field of.
Enumerated(services, n) == SetToSeq({SubSeq(m, 1, n) : m \in services})

\* genServicesMap: the lists of names; the maps hold the last position of each.
GenServicesMap(services) ==
  [n \in 1 .. 3 |->
     [i \in DOMAIN Enumerated(services, n) |-> Enumerated(services, n)[i][n]]]

\* A name without a position is undefined, which is written as 0.
Position(list, name) ==
  Max({1} \union {i \in DOMAIN list : list[i] = name}) - 1

EncodeClientShifted(msg, map) ==  \* mutant: methods are counted from 1
  [n \in 1 .. 3 |-> Position(map[n], msg[n]) + (IF n = 3 THEN 1 ELSE 0)]
\* encodeClient
EncodeClient(msg, map) == [n \in 1 .. 3 |-> Position(map[n], msg[n])]

\* decodeServer
DecodeServer(code, map) ==
  [n \in 1 .. 3 |-> IF code[n] < Len(map[n]) THEN map[n][code[n] + 1] ELSE NoMethod]

\* Dispatcher.route: the method of the message, or no such namespace, service
\* or method.
Route(services, msg) == IF msg \in services THEN msg ELSE NoMethod
=============================================================================
