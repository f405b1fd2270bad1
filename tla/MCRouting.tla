----------------------------- MODULE MCRouting -----------------------------
(***************************************************************************)
(* Routing for TLC: two servers of one type and one of another, with       *)
(* replicas that lie between those of the other servers.                   *)
(***************************************************************************)
EXTENDS Routing, TLC

CONSTANTS a, b, logic1, logic2, area

MCTypeOf == (logic1 :> a) @@ (logic2 :> a) @@ (area :> b)

MCHashOf ==
  [x \in Servers \X (0 .. Replicas - 1) |->
     CASE x[1] = logic1 -> 2 + 8 * x[2]
       [] x[1] = logic2 -> 4 + 2 * x[2]
       [] x[1] = area   -> 8 + 4 * x[2]]
=============================================================================
