--------------------------- MODULE RequestStream ---------------------------
(***************************************************************************)
(* The requests of a mailbox on their way to the server: those it has      *)
(* received, the packets on the wire, and the requests that are buffered.  *)
(* Requests are known by the ids that send gave them, in ascending order.  *)
(***************************************************************************)
EXTENDS Integers, Sequences

\* The ids of s ascend: none is there twice, and none before an earlier one.
Ascends(s) == \A i, j \in DOMAIN s : i < j => s[i] < s[j]

\* The requests of s were all sent before those of t.
Precedes(s, t) == \A i \in DOMAIN s, j \in DOMAIN t : s[i] < t[j]

\* Received, on the wire and buffered, in this order, the ids ascend.
InOrder(served, packets, buffer) ==
  /\ Ascends(served) /\ Ascends(buffer) /\ Precedes(served, buffer)
  /\ \A p \in DOMAIN packets :
       /\ Precedes(served, packets[p])
       /\ Ascends(packets[p])
       /\ Precedes(packets[p], buffer)
       /\ \A q \in DOMAIN packets : p < q => Precedes(packets[p], packets[q])

\* The ids of s were all given before id n.
Below(s, n) == \A i \in DOMAIN s : s[i] < n

\* The ids ascend, and the next id n is above all of them.
Stream(served, packets, buffer, n) ==
  /\ served \in Seq(Nat) /\ packets \in Seq(Seq(Nat)) /\ buffer \in Seq(Nat)
  /\ n \in Nat
  /\ InOrder(served, packets, buffer)
  /\ Below(served, n) /\ Below(buffer, n)
  /\ \A p \in DOMAIN packets : Below(packets[p], n)
=============================================================================
