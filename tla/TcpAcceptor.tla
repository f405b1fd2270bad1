----------------------------- MODULE TcpAcceptor -----------------------------
(***************************************************************************)
(* The tcp acceptor (rpc-server/acceptors/tcp-acceptor).  It knows its     *)
(* connections by socket.id, which net sockets do not have: the last one   *)
(* that was accepted is the only one it knows, and all share a queue.      *)
(***************************************************************************)
EXTENDS AcceptorState

Init == New("tcp")

Accept == Admit(FALSE)

SocketClose(c) == Idle /\ Leave(c)

\* The data of the composer: nothing catches what a service throws.
Data(c, alone, n) == c \in open /\ Arrive(c, alone, n)
ProcessMsg == Call
DataDone == Return
Throw == DropRest /\ crashed' = TRUE /\ UNCHANGED written

Flush == FlushQueues

Next ==
  \/ Accept \/ Flush \/ ProcessMsg \/ DataDone \/ Throw
  \/ \E c \in Conns :
       \/ SocketClose(c)
       \/ \E alone \in BOOLEAN, n \in 1 .. MaxBatch : Data(c, alone, n)
       \/ \E id \in Ids : Answer(c, id)
=============================================================================
