---------------------------- MODULE MqttAcceptor ----------------------------
(***************************************************************************)
(* The mqtt acceptor (rpc-server/acceptors/mqtt-acceptor).                 *)
(***************************************************************************)
EXTENDS AcceptorState

Init == New("mqtt")

Accept == Admit(FALSE)

\* onSocketClose: on 'error' and 'close', and on a DISCONNECT packet, after
\* which packets may still arrive.
SocketClose(c) == Idle /\ Leave(c)

\* The 'publish' event.
Publish(c, alone, n) == Arrive(c, alone, n)

ProcessMsg == Call
PublishDone == Return

\* The catch of the handler sends an error, past the queue.  isArray is set
\* after processMsgs only, so an array is answered as well, but has no id.
Throw ==
  /\ DropRest
  /\ DoSend(conn, <<Reply(conn, IF single THEN called ELSE NoId, TRUE)>>)
  /\ UNCHANGED crashed

Flush == FlushQueues

Next ==
  \/ Accept \/ Flush \/ ProcessMsg \/ PublishDone \/ Throw
  \/ \E c \in Conns :
       \/ SocketClose(c)
       \/ \E alone \in BOOLEAN, n \in 1 .. MaxBatch : Publish(c, alone, n)
       \/ \E id \in Ids : Answer(c, id)
=============================================================================
