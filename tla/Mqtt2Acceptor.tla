---------------------------- MODULE Mqtt2Acceptor ----------------------------
(***************************************************************************)
(* The mqtt2 acceptor (rpc-server/acceptors/mqtt2-acceptor): mqtt with     *)
(* coded messages, one in each packet, after a handshake that carries the  *)
(* map of services.                                                        *)
(***************************************************************************)
EXTENDS AcceptorState

Init == New("mqtt2")

Accept == Admit(TRUE)

\* The 'connect' packet of the client: sendHandshake generates the map of
\* services, for the acceptor and for the client.
Handshake(c) ==
  /\ Idle /\ c \in waiting
  /\ waiting' = waiting \ {c}
  /\ UNCHANGED <<gateway, curId, open, sockets, msgQueues, running, serving,
                 history>>

\* onSocketClose: on 'error' and 'close', and on a DISCONNECT packet.
SocketClose(c) == Idle /\ Leave(c)

\* The 'publish' event: a client needs the map to send.
Publish(c) == c \notin waiting /\ Arrive(c, TRUE, 1)
ProcessMsg == Call
PublishDone == Return

\* The catch of the handler encodes an error, and does not send it.
Throw == DropRest /\ UNCHANGED <<written, crashed>>

\* flush publishes the array of coded replies, which is no payload: writing it
\* throws, or fails in the stream, and none of them is sent.
Flush ==
  /\ Idle /\ interval
  /\ \/ msgQueues' = Flushed /\ UNCHANGED crashed
     \/ /\ \E k \in DOMAIN msgQueues \intersect DOMAIN sockets : msgQueues[k] # <<>>
        /\ crashed' = TRUE /\ UNCHANGED msgQueues
  /\ UNCHANGED <<gateway, links, conn, single, rest, called, serving, history>>

Next ==
  \/ Accept \/ Flush \/ ProcessMsg \/ PublishDone \/ Throw
  \/ \E c \in Conns :
       \/ Handshake(c) \/ SocketClose(c) \/ Publish(c)
       \/ \E id \in Ids : Answer(c, id)
=============================================================================
