------------------------------ MODULE Acceptors ------------------------------
(***************************************************************************)
(* The five acceptors behind the gateway, and what they promise.           *)
(***************************************************************************)
EXTENDS AcceptorState

Mqtt  == INSTANCE MqttAcceptor
Tcp   == INSTANCE TcpAcceptor
Ws    == INSTANCE WsAcceptor
Ws2   == INSTANCE Ws2Acceptor
Mqtt2 == INSTANCE Mqtt2Acceptor

Init == Mqtt!Init \/ Tcp!Init \/ Ws!Init \/ Ws2!Init \/ Mqtt2!Init

Next ==
  \/ Start \/ Stop
  \/ kind = "mqtt" /\ Mqtt!Next
  \/ kind = "tcp" /\ Tcp!Next
  \/ kind = "ws" /\ Ws!Next
  \/ kind = "ws2" /\ Ws2!Next
  \/ kind = "mqtt2" /\ Mqtt2!Next

Spec == Init /\ [][Next]_vars

Flush ==
  \/ kind = "mqtt2" /\ Mqtt2!Flush
  \/ kind = "ws2" /\ Ws2!Flush
  \/ kind \in {"mqtt", "tcp", "ws"} /\ FlushQueues

\* A handler runs to its end, and the flush timer fires while it is armed,
\* however many packets arrive.  Services, clients and links may do nothing.
FairSpec == Spec /\ WF_vars(Call \/ Return) /\ SF_vars(Flush)

-----------------------------------------------------------------------------
(* Safety.                                                                 *)

Queue(k) == IF k \in DOMAIN msgQueues THEN msgQueues[k] ELSE <<>>

\* Every request that arrived is yet to be called, at a service that has not
\* called back, or answered, unless a service that was called before it, for the
\* same packet, threw: stop, closed connections and the catch of the handler
\* (mqtt-acceptor 53-73, 132-178) lose no other, and none is called again.
NoLostRequest ==
  \A c \in Conns : \A id \in 0 .. received[c] - 1 :
    LET due == c = conn /\ id \in Range(rest)
        called_ == <<c, id>> \in serving \/ id \in Range(answered[c])
    IN  \/ due /\ ~called_ /\ <<c, id>> \notin dropped
        \/ called_ /\ ~due /\ <<c, id>> \notin dropped
        \/ <<c, id>> \in dropped /\ ~called_ /\ ~due
             /\ \E before \in 0 .. id - 1 : <<c, before>> \in failed

\* The replies of connection c are the answers to the requests ids, in order, and
\* errors.
Carries(replies, c, ids) ==
  \E at \in [DOMAIN ids -> DOMAIN replies] :
    /\ \A i, j \in DOMAIN ids : i < j => at[i] < at[j]
    /\ \A i \in DOMAIN ids : replies[at[i]] = Reply(c, ids[i], FALSE)
    /\ \A n \in DOMAIN replies : replies[n].error \/ \E i \in DOMAIN ids : at[i] = n

\* An open connection is sent every answer to its requests once, in the order in
\* which the services called back, however its queue is created, flushed and
\* reset (mqtt-acceptor 166-207).  Only the errors of services that throw go past
\* the queue.  The tcp acceptor promises it only without a queue, the mqtt2
\* acceptor as well.
AnswersInOrder ==
  (kind \in {"tcp", "mqtt2"} => ~bufferMsg) =>
    \A c \in open : Carries(written[c] \o Queue(c), c, answered[c])

\* What a connection is sent answers its own requests.
RepliesReachRequester ==
  \A c \in Conns : \A i \in DOMAIN written[c] : written[c][i].to = c

-----------------------------------------------------------------------------
(* Liveness.                                                               *)

\* A buffered reply is sent while the acceptor is open, or goes with its
\* connection, whatever queues of closed connections are flushed with it
\* (mqtt-acceptor 189-207).  Once the acceptor is closed nothing flushes the
\* queues.
ReplyFlushed ==
  \A k \in 0 .. MaxConns : Queue(k) # <<>> ~> Queue(k) = <<>> \/ stoped \/ crashed

\* A queue that is created after its connection was closed is removed again
\* (mqtt-acceptor 195-199), as long as the acceptor is open.
OrphanRemoved ==
  \A k \in 0 .. MaxConns :
    k \in DOMAIN msgQueues \ DOMAIN sockets
      ~> k \notin DOMAIN msgQueues \ DOMAIN sockets \/ stoped \/ crashed
=============================================================================
