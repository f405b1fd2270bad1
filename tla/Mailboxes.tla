------------------------------ MODULE Mailboxes ------------------------------
(***************************************************************************)
(* The four mailboxes that are not mqtt, side by side: what each of them   *)
(* still promises the callers of send.                                     *)
(***************************************************************************)
EXTENDS MailboxState, RequestStream

Tcp   == INSTANCE TcpMailbox
Ws    == INSTANCE WsMailbox
Ws2   == INSTANCE Ws2Mailbox
Mqtt2 == INSTANCE Mqtt2Mailbox

\* mqtt2 decodes one reply from a packet.
Server ==
  \/ LinkDies \/ ServerReceive
  \/ \E n \in 1 .. MaxBatch : (kind = "mqtt2" => n = 1) /\ ServerReply(n)

Init == Tcp!Init \/ Ws!Init \/ Ws2!Init \/ Mqtt2!Init

Next ==
  \/ kind = "tcp" /\ Tcp!Next
  \/ kind = "ws" /\ Ws!Next
  \/ kind = "ws2" /\ Ws2!Next
  \/ kind = "mqtt2" /\ Mqtt2!Next
  \/ Server

Spec == Init /\ [][Next]_vars

\* As for MqttMailbox: handlers run to their end and timers that are armed
\* fire, and nothing is assumed of the socket, the server or the callers.
Turn ==
  \/ kind = "tcp" /\ Tcp!ProcessMsg
  \/ kind = "ws" /\ (Ws!ProcessMsg \/ Ws!CutCall \/ Ws!DisconnectDone)
  \/ kind = "ws2" /\ (Ws2!ProcessMsg \/ Ws2!CutCall \/ Ws2!CloseDone)
  \/ kind = "mqtt2" /\ (Mqtt2!ProcessMsg \/ Mqtt2!CutCall \/ Mqtt2!DisconnectDone)

CheckKeepAlive ==
  \/ kind = "ws2" /\ Ws2!CheckKeepAlive
  \/ kind = "mqtt2" /\ Mqtt2!CheckKeepAlive

CallbackTimeout(id) ==
  \/ kind = "tcp" /\ Tcp!CallbackTimeout(id)
  \/ kind = "ws" /\ Ws!CallbackTimeout(id)
  \/ kind = "ws2" /\ Ws2!CallbackTimeout(id)
  \/ kind = "mqtt2" /\ Mqtt2!CallbackTimeout(id)

FairSpec ==
  /\ Spec
  /\ WF_vars(Turn)
  /\ SF_vars(CheckKeepAlive)
  /\ \A id \in Ids : SF_vars(CallbackTimeout(id))

-----------------------------------------------------------------------------

\* How often a callback may be called.  ws and mqtt2 keep the requests of a
\* connection that breaks, whose timers call back again (ws-mailbox 72-81,
\* mqtt2-mailbox 96-104).
MaxAnswers ==
  CASE kind = "ws" -> 2 [] kind = "mqtt2" -> 1 + cuts [] OTHER -> 1

\* Whatever order replies, timers and the end of the connection come in, no
\* callback is called after a result or a timeout; the tcp and ws2 mailboxes
\* call it once at most.
AnswersBounded ==
  \A id \in Ids :
    /\ Len(log[id]) <= MaxAnswers
    /\ \A i \in 1 .. Len(log[id]) - 1 : log[id][i] = "disconnect"

\* A callback is given a result only if the server received that very call.
OkMeansReceived ==
  \A id \in Ids : "ok" \in Range(log[id]) => id \in Range(received)

\* A callback that sees no error is that of a call the server received.
SuccessMeansReceived ==
  \A id \in Ids :
    Range(log[id]) \intersect {"ok", "cut"} # {} => id \in Range(received)

\* No request reaches the server twice or before one that was sent earlier.
InOrderOnce == InOrder(received, c2s, queue)

\* Every call that was accepted is answered, whatever was repeated, cut, thrown
\* or closed, but for those that their timers lose: that of ws2 answers nobody
\* (lines 263-271), that of tcp takes the process with it (lines 189-197).
EveryCallAnswered ==
  \A id \in Ids :
    id < curId ~> log[id] # <<>> \/ crashed \/ (kind = "ws2" /\ id \in expired)

\* A connection that dies without any event is noticed by the transports that
\* have a keepalive, and the mailbox is closed.
DeadPeerNoticed ==
  (kind \in {"ws2", "mqtt2"} /\ socket = "dead" /\ Listening) ~> (closed \/ crashed)
=============================================================================
