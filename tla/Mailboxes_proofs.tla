-------------------------- MODULE Mailboxes_proofs --------------------------
(***************************************************************************)
(* Theorems about Mailboxes, for every value of its constants: callbacks   *)
(* are called as often as the transport allows and no more, results are    *)
(* passed only to calls that the server has received, and the server       *)
(* receives the requests in the order of send.  The state keeps its types, *)
(* and the mailboxes implement the promise of RpcCalls.                    *)
(***************************************************************************)
EXTENDS Mailboxes, RequestStream_proofs

-----------------------------------------------------------------------------
(* The inductive invariant.                                                *)

\* The types of what a call goes through.
Types ==
  /\ kind \in {"tcp", "ws", "ws2", "mqtt2"}
  /\ curId \in Nat /\ cuts \in Nat
  /\ requests \subseteq Ids /\ queue \in Seq(Ids)
  /\ batch \in Seq(Ids)
  /\ c2s \in Seq(Seq(Ids)) /\ s2c \in Seq(Seq(Ids)) /\ received \in Seq(Ids)
  /\ log \in [Ids -> Seq(Outcomes)]

\* A callback has its timer; the calls that are still to be cut are pending; the
\* two transports that cut the calls of a lost connection do it once, and a ws2
\* mailbox then gets no reply any more.
HandlerInv ==
  /\ requests = timeout
  /\ cut \subseteq requests
  /\ cut # {} => cutting
  /\ kind \in {"ws", "ws2"} /\ cutting => socket = "down"
  /\ kind = "ws2" /\ socket = "down" => batch = <<>>

\* An id that was not given yet is nowhere.
FreshInv == \A id \in Ids : id >= curId => id \notin requests /\ log[id] = <<>>

\* The callback is still to be called for the last time.  That of a call of ws2
\* is called for the last time when the connection is cut, and kept.
Owed(id) ==
  id \in requests /\ (kind = "ws2" /\ socket = "down" => id \in cut)

\* How often the callback may have been called before.
Disconnects(id) ==
  IF kind = "ws" THEN (IF socket = "down" /\ id \notin cut THEN 1 ELSE 0)
  ELSE IF kind = "mqtt2" THEN (IF id \in cut THEN cuts - 1 ELSE cuts)
  ELSE 0

\* Each callback was called for the notices, and once more unless that is owed.
AnswerInv ==
  \A id \in Ids :
    /\ Len(log[id]) <= Disconnects(id) + (IF Owed(id) THEN 0 ELSE 1)
    /\ \A i \in 1 .. Len(log[id]) :
         log[id][i] = "disconnect" \/ (~Owed(id) /\ i = Len(log[id]))

\* The replies on their way to a callback are to requests the server received.
ReplyInv ==
  /\ Range(batch) \subseteq Range(received)
  /\ \A i \in DOMAIN s2c : Range(s2c[i]) \subseteq Range(received)

CallInv == HandlerInv /\ FreshInv /\ AnswerInv

ResultInv == ReplyInv /\ OkMeansReceived

\* The requests on their way were given their ids, and there is a queue only if
\* requests are buffered.
StreamInv ==
  /\ Stream(received, c2s, queue, curId)
  /\ ~bufferMsg => queue = <<>>

IInv == Types /\ CallInv /\ ResultInv /\ StreamInv

-----------------------------------------------------------------------------
(* What a step does to the calls.                                          *)

\* A connection that is down stays down, where that matters, and a ws2 mailbox
\* goes down only with the calls cut.
SocketMoves ==
  /\ kind \in {"ws", "ws2"} /\ socket = "down" => socket' = "down"
  /\ kind = "ws2" /\ socket' = "down" => socket = "down"

\* A step of the connection, the end of a loop, or a flush.
Quiet ==
  /\ UNCHANGED <<kind, bufferMsg, curId, requests, timeout, batch, cut, received, cuts, log>>
  /\ SocketMoves
  /\ UNCHANGED cutting \/ (cutting' = FALSE /\ cut = {})
  /\ s2c' = s2c \/ s2c' = <<>>
  /\ \/ queue' = queue /\ (c2s' = c2s \/ c2s' = <<>>)
     \/ queue' = <<>> /\ (c2s' = c2s \/ c2s' = Append(c2s, queue))

Registers ==
  /\ curId < MaxCalls
  /\ curId' = curId + 1
  /\ requests' = requests \union {curId}
  /\ timeout' = timeout \union {curId}
  /\ \/ bufferMsg /\ queue' = Append(queue, curId) /\ c2s' = c2s
     \/ /\ ~bufferMsg /\ queue' = queue
        /\ c2s' = c2s \/ c2s' = Append(c2s, <<curId>>)
  /\ UNCHANGED <<kind, bufferMsg, batch, cutting, cut, socket, s2c, received, cuts, log>>

Arrives ==
  /\ s2c # <<>> /\ socket # "down"
  /\ batch' = Head(s2c)
  /\ s2c' = Tail(s2c)
  /\ UNCHANGED <<kind, bufferMsg, curId, requests, timeout, queue, cutting, cut, socket, c2s,
                 received, cuts, log>>

Drops ==
  /\ batch # <<>> /\ Head(batch) \notin requests
  /\ timeout' = timeout \ {Head(batch)}
  /\ batch' = Tail(batch)
  /\ UNCHANGED <<kind, bufferMsg, curId, requests, queue, cutting, cut, socket, c2s, s2c,
                 received, cuts, log>>

Forgets(id) == requests' = requests \ {id} /\ timeout' = timeout \ {id}

Tells(id, outcome) == log' = [log EXCEPT ![id] = Append(@, outcome)]

Takes ==
  /\ batch # <<>> /\ ~cutting /\ Head(batch) \in requests
  /\ Forgets(Head(batch))
  /\ Tells(Head(batch), "ok")
  /\ batch' = Tail(batch) \/ batch' = <<>>
  /\ UNCHANGED <<kind, bufferMsg, curId, queue, cutting, cut, socket, c2s, s2c, received, cuts>>

CutStarts ==
  /\ ~cutting /\ cutting' = TRUE /\ cut' = requests
  /\ \/ kind = "ws" /\ socket # "down" /\ socket' = "down" /\ UNCHANGED cuts
     \/ /\ kind = "ws2" /\ socket # "down" /\ socket' = "down" /\ batch = <<>>
        /\ UNCHANGED cuts
     \/ kind = "mqtt2" /\ cuts' = cuts + 1 /\ UNCHANGED socket
  /\ c2s' = c2s \/ c2s' = <<>>
  /\ s2c' = s2c \/ s2c' = <<>>
  /\ UNCHANGED <<kind, bufferMsg, curId, requests, timeout, queue, batch, received, log>>

CutTurns ==
  /\ cutting
  /\ \E id \in cut :
       /\ cut' = cut \ {id}
       /\ \/ kind \in {"ws", "mqtt2"} /\ Tells(id, "disconnect")
          \/ kind = "ws2" /\ Tells(id, "cut")
  /\ UNCHANGED <<kind, bufferMsg, curId, requests, timeout, queue, batch, cutting, socket,
                 c2s, s2c, received, cuts>>

Expires ==
  /\ ~cutting
  /\ \E id \in timeout :
       /\ Forgets(id)
       /\ \/ kind \in {"ws", "mqtt2"} /\ Tells(id, "timeout")
          \/ kind \in {"tcp", "ws2"} /\ UNCHANGED log
  /\ UNCHANGED <<kind, bufferMsg, curId, queue, batch, cutting, cut, socket, c2s, s2c,
                 received, cuts>>

Receives ==
  /\ c2s # <<>>
  /\ received' = received \o Head(c2s)
  /\ c2s' = Tail(c2s)
  /\ UNCHANGED <<kind, bufferMsg, curId, requests, timeout, queue, batch, cutting, cut,
                 socket, s2c, cuts, log>>

Replies ==
  /\ \E n \in Nat : \E packet \in [1 .. n -> Range(received)] : s2c' = <<packet>>
  /\ UNCHANGED <<kind, bufferMsg, curId, requests, timeout, queue, batch, cutting, cut,
                 socket, c2s, received, cuts, log>>

Step ==
  \/ Quiet \/ Registers \/ Arrives \/ Drops \/ Takes
  \/ CutStarts \/ CutTurns \/ Expires \/ Receives \/ Replies

LEMMA TcpSteps ==
  ASSUME kind = "tcp", Tcp!Next
  PROVE  Step
<1>1. CASE Tcp!Connect
  BY <1>1
     DEF Tcp!Connect, Tcp!Dial, Tcp!Idle, Tcp!options, Tcp!mailbox, Tcp!calls,
         Tcp!loop, Tcp!wire, Tcp!answers, SocketMoves, Quiet, Step
<1>2. CASE Tcp!ConnectDone
  BY <1>2
     DEF Tcp!ConnectDone, Tcp!Established, Tcp!options, Tcp!mailbox, Tcp!calls,
         Tcp!loop, Tcp!wire, Tcp!answers, SocketMoves, Quiet, Step
<1>3. CASE Tcp!Close
  BY <1>3
     DEF Tcp!Close, Tcp!Closing, Tcp!options, Tcp!mailbox, Tcp!calls, Tcp!loop,
         Tcp!wire, Tcp!answers, SocketMoves, Quiet, Step
<1>4. CASE Tcp!SocketError
  BY <1>4
     DEF Tcp!SocketError, Tcp!options, Tcp!mailbox, Tcp!calls, Tcp!loop,
         Tcp!wire, Tcp!answers, SocketMoves, Quiet, Step
<1>5. CASE Tcp!End
  BY <1>5
     DEF Tcp!End, Tcp!options, Tcp!mailbox, Tcp!calls, Tcp!loop, Tcp!wire,
         Tcp!answers, SocketMoves, Quiet, Step
<1>6. CASE Tcp!Flush
  BY <1>6
     DEF Tcp!Flush, Tcp!FlushQueue, Tcp!Write, Tcp!options, Tcp!mailbox,
         Tcp!calls, Tcp!loop, Tcp!wire, Tcp!answers, SocketMoves, Quiet, Step
<1>7. CASE Tcp!Send
  BY <1>7
     DEF Tcp!Send, Tcp!SendCall, Tcp!Register, Tcp!BufferOrWrite, Tcp!Write,
         Tcp!options, Tcp!mailbox, Tcp!calls, Tcp!loop, Tcp!wire, Tcp!answers,
         Registers, Step
<1>8. CASE Tcp!Data
  BY <1>8
     DEF Tcp!Data, Tcp!Arrive, Tcp!options, Tcp!mailbox, Tcp!calls, Tcp!loop,
         Tcp!wire, Tcp!answers, Arrives, Step
<1>9. CASE Tcp!ProcessMsg
  BY <1>9
     DEF Tcp!ProcessMsg, Tcp!DropReply, Tcp!CallBack, Tcp!TakeReply,
         Tcp!Answer, Tcp!Forget, Tcp!options, Tcp!mailbox, Tcp!calls, Tcp!loop,
         Tcp!wire, Tcp!answers, Forgets, Tells, Drops, Takes, Step
<1>10. ASSUME NEW id \in Tcp!Ids, Tcp!CallbackTimeout(id)
      PROVE  Step
  BY <1>10
     DEF Tcp!CallbackTimeout, Tcp!Expire, Tcp!Idle, Tcp!Forget, Tcp!options,
         Tcp!mailbox, Tcp!calls, Tcp!loop, Tcp!wire, Tcp!answers, Forgets,
         Tells, Expires, Step
<1>. QED
  BY <1>1, <1>2, <1>3, <1>4, <1>5, <1>6, <1>7, <1>8, <1>9, <1>10 DEF Tcp!Next

LEMMA WsSteps ==
  ASSUME kind = "ws", Ws!Next, HandlerInv
  PROVE  Step
<1>1. CASE Ws!Connect
  BY <1>1
     DEF Ws!Connect, Ws!Dial, Ws!Idle, Ws!options, Ws!mailbox, Ws!calls,
         Ws!loop, Ws!wire, Ws!answers, SocketMoves, Quiet, Step
<1>2. CASE Ws!ConnectDone
  BY <1>2
     DEF Ws!ConnectDone, Ws!Established, Ws!options, Ws!mailbox, Ws!calls,
         Ws!loop, Ws!wire, Ws!answers, SocketMoves, Quiet, Step
<1>3. CASE Ws!DisconnectDone
  BY <1>3
     DEF Ws!DisconnectDone, Ws!CutEnds, Ws!MarkClosed, Ws!options, Ws!mailbox,
         Ws!calls, Ws!loop, Ws!wire, Ws!answers, SocketMoves, Quiet, Step
<1>4. CASE Ws!Flush
  BY <1>4
     DEF Ws!Flush, Ws!FlushQueue, Ws!Write, Ws!options, Ws!mailbox, Ws!calls,
         Ws!loop, Ws!wire, Ws!answers, SocketMoves, Quiet, Step
<1>5. CASE Ws!Close
  BY <1>5
     DEF HandlerInv, Ws!Close, Ws!CloseThen, Ws!MarkClosed, Ws!Gone, Ws!CutAll, Ws!options,
         Ws!mailbox, Ws!calls, Ws!loop, Ws!wire, Ws!answers, SocketMoves,
         Quiet, CutStarts, Step
<1>6. CASE Ws!SocketError
  BY <1>6
     DEF Ws!SocketError, Ws!CloseThen, Ws!MarkClosed, Ws!Gone, Ws!CutAll,
         Ws!Idle, Ws!options, Ws!mailbox, Ws!calls, Ws!loop, Ws!wire,
         Ws!answers, SocketMoves, Quiet, CutStarts, Step
<1>7. CASE Ws!Disconnect
  BY <1>7
     DEF Ws!Disconnect, Ws!Gone, Ws!CutAll, Ws!Idle, Ws!options, Ws!mailbox,
         Ws!calls, Ws!loop, Ws!wire, Ws!answers, SocketMoves, Quiet, CutStarts,
         Step
<1>8. CASE Ws!CutCall
  BY <1>8
     DEF Ws!CutCall, Ws!CutNext, Ws!Answer, Ws!options, Ws!mailbox, Ws!calls,
         Ws!loop, Ws!wire, Ws!answers, Tells, CutTurns, Step
<1>9. CASE Ws!Send
  BY <1>9
     DEF Ws!Send, Ws!SendCall, Ws!Register, Ws!BufferOrWrite, Ws!Write,
         Ws!options, Ws!mailbox, Ws!calls, Ws!loop, Ws!wire, Ws!answers,
         Registers, Step
<1>10. CASE Ws!Message
  BY <1>10
     DEF Ws!Message, Ws!Arrive, Ws!options, Ws!mailbox, Ws!calls, Ws!loop,
         Ws!wire, Ws!answers, Arrives, Step
<1>11. CASE Ws!ProcessMsg
  BY <1>11
     DEF Ws!ProcessMsg, Ws!DropReply, Ws!CallBack, Ws!CallBackThrows,
         Ws!TakeReply, Ws!Answer, Ws!Forget, Ws!options, Ws!mailbox, Ws!calls,
         Ws!loop, Ws!wire, Ws!answers, Forgets, Tells, Drops, Takes, Step
<1>12. ASSUME NEW id \in Ws!Ids, Ws!CallbackTimeout(id)
      PROVE  Step
  BY <1>12
     DEF Ws!CallbackTimeout, Ws!ExpireAndAnswer, Ws!Expire, Ws!Answer, Ws!Idle,
         Ws!Forget, Ws!options, Ws!mailbox, Ws!calls, Ws!loop, Ws!wire,
         Ws!answers, Forgets, Tells, Expires, Step
<1>. QED
  BY <1>1, <1>2, <1>3, <1>4, <1>5, <1>6, <1>7, <1>8, <1>9, <1>10, <1>11, <1>12
      DEF Ws!Next

LEMMA Ws2Steps ==
  ASSUME kind = "ws2", Ws2!Next
  PROVE  Step
<1>1. CASE Ws2!Connect
  BY <1>1
     DEF Ws2!Connect, Ws2!Dial, Ws2!Idle, Ws2!options, Ws2!mailbox, Ws2!calls,
         Ws2!loop, Ws2!wire, Ws2!answers, SocketMoves, Quiet, Step
<1>2. CASE Ws2!Open
  BY <1>2
     DEF Ws2!Open, Ws2!Established, Ws2!options, Ws2!mailbox, Ws2!calls,
         Ws2!loop, Ws2!wire, Ws2!answers, SocketMoves, Quiet, Step
<1>3. CASE Ws2!Close
  BY <1>3
     DEF Ws2!Close, Ws2!Closing, Ws2!options, Ws2!mailbox, Ws2!calls, Ws2!loop,
         Ws2!wire, Ws2!answers, SocketMoves, Quiet, Step
<1>4. CASE Ws2!SocketError
  BY <1>4
     DEF Ws2!SocketError, Ws2!Closing, Ws2!options, Ws2!mailbox, Ws2!calls,
         Ws2!loop, Ws2!wire, Ws2!answers, SocketMoves, Quiet, Step
<1>5. CASE Ws2!CloseDone
  BY <1>5
     DEF Ws2!CloseDone, Ws2!CutEnds, Ws2!Closing, Ws2!options, Ws2!mailbox,
         Ws2!calls, Ws2!loop, Ws2!wire, Ws2!answers, SocketMoves, Quiet, Step
<1>6. CASE Ws2!CheckKeepAlive
  BY <1>6
     DEF Ws2!CheckKeepAlive, Ws2!Closing, Ws2!options, Ws2!mailbox, Ws2!calls,
         Ws2!loop, Ws2!wire, Ws2!answers, SocketMoves, Quiet, Step
<1>7. CASE Ws2!Pong
  BY <1>7
     DEF Ws2!Pong, Ws2!options, Ws2!mailbox, Ws2!calls, Ws2!loop, Ws2!wire,
         Ws2!answers, SocketMoves, Quiet, Step
<1>8. CASE Ws2!Flush
  BY <1>8
     DEF Ws2!Flush, Ws2!FlushQueue, Ws2!FlushThrows, Ws2!Write, Ws2!options, Ws2!mailbox,
         Ws2!calls, Ws2!loop, Ws2!wire, Ws2!answers, SocketMoves, Quiet, Step
<1>9. CASE Ws2!SocketClose
  BY <1>9
     DEF Ws2!SocketClose, Ws2!CutAll, Ws2!Idle, Ws2!options, Ws2!mailbox,
         Ws2!calls, Ws2!loop, Ws2!wire, Ws2!answers, SocketMoves, Quiet,
         CutStarts, Step
<1>10. CASE Ws2!CutCall
  BY <1>10
     DEF Ws2!CutCall, Ws2!CutNext, Ws2!Answer, Ws2!options, Ws2!mailbox,
         Ws2!calls, Ws2!loop, Ws2!wire, Ws2!answers, Tells, CutTurns, Step
<1>11. CASE Ws2!Send
  BY <1>11
     DEF Ws2!Send, Ws2!SendCall, Ws2!SendThrows, Ws2!Register, Ws2!BufferOrWrite, Ws2!Write,
         Ws2!options, Ws2!mailbox, Ws2!calls, Ws2!loop, Ws2!wire, Ws2!answers,
         Registers, Step
<1>12. CASE Ws2!Message
  BY <1>12
     DEF Ws2!Message, Ws2!Arrive, Ws2!options, Ws2!mailbox, Ws2!calls,
         Ws2!loop, Ws2!wire, Ws2!answers, Arrives, Step
<1>13. CASE Ws2!ProcessMsg
  BY <1>13
     DEF Ws2!ProcessMsg, Ws2!DropReply, Ws2!CallBack, Ws2!CallBackThrows,
         Ws2!TakeReply, Ws2!Answer, Ws2!Forget, Ws2!options, Ws2!mailbox,
         Ws2!calls, Ws2!loop, Ws2!wire, Ws2!answers, Forgets, Tells, Drops,
         Takes, Step
<1>14. ASSUME NEW id \in Ws2!Ids, Ws2!CallbackTimeout(id)
      PROVE  Step
  BY <1>14
     DEF Ws2!CallbackTimeout, Ws2!Expire, Ws2!Idle, Ws2!Forget, Ws2!options,
         Ws2!mailbox, Ws2!calls, Ws2!loop, Ws2!wire, Ws2!answers, Forgets,
         Tells, Expires, Step
<1>15. CASE Ws2!CloseFrame
  BY <1>15
     DEF Ws2!CloseFrame, Ws2!options, Ws2!mailbox, Ws2!calls, Ws2!loop, Ws2!wire,
         Ws2!answers, SocketMoves, Quiet, Step
<1>. QED
  BY <1>1, <1>2, <1>3, <1>4, <1>5, <1>6, <1>7, <1>8, <1>9, <1>10, <1>11, <1>12,
      <1>13, <1>14, <1>15 DEF Ws2!Next

LEMMA Mqtt2Steps ==
  ASSUME kind = "mqtt2", Mqtt2!Next
  PROVE  Step
<1>1. CASE Mqtt2!Connect
  BY <1>1
     DEF Mqtt2!Connect, Mqtt2!Dial, Mqtt2!Idle, Mqtt2!options, Mqtt2!mailbox,
         Mqtt2!calls, Mqtt2!loop, Mqtt2!wire, Mqtt2!answers, SocketMoves,
         Quiet, Step
<1>2. CASE Mqtt2!ConnectDone
  BY <1>2
     DEF Mqtt2!ConnectDone, Mqtt2!Established, Mqtt2!options, Mqtt2!mailbox,
         Mqtt2!calls, Mqtt2!loop, Mqtt2!wire, Mqtt2!answers, SocketMoves,
         Quiet, Step
<1>3. CASE Mqtt2!Handshake
  BY <1>3
     DEF Mqtt2!Handshake, Mqtt2!options, Mqtt2!mailbox, Mqtt2!calls,
         Mqtt2!loop, Mqtt2!wire, Mqtt2!answers, SocketMoves, Quiet, Step
<1>4. CASE Mqtt2!Close
  BY <1>4
     DEF Mqtt2!Close, Mqtt2!Closing, Mqtt2!options, Mqtt2!mailbox, Mqtt2!calls,
         Mqtt2!loop, Mqtt2!wire, Mqtt2!answers, SocketMoves, Quiet, Step
<1>5. CASE Mqtt2!SocketError
  BY <1>5
     DEF Mqtt2!SocketError, Mqtt2!Closing, Mqtt2!options, Mqtt2!mailbox,
         Mqtt2!calls, Mqtt2!loop, Mqtt2!wire, Mqtt2!answers, SocketMoves,
         Quiet, Step
<1>6. CASE Mqtt2!DisconnectDone
  BY <1>6
     DEF Mqtt2!DisconnectDone, Mqtt2!CutEnds, Mqtt2!EmitClose, Mqtt2!Closing,
         Mqtt2!options, Mqtt2!mailbox, Mqtt2!calls, Mqtt2!loop, Mqtt2!wire,
         Mqtt2!answers, SocketMoves, Quiet, Step
<1>7. CASE Mqtt2!CheckKeepAlive
  BY <1>7
     DEF Mqtt2!CheckKeepAlive, Mqtt2!EmitClose, Mqtt2!Closing, Mqtt2!options,
         Mqtt2!mailbox, Mqtt2!calls, Mqtt2!loop, Mqtt2!wire, Mqtt2!answers,
         SocketMoves, Quiet, Step
<1>8. CASE Mqtt2!PingResp
  BY <1>8
     DEF Mqtt2!PingResp, Mqtt2!options, Mqtt2!mailbox, Mqtt2!calls, Mqtt2!loop,
         Mqtt2!wire, Mqtt2!answers, SocketMoves, Quiet, Step
<1>9. CASE Mqtt2!Flush
  BY <1>9
     DEF Mqtt2!Flush, Mqtt2!options, Mqtt2!mailbox, Mqtt2!calls, Mqtt2!loop,
         Mqtt2!wire, Mqtt2!answers, SocketMoves, Quiet, Step
<1>10. CASE Mqtt2!Disconnect
  BY <1>10
     DEF Mqtt2!Disconnect, Mqtt2!CutAll, Mqtt2!Idle, Mqtt2!options,
         Mqtt2!mailbox, Mqtt2!calls, Mqtt2!loop, Mqtt2!wire, Mqtt2!answers,
         SocketMoves, Quiet, CutStarts, Step
<1>11. CASE Mqtt2!CutCall
  BY <1>11
     DEF Mqtt2!CutCall, Mqtt2!CutNext, Mqtt2!Answer, Mqtt2!options,
         Mqtt2!mailbox, Mqtt2!calls, Mqtt2!loop, Mqtt2!wire, Mqtt2!answers,
         Tells, CutTurns, Step
<1>12. CASE Mqtt2!Send
  BY <1>12
     DEF Mqtt2!Send, Mqtt2!SendCall, Mqtt2!Register, Mqtt2!BufferOrWrite,
         Mqtt2!Write, Mqtt2!options, Mqtt2!mailbox, Mqtt2!calls, Mqtt2!loop,
         Mqtt2!wire, Mqtt2!answers, Registers, Step
<1>13. CASE Mqtt2!Publish
  BY <1>13
     DEF Mqtt2!Publish, Mqtt2!Arrive, Mqtt2!options, Mqtt2!mailbox,
         Mqtt2!calls, Mqtt2!loop, Mqtt2!wire, Mqtt2!answers, Arrives, Step
<1>14. CASE Mqtt2!ProcessMsg
  BY <1>14
     DEF Mqtt2!ProcessMsg, Mqtt2!DropReply, Mqtt2!CallBack, Mqtt2!TakeReply,
         Mqtt2!Answer, Mqtt2!Forget, Mqtt2!options, Mqtt2!mailbox, Mqtt2!calls,
         Mqtt2!loop, Mqtt2!wire, Mqtt2!answers, Forgets, Tells, Drops, Takes,
         Step
<1>15. ASSUME NEW id \in Mqtt2!Ids, Mqtt2!CallbackTimeout(id)
      PROVE  Step
  BY <1>15
     DEF Mqtt2!CallbackTimeout, Mqtt2!ExpireAndAnswer, Mqtt2!Expire,
         Mqtt2!Answer, Mqtt2!Idle, Mqtt2!Forget, Mqtt2!options, Mqtt2!mailbox,
         Mqtt2!calls, Mqtt2!loop, Mqtt2!wire, Mqtt2!answers, Forgets, Tells,
         Expires, Step
<1>. QED
  BY <1>1, <1>2, <1>3, <1>4, <1>5, <1>6, <1>7, <1>8, <1>9, <1>10, <1>11, <1>12,
      <1>13, <1>14, <1>15 DEF Mqtt2!Next

LEMMA ServerSteps ==
  ASSUME Server
  PROVE  Step
<1>1. CASE LinkDies
  BY <1>1 DEF LinkDies, options, calls, loop, answers, SocketMoves, Quiet, Step
<1>2. CASE ServerReceive
  BY <1>2 DEF ServerReceive, options, calls, loop, answers, Receives, Step
<1>3. ASSUME NEW n \in 1 .. MaxBatch, ServerReply(n)
      PROVE  Step
  <2>1. n \in Nat
    BY BoundsAssumption
  <2>. QED
    BY <1>3, <2>1 DEF ServerReply, options, calls, loop, answers, Replies, Step
<1>. QED
  BY <1>1, <1>2, <1>3 DEF Server

LEMMA Steps ==
  ASSUME [Next]_vars, HandlerInv
  PROVE  Step
<1>1. CASE UNCHANGED vars
  BY <1>1 DEF vars, options, calls, loop, wire, answers, SocketMoves, Quiet, Step
<1>. QED
  BY <1>1, TcpSteps, WsSteps, Ws2Steps, Mqtt2Steps, ServerSteps DEF Next

-----------------------------------------------------------------------------
(* The invariant is kept.                                                  *)

LEMMA Told ==
  ASSUME Types, NEW id \in Ids, NEW outcome \in Outcomes, Tells(id, outcome)
  PROVE  /\ log' \in [Ids -> Seq(Outcomes)]
         /\ \A other \in Ids \ {id} : log'[other] = log[other]
         /\ Len(log[id]) \in Nat /\ Len(log'[id]) = Len(log[id]) + 1
         /\ \A i \in 1 .. Len(log[id]) : log'[id][i] = log[id][i]
         /\ log'[id][Len(log[id]) + 1] = outcome
         /\ Range(log'[id]) = Range(log[id]) \union {outcome}
<1>1. log[id] \in Seq(Outcomes) /\ log'[id] = Append(log[id], outcome)
  BY DEF Types, Tells
<1>2. /\ log'[id] \in Seq(Outcomes) /\ Len(log[id]) \in Nat
      /\ Len(log'[id]) = Len(log[id]) + 1
      /\ \A i \in 1 .. Len(log[id]) : log'[id][i] = log[id][i]
      /\ log'[id][Len(log[id]) + 1] = outcome
      /\ DOMAIN log[id] = 1 .. Len(log[id])
      /\ DOMAIN log'[id] = 1 .. Len(log[id]) + 1
  BY <1>1, AppendProperties, LenProperties
<1>3. Range(log'[id]) = Range(log[id]) \union {outcome}
  <2>1. 1 .. Len(log[id]) + 1 = (1 .. Len(log[id])) \union {Len(log[id]) + 1}
    BY <1>2
  <2>. QED
    BY SMTT(20), <1>2, <2>1 DEF Range
<1>. QED
  BY <1>2, <1>3 DEF Types, Tells

LEMMA Packets ==
  ASSUME NEW n \in Nat, NEW packet \in [1 .. n -> Range(received)], Types
  PROVE  <<packet>> \in Seq(Seq(Ids)) /\ Range(packet) \subseteq Range(received)
<1>1. Range(received) \subseteq Ids
  BY DEF Types, Range
<1>2. packet \in [1 .. n -> Ids]
  BY <1>1
<1>3. packet \in Seq(Ids)
  BY <1>2
<1>. QED
  BY <1>3 DEF Range

LEMMA HeadTail ==
  ASSUME NEW S, NEW q \in Seq(S), q # <<>>
  PROVE  /\ Head(q) \in S /\ Tail(q) \in Seq(S)
         /\ Head(q) \in Range(q) /\ Range(Tail(q)) \subseteq Range(q)
         /\ 1 \in DOMAIN q /\ Head(q) = q[1]
         /\ \A i \in DOMAIN Tail(q) : \E j \in DOMAIN q : Tail(q)[i] = q[j]
BY DEF Range

LEMMA TypeStep ==
  ASSUME Types, HandlerInv, Step
  PROVE  Types'
<1>1. <<>> \in Seq(Ids) /\ <<>> \in Seq(Seq(Ids))
  OBVIOUS
<1>2. CASE Quiet
  <2>1. Append(c2s, queue) \in Seq(Seq(Ids))
    BY AppendProperties DEF Types
  <2>2. c2s' \in Seq(Seq(Ids)) /\ s2c' \in Seq(Seq(Ids)) /\ queue' \in Seq(Ids)
    BY <1>1, <1>2, <2>1, Zenon DEF Quiet, Types
  <2>. QED
    BY <1>2, <2>2 DEF Quiet, Types
<1>3. CASE Registers
  <2>1. curId \in Ids /\ curId' \in Nat
    BY <1>3, BoundsAssumption DEF Registers, Types, Ids
  <2>2. <<curId>> \in Seq(Ids) /\ queue \in Seq(Ids) /\ c2s \in Seq(Seq(Ids))
    BY <2>1 DEF Types
  <2>3. Append(queue, curId) \in Seq(Ids) /\ Append(c2s, <<curId>>) \in Seq(Seq(Ids))
    BY <2>1, <2>2, AppendProperties
  <2>4. queue' \in Seq(Ids) /\ c2s' \in Seq(Seq(Ids)) /\ requests' \subseteq Ids
    BY <1>3, <2>1, <2>2, <2>3 DEF Registers, Types
  <2>. QED
    BY <1>3, <2>1, <2>4 DEF Registers, Types
<1>4. CASE Arrives
  <2>1. Head(s2c) \in Seq(Ids) /\ Tail(s2c) \in Seq(Seq(Ids))
    BY <1>4 DEF Arrives, Types
  <2>. QED
    BY <1>4, <2>1 DEF Arrives, Types
<1>5. CASE Drops
  <2>1. Tail(batch) \in Seq(Ids)
    BY <1>5, HeadTail DEF Drops, Types
  <2>. QED
    BY <1>5, <2>1 DEF Drops, Types
<1>6. CASE Takes
  <2>1. Head(batch) \in Ids /\ batch' \in Seq(Ids) /\ "ok" \in Outcomes
    BY <1>1, <1>6, HeadTail DEF Takes, Types, Outcomes
  <2>2. log' \in [Ids -> Seq(Outcomes)]
    BY <1>6, <2>1, Told DEF Takes
  <2>. QED
    BY <1>6, <2>1, <2>2 DEF Takes, Forgets, Types
<1>7. CASE CutStarts
  <2>1. cuts' \in Nat
    BY <1>7 DEF CutStarts, Types
  <2>2. c2s' \in Seq(Seq(Ids)) /\ s2c' \in Seq(Seq(Ids))
    BY <1>1, <1>7, Zenon DEF CutStarts, Types
  <2>. QED
    BY <1>7, <2>1, <2>2 DEF CutStarts, Types
<1>8. CASE CutTurns
  <2>1. PICK id \in cut : Tells(id, "disconnect") \/ Tells(id, "cut")
    BY <1>8 DEF CutTurns
  <2>2. id \in Ids /\ "disconnect" \in Outcomes /\ "cut" \in Outcomes
    BY DEF HandlerInv, Types, Outcomes
  <2>3. log' \in [Ids -> Seq(Outcomes)]
    BY <2>1, <2>2, Told
  <2>. QED
    BY <1>8, <2>3 DEF CutTurns, Types
<1>9. CASE Expires
  <2>1. PICK id \in timeout : /\ Forgets(id)
                              /\ Tells(id, "timeout") \/ UNCHANGED log
    BY <1>9 DEF Expires
  <2>2. id \in Ids /\ "timeout" \in Outcomes
    BY DEF HandlerInv, Types, Outcomes
  <2>3. log' \in [Ids -> Seq(Outcomes)]
    BY <2>1, <2>2, Told DEF Types
  <2>. QED
    BY <1>9, <2>1, <2>3 DEF Expires, Forgets, Types
<1>10. CASE Receives
  <2>1. Head(c2s) \in Seq(Ids) /\ Tail(c2s) \in Seq(Seq(Ids))
    BY <1>10 DEF Receives, Types
  <2>2. received \o Head(c2s) \in Seq(Ids)
    BY <2>1, ConcatProperties DEF Types
  <2>. QED
    BY <1>10, <2>1, <2>2 DEF Receives, Types
<1>11. CASE Replies
  <2>1. s2c' \in Seq(Seq(Ids))
    BY <1>11, Packets DEF Replies
  <2>. QED
    BY <1>11, <2>1 DEF Replies, Types
<1>. QED
  BY <1>2, <1>3, <1>4, <1>5, <1>6, <1>7, <1>8, <1>9, <1>10, <1>11 DEF Step

-----------------------------------------------------------------------------
(* The calls.                                                              *)

\* The bounds of AnswerInv for one call.
Bounded(id) ==
  /\ Len(log[id]) <= Disconnects(id) + (IF Owed(id) THEN 0 ELSE 1)
  /\ \A i \in 1 .. Len(log[id]) :
       log[id][i] = "disconnect" \/ (~Owed(id) /\ i = Len(log[id]))

LEMMA DisconnectsType ==
  ASSUME Types, NEW id
  PROVE  Disconnects(id) \in Int
BY DEF Types, Disconnects

\* The bounds of a call that hears nothing, and whose answer is owed as before
\* or no longer.
LEMMA BoundedFrame ==
  ASSUME Types, Types', NEW id \in Ids, Bounded(id), log'[id] = log[id],
         Owed(id)' => Owed(id),
         Disconnects(id) + (IF Owed(id) THEN 0 ELSE 1)
           <= Disconnects(id)' + (IF Owed(id)' THEN 0 ELSE 1)
  PROVE  Bounded(id)'
<1>1. Disconnects(id) \in Int /\ Disconnects(id)' \in Int
  BY DisconnectsType DEF Types, Disconnects
<1>2. Len(log[id]) \in Nat
  BY LenProperties DEF Types
<1>3. Len(log'[id]) <= Disconnects(id)' + (IF Owed(id)' THEN 0 ELSE 1)
  BY <1>1, <1>2 DEF Bounded
<1>. QED
  BY <1>3 DEF Bounded

\* The callback is called for the last time.
LEMMA LastAnswer ==
  ASSUME Types, NEW id \in Ids, NEW outcome \in Outcomes, Tells(id, outcome),
         Bounded(id), Owed(id), ~Owed(id)', Disconnects(id)' = Disconnects(id)
  PROVE  Bounded(id)'
<1>1. Disconnects(id) \in Int
  BY DisconnectsType
<1>2. /\ Len(log[id]) \in Nat /\ Len(log'[id]) = Len(log[id]) + 1
      /\ \A i \in 1 .. Len(log[id]) : log'[id][i] = log[id][i]
  BY Told
<1>3. Len(log'[id]) <= Disconnects(id)' + (IF Owed(id)' THEN 0 ELSE 1)
  BY <1>1, <1>2 DEF Bounded
<1>4. \A i \in 1 .. Len(log[id]) : log'[id][i] = "disconnect"
  BY <1>2 DEF Bounded
<1>. QED
  BY <1>2, <1>3, <1>4 DEF Bounded

\* The callback is called for a connection that broke.
LEMMA Notice ==
  ASSUME Types, NEW id \in Ids, Tells(id, "disconnect"), Bounded(id), Owed(id),
         Owed(id)', Disconnects(id)' = Disconnects(id) + 1
  PROVE  Bounded(id)'
<1>1. Disconnects(id) \in Int
  BY DisconnectsType
<1>2. /\ Len(log[id]) \in Nat /\ Len(log'[id]) = Len(log[id]) + 1
      /\ \A i \in 1 .. Len(log[id]) : log'[id][i] = log[id][i]
      /\ log'[id][Len(log[id]) + 1] = "disconnect"
  BY Told DEF Outcomes
<1>3. Len(log'[id]) <= Disconnects(id)' + (IF Owed(id)' THEN 0 ELSE 1)
  BY <1>1, <1>2 DEF Bounded
<1>4. \A i \in 1 .. Len(log[id]) : log'[id][i] = "disconnect"
  BY <1>2 DEF Bounded
<1>. QED
  BY <1>2, <1>3, <1>4 DEF Bounded

LEMMA AnswerBounded == AnswerInv <=> \A id \in Ids : Bounded(id)
BY DEF AnswerInv, Bounded

\* A step that changes no log, and takes no request that is not new.
LEMMA QuietCalls ==
  ASSUME Types, Types', CallInv, Quiet
  PROVE  CallInv'
<1>1. HandlerInv'
  BY DEF CallInv, HandlerInv, Quiet, SocketMoves
<1>2. FreshInv'
  BY DEF CallInv, FreshInv, Quiet
<1>3. ASSUME NEW id \in Ids
      PROVE  Bounded(id)'
  <2>1. Owed(id)' <=> Owed(id)
    BY DEF Owed, Quiet, SocketMoves
  <2>2. Disconnects(id) <= Disconnects(id)'
    <3>1. /\ UNCHANGED <<kind, cut, cuts>>
          /\ kind = "ws" /\ socket = "down" => socket' = "down"
      BY DEF Quiet, SocketMoves
    <3>. QED
      BY <3>1 DEF Disconnects, Types
  <2>3. Bounded(id) /\ log'[id] = log[id]
    BY AnswerBounded DEF CallInv, Quiet
  <2>4. Disconnects(id) \in Int /\ Disconnects(id)' \in Int
    BY DisconnectsType DEF Types, Disconnects
  <2>. QED
    BY <2>1, <2>2, <2>3, <2>4, BoundedFrame
<1>. QED
  BY <1>1, <1>2, <1>3 DEF CallInv, AnswerInv, Bounded

LEMMA RegisterCalls ==
  ASSUME Types, Types', CallInv, Registers
  PROVE  CallInv'
<1>1. curId \in Ids /\ curId \in Nat /\ curId' = curId + 1
  BY BoundsAssumption DEF Registers, Types, Ids
<1>2. curId \notin requests /\ curId \notin cut /\ log[curId] = <<>>
  BY <1>1 DEF CallInv, FreshInv, HandlerInv, Ids
<1>3. HandlerInv'
  BY DEF CallInv, HandlerInv, Registers
<1>4. FreshInv'
  BY <1>1 DEF CallInv, FreshInv, Registers, Ids
<1>5. ASSUME NEW id \in Ids
      PROVE  Bounded(id)'
  <2>1. Bounded(id) /\ log'[id] = log[id] /\ Disconnects(id)' = Disconnects(id)
    BY AnswerBounded DEF CallInv, Registers, Disconnects
  <2>2. Disconnects(id) \in Int
    BY DisconnectsType
  <2>3. CASE id # curId
    <3>1. Owed(id)' <=> Owed(id)
      BY <2>3 DEF Owed, Registers
    <3>. QED
      BY <2>1, <2>2, <3>1, BoundedFrame
  <2>4. CASE id = curId
    <3>1. Len(log'[id]) = 0 /\ 0 <= Disconnects(id)
      BY <1>2, <2>1, <2>4 DEF Disconnects, Types
    <3>. QED
      BY <2>1, <2>2, <3>1 DEF Bounded
  <2>. QED
    BY <2>3, <2>4
<1>. QED
  BY <1>3, <1>4, <1>5 DEF CallInv, AnswerInv, Bounded

LEMMA ArriveCalls ==
  ASSUME Types, CallInv, Arrives \/ Drops \/ Receives \/ Replies
  PROVE  CallInv'
<1>1. /\ UNCHANGED <<kind, curId, requests, cutting, cut, socket, cuts, log>>
      /\ timeout' = timeout \/ (\E x : x \notin requests /\ timeout' = timeout \ {x})
  BY DEF Arrives, Drops, Receives, Replies
<1>2. timeout' = timeout
  BY <1>1 DEF CallInv, HandlerInv
<1>3. kind = "ws2" /\ socket = "down" => batch' = <<>>
  BY DEF CallInv, HandlerInv, Arrives, Drops, Receives, Replies
<1>. QED
  BY <1>1, <1>2, <1>3
  DEF CallInv, HandlerInv, FreshInv, AnswerInv, Owed, Disconnects

\* A request is forgotten, and its callback is called for the last time or, by
\* the timers of tcp and ws2, not called.
LEMMA ForgetCalls ==
  ASSUME Types, Types', CallInv, NEW id \in requests, ~cutting, Forgets(id),
         \/ \E outcome \in Outcomes : Tells(id, outcome) /\ Owed(id)
         \/ UNCHANGED log,
         UNCHANGED <<kind, curId, cutting, cut, socket, cuts>>,
         kind = "ws2" /\ socket = "down" => batch' = <<>>
  PROVE  CallInv'
<1>1. id \in Ids /\ cut = {} /\ cut' = {}
  BY DEF CallInv, HandlerInv, Types
<1>2. HandlerInv'
  BY <1>1 DEF CallInv, HandlerInv, Forgets
<1>3. \A other \in Ids \ {id} : log'[other] = log[other]
  BY <1>1, Told
<1>4. id < curId
  BY <1>1 DEF CallInv, FreshInv, Types, Ids
<1>5. FreshInv'
  BY <1>1, <1>3, <1>4 DEF CallInv, FreshInv, Forgets, Types, Ids
<1>6. ~Owed(id)'
  BY DEF Owed, Forgets
<1>7. ASSUME NEW other \in Ids
      PROVE  Bounded(other)'
  <2>1. Bounded(other) /\ Disconnects(other)' = Disconnects(other)
    BY AnswerBounded DEF CallInv, Disconnects
  <2>2. Disconnects(other) \in Int
    BY DisconnectsType
  <2>3. CASE other # id
    <3>1. Owed(other)' <=> Owed(other)
      BY <2>3 DEF Owed, Forgets
    <3>. QED
      BY <1>3, <2>1, <2>2, <2>3, <3>1, BoundedFrame
  <2>4. CASE other = id /\ UNCHANGED log
    BY <1>6, <2>1, <2>2, <2>4, BoundedFrame
  <2>5. CASE other = id /\ \E outcome \in Outcomes : Tells(id, outcome) /\ Owed(id)
    BY <1>1, <1>6, <2>1, <2>5, LastAnswer
  <2>. QED
    BY <2>3, <2>4, <2>5
<1>. QED
  BY <1>2, <1>5, <1>7 DEF CallInv, AnswerInv, Bounded

LEMMA TakeCalls ==
  ASSUME Types, Types', CallInv, Takes
  PROVE  CallInv'
<1>1. /\ Head(batch) \in requests /\ ~cutting /\ batch # <<>>
      /\ Forgets(Head(batch)) /\ Tells(Head(batch), "ok")
      /\ UNCHANGED <<kind, curId, cutting, cut, socket, cuts>>
  BY DEF Takes
<1>2. ~(kind = "ws2" /\ socket = "down")
  BY <1>1 DEF CallInv, HandlerInv
<1>3. Owed(Head(batch)) /\ "ok" \in Outcomes
  BY <1>1, <1>2 DEF Owed, Outcomes
<1>. QED
  BY <1>1, <1>2, <1>3, ForgetCalls

LEMMA ExpireCalls ==
  ASSUME Types, Types', CallInv, Expires
  PROVE  CallInv'
<1>1. PICK id \in timeout :
        /\ Forgets(id)
        /\ \/ kind \in {"ws", "mqtt2"} /\ Tells(id, "timeout")
           \/ kind \in {"tcp", "ws2"} /\ UNCHANGED log
  BY DEF Expires
<1>2. /\ ~cutting
      /\ UNCHANGED <<kind, curId, batch, cutting, cut, socket, cuts>>
  BY DEF Expires
<1>3. id \in requests
  BY DEF CallInv, HandlerInv
<1>4. kind # "ws2" => Owed(id)
  BY <1>3 DEF Owed
<1>5. "timeout" \in Outcomes
  BY DEF Outcomes
<1>6. kind = "ws2" /\ socket = "down" => batch' = <<>>
  BY <1>2 DEF CallInv, HandlerInv
<1>7. \/ \E outcome \in Outcomes : Tells(id, outcome) /\ Owed(id)
      \/ UNCHANGED log
  BY <1>1, <1>4, <1>5
<1>. QED
  BY <1>1, <1>2, <1>3, <1>6, <1>7, ForgetCalls

LEMMA CutStartCalls ==
  ASSUME Types, Types', CallInv, CutStarts
  PROVE  CallInv'
<1>1. cut = {}
  BY DEF CallInv, HandlerInv, CutStarts
<1>2. HandlerInv' /\ FreshInv'
  BY DEF CallInv, HandlerInv, FreshInv, CutStarts
<1>3. ASSUME NEW id \in Ids
      PROVE  Bounded(id)'
  <2>1. Bounded(id) /\ log'[id] = log[id]
    BY AnswerBounded DEF CallInv, CutStarts
  <2>2. requests' = requests /\ cut' = requests
    BY DEF CutStarts
  <2>3. (Owed(id)' => Owed(id)) /\ (Owed(id) => Owed(id)')
    <3>1. Owed(id)' <=> id \in requests
      BY <2>2 DEF Owed
    <3>2. Owed(id) <=> id \in requests
      BY DEF Owed, CutStarts
    <3>. QED
      BY <3>1, <3>2
  <2>4. Disconnects(id) <= Disconnects(id)'
    <3>1. kind' = kind /\ kind \in {"ws", "ws2", "mqtt2"} /\ cuts \in Nat
      BY DEF CutStarts, Types
    <3>2. CASE kind = "ws"
      <4>1. Disconnects(id) = 0
        BY <1>1, <3>2 DEF Disconnects, CutStarts
      <4>2. Disconnects(id)' \in {0, 1}
        BY <3>1, <3>2 DEF Disconnects
      <4>. QED
        BY <4>1, <4>2
    <3>3. CASE kind = "ws2"
      <4>1. Disconnects(id) = 0 /\ Disconnects(id)' = 0
        BY <3>1, <3>3 DEF Disconnects
      <4>. QED
        BY <4>1
    <3>4. CASE kind = "mqtt2"
      <4>1. Disconnects(id) = cuts
        BY <1>1, <3>1, <3>4 DEF Disconnects
      <4>2. Disconnects(id)' \in {cuts, cuts + 1}
        BY <3>1, <3>4 DEF Disconnects, CutStarts
      <4>. QED
        BY <3>1, <4>1, <4>2
    <3>. QED
      BY <3>1, <3>2, <3>3, <3>4
  <2>5. Disconnects(id) \in Int /\ Disconnects(id)' \in Int
    BY DisconnectsType DEF Types, Disconnects
  <2>. QED
    BY <2>1, <2>2, <2>3, <2>4, <2>5, BoundedFrame
<1>. QED
  BY <1>2, <1>3 DEF CallInv, AnswerInv, Bounded

LEMMA CutTurnCalls ==
  ASSUME Types, Types', CallInv, CutTurns
  PROVE  CallInv'
<1>1. PICK id \in cut :
        /\ cut' = cut \ {id}
        /\ \/ kind \in {"ws", "mqtt2"} /\ Tells(id, "disconnect")
           \/ kind = "ws2" /\ Tells(id, "cut")
  BY DEF CutTurns
<1>2. /\ cutting
      /\ UNCHANGED <<kind, curId, requests, timeout, batch, cutting, socket, cuts>>
  BY DEF CutTurns
<1>3. id \in requests /\ id \in Ids /\ Owed(id)
  BY DEF CallInv, HandlerInv, Types, Owed
<1>4. HandlerInv'
  BY <1>1, <1>2 DEF CallInv, HandlerInv
<1>5. \A other \in Ids \ {id} : log'[other] = log[other]
  BY <1>1, <1>3, Told DEF Outcomes
<1>6. FreshInv'
  BY <1>2, <1>3, <1>5 DEF CallInv, FreshInv
<1>7. kind \in {"ws", "ws2"} => socket = "down"
  BY <1>2 DEF CallInv, HandlerInv
<1>8. ASSUME NEW other \in Ids
      PROVE  Bounded(other)'
  <2>1. Bounded(other)
    BY AnswerBounded DEF CallInv
  <2>2. Disconnects(other) \in Int
    BY DisconnectsType
  <2>3. CASE other # id
    <3>1. (Owed(other)' <=> Owed(other)) /\ Disconnects(other)' = Disconnects(other)
      BY <1>1, <1>2, <2>3 DEF Owed, Disconnects
    <3>. QED
      BY <1>5, <2>1, <2>2, <2>3, <3>1, BoundedFrame
  <2>4. CASE other = id /\ kind = "ws2"
    <3>1. Tells(id, "cut") /\ ~Owed(id)' /\ Disconnects(id)' = Disconnects(id)
      BY <1>1, <1>2, <1>7, <2>4 DEF Owed, Disconnects
    <3>. QED
      BY <1>3, <2>1, <2>4, <3>1, LastAnswer DEF Outcomes
  <2>5. CASE other = id /\ kind \in {"ws", "mqtt2"}
    <3>1. Tells(id, "disconnect") /\ Owed(id)'
      BY <1>1, <1>2, <1>3, <2>5 DEF Owed
    <3>2. Disconnects(id)' = Disconnects(id) + 1
      BY <1>1, <1>2, <1>7, <2>5 DEF Disconnects, Types
    <3>. QED
      BY <1>3, <2>1, <2>5, <3>1, <3>2, Notice
  <2>. QED
    BY <1>1, <2>3, <2>4, <2>5
<1>. QED
  BY <1>4, <1>6, <1>8 DEF CallInv, AnswerInv, Bounded

LEMMA CallStep ==
  ASSUME Types, Types', CallInv, Step
  PROVE  CallInv'
BY QuietCalls, RegisterCalls, ArriveCalls, TakeCalls, ExpireCalls, CutStartCalls,
   CutTurnCalls DEF Step

-----------------------------------------------------------------------------
(* The results.                                                            *)

LEMMA ResultStep ==
  ASSUME Types, Types', HandlerInv, ResultInv, Step
  PROVE  ResultInv'
<1>1. Range(<<>>) = {} /\ DOMAIN <<>> = {}
  BY DEF Range
<1>2. CASE Quiet \/ Registers \/ CutStarts
  <2>1. UNCHANGED <<batch, received, log>> /\ (s2c' = s2c \/ s2c' = <<>>)
    BY <1>2 DEF Quiet, Registers, CutStarts
  <2>. QED
    BY <1>1, <2>1 DEF ResultInv, ReplyInv, OkMeansReceived
<1>3. CASE Arrives
  <2>1. /\ 1 \in DOMAIN s2c /\ batch' = s2c[1] /\ s2c' = Tail(s2c)
        /\ \A i \in DOMAIN Tail(s2c) : \E j \in DOMAIN s2c : Tail(s2c)[i] = s2c[j]
        /\ UNCHANGED <<received, log>>
    BY <1>3, HeadTail DEF Arrives, Types
  <2>2. /\ Range(batch') \subseteq Range(received)
        /\ \A i \in DOMAIN s2c' : Range(s2c'[i]) \subseteq Range(received)
    BY <2>1 DEF ResultInv, ReplyInv
  <2>. QED
    BY <2>1, <2>2 DEF ResultInv, ReplyInv, OkMeansReceived
<1>4. CASE Drops
  <2>1. Range(batch') \subseteq Range(batch) /\ UNCHANGED <<s2c, received, log>>
    BY <1>4, HeadTail DEF Drops, Types
  <2>. QED
    BY <2>1 DEF ResultInv, ReplyInv, OkMeansReceived
<1>5. CASE Takes
  <2>1. /\ Head(batch) \in Ids /\ Head(batch) \in Range(batch)
        /\ Range(batch') \subseteq Range(batch)
    BY <1>1, <1>5, HeadTail DEF Takes, Types
  <2>2. /\ UNCHANGED <<s2c, received>> /\ Tells(Head(batch), "ok")
    BY <1>5 DEF Takes
  <2>3. /\ \A other \in Ids \ {Head(batch)} : log'[other] = log[other]
        /\ Head(batch) \in Range(received)
    BY <2>1, <2>2, Told DEF ResultInv, ReplyInv, Outcomes
  <2>. QED
    BY <2>1, <2>2, <2>3 DEF ResultInv, ReplyInv, OkMeansReceived
<1>6. CASE CutTurns \/ Expires
  <2>1. UNCHANGED <<batch, s2c, received>>
    BY <1>6 DEF CutTurns, Expires
  <2>2. \/ UNCHANGED log
        \/ \E id \in Ids, outcome \in Outcomes \ {"ok"} : Tells(id, outcome)
    BY <1>6 DEF CutTurns, Expires, HandlerInv, Types, Outcomes
  <2>3. ASSUME NEW id \in Ids, NEW outcome \in Outcomes \ {"ok"}, Tells(id, outcome)
        PROVE  OkMeansReceived'
    <3>1. /\ \A other \in Ids \ {id} : log'[other] = log[other]
          /\ Range(log'[id]) = Range(log[id]) \union {outcome}
      BY <2>3, Told
    <3>. QED
      BY <2>1, <3>1 DEF ResultInv, OkMeansReceived
  <2>. QED
    BY <2>1, <2>2, <2>3 DEF ResultInv, ReplyInv, OkMeansReceived
<1>7. CASE Receives
  <2>1. Head(c2s) \in Seq(Ids) /\ received \in Seq(Ids)
    BY <1>7, HeadTail DEF Receives, Types
  <2>2. Range(received) \subseteq Range(received \o Head(c2s))
    <3>1. /\ \A i \in 1 .. Len(received) : (received \o Head(c2s))[i] = received[i]
          /\ DOMAIN received = 1 .. Len(received) /\ Len(received) \in Nat
          /\ Len(Head(c2s)) \in Nat
          /\ DOMAIN (received \o Head(c2s)) = 1 .. Len(received) + Len(Head(c2s))
      BY <2>1, ConcatProperties, LenProperties
    <3>2. 1 .. Len(received) \subseteq 1 .. Len(received) + Len(Head(c2s))
      BY <3>1
    <3>. QED
      BY <3>1, <3>2 DEF Range
  <2>3. UNCHANGED <<batch, s2c, log>> /\ Range(received) \subseteq Range(received')
    BY <1>7, <2>2 DEF Receives
  <2>. QED
    BY <2>3 DEF ResultInv, ReplyInv, OkMeansReceived
<1>8. CASE Replies
  <2>1. PICK n \in Nat : \E packet \in [1 .. n -> Range(received)] : s2c' = <<packet>>
    BY <1>8 DEF Replies
  <2>2. PICK packet \in [1 .. n -> Range(received)] : s2c' = <<packet>>
    BY <2>1
  <2>4. Range(packet) \subseteq Range(received)
    BY <2>2, Packets
  <2>3. \A i \in DOMAIN s2c' : s2c'[i] = packet
    BY <2>2
  <2>. QED
    BY <1>8, <2>3, <2>4 DEF Replies, ResultInv, ReplyInv, OkMeansReceived
<1>. QED
  BY <1>2, <1>3, <1>4, <1>5, <1>6, <1>7, <1>8 DEF Step

-----------------------------------------------------------------------------
(* The requests on their way.                                              *)

\* A step of the connection, the end of a loop, or a flush.
LEMMA QuietStream ==
  ASSUME StreamInv, Quiet
  PROVE  StreamInv'
<1>1. UNCHANGED <<bufferMsg, curId, received>>
  BY DEF Quiet
<1>2. /\ Stream(received, <<>>, queue, curId)
      /\ Stream(received, c2s, <<>>, curId)
      /\ Stream(received, Append(c2s, queue), <<>>, curId)
  BY WireLost, BufferLost, BufferWritten DEF StreamInv
<1>3. \/ queue' = queue /\ c2s' = c2s
      \/ queue' = queue /\ c2s' = <<>>
      \/ queue' = <<>> /\ c2s' = c2s
      \/ queue' = <<>> /\ c2s' = Append(c2s, queue)
  BY DEF Quiet
<1>. QED
  BY <1>1, <1>2, <1>3 DEF StreamInv

\* A call is given the next id, and is buffered, written or lost.
LEMMA RegisterStream ==
  ASSUME StreamInv, Registers
  PROVE  StreamInv'
<1>1. curId' = curId + 1 /\ UNCHANGED <<bufferMsg, received>>
  BY DEF Registers
<1>2. CASE bufferMsg
  BY <1>1, <1>2, RequestBuffered DEF StreamInv, Registers
<1>3. CASE ~bufferMsg
  <2>1. /\ c2s' = Append(c2s, <<curId>>) \/ c2s' = c2s
        /\ queue = <<>> /\ queue' = <<>>
    BY <1>3 DEF StreamInv, Registers
  <2>2. Stream(received, c2s, <<>>, curId)
    BY <2>1 DEF StreamInv
  <2>3. /\ Stream(received, c2s, <<>>, curId + 1)
        /\ Stream(received, Append(c2s, <<curId>>), <<>>, curId + 1)
    BY <2>2, IdTaken, RequestWritten
  <2>. QED
    BY <1>1, <2>1, <2>3 DEF StreamInv
<1>. QED
  BY <1>2, <1>3

LEMMA StreamStep ==
  ASSUME StreamInv, Step
  PROVE  StreamInv'
<1>1. CASE CutStarts
  <2>1. /\ c2s' = c2s \/ c2s' = <<>>
        /\ UNCHANGED <<bufferMsg, curId, queue, received>>
    BY <1>1 DEF CutStarts
  <2>2. Stream(received, <<>>, queue, curId)
    BY WireLost DEF StreamInv
  <2>. QED
    BY <2>1, <2>2 DEF StreamInv
<1>2. CASE Receives
  BY <1>2, PacketReceived DEF StreamInv, Receives
<1>3. CASE Arrives \/ Drops \/ Takes \/ CutTurns \/ Expires \/ Replies
  <2>1. UNCHANGED <<bufferMsg, curId, queue, c2s, received>>
    BY <1>3 DEF Arrives, Drops, Takes, CutTurns, Expires, Replies
  <2>. QED
    BY <2>1 DEF StreamInv
<1>. QED
  BY <1>1, <1>2, <1>3, QuietStream, RegisterStream DEF Step

-----------------------------------------------------------------------------
(* The theorems.                                                           *)

LEMMA InvInit == Init => IInv
<1>. SUFFICES ASSUME Init PROVE IInv
  OBVIOUS
<1>1. /\ kind \in {"tcp", "ws", "ws2", "mqtt2"}
      /\ curId = 0 /\ requests = {} /\ timeout = {} /\ queue = <<>>
      /\ batch = <<>> /\ cutting = FALSE /\ cut = {} /\ socket = "none"
      /\ c2s = <<>> /\ s2c = <<>> /\ received = <<>> /\ cuts = 0
      /\ log = [id \in Ids |-> <<>>]
  BY DEF Init, Tcp!Init, Tcp!New, Ws!Init, Ws!New, Ws2!Init, Ws2!New,
         Mqtt2!Init, Mqtt2!New, Ids, Tcp!Ids, Ws!Ids, Ws2!Ids, Mqtt2!Ids
<1>2. /\ <<>> \in Seq(Ids) /\ <<>> \in Seq(Seq(Ids)) /\ <<>> \in Seq(Outcomes)
      /\ Range(<<>>) = {} /\ DOMAIN <<>> = {} /\ Len(<<>>) = 0
  BY DEF Range
<1>3. Types
  BY <1>1, <1>2 DEF Types
<1>4. CallInv
  BY <1>1, <1>2 DEF CallInv, HandlerInv, FreshInv, AnswerInv, Owed, Disconnects
<1>5. ResultInv
  BY <1>1, <1>2 DEF ResultInv, ReplyInv, OkMeansReceived
<1>6. StreamInv
  BY <1>1, EmptyStream DEF StreamInv
<1>. QED
  BY <1>3, <1>4, <1>5, <1>6 DEF IInv

LEMMA InvStep == IInv /\ [Next]_vars => IInv'
BY Steps, TypeStep, CallStep, ResultStep, StreamStep DEF IInv, CallInv

\* The inductive invariant of the four mailboxes: how often a callback was
\* called is a matter of whether its last call is owed.
THEOREM InductiveInvariant == Spec => []IInv
BY InvInit, InvStep, PTL DEF Spec

\* No callback is called after a result or a timeout, those of tcp and ws2 are
\* called once at most, those of ws twice, and those of mqtt2 once more than
\* there were disconnects.
THEOREM AnswersAreBounded == Spec => []AnswersBounded
<1>1. IInv => AnswersBounded
  <2>. SUFFICES ASSUME IInv, NEW id \in Ids
                PROVE  /\ Len(log[id]) <= MaxAnswers
                       /\ \A i \in 1 .. Len(log[id]) - 1 : log[id][i] = "disconnect"
    BY DEF AnswersBounded
  <2>1. Len(log[id]) \in Nat /\ Disconnects(id) \in Int
    BY DisconnectsType, LenProperties DEF IInv, Types
  <2>2. Bounded(id)
    BY AnswerBounded DEF IInv, CallInv
  <2>3. Disconnects(id) + 1 <= MaxAnswers /\ MaxAnswers \in Int
    BY DEF Disconnects, MaxAnswers, IInv, Types
  <2>4. Len(log[id]) <= MaxAnswers
    BY <2>1, <2>2, <2>3 DEF Bounded
  <2>. QED
    BY <2>1, <2>2, <2>4 DEF Bounded
<1>. QED
  BY <1>1, InductiveInvariant, PTL

\* A result is passed only to a call the server has received.
THEOREM ResultsAreReceived == Spec => []OkMeansReceived
<1>1. IInv => OkMeansReceived
  BY DEF IInv, ResultInv
<1>. QED
  BY <1>1, InductiveInvariant, PTL

\* Over each of the four transports, whatever is lost with the connection, the
\* server receives the requests in the order of send, and none twice.
THEOREM RequestsInOrderOnce == Spec => []InOrderOnce
<1>1. IInv => InOrderOnce
  BY DEF IInv, StreamInv, Stream, InOrderOnce
<1>. QED
  BY <1>1, InductiveInvariant, PTL

-----------------------------------------------------------------------------
(* The types, with the bounds of the model.                                *)

\* The types of the fields that Types does not mention, and the bounds.
FieldTypes ==
  /\ kind \in Kinds /\ bufferMsg \in Buffering
  /\ connected \in BOOLEAN /\ closed \in BOOLEAN
  /\ interval \in BOOLEAN /\ keepaliveTimer \in BOOLEAN
  /\ told \in Seq({"ok", "error"})
  /\ curId \in 0 .. MaxCalls /\ cuts \in 0 .. MaxCuts /\ pingAge \in -1 .. 2
  /\ cutting \in BOOLEAN /\ after \in {"return", "emit", "tell"}
  /\ crashed \in BOOLEAN /\ socket \in Sockets /\ expired \subseteq Ids

\* What the handlers set the fields to.
LEMMA FieldValues ==
  ASSUME FieldTypes
  PROVE  /\ bufferMsg \in BOOLEAN
         /\ Append(told, "ok") \in Seq({"ok", "error"})
         /\ Append(told, "error") \in Seq({"ok", "error"})
         /\ curId < MaxCalls => curId + 1 \in 0 .. MaxCalls
         /\ cuts < MaxCuts => cuts + 1 \in 0 .. MaxCuts
         /\ pingAge < 2 => pingAge + 1 \in -1 .. 2
         /\ -1 \in -1 .. 2 /\ 0 \in -1 .. 2
         /\ \A s \in {"none", "dialing", "up", "dead", "closing", "ending", "down"} : s \in Sockets
<1>1. bufferMsg \in BOOLEAN
  BY OptionsAssumption DEF FieldTypes
<1>2. Append(told, "ok") \in Seq({"ok", "error"}) /\ Append(told, "error") \in Seq({"ok", "error"})
  BY DEF FieldTypes
<1>3. /\ curId < MaxCalls => curId + 1 \in 0 .. MaxCalls
      /\ cuts < MaxCuts => cuts + 1 \in 0 .. MaxCuts
      /\ pingAge < 2 => pingAge + 1 \in -1 .. 2
      /\ -1 \in -1 .. 2 /\ 0 \in -1 .. 2
  BY BoundsAssumption DEF FieldTypes
<1>. QED
  BY <1>1, <1>2, <1>3 DEF Sockets

LEMMA TcpFields ==
  ASSUME FieldTypes, Tcp!Next
  PROVE  FieldTypes'
<1>1. CASE Tcp!Connect
  BY <1>1, FieldValues DEF Tcp!Connect, Tcp!Dial, Tcp!options, Tcp!mailbox,
     Tcp!loop, Tcp!answers, Tcp!calls, FieldTypes
<1>2. CASE Tcp!ConnectDone
  BY <1>2, FieldValues DEF Tcp!ConnectDone, Tcp!Established, Tcp!Tell, Tcp!options,
     Tcp!loop, Tcp!answers, Tcp!calls, FieldTypes
<1>3. CASE Tcp!Close
  BY <1>3, FieldValues DEF Tcp!Close, Tcp!Closing, Tcp!options, Tcp!loop,
     Tcp!answers, Tcp!calls, FieldTypes
<1>4. CASE Tcp!SocketError
  BY <1>4, FieldValues DEF Tcp!SocketError, Tcp!Tell, Tcp!options, Tcp!mailbox,
     Tcp!loop, Tcp!answers, Tcp!calls, FieldTypes
<1>5. CASE Tcp!End
  BY <1>5, FieldValues DEF Tcp!End, Tcp!options, Tcp!loop, Tcp!answers, Tcp!calls,
     FieldTypes
<1>6. CASE Tcp!Send
  BY <1>6, FieldValues DEF Tcp!Send, Tcp!SendCall, Tcp!Register, Tcp!options,
     Tcp!mailbox, Tcp!loop, Tcp!answers, Tcp!calls, FieldTypes
<1>7. CASE Tcp!Flush
  BY <1>7, FieldValues DEF Tcp!Flush, Tcp!FlushQueue, Tcp!options, Tcp!mailbox,
     Tcp!loop, Tcp!answers, Tcp!calls, FieldTypes
<1>8. CASE Tcp!Data
  BY <1>8, FieldValues DEF Tcp!Data, Tcp!Arrive, Tcp!options, Tcp!mailbox, Tcp!loop,
     Tcp!answers, Tcp!calls, FieldTypes
<1>9. CASE Tcp!ProcessMsg
  BY <1>9, FieldValues DEF Tcp!ProcessMsg, Tcp!DropReply, Tcp!CallBack,
     Tcp!TakeReply, Tcp!options, Tcp!mailbox, Tcp!loop, Tcp!answers, Tcp!calls,
     FieldTypes
<1>10. ASSUME NEW id \in Tcp!Ids, Tcp!CallbackTimeout(id)
      PROVE  FieldTypes'
  BY <1>10 DEF Tcp!CallbackTimeout, Tcp!Expire, Tcp!options, Tcp!mailbox, Tcp!loop,
     Tcp!Ids, Ids, Tcp!calls, FieldTypes
<1>. QED
  BY <1>1, <1>2, <1>3, <1>4, <1>5, <1>6, <1>7, <1>8, <1>9, <1>10
  DEF Tcp!Next

LEMMA WsFields ==
  ASSUME FieldTypes, Ws!Next
  PROVE  FieldTypes'
<1>1. CASE Ws!Connect
  BY <1>1, FieldValues DEF Ws!Connect, Ws!Dial, Ws!options, Ws!mailbox, Ws!loop,
     Ws!answers, Ws!calls, FieldTypes
<1>2. CASE Ws!ConnectDone
  BY <1>2, FieldValues DEF Ws!ConnectDone, Ws!Established, Ws!Tell, Ws!options,
     Ws!loop, Ws!answers, Ws!calls, FieldTypes
<1>3. CASE Ws!Close
  BY <1>3, FieldValues DEF Ws!Close, Ws!CloseThen, Ws!options, Ws!answers,
     Ws!MarkClosed, Ws!Gone, Ws!CutAll, Ws!loop, Ws!calls, FieldTypes
<1>4. CASE Ws!SocketError
  BY <1>4, FieldValues DEF Ws!SocketError, Ws!CloseThen, Ws!Gone, Ws!Tell,
     Ws!mailbox, Ws!loop, Ws!options, Ws!answers, Ws!MarkClosed, Ws!CutAll,
     Ws!calls, FieldTypes
<1>5. CASE Ws!Disconnect
  BY <1>5, FieldValues DEF Ws!Disconnect, Ws!Gone, Ws!CutAll, Ws!options,
     Ws!mailbox, Ws!answers, Ws!calls, FieldTypes
<1>6. CASE Ws!CutCall
  BY <1>6, FieldValues DEF Ws!CutCall, Ws!CutNext, Ws!options, Ws!mailbox, Ws!calls,
     FieldTypes
<1>7. CASE Ws!DisconnectDone
  BY <1>7, FieldValues DEF Ws!DisconnectDone, Ws!CutEnds, Ws!MarkClosed, Ws!mailbox,
     Ws!Tell, Ws!options, Ws!answers, Ws!calls, FieldTypes
<1>8. CASE Ws!Send
  BY <1>8, FieldValues DEF Ws!Send, Ws!SendCall, Ws!Register, Ws!options,
     Ws!mailbox, Ws!loop, Ws!answers, Ws!calls, FieldTypes
<1>9. CASE Ws!Flush
  BY <1>9, FieldValues DEF Ws!Flush, Ws!FlushQueue, Ws!options, Ws!mailbox, Ws!loop,
     Ws!answers, Ws!calls, FieldTypes
<1>10. CASE Ws!Message
  BY <1>10, FieldValues DEF Ws!Message, Ws!Arrive, Ws!options, Ws!mailbox, Ws!loop,
     Ws!answers, Ws!calls, FieldTypes
<1>11. CASE Ws!ProcessMsg
  BY <1>11, FieldValues DEF Ws!ProcessMsg, Ws!DropReply, Ws!CallBack,
     Ws!CallBackThrows, Ws!options, Ws!mailbox, Ws!loop, Ws!answers, Ws!TakeReply,
     Ws!calls, FieldTypes
<1>12. ASSUME NEW id \in Ws!Ids, Ws!CallbackTimeout(id)
      PROVE  FieldTypes'
  BY <1>12 DEF Ws!CallbackTimeout, Ws!ExpireAndAnswer, Ws!Expire, Ws!mailbox,
     Ws!options, Ws!loop, Ws!Ids, Ids, Ws!calls, FieldTypes
<1>. QED
  BY <1>1, <1>2, <1>3, <1>4, <1>5, <1>6, <1>7, <1>8, <1>9, <1>10, <1>11, <1>12
  DEF Ws!Next

LEMMA Ws2Fields ==
  ASSUME FieldTypes, Ws2!Next
  PROVE  FieldTypes'
<1>1. CASE Ws2!Connect
  BY <1>1, FieldValues DEF Ws2!Connect, Ws2!Dial, Ws2!options, Ws2!mailbox,
     Ws2!loop, Ws2!answers, Ws2!calls, FieldTypes
<1>2. CASE Ws2!Open
  BY <1>2, FieldValues DEF Ws2!Open, Ws2!Established, Ws2!Tell, Ws2!options,
     Ws2!loop, Ws2!answers, Ws2!calls, FieldTypes
<1>3. CASE Ws2!Close
  BY <1>3, FieldValues DEF Ws2!Close, Ws2!Closing, Ws2!options, Ws2!loop,
     Ws2!answers, Ws2!mailbox, Ws2!calls, FieldTypes
<1>4. CASE Ws2!SocketError
  BY <1>4, FieldValues DEF Ws2!SocketError, Ws2!Tell, Ws2!Closing, Ws2!options,
     Ws2!loop, Ws2!answers, Ws2!mailbox, Ws2!calls, FieldTypes
<1>5. CASE Ws2!SocketClose
  BY <1>5, FieldValues DEF Ws2!SocketClose, Ws2!CutAll, Ws2!options, Ws2!mailbox,
     Ws2!answers, Ws2!calls, FieldTypes
<1>6. CASE Ws2!CutCall
  BY <1>6, FieldValues DEF Ws2!CutCall, Ws2!CutNext, Ws2!options, Ws2!mailbox,
     Ws2!calls, FieldTypes
<1>7. CASE Ws2!CloseDone
  BY <1>7, FieldValues DEF Ws2!CloseDone, Ws2!CutEnds, Ws2!Closing, Ws2!options,
     Ws2!answers, Ws2!mailbox, Ws2!calls, FieldTypes
<1>8. CASE Ws2!CheckKeepAlive
  BY <1>8, FieldValues DEF Ws2!CheckKeepAlive, Ws2!mailbox, Ws2!Closing,
     Ws2!options, Ws2!loop, Ws2!answers, Ws2!calls, FieldTypes
<1>9. CASE Ws2!Pong
  BY <1>9, FieldValues DEF Ws2!Pong, Ws2!options, Ws2!mailbox, Ws2!loop,
     Ws2!answers, Ws2!calls, FieldTypes
<1>10. CASE Ws2!Send
  BY <1>10, FieldValues DEF Ws2!Send, Ws2!SendCall, Ws2!SendThrows, Ws2!Register, Ws2!options,
     Ws2!mailbox, Ws2!loop, Ws2!answers, Ws2!calls, FieldTypes
<1>11. CASE Ws2!Flush
  BY <1>11, FieldValues DEF Ws2!Flush, Ws2!FlushQueue, Ws2!FlushThrows, Ws2!options, Ws2!mailbox,
     Ws2!loop, Ws2!answers, Ws2!calls, FieldTypes
<1>12. CASE Ws2!Message
  BY <1>12, FieldValues DEF Ws2!Message, Ws2!Arrive, Ws2!options, Ws2!mailbox,
     Ws2!loop, Ws2!answers, Ws2!calls, FieldTypes
<1>13. CASE Ws2!ProcessMsg
  BY <1>13, FieldValues DEF Ws2!ProcessMsg, Ws2!DropReply, Ws2!CallBack,
     Ws2!CallBackThrows, Ws2!options, Ws2!mailbox, Ws2!loop, Ws2!answers,
     Ws2!TakeReply, Ws2!calls, FieldTypes
<1>14. ASSUME NEW id \in Ws2!Ids, Ws2!CallbackTimeout(id)
      PROVE  FieldTypes'
  BY <1>14 DEF Ws2!CallbackTimeout, Ws2!Expire, Ws2!options, Ws2!mailbox, Ws2!loop,
     Ws2!Ids, Ids, Ws2!calls, FieldTypes
<1>15. CASE Ws2!CloseFrame
  BY <1>15, FieldValues DEF Ws2!CloseFrame, Ws2!options, Ws2!mailbox, Ws2!loop,
     Ws2!answers, Ws2!calls, FieldTypes
<1>. QED
  BY <1>1, <1>2, <1>3, <1>4, <1>5, <1>6, <1>7, <1>8, <1>9, <1>10, <1>11, <1>12,
     <1>13, <1>14, <1>15
  DEF Ws2!Next

LEMMA Mqtt2Fields ==
  ASSUME FieldTypes, Mqtt2!Next
  PROVE  FieldTypes'
<1>1. CASE Mqtt2!Connect
  BY <1>1, FieldValues DEF Mqtt2!Connect, Mqtt2!Dial, Mqtt2!options, Mqtt2!mailbox,
     Mqtt2!loop, Mqtt2!answers, Mqtt2!calls, FieldTypes
<1>2. CASE Mqtt2!ConnectDone
  BY <1>2, FieldValues DEF Mqtt2!ConnectDone, Mqtt2!Established, Mqtt2!options,
     Mqtt2!loop, Mqtt2!answers, Mqtt2!calls, FieldTypes
<1>3. CASE Mqtt2!Handshake
  BY <1>3, FieldValues DEF Mqtt2!Handshake, Mqtt2!Tell, Mqtt2!options,
     Mqtt2!mailbox, Mqtt2!loop, Mqtt2!answers, Mqtt2!calls, FieldTypes
<1>4. CASE Mqtt2!Close
  BY <1>4, FieldValues DEF Mqtt2!Close, Mqtt2!Closing, Mqtt2!options, Mqtt2!loop,
     Mqtt2!answers, Mqtt2!calls, FieldTypes
<1>5. CASE Mqtt2!SocketError
  BY <1>5, FieldValues DEF Mqtt2!SocketError, Mqtt2!Closing, Mqtt2!options,
     Mqtt2!loop, Mqtt2!answers, Mqtt2!calls, FieldTypes
<1>6. CASE Mqtt2!Disconnect
  BY <1>6, FieldValues DEF Mqtt2!Disconnect, Mqtt2!CutAll, Mqtt2!options,
     Mqtt2!mailbox, Mqtt2!answers, Mqtt2!calls, FieldTypes
<1>7. CASE Mqtt2!CutCall
  BY <1>7, FieldValues DEF Mqtt2!CutCall, Mqtt2!CutNext, Mqtt2!options,
     Mqtt2!mailbox, Mqtt2!calls, FieldTypes
<1>8. CASE Mqtt2!DisconnectDone
  BY <1>8, FieldValues DEF Mqtt2!DisconnectDone, Mqtt2!CutEnds, Mqtt2!EmitClose,
     Mqtt2!options, Mqtt2!answers, Mqtt2!Closing, Mqtt2!mailbox, Mqtt2!calls,
     FieldTypes
<1>9. CASE Mqtt2!CheckKeepAlive
  BY <1>9, FieldValues DEF Mqtt2!CheckKeepAlive, Mqtt2!mailbox, Mqtt2!EmitClose,
     Mqtt2!options, Mqtt2!loop, Mqtt2!answers, Mqtt2!Closing, Mqtt2!calls,
     FieldTypes
<1>10. CASE Mqtt2!PingResp
  BY <1>10, FieldValues DEF Mqtt2!PingResp, Mqtt2!options, Mqtt2!mailbox,
     Mqtt2!loop, Mqtt2!answers, Mqtt2!calls, FieldTypes
<1>11. CASE Mqtt2!Send
  BY <1>11, FieldValues DEF Mqtt2!Send, Mqtt2!SendCall, Mqtt2!Register,
     Mqtt2!options, Mqtt2!mailbox, Mqtt2!loop, Mqtt2!answers, Mqtt2!calls,
     FieldTypes
<1>12. CASE Mqtt2!Flush
  BY <1>12, FieldValues DEF Mqtt2!Flush, Mqtt2!options, Mqtt2!mailbox, Mqtt2!loop,
     Mqtt2!answers, Mqtt2!calls, FieldTypes
<1>13. CASE Mqtt2!Publish
  BY <1>13, FieldValues DEF Mqtt2!Publish, Mqtt2!Arrive, Mqtt2!options,
     Mqtt2!mailbox, Mqtt2!loop, Mqtt2!answers, Mqtt2!calls, FieldTypes
<1>14. CASE Mqtt2!ProcessMsg
  BY <1>14, FieldValues DEF Mqtt2!ProcessMsg, Mqtt2!DropReply, Mqtt2!CallBack,
     Mqtt2!options, Mqtt2!mailbox, Mqtt2!loop, Mqtt2!answers, Mqtt2!TakeReply,
     Mqtt2!calls, FieldTypes
<1>15. ASSUME NEW id \in Mqtt2!Ids, Mqtt2!CallbackTimeout(id)
      PROVE  FieldTypes'
  BY <1>15 DEF Mqtt2!CallbackTimeout, Mqtt2!ExpireAndAnswer, Mqtt2!Expire,
     Mqtt2!mailbox, Mqtt2!options, Mqtt2!loop, Mqtt2!Ids, Ids, Mqtt2!calls,
     FieldTypes
<1>. QED
  BY <1>1, <1>2, <1>3, <1>4, <1>5, <1>6, <1>7, <1>8, <1>9, <1>10, <1>11, <1>12,
     <1>13, <1>14, <1>15
  DEF Mqtt2!Next

LEMMA FieldSteps ==
  ASSUME FieldTypes, [Next]_vars
  PROVE  FieldTypes'
<1>. USE DEF options, mailbox, calls, loop, wire, answers, FieldTypes
<1>1. CASE UNCHANGED vars
  BY <1>1 DEF vars
<1>2. CASE LinkDies
  BY <1>2, FieldValues DEF LinkDies
<1>3. CASE ServerReceive
  BY <1>3 DEF ServerReceive
<1>4. ASSUME NEW n \in 1 .. MaxBatch, ServerReply(n)
      PROVE  FieldTypes'
  BY <1>4 DEF ServerReply
<1>. QED
  BY <1>1, <1>2, <1>3, <1>4, TcpFields, WsFields, Ws2Fields, Mqtt2Fields DEF Next, Server

LEMMA FieldInit == Init => FieldTypes
<1>. SUFFICES ASSUME Init PROVE FieldTypes
  OBVIOUS
<1>1. /\ kind \in Kinds /\ bufferMsg \in Buffering
      /\ connected = FALSE /\ closed = FALSE /\ interval = FALSE /\ keepaliveTimer = FALSE
      /\ told = <<>> /\ curId = 0 /\ cuts = 0 /\ pingAge = -1
      /\ cutting = FALSE /\ after = "return" /\ crashed = FALSE /\ socket = "none"
      /\ expired = {}
  BY DEF Init, Tcp!Init, Tcp!New, Ws!Init, Ws!New, Ws2!Init, Ws2!New, Mqtt2!Init, Mqtt2!New
<1>2. 0 \in 0 .. MaxCalls /\ 0 \in 0 .. MaxCuts /\ -1 \in -1 .. 2
  BY BoundsAssumption
<1>3. <<>> \in Seq({"ok", "error"})
  OBVIOUS
<1>. QED
  BY <1>1, <1>2, <1>3 DEF FieldTypes, Sockets

\* The state has its types, within the bounds of the model: the ids of the calls
\* that were made, one timer for each of them, and no more cuts than there were.
THEOREM TypeCorrect == Spec => []TypeOK
<1>1. FieldTypes /\ IInv => TypeOK
  BY DEF FieldTypes, IInv, Types, CallInv, HandlerInv, TypeOK
<1>2. FieldTypes /\ [Next]_vars => FieldTypes'
  BY FieldSteps
<1>. QED
  BY <1>1, <1>2, FieldInit, InductiveInvariant, PTL DEF Spec
-----------------------------------------------------------------------------
(* The promise of RpcCalls.                                                *)

\* Each call that send took has one final answer, or notices of a lost connection
\* and then one.
Promise == INSTANCE RpcCalls
             WITH Calls <- Ids, Notices <- {"disconnect"},
                  accepted <- 0 .. curId - 1, answers <- log

\* A callback that is owed its last call was told of disconnects only.
LEMMA OwedUnanswered ==
  ASSUME IInv, NEW id \in Ids, Owed(id)
  PROVE  ~Promise!Answered(id) /\ id \in 0 .. curId - 1
<1>1. DOMAIN log[id] = 1 .. Len(log[id])
  BY LenProperties DEF IInv, Types
<1>2. \A i \in 1 .. Len(log[id]) : log[id][i] = "disconnect"
  BY DEF IInv, CallInv, AnswerInv
<1>3. ~Promise!Answered(id)
  BY <1>1, <1>2 DEF Promise!Answered
<1>4. id \in requests /\ id \in Nat /\ curId \in Nat
  BY BoundsAssumption DEF Owed, Ids, IInv, Types
<1>5. id < curId
  BY <1>4 DEF IInv, CallInv, FreshInv
<1>. QED
  BY <1>3, <1>4, <1>5

\* Calling it is a step of the promise.
LEMMA AnswerIsPromised ==
  ASSUME IInv, NEW id \in Ids, Owed(id), NEW outcome \in Outcomes,
         Tells(id, outcome), UNCHANGED curId
  PROVE  Promise!Next
<1>1. Promise!Tell(id, outcome)
  BY OwedUnanswered DEF Promise!Tell, Tells
<1>2. Promise!Notify(id) \/ Promise!Answer(id)
  BY <1>1 DEF Promise!Notify, Promise!Answer
<1>. QED
  BY <1>2 DEF Promise!Next

LEMMA PromiseStep ==
  ASSUME IInv, Step
  PROVE  [Promise!Next]_(Promise!vars)
<1>. USE DEF Promise!vars
<1>1. CASE Quiet \/ Arrives \/ Drops \/ CutStarts \/ Receives \/ Replies
  BY <1>1 DEF Quiet, Arrives, Drops, CutStarts, Receives, Replies
<1>2. CASE Registers
  <2>1. curId \in Nat /\ curId < MaxCalls /\ curId' = curId + 1 /\ UNCHANGED log
    BY <1>2 DEF Registers, IInv, Types
  <2>2. 0 .. curId' - 1 = (0 .. curId - 1) \union {curId} /\ curId \notin 0 .. curId - 1
    BY <2>1
  <2>3. curId \in Ids
    BY <2>1, BoundsAssumption DEF Ids
  <2>4. Promise!Accept(curId)
    BY <2>1, <2>2 DEF Promise!Accept
  <2>. QED
    BY <2>3, <2>4 DEF Promise!Next
<1>3. CASE Takes
  <2>1. Head(batch) \in requests /\ batch # <<>> /\ requests \subseteq Ids
    BY <1>3 DEF Takes, IInv, Types
  <2>2. Owed(Head(batch))
    BY <2>1 DEF Owed, IInv, CallInv, HandlerInv
  <2>. QED
    BY <1>3, <2>1, <2>2, AnswerIsPromised DEF Takes, Outcomes
<1>4. CASE CutTurns
  <2>1. PICK id \in cut : Tells(id, "disconnect") \/ Tells(id, "cut")
    BY <1>4 DEF CutTurns
  <2>2. id \in requests /\ id \in Ids
    BY <2>1 DEF IInv, CallInv, HandlerInv, Types
  <2>3. Owed(id)
    BY <2>1, <2>2 DEF Owed
  <2>. QED
    BY <1>4, <2>1, <2>2, <2>3, AnswerIsPromised DEF CutTurns, Outcomes
<1>5. CASE Expires
  <2>1. PICK id \in timeout :
          \/ kind \in {"ws", "mqtt2"} /\ Tells(id, "timeout")
          \/ UNCHANGED log
    BY <1>5 DEF Expires
  <2>2. UNCHANGED curId
    BY <1>5 DEF Expires
  <2>3. id \in requests /\ id \in Ids
    BY <2>1 DEF IInv, CallInv, HandlerInv, Types
  <2>4. CASE kind \in {"ws", "mqtt2"} /\ Tells(id, "timeout")
    <3>1. Owed(id)
      BY <2>3, <2>4 DEF Owed
    <3>. QED
      BY <2>2, <2>3, <2>4, <3>1, AnswerIsPromised DEF Outcomes
  <2>. QED
    BY <2>1, <2>2, <2>4
<1>. QED
  BY <1>1, <1>2, <1>3, <1>4, <1>5 DEF Step

\* All four mailboxes implement the safety part of RpcCalls, as that of mqtt does:
\* no callback is called after a result, a timeout or the cut of ws2, before that
\* only by disconnects, and never for a call that send did not take.
THEOREM ImplementsPromise == Spec => Promise!SafeSpec
<1>1. Init => Promise!Init
  <2>. SUFFICES ASSUME Init PROVE Promise!Init
    OBVIOUS
  <2>1. curId = 0 /\ log = [id \in Ids |-> <<>>]
    BY DEF Init, Tcp!Init, Tcp!New, Ws!Init, Ws!New, Ws2!Init, Ws2!New,
           Mqtt2!Init, Mqtt2!New, Ids, Tcp!Ids, Ws!Ids, Ws2!Ids, Mqtt2!Ids
  <2>2. 0 .. curId - 1 = {}
    BY <2>1
  <2>. QED
    BY <2>1, <2>2 DEF Promise!Init
<1>2. IInv /\ [Next]_vars => [Promise!Next]_(Promise!vars)
  BY Steps, PromiseStep DEF IInv, CallInv
<1>. QED
  BY <1>1, <1>2, InductiveInvariant, PTL DEF Spec, Promise!SafeSpec
=============================================================================
