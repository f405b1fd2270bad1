------------------------- MODULE MqttMailbox_proofs -------------------------
(***************************************************************************)
(* Theorems about MqttMailbox, for every value of its constants.           *)
(***************************************************************************)
EXTENDS MqttMailbox, RequestStream_proofs

\* A packet of replies is a sequence of ids.
LEMMA ReplyPacketType ==
  ASSUME TypeOK, NEW packet \in ReplyPackets
  PROVE  packet \in Seq(Ids) /\ Range(packet) \subseteq Ids
<1>1. PICK n \in 1..MaxBatch : packet \in [1..n -> Range(received)]
  BY DEF ReplyPackets
<1>2. Range(received) \subseteq Ids
  BY DEF TypeOK, Range
<1>3. packet \in [1..n -> Ids] /\ n \in Nat
  BY <1>1, <1>2, BoundsAssumption
<1>. QED
  BY <1>3 DEF Range

\* Calling a callback keeps the log well typed.
LEMMA AnswerType ==
  ASSUME TypeOK, NEW id \in Ids, NEW outcome \in Outcomes, Answer(id, outcome)
  PROVE  log' \in [Ids -> Seq(Outcomes)]
BY DEF Answer, TypeOK

\* Writing a packet to the socket keeps the wire well typed.
LEMMA DoSendType ==
  ASSUME TypeOK, NEW packet \in Seq(Ids), DoSend(packet)
  PROVE  /\ link' \in {"none", "up", "down"}
         /\ c2s' \in Seq(Seq(Ids)) /\ s2c' \in Seq(Seq(Ids))
         /\ pinged' \in BOOLEAN
BY DEF DoSend, TypeOK

\* Losing the socket keeps the wire well typed.
LEMMA LinkLostType ==
  ASSUME LinkLost
  PROVE  /\ link' \in {"none", "up", "down"}
         /\ c2s' \in Seq(Seq(Ids)) /\ s2c' \in Seq(Seq(Ids))
         /\ pinged' \in BOOLEAN
<1>1. <<>> \in Seq(Seq(Ids))
  BY EmptySeq
<1>. QED
  BY <1>1 DEF LinkLost

\* Closing the mailbox keeps its flags and the wire well typed.
LEMMA ClosingType ==
  ASSUME TypeOK, Closing
  PROVE  /\ bufferMsg' \in BOOLEAN
         /\ connected' \in BOOLEAN /\ closed' \in BOOLEAN
         /\ dialing' \in BOOLEAN /\ connectTimeout' \in BOOLEAN
         /\ interval' \in BOOLEAN /\ keepaliveTimer' \in BOOLEAN
         /\ link' \in {"none", "up", "down"}
         /\ c2s' \in Seq(Seq(Ids)) /\ s2c' \in Seq(Seq(Ids))
         /\ pinged' \in BOOLEAN
BY LinkLostType DEF Closing, TypeOK

LEMMA TypeStep == TypeOK /\ [Next]_vars => TypeOK'
<1>. SUFFICES ASSUME TypeOK, [Next]_vars PROVE TypeOK'
  OBVIOUS
<1>. USE DEF mailbox, calls, ping, handler, wire, server
<1>1. CASE Connect
  BY <1>1 DEF Connect, TypeOK
<1>2. CASE ConnectDone
  BY <1>2, FlagsAssumption DEF ConnectDone, TypeOK
<1>3. CASE ConnectTimeout
  <2>1. CASE keepaliveTimer /\ ~closed
    BY <1>3, <2>1, LinkLostType DEF ConnectTimeout, TypeOK
  <2>2. CASE ~(keepaliveTimer /\ ~closed)
    BY ZenonT(20), <1>3, <2>2 DEF ConnectTimeout, TypeOK
  <2>. QED
    BY <2>1, <2>2
<1>4. CASE Close
  BY <1>4, ClosingType DEF Close, TypeOK
<1>5. CASE LinkDown
  BY <1>5, LinkLostType DEF LinkDown, TypeOK
<1>6. CASE SocketError
  <2>1. CASE keepaliveTimer /\ ~closed
    BY <1>6, <2>1, ClosingType DEF SocketError, TypeOK
  <2>2. CASE ~(keepaliveTimer /\ ~closed)
    BY <1>6, <2>2, LinkLostType DEF SocketError, TypeOK
  <2>. QED
    BY <2>1, <2>2
<1>7. CASE Send
  <2>1. curId \in Ids /\ curId + 1 \in 0..MaxCalls
    BY <1>7, BoundsAssumption DEF Send, Ids, TypeOK
  <2>2. requests' \subseteq Ids /\ timeout' \subseteq Ids
    BY <1>7, <2>1 DEF Send, Register, TypeOK
  <2>3. <<curId>> \in Seq(Ids) /\ Append(queue, curId) \in Seq(Ids)
    BY <2>1 DEF TypeOK
  <2>4. /\ link' \in {"none", "up", "down"}
        /\ c2s' \in Seq(Seq(Ids)) /\ s2c' \in Seq(Seq(Ids))
        /\ pinged' \in BOOLEAN
    <3>1. CASE bufferMsg
      BY <1>7, <3>1 DEF Send, TypeOK
    <3>2. CASE ~bufferMsg
      BY <1>7, <2>3, <3>2, DoSendType DEF Send
    <3>. QED
      BY <3>1, <3>2
  <2>. QED
    BY <1>7, <2>1, <2>2, <2>3, <2>4 DEF Send, TypeOK
<1>8. CASE Flush
  <2>1. queue \in Seq(Ids)
    BY DEF TypeOK
  <2>2. /\ link' \in {"none", "up", "down"}
        /\ c2s' \in Seq(Seq(Ids)) /\ s2c' \in Seq(Seq(Ids))
        /\ pinged' \in BOOLEAN
    BY <1>8, <2>1, DoSendType DEF Flush
  <2>. QED
    BY <1>8, <2>2 DEF Flush, TypeOK
<1>9. ASSUME NEW id \in Ids, CallbackTimeout(id)
      PROVE  TypeOK'
  <2>1. log' \in [Ids -> Seq(Outcomes)]
    BY <1>9, AnswerType DEF CallbackTimeout, Outcomes
  <2>. QED
    BY <1>9, <2>1 DEF CallbackTimeout, Forget, TypeOK
<1>10. CASE Publish
  BY <1>10 DEF Publish, TypeOK
<1>11. CASE ProcessMsg
  <2>1. Head(batch) \in Ids /\ Tail(batch) \in Seq(Ids) /\ <<>> \in Seq(Ids)
    BY <1>11 DEF ProcessMsg, TypeOK
  <2>2. log' \in [Ids -> Seq(Outcomes)]
    <3>1. CASE Head(batch) \in requests
      BY <1>11, <2>1, <3>1, AnswerType DEF ProcessMsg, Outcomes
    <3>2. CASE Head(batch) \notin requests
      BY <1>11, <3>2 DEF ProcessMsg, TypeOK
    <3>. QED
      BY <3>1, <3>2
  <2>3. batch' \in Seq(Ids) /\ requests' \subseteq Ids /\ timeout' \subseteq Ids
    BY <1>11, <2>1 DEF ProcessMsg, Forget, TypeOK
  <2>4. UNCHANGED <<mailbox, curId, queue, ping, disconnecting, cut, wire, server,
                    disconnects>>
    BY <1>11 DEF ProcessMsg
  <2>. QED
    BY <2>2, <2>3, <2>4 DEF TypeOK
<1>12. CASE Disconnect
  BY <1>12, BoundsAssumption DEF Disconnect, TypeOK
<1>13. CASE CutCall
  <2>1. PICK id \in cut : cut' = cut \ {id} /\ Answer(id, "disconnect")
    BY <1>13 DEF CutCall
  <2>2. log' \in [Ids -> Seq(Outcomes)]
    BY <2>1, AnswerType DEF TypeOK, Outcomes
  <2>. QED
    BY <1>13, <2>1, <2>2 DEF CutCall, TypeOK
<1>14. CASE DisconnectDone
  <2>1. CASE keepaliveTimer /\ ~closed
    BY <1>14, <2>1, ClosingType DEF DisconnectDone, EmitClose, TypeOK
  <2>2. CASE ~(keepaliveTimer /\ ~closed)
    BY ZenonT(20), <1>14, <2>2 DEF DisconnectDone, EmitClose, TypeOK
  <2>. QED
    BY <2>1, <2>2
<1>15. CASE CheckKeepAlive
  <2>. pingAge \in -1..2 /\ pingAge \in Int
    BY DEF TypeOK
  <2>1. CASE PingServer
    <3>1. pinged' \in BOOLEAN
      BY <2>1, Zenon DEF PingServer
    <3>2. pingAge' = 0 /\ ponged' = FALSE /\ UNCHANGED <<mailbox, link, c2s, s2c>>
      BY <2>1, Zenon DEF PingServer
    <3>3. UNCHANGED <<calls, handler, server, disconnects, log>>
      BY <1>15, Zenon DEF CheckKeepAlive
    <3>4. 0 \in -1..2
      OBVIOUS
    <3>. QED
      BY ZenonT(20), <3>1, <3>2, <3>3, <3>4 DEF TypeOK
  <2>2. CASE AwaitPong
    <3>1. pingAge' \in -1..2
      BY <2>2 DEF AwaitPong
    <3>. QED
      BY <1>15, <2>2, <3>1 DEF CheckKeepAlive, AwaitPong, TypeOK
  <2>3. CASE DropDeadPeer
    <3>1. pingAge' \in -1..2
      BY <2>3 DEF DropDeadPeer
    <3>. QED
      BY <1>15, <2>3, <3>1, ClosingType
      DEF CheckKeepAlive, DropDeadPeer, TypeOK
  <2>. QED
    BY <1>15, <2>1, <2>2, <2>3 DEF CheckKeepAlive
<1>16. CASE PingResp
  BY ZenonT(20), <1>16 DEF PingResp, TypeOK
<1>17. CASE ServerReceive
  <2>1. Head(c2s) \in Seq(Ids) /\ Tail(c2s) \in Seq(Seq(Ids))
    BY <1>17 DEF ServerReceive, TypeOK
  <2>2. received \o Head(c2s) \in Seq(Ids)
    BY <2>1 DEF TypeOK
  <2>. QED
    BY <1>17, <2>1, <2>2 DEF ServerReceive, TypeOK
<1>18. ASSUME NEW packet \in ReplyPackets, ServerReply(packet)
       PROVE  TypeOK'
  <2>1. packet \in Seq(Ids) /\ Range(packet) \subseteq Ids
    BY ReplyPacketType
  <2>. QED
    BY <1>18, <2>1 DEF ServerReply, TypeOK
<1>19. CASE UNCHANGED vars
  BY <1>19 DEF vars, TypeOK
<1>. QED
  BY <1>1, <1>2, <1>3, <1>4, <1>5, <1>6, <1>7, <1>8, <1>9, <1>10, <1>11,
     <1>12, <1>13, <1>14, <1>15, <1>16, <1>17, <1>18, <1>19 DEF Next

\* Every variable keeps its type, for any number of calls and packets.
THEOREM TypeCorrect == Spec => []TypeOK
<1>1. Init => TypeOK
  <2>1. <<>> \in Seq(Ids) /\ <<>> \in Seq(Seq(Ids)) /\ <<>> \in Seq(Outcomes)
    BY EmptySeq
  <2>2. ASSUME Init PROVE log \in [Ids -> Seq(Outcomes)]
    BY <2>1, <2>2 DEF Init
  <2>3. 0 \in 0..MaxCalls /\ 0 \in 0..MaxDisconnects /\ -1 \in -1..2
    BY BoundsAssumption
  <2>. QED
    BY <2>1, <2>2, <2>3, FlagsAssumption DEF Init, TypeOK
<1>. QED
  BY <1>1, TypeStep, PTL DEF Spec

-----------------------------------------------------------------------------
(***************************************************************************)
(* The calls and their answers.  CallInv needs nothing of the connection:  *)
(* only Send, the two ways to answer and the disconnect handler matter.    *)
(***************************************************************************)

\* Steps of the connection leave the calls alone.
LEMMA CallFrame ==
  ASSUME CallInv,
         UNCHANGED <<curId, requests, timeout, handler, disconnects, log>>
  PROVE  CallInv'
BY DEF CallInv, HandlerInv, FreshInv, AnswerInv, MaxAnswers, handler

\* Calling the callback of a pending call for the last time, and forgetting it.
LEMMA FinalAnswer ==
  ASSUME TypeOK, CallInv, NEW id \in requests, NEW outcome \in Outcomes,
         ~disconnecting, Forget(id), Answer(id, outcome),
         UNCHANGED <<curId, disconnecting, cut, disconnects>>
  PROVE  CallInv'
<1>. cut = {} /\ cut' = {} /\ ~disconnecting'
  BY DEF CallInv, HandlerInv
<1>1. requests' = timeout' /\ HandlerInv'
  BY DEF CallInv, HandlerInv, Forget
<1>2. id \in Ids /\ log[id] \in Seq(Outcomes)
  BY DEF TypeOK
<1>3. /\ log'[id] = Append(log[id], outcome)
      /\ \A other \in Ids \ {id} : log'[other] = log[other]
  BY <1>2 DEF Answer, TypeOK
<1>4. FreshInv'
  BY <1>2, <1>3 DEF CallInv, FreshInv, Forget
<1>5. AnswerInv'
  <2>. SUFFICES ASSUME NEW other \in Ids
       PROVE  /\ other < curId' /\ other \notin requests' => log'[other] # <<>>
              /\ Len(log'[other]) <= MaxAnswers(other)'
              /\ \A i \in 1 .. Len(log'[other]) :
                   \/ log'[other][i] = "disconnect"
                   \/ other \notin requests' /\ i = Len(log'[other])
    BY DEF AnswerInv
  <2>. disconnects \in Nat
    BY BoundsAssumption DEF TypeOK
  <2>1. CASE other = id
    <3>1. /\ log'[id] # <<>>
          /\ Len(log'[id]) = Len(log[id]) + 1 /\ Len(log[id]) \in Nat
          /\ \A i \in 1 .. Len(log[id]) : log'[id][i] = log[id][i]
      BY <1>2, <1>3, AppendProperties
    <3>2. Len(log[id]) <= disconnects
      BY <1>2 DEF CallInv, AnswerInv, MaxAnswers
    <3>3. id \notin requests'
      BY DEF Forget
    <3>4. \A i \in 1 .. Len(log[id]) : log[id][i] = "disconnect"
      BY <1>2 DEF CallInv, AnswerInv
    <3>. QED
      BY SMTT(20), <2>1, <3>1, <3>2, <3>3, <3>4 DEF MaxAnswers
  <2>2. CASE other # id
    BY <1>3, <2>2 DEF CallInv, AnswerInv, MaxAnswers, Forget
  <2>. QED
    BY <2>1, <2>2
<1>. QED
  BY <1>1, <1>4, <1>5 DEF CallInv

\* Accepting a call.
LEMMA SendCalls ==
  ASSUME TypeOK, CallInv, Send
  PROVE  CallInv'
<1>. USE DEF handler
<1>1. curId \in Ids /\ curId' = curId + 1
  BY BoundsAssumption DEF Send, Ids, TypeOK
<1>2. requests' = requests \union {curId} /\ timeout' = timeout \union {curId}
  BY DEF Send, Register
<1>3. UNCHANGED <<batch, disconnecting, cut, disconnects, log>>
  BY DEF Send
<1>4. curId \notin requests /\ curId \notin cut /\ log[curId] = <<>>
  BY <1>1 DEF CallInv, FreshInv, HandlerInv, Ids
<1>5. requests' = timeout' /\ HandlerInv'
  BY <1>2, <1>3 DEF CallInv, HandlerInv
<1>6. FreshInv'
  BY <1>1, <1>2, <1>3 DEF CallInv, FreshInv, Ids
<1>7. AnswerInv'
  <2>. SUFFICES ASSUME NEW id \in Ids
       PROVE  /\ id < curId' /\ id \notin requests' => log[id] # <<>>
              /\ Len(log[id]) <= MaxAnswers(id)'
              /\ \A i \in 1 .. Len(log[id]) :
                   \/ log[id][i] = "disconnect"
                   \/ id \notin requests' /\ i = Len(log[id])
    BY <1>3 DEF AnswerInv
  <2>. disconnects \in Nat /\ curId \in Nat /\ id \in Nat
    BY <1>1, BoundsAssumption DEF TypeOK, Ids
  <2>1. CASE id = curId
    <3>1. Len(log[id]) = 0
      BY <1>4, <2>1
    <3>. QED
      BY <1>2, <1>3, <1>4, <2>1, <3>1 DEF MaxAnswers
  <2>2. CASE id # curId
    <3>1. MaxAnswers(id)' = MaxAnswers(id)
      BY <1>2, <1>3, <2>2 DEF MaxAnswers
    <3>2. (id < curId' => id < curId) /\ (id \in requests' <=> id \in requests)
      BY <1>1, <1>2, <2>2
    <3>. QED
      BY <3>1, <3>2 DEF CallInv, AnswerInv
  <2>. QED
    BY <2>1, <2>2
<1>. QED
  BY <1>5, <1>6, <1>7 DEF CallInv

\* The disconnect handler starts: the pending calls are to be called back.
LEMMA DisconnectCalls ==
  ASSUME TypeOK, CallInv, Disconnect
  PROVE  CallInv'
<1>. USE DEF calls
<1>1. /\ UNCHANGED <<curId, requests, timeout, batch, log>>
      /\ cut' = requests /\ disconnecting' = TRUE /\ batch = <<>>
      /\ disconnects' = disconnects + 1
  BY DEF Disconnect, Idle
<1>2. cut = {}
  BY DEF Disconnect, Idle, CallInv, HandlerInv
<1>3. disconnects \in Nat
  BY BoundsAssumption DEF TypeOK
<1>4. HandlerInv' /\ FreshInv' /\ requests' = timeout'
  BY <1>1 DEF CallInv, HandlerInv, FreshInv
<1>5. \A id \in Ids : MaxAnswers(id) <= MaxAnswers(id)'
  BY <1>1, <1>2, <1>3 DEF MaxAnswers
<1>6. \A id \in Ids : /\ Len(log[id]) \in Nat
                      /\ MaxAnswers(id) \in Int /\ MaxAnswers(id)' \in Int
  BY <1>1, <1>3 DEF MaxAnswers, TypeOK
<1>7. \A id \in Ids : Len(log[id]) <= MaxAnswers(id)'
  BY <1>5, <1>6 DEF CallInv, AnswerInv
<1>. QED
  BY <1>1, <1>4, <1>7 DEF CallInv, AnswerInv

\* One turn of the disconnect handler: the call stays pending.
LEMMA CutCalls ==
  ASSUME TypeOK, CallInv, CutCall
  PROVE  CallInv'
<1>. USE DEF calls
<1>1. PICK id \in cut : cut' = cut \ {id} /\ Answer(id, "disconnect")
  BY DEF CutCall
<1>2. UNCHANGED <<curId, requests, timeout, batch, disconnecting, disconnects>>
  BY DEF CutCall
<1>3. id \in Ids /\ id \in requests /\ log[id] \in Seq(Outcomes)
  BY DEF CallInv, HandlerInv, TypeOK
<1>4. /\ log'[id] = Append(log[id], "disconnect")
      /\ \A other \in Ids \ {id} : log'[other] = log[other]
  BY <1>1, <1>3 DEF Answer, TypeOK
<1>5. requests' = timeout' /\ HandlerInv'
  BY <1>1, <1>2 DEF CallInv, HandlerInv, CutCall
<1>6. FreshInv'
  BY <1>2, <1>3, <1>4 DEF CallInv, FreshInv
<1>7. AnswerInv'
  <2>. SUFFICES ASSUME NEW other \in Ids
       PROVE  /\ other < curId' /\ other \notin requests' => log'[other] # <<>>
              /\ Len(log'[other]) <= MaxAnswers(other)'
              /\ \A i \in 1 .. Len(log'[other]) :
                   \/ log'[other][i] = "disconnect"
                   \/ other \notin requests' /\ i = Len(log'[other])
    BY DEF AnswerInv
  <2>. disconnects \in Nat
    BY BoundsAssumption DEF TypeOK
  <2>1. CASE other = id
    <3>1. /\ log'[id] # <<>>
          /\ Len(log'[id]) = Len(log[id]) + 1 /\ Len(log[id]) \in Nat
          /\ \A i \in 1 .. Len(log[id]) : log'[id][i] = log[id][i]
          /\ log'[id][Len(log[id]) + 1] = "disconnect"
      BY <1>3, <1>4, AppendProperties DEF Outcomes
    <3>2. Len(log[id]) <= disconnects - 1
      <4>1. MaxAnswers(id) = disconnects - 1
        BY <1>3 DEF MaxAnswers
      <4>2. Len(log[id]) <= MaxAnswers(id)
        BY <1>3 DEF CallInv, AnswerInv
      <4>. QED
        BY <4>1, <4>2
    <3>3. Len(log'[id]) <= MaxAnswers(id)'
      <4>1. id \in requests' /\ id \notin cut'
        BY <1>1, <1>2, <1>3
      <4>2. MaxAnswers(id)' = disconnects
        BY <1>2, <4>1 DEF MaxAnswers
      <4>. QED
        BY <3>1, <3>2, <4>2
    <3>4. \A i \in 1 .. Len(log[id]) : log[id][i] = "disconnect"
      BY <1>3 DEF CallInv, AnswerInv
    <3>. QED
      BY <2>1, <3>1, <3>3, <3>4
  <2>2. CASE other # id
    <3>1. MaxAnswers(other)' = MaxAnswers(other)
      BY <1>1, <1>2, <2>2 DEF MaxAnswers
    <3>. QED
      BY <1>2, <1>4, <2>2, <3>1 DEF CallInv, AnswerInv
  <2>. QED
    BY <2>1, <2>2
<1>. QED
  BY <1>5, <1>6, <1>7 DEF CallInv

\* One turn of the reply loop.
LEMMA ProcessMsgCalls ==
  ASSUME TypeOK, CallInv, ProcessMsg
  PROVE  CallInv'
<1>1. UNCHANGED <<curId, disconnecting, cut, disconnects>>
  BY DEF ProcessMsg
<1>2. ~disconnecting
  BY DEF ProcessMsg, CallInv, HandlerInv
<1>3. CASE Head(batch) \in requests
  <2>1. Forget(Head(batch)) /\ Answer(Head(batch), "ok")
    BY <1>3 DEF ProcessMsg
  <2>. QED
    BY <1>1, <1>2, <1>3, <2>1, FinalAnswer DEF Outcomes
<1>4. CASE Head(batch) \notin requests
  <2>1. timeout' = timeout \ {Head(batch)} /\ UNCHANGED <<requests, log>>
    BY <1>4 DEF ProcessMsg
  <2>2. timeout' = timeout
    BY <1>4, <2>1 DEF CallInv
  <2>. QED
    BY <1>1, <1>2, <2>1, <2>2
    DEF CallInv, HandlerInv, FreshInv, AnswerInv, MaxAnswers
<1>. QED
  BY <1>3, <1>4

LEMMA CallStep == TypeOK /\ CallInv /\ [Next]_vars => CallInv'
<1>. SUFFICES ASSUME TypeOK, CallInv, [Next]_vars PROVE CallInv'
  OBVIOUS
<1>. USE DEF calls
<1>1. CASE \/ Connect \/ ConnectDone \/ ConnectTimeout \/ Close
           \/ LinkDown \/ SocketError
  BY <1>1, CallFrame
  DEF Connect, ConnectDone, ConnectTimeout, Close, LinkDown, SocketError
<1>2. CASE Send
  BY <1>2, SendCalls
<1>3. CASE Flush
  BY <1>3, CallFrame DEF Flush
<1>4. ASSUME NEW id \in Ids, CallbackTimeout(id)
      PROVE  CallInv'
  BY <1>4, FinalAnswer DEF CallbackTimeout, Idle, CallInv, Outcomes, handler
<1>5. CASE Publish
  BY <1>5 DEF Publish, Idle, CallInv, HandlerInv, FreshInv, AnswerInv, MaxAnswers
<1>6. CASE ProcessMsg
  BY <1>6, ProcessMsgCalls
<1>7. CASE Disconnect
  BY <1>7, DisconnectCalls
<1>8. CASE CutCall
  BY <1>8, CutCalls
<1>9. CASE DisconnectDone
  BY <1>9 DEF DisconnectDone, CallInv, HandlerInv, FreshInv, AnswerInv, MaxAnswers
<1>10. CASE \/ CheckKeepAlive \/ PingResp \/ ServerReceive
            \/ \E packet \in ReplyPackets : ServerReply(packet)
  BY <1>10, CallFrame DEF CheckKeepAlive, PingResp, ServerReceive, ServerReply
<1>11. CASE UNCHANGED vars
  BY <1>11, CallFrame DEF vars
<1>. QED
  BY <1>1, <1>2, <1>3, <1>4, <1>5, <1>6, <1>7, <1>8, <1>9, <1>10, <1>11
  DEF Next

LEMMA CallInvariant == Spec => []CallInv
<1>1. Init => CallInv
  <2>. SUFFICES ASSUME Init PROVE CallInv
    OBVIOUS
  <2>1. Len(<<>>) = 0
    OBVIOUS
  <2>2. \A id \in Ids : log[id] = <<>> /\ ~(id < curId)
    BY BoundsAssumption DEF Init, Ids
  <2>. QED
    BY <2>1, <2>2 DEF Init, CallInv, HandlerInv, FreshInv, AnswerInv, MaxAnswers
<1>. QED
  BY <1>1, CallStep, TypeCorrect, PTL DEF Spec

\* No accepted call is ever left without its callback and the timer that will
\* call it, for any number of calls, replies and disconnects.
THEOREM NoCallLost == Spec => []NoLostCall
<1>1. TypeOK /\ CallInv => NoLostCall
  BY DEF TypeOK, CallInv, AnswerInv, NoLostCall
<1>. QED
  BY <1>1, TypeCorrect, CallInvariant, PTL

\* No callback is called after a result or a timeout, and none more often
\* than once plus once per disconnect.
THEOREM AnswersAreBounded == Spec => []AnswersBounded
<1>1. TypeOK /\ CallInv => AnswersBounded
  <2>. SUFFICES ASSUME TypeOK, CallInv, NEW id \in Ids
       PROVE  /\ Len(log[id]) <= 1 + disconnects
              /\ \A i \in 1 .. Len(log[id]) - 1 : log[id][i] = "disconnect"
    BY DEF AnswersBounded
  <2>1. disconnects \in Nat /\ Len(log[id]) \in Nat
    BY BoundsAssumption DEF TypeOK
  <2>2. Len(log[id]) <= MaxAnswers(id)
    BY DEF CallInv, AnswerInv
  <2>3. MaxAnswers(id) <= 1 + disconnects /\ MaxAnswers(id) \in Int
    BY <2>1 DEF MaxAnswers
  <2>. QED
    BY <2>1, <2>2, <2>3 DEF CallInv, AnswerInv
<1>. QED
  BY <1>1, TypeCorrect, CallInvariant, PTL

-----------------------------------------------------------------------------
(* The connection.                                                         *)

LinkInv == SocketInv /\ ConnectTimeoutHarmless

LEMMA LinkStep == TypeOK /\ LinkInv /\ [Next]_vars => LinkInv'
<1>. SUFFICES ASSUME TypeOK, LinkInv, [Next]_vars PROVE LinkInv'
  OBVIOUS
<1>. USE DEF mailbox, wire, LinkInv, SocketInv, ConnectTimeoutHarmless
<1>1. CASE Connect
  BY <1>1 DEF Connect
<1>2. CASE ConnectDone
  BY <1>2 DEF ConnectDone
<1>3. CASE ConnectTimeout
  BY <1>3 DEF ConnectTimeout, LinkLost
<1>4. CASE Close \/ LinkDown \/ SocketError
  BY <1>4 DEF Close, LinkDown, SocketError, Closing, LinkLost
<1>5. CASE Send
  BY <1>5 DEF Send, CanSend, DoSend
<1>6. CASE Flush
  BY <1>6 DEF Flush, DoSend
<1>7. ASSUME NEW id \in Ids, CallbackTimeout(id)
      PROVE  LinkInv'
  BY <1>7 DEF CallbackTimeout
<1>8. CASE Publish \/ ProcessMsg \/ Disconnect \/ CutCall
  BY <1>8 DEF Publish, ProcessMsg, Disconnect, CutCall
<1>9. CASE DisconnectDone
  BY <1>9 DEF DisconnectDone, EmitClose, Closing, LinkLost
<1>10. CASE CheckKeepAlive
  <2>1. CASE PingServer
    <3>1. UNCHANGED <<mailbox, link, c2s>>
      BY <2>1, Zenon DEF PingServer
    <3>. QED
      BY <3>1
  <2>2. CASE AwaitPong
    BY <2>2 DEF AwaitPong
  <2>3. CASE DropDeadPeer
    BY <2>3 DEF DropDeadPeer, Closing, LinkLost
  <2>. QED
    BY <1>10, <2>1, <2>2, <2>3 DEF CheckKeepAlive
<1>11. CASE PingResp \/ ServerReceive
  BY <1>11 DEF PingResp, ServerReceive
<1>12. ASSUME NEW packet \in ReplyPackets, ServerReply(packet)
       PROVE  LinkInv'
  BY <1>12 DEF ServerReply
<1>13. CASE UNCHANGED vars
  BY <1>13 DEF vars
<1>. QED
  BY <1>1, <1>2, <1>3, <1>4, <1>5, <1>6, <1>7, <1>8, <1>9, <1>10, <1>11,
     <1>12, <1>13 DEF Next

LEMMA LinkInvariant == Spec => []LinkInv
<1>1. Init => LinkInv
  BY DEF Init, LinkInv, SocketInv, ConnectTimeoutHarmless
<1>. QED
  BY <1>1, LinkStep, TypeCorrect, PTL DEF Spec

\* The connect timer is never armed on a mailbox that the station listens to.
THEOREM ConnectTimeoutIsHarmless == Spec => []ConnectTimeoutHarmless
BY LinkInvariant, PTL DEF LinkInv

\* A closed mailbox accepts and publishes nothing, whatever timers and late
\* callbacks still run.
THEOREM ClosedStaysQuiet == Spec => ClosedIsQuiet
<1>1. LinkInv /\ [Next]_vars => [closed => UNCHANGED <<curId, queue, c2s>>]_vars
  <2>. SUFFICES ASSUME LinkInv, closed, [Next]_vars
       PROVE  UNCHANGED <<curId, queue, c2s>>
    OBVIOUS
  <2>. link = "down" /\ c2s = <<>>
    BY DEF LinkInv, SocketInv
  <2>. USE DEF calls, wire
  <2>1. CASE \/ Connect \/ ConnectDone \/ ConnectTimeout \/ Close \/ LinkDown
            \/ SocketError \/ Send \/ Flush
    BY <2>1 DEF Connect, ConnectDone, ConnectTimeout, Close, LinkDown,
                SocketError, Closing, LinkLost, Send, CanSend, Flush
  <2>2. ASSUME NEW id \in Ids, CallbackTimeout(id)
        PROVE  UNCHANGED <<curId, queue, c2s>>
    BY <2>2 DEF CallbackTimeout
  <2>3. CASE Publish \/ ProcessMsg \/ Disconnect \/ CutCall \/ DisconnectDone
    BY <2>3 DEF Publish, ProcessMsg, Disconnect, CutCall, DisconnectDone,
                EmitClose
  <2>4. CASE CheckKeepAlive \/ PingResp \/ ServerReceive
    BY <2>4 DEF CheckKeepAlive, PingResp, ServerReceive
  <2>5. ASSUME NEW packet \in ReplyPackets, ServerReply(packet)
        PROVE  UNCHANGED <<curId, queue, c2s>>
    BY <2>5 DEF ServerReply
  <2>6. CASE UNCHANGED vars
    BY <2>6 DEF vars
  <2>. QED
    BY <2>1, <2>2, <2>3, <2>4, <2>5, <2>6 DEF Next
<1>. QED
  BY <1>1, LinkInvariant, PTL DEF Spec, ClosedIsQuiet

-----------------------------------------------------------------------------
(* Results.                                                                *)

ResultInv == ReplyInv /\ OkMeansReplied

LEMMA RangeAppend ==
  ASSUME NEW S, NEW s \in Seq(S), NEW e \in S
  PROVE  Range(Append(s, e)) = Range(s) \union {e}
<1>1. /\ Len(s) \in Nat /\ DOMAIN s = 1 .. Len(s)
      /\ DOMAIN Append(s, e) = 1 .. Len(s) + 1
      /\ \A i \in 1 .. Len(s) : Append(s, e)[i] = s[i]
      /\ Append(s, e)[Len(s) + 1] = e
  BY AppendProperties
<1>2. 1 .. Len(s) + 1 = (1 .. Len(s)) \union {Len(s) + 1}
  BY <1>1
<1>. QED
  BY <1>1, <1>2 DEF Range

LEMMA RangeHeadTail ==
  ASSUME NEW S, NEW s \in Seq(S), s # <<>>
  PROVE  Head(s) \in Range(s) /\ Range(Tail(s)) \subseteq Range(s)
BY DEF Range

\* A callback that gets an error does not make a result.
LEMMA ErrorAnswer ==
  ASSUME TypeOK, ResultInv, NEW id \in Ids, NEW outcome \in Outcomes,
         Answer(id, outcome), outcome = "ok" => id \in replied,
         UNCHANGED replied
  PROVE  OkMeansReplied'
<1>1. /\ log'[id] = Append(log[id], outcome)
      /\ \A other \in Ids \ {id} : log'[other] = log[other]
      /\ log[id] \in Seq(Outcomes)
  BY DEF Answer, TypeOK
<1>2. Range(log'[id]) = Range(log[id]) \union {outcome}
  BY <1>1, RangeAppend
<1>. QED
  BY <1>1, <1>2 DEF ResultInv, OkMeansReplied

\* Steps that bring no reply and call no callback.
LEMMA ResultFrame ==
  ASSUME ResultInv, UNCHANGED <<batch, replied, log>>,
         s2c' = s2c \/ s2c' = <<>>
  PROVE  ResultInv'
BY DEF ResultInv, ReplyInv, OkMeansReplied

LEMMA ResultStep == TypeOK /\ ResultInv /\ [Next]_vars => ResultInv'
<1>. SUFFICES ASSUME TypeOK, ResultInv, [Next]_vars PROVE ResultInv'
  OBVIOUS
<1>. USE DEF handler, wire, server
<1>1. CASE \/ Connect \/ ConnectDone \/ ConnectTimeout \/ Close \/ LinkDown
          \/ SocketError \/ Send \/ Flush \/ Disconnect \/ DisconnectDone
  BY <1>1, ResultFrame
  DEF Connect, ConnectDone, ConnectTimeout, Close, LinkDown, SocketError,
      Closing, LinkLost, Send, Flush, DoSend, Disconnect, DisconnectDone,
      EmitClose
<1>2. CASE CheckKeepAlive \/ PingResp \/ ServerReceive
  <2>1. CASE CheckKeepAlive
    <3>1. CASE PingServer
      <4>1. UNCHANGED s2c
        BY <3>1, Zenon DEF PingServer
      <4>. QED
        BY <2>1, <4>1, ResultFrame DEF CheckKeepAlive
    <3>2. CASE AwaitPong
      BY <2>1, <3>2, ResultFrame DEF CheckKeepAlive, AwaitPong
    <3>3. CASE DropDeadPeer
      BY <2>1, <3>3, ResultFrame
      DEF CheckKeepAlive, DropDeadPeer, Closing, LinkLost
    <3>. QED
      BY <2>1, <3>1, <3>2, <3>3 DEF CheckKeepAlive
  <2>2. CASE PingResp \/ ServerReceive
    BY <2>2, ResultFrame DEF PingResp, ServerReceive
  <2>. QED
    BY <1>2, <2>1, <2>2
<1>3. ASSUME NEW id \in Ids, CallbackTimeout(id)
      PROVE  ResultInv'
  BY <1>3, ErrorAnswer DEF CallbackTimeout, Outcomes, ResultInv, ReplyInv
<1>4. CASE CutCall
  <2>1. PICK id \in cut : Answer(id, "disconnect")
    BY <1>4 DEF CutCall
  <2>2. OkMeansReplied'
    BY <1>4, <2>1, ErrorAnswer DEF CutCall, Outcomes, TypeOK
  <2>. QED
    BY <1>4, <2>2 DEF CutCall, ResultInv, ReplyInv
<1>5. CASE Publish
  <2>1. /\ s2c \in Seq(Seq(Ids)) /\ s2c # <<>> /\ Len(s2c) \in Nat \ {0}
        /\ Head(s2c) = s2c[1] /\ 1 \in DOMAIN s2c
        /\ \A i \in DOMAIN Tail(s2c) : i + 1 \in DOMAIN s2c
                                     /\ Tail(s2c)[i] = s2c[i + 1]
    BY <1>5 DEF Publish, TypeOK
  <2>. QED
    BY <1>5, <2>1 DEF Publish, ResultInv, ReplyInv, OkMeansReplied
<1>6. CASE ProcessMsg
  <2>1. batch \in Seq(Ids) /\ batch # <<>>
    BY <1>6 DEF ProcessMsg, TypeOK
  <2>2. Head(batch) \in Range(batch) /\ Range(Tail(batch)) \subseteq Range(batch)
    BY <2>1, RangeHeadTail
  <2>3. Range(<<>>) = {}
    BY DEF Range
  <2>4. ReplyInv'
    BY <1>6, <2>2, <2>3 DEF ProcessMsg, ResultInv, ReplyInv
  <2>5. OkMeansReplied'
    <3>1. CASE Head(batch) \in requests
      <4>1. Head(batch) \in replied /\ Head(batch) \in Ids
        BY <2>1, <2>2 DEF ResultInv, ReplyInv
      <4>. QED
        BY <1>6, <3>1, <4>1, ErrorAnswer DEF ProcessMsg, Outcomes
    <3>2. CASE Head(batch) \notin requests
      BY <1>6, <3>2 DEF ProcessMsg, ResultInv, OkMeansReplied
    <3>. QED
      BY <3>1, <3>2
  <2>. QED
    BY <2>4, <2>5 DEF ResultInv
<1>7. ASSUME NEW packet \in ReplyPackets, ServerReply(packet)
      PROVE  ResultInv'
  <2>1. packet \in Seq(Ids) /\ s2c \in Seq(Seq(Ids))
    BY ReplyPacketType DEF TypeOK
  <2>2. \A i \in DOMAIN Append(s2c, packet) :
          \/ i \in DOMAIN s2c /\ Append(s2c, packet)[i] = s2c[i]
          \/ Append(s2c, packet)[i] = packet
    BY <2>1
  <2>. QED
    BY <1>7, <2>2 DEF ServerReply, ResultInv, ReplyInv, OkMeansReplied
<1>8. CASE UNCHANGED vars
  BY <1>8, ResultFrame DEF vars
<1>. QED
  BY <1>1, <1>2, <1>3, <1>4, <1>5, <1>6, <1>7, <1>8 DEF Next

LEMMA ResultInvariant == Spec => []ResultInv
<1>1. Init => ResultInv
  BY DEF Init, ResultInv, ReplyInv, OkMeansReplied, Range
<1>. QED
  BY <1>1, ResultStep, TypeCorrect, PTL DEF Spec

\* A callback that is called with a result belongs to a call the server has
\* replied to.
THEOREM ResultsAreReplies == Spec => []OkMeansReplied
BY ResultInvariant, PTL DEF ResultInv

-----------------------------------------------------------------------------
(***************************************************************************)
(* The requests on their way: ids are given in ascending order, and the    *)
(* steps of the mailbox and of the socket keep that order.                 *)
(***************************************************************************)

\* Losing the socket loses packets, and reorders nothing.
LEMMA LossKeepsOrder ==
  ASSUME StreamInv, c2s' = c2s \/ c2s' = <<>>,
         UNCHANGED <<bufferMsg, curId, queue, received>>
  PROVE  StreamInv'
<1>1. CASE c2s' = c2s
  BY <1>1 DEF StreamInv
<1>2. CASE c2s' = <<>>
  BY <1>2, WireLost DEF StreamInv
<1>. QED
  BY <1>1, <1>2

\* A call is given the next id, which is above all that were given.
LEMMA SendKeepsOrder ==
  ASSUME StreamInv, Send
  PROVE  StreamInv'
<1>. USE DEF mailbox, wire, server
<1>1. CASE bufferMsg
  BY <1>1, RequestBuffered DEF StreamInv, Send
<1>2. CASE ~bufferMsg
  <2>1. /\ c2s' = Append(c2s, <<curId>>) \/ c2s' = c2s
        /\ queue = <<>> /\ queue' = <<>>
        /\ curId' = curId + 1 /\ UNCHANGED <<bufferMsg, received>>
    BY <1>2 DEF StreamInv, Send, DoSend
  <2>2. Stream(received, c2s, <<>>, curId)
    BY <2>1 DEF StreamInv
  <2>3. Stream(received, c2s, <<>>, curId + 1)
    BY <2>2, IdTaken
  <2>4. Stream(received, Append(c2s, <<curId>>), <<>>, curId + 1)
    BY <2>2, RequestWritten
  <2>. QED
    BY <2>1, <2>3, <2>4 DEF StreamInv
<1>. QED
  BY <1>1, <1>2

\* The buffer is written behind what is on the wire, or lost with the socket.
LEMMA FlushKeepsOrder ==
  ASSUME StreamInv, Flush
  PROVE  StreamInv'
<1>1. /\ c2s' = Append(c2s, queue) \/ c2s' = c2s
      /\ queue' = <<>> /\ UNCHANGED <<bufferMsg, curId, received>>
  BY DEF Flush, DoSend, mailbox, server
<1>2. Stream(received, c2s, <<>>, curId)
  BY BufferLost DEF StreamInv
<1>3. Stream(received, Append(c2s, queue), <<>>, curId)
  BY BufferWritten DEF StreamInv
<1>. QED
  BY <1>1, <1>2, <1>3 DEF StreamInv

LEMMA StreamStep == StreamInv /\ [Next]_vars => StreamInv'
<1>. SUFFICES ASSUME StreamInv, [Next]_vars PROVE StreamInv'
  OBVIOUS
<1>. USE DEF mailbox, calls, wire, server
<1>1. CASE Connect \/ ConnectDone \/ ConnectTimeout \/ Close \/ LinkDown \/ SocketError
  <2>1. /\ c2s' = c2s \/ c2s' = <<>>
        /\ UNCHANGED <<bufferMsg, curId, queue, received>>
    BY <1>1 DEF Connect, ConnectDone, ConnectTimeout, Close, LinkDown, SocketError,
                Closing, LinkLost
  <2>. QED
    BY <2>1, LossKeepsOrder
<1>2. CASE DisconnectDone \/ CheckKeepAlive
  <2>1. /\ c2s' = c2s \/ c2s' = <<>>
        /\ UNCHANGED <<bufferMsg, curId, queue, received>>
    BY <1>2 DEF DisconnectDone, EmitClose, CheckKeepAlive, PingServer, AwaitPong,
                DropDeadPeer, Closing, LinkLost
  <2>. QED
    BY <2>1, LossKeepsOrder
<1>3. CASE Publish \/ ProcessMsg \/ Disconnect \/ CutCall \/ PingResp
  BY <1>3, LossKeepsOrder DEF Publish, ProcessMsg, Disconnect, CutCall, PingResp
<1>4. ASSUME NEW id \in Ids, CallbackTimeout(id)
      PROVE  StreamInv'
  BY <1>4, LossKeepsOrder DEF CallbackTimeout
<1>5. CASE ServerReceive
  BY <1>5, PacketReceived DEF StreamInv, ServerReceive
<1>6. ASSUME NEW packet \in ReplyPackets, ServerReply(packet)
      PROVE  StreamInv'
  BY <1>6, LossKeepsOrder DEF ServerReply
<1>7. CASE UNCHANGED vars
  BY <1>7, LossKeepsOrder DEF vars
<1>. QED
  BY <1>1, <1>2, <1>3, <1>4, <1>5, <1>6, <1>7, SendKeepsOrder, FlushKeepsOrder
  DEF Next

LEMMA StreamInvariant == Spec => []StreamInv
<1>1. Init => StreamInv
  BY EmptyStream DEF Init, StreamInv
<1>. QED
  BY <1>1, StreamStep, PTL DEF Spec

\* Buffered or not, whatever is lost with the socket, the server receives the
\* requests in the order of send, and none twice (lines 143, 163-167, 207-213).
THEOREM RequestsInOrderOnce == Spec => []InOrderOnce
<1>1. StreamInv => InOrderOnce
  BY DEF StreamInv, Stream, InOrderOnce
<1>. QED
  BY <1>1, StreamInvariant, PTL

\* The conjunction the runs check as one invariant.
THEOREM InductiveInvariant == Spec => []IInv
<1>1. CallInv /\ ResultInv /\ LinkInv /\ StreamInv => IInv
  BY DEF IInv, ResultInv, LinkInv
<1>. QED
  BY <1>1, CallInvariant, ResultInvariant, LinkInvariant, StreamInvariant, PTL

-----------------------------------------------------------------------------
(* The promise of RpcCalls.                                                *)

\* A pending call has been told of disconnects only.
LEMMA PendingUnanswered ==
  ASSUME TypeOK, CallInv, NEW id \in requests
  PROVE  ~Promise!Answered(id) /\ id \in Ids /\ id \in 0 .. curId - 1
<1>1. id \in Ids /\ log[id] \in Seq(Outcomes)
  BY DEF TypeOK
<1>2. DOMAIN log[id] = 1 .. Len(log[id])
  BY <1>1
<1>3. \A i \in 1 .. Len(log[id]) : log[id][i] = "disconnect"
  BY <1>1 DEF CallInv, AnswerInv
<1>4. ~Promise!Answered(id)
  BY <1>2, <1>3 DEF Promise!Answered
<1>5. id < curId
  BY <1>1, BoundsAssumption DEF CallInv, FreshInv, Ids, TypeOK
<1>. QED
  BY <1>1, <1>4, <1>5, BoundsAssumption DEF Ids, TypeOK

\* Calling the callback of a pending call is a step of the promise.
LEMMA AnswerIsPromised ==
  ASSUME TypeOK, CallInv, NEW id \in requests,
         NEW outcome \in Outcomes, Answer(id, outcome), UNCHANGED curId
  PROVE  Promise!Next
<1>1. id \in Ids
  BY PendingUnanswered
<1>2. Promise!Tell(id, outcome)
  BY PendingUnanswered DEF Promise!Tell, Answer
<1>3. Promise!Notify(id) \/ Promise!Answer(id)
  BY <1>2 DEF Promise!Notify, Promise!Answer
<1>. QED
  BY <1>1, <1>3 DEF Promise!Next

LEMMA PromiseStep ==
  ASSUME TypeOK, CallInv, [Next]_vars
  PROVE  [Promise!Next]_(Promise!vars)
<1>. USE DEF calls, Promise!vars
<1>1. CASE \/ Connect \/ ConnectDone \/ ConnectTimeout \/ Close \/ LinkDown
          \/ SocketError \/ Flush \/ Publish
  BY <1>1 DEF Connect, ConnectDone, ConnectTimeout, Close, LinkDown,
              SocketError, Flush, Publish
<1>2. CASE Send
  <2>1. /\ curId' = curId + 1 /\ curId \in Ids /\ curId \in Nat
        /\ UNCHANGED log
    BY <1>2, BoundsAssumption DEF Send, TypeOK, Ids
  <2>2. 0 .. curId' - 1 = (0 .. curId - 1) \union {curId}
    BY <2>1
  <2>3. curId \notin 0 .. curId - 1
    BY <2>1
  <2>4. Promise!Accept(curId)
    BY <2>1, <2>2, <2>3 DEF Promise!Accept
  <2>. QED
    BY <2>1, <2>4 DEF Promise!Next
<1>3. ASSUME NEW id \in Ids, CallbackTimeout(id)
      PROVE  Promise!Next
  BY <1>3, AnswerIsPromised DEF CallbackTimeout, CallInv, Outcomes
<1>4. CASE ProcessMsg
  <2>1. CASE Head(batch) \in requests
    BY <1>4, <2>1, AnswerIsPromised DEF ProcessMsg, Outcomes
  <2>2. CASE Head(batch) \notin requests
    BY <1>4, <2>2 DEF ProcessMsg
  <2>. QED
    BY <2>1, <2>2
<1>5. CASE Disconnect \/ DisconnectDone
  BY <1>5 DEF Disconnect, DisconnectDone
<1>6. CASE CutCall
  <2>1. PICK id \in cut : Answer(id, "disconnect")
    BY <1>6 DEF CutCall
  <2>2. id \in requests /\ UNCHANGED curId
    BY <1>6 DEF CutCall, CallInv, HandlerInv
  <2>. QED
    BY <2>1, <2>2, AnswerIsPromised DEF Outcomes
<1>7. CASE CheckKeepAlive \/ PingResp \/ ServerReceive
  BY <1>7 DEF CheckKeepAlive, PingResp, ServerReceive
<1>8. ASSUME NEW packet \in ReplyPackets, ServerReply(packet)
      PROVE  UNCHANGED <<curId, log>>
  BY <1>8 DEF ServerReply
<1>9. CASE UNCHANGED vars
  BY <1>9 DEF vars
<1>. QED
  BY <1>1, <1>2, <1>3, <1>4, <1>5, <1>6, <1>7, <1>8, <1>9 DEF Next

\* The mailbox implements the safety part of RpcCalls: after a result or a
\* timeout a callback is never called again, before it only by disconnects,
\* and never for a call that send did not take (lines 95-103, 129-168,
\* 222-269).
THEOREM ImplementsPromise == Spec => Promise!SafeSpec
<1>1. Init => Promise!Init
  <2>. SUFFICES ASSUME Init PROVE Promise!Init
    OBVIOUS
  <2>1. 0 .. curId - 1 = {}
    BY DEF Init
  <2>. QED
    BY <2>1 DEF Init, Promise!Init
<1>2. TypeOK /\ CallInv /\ [Next]_vars => [Promise!Next]_(Promise!vars)
  BY PromiseStep
<1>. QED
  BY <1>1, <1>2, TypeCorrect, CallInvariant, PTL DEF Spec, Promise!SafeSpec
=============================================================================
