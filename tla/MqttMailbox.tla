---------------------------- MODULE MqttMailbox ----------------------------
(***************************************************************************)
(* One mqtt mailbox of the rpc client (rpc-client/mailboxes/mqtt-mailbox): *)
(* the client's end of the connection to one remote server.  A call is     *)
(* known by the request id that send gives it.  JavaScript runs one        *)
(* handler at a time, so a handler is one step, except for the two that    *)
(* call user code in a loop (the replies of a batch, the calls cut by a    *)
(* disconnect): there one step is one turn of the loop, because the user   *)
(* callback of a turn may itself send a call or have the mailbox closed.   *)
(*                                                                         *)
(* The socket, the remote server and the station that owns the mailbox are *)
(* its environment.  The station calls connect once, on a new mailbox      *)
(* (mailstation 400-403), and listens to 'close' from the moment the       *)
(* connect callback has run (mailstation 335-342).                         *)
(***************************************************************************)
EXTENDS Integers, Sequences, Functions, RequestStream

CONSTANTS
  Buffering,      \* the values of opts.bufferMsg
  Throwing,       \* may a user callback throw out of the reply loop?
  MaxCalls,       \* bound: calls sent through this mailbox
  MaxReplies,     \* bound: reply packets on the wire at once
  MaxBatch,       \* bound: replies in one packet
  MaxDisconnects  \* bound: DISCONNECT packets the server sends

ASSUME FlagsAssumption == Buffering \subseteq BOOLEAN /\ Throwing \in BOOLEAN

ASSUME BoundsAssumption ==
  /\ MaxCalls \in Nat
  /\ MaxReplies \in Nat
  /\ MaxBatch \in Nat
  /\ MaxDisconnects \in Nat

VARIABLES
  \* the mailbox
  bufferMsg,       \* are requests queued and flushed together?
  connected, closed,
  dialing,         \* the callback of socket.connect is still to come
  connectTimeout,  \* the 2 s timer of connect is armed
  interval,        \* the flush timer (_interval) is armed
  keepaliveTimer,  \* the keepalive timer is armed, and the station listens
  curId,           \* the next request id
  requests,        \* ids with a stored callback
  timeout,         \* ids with an armed callback timer
  queue,           \* buffered requests
  pingAge,         \* -1, or keepalive periods since lastPing
  ponged,          \* lastPong >= lastPing
  \* the handler that is running, if one is
  batch,           \* replies of the 'publish' packet still to process
  disconnecting,   \* the 'disconnect' handler is running,
  cut,             \* ... with these callbacks still to call
  \* the socket and the remote server
  link,            \* "none" before connect, then "up" until it is lost
  c2s, s2c,        \* packets on the wire, each a sequence of ids
  pinged,          \* a PINGREQ the server has not answered
  received,        \* history: ids in the order the server received them
  replied,         \* history: ids the server has replied to
  disconnects,     \* history: number of DISCONNECT packets handled
  \* the callers
  log              \* log[id]: what the callback of call id was called with

mailbox == <<bufferMsg, connected, closed, dialing, connectTimeout,
             interval, keepaliveTimer>>
calls   == <<curId, requests, timeout, queue>>
ping    == <<pingAge, ponged>>
handler == <<batch, disconnecting, cut>>
wire    == <<link, c2s, s2c, pinged>>
server  == <<received, replied>>
vars    == <<mailbox, calls, ping, handler, wire, server, disconnects, log>>

-----------------------------------------------------------------------------

Ids == 0 .. MaxCalls - 1

Outcomes == {"ok", "timeout", "disconnect"}

\* The packets a server may answer with: replies in any order, also repeated.
ReplyPackets == UNION {[1..n -> Range(received)] : n \in 1..MaxBatch}

TypeOK ==
  /\ bufferMsg \in BOOLEAN
  /\ connected \in BOOLEAN /\ closed \in BOOLEAN /\ dialing \in BOOLEAN
  /\ connectTimeout \in BOOLEAN /\ interval \in BOOLEAN
  /\ keepaliveTimer \in BOOLEAN
  /\ curId \in 0..MaxCalls
  /\ requests \subseteq Ids /\ timeout \subseteq Ids /\ cut \subseteq Ids
  /\ queue \in Seq(Ids) /\ batch \in Seq(Ids) /\ received \in Seq(Ids)
  /\ c2s \in Seq(Seq(Ids)) /\ s2c \in Seq(Seq(Ids))
  /\ pingAge \in -1..2 /\ ponged \in BOOLEAN /\ pinged \in BOOLEAN
  /\ disconnecting \in BOOLEAN
  /\ link \in {"none", "up", "down"}
  /\ replied \subseteq Ids
  /\ disconnects \in 0..MaxDisconnects
  /\ log \in [Ids -> Seq(Outcomes)]

Init ==
  /\ bufferMsg \in Buffering
  /\ connected = FALSE /\ closed = FALSE
  /\ dialing = FALSE /\ connectTimeout = FALSE
  /\ interval = FALSE /\ keepaliveTimer = FALSE
  /\ curId = 0 /\ requests = {} /\ timeout = {} /\ queue = <<>>
  /\ pingAge = -1 /\ ponged = FALSE
  /\ batch = <<>> /\ disconnecting = FALSE /\ cut = {}
  /\ link = "none" /\ c2s = <<>> /\ s2c = <<>> /\ pinged = FALSE
  /\ received = <<>> /\ replied = {} /\ disconnects = 0
  /\ log = [id \in Ids |-> <<>>]

\* No JavaScript is running: the event loop may take the next event.
Idle == batch = <<>> /\ ~disconnecting

-----------------------------------------------------------------------------
(* Connecting and closing.                                                 *)

Connect ==
  /\ Idle /\ link = "none" /\ ~connected
  /\ link' = "up"
  /\ dialing' = TRUE
  /\ connectTimeout' = TRUE
  /\ UNCHANGED <<bufferMsg, connected, closed, interval, keepaliveTimer, calls,
                 ping, handler, c2s, s2c, pinged, server, disconnects, log>>

ConnectDoneUnbuffered ==  \* mutant: the flush timer is not started
  /\ Idle /\ dialing /\ ~connected
  /\ dialing' = FALSE
  /\ connectTimeout' = FALSE
  /\ connected' = TRUE
  /\ keepaliveTimer' = TRUE
  /\ UNCHANGED <<bufferMsg, closed, interval, calls, ping, handler, wire,
                 server, disconnects, log>>

\* The callback of socket.connect: it looks neither at closed nor at an
\* error argument, so it also runs on a mailbox that was closed meanwhile.
ConnectDone ==
  /\ Idle /\ dialing /\ ~connected
  /\ dialing' = FALSE
  /\ connectTimeout' = FALSE
  /\ connected' = TRUE
  /\ interval' = bufferMsg
  /\ keepaliveTimer' = TRUE
  /\ UNCHANGED <<bufferMsg, closed, calls, ping, handler, wire, server,
                 disconnects, log>>

\* The socket is lost, with what is on the wire.
LinkLost ==
  /\ link' = "down"
  /\ c2s' = <<>> /\ s2c' = <<>> /\ pinged' = FALSE

\* The effect of close() on a mailbox that is not closed.
Closing ==
  /\ closed' = TRUE /\ connected' = FALSE /\ interval' = FALSE
  /\ LinkLost
  /\ UNCHANGED <<bufferMsg, dialing, connectTimeout, keepaliveTimer>>

Close ==
  /\ ~closed /\ link # "none"
  /\ Closing
  /\ UNCHANGED <<calls, ping, handler, server, disconnects, log>>

\* emit('close'): the station, once it listens, closes the mailbox.
EmitClose ==
  IF keepaliveTimer /\ ~closed THEN Closing ELSE UNCHANGED <<mailbox, wire>>

ConnectTimeout ==
  /\ Idle /\ connectTimeout
  /\ connectTimeout' = FALSE
  /\ IF keepaliveTimer /\ ~closed
       THEN /\ closed' = TRUE /\ connected' = FALSE /\ interval' = FALSE
            /\ LinkLost
       ELSE UNCHANGED <<closed, connected, interval, wire>>
  /\ UNCHANGED <<bufferMsg, dialing, keepaliveTimer, calls, ping, handler,
                 server, disconnects, log>>

\* The socket dies and nobody is told: the mailbox has no 'close' listener.
LinkDown ==
  /\ link = "up"
  /\ LinkLost
  /\ UNCHANGED <<mailbox, calls, ping, handler, server, disconnects, log>>

\* The socket reports an error; its handler emits 'close'.
SocketError ==
  /\ Idle /\ link # "none"
  /\ LinkLost
  /\ IF keepaliveTimer /\ ~closed THEN Closing ELSE UNCHANGED mailbox
  /\ UNCHANGED <<calls, ping, handler, server, disconnects, log>>

-----------------------------------------------------------------------------
(* Sending.                                                                *)

\* doSend: a packet written to a lost socket goes nowhere.
DoSend(packet) ==
  /\ c2s' = IF link = "up" THEN Append(c2s, packet) ELSE c2s
  /\ UNCHANGED <<link, s2c, pinged>>

\* Otherwise send answers its caller with an error at once, and changes nothing.
CanSendIfConnected == connected  \* mutant: no check of closed
CanSend == connected /\ ~closed

\* The callback is stored under the new id, and its timer is armed.
RegisterWithoutTimer ==  \* mutant: no setCbTimeout
  /\ requests' = requests \union {curId}
  /\ UNCHANGED timeout
Register ==
  /\ requests' = requests \union {curId}
  /\ timeout' = timeout \union {curId}

\* send(): also from a user callback, while a handler is running.
Send ==
  /\ CanSend
  /\ curId < MaxCalls
  /\ curId' = curId + 1
  /\ Register
  /\ IF bufferMsg
       THEN queue' = Append(queue, curId) /\ UNCHANGED wire
       ELSE DoSend(<<curId>>) /\ UNCHANGED queue
  /\ UNCHANGED <<mailbox, ping, handler, server, disconnects, log>>

FlushWithoutReset ==  \* mutant: the queue is kept
  /\ Idle /\ interval
  /\ ~closed /\ queue # <<>>
  /\ DoSend(queue)
  /\ UNCHANGED <<mailbox, calls, ping, handler, server, disconnects, log>>

Flush ==
  /\ Idle /\ interval
  /\ ~closed /\ queue # <<>>
  /\ DoSend(queue)
  /\ queue' = <<>>
  /\ UNCHANGED <<mailbox, curId, requests, timeout, ping, handler, server,
                 disconnects, log>>

-----------------------------------------------------------------------------
(* Answering the callers.                                                  *)

AnswerIfConnected(id, outcome) ==  \* mutant: silent once disconnected
  log' = IF connected THEN [log EXCEPT ![id] = Append(@, outcome)] ELSE log
AnswerOk(id, outcome) ==  \* mutant: an error is passed as the result
  log' = [log EXCEPT ![id] = Append(@, "ok")]
Answer(id, outcome) == log' = [log EXCEPT ![id] = Append(@, outcome)]

\* The request is deleted, and its timer is cleared.
ForgetButTimer(id) ==  \* mutant: no clearTimeout
  /\ requests' = requests \ {id}
  /\ UNCHANGED timeout
Forget(id) ==
  /\ requests' = requests \ {id}
  /\ timeout' = timeout \ {id}

\* The timer of request id fires (setCbTimeout).
CallbackTimeout(id) ==
  /\ Idle /\ id \in timeout
  /\ Forget(id)
  /\ Answer(id, "timeout")
  /\ UNCHANGED <<mailbox, curId, queue, ping, handler, wire, server,
                 disconnects>>

\* A 'publish' packet arrives.
Publish ==
  /\ Idle /\ s2c # <<>>
  /\ batch' = Head(s2c)
  /\ s2c' = Tail(s2c)
  /\ UNCHANGED <<mailbox, calls, ping, disconnecting, cut, link, c2s, pinged,
                 server, disconnects, log>>

\* processMsg on the next reply of the packet: a reply to a request that is
\* no longer there is dropped; a callback that throws drops the replies
\* behind it, because the try/catch is around the whole packet.
ProcessMsg ==
  /\ batch # <<>>
  /\ LET id == Head(batch) IN
       IF id \in requests
         THEN /\ Forget(id)
              /\ Answer(id, "ok")
              /\ \/ batch' = Tail(batch)
                 \/ Throwing /\ batch' = <<>>
         ELSE /\ timeout' = timeout \ {id}
              /\ batch' = Tail(batch)
              /\ UNCHANGED <<requests, log>>
  /\ UNCHANGED <<mailbox, curId, queue, ping, disconnecting, cut, wire, server,
                 disconnects>>

\* A DISCONNECT packet arrives: its handler calls back every request there
\* is now, and deletes neither the request nor its timer.
Disconnect ==
  /\ Idle /\ link = "up"
  /\ disconnects < MaxDisconnects
  /\ disconnects' = disconnects + 1
  /\ disconnecting' = TRUE
  /\ cut' = requests
  /\ UNCHANGED <<mailbox, calls, ping, batch, wire, server, log>>

\* for (id in requests): small integer keys come in ascending order.
CutCall ==
  /\ disconnecting
  /\ \E id \in cut :
       /\ \A other \in cut : id <= other
       /\ cut' = cut \ {id}
       /\ Answer(id, "disconnect")
  /\ UNCHANGED <<mailbox, calls, ping, batch, disconnecting, wire, server,
                 disconnects>>

\* After the loop the handler emits 'close'.
DisconnectDone ==
  /\ disconnecting /\ cut = {}
  /\ disconnecting' = FALSE
  /\ EmitClose
  /\ UNCHANGED <<calls, ping, batch, cut, server, disconnects, log>>

-----------------------------------------------------------------------------
(* Keepalive.  Time is counted in ticks of the keepalive timer: two ticks  *)
(* after a ping, now - lastPing may or may not exceed 2 * keepalive; three *)
(* ticks after, it does.                                                   *)

PingOnEveryTick == TRUE  \* mutant: lastPing is refreshed by every tick
PingDue == pingAge = -1 \/ ponged

PingServer ==
  /\ PingDue
  /\ pingAge' = 0 /\ ponged' = FALSE
  /\ pinged' = (link = "up")
  /\ UNCHANGED <<mailbox, link, c2s, s2c>>

AwaitPongForever ==  \* mutant: the age of the ping is not compared
  /\ ~PingDue
  /\ pingAge' = pingAge + 1
  /\ UNCHANGED <<mailbox, ponged, wire>>

AwaitPong ==
  /\ ~PingDue
  /\ pingAge + 1 <= 2
  /\ pingAge' = pingAge + 1
  /\ UNCHANGED <<mailbox, ponged, wire>>

DropDeadPeer ==
  /\ ~PingDue
  /\ pingAge + 1 >= 2
  /\ Closing
  /\ pingAge' = -1
  /\ UNCHANGED ponged

CheckKeepAlive ==
  /\ Idle /\ keepaliveTimer /\ ~closed
  /\ PingServer \/ AwaitPong \/ DropDeadPeer
  /\ UNCHANGED <<calls, handler, server, disconnects, log>>

PingResp ==
  /\ Idle /\ pinged
  /\ pinged' = FALSE
  /\ ponged' = TRUE
  /\ UNCHANGED <<mailbox, calls, pingAge, handler, link, c2s, s2c, server,
                 disconnects, log>>

-----------------------------------------------------------------------------
(* The remote server, as far as the mailbox can tell.                      *)

ServerReceive ==
  /\ c2s # <<>>
  /\ received' = received \o Head(c2s)
  /\ c2s' = Tail(c2s)
  /\ UNCHANGED <<mailbox, calls, ping, handler, link, s2c, pinged, replied,
                 disconnects, log>>

ServerReply(packet) ==
  /\ link = "up"
  /\ Len(s2c) < MaxReplies
  /\ s2c' = Append(s2c, packet)
  /\ replied' = replied \union Range(packet)
  /\ UNCHANGED <<mailbox, calls, ping, handler, link, c2s, pinged, received,
                 disconnects, log>>

-----------------------------------------------------------------------------

Next ==
  \/ Connect \/ ConnectDone \/ ConnectTimeout \/ Close
  \/ LinkDown \/ SocketError
  \/ Send \/ Flush
  \/ \E id \in Ids : CallbackTimeout(id)
  \/ Publish \/ ProcessMsg
  \/ Disconnect \/ CutCall \/ DisconnectDone
  \/ CheckKeepAlive \/ PingResp
  \/ ServerReceive \/ \E packet \in ReplyPackets : ServerReply(packet)

Spec == Init /\ [][Next]_vars

(***************************************************************************)
(* A handler that has started runs to its end.  An expired timer runs in   *)
(* the timers phase of the next turn of the event loop, however many       *)
(* packets keep arriving: strong fairness, because every arrival of a      *)
(* packet disables the timers while its handler runs.  Nothing is assumed  *)
(* of the socket, the server or the callers.                               *)
(***************************************************************************)
Fairness ==
  /\ WF_vars(ProcessMsg) /\ WF_vars(CutCall) /\ WF_vars(DisconnectDone)
  /\ \A id \in Ids : SF_vars(CallbackTimeout(id))
  /\ SF_vars(Flush)
  /\ SF_vars(CheckKeepAlive)

FairSpec == Spec /\ Fairness

-----------------------------------------------------------------------------
(* Safety.                                                                 *)

\* A call that was accepted and has no answer yet still has its callback and
\* a timer that will call it: no reply, no throwing callback, no closing of
\* the mailbox leaves a call that nobody will ever answer (lines 144-145,
\* 228-269).
NoLostCall ==
  \A id \in Ids :
    id < curId /\ log[id] = <<>> => id \in requests /\ id \in timeout

\* Whatever order the reply, the timer and a disconnect come in: after a
\* result or a timeout a callback is never called again, and it is called at
\* most once more than there were disconnects.  (The disconnect handler, lines
\* 95-103, leaves the request and its timer behind, so a second answer does
\* follow every "disconnect".)
AnswersBounded ==
  \A id \in Ids :
    /\ Len(log[id]) <= 1 + disconnects
    /\ \A i \in 1 .. Len(log[id]) - 1 : log[id][i] = "disconnect"

\* A callback reports success only if the server has replied to that very
\* call, not to another one and not because the connection broke.
OkMeansReplied ==
  \A id \in Ids : "ok" \in Range(log[id]) => id \in replied

\* No request reaches the server twice or before one that was sent earlier,
\* buffered or not (lines 143, 163-167, 207-213).
InOrderOnce == InOrder(received, c2s, queue)

\* The connect timer never strikes an established mailbox: it would emit
\* 'close' and have the station drop the connection (lines 48-51, 60).
ConnectTimeoutHarmless == keepaliveTimer => ~connectTimeout

\* A closed mailbox accepts no call and publishes nothing, although the late
\* callback of socket.connect may set connected and start the flush timer
\* again after close (lines 61-66, 137-141, 208).
ClosedIsQuiet == [][closed => UNCHANGED <<curId, queue, c2s>>]_vars

(***************************************************************************)
(* The inductive strengthening of the safety properties.                   *)
(***************************************************************************)
\* One handler runs at a time, and the calls still to be cut are pending.
HandlerInv ==
  /\ disconnecting => batch = <<>>
  /\ cut # {} => disconnecting
  /\ cut \subseteq requests

\* An id that was not given yet is nowhere.
FreshInv == \A id \in Ids : id >= curId => id \notin requests /\ log[id] = <<>>

\* How often the callback of a call was called so far: once per disconnect
\* while it is pending, less one if it is about to be called for the last of
\* them, and once more when it is not pending any longer.
MaxAnswers(id) ==
  disconnects + (IF id \in requests THEN 0 ELSE 1) - (IF id \in cut THEN 1 ELSE 0)

AnswerInv ==
  \A id \in Ids :
    /\ id < curId /\ id \notin requests => log[id] # <<>>
    /\ Len(log[id]) <= MaxAnswers(id)
    /\ \A i \in 1 .. Len(log[id]) :
         log[id][i] = "disconnect" \/ (id \notin requests /\ i = Len(log[id]))

\* The replies on their way to a callback are replies of the server.
ReplyInv ==
  /\ Range(batch) \subseteq replied
  /\ \A i \in DOMAIN s2c : Range(s2c[i]) \subseteq replied

\* Before connect nothing can establish the mailbox; a closed one is cut off.
SocketInv ==
  /\ link = "none" => ~dialing /\ ~keepaliveTimer
  /\ closed => link = "down" /\ c2s = <<>>

\* The requests on their way were given their ids, and there is a queue only if
\* requests are buffered.
StreamInv ==
  /\ Stream(received, c2s, queue, curId)
  /\ ~bufferMsg => queue = <<>>

CallInv == requests = timeout /\ HandlerInv /\ FreshInv /\ AnswerInv

IInv ==
  /\ CallInv
  /\ ReplyInv /\ OkMeansReplied
  /\ SocketInv /\ ConnectTimeoutHarmless
  /\ StreamInv

-----------------------------------------------------------------------------
(* Liveness.                                                               *)

\* A connection that dies without any event is noticed by the keepalive, and
\* the mailbox is closed.
DeadPeerNoticed == connected /\ link = "down" ~> closed

\* A buffered request does not stay in the buffer of an open mailbox.
QueueFlushed == queue # <<>> ~> queue = <<>> \/ closed

-----------------------------------------------------------------------------
(* The mailbox keeps the promise of RpcCalls.                              *)

Promise == INSTANCE RpcCalls
             WITH Calls <- Ids, Notices <- {"disconnect"},
                  accepted <- 0 .. curId - 1, answers <- log

\* Each call that send accepted is answered with a result or a timeout, be the
\* server silent, the link broken or the mailbox closed in the meantime; it is
\* answered once, and only a disconnect calls its callback before (lines
\* 95-103, 129-168, 222-269).
KeepsPromise == Promise!Spec
=============================================================================
