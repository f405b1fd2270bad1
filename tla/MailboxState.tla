---------------------------- MODULE MailboxState ----------------------------
(***************************************************************************)
(* What the tcp, ws (socket.io), ws2 and mqtt2 mailboxes of the rpc client *)
(* have in common: their fields, the connection, the remote server and the *)
(* station that owns them.  TcpMailbox, WsMailbox, Ws2Mailbox and          *)
(* Mqtt2Mailbox define the handlers, which differ in what they forget.     *)
(* Steps are cut as in MqttMailbox: a handler is one step, and each turn   *)
(* of a loop that calls user code is one.                                  *)
(*                                                                         *)
(* The station connects a new mailbox once, sends when the connect         *)
(* callback was called without an error, and listens to 'close' from then  *)
(* on (mailstation 234-239, 322-346, 400-403).                             *)
(***************************************************************************)
EXTENDS Integers, Sequences, Functions

CONSTANTS
  Kinds,     \* the transports that are checked
  Buffering, \* the values of opts.bufferMsg
  MaxCalls,  \* bound: calls sent through the mailbox
  MaxBatch,  \* bound: replies in one packet
  MaxCuts    \* bound: DISCONNECT packets the server sends (mqtt2)

ASSUME OptionsAssumption ==
  /\ Kinds \subseteq {"tcp", "ws", "ws2", "mqtt2"}
  /\ Buffering \subseteq BOOLEAN

ASSUME BoundsAssumption ==
  MaxCalls \in Nat /\ MaxBatch \in Nat /\ MaxCuts \in Nat

VARIABLES
  kind, bufferMsg,
  \* the mailbox
  connected, closed,
  interval,        \* the flush timer (_interval) is armed
  keepaliveTimer,  \* the keepalive timer is armed (ws2, mqtt2)
  told,            \* what the connect callback was called with
  curId, requests, timeout, queue,
  pingAge,         \* -1, or keepalive periods since the ping still unanswered
  \* the handler that is running, if one is
  batch,           \* replies of a packet still to process
  cutting,         \* the loop over all requests is running,
  cut,             \* ... with these callbacks still to call,
  after,           \* ... and then this to do
  crashed,         \* an exception left a handler: the process is gone
  \* the connection: "none", "dialing", "up", "dead" (nobody was told),
  \* "closing" (closed on this side only), "ending" (closed by the server, which
  \* the mailbox was not told; ws2) or "down"
  socket, c2s, s2c, received, cuts,
  \* the callers
  log,             \* log[id]: what the callback of call id was called with
  expired          \* ids whose timer has fired

options == <<kind, bufferMsg>>
mailbox == <<connected, closed, interval, keepaliveTimer>>
calls   == <<curId, requests, timeout, queue>>
loop    == <<cutting, cut, after>>
wire    == <<c2s, s2c>>
answers == <<log, expired>>
vars    == <<options, mailbox, told, calls, pingAge, batch, loop, crashed,
             socket, wire, received, cuts, answers>>

-----------------------------------------------------------------------------

Ids      == 0 .. MaxCalls - 1
Sockets  == {"none", "dialing", "up", "dead", "closing", "ending", "down"}
\* "cut" is the error of the ws2 close handler, passed where the tracer belongs.
Outcomes == {"ok", "timeout", "disconnect", "cut"}

TypeOK ==
  /\ kind \in Kinds /\ bufferMsg \in Buffering
  /\ connected \in BOOLEAN /\ closed \in BOOLEAN
  /\ interval \in BOOLEAN /\ keepaliveTimer \in BOOLEAN
  /\ told \in Seq({"ok", "error"})
  /\ curId \in 0 .. MaxCalls
  /\ requests \subseteq Ids /\ timeout \subseteq Ids /\ queue \in Seq(Ids)
  /\ pingAge \in -1 .. 2
  /\ batch \in Seq(Ids) /\ cutting \in BOOLEAN /\ cut \subseteq Ids
  /\ after \in {"return", "emit", "tell"} /\ crashed \in BOOLEAN
  /\ socket \in Sockets
  /\ c2s \in Seq(Seq(Ids)) /\ s2c \in Seq(Seq(Ids)) /\ received \in Seq(Ids)
  /\ cuts \in 0 .. MaxCuts
  /\ log \in [Ids -> Seq(Outcomes)] /\ expired \subseteq Ids

\* A mailbox of the given kind that was just created.
New(transport) ==
  /\ transport \in Kinds /\ kind = transport /\ bufferMsg \in Buffering
  /\ connected = FALSE /\ closed = FALSE
  /\ interval = FALSE /\ keepaliveTimer = FALSE
  /\ told = <<>>
  /\ curId = 0 /\ requests = {} /\ timeout = {} /\ queue = <<>>
  /\ pingAge = -1
  /\ batch = <<>> /\ cutting = FALSE /\ cut = {} /\ after = "return"
  /\ crashed = FALSE
  /\ socket = "none" /\ c2s = <<>> /\ s2c = <<>> /\ received = <<>> /\ cuts = 0
  /\ log = [id \in Ids |-> <<>>] /\ expired = {}

-----------------------------------------------------------------------------
(* Steps that the transports share.                                        *)

\* No JavaScript is running: the event loop may take the next event.
Idle == batch = <<>> /\ ~cutting /\ ~crashed

\* The station listens to 'close'.
Listening == "ok" \in Range(told)

Tell(result) == told' = Append(told, result)

Answer(id, outcome) == log' = [log EXCEPT ![id] = Append(@, outcome)]

\* The request is deleted and its timer is cleared.
ForgetButTimer(id) ==  \* mutant: no clearTimeout
  /\ requests' = requests \ {id}
  /\ UNCHANGED timeout
Forget(id) ==
  /\ requests' = requests \ {id}
  /\ timeout' = timeout \ {id}

Dial ==
  /\ Idle /\ socket = "none"
  /\ socket' = "dialing"
  /\ UNCHANGED <<options, mailbox, told, calls, pingAge, batch, loop, crashed,
                 wire, received, cuts, answers>>

\* The connection is established: the mailbox may send, and flushes.
Established ==
  /\ connected' = TRUE
  /\ interval' = bufferMsg
  /\ UNCHANGED closed

\* A packet written to a connection that is gone goes nowhere.
Write(packet) ==
  c2s' = IF socket = "up" THEN Append(c2s, packet) ELSE c2s

\* send on a mailbox that takes the call: it is registered with its timer, and
\* buffered or written.
Register ==
  /\ Listening /\ ~crashed
  /\ connected /\ ~closed
  /\ curId < MaxCalls
  /\ curId' = curId + 1
  /\ requests' = requests \union {curId}
  /\ timeout' = timeout \union {curId}

BufferOrWrite ==
  IF bufferMsg THEN queue' = Append(queue, curId) /\ UNCHANGED c2s
               ELSE Write(<<curId>>) /\ UNCHANGED queue

\* Otherwise send answers its caller with an error at once, and changes nothing.
SendCall ==
  /\ Register
  /\ BufferOrWrite
  /\ UNCHANGED <<options, mailbox, told, pingAge, batch, loop, crashed, socket,
                 s2c, received, cuts, answers>>

FlushKeepsQueue ==  \* mutant: the queue is kept
  /\ Idle /\ interval /\ ~closed /\ queue # <<>>
  /\ Write(queue)
  /\ UNCHANGED <<options, mailbox, told, calls, pingAge, batch, loop, crashed,
                 socket, s2c, received, cuts, answers>>
FlushQueue ==
  /\ Idle /\ interval /\ ~closed /\ queue # <<>>
  /\ Write(queue)
  /\ queue' = <<>>
  /\ UNCHANGED <<options, mailbox, told, curId, requests, timeout, pingAge,
                 batch, loop, crashed, socket, s2c, received, cuts, answers>>

\* The event of an arriving packet, and the turns of its loop.
Arrive ==
  /\ Idle /\ s2c # <<>> /\ socket \in {"up", "closing"}
  /\ batch' = Head(s2c)
  /\ s2c' = Tail(s2c)
  /\ UNCHANGED <<options, mailbox, told, calls, pingAge, loop, crashed, socket,
                 c2s, received, cuts, answers>>

\* A reply to a request that is no longer there is dropped.
DropReply ==
  /\ batch # <<>> /\ ~cutting /\ ~crashed /\ Head(batch) \notin requests
  /\ timeout' = timeout \ {Head(batch)}
  /\ batch' = Tail(batch)
  /\ UNCHANGED <<options, mailbox, told, curId, requests, queue, pingAge, loop,
                 crashed, socket, wire, received, cuts, answers>>

\* The callback of the next reply is called, and returns.
TakeReply ==
  /\ batch # <<>> /\ ~cutting /\ ~crashed /\ Head(batch) \in requests
  /\ Forget(Head(batch))
  /\ Answer(Head(batch), "ok")
  /\ UNCHANGED <<options, mailbox, told, curId, queue, pingAge, loop, socket,
                 wire, received, cuts, expired>>
CallBack == TakeReply /\ batch' = Tail(batch) /\ UNCHANGED crashed

\* It throws inside the try of the packet: the replies behind it are dropped.
CallBackThrows == TakeReply /\ batch' = <<>> /\ UNCHANGED crashed

\* The loop over the requests starts, and takes them in ascending order.
CutAll(then) ==
  /\ cutting' = TRUE
  /\ cut' = requests
  /\ after' = then

CutNext(outcome) ==
  /\ cutting /\ ~crashed
  /\ \E id \in cut :
       /\ \A other \in cut : id <= other
       /\ cut' = cut \ {id}
       /\ Answer(id, outcome)
  /\ UNCHANGED <<options, mailbox, told, calls, pingAge, batch, cutting, after,
                 crashed, socket, wire, received, cuts, expired>>

CutEnds ==
  /\ cutting /\ cut = {} /\ ~crashed
  /\ cutting' = FALSE /\ after' = "return"
  /\ UNCHANGED cut

\* The timer of request id fires, and its callback is called.
Expire(id) ==
  /\ Idle /\ id \in timeout
  /\ Forget(id)
  /\ expired' = expired \union {id}
  /\ UNCHANGED <<options, mailbox, told, curId, queue, pingAge, batch, loop,
                 socket, wire, received, cuts>>
ExpireSilently(id) ==  \* mutant: the callback is not called
  Expire(id) /\ UNCHANGED <<log, crashed>>
ExpireAndAnswer(id) == Expire(id) /\ Answer(id, "timeout") /\ UNCHANGED crashed

-----------------------------------------------------------------------------
(* The connection and the remote server, as far as a mailbox can tell.     *)

\* The connection dies and nobody is told.
LinkDies ==
  /\ socket = "up" /\ ~crashed
  /\ socket' = "dead"
  /\ c2s' = <<>> /\ s2c' = <<>>
  /\ UNCHANGED <<options, mailbox, told, calls, pingAge, batch, loop, crashed,
                 received, cuts, answers>>

ServerReceive ==
  /\ c2s # <<>> /\ ~crashed
  /\ received' = received \o Head(c2s)
  /\ c2s' = Tail(c2s)
  /\ UNCHANGED <<options, mailbox, told, calls, pingAge, batch, loop, crashed,
                 socket, s2c, cuts, answers>>

\* Replies in any order, also repeated; one packet is on the wire at a time.
ServerReply(n) ==
  /\ socket \in {"up", "closing"} /\ s2c = <<>> /\ ~crashed
  /\ \E packet \in [1 .. n -> Range(received)] : s2c' = <<packet>>
  /\ UNCHANGED <<options, mailbox, told, calls, pingAge, batch, loop, crashed,
                 socket, c2s, received, cuts, answers>>
=============================================================================
