---------------------------- MODULE AcceptorState ----------------------------
(***************************************************************************)
(* The server's end of the connections: what the acceptors of all          *)
(* transports have in common, with the gateway that starts and stops them  *)
(* and the dispatcher that hands each request to a service.  MqttAcceptor, *)
(* TcpAcceptor, WsAcceptor, Ws2Acceptor and Mqtt2Acceptor add what is      *)
(* their own.                                                              *)
(*                                                                         *)
(* JavaScript runs one handler at a time, and a handler is one step, but   *)
(* for the one that calls user code in a loop: a packet of requests is     *)
(* processed one request per step, because a service may answer its own    *)
(* and other requests, stop the gateway or throw while it is called.  A    *)
(* request the dispatcher finds no service for is answered with an error   *)
(* at once, like a service that answers while it is called.                *)
(*                                                                         *)
(* A packet that arrives is the first the acceptor knows of it, so packets *)
(* on the wire are not part of the state: a lost one never arrives.        *)
(***************************************************************************)
EXTENDS Integers, Sequences, FiniteSets, Functions

CONSTANTS
  Kinds,        \* the transports that are checked
  Buffering,    \* the values of opts.bufferMsg
  MaxConns,     \* bound: connections
  MaxRequests,  \* bound: requests
  MaxBatch      \* bound: requests in one packet

ASSUME OptionsAssumption ==
  /\ Kinds \subseteq {"mqtt", "tcp", "ws", "ws2", "mqtt2"}
  /\ Buffering \subseteq BOOLEAN

ASSUME BoundsAssumption ==
  /\ MaxConns \in Nat
  /\ MaxRequests \in Nat
  /\ MaxBatch \in Nat

VARIABLES
  kind, bufferMsg,
  \* the gateway and its acceptor
  started, stoped,
  interval,    \* the flush timer (_interval) is armed
  curId,       \* the id of the next connection
  open,        \* connections that were accepted and are not closed or closing
  waiting,     \* those that wait: for the whitelist, or for their handshake
  sockets,     \* sockets[key]: the connection that is known under a key
  msgQueues,   \* msgQueues[key]: replies to be flushed; key may be no socket
  \* the handler that is running, if one is
  conn,        \* the connection of the packet that is processed, or 0
  single,      \* the packet is a request, not an array of requests
  rest,        \* the requests of the packet still to process
  called,      \* the request whose service is called, or NoId
  crashed,     \* an exception left a handler: the process is gone
  \* the services
  serving,     \* <<c, id>>: the service of request id has a callback to call
  \* histories
  received,    \* received[c]: requests 0 .. received[c] - 1 have arrived
  answered,    \* answered[c]: the requests that were answered, in order
  written,     \* written[c]: the replies handed to the socket, in order
  failed,      \* requests whose service threw
  dropped      \* requests behind one whose service threw

gateway == <<kind, bufferMsg, started, stoped, interval>>
links   == <<curId, open, waiting, sockets>>
running == <<conn, single, rest, called, crashed>>
history == <<received, answered, written, failed, dropped>>
vars    == <<gateway, links, msgQueues, running, serving, history>>

-----------------------------------------------------------------------------

Conns == 1 .. MaxConns
Ids   == 0 .. MaxRequests - 1
NoId  == -1  \* the id of a reply that has none

\* net sockets have no id: all tcp connections share one key ("undefined").
Key(c) == IF kind = "tcp" THEN 0 ELSE c

\* A reply to connection c holds what a service answers, or the error it threw.
Reply(c, id, error) == [to |-> c, id |-> id, error |-> error]
Replies == [to : Conns, id : Ids \union {NoId}, error : BOOLEAN]

TypeOK ==
  /\ kind \in Kinds /\ bufferMsg \in Buffering
  /\ started \in BOOLEAN /\ stoped \in BOOLEAN /\ interval \in BOOLEAN
  /\ curId \in 1 .. MaxConns + 1
  /\ open \subseteq 1 .. curId - 1 /\ waiting \subseteq 1 .. curId - 1
  /\ DOMAIN sockets \subseteq 0 .. curId - 1
  /\ kind \notin {"ws", "ws2"} => Range(sockets) \subseteq open
  /\ DOMAIN msgQueues \subseteq 0 .. curId - 1
  /\ msgQueues \in [DOMAIN msgQueues -> Seq(Replies)]
  /\ conn \in 0 .. curId - 1 /\ single \in BOOLEAN
  /\ rest \in Seq(Ids) /\ called \in Ids \union {NoId} /\ crashed \in BOOLEAN
  /\ serving \subseteq Conns \X Ids
  /\ received \in [Conns -> 0 .. MaxRequests]
  /\ answered \in [Conns -> Seq(Ids)]
  /\ written \in [Conns -> Seq(Replies)]
  /\ failed \subseteq Conns \X Ids /\ dropped \subseteq Conns \X Ids

\* An acceptor of the given kind that was just created.
New(transport) ==
  /\ transport \in Kinds /\ kind = transport /\ bufferMsg \in Buffering
  /\ started = FALSE /\ stoped = FALSE /\ interval = FALSE
  /\ curId = 1 /\ open = {} /\ waiting = {} /\ sockets = <<>>
  /\ msgQueues = <<>>
  /\ conn = 0 /\ single = FALSE /\ rest = <<>> /\ called = NoId
  /\ crashed = FALSE
  /\ serving = {}
  /\ received = [c \in Conns |-> 0]
  /\ answered = [c \in Conns |-> <<>>]
  /\ written = [c \in Conns |-> <<>>]
  /\ failed = {} /\ dropped = {}

\* The event loop may take the next event.
Idle == conn = 0 /\ ~crashed

-----------------------------------------------------------------------------
(* The gateway.  start throws if it was called before, also after stop.    *)

Start ==
  /\ ~started
  /\ started' = TRUE
  /\ interval' = bufferMsg
  /\ UNCHANGED <<kind, bufferMsg, stoped, links, msgQueues, running, serving,
                 history>>

\* stop: also from a service.  The connections and their queues stay.
Stop ==
  /\ started /\ ~stoped /\ ~crashed
  /\ stoped' = TRUE
  /\ interval' = FALSE
  /\ UNCHANGED <<kind, bufferMsg, started, links, msgQueues, running, serving,
                 history>>

-----------------------------------------------------------------------------
(* Connections.                                                            *)

\* The 'connection' event: the new connection is known under its key, and may
\* have to wait.
Admit(waits) ==
  /\ Idle /\ started /\ ~stoped
  /\ curId <= MaxConns
  /\ curId' = curId + 1
  /\ open' = open \union {curId}
  /\ waiting' = IF waits THEN waiting \union {curId} ELSE waiting
  /\ sockets' = [k \in DOMAIN sockets \union {Key(curId)} |->
                   IF k = Key(curId) THEN curId ELSE sockets[k]]
  /\ UNCHANGED <<gateway, msgQueues, running, serving, history>>

LeaveKeepsSocket(c) ==  \* mutant: the socket stays known
  /\ c \in open
  /\ open' = open \ {c}
  /\ waiting' = waiting \ {c}
  /\ msgQueues' = Restrict(msgQueues, DOMAIN msgQueues \ {Key(c)})
  /\ UNCHANGED <<gateway, curId, sockets, running, serving, history>>

\* Connection c is forgotten, with the queue of its key.
Leave(c) ==
  /\ c \in open
  /\ open' = open \ {c}
  /\ waiting' = waiting \ {c}
  /\ sockets' = Restrict(sockets, DOMAIN sockets \ {Key(c)})
  /\ msgQueues' = Restrict(msgQueues, DOMAIN msgQueues \ {Key(c)})
  /\ UNCHANGED <<gateway, curId, running, serving, history>>

-----------------------------------------------------------------------------
(* Requests.                                                               *)

\* doSend
DoSend(c, replies) == written' = [written EXCEPT ![c] = @ \o replies]

\* enqueue: also for a connection that was closed, whose queue is created again.
Enqueue(c, reply) ==
  LET k == Key(c)
      queue == IF k \in DOMAIN msgQueues THEN msgQueues[k] ELSE <<>>
  IN  msgQueues' = [l \in DOMAIN msgQueues \union {k} |->
                      IF l = k THEN Append(queue, reply) ELSE msgQueues[l]]

\* The requests that have arrived, from all connections.
Arrived == {request \in Conns \X Ids : request[2] < received[request[1]]}

\* A packet arrives: a request (alone), or an array of n requests.
Arrive(c, alone, n) ==
  /\ Idle /\ c < curId
  /\ Cardinality(Arrived) + n <= MaxRequests
  /\ alone => n = 1
  /\ conn' = c /\ single' = alone
  /\ rest' = [i \in 1 .. n |-> received[c] + i - 1]
  /\ received' = [received EXCEPT ![c] = @ + n]
  /\ UNCHANGED <<gateway, links, msgQueues, called, crashed, serving, answered,
                 written, failed, dropped>>

CallUnlessStopped ==  \* mutant: services are not called after stop
  /\ conn # 0 /\ ~crashed /\ rest # <<>>
  /\ called' = Head(rest)
  /\ rest' = Tail(rest)
  /\ serving' = IF stoped THEN serving ELSE serving \union {<<conn, Head(rest)>>}
  /\ UNCHANGED <<gateway, links, msgQueues, conn, single, crashed, history>>

\* The service of the next request of the packet is called.
Call ==
  /\ conn # 0 /\ ~crashed /\ rest # <<>>
  /\ called' = Head(rest)
  /\ rest' = Tail(rest)
  /\ serving' = serving \union {<<conn, Head(rest)>>}
  /\ UNCHANGED <<gateway, links, msgQueues, conn, single, crashed, history>>

\* The handler of the packet returns.
Return ==
  /\ conn # 0 /\ ~crashed /\ rest = <<>>
  /\ conn' = 0 /\ called' = NoId /\ single' = FALSE
  /\ UNCHANGED <<gateway, links, msgQueues, rest, crashed, serving, history>>

\* The service that is called throws: the rest of the packet is dropped.
DropRest ==
  /\ conn # 0 /\ ~crashed /\ called # NoId
  /\ failed' = failed \union {<<conn, called>>}
  /\ dropped' = dropped \union {<<conn, id>> : id \in Range(rest)}
  /\ conn' = 0 /\ rest' = <<>> /\ called' = NoId /\ single' = FALSE
  /\ UNCHANGED <<gateway, links, msgQueues, serving, received, answered>>

\* A service calls its callback: while it is called, or later.
Answer(c, id) ==
  /\ <<c, id>> \in serving /\ ~crashed
  /\ serving' = serving \ {<<c, id>>}
  /\ answered' = [answered EXCEPT ![c] = Append(@, id)]
  /\ IF bufferMsg
       THEN Enqueue(c, Reply(c, id, FALSE)) /\ UNCHANGED written
       ELSE DoSend(c, <<Reply(c, id, FALSE)>>) /\ UNCHANGED msgQueues
  /\ UNCHANGED <<gateway, links, running, received, failed, dropped>>

-----------------------------------------------------------------------------
(* Flushing.                                                               *)

FlushedNotReset ==  \* mutant: the queue that was sent is kept
  Restrict(msgQueues, DOMAIN msgQueues \intersect DOMAIN sockets)
FlushedReadyOnly ==  \* mutant: queues without a socket are skipped
  [k \in DOMAIN msgQueues |->
     IF k \in DOMAIN sockets THEN <<>> ELSE msgQueues[k]]

\* The queues after a flush: those without a socket are deleted.
Flushed == [k \in DOMAIN msgQueues \intersect DOMAIN sockets |-> <<>>]

\* What the sockets were handed after a flush.
FlushedTo(c) ==
  IF \E k \in DOMAIN msgQueues \intersect DOMAIN sockets : sockets[k] = c
    THEN written[c] \o msgQueues[Key(c)] ELSE written[c]

FlushUnlessOrphan ==  \* mutant: the loop ends at a queue without a socket
  /\ Idle /\ interval
  /\ IF DOMAIN msgQueues \subseteq DOMAIN sockets
       THEN /\ msgQueues' = Flushed
            /\ written' = [c \in Conns |-> FlushedTo(c)]
       ELSE UNCHANGED <<msgQueues, written>>
  /\ UNCHANGED <<gateway, links, running, serving, received, answered, failed,
                 dropped>>
FlushQueues ==
  /\ Idle /\ interval
  /\ msgQueues' = Flushed
  /\ written' = [c \in Conns |-> FlushedTo(c)]
  /\ UNCHANGED <<gateway, links, running, serving, received, answered, failed,
                 dropped>>
=============================================================================
