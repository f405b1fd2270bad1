# TLA+ specifications of pomelo-rpc

pomelo-rpc is the RPC layer of the pomelo game server framework: a client that
routes calls to remote servers over one connection per server, and a server
that hands the requests to services. Both are single-threaded JavaScript. What
makes the code hard is not threads but *events*: timers, replies, connect
callbacks, closing sockets and the users' own callbacks come in any order, user
code runs in the middle of the library's loops, and several maps that belong
together (requests and their timers, mailboxes and connecting marks, sockets
and reply queues) are changed by different events.

Paths below are relative to `src/lib`. Line numbers refer to the same commit as
the `map` of `PROJECT.json`, which names the lines of each definition.

## 1. The system

    user code -> proxy -> Client.rpcInvoke -> MailStation.dispatch
                   |                            |  pending queue, filters,
                 router (serverId)              |  lazy connect
                                                v
                                           MailBox.send  == socket ==>  Acceptor
                                                ^                          |
      callback <--- timer / reply / disconnect -+          Gateway -> Dispatcher
                                                                           |
      'error' event -> failureProcess -> dispatch again                 service

| component | state it keeps | operations | what is hard about it |
|---|---|---|---|
| **mqtt mailbox** `rpc-client/mailboxes/mqtt-mailbox.js`: the client's end of one connection | `requests` (callbacks by id), `timeout` (timers by id), `queue`, `connected`, `closed`, connect/flush/keepalive timers, `lastPing`/`lastPong` | `connect`, `send`, `close`, flush, reply loop, callback timers, disconnect loop, keepalive | a reply races its timer; replies repeat, come late or answer another call; a user callback throws or calls back into the mailbox in the middle of a loop; the disconnect handler calls every callback and forgets none; the connect callback runs after close; a silent peer |
| **other mailboxes** `tcp-`, `ws-`, `ws2-`, `mqtt2-mailbox.js` | the same, without the connect timer; a keepalive in ws2 and mqtt2 only | the same | they differ in what they forget: the ws2 timer calls nobody back, the tcp timer throws, the ws2 close handler passes its error as a tracer, ws and mqtt2 keep the requests of a broken connection |
| **mail station** `rpc-client/mailstation.js`: servers, mailboxes, pending calls | `servers`, `serversMap`, `onlines`, `mailboxes`, `connecting`, `pendings`, `state` | `start`, `stop`, `addServer`, `removeServer`, `replaceServers`, `dispatch`, filters, `connect` and its callback, close events | a mailbox is looked up by server id in callbacks that outlive it; the pending queue is refilled while it is flushed; a refused call is reported twice (event and callback); a connect that fails leaves the mark and the queue; calls wait in asynchronous filters while servers come and go |
| **failure processing** `rpc-client/failureProcess.js`: what to do with a call that failed | none (it edits the station's `serversMap`) | failfast, failover, failback (failsafe is unreachable, lines 5-34) | failover dispatches from inside the event of the failed dispatch and shortens a list that all calls share; the message of an error event may be null |
| **client** `rpc-client/client.js`, `util/proxy.js` | `state`, `proxies` | `start`, `stop`, `rpcInvoke`, proxies, broadcast | two starts before the tick; a router that calls back after stop; broadcast counts answers of calls that are answered twice or never |
| **routers** `rpc-client/router.js`, `util/consistentHash.js` | saved index and weights, call counts, the hash ring | rr, wrr, la, ch, rd, the default route | the server list changes under a saved index; loops that end only if a weight fits; counts under a wrong key; a node added twice; a router stores its state after the callback it calls |
| **acceptors** `rpc-server/acceptors/*.js`: the server's end of the connections | `sockets`, `msgQueues`, the flush timer | `listen`, packets of one or several requests, reply queues, `close` | services answer at once, late, after their connection closed, or throw in the middle of an array; the flush removes queues that late answers recreate; tcp knows all sockets under one key; ws2 throws when it writes to a closing socket |
| **gateway, dispatcher, server** `rpc-server/*.js` | `started`, `stoped`, the services | `start`, `stop`, `route`, reload | stop from inside a service; a reload of one path replaces all services |
| **coder** `util/coder.js`, `util/utils.js` | the map of service names | encode, decode | names are coded by positions in a map that is not renewed when services are |
| tracer, constants, buffers, samples | none | logging, byte layout, examples | nothing that steers the library |

### What must hold

* *Mailbox.* An accepted call is answered, whatever the server and the socket
  do; it is answered once unless a DISCONNECT came; success means the server
  got, or replied to, that very call; requests reach the server once and in
  order; a dead peer is noticed; a closed mailbox is silent.
* *Station.* A call is sent at most once, and answered at most once but for the
  notice of a connection that broke; it is not lost without an error event; every
  open connection is known to the station, so that stop closes all; late events of
  an old mailbox do not touch its successor; failing over ends.
* *Routers.* A router returns a server of the list of its type, fairly or by
  weight or by least use, and the hash ring assigns a key to the next node of
  the ring, never to one that was removed.
* *Acceptors.* Every request that arrives is handed to its service once; every
  answer is sent once and in order on an open connection; queues do not leak.
* *Client.* A call runs the method it names on the servers it is for; its
  callback hears of a success only if they ran it, and is called once for the
  answer and for each notice; a stopped client is quiet.

Not all of this is true of all transports and options. Where it is not, the
property says so in its condition, or a run shows the counterexample
(section 3).

## 2. The modules

| module | models | source |
|---|---|---|
| `RpcCalls` | the abstract promise of a mailbox to its callers: one final answer for each accepted call, and notices only before it | - |
| `MqttMailbox` | one mqtt mailbox with its socket and server | mqtt-mailbox.js, mailstation.js 335-342 |
| `MailboxState` | the fields, steps and environment that the other mailboxes share | `rpc-client/mailboxes/*.js` |
| `TcpMailbox`, `WsMailbox`, `Ws2Mailbox`, `Mqtt2Mailbox` | the handlers of each transport | the mailbox of that name |
| `Mailboxes` | the four of them side by side, and their properties | - |
| `MailStation` | the station and the failure processing, over mailboxes as the station sees them | mailstation.js, failureProcess.js, client.js |
| `ServerList` | the infos and the shared lists of servers by type | mailstation.js, failureProcess.js |
| `HashRing` | the consistent hash as operators on a ring, with a reference | consistentHash.js |
| `Routing` | the routers and the default route over changing lists; it extends the two above | router.js, client.js |
| `AcceptorState` | what the acceptors share, with gateway and services | `rpc-server/acceptors/*.js`, gateway.js, dispatcher.js |
| `MqttAcceptor`, `TcpAcceptor`, `WsAcceptor`, `Ws2Acceptor`, `Mqtt2Acceptor` | the handlers of each transport | the acceptor of that name |
| `Acceptors` | the five of them behind the gateway, and their properties | - |
| `Services` | loading services, coding the names of a call, finding its method | server.js, dispatcher.js, utils.js, coder.js |
| `Client` | client, proxies, broadcast and the servers, end to end | client.js, proxy.js, gateway.js |
| `Lists` | elements spliced out of an array, and numbers sorted; used by `ServerList`, `HashRing` and `Routing` | consistentHash.js |
| `RequestStream` | what it means that the requests of a mailbox are in order: received, on the wire, buffered; used by `MqttMailbox` and `Mailboxes` | - |
| `MC...` | constants and symmetries of an instance | - |
| `..._proofs` | TLAPS proofs about `RequestStream`, `MqttMailbox`, `Mailboxes`, `MailStation` (two modules: its connections; the places and the losses of its calls), `Acceptors`, `Client`, `Routing` | - |

The modules are layers, and each assumes of its neighbour what another one
checks:

* `MailStation` assumes that a mailbox answers a call it took, once
  (`BoxAnswer`, and the fairness on it), and that before its answer a call is
  called back by the end of its connection and stays with the mailbox
  (`Disconnect`, `RunCutCall`, `RunNotice`; option `notifies`, of mqtt, mqtt2 and
  ws). That is `RpcCalls`, with one notice: after the loop the mailbox emits
  'close', so that the station ends it. That nothing follows an answer is proved of
  all five mailboxes (the two theorems `ImplementsPromise`). That there is one, the
  run `mailbox_mqtt` shows for `MqttMailbox`, and `mailboxes` shows where the others
  do not answer: a timer of ws2 answers nobody, one of tcp ends the process. The
  misplaced error of a ws2 mailbox that is cut off is in `Mailboxes` and in `Client`
  (`CutOffWs2`), not in `MailStation`, whose mailboxes are of mqtt and of tcp.
* The mailboxes assume of the station that it connects a mailbox once and
  listens to 'close' from the connect callback on, which is what `MailStation`
  does (`CreateBox`, `ConnectDone`). Of the server they assume next to
  nothing: replies, in any order and any number, to requests it has received.
  `Acceptors` promises more.
* `Client` assumes that the station sends a call to a server at most once
  (`SentOnce`), and answers it at most once but for the notices of a connection
  that broke (`CutOff`); that it may answer with an error although the call was or
  will be served; and with a tracer that failfast answers as well. Over ws2 it
  assumes what `ws2_cut_call` shows: a connection that breaks answers its calls
  without an error (`CutOffWs2`), and a timer answers nobody (`Timeout`). It takes
  any server for the router's choice: which one it is, is `Routing`.

### How a step corresponds to the code

JavaScript runs one event handler at a time, to its end. So an action is a
handler, from the event to the return, with everything it calls. Three kinds of
handler are split, because user code runs in the middle of them and may call
back into the library:

* *a loop over user callbacks.* The replies of a packet (`batch`,
  `ProcessMsg`), the calls cut by a disconnect (`cut`, `CutCall`) and the
  requests of a packet (`rest`, `Call` and `Return`) are one step per turn;
  `Idle` keeps every other event out until the loop is done, and only user
  actions (`Send`, `Close`, `Answer`, `Stop`) may come between the turns.
* *the events of the station.* `dispatch`, `errorHandler`, `flushPending` and
  the failure processing call each other and user callbacks. What is left to do
  of the running event is `agenda`, a stack of frames, each frame the body of
  one function of the source. The next event comes when it is empty; user code
  comes when it is empty or while a callback runs (`inCallback`). The disconnect
  loop of a mailbox (`cutBox`, `cut`) runs the frames of one call per turn. The
  ticks of start come before what sockets and timers bring (`Polls`): Node empties
  the queue of `process.nextTick` first.
* *the routers that store after their callback.* What they will store is in
  `storing`, a stack: calls that are routed in the callback come first.

Data is abstracted to identities: a call or a request is its id, a reply the id
it answers and whether it is an error, a packet a sequence of ids, a method the
triple of its names, the services of a server the set of their methods (paths that
share a namespace are merged; of two services with the same names the later path's
is left), a hash a number. Time is abstracted to "the timer may fire now"; only the
keepalives count their ticks (`pingAge`). A packet written to a lost socket goes
nowhere, but over ws2, where writing to a socket that is not open throws; a lost
connection loses what is on the wire.

An exception that nothing catches ends the process: `crashed`. It is modelled
where the library throws itself (the tcp callback timer; failover after a failed
connect; a send, flush or ping on a ws2 socket that is not open, by the mailbox or by
the acceptor; the flush of mqtt2) and where a
service throws into an acceptor that does not catch it. A callback of a user
that throws is modelled inside the loops of the library that catch it
(`CallBackThrows`, `Throwing`); elsewhere it ends the process and is left out. The
exception of a ws2 `send` goes to the caller, who may catch it (`SendThrows`).

### What is taken for granted of other code

The libraries are not in the repository. The models assume, as the code does: `ws`
throws when it sends or pings on a socket that is not open, and emits 'close' once,
when the socket is gone, also after `close()` and after the closing handshake of the
peer, until when the socket is not open any more (`CloseFrame`); socket.io emits
'disconnect' on the side that disconnects, too, at once, so that a ws whitelist
which rejects a connection while it is asked does so before anybody listens, and the
socket stays known (`AcceptRejected`); net sockets have no `id`; the mqtt connection
rejects an array as a payload, by throwing or in its stream; `async.each` calls its
callback once, with the first error or after the last item, and throws when an item
calls back twice; writing an undefined position writes 0; digests do not collide.

## 3. What TLC checks

All runs: `tlc -config <run>.cfg <module>`. Deadlock is not checked: all of the
systems may stop (stopped, closed, bounds used up, or crashed).

| run | module | what it shows |
|---|---|---|
| `mailbox_mqtt` | MqttMailbox | the mqtt mailbox, buffered or not, with everything that can go wrong: safety, the inductive invariant `IInv` of the proofs, the refinement of `RpcCalls`, liveness |
| `mailboxes` | Mailboxes | the tcp, ws, ws2 and mqtt2 mailboxes, buffered or not |
| `station` | MCMailStation | mqtt mailboxes with failfast and filters that answer later, and tcp mailboxes with failback: two servers, two calls |
| `station_failover` | MCMailStation | failover over two servers: events end and calls settle; two starts: a stopped station stays closed |
| `routing` | MCRouting | each schedule over lists that change, with routes nested in callbacks |
| `acceptors` | Acceptors | the five acceptors, buffered or not, on two connections |
| `client` | MCClient | calls, routed calls and broadcasts over mqtt, mqtt2 and ws2 to two servers that reload their services |
| `station_connect_timeout`, `station_failover_connect`, `ws2_cut_call`, `acceptor_tcp`, `routing_type` | | expected violations, below |

### Properties worth naming

* *mqtt mailbox.* `NoLostCall`, `AnswersBounded`: an accepted call without an
  answer has its callback *and* its timer; after a result or a timeout a
  callback is never called again. The code does answer a call once more for
  each DISCONNECT, because the handler (95-103) leaves the request; the bound
  `1 + disconnects` is reached. `InOrderOnce`: the ids of the requests ascend
  over those received, the packets on the wire and the buffer, in this order, so
  that none is received twice or before an earlier one. `ClosedIsQuiet`: the late
  connect callback revives `connected` and the timers of a closed mailbox; it
  still accepts and sends nothing. `KeepsPromise`: the mailbox implements
  `RpcCalls`, safety and liveness. `DeadPeerNoticed`, `QueueFlushed`.
* *other mailboxes.* `AnswersBounded` with a bound for each transport (a tcp or
  ws2 callback is called once at most, one of ws twice); `OkMeansReceived`;
  `InOrderOnce`; `EveryCallAnswered`, with the two timers that answer nobody as
  its exceptions; `DeadPeerNoticed`, for the two that have a keepalive.
* *station.* `OneAnswer`, `SentOnce`, `NoSilentLoss`: the fate of a call. It is sent
  once at most, but for a call that failover has dispatched again (`Retried`). It is
  answered once at most, and once more if the disconnect handler of its mailbox has
  called it back (`notified`): mailstation.js 253-262 is called for the notice and
  again by the reply or the timer, each time with an error event and a callback.
  This too excepts `Retried` calls, and stations whose failure processing calls back
  as well (`Silent`: no tracer, or failback). A call is lost without an error event
  in two ways only: `NoSilentLoss` looks at the step after which it is nowhere any
  more (not in a queue, a filter, a mailbox or the running event) and at the server
  it was at. Its queue was full (411-417). Or the station had forgotten a mailbox of
  that very server that was still connecting (`Forgetful`), because its server was
  removed or because an older, closed mailbox called back connect with an error
  after it (329-331): the connect callback then flushes the queue into dispatches
  that refill it, and deletes it (428-435). `NoLeakedConnection`,
  `StoppedStaysClosed`: no connection escapes the map, because a mailbox that is
  replaced is closed before its successor is created. There is one exception,
  `Orphaned`: a tcp mailbox that was closed while its socket was connecting may
  still call back connect with an error, and the station then forgets, without
  closing it, the mailbox the server has now (329-331). A stopped station does
  reopen in one way, which the property names: start, start, tick, stop, and the
  tick of the second start (53-63 look at the state only before the tick).
  `StoppedStaysClosed` shows that nothing else reopens it, that no mailbox is
  created while it is stopped, and that the grace timers close whatever a reopened
  station has created. `ClosesOwnBox` holds where close() is not echoed and connect
  reports no failure (mqtt); with tcp and ws the echo of a removed mailbox closes
  its successor.
* *failover.* `EventsEnd`, `CallsSettle`: a call that fails over is dispatched
  again from inside its own error event; it ends because every round takes a
  server off the list. Without a tracer the call has no callback any more when it
  is dispatched again (failureProcess.js 6, 71), and counts as settled because it
  was reported.
* *routing.* `Rotates`: round robin reaches every server, although it stores
  its index after the callback and calls in the callback use the same index.
  `Proportional`: every window of as many calls as the weights add up to serves
  each server by its weight, from whatever index and weight another list has
  left. `NeverWidens`: least active never widens the gap between servers that
  have a count; a server that is new to it has none (its count is stored under
  the wrong key, 152) and gets every call from then on, so it is left out.
  `RingLookup`: the binary search agrees with the reference `Owner` on every
  hash, whenever no node is in the ring twice. `RemovedNotRouted` holds even
  then.
* *acceptors.* `NoLostRequest`: the request loop loses the requests behind one
  whose service threw and no others. `AnswersInOrder`: replies to an open
  connection keep the order of the answers (a buffered tcp acceptor does not
  know its connections apart, and what a buffered mqtt2 one flushes is an array
  that never arrives: both are left out). `ReplyFlushed`,
  `OrphanRemoved`: queues that late answers recreate neither block the flush
  nor stay, as long as the acceptor is open: `close` stops the flush timer, and
  what is buffered then is given up.
* *client.* `RunsCalledMethod`: a server runs the method that was called or
  none, also when a reload has changed its services under the map of names.
  `OkMeansServed`, `AnsweredOnce`: a broadcast answers once and says "ok" only
  if every server ran a method, but for the servers whose ws2 mailbox was cut off
  (`cut`), whose calls are called back without an error; another call is answered
  again for each notice, and with a tracer for each time the failure processing was
  attached (`starts`). `StoppedIsQuiet`: a router that calls back late sends
  nothing; the tick of a second start that is still to come is excepted.

### Bounds

Every bound is a constant in the .cfg. They are small on purpose: each is about
the least at which the orders of events that matter occur.

| bound | value | why it is enough |
|---|---|---|
| `MaxCalls` (mailboxes) | 2 | one call is answered while another waits, is buffered, or is sent from its callback; the ids never interact otherwise |
| `MaxReplies`, `MaxBatch` (mailboxes) | 1, 2 | a packet with two replies, also twice the same; packets that come later repeat them |
| `MaxDisconnects`, `MaxCuts` | 2 | a call answered by a disconnect, another disconnect, its timer |
| `Servers`, `Calls` (station) | 2, 2 (failover: 2, 1) | events that mix up servers; a queue that overflows; a call that fails over |
| `PendingSize` | 1 (failover: 1) | two calls wait in one queue, and its flush meets both. The queue takes `PendingSize + 1` calls (`>` in line 413), so that one which its own flush refills overflows |
| `MaxStarts` (station) | 1 (failover: 2) | a second start before the tick of the first, whose own tick comes after a stop; it concerns `StoppedStaysClosed`, which the failover run checks |
| `MaxAdds` | 2 | a server is added, removed and added again, or two servers are |
| `MaxLosses` | 2 (failover: 1) | a mailbox is lost, its successor is lost while the old one's callbacks are still to come |
| `Servers`, `Types` (routing) | 3, 2 | a list of two to rotate, and a server of another type |
| `Weights`, `Replicas` | 1 to 2, 2 | unequal weights; replicas that lie between those of another node |
| `MaxRoutes`, `MaxNested`, `MaxChanges` | 4, 1, 2 | a window over weights 2 and 1, and one call behind it; a change between two calls, and one in a callback |
| `MaxConns`, `MaxRequests`, `MaxBatch` (acceptors) | 2, 2, 2 | a queue beside the queue of a closed connection; an array whose first service throws |
| `Mailboxes`, `Paths` (client) | mqtt, mqtt2, ws2; 3 | a station that sees errors, one with coded names, one that sees none; a path whose service another one replaces, and a namespace of its own with the same service name. ws is like mqtt here |
| `Servers`, `Calls`, `MaxStarts` (client) | 2, 1, 2 | a broadcast with an answer missing; a second start before the tick. Calls share nothing but the state of the client |
| `MaxNotices`, `MaxReloads` | 1, 1 | a server that is heard of twice in a broadcast; services that changed once |

Symmetry: calls and servers are interchangeable in `station`, servers in `client`; the
temporal properties of these two are action properties, the same for every call and
server. The runs with liveness use none.

### Fairness

* A handler that runs is finished: weak fairness of the turns of a loop
  (`Turn`, `Call \/ Return`) and of `Run`.
* A timer that is armed fires in the end, however many packets arrive: strong
  fairness of `CallbackTimeout`, `Flush`, `CheckKeepAlive`, `StartTick`,
  `GraceTimeout`, `ConnectTimeout`. It is strong because every arriving packet
  disables the timers while its handler runs; Node's event loop runs expired
  timers in each turn.
* A mailbox answers a call it took (`BoxAnswer`): that is `KeepsPromise`.
* `Fairness` of `MailStation` is the first and the last of these with `StartTick`;
  `FairSpec` adds the timers of stop and of connect, `ReachableSpec` the connects.
* Nothing is assumed of servers, sockets, services, filters, routers or users.
  Only `ReachableSpec`, of `station_failover`, adds that servers accept
  connections: an mqtt mailbox that cannot connect reports nothing (see below),
  so that without it no call would settle.

`Routing` and `Client` have no fairness, as all their properties are safety
properties: whether a call settles is a matter of the station and the mailbox.

### Where the code does not do what the repository says

Five runs are expected to fail; each checks one claim.

* `station_connect_timeout`: a test expects an error for a call whose lazy
  connect fails (`test/rpc-client/mailstation.js:213`). The mqtt mailbox calls
  back nothing and only emits 'close' (48-51, 86-89), which nobody listens to
  before the connect succeeded: the call waits for ever.
* `station_failover_connect`: "This will try other servers"
  (failureProcess.js:37). The error event of a failed connect carries a null
  message, from which failover reads the server type: a TypeError.
* `ws2_cut_call`: callbacks are documented as `cb(err, ...)` (client.js:162).
  When its socket closes the ws2 mailbox calls `cb(err)` (97) where the station
  expects a tracer first (mailstation.js:253): the user is told of no error,
  although no server has answered.
* `acceptor_tcp`: a test expects "the right request/response relationship"
  (`test/rpc-client/tcp-mailbox.js:99` and `:156`). Sockets of net have no id, so all
  connections of a buffered tcp acceptor share the key "undefined", and a reply
  goes to the connection that was accepted last.
* `routing_type`: the consistent hash router is documented to choose among the
  servers of a type (router.js:181-184). The ring listens to `addServer` of the
  station, which is emitted for servers of every type: a call may be routed to
  one of another type.

Others show in the conditions of properties that hold: the two timers and the
`Orphaned` connection named above, the second answers after a DISCONNECT, the station
that the tick of a second start reopens, the exceptions of ws2 sockets, the
least active count under the wrong key, the node that is twice in a ring, and
the mqtt2 flush, whose array payload never arrives.

## 4. What TLAPS proves

Each theorem holds for every value of the constants: any number of calls,
servers, connections, replies and disconnects, all options and transports.

| module | theorem | states |
|---|---|---|
| `MqttMailbox_proofs` | `TypeCorrect` | `Spec => []TypeOK` |
| | `NoCallLost` | `Spec => []NoLostCall` |
| | `AnswersAreBounded` | `Spec => []AnswersBounded` |
| | `ResultsAreReplies` | `Spec => []OkMeansReplied` |
| | `ConnectTimeoutIsHarmless` | `Spec => []ConnectTimeoutHarmless` |
| | `RequestsInOrderOnce` | `Spec => []InOrderOnce` |
| | `ClosedStaysQuiet` | `Spec => ClosedIsQuiet` |
| | `InductiveInvariant` | `Spec => []IInv` |
| | `ImplementsPromise` | `Spec => Promise!SafeSpec` |
| `Mailboxes_proofs` | `AnswersAreBounded` | `Spec => []AnswersBounded` |
| | `ResultsAreReceived` | `Spec => []OkMeansReceived` |
| | `RequestsInOrderOnce` | `Spec => []InOrderOnce` |
| | `InductiveInvariant` | `Spec => []IInv` |
| | `TypeCorrect` | `Spec => []TypeOK` |
| | `ImplementsPromise` | `Spec => Promise!SafeSpec` |
| `MailStation_proofs` | `TypeCorrect` | `Spec => []TypeOK` |
| | `NoConnectionLeaks` | `Spec => []NoLeakedConnection` |
| | `StoppedStationStaysClosed` | `Spec => StoppedStaysClosed` |
| | `CloseEventsStayHome` | `Spec => ClosesOwnBox` |
| | `InductiveInvariant` | `Spec => []IInv` |
| `MailStationCalls_proofs` | `CallsAreInOnePlace` | `Spec => []PlacesInv` |
| | `CallsSentOnce` | `Spec => []SentOnce` |
| | `CallbacksCalledOnce` | `Spec => []OneAnswer` |
| | `NoCallLostSilently` | `Spec => NoSilentLoss` |
| `Acceptors_proofs` | `NoRequestIsLost` | `Spec => []NoLostRequest` |
| | `AnswersAreInOrder` | `Spec => []AnswersInOrder` |
| | `RepliesReachTheirRequester` | `Spec => [](KeptApart => RepliesReachRequester)` |
| | `InductiveInvariant` | `Spec => []IInv` |
| | `TypeCorrect` | `Spec => []TypeOK` |
| `Client_proofs` | `TypeCorrect` | `Spec => []TypeOK` |
| | `SuccessIsServed` | `Spec => []OkMeansServed` |
| | `CallbacksAreBounded` | `Spec => []AnsweredOnce` |
| | `StoppedStaysQuiet` | `Spec => StoppedIsQuiet` |
| | `CodeIsRead` | `DecodeServer(EncodeClient(m, map), map)` is `m`, for each method `m` that `map` is of |
| | `CalledMethodRuns` | `Spec => []RunsCalledMethod` |
| | `InductiveInvariant` | `Spec => []IInv` |
| `Routing_proofs` | `TypeCorrect` | `Spec => []TypeOK` |
| | `RoundRobinRotates` | `Spec => []Rotates` |
| | `WeightedSharesKept` | `Spec => []Proportional` |
| | `RingLooksUp` | `Spec => []RingLookup` |
| | `RemovedServersNotRouted` | `Spec => []RemovedNotRouted` |
| | `GapNeverWidens` | `Spec => NeverWidens` |

Assumptions: the named ASSUMEs of the modules and nothing else. Options are members
of their sets, bounds are natural numbers, the `Servers` of the station and of the
routers are finite, and so are the weights, of which there is one; `NoCall`,
`NoMethod` and `NoNode` are not a call, a method and a server; the code of a path is
a finite set of methods, each with its three names, and the paths are a sequence; a
ring has replicas, and the digests of different ones differ. TLC evaluates them in
every run.

None of the safety properties is inductive by itself.

**MqttMailbox.** `IInv` adds what they rest on:

* `requests = timeout`: a callback is stored exactly as long as its timer is
  armed. Each path that removes one removes the other (`Forget`), and the
  disconnect loop removes neither.
* `HandlerInv`: one handler at a time; the calls still to be cut are pending.
* `FreshInv`: an id that was not given is nowhere, so that `Send` never
  overwrites a callback.
* `AnswerInv` with `MaxAnswers`: how often a callback can have been called is a
  function of the number of disconnects, of whether the call is pending and of
  whether the disconnect loop is still to reach it; a final answer is the last
  and leaves the call no longer pending. That is the heart: the bound of
  `AnswersBounded` alone does not say that a pending call has one answer left.
* `ReplyInv`: whatever is on the wire or in the running packet was sent by the
  server.
* `SocketInv`: a closed mailbox is cut off, a fresh one has no callbacks due.

* `StreamInv`: the requests on their way are in order, and below the next id.

The proof has one independent part for each concern (types, calls, socket, results,
the request stream), each with its own step lemma over all actions, and
`mailbox_mqtt` checks `IInv` as an invariant. `ImplementsPromise` follows from
`CallInv`: the log of a pending call holds disconnects only, so that whatever
answers it is a `Notify` or an `Answer` of `RpcCalls`. `Mailboxes` implements it in
the same way, with `Owed` for pending.

**The request stream.** `RequestStream` says of ids on three stretches (received,
packets on the wire, the buffer) that they ascend, and its proofs, shared by the
mailboxes of all transports, that whatever happens to a request keeps it so: a
fresh id is buffered or written, the buffer is written as one packet, the first
packet is received, the wire or the buffer is lost. That an id is fresh is
`Below`; that a mailbox without buffering has none is the other half of
`StreamInv`.

**Mailboxes.** The actions of the four transports are first mapped, each in a
lemma, to ten things they do to calls (register one, take or drop a reply, let
one expire, start the disconnect loop, its next turn, and so on, or nothing).
`IInv` says of these steps what the one of `MqttMailbox` says of its actions,
with two notions for what the transports do differently:

* `Owed`: the last call of a callback is still to come. It is as long as it is
  pending, but for ws2, which calls the callbacks of a lost connection and keeps
  them, so that those the loop has reached are stored and owed nothing.
* `Disconnects`: how often a callback may have been called before that. Never for
  tcp and ws2; by every disconnect for mqtt2; once for ws, whose loop runs once
  because nothing leads from a socket that is down to one that is not.

`AnswerInv` bounds each callback by its notices, and one more unless that is
owed. For ws2 it rests on `HandlerInv`, too: once the socket is down no packet
is left that could answer a callback the loop has called.

**MailStation.** `IInv` is `TypeOK`, `NoLeakedConnection` and

* `MapInv`: the mailbox a server has is a mailbox of that server, and the newest
  one. That is what lets a late event of an older mailbox be told from one of
  its successor, and what makes `Orphaned` the only way to lose one.
* `StopInv`: stopped, and after the grace time, every mailbox is closed, has
  failed or is `Orphaned`. It survives the reopening by a second start's tick because
  it speaks of a station that is stopped now, and because a grace timer that is armed
  when the station is reopened and stopped again closes all mailboxes as well.

*The places of a call.* `SentOnce` and `OneAnswer` count, and a count is not
inductive: that a call was sent once says nothing of the copy that may still be
in a queue. `PlacesInv` therefore lists every spot where a call can be: the
frames of the running event, known by their depth, which does not change while
frames come and go on top; the queues; the filters; the mailboxes; the after
filter. Any two spots of a call are the same one, a call that was sent is on no
spot before the mailbox, and one that was answered otherwise than by a notice on
none (`PlaceInv`). A call that is called back by the disconnect loop is with its
mailbox, too, and so on its way back twice: `NoticeInv` says that it is called back
so by one loop and once, because afterwards it is with no mailbox but those that have
emitted 'close'. A queue that is being
flushed is no spot, because its calls are frames already and it will be deleted:
that is why a call which the flush itself puts back is not sent twice.
A call that failover has retried is excepted: it is on the way again while the
result of its first dispatch is still on the agenda.

*The losses.* `NoSilentLoss` is about a step: a call that was at a server is at
none after it. A call is `Alive` where it leads to an answer; in a queue that is
being flushed it is not, so `FateInv` says that such a call is also elsewhere, or
settled. No call may join that queue meanwhile: `FlushInv` says that one queue is
flushed at a time and that its server has a connected mailbox, which rests on
`LiveInv`: a mailbox that has neither failed nor emitted 'close' is the one of its
server. All three hold for each server of which the station has forgotten no
mailbox, whatever happens to the others: the proof shows that closing a mailbox of
another server, or forgetting it, does not disturb them. `LinkInv` says which
mailboxes the station listens to, and `CutInv` that the mailbox whose disconnect
loop runs is one of them and is yet to emit 'close'.

That a queue keeps its limit is part of the type invariant, and is proved with
it: `flushPending` does not append, and `addToPending` looks before it does.

**Acceptors.** The requests of a packet are called one by one while others
arrive on the wire, so `IInv` cuts the requests of a connection at `Begun`: what
has arrived, less what is left of the running packet (`PacketInv`: this is the
end of what has arrived, in order). Below it each request was called or dropped,
and none was both; above it none was (`RequestInv`); a dropped one comes after
one whose service threw (`DroppedInv`). The actions of the five transports are
first mapped, each in a lemma, to the seven things they do to requests (arrive,
call, return, throw, answer, or nothing), which keeps the invariant's proof
short.

*The replies.* `AnswersInOrder` compares what a connection was sent, and what is
queued for it, with the answers of its services. The errors of services that
throw go past the queue, so that the two sequences differ: `Carries` is the
order-preserving map from the answers into the replies that reaches all but the
errors, and the lemmas `CarriesAnswer` and `CarriesError` say how it grows.
`ReplyInv` adds that a connection to come has sent and been sent nothing
(`FutureInv`: else a queue would be there before its connection), that sockets
are known by their keys (`KeysInv`), and that a queue holds the replies of its own
connection (`RepliesInv`); the last gives `RepliesReachRequester` for all but the
buffered tcp acceptor, where `acceptor_tcp` refutes it. Here the five transports
do six things: rest, admit a connection, lose one, fail, call back, flush.

**Client.** `StageInv` says where a call is (not made, with its router, waiting for
the servers it was made for); `ServedInv` carries the fact that a server ran a
method from the run through the reply and the `next` of `async.each` to the
callback, or for a server that was cut off over ws2 the fact that it was; `CountInv`
counts the calls of a callback against the notices, the answer that is or is not
still to come, and the listeners, with a product that grows when another start adds
one.

*The methods.* `RunInv` says that a call has a method before anything is sent,
and that what ran is that method or none. It rests on `CodeIsRead`, a theorem
about the coder alone: a name keeps its position, although the maps of
`genServicesMap` are filled with names that come several times. Nothing is assumed of
the order in which objects are enumerated: `EnumerationHolds` says that an
enumeration of a finite set holds its members and no others, `AllNamesListed` that
each name of the methods is in its list, `CreatedCode` that what is loaded is in
the code of the paths.

**Routing.** Nothing in the invariants bounds the number of servers, weights,
calls or changes, and the lists that the routers walk change under them.

* *The lists.* `Lists` says by ranks what a splice and a sort do (the n-th of what
  is left has n - 1 before it); its lemmas say that the order stays, that nothing
  else comes in, and that what is sorted ascends and holds the same numbers as
  often. `StateOk` has the types of the lists, the rings and the frames in
  `storing`.
* *The ring.* `RingOk` holds of the ring of each type, also of those that are
  still to be stored: the keys ascend, as a set they are the hashes of the
  replicas of the nodes, the ring gives each key to the node it is a hash of, and
  a key is there twice only if its node was added twice. A removed node has no
  key, so that no position leads to it (`RemovedServersNotRouted`), which needs
  that positions stay in range although the search counts the keys of the ring
  and not those of the list. Without a node that is there twice the two counts
  are the same, and the search ends at the last key that is not above the hash
  (`RingLooksUp`): below `lower` the keys are not above it, above `upper` they are.
* *Round robin.* `RotationOk`: in the order in which frames will be stored, the
  next index follows the one of the outermost route, and the last routes of a
  list, as many as it is long, took indices in a row, so that their remainders
  differ.
* *Weighted round robin.* The turns of a list are the pairs of a server and a
  weight that is not above its own. `wrrRoute` walks the places of index and
  weight, each round with a lower weight; that its loop stops at the next turn in
  this order, from any place another list may have left, is proved by the least
  counterexample. `SharesOk` says that the routes since the list changed are at
  consecutive turns (`TurnsInOrder`), counted modulo their number. As many of them
  as there are turns hit each turn once, and a server has as many turns as its
  weight.
* *Least active.* `CountsOk`: the count of a server that was in the first list is
  the number of calls it was given, and stays so while it is off the list.

The types of the other modules need no more than their invariants: in
`Acceptors` each request is one of those that arrived (`ArrivedCount`), and sockets
are dropped with their connections (`KeysInv`), but for ws2 sockets that are closing and
ws sockets that were rejected at once; in `Mailboxes` the timers are those
of the pending calls.

Only model-checked: liveness (the fairness part of `RpcCalls`, `DeadPeerNoticed`,
`QueueFlushed`, `EveryCallAnswered`, `EventsEnd`, `CallsSettle`, `ReplyFlushed`,
`OrphanRemoved`), which is beyond the prover. Every invariant and every action
property that the passing runs check is a theorem.

A proof that failed changed the model. `NoSilentLoss` used to be an invariant
that excused a removed server only. Its proof did not go through where a mailbox
is forgotten by the late connect error of an older one, and TLC found the
behaviour once the queue of the run was long enough to hold two calls: the
condition is now `Forgetful`, of the server the call was at, and `PendingSize` 1
where it was 0. Other definitions say the same as before in a form that can be
reasoned about: `InOrderOnce` and `AnswersInOrder` by the order of positions, not
with a flattened or filtered sequence; `Lists` by ranks, not with `SelectSeq` and
`SortSeq`; the loops of `Search` and `WrrNext` as functions of a pair; the sums in
`Proportional` and in the bound `Arrived` as sizes of sets.

## 5. What is not modelled

* *Mail station*: a `handleError` that the user sets, which takes the place of
  the error event.
* *Failsafe*: no path of the dispatcher leads to it (failureProcess.js 5-34).
* *Routers*: the reset of the round robin index at `Number.MAX_VALUE`. *Random*
  is any server of the list.
* *Client*: the failure modes other than failfast, which `MailStation` has. The
  setters that pass their arguments on to the station.
* *Gateway*: a `listen` that fails; it is an 'error' event of the gateway.
* *Acceptors*: payloads that are no message (a mailbox sends none); a service
  that calls its callback more than once.
* *Bytes and logs*: JSON, the ids, arguments and replies in the coder's
  messages, the tracer's ids. The buffers in `util/buffer` are required by
  nothing: the coder takes those of bearcat-buffer.
* *blackhole mailbox*: nothing uses it. *Samples and benchmarks* (`src/sample`)
  are programs that use the library.

## 6. Plan

Done: every component of the library with control of its own is modelled, and
each model has its proofs. Left is a composed link, `MqttMailbox` over
`MqttAcceptor`, each the environment of the other: what a batch that is dropped
means for the callers.
