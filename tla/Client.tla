------------------------------- MODULE Client -------------------------------
(***************************************************************************)
(* The rpc client (rpc-client/client, util/proxy) and the services it      *)
(* calls (rpc-server/server, gateway, dispatcher), end to end: from a      *)
(* proxy to the method that runs, and back to the callback of the user.    *)
(*                                                                         *)
(* Between them is the station with its mailboxes, of which this module    *)
(* knows what the others check: a call is sent at most once, and answered, *)
(* perhaps with an error although it was or will be served, and after the  *)
(* error of a disconnect once again.  Over ws2 a connection that breaks    *)
(* answers its calls without an error, and timers answer nobody.           *)
(*                                                                         *)
(* Which server a call is routed to is chosen in Routing, or by a router   *)
(* of the user, which may take its time.  The fail mode is failfast.       *)
(***************************************************************************)
EXTENDS Services

CONSTANTS
  Servers,    \* the servers of the type that is called
  Calls,      \* bound: the calls
  Paths,      \* the paths of the services, in their order
  Code,       \* Code[p]: the methods in path p when a server is created
  NewCode,    \* NewCode[p]: after the files in path p have changed
  Mailboxes,  \* the values of mailbox
  Tracing,    \* the values of traced
  MaxStarts,  \* bound: calls of start
  MaxNotices, \* bound: errors of calls that the station still waits for
  MaxReloads  \* bound: files that change

ASSUME ClientAssumption ==
  /\ Mailboxes \subseteq {"mqtt", "mqtt2", "ws", "ws2"} /\ Tracing \subseteq BOOLEAN
  /\ MaxStarts \in Nat /\ MaxNotices \in Nat /\ MaxReloads \in Nat
  /\ DOMAIN Code = Range(Paths) /\ DOMAIN NewCode = Range(Paths)

VARIABLES
  \* the client
  state,      \* of the client and of its station: they change together
  starts,     \* how often start was called
  ticks,      \* starts that wait for their next tick
  listeners,  \* how often failureProcess listens to the station
  proxies,    \* the methods the client has proxies for
  traced,     \* rpcDebugLog: calls have a tracer, with their callback
  \* the calls
  made,       \* made[c]: the method, and the servers if it is a broadcast
  routing,    \* calls that wait for their router
  sent,       \* sent[c]: the servers that were sent call c and did not serve it
  pending,    \* pending[c]: the servers whose answer the station waits for
  told,       \* told[c]: what the callback of call c was called with
  \* async.each
  nexts,      \* nexts[c]: the servers whose next was called
  \* the servers
  mailbox,    \* the transport of mailboxes and acceptors
  services,   \* services[s]: the services the dispatcher of s knows
  replies,    \* replies[c]: replies on their way, [from, error]
  \* bounds and histories
  notices, reloads,
  ran,        \* ran[c]: what call c has run, [on, method]
  cut         \* cut[c]: the servers whose ws2 mailbox was cut off in call c

client == <<state, starts, ticks, listeners, proxies, traced>>
calls  == <<made, routing, sent, pending>>
remote == <<mailbox, services, replies, reloads, ran, cut>>
vars   == <<client, calls, told, nexts, remote, notices>>

-----------------------------------------------------------------------------

Created == LoadRemoteServices(Paths, Code)
AllCode == UNION {Code[p] \union NewCode[p] : p \in Range(Paths)}

ASSUME CodeAssumption ==
  /\ Paths \in Seq(Range(Paths))
  /\ IsFiniteSet(AllCode)
  /\ \A m \in AllCode : m = <<m[1], m[2], m[3]>>

ASSUME NoMethodAssumption == NoMethod \notin AllCode

NotMade == [method |-> NoMethod, servers |-> {}, broadcast |-> FALSE]

TypeOK ==
  /\ state \in {"inited", "started", "closed"}
  /\ starts \in 0 .. MaxStarts
  /\ ticks + listeners = starts
  /\ proxies \subseteq AllCode
  /\ \A c \in Calls :
       /\ made[c].method \in AllCode \union {NoMethod}
       /\ sent[c] \union pending[c] \union nexts[c] \subseteq Servers
       /\ \A x \in replies[c] : x.from \in Servers \ sent[c]
       /\ Range(told[c]) \subseteq {"ok", "error"}
  /\ routing \subseteq {c \in Calls : made[c] # NotMade}
  /\ mailbox \in Mailboxes
  /\ \A s \in Servers : services[s] \subseteq AllCode

Init ==
  /\ state = "inited" /\ starts = 0 /\ ticks = 0 /\ listeners = 0
  /\ proxies = {} /\ traced \in Tracing
  /\ made = [c \in Calls |-> NotMade] /\ routing = {}
  /\ sent = [c \in Calls |-> {}] /\ pending = [c \in Calls |-> {}]
  /\ told = [c \in Calls |-> <<>>]
  /\ nexts = [c \in Calls |-> {}]
  /\ mailbox \in Mailboxes
  /\ services = [s \in Servers |-> Created]
  /\ replies = [c \in Calls |-> {}]
  /\ notices = 0 /\ reloads = 0
  /\ ran = [c \in Calls |-> {}] /\ cut = [c \in Calls |-> {}]

-----------------------------------------------------------------------------
(* Start and stop.                                                         *)

\* start, also before the tick of another start: later it is refused.
Start ==
  /\ state = "inited" /\ starts < MaxStarts
  /\ starts' = starts + 1 /\ ticks' = ticks + 1
  /\ UNCHANGED <<state, listeners, proxies, traced, calls, told, nexts, remote,
                 notices>>

\* The tick of the station looks at nothing, and the client follows.
Tick ==
  /\ ticks > 0
  /\ ticks' = ticks - 1
  /\ state' = "started"
  /\ listeners' = listeners + 1
  /\ UNCHANGED <<starts, proxies, traced, calls, told, nexts, remote, notices>>

Stop ==
  /\ state = "started"
  /\ state' = "closed"
  /\ UNCHANGED <<starts, ticks, listeners, proxies, traced, calls, told, nexts,
                 remote, notices>>

-----------------------------------------------------------------------------
(* Proxies.                                                                *)

\* insertProxy: the services of the path take the place of those of the same
\* namespace and name.
InsertProxy(added) ==
  LET loaded == {ServiceOf(m) : m \in added} IN
    proxies' = {m \in proxies : ServiceOf(m) \notin loaded} \union added

\* addProxy for one path: a proxy for each function of its services
\* (Proxy.create).
AddProxy(code) ==
  /\ \E c \in Calls : made[c] = NotMade  \* bound: proxies are for calls to come
  /\ InsertProxy(code)
  /\ UNCHANGED <<state, starts, ticks, listeners, traced, calls, told, nexts,
                 remote, notices>>

\* The callback of the user.
Tell(c, outcome) == told' = [told EXCEPT ![c] = Append(@, outcome)]

\* The calls of rpcInvoke for each of the servers.
RpcInvokeNoReturn(c, targets) ==  \* mutant: dispatched all the same
  /\ sent' = [sent EXCEPT ![c] = targets]
  /\ pending' = [pending EXCEPT ![c] = targets]
  /\ IF state = "started" THEN UNCHANGED told ELSE Tell(c, "error")

RpcInvoke(c, targets) ==
  IF state = "started"
    THEN /\ sent' = [sent EXCEPT ![c] = targets]
         /\ pending' = [pending EXCEPT ![c] = targets]
         /\ UNCHANGED told
    ELSE Tell(c, "error") /\ UNCHANGED <<sent, pending>>

\* A proxy is called (proxyCB).  While the client is not running, or without
\* a route parameter and a callback, it does nothing.
MayCall(c, m) == state = "started" /\ made[c] = NotMade /\ m \in proxies

MakeCall(c, m, targets, broadcast) ==
  made' = [made EXCEPT ![c] = [method |-> m, servers |-> targets,
                               broadcast |-> broadcast]]

\* ... with a route parameter: the router will choose the server.
CallRouted(c, m) ==
  /\ MayCall(c, m)
  /\ MakeCall(c, m, {}, FALSE)
  /\ routing' = routing \union {c}
  /\ UNCHANGED <<client, sent, pending, told, nexts, remote, notices>>

\* ... toServer, with the id of a server.
CallServer(c, m, s) ==
  /\ MayCall(c, m)
  /\ MakeCall(c, m, {s}, FALSE)
  /\ RpcInvoke(c, {s})
  /\ UNCHANGED <<client, routing, nexts, remote, notices>>

\* rpcInvoke is called without a proxy.
CallDirect(c, m, s) ==
  /\ made[c] = NotMade
  /\ MakeCall(c, m, {s}, FALSE)
  /\ RpcInvoke(c, {s})
  /\ UNCHANGED <<client, routing, nexts, remote, notices>>

\* ... toServer('*'): async.each calls back at once if there is no server.
CallAll(c, m, targets) ==
  /\ MayCall(c, m)
  /\ MakeCall(c, m, targets, TRUE)
  /\ IF targets = {} THEN Tell(c, "ok") /\ UNCHANGED <<sent, pending>>
     ELSE RpcInvoke(c, targets)
  /\ UNCHANGED <<client, routing, nexts, remote, notices>>

\* The router calls back: the client may have been stopped.
Routed(c, s) ==
  /\ c \in routing
  /\ routing' = routing \ {c}
  /\ made' = [made EXCEPT ![c].servers = {s}]
  /\ RpcInvoke(c, {s})
  /\ UNCHANGED <<client, nexts, remote, notices>>

RouteFailed(c) ==
  /\ c \in routing
  /\ routing' = routing \ {c}
  /\ Tell(c, "error")
  /\ UNCHANGED <<client, made, sent, pending, nexts, remote, notices>>

-----------------------------------------------------------------------------
(* Answers.                                                                *)

\* The next of async.each for server s is called n times: the callback is
\* called with the first error, or when the last server's is called without
\* one; a server's second call throws.
NextOnceEach(c, s, outcome, n) ==  \* mutant: done with the first answer
  /\ nexts' = [nexts EXCEPT ![c] = @ \union {s}]
  /\ IF told[c] = <<>> THEN Tell(c, outcome) ELSE UNCHANGED told
NextEveryTime(c, s, outcome, n) ==  \* mutant: each error is passed on
  /\ nexts' = [nexts EXCEPT ![c] = @ \union {s}]
  /\ IF outcome = "error" \/ nexts[c] \union {s} = made[c].servers
       THEN Tell(c, outcome) ELSE UNCHANGED told
NextOf(c, s, outcome, n) ==
  IF n = 0 \/ s \in nexts[c]
    THEN UNCHANGED <<nexts, told>>
    ELSE /\ nexts' = [nexts EXCEPT ![c] = @ \union {s}]
         /\ IF told[c] = <<>> /\ (outcome = "error" \/ nexts'[c] = made[c].servers)
              THEN Tell(c, outcome) ELSE UNCHANGED told

\* The callback the station was given is called n times.
CallBack(c, s, outcome, n) ==
  IF made[c].broadcast THEN NextOf(c, s, outcome, n)
  ELSE /\ told' = [told EXCEPT ![c] = @ \o [i \in 1 .. n |-> outcome]]
       /\ UNCHANGED nexts

\* How often an error event of the station calls the callback (failfast).
Reports == IF traced THEN listeners ELSE 0

\* The reply of the server.
Reply(c, x) ==
  /\ x \in replies[c]
  /\ replies' = [replies EXCEPT ![c] = @ \ {x}]
  /\ IF x.from \in pending[c]
       THEN /\ pending' = [pending EXCEPT ![c] = @ \ {x.from}]
            /\ CallBack(c, x.from, IF x.error THEN "error" ELSE "ok", 1)
       ELSE UNCHANGED <<pending, told, nexts>>
  /\ UNCHANGED <<client, made, routing, sent, mailbox, services, reloads, ran, cut,
                 notices>>

\* The call times out: the station emits an error event and calls back as well,
\* but the timer of ws2 only deletes the request.
Timeout(c, s) ==
  /\ s \in pending[c]
  /\ pending' = [pending EXCEPT ![c] = @ \ {s}]
  /\ IF mailbox = "ws2" THEN UNCHANGED <<told, nexts>>
                         ELSE CallBack(c, s, "error", Reports + 1)
  /\ UNCHANGED <<client, made, routing, sent, remote, notices>>

\* The mailbox refuses the call.
Refuse(c, s) ==
  /\ s \in sent[c] \cap pending[c]
  /\ pending' = [pending EXCEPT ![c] = @ \ {s}]
  /\ CallBack(c, s, "error", Reports + 1)
  /\ sent' = [sent EXCEPT ![c] = @ \ {s}]
  /\ UNCHANGED <<client, made, routing, remote, notices>>

\* The connect fails or the server is unknown: an error event, and the station
\* still waits.
Notice(c, s) ==
  /\ s \in pending[c] /\ notices < MaxNotices
  /\ notices' = notices + 1
  /\ CallBack(c, s, "error", Reports)
  /\ UNCHANGED <<client, calls, remote>>

\* The mailbox is cut off: an error event and a call back, and the reply or the
\* timer will call back once more.
CutOff(c, s) ==
  /\ mailbox # "ws2" /\ s \in pending[c] /\ notices < MaxNotices
  /\ notices' = notices + 1
  /\ CallBack(c, s, "error", Reports + 1)
  /\ UNCHANGED <<client, calls, remote>>

\* A ws2 mailbox passes the error where the tracer belongs: the station sees a
\* call without an error, and the mailbox is done with it.
CutOffWs2(c, s) ==
  /\ mailbox = "ws2" /\ s \in pending[c]
  /\ pending' = [pending EXCEPT ![c] = @ \ {s}]
  /\ cut' = [cut EXCEPT ![c] = @ \union {s}]
  /\ CallBack(c, s, "ok", 1)
  /\ UNCHANGED <<client, made, routing, sent, mailbox, services, replies, reloads,
                 ran, notices>>

-----------------------------------------------------------------------------
(* The servers.                                                            *)

\* The map of services of acceptor and client: of the services the server was
\* created with.
ServicesMap == GenServicesMap(Created)

\* The messages are coded by the map of the services.
coded == mailbox = "mqtt2"

\* What the dispatcher is handed of a call of method m.
Received(m) ==
  IF coded THEN DecodeServer(EncodeClient(m, ServicesMap), ServicesMap) ELSE m

\* The answer to call c: the result of the method that runs, or an error.
Answered(c, s) ==
  LET method == Route(services[s], Received(made[c].method)) IN
    /\ ran' = [ran EXCEPT ![c] = @ \union {[on |-> s, method |-> method]}]
    /\ \E error \in BOOLEAN :
         /\ method = NoMethod => error
         /\ replies' = [replies EXCEPT ![c] =
                           @ \union {[from |-> s, error |-> error]}]
    /\ UNCHANGED <<client, made, routing, pending, told, nexts, mailbox, services,
                   reloads, cut, notices>>

ServeAndKeep(c, s) ==  \* mutant: the request stays, to be served again
  s \in sent[c] /\ UNCHANGED sent /\ Answered(c, s)

\* A request arrives.
Serve(c, s) ==
  /\ s \in sent[c]
  /\ sent' = [sent EXCEPT ![c] = @ \ {s}]
  /\ Answered(c, s)

\* A request is lost on its way.
Lose(c, s) ==
  /\ s \in sent[c]
  /\ sent' = [sent EXCEPT ![c] = @ \ {s}]
  /\ UNCHANGED <<client, made, routing, pending, told, nexts, remote, notices>>

\* watchServices: the new code of the path that changed is all that is left.
Reload(s, p) ==
  /\ reloads < MaxReloads /\ reloads' = reloads + 1
  /\ services' = [services EXCEPT ![s] = LoadRemoteServices(<<p>>, NewCode)]
  /\ UNCHANGED <<client, calls, told, nexts, mailbox, replies, ran, cut, notices>>

-----------------------------------------------------------------------------

Call(c) ==
  \/ \E m \in AllCode :
       \/ CallRouted(c, m)
       \/ \E s \in Servers : CallServer(c, m, s) \/ CallDirect(c, m, s)
       \/ \E targets \in SUBSET Servers : CallAll(c, m, targets)
  \/ RouteFailed(c)
  \/ \E s \in Servers : Routed(c, s)

Answer(c) ==
  \/ \E x \in replies[c] : Reply(c, x)
  \/ \E s \in Servers : \/ Timeout(c, s) \/ Refuse(c, s)
                       \/ Notice(c, s) \/ CutOff(c, s) \/ CutOffWs2(c, s)

Remote ==
  \/ \E c \in Calls, s \in Servers : Serve(c, s) \/ Lose(c, s)
  \/ \E s \in Servers, p \in Range(Paths) : Reload(s, p)

Next ==
  \/ Start \/ Tick \/ Stop
  \/ \E p \in Range(Paths) : AddProxy(Code[p]) \/ AddProxy(NewCode[p])
  \/ \E c \in Calls : Call(c) \/ Answer(c)
  \/ Remote

Spec == Init /\ [][Next]_vars

-----------------------------------------------------------------------------
(* Properties.                                                             *)

\* A server runs the method that was called or none, also while the client and
\* the dispatcher know other services than the map of names was made of; a
\* method that the map does not know may run another one.
RunsCalledMethod ==
  \A c \in Calls : (coded => made[c].method \in Created) =>
    \A x \in ran[c] : x.method \in {made[c].method, NoMethod}

\* The user is told "ok" only if each server of the call ran a method, but for
\* the servers whose connection broke meanwhile: over ws2 the user is called
\* back for them without an error (ws2-mailbox.js:97), in all others with one.
OkMeansServed ==
  \A c \in Calls : "ok" \in Range(told[c]) =>
    \A s \in made[c].servers :
      \/ \E x \in ran[c] : x.on = s /\ x.method # NoMethod
      \/ mailbox = "ws2" /\ s \in cut[c]

\* The callback of a broadcast is called once, whatever fails how often; that
\* of another call once for its answer and for each notice, and with a tracer
\* once more for each listener, of which a second start adds one.
AnsweredOnce ==
  \A c \in Calls :
    Len(told[c]) <= IF made[c].broadcast THEN 1 ELSE (1 + notices) * (1 + Reports)

\* A client that was stopped, with no start under way, stays closed and sends
\* nothing, whatever routers call back later.
StoppedIsQuiet ==
  [][state = "closed" /\ ticks = 0 =>
       state' = "closed" /\ \A c \in Calls : sent'[c] \subseteq sent[c]]_vars
=============================================================================
