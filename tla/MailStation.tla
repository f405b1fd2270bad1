---------------------------- MODULE MailStation ----------------------------
(***************************************************************************)
(* The mail station of the rpc client (rpc-client/mailstation) with the    *)
(* failure processing that the client attaches to its 'error' event        *)
(* (rpc-client/failureProcess): which server has which mailbox, the calls  *)
(* that wait for a connection, and what becomes of a call that fails.      *)
(*                                                                         *)
(* JavaScript runs one event at a time to its end.  What is left to do of  *)
(* the running event is agenda, a stack of frames, and each frame is the   *)
(* body of one function of the source; the next event is taken when the    *)
(* agenda is empty.  User code may use the station between events and      *)
(* from the callback of a call, while an event is being handled.           *)
(*                                                                         *)
(* A mailbox is what its callers can see of it: whether it takes a call,   *)
(* that it answers a call it took, when it calls back connect, whom it     *)
(* calls back when its connection ends, and when it emits 'close'.  The    *)
(* kinds of mailbox differ in the options.                                 *)
(***************************************************************************)
EXTENDS Integers, Sequences, FiniteSets

CONSTANTS
  Servers,         \* server ids, all of one server type
  Calls,           \* the calls of the users, each made once
  NoCall,          \* stands for "no call"
  PendingSize,     \* opts.pendingSize
  Options,         \* the failure modes and kinds of mailbox of the instance
  MaxStarts,       \* bound: calls of start before its first tick
  MaxAdds,         \* bound: addServer calls that change something
  MaxLosses        \* bound: mailboxes that are removed, fail or break

ASSUME SetsAssumption == IsFiniteSet(Servers) /\ NoCall \notin Calls

ASSUME OptionsAssumption ==
  /\ PendingSize \in Nat /\ MaxStarts \in Nat
  /\ MaxAdds \in Nat /\ MaxLosses \in Nat
  \* opts.failMode; has a call a tracer (opts.rpcDebugLog, which tcp needs); are
  \* there filters, before and after, that answer later; and of the mailbox:
  \* does connect call back with an error (tcp), does close() lead to a 'close'
  \* event (tcp, ws), and does a lost connection call back every call the
  \* mailbox has (mqtt, mqtt2, ws)?
  /\ Options \subseteq [failMode : {"failfast", "failover", "failback"},
                        tracing : BOOLEAN, filters : BOOLEAN,
                        reportsFailure : BOOLEAN, echoesClose : BOOLEAN,
                        notifies : BOOLEAN]

VARIABLES
  options,      \* what the station was created with
  state,        \* "inited", "started" or "closed"
  ticks,        \* the nextTicks of start that are still to come
  graceTimers,  \* the 3 s timers of stop that are armed
  servers,      \* ids of the server infos the station knows
  onlines,      \* ids marked online
  serversMap,   \* the ids of the server type, in the order they were added
  boxes,        \* every mailbox ever created, in order
  mailboxes,    \* mailboxes[s]: index of the mailbox of s in boxes, or 0
  connecting,   \* ids marked connecting
  pendings,     \* pendings[s]: the calls waiting for s
  filtering,    \* <<c, s>>: call c to s is with the before filter
  returning,    \* <<c, s>>: the result of call c is with the after filter
  inflight,     \* <<m, c>>: mailbox m has taken call c and not answered it
  agenda,       \* the frames of the running event, the running one first
  inCallback,   \* user code is running inside the event
  crashed,      \* an exception was thrown that nothing catches
  cutBox,       \* the mailbox whose 'disconnect' listener is running, or 0
  cut,          \* the calls that listener has still to call back
  \* histories
  issued,       \* the calls that were made
  answers,      \* answers[c]: what the callback of c was called with
  sends,        \* sends[c]: how often a mailbox took c
  notified,     \* the calls that were called back by a 'disconnect' listener
  reported,     \* the calls an 'error' event was emitted for
  overflowed,   \* the calls dropped because the pending queue was full
  removed,      \* the servers removeServer was called for
  adds,         \* the number of addServer calls that changed something
  losses        \* the number of mailboxes lost

config  == <<options, state, ticks, graceTimers, servers, onlines>>
links   == <<boxes, mailboxes, connecting>>
waiting == <<pendings, filtering, returning, inflight>>
running == <<agenda, inCallback, crashed>>
loop    == <<cutBox, cut>>
history == <<issued, answers, sends, notified, reported, overflowed, removed,
             adds, losses>>
vars    == <<config, serversMap, links, waiting, running, loop, history>>

-----------------------------------------------------------------------------

Phases == {"dialing", "open", "failed", "closed"}

\* caller: the call whose dispatch created the mailbox; connectDue: its connect
\* callback is still to come; broken: its connect timer has fired, or (tcp) its
\* socket has failed before it was connected or after it was closed; listening:
\* the station listens to 'close'; echo: it has not emitted 'close' yet.
Box == [server : Servers, caller : Calls, phase : Phases, connectDue : BOOLEAN,
        broken : BOOLEAN, listening : BOOLEAN, echo : BOOLEAN]

NewBox(s, c) ==
  [server |-> s, caller |-> c, phase |-> "dialing", connectDue |-> TRUE,
   broken |-> FALSE, listening |-> FALSE, echo |-> TRUE]

Ops == {"dispatch", "pend", "send", "error", "connectError", "failure",
        "notice", "result", "flushed"}

Frame(op, c, s) == [op |-> op, call |-> c, server |-> s]
Frames == [op : Ops \ {"flushed"}, call : Calls, server : Servers]
            \union [op : {"flushed"}, call : {NoCall}, server : Servers]

TypeOK ==
  /\ options \in Options
  /\ state \in {"inited", "started", "closed"}
  /\ ticks \in 0 .. MaxStarts /\ graceTimers \in Nat
  /\ servers \subseteq Servers /\ onlines \subseteq Servers
  /\ serversMap \in Seq(Servers)
  /\ boxes \in Seq(Box)
  /\ mailboxes \in [Servers -> 0 .. Len(boxes)]
  /\ connecting \subseteq Servers
  /\ pendings \in [Servers -> Seq(Calls)]
  /\ \A s \in Servers : Len(pendings[s]) <= PendingSize + 1
  /\ filtering \subseteq Calls \X Servers
  /\ returning \subseteq Calls \X Servers
  /\ inflight \subseteq (1 .. Len(boxes)) \X Calls
  /\ agenda \in Seq(Frames)
  /\ inCallback \in BOOLEAN /\ crashed \in BOOLEAN
  /\ cutBox \in 0 .. Len(boxes) /\ cut \subseteq Calls
  /\ issued \subseteq Calls /\ notified \subseteq Calls /\ reported \subseteq Calls
  /\ overflowed \subseteq Calls /\ removed \subseteq Servers
  /\ answers \in [Calls -> Seq({"ok", "error"})]
  /\ sends \in [Calls -> Nat]
  /\ adds \in 0 .. MaxAdds /\ losses \in 0 .. MaxLosses

Init ==
  /\ options \in Options
  /\ state = "inited" /\ ticks = 0 /\ graceTimers = 0
  /\ servers = {} /\ onlines = {} /\ serversMap = <<>>
  /\ boxes = <<>> /\ mailboxes = [s \in Servers |-> 0] /\ connecting = {}
  /\ pendings = [s \in Servers |-> <<>>] /\ filtering = {} /\ returning = {}
  /\ inflight = {}
  /\ agenda = <<>> /\ inCallback = FALSE /\ crashed = FALSE
  /\ cutBox = 0 /\ cut = {}
  /\ issued = {} /\ notified = {} /\ reported = {} /\ overflowed = {} /\ removed = {}
  /\ answers = [c \in Calls |-> <<>>] /\ sends = [c \in Calls |-> 0]
  /\ adds = 0 /\ losses = 0

\* The event loop may take the next event.
Idle == ~crashed /\ agenda = <<>> /\ cutBox = 0

\* It takes what sockets and timers bring only after the ticks, which user code
\* may come between: the callback of a start is called in its tick.
Polls == Idle /\ ticks = 0

\* User code may call the station.
UserRuns == Idle \/ (~crashed /\ inCallback)

\* The frame that runs, and what remains after it.
Running(op) == ~crashed /\ agenda # <<>> /\ Head(agenda).op = op
Continue(frames) == agenda' = frames \o Tail(agenda)

-----------------------------------------------------------------------------
(* Starting and stopping.                                                  *)

\* Nothing tells a second start, before the tick of the first, from the first.
Start ==
  /\ UserRuns /\ state = "inited" /\ ticks < MaxStarts
  /\ ticks' = ticks + 1
  /\ UNCHANGED <<options, state, graceTimers, servers, onlines, serversMap,
                 links, waiting, running, loop, history>>

\* The tick does not look at the state: it reopens a station that was stopped.
StartTick ==
  /\ Idle /\ ticks > 0
  /\ ticks' = ticks - 1
  /\ state' = "started"
  /\ UNCHANGED <<options, graceTimers, servers, onlines, serversMap, links,
                 waiting, running, loop, history>>

CloseBoxes(closing) ==
  boxes' = [m \in DOMAIN boxes |->
              IF m \in closing THEN [boxes[m] EXCEPT !.phase = "closed"]
              ELSE boxes[m]]

CloseConnected ==  \* mutant: a mailbox that is still connecting is left alone
  CloseBoxes({mailboxes[s] : s \in Servers \ connecting} \ {0})

\* closeAll: the mailboxes are closed, and stay in the map.
CloseAll == CloseBoxes({mailboxes[s] : s \in Servers} \ {0})

Stop(force) ==
  /\ UserRuns /\ state = "started"
  /\ state' = "closed"
  /\ IF force THEN CloseAll /\ UNCHANGED graceTimers
              ELSE graceTimers' = graceTimers + 1 /\ UNCHANGED boxes
  /\ UNCHANGED <<options, ticks, servers, onlines, serversMap, mailboxes,
                 connecting, waiting, running, loop, history>>

\* Whether the station is still stopped or not.
GraceTimeout ==
  /\ Polls /\ graceTimers > 0
  /\ graceTimers' = graceTimers - 1
  /\ CloseAll
  /\ UNCHANGED <<options, state, ticks, servers, onlines, serversMap,
                 mailboxes, connecting, waiting, running, loop, history>>

-----------------------------------------------------------------------------
(* The server list.                                                        *)

InList(s) == \E i \in DOMAIN serversMap : serversMap[i] = s

\* Adding a server that is online and in the list changes nothing.
AddServer(s) ==
  /\ UserRuns
  /\ s \notin onlines \/ ~InList(s)
  /\ adds < MaxAdds
  /\ adds' = adds + 1
  /\ servers' = servers \union {s}
  /\ onlines' = onlines \union {s}
  /\ serversMap' = IF InList(s) THEN serversMap ELSE Append(serversMap, s)
  /\ UNCHANGED <<options, state, ticks, graceTimers, links, waiting, running,
                 loop, issued, answers, sends, notified, reported, overflowed,
                 removed, losses>>

\* Closing and forgetting the mailbox of s.
DropBoxWithoutClose(s) ==  \* mutant: no mailbox.close()
  mailboxes' = [mailboxes EXCEPT ![s] = 0] /\ UNCHANGED boxes
DropBox(s) ==
  mailboxes' = [mailboxes EXCEPT ![s] = 0] /\ CloseBoxes({mailboxes[s]})

\* The server's info, its place in serversMap, its pending calls and its
\* connecting mark all stay.
RemoveServer(s) ==
  /\ UserRuns
  /\ onlines' = onlines \ {s}
  /\ removed' = removed \union {s}
  /\ IF mailboxes[s] # 0
       THEN /\ losses < MaxLosses
            /\ losses' = losses + 1
            /\ DropBox(s)
       ELSE UNCHANGED <<losses, boxes, mailboxes>>
  /\ UNCHANGED <<options, state, ticks, graceTimers, servers, serversMap,
                 connecting, waiting, running, loop, issued, answers, sends,
                 notified, reported, overflowed, adds>>

-----------------------------------------------------------------------------
(* Dispatching a call.                                                     *)

\* A user makes call c to server s: rpcInvoke refuses it, with an error, unless
\* the client runs, which starts and stops in the same steps as the station.
Invoke(c, s) ==
  /\ UserRuns /\ c \notin issued
  /\ state = "started"
  /\ issued' = issued \union {c}
  /\ agenda' = <<Frame("dispatch", c, s)>> \o agenda
  /\ inCallback' = FALSE
  /\ UNCHANGED <<config, serversMap, links, waiting, crashed, loop, answers,
                 sends, notified, reported, overflowed, removed, adds, losses>>

\* lazyConnect on a server that is known and online.
CreateBox(s, c) ==
  /\ boxes' = Append(boxes, NewBox(s, c))
  /\ mailboxes' = [mailboxes EXCEPT ![s] = Len(boxes) + 1]
  /\ connecting' = connecting \union {s}

\* dispatch, up to the before filter.
Dispatch(c, s) ==
  \/ /\ state # "started"
     /\ Continue(<<Frame("error", c, s)>>)
     /\ UNCHANGED <<links, filtering>>
  \/ /\ state = "started" /\ mailboxes[s] = 0
     /\ IF s \in servers /\ s \in onlines
          THEN CreateBox(s, c) /\ Continue(<<Frame("pend", c, s)>>)
          ELSE /\ Continue(<<Frame("error", c, s), Frame("pend", c, s)>>)
               /\ UNCHANGED links
     /\ UNCHANGED filtering
  \/ /\ state = "started" /\ mailboxes[s] # 0 /\ s \in connecting
     /\ Continue(<<Frame("pend", c, s)>>)
     /\ UNCHANGED <<links, filtering>>
  \/ /\ state = "started" /\ mailboxes[s] # 0 /\ s \notin connecting
     /\ IF options.filters
          THEN Continue(<<>>) /\ filtering' = filtering \union {<<c, s>>}
          ELSE Continue(<<Frame("send", c, s)>>) /\ UNCHANGED filtering
     /\ UNCHANGED links

RunDispatch ==
  /\ Running("dispatch")
  /\ Dispatch(Head(agenda).call, Head(agenda).server)
  /\ inCallback' = FALSE
  /\ UNCHANGED <<config, serversMap, pendings, returning, inflight, crashed,
                 loop, history>>

\* The queue takes one call more than pendingSize.
PendingNeverFull(s) == FALSE  \* mutant: no check of pendingSize
PendingFull(s) == Len(pendings[s]) > PendingSize

\* addToPending
RunPend ==
  /\ Running("pend")
  /\ LET c == Head(agenda).call
         s == Head(agenda).server
     IN IF PendingFull(s)
          THEN overflowed' = overflowed \union {c} /\ UNCHANGED pendings
          ELSE /\ pendings' = [pendings EXCEPT ![s] = Append(@, c)]
               /\ UNCHANGED overflowed
  /\ Continue(<<>>)
  /\ inCallback' = FALSE
  /\ UNCHANGED <<config, serversMap, links, filtering, returning, inflight,
                 crashed, loop, issued, answers, sends, notified, reported,
                 removed, adds, losses>>

\* The before filter calls next: with a target of its own, or with an error.
FilterNext(c, s) ==
  /\ Idle /\ <<c, s>> \in filtering
  /\ filtering' = filtering \ {<<c, s>>}
  /\ \/ \E target \in Servers : agenda' = <<Frame("send", c, target)>>
     \/ agenda' = <<Frame("error", c, s)>>
  /\ inCallback' = FALSE
  /\ UNCHANGED <<config, serversMap, links, pendings, returning, inflight,
                 crashed, loop, history>>

\* The send function of dispatch: it looks the mailbox up again, after the
\* filter.  A mailbox that is not connected or closed refuses the call, and the
\* callback gets an error after the 'error' event was emitted.
RunSend ==
  /\ Running("send")
  /\ LET c == Head(agenda).call
         s == Head(agenda).server
         m == mailboxes[s]
     IN \/ /\ m = 0
           /\ Continue(<<Frame("error", c, s)>>)
           /\ UNCHANGED <<inflight, sends>>
        \/ /\ m # 0 /\ boxes[m].phase # "open"
           /\ Continue(<<Frame("error", c, s), Frame("failure", c, s)>>)
           /\ UNCHANGED <<inflight, sends>>
        \/ /\ m # 0 /\ boxes[m].phase = "open"
           /\ inflight' = inflight \union {<<m, c>>}
           /\ sends' = [sends EXCEPT ![c] = @ + 1]
           /\ Continue(<<>>)
  /\ inCallback' = FALSE
  /\ UNCHANGED <<config, serversMap, links, pendings, filtering, returning,
                 crashed, loop, issued, answers, notified, reported, overflowed,
                 removed, adds, losses>>

\* Mailbox m answers call c: with a result, which goes through the after filter
\* to the callback, or with an error (RpcCalls).
BoxAnswer(m, c) ==
  LET s == boxes[m].server IN
  /\ Polls /\ <<m, c>> \in inflight
  /\ inflight' = inflight \ {<<m, c>>}
  /\ \/ /\ options.filters
        /\ returning' = returning \union {<<c, s>>}
        /\ UNCHANGED agenda
     \/ /\ ~options.filters
        /\ agenda' = <<Frame("result", c, s)>>
        /\ UNCHANGED returning
     \/ /\ agenda' = <<Frame("error", c, s), Frame("failure", c, s)>>
        /\ UNCHANGED returning
  /\ inCallback' = FALSE
  /\ UNCHANGED <<config, serversMap, links, pendings, filtering, crashed,
                 loop, history>>

\* The after filter calls next: an error is reported, and the result passed on
\* all the same.
AfterNext(c, s) ==
  /\ Idle /\ <<c, s>> \in returning
  /\ returning' = returning \ {<<c, s>>}
  /\ \/ agenda' = <<Frame("result", c, s)>>
     \/ agenda' = <<Frame("error", c, s), Frame("result", c, s)>>
  /\ inCallback' = FALSE
  /\ UNCHANGED <<config, serversMap, links, pendings, filtering, inflight,
                 crashed, loop, history>>

\* Failover has dispatched call c again, or was about to.
Retried(c) == options.failMode = "failover" /\ c \in reported

\* The callback of call c is called.  Without a tracer failover dispatches the
\* call again with no callback: which of its copies this is is left open.
CallBack(c, outcome) ==
  \/ /\ answers' = [answers EXCEPT ![c] = Append(@, outcome)]
     /\ inCallback' = TRUE
  \/ /\ ~options.tracing /\ Retried(c)
     /\ inCallback' = FALSE
     /\ UNCHANGED answers

\* cb.apply(null, args)
RunResult ==
  /\ Running("result")
  /\ CallBack(Head(agenda).call, "ok")
  /\ Continue(<<>>)
  /\ UNCHANGED <<config, serversMap, links, waiting, crashed, loop, issued,
                 sends, notified, reported, overflowed, removed, adds, losses>>

\* cb(send_err)
RunFailure ==
  /\ Running("failure")
  /\ CallBack(Head(agenda).call, "error")
  /\ Continue(<<>>)
  /\ UNCHANGED <<config, serversMap, links, waiting, crashed, loop, issued,
                 sends, notified, reported, overflowed, removed, adds, losses>>

\* The same, of a call that the mailbox keeps.
RunNotice ==
  /\ Running("notice")
  /\ CallBack(Head(agenda).call, "error")
  /\ notified' = notified \union {Head(agenda).call}
  /\ Continue(<<>>)
  /\ UNCHANGED <<config, serversMap, links, waiting, crashed, loop, issued,
                 sends, reported, overflowed, removed, adds, losses>>

-----------------------------------------------------------------------------
(* Failure processing.  Without a tracer there is no callback to call.     *)

FailFastAlways(c) ==  \* mutant: the caller is told without a tracer too
  /\ answers' = [answers EXCEPT ![c] = Append(@, "error")]
  /\ inCallback' = TRUE
  /\ Continue(<<>>)
  /\ UNCHANGED <<serversMap, crashed>>

FailFast(c) ==
  /\ answers' = IF options.tracing
                  THEN [answers EXCEPT ![c] = Append(@, "error")]
                  ELSE answers
  /\ inCallback' = options.tracing
  /\ Continue(<<>>)
  /\ UNCHANGED <<serversMap, crashed>>

\* Reading a property of undefined, or calling null, in an event handler.
Crash ==
  /\ crashed' = TRUE
  /\ UNCHANGED <<agenda, inCallback, answers>>

Unspliced(s) == serversMap  \* mutant: the failed server stays in the list
Others(s) ==
  IF InList(s)
    THEN LET index == CHOOSE i \in DOMAIN serversMap : serversMap[i] = s
         IN SubSeq(serversMap, 1, index - 1)
              \o SubSeq(serversMap, index + 1, Len(serversMap))
    ELSE serversMap

\* Failover takes the server out of the station's own list, and dispatches to
\* the first of the others.
FailOver(c, s) ==
  LET others == Others(s) IN
  \/ /\ servers = {}  \* there is no list of the server type
     /\ Crash /\ UNCHANGED serversMap
  \/ /\ servers # {} /\ others # <<>>
     /\ serversMap' = others
     /\ Continue(<<Frame("dispatch", c, Head(others))>>)
     /\ inCallback' = FALSE
     /\ UNCHANGED <<crashed, answers>>
  \/ /\ servers # {} /\ others = <<>>
     /\ serversMap' = others
     /\ IF options.tracing
          THEN /\ answers' = [answers EXCEPT ![c] = Append(@, "error")]
               /\ inCallback' = TRUE
               /\ Continue(<<>>)
               /\ UNCHANGED crashed
          ELSE Crash

FailBack ==
  /\ Continue(<<>>)
  /\ inCallback' = FALSE
  /\ UNCHANGED <<serversMap, crashed, answers>>

\* The 'error' event of a call.
RunError ==
  /\ Running("error")
  /\ LET c == Head(agenda).call
         s == Head(agenda).server
     IN /\ reported' = reported \union {c}
        /\ CASE options.failMode = "failfast" -> FailFast(c)
             [] options.failMode = "failover" -> FailOver(c, s)
             [] options.failMode = "failback" -> FailBack
  /\ UNCHANGED <<config, links, waiting, loop, issued, sends, notified,
                 overflowed, removed, adds, losses>>

\* The 'error' event of a failed connect: its message is null, and failover
\* reads the server type of the message.
RunConnectError ==
  /\ Running("connectError")
  /\ LET c == Head(agenda).call
     IN /\ reported' = reported \union {c}
        /\ CASE options.failMode = "failfast" -> FailFast(c)
             [] options.failMode = "failover" -> Crash /\ UNCHANGED serversMap
             [] options.failMode = "failback" -> FailBack
  /\ UNCHANGED <<config, links, waiting, loop, issued, sends, notified,
                 overflowed, removed, adds, losses>>

-----------------------------------------------------------------------------
(* What the mailboxes do to the station.                                   *)

\* flushPending dispatches what is pending now, then deletes the queue.
DispatchesButLast(s) ==  \* mutant: the loop ends one call early
  [i \in 1 .. Len(pendings[s]) - 1 |-> Frame("dispatch", pendings[s][i], s)]
Dispatches(s) ==
  [i \in 1 .. Len(pendings[s]) |-> Frame("dispatch", pendings[s][i], s)]

FlushPending(s) ==
  IF pendings[s] = <<>> THEN <<>>
  ELSE Dispatches(s) \o <<Frame("flushed", NoCall, s)>>

\* The connect callback: also of a mailbox that was closed or replaced since.
ConnectDone(m) ==
  LET s == boxes[m].server IN
  /\ Polls /\ boxes[m].connectDue /\ boxes[m].phase \in {"dialing", "closed"}
  /\ boxes' = [boxes EXCEPT ![m].connectDue = FALSE, ![m].listening = TRUE,
                 ![m].phase = IF @ = "dialing" THEN "open" ELSE @]
  /\ connecting' = connecting \ {s}
  /\ agenda' = FlushPending(s)
  /\ inCallback' = FALSE
  /\ UNCHANGED <<config, serversMap, mailboxes, waiting, crashed, loop,
                 history>>

FlushedKeepsQueue ==  \* mutant: the queue is not deleted
  /\ Running("flushed")
  /\ Continue(<<>>)
  /\ inCallback' = FALSE
  /\ UNCHANGED <<config, serversMap, links, waiting, crashed, loop, history>>

\* delete station.pendings[serverId]
RunFlushed ==
  /\ Running("flushed")
  /\ pendings' = [pendings EXCEPT ![Head(agenda).server] = <<>>]
  /\ Continue(<<>>)
  /\ inCallback' = FALSE
  /\ UNCHANGED <<config, serversMap, links, filtering, returning, inflight,
                 crashed, loop, history>>

\* The connect timer of a mailbox that does not report its failures: it emits
\* 'close', and the station does not listen yet.
ConnectTimeout(m) ==
  /\ Polls /\ ~options.reportsFailure
  /\ boxes[m].connectDue /\ ~boxes[m].broken
  /\ boxes' = [boxes EXCEPT ![m].broken = TRUE]
  /\ UNCHANGED <<config, serversMap, mailboxes, connecting, waiting, running,
                 loop, history>>

\* connect calls back with an error: while dialing, or (tcp) on a closed
\* mailbox.  The station forgets the mailbox its server has now, but not that
\* the server is connecting.
ConnectFail(m) ==
  LET s == boxes[m].server IN
  /\ Polls /\ options.reportsFailure
  /\ boxes[m].phase \in {"dialing", "closed"} /\ ~boxes[m].broken
  /\ losses < MaxLosses
  /\ losses' = losses + 1
  /\ boxes' = [boxes EXCEPT ![m].connectDue = FALSE, ![m].broken = TRUE,
                 ![m].phase = IF @ = "dialing" THEN "failed" ELSE @]
  /\ mailboxes' = [mailboxes EXCEPT ![s] = 0]
  /\ agenda' = <<Frame("connectError", boxes[m].caller, s)>>
  /\ inCallback' = FALSE
  /\ UNCHANGED <<config, serversMap, connecting, waiting, crashed, loop, issued,
                 answers, sends, notified, reported, overflowed, removed, adds>>

\* The connection of mailbox m breaks, or ends because of its close().  The
\* socket is destroyed with the mailbox, so that it does so once.
Ends(m) ==
  /\ boxes[m].listening /\ boxes[m].echo
  /\ \/ boxes[m].phase = "open" /\ losses < MaxLosses /\ losses' = losses + 1
     \/ boxes[m].phase = "closed" /\ options.echoesClose /\ UNCHANGED losses

\* Mailbox m emits 'close': the station closes and forgets whatever mailbox the
\* server has now.
EmitClose(m) ==
  LET s == boxes[m].server
      closing == {mailboxes[s]} \ {0}
  IN
  /\ boxes' = [n \in DOMAIN boxes |->
                 [boxes[n] EXCEPT
                    !.phase = IF n \in closing THEN "closed" ELSE @,
                    !.echo = IF n = m THEN FALSE ELSE @]]
  /\ mailboxes' = [mailboxes EXCEPT ![s] = 0]

\* An end that the calls of the mailbox are not told of: a socket error, the
\* keepalive, or tcp.
CloseEvent(m) ==
  /\ Polls /\ Ends(m) /\ EmitClose(m)
  /\ UNCHANGED <<config, serversMap, connecting, waiting, running, loop, issued,
                 answers, sends, notified, reported, overflowed, removed, adds>>

\* The 'disconnect' listener of mailbox m calls back every call that the mailbox
\* has, as of a request that failed, and keeps them all: their replies or
\* timers will call them back again.
Disconnect(m) ==
  /\ Polls /\ options.notifies /\ Ends(m)
  /\ cutBox' = m
  /\ cut' = {c \in Calls : <<m, c>> \in inflight}
  /\ inCallback' = FALSE
  /\ UNCHANGED <<config, serversMap, links, waiting, agenda, crashed, issued,
                 answers, sends, notified, reported, overflowed, removed, adds>>

\* The next call of the loop, when the callback of the last has returned.
RunCutCall ==
  /\ ~crashed /\ agenda = <<>> /\ cutBox # 0
  /\ \E c \in cut :
       LET s == boxes[cutBox].server IN
       /\ cut' = cut \ {c}
       /\ agenda' = <<Frame("error", c, s), Frame("notice", c, s)>>
  /\ inCallback' = FALSE
  /\ UNCHANGED <<config, serversMap, links, waiting, crashed, cutBox, history>>

\* After the loop the mailbox emits 'close', also when a callback has removed it
\* from the station or has closed it.
RunCutEnd ==
  /\ ~crashed /\ agenda = <<>> /\ cutBox # 0 /\ cut = {}
  /\ EmitClose(cutBox)
  /\ cutBox' = 0
  /\ inCallback' = FALSE
  /\ UNCHANGED <<config, serversMap, connecting, waiting, agenda, crashed, cut,
                 history>>

-----------------------------------------------------------------------------

Run == \/ RunDispatch \/ RunPend \/ RunSend \/ RunResult \/ RunFailure
       \/ RunNotice \/ RunError \/ RunConnectError \/ RunFlushed
       \/ RunCutCall \/ RunCutEnd

Next ==
  \/ Start \/ StartTick \/ GraceTimeout
  \/ \E force \in BOOLEAN : Stop(force)
  \/ \E s \in Servers : AddServer(s) \/ RemoveServer(s)
  \/ \E c \in Calls, s \in Servers :
       Invoke(c, s) \/ FilterNext(c, s) \/ AfterNext(c, s)
  \/ \E m \in DOMAIN boxes : \/ ConnectDone(m) \/ ConnectTimeout(m)
                             \/ ConnectFail(m) \/ CloseEvent(m)
                             \/ Disconnect(m)
                             \/ \E c \in Calls : BoxAnswer(m, c)
  \/ Run

Spec == Init /\ [][Next]_vars

(***************************************************************************)
(* An event runs to its end, so does a tick, and a mailbox answers the     *)
(* calls it took (MqttMailbox proves and checks that).  Strong fairness,   *)
(* because running another event disables them.  Nothing is assumed of     *)
(* users, filters or servers.                                              *)
(***************************************************************************)
Fairness ==
  /\ WF_vars(Run)
  /\ SF_vars(\E m \in DOMAIN boxes, c \in Calls : BoxAnswer(m, c))
  /\ SF_vars(StartTick)

\* An expired timer runs whatever else happens.
FairSpec ==
  /\ Spec /\ Fairness /\ SF_vars(GraceTimeout)
  /\ SF_vars(\E m \in DOMAIN boxes : ConnectTimeout(m))

\* Every server accepts a connection sooner or later; the timers are not needed.
ReachableSpec ==
  /\ Spec /\ Fairness
  /\ SF_vars(\E m \in DOMAIN boxes : ConnectDone(m))

-----------------------------------------------------------------------------
(* Safety.                                                                 *)

\* The failure processing calls nobody back.
Silent == ~options.tracing \/ options.failMode = "failback"

\* A callback is called at most once, and once more at the disconnect of its
\* mailbox: although a refused call both emits an 'error' event and calls back
\* (lines 256-261), a call may be reported as failed and stay in the pending
\* queue (lines 224-230), and a mailbox may end several times over, by
\* itself, by close() and from its own callbacks.  With a tracer failfast and
\* failover call back as well, and failover dispatches the call again.
OneAnswer ==
  Silent => \A c \in Calls :
              \/ Len(answers[c]) <= (IF c \in notified THEN 2 ELSE 1)
              \/ Retried(c)

\* A call is handed to a mailbox at most once: a flush of the pending queue and
\* a later one never both send it (lines 421-436).
SentOnce == \A c \in Calls : sends[c] <= 1 \/ Retried(c)

\* A closed mailbox of the same server, older than m, has called back connect
\* with an error: the station has then forgotten m, without closing it.
Orphaned(m) ==
  \E n \in 1 .. m - 1 : /\ boxes[n].server = boxes[m].server
                       /\ boxes[n].broken /\ boxes[n].phase = "closed"
                       /\ options.reportsFailure

\* Call c is at server s, on its way to a mailbox, in one, or back.
WaitingAt(c, s) ==
  \/ \E i \in DOMAIN pendings[s] : pendings[s][i] = c
  \/ <<c, s>> \in filtering \union returning
  \/ \E m \in DOMAIN boxes : <<m, c>> \in inflight /\ boxes[m].server = s
  \/ \E i \in DOMAIN agenda : agenda[i].call = c /\ agenda[i].server = s
Waiting(c) == \E s \in Servers : WaitingAt(c, s)

\* The station may have forgotten a mailbox of s that is still connecting.
Forgetful(s) ==
  s \in removed \/ \E m \in DOMAIN boxes : boxes[m].server = s /\ Orphaned(m)

\* A call that is nowhere any more, and was at server s, has got an answer or an
\* 'error' event.  It gets neither only because a pending queue was full, or
\* because the station had forgotten a mailbox of s while it connected, by
\* removeServer or the late error of an older one: then its connect callback
\* flushes the queue while there is no mailbox, each dispatch creates one or
\* puts its call back into the queue, and the queue is deleted (lines 428-435).
NoSilentLoss ==
  [][\A c \in Calls, s \in Servers :
       WaitingAt(c, s) /\ ~Waiting(c)' =>
         \/ answers'[c] # <<>> \/ c \in reported' \/ c \in overflowed'
         \/ Forgetful(s)']_vars

\* A connection that is open or being opened is in the map: removing, failing,
\* closing and late callbacks leave no connection that stop cannot close.  The
\* late error of a connect is the one exception (lines 329-331).
NoLeakedConnection ==
  \A m \in DOMAIN boxes :
    boxes[m].phase \in {"dialing", "open"}
      => mailboxes[boxes[m].server] = m \/ Orphaned(m)

\* The end of a mailbox that is open closes no other one, although the listener
\* finds the mailbox by the id of the server (lines 335-342).  The event of one
\* that is closed before may close the next: the echo of its close(), or the
\* end of its disconnect loop in which a callback has removed it.  Mailboxes
\* whose connect may fail late are the other exception.
ClosesOwnBox ==
  [][~options.reportsFailure =>
       \A m, n \in DOMAIN boxes :
         (m # n /\ boxes[n].phase = "open" /\ boxes[n].echo /\ ~boxes'[n].echo)
           => boxes'[m].phase = boxes[m].phase]_vars

\* A stopped station stays stopped but for the tick of another start, and while
\* it is stopped no mailbox is created, and after the grace time none is open:
\* neither calls still with a filter nor late callbacks bring one back.
StoppedStaysClosed ==
  [][state = "closed" =>
       /\ state' = "closed" \/ ticks > 0
       /\ Len(boxes') = Len(boxes)
       /\ graceTimers = 0 => \A m \in DOMAIN boxes :
                               \/ boxes'[m].phase \in {"failed", "closed"}
                               \/ Orphaned(m)]_vars

-----------------------------------------------------------------------------
(* Liveness.                                                               *)

\* Every event ends: failing over does not dispatch for ever.
EventsEnd == []<>(Idle \/ crashed)

\* While the servers can be reached and none is removed, each call is answered
\* or reported by an 'error' event, or dropped from a full queue.
CallsSettle ==
  [](removed = {}) =>
    \A c \in Calls :
      c \in issued ~> answers[c] # <<>> \/ c \in reported \/ c \in overflowed

-----------------------------------------------------------------------------
(* What the repository says and the code does not do.                      *)

\* "should emit error info and forward message to blackhole if fail to connect
\* to remote server in lazy connect mode" (test/rpc-client/mailstation.js:213).
ConnectFailureReported ==
  \A c \in Calls :
    (\E m \in DOMAIN boxes : boxes[m].broken /\ boxes[m].caller = c)
      ~> answers[c] # <<>> \/ c \in reported \/ state = "closed"

\* "Failover rpc failure process. This will try other servers with option
\* retries." (lib/rpc-client/failureProcess.js:37): it does not break down while
\* there is another server to try.
FailoverTriesOthers == crashed => Len(serversMap) < 2
=============================================================================
