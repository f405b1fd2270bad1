---------------------------- MODULE Client_proofs ----------------------------
(***************************************************************************)
(* Theorems about Client, for every value of its constants: a client that  *)
(* was stopped sends nothing, a callback is told of a success only if the  *)
(* servers of the call ran it (over ws2: or were cut off), callbacks are   *)
(* called a bounded number of times, and a server runs the method that was *)
(* called or none.                                                         *)
(***************************************************************************)
EXTENDS Client, SequenceTheorems, FiniteSetTheorems, TLAPS

-----------------------------------------------------------------------------
(* The inductive invariant.                                                *)

CallType == [method : AllCode \union {NoMethod}, servers : SUBSET Servers,
             broadcast : BOOLEAN]

\* The types of what the calls are made of.
Types ==
  /\ ticks \in Nat /\ listeners \in Nat /\ notices \in Nat /\ traced \in BOOLEAN
  /\ made \in [Calls -> CallType] /\ routing \subseteq Calls
  /\ sent \in [Calls -> SUBSET Servers]
  /\ pending \in [Calls -> SUBSET Servers]
  /\ nexts \in [Calls -> SUBSET Servers]
  /\ told \in [Calls -> Seq({"ok", "error"})]
  /\ replies \in [Calls -> SUBSET [from : Servers, error : BOOLEAN]]
  /\ DOMAIN ran = Calls /\ DOMAIN cut = Calls

\* A call that is not made, or waits for its router, is nowhere else; an answer
\* is waited for from servers of the call; only a broadcast has several.
StageInv ==
  \A c \in Calls :
    /\ made[c] = NotMade => c \notin routing
    /\ made[c] = NotMade \/ c \in routing =>
         pending[c] = {} /\ told[c] = <<>> /\ ~made[c].broadcast
    /\ pending[c] \subseteq made[c].servers
    /\ ~made[c].broadcast =>
         nexts[c] = {} /\ \A s, t \in made[c].servers : s = t

\* Server s has run a method for call c, or its ws2 mailbox was cut off.
Served(c, s) ==
  \/ \E x \in ran[c] : x.on = s /\ x.method # NoMethod
  \/ mailbox = "ws2" /\ s \in cut[c]

\* A reply without an error comes from a server that ran a method, and so does a
\* next without one; while the user was told nothing there was no other.
ServedInv ==
  \A c \in Calls :
    /\ \A x \in replies[c] : ~x.error => Served(c, x.from)
    /\ made[c].broadcast /\ told[c] = <<>> => \A s \in nexts[c] : Served(c, s)
    /\ "ok" \in Range(told[c]) => \A s \in made[c].servers : Served(c, s)

\* A callback was called for each notice and, unless an answer is still to
\* come, for the answer, with the listeners each time.
CountInv ==
  \A c \in Calls :
    Len(told[c]) <= IF made[c].broadcast THEN 1
                    ELSE (notices + IF pending[c] = {} THEN 1 ELSE 0) * (1 + Reports)

IInv == Types /\ StageInv /\ ServedInv /\ CountInv

-----------------------------------------------------------------------------
(* What the parts of a step do.                                            *)

LEMMA ReportsType ==
  ASSUME Types
  PROVE  Reports \in Nat
BY DEF Types, Reports

\* One more answer or notice makes room for the calls of all listeners.
LEMMA OneMore ==
  ASSUME NEW k \in Nat, NEW r \in Nat
  PROVE  (k + 1) * (1 + r) = k * (1 + r) + (1 + r)
OBVIOUS

\* More listeners or more answers make the bound no smaller.
LEMMA Monotone ==
  ASSUME NEW k \in Nat, NEW l \in Nat, NEW r \in Nat, NEW q \in Nat, k <= l, r <= q
  PROVE  /\ k * (1 + r) \in Nat /\ l * (1 + q) \in Nat
         /\ k * (1 + r) <= l * (1 + q)
<1>1. k * (1 + r) <= l * (1 + r)
  OBVIOUS
<1>2. l * (1 + r) <= l * (1 + q)
  OBVIOUS
<1>3. k * (1 + r) \in Nat /\ l * (1 + r) \in Nat /\ l * (1 + q) \in Nat
  OBVIOUS
<1>. QED
  BY <1>1, <1>2, <1>3

LEMMA Sums ==
  ASSUME NEW a \in Nat, NEW b \in Nat, NEW n \in Nat, a <= b
  PROVE  a + n \in Nat /\ b + n \in Nat /\ a + n <= b + n
OBVIOUS

LEMMA TellType ==
  ASSUME Types, NEW c \in Calls, NEW outcome \in {"ok", "error"}, Tell(c, outcome)
  PROVE  /\ told' \in [Calls -> Seq({"ok", "error"})]
         /\ \A d \in Calls \ {c} : told'[d] = told[d]
         /\ Len(told'[c]) = Len(told[c]) + 1
         /\ Range(told'[c]) = Range(told[c]) \union {outcome}
<1>1. told[c] \in Seq({"ok", "error"}) /\ told'[c] = Append(told[c], outcome)
  BY DEF Types, Tell
<1>2. Range(Append(told[c], outcome)) = Range(told[c]) \union {outcome}
  BY <1>1, AppendProperties DEF Range
<1>. QED
  BY <1>1, <1>2, AppendProperties DEF Types, Tell

LEMMA EmptyRange == Range(<<>>) = {} /\ Len(<<>>) = 0
<1>1. DOMAIN <<>> = {} /\ Len(<<>>) = 0
  OBVIOUS
<1>. QED
  BY <1>1, Zenon DEF Range

LEMMA TellAdds ==
  ASSUME Types, NEW c \in Calls, NEW outcome \in {"ok", "error"}, Tell(c, outcome)
  PROVE  told'[c] # <<>>
<1>1. told[c] \in Seq({"ok", "error"}) /\ told'[c] = Append(told[c], outcome)
  BY DEF Types, Tell
<1>. QED
  BY <1>1, AppendProperties

\* What CallBack does for call c: calls it n times, or passes next (n > 0) one
\* error or the success of all servers.
LEMMA CallBackStep ==
  ASSUME IInv, NEW c \in Calls, NEW s \in Servers, NEW outcome \in {"ok", "error"},
         NEW n \in Nat, s \in pending[c], CallBack(c, s, outcome, n),
         outcome = "ok" => Served(c, s)',
         \A t \in Servers : Served(c, t) => Served(c, t)'
  PROVE  /\ told' \in [Calls -> Seq({"ok", "error"})]
         /\ nexts' \in [Calls -> SUBSET Servers]
         /\ \A d \in Calls \ {c} : told'[d] = told[d] /\ nexts'[d] = nexts[d]
         /\ made[c].broadcast => Len(told'[c]) <= 1
         /\ made[c].broadcast /\ told'[c] = <<>> => \A t \in nexts'[c] : Served(c, t)'
         /\ ~made[c].broadcast =>
              nexts' = nexts /\ Len(told'[c]) = Len(told[c]) + n
         /\ "ok" \in Range(told'[c]) => \A t \in made[c].servers : Served(c, t)'
<1> USE DEF IInv
<1>0. made[c].servers \subseteq Servers /\ nexts[c] \subseteq Servers
  BY DEF Types, CallType
<1>1. CASE made[c].broadcast /\ (n = 0 \/ s \in nexts[c])
  BY <1>0, <1>1 DEF CallBack, NextOf, Types, ServedInv, CountInv
<1>2. CASE made[c].broadcast /\ ~(n = 0 \/ s \in nexts[c])
  <2>1. nexts' = [nexts EXCEPT ![c] = @ \union {s}]
    BY <1>2 DEF CallBack, NextOf
  <2>2. CASE told[c] = <<>> /\ (outcome = "error" \/ nexts'[c] = made[c].servers)
    <3>1. Tell(c, outcome)
      BY <1>2, <2>2 DEF CallBack, NextOf
    <3>2. Range(told'[c]) = {outcome} /\ Len(told'[c]) = 1 /\ told'[c] # <<>>
      <4>1. Range(told[c]) = {} /\ Len(told[c]) = 0
        BY <2>2, EmptyRange
      <4>2. /\ Range(told'[c]) = Range(told[c]) \union {outcome}
            /\ Len(told'[c]) = Len(told[c]) + 1
        BY <3>1, TellType
      <4>3. told'[c] # <<>>
        BY <3>1, TellAdds
      <4>. QED
        BY <4>1, <4>2, <4>3
    <3>3. outcome = "ok" => \A t \in made[c].servers : Served(c, t)'
      BY <1>0, <1>2, <2>1, <2>2 DEF ServedInv, Types
    <3>. QED
      BY <1>2, <2>1, <3>1, <3>2, <3>3, TellType DEF Types
  <2>3. CASE ~(told[c] = <<>> /\ (outcome = "error" \/ nexts'[c] = made[c].servers))
    <3>1. UNCHANGED told
      BY <1>2, <2>3 DEF CallBack, NextOf
    <3>2. told[c] = <<>> => outcome = "ok"
      BY <2>3
    <3>. QED
      BY <1>0, <1>2, <2>1, <3>1, <3>2 DEF Types, ServedInv, CountInv
  <2>. QED
    BY <2>2, <2>3
<1>3. CASE ~made[c].broadcast
  <2>1. UNCHANGED nexts
    BY <1>3 DEF CallBack
  <2> DEFINE again == [i \in 1 .. n |-> outcome]
  <2>2. told' = [told EXCEPT ![c] = @ \o again]
    BY <1>3 DEF CallBack
  <2>3. again \in Seq({"ok", "error"}) /\ Len(again) = n
    OBVIOUS
  <2>4. told[c] \in Seq({"ok", "error"}) /\ told'[c] = told[c] \o again
    BY <2>2 DEF Types
  <2> HIDE DEF again
  <2>5. /\ told[c] \o again \in Seq({"ok", "error"})
        /\ Len(told[c] \o again) = Len(told[c]) + n
    BY <2>3, <2>4, ConcatProperties
  <2>6. "ok" \in Range(told[c] \o again) => "ok" \in Range(told[c]) \/ outcome = "ok"
    <3>1. ASSUME NEW i \in 1 .. Len(told[c] \o again), (told[c] \o again)[i] = "ok"
          PROVE  "ok" \in Range(told[c]) \/ outcome = "ok"
      <4>1. CASE i <= Len(told[c])
        BY <4>1, <3>1, <2>3, <2>4, ConcatProperties DEF Range
      <4>2. CASE i > Len(told[c])
        BY <4>2, <3>1, <2>3, <2>4, <2>5, ConcatProperties DEF again
      <4>. QED
        BY <4>1, <4>2, <2>4
    <3>. QED
      BY <3>1, <2>5 DEF Range
  <2>7. outcome = "ok" => \A t \in made[c].servers : Served(c, t)'
    BY <1>3 DEF StageInv
  <2>. QED
    BY <1>0, <1>3, <2>1, <2>2, <2>4, <2>5, <2>6, <2>7 DEF Types, ServedInv
<1>. QED
  BY <1>1, <1>2, <1>3

\* Only call c changes, and what has been served stays served.
OnlyCall(c) ==
  /\ mailbox' = mailbox
  /\ \A d \in Calls \ {c} :
       /\ made'[d] = made[d] /\ (d \in routing <=> d \in routing')
       /\ pending'[d] = pending[d] /\ told'[d] = told[d] /\ nexts'[d] = nexts[d]
       /\ replies'[d] = replies[d] /\ ran'[d] = ran[d] /\ cut'[d] = cut[d]

\* The parts of the invariant, for one call.
StageOf(c) ==
  /\ made[c] = NotMade => c \notin routing
  /\ made[c] = NotMade \/ c \in routing =>
       pending[c] = {} /\ told[c] = <<>> /\ ~made[c].broadcast
  /\ pending[c] \subseteq made[c].servers
  /\ ~made[c].broadcast =>
       nexts[c] = {} /\ \A s, t \in made[c].servers : s = t

ServedOf(c) ==
  /\ \A x \in replies[c] : ~x.error => Served(c, x.from)
  /\ made[c].broadcast /\ told[c] = <<>> => \A s \in nexts[c] : Served(c, s)
  /\ "ok" \in Range(told[c]) => \A s \in made[c].servers : Served(c, s)

CountOf(c) ==
  Len(told[c]) <= IF made[c].broadcast THEN 1
                  ELSE (notices + IF pending[c] = {} THEN 1 ELSE 0) * (1 + Reports)

\* Of a call that does not change the bound holds for more listeners and notices.
LEMMA CountKept ==
  ASSUME Types, Types', NEW d \in Calls, Reports <= Reports', notices <= notices',
         made'[d] = made[d], pending'[d] = pending[d], told'[d] = told[d], CountOf(d)
  PROVE  CountOf(d)'
<1> DEFINE answered == IF pending[d] = {} THEN 1 ELSE 0
<1>1. /\ Len(told[d]) \in Nat /\ answered \in Nat
      /\ notices \in Nat /\ notices' \in Nat
  BY LenProperties DEF Types
<1>2. Reports \in Nat /\ Reports' \in Nat
  BY ReportsType DEF Types, Reports
<1>3. Len(told[d]) <= IF made[d].broadcast THEN 1
                      ELSE (notices + answered) * (1 + Reports)
  BY DEF CountOf
<1> HIDE DEF answered
<1>4. CASE made[d].broadcast
  BY <1>3, <1>4 DEF CountOf
<1>5. CASE ~made[d].broadcast
  <2>1. /\ notices + answered \in Nat /\ notices' + answered \in Nat
        /\ notices + answered <= notices' + answered
    BY <1>1, Sums
  <2>2. /\ (notices + answered) * (1 + Reports) \in Nat
        /\ (notices' + answered) * (1 + Reports') \in Nat
        /\ (notices + answered) * (1 + Reports) <= (notices' + answered) * (1 + Reports')
    BY <2>1, <1>2, Monotone
  <2>3. Len(told[d]) <= (notices' + answered) * (1 + Reports')
    BY <1>1, <1>3, <1>5, <2>2
  <2>. QED
    BY <2>3, <1>5 DEF CountOf, answered
<1>. QED
  BY <1>4, <1>5

\* It is enough to look at the call that changes, while the listeners and the
\* notices grow.
LEMMA OneCall ==
  ASSUME IInv, NEW c \in Calls, Types', OnlyCall(c),
         Reports <= Reports', notices <= notices',
         StageOf(c)', ServedOf(c)', CountOf(c)'
  PROVE  IInv'
<1> USE DEF IInv
<1>1. StageInv'
  <2>1. ASSUME NEW d \in Calls \ {c}
        PROVE  StageOf(d)'
    BY DEF OnlyCall, StageInv, StageOf
  <2>. QED
    BY <2>1 DEF StageInv, StageOf
<1>2. ServedInv'
  <2>1. ASSUME NEW d \in Calls \ {c}
        PROVE  ServedOf(d)'
    BY DEF OnlyCall, ServedInv, ServedOf, Served
  <2>. QED
    BY <2>1 DEF ServedInv, ServedOf
<1>3. CountInv'
  <2>1. ASSUME NEW d \in Calls \ {c}
        PROVE  CountOf(d)'
    <3>1. CountOf(d)
      BY DEF CountInv, CountOf
    <3>. QED
      BY <3>1, CountKept DEF OnlyCall
  <2>. QED
    BY <2>1 DEF CountInv, CountOf
<1>. QED
  BY <1>1, <1>2, <1>3

-----------------------------------------------------------------------------
(* The invariant holds at first, and every step keeps it.                  *)

LEMMA InitIInv ==
  ASSUME Init
  PROVE  IInv
<1>1. Types
  <2>1. NotMade \in CallType
    BY DEF NotMade, CallType
  <2>2. <<>> \in Seq({"ok", "error"})
    OBVIOUS
  <2>. QED
    BY <2>1, <2>2, ClientAssumption DEF Init, Types
<1>2. \A c \in Calls :
        /\ made[c] = NotMade /\ pending[c] = {} /\ told[c] = <<>> /\ nexts[c] = {}
        /\ replies[c] = {}
  BY DEF Init
<1>3. StageInv
  BY <1>2 DEF Init, StageInv, NotMade
<1>4. ServedInv
  BY <1>2, EmptyRange DEF ServedInv
<1>5. CountInv
  <2>1. ASSUME NEW c \in Calls
        PROVE  Len(told[c]) <= (notices + IF pending[c] = {} THEN 1 ELSE 0) * (1 + Reports)
    <3>1. Len(told[c]) = 0 /\ notices = 0 /\ pending[c] = {}
      BY <1>2, EmptyRange DEF Init
    <3>2. Reports \in Nat
      BY <1>1, ReportsType
    <3>. QED
      BY <3>1, <3>2
  <2>2. \A c \in Calls : ~made[c].broadcast
    BY <1>2 DEF NotMade
  <2>. QED
    BY <2>1, <2>2 DEF CountInv
<1>. QED
  BY <1>1, <1>3, <1>4, <1>5 DEF IInv

\* The listeners change with a tick only, and traced never.
LEMMA SameReports ==
  ASSUME Types, UNCHANGED <<traced, listeners>>
  PROVE  Reports' = Reports /\ Reports <= Reports'
BY ReportsType DEF Reports

\* A step that changes none of the calls.
LEMMA NoCallStep ==
  ASSUME IInv, Types', Reports <= Reports',
         UNCHANGED <<mailbox, made, routing, pending, told, nexts, replies, ran, cut,
                     notices>>
  PROVE  IInv'
<1>1. CASE Calls = {}
  BY <1>1 DEF IInv, StageInv, ServedInv, CountInv
<1>2. CASE Calls # {}
  <2>1. PICK c \in Calls : TRUE
    BY <1>2
  <2>2. StageOf(c)' /\ ServedOf(c)'
    BY DEF IInv, StageInv, ServedInv, StageOf, ServedOf, Served
  <2>3. CountOf(c)'
    <3>1. CountOf(c)
      BY DEF IInv, CountInv, CountOf
    <3>2. notices <= notices'
      BY DEF IInv, Types
    <3>. QED
      BY <3>1, <3>2, CountKept DEF IInv
  <2>4. OnlyCall(c)
    BY DEF OnlyCall
  <2>5. notices <= notices'
    BY DEF IInv, Types
  <2>. QED
    BY <2>2, <2>3, <2>4, <2>5, OneCall
<1>. QED
  BY <1>1, <1>2

LEMMA ClientStep ==
  ASSUME IInv,
         \/ Start \/ Tick \/ Stop
         \/ \E p \in Range(Paths) : AddProxy(Code[p]) \/ AddProxy(NewCode[p])
         \/ \E s \in Servers, p \in Range(Paths) : Reload(s, p)
         \/ UNCHANGED vars
  PROVE  IInv'
<1> USE DEF IInv, client, calls, remote
<1>1. UNCHANGED <<made, routing, sent, pending, told, nexts, mailbox, replies, ran,
                  cut, notices, traced>>
  BY DEF Start, Tick, Stop, AddProxy, Reload, vars
<1>2. \/ UNCHANGED <<ticks, listeners>>
      \/ ticks' = ticks + 1 /\ UNCHANGED listeners
      \/ ticks > 0 /\ ticks' = ticks - 1 /\ listeners' = listeners + 1
  BY DEF Start, Tick, Stop, AddProxy, Reload, vars
<1>3. ticks \in Nat /\ listeners \in Nat
  BY DEF Types
<1>4. ticks' \in Nat /\ listeners' \in Nat /\ listeners <= listeners'
  BY <1>2, <1>3
<1>5. Types'
  BY <1>1, <1>4 DEF Types
<1>6. Reports <= Reports'
  BY <1>1, <1>3, <1>4 DEF Reports
<1>. QED
  BY <1>1, <1>5, <1>6, NoCallStep

-----------------------------------------------------------------------------
(* Calls are made.                                                         *)

LEMMA FirstAnswer ==
  ASSUME NEW n \in Nat, NEW r \in Nat, NEW a \in {0, 1}
  PROVE  a <= (n + a) * (1 + r)
<1>1. CASE a = 0
  BY <1>1
<1>2. CASE a = 1
  <2>1. (n + 1) * (1 + r) = n * (1 + r) + (1 + r)
    BY OneMore
  <2>2. n * (1 + r) \in Nat
    OBVIOUS
  <2>. QED
    BY <1>2, <2>1, <2>2
<1>. QED
  BY <1>1, <1>2

\* A call that is made, or leaves its router: it waits for answers, or its
\* callback was called, with a success only if it has no server.
LEMMA MadeStep ==
  ASSUME IInv, NEW c \in Calls, Types', OnlyCall(c),
         UNCHANGED <<traced, listeners, notices, nexts, mailbox, replies, ran, cut>>,
         nexts[c] = {}, made'[c] # NotMade,
         c \in routing' => /\ pending'[c] = {} /\ told'[c] = <<>>
                           /\ ~made'[c].broadcast,
         pending'[c] \subseteq made'[c].servers,
         ~made'[c].broadcast => \A s, t \in made'[c].servers : s = t,
         Len(told'[c]) <= IF pending'[c] = {} THEN 1 ELSE 0,
         "ok" \in Range(told'[c]) => made'[c].servers = {}
  PROVE  IInv'
<1>1. StageOf(c)'
  BY DEF StageOf
<1>2. ServedOf(c)'
  BY DEF ServedOf, Served, IInv, ServedInv
<1>3. CountOf(c)'
  <2> DEFINE answered == IF pending'[c] = {} THEN 1 ELSE 0
  <2>1. answered \in {0, 1} /\ Len(told'[c]) <= answered
    OBVIOUS
  <2>2. notices \in Nat /\ Len(told'[c]) \in Nat
    BY LenProperties DEF IInv, Types
  <2>3. Reports \in Nat /\ Reports' = Reports
    BY ReportsType, SameReports DEF IInv
  <2> HIDE DEF answered
  <2>4. answered <= (notices + answered) * (1 + Reports)
    BY <2>1, <2>2, <2>3, FirstAnswer
  <2>5. (notices + answered) * (1 + Reports) \in Int
    BY <2>1, <2>2, <2>3
  <2>6. Len(told'[c]) <= 1 /\ Len(told'[c]) <= (notices + answered) * (1 + Reports)
    BY <2>1, <2>2, <2>4, <2>5
  <2>. QED
    BY <2>3, <2>6 DEF CountOf, answered
<1>4. Reports <= Reports' /\ notices <= notices'
  BY SameReports DEF IInv, Types
<1>. QED
  BY <1>1, <1>2, <1>3, <1>4, OneCall

\* rpcInvoke for a call that is new to the station.
LEMMA RpcInvokeStep ==
  ASSUME Types, NEW c \in Calls, NEW targets \in SUBSET Servers,
         pending[c] = {}, told[c] = <<>>, RpcInvoke(c, targets)
  PROVE  /\ told' \in [Calls -> Seq({"ok", "error"})]
         /\ sent' \in [Calls -> SUBSET Servers]
         /\ pending' \in [Calls -> SUBSET Servers]
         /\ \A d \in Calls \ {c} : told'[d] = told[d] /\ pending'[d] = pending[d]
         /\ pending'[c] \subseteq targets
         /\ Len(told'[c]) <= IF pending'[c] = {} THEN 1 ELSE 0
         /\ "ok" \notin Range(told'[c])
<1>1. CASE state = "started"
  <2>1. /\ sent' = [sent EXCEPT ![c] = targets]
        /\ pending' = [pending EXCEPT ![c] = targets]
        /\ told' = told
    BY <1>1 DEF RpcInvoke
  <2>2. Len(told'[c]) = 0 /\ Range(told'[c]) = {}
    BY <2>1, EmptyRange
  <2>. QED
    BY <2>1, <2>2 DEF Types
<1>2. CASE state # "started"
  <2>1. Tell(c, "error") /\ UNCHANGED <<sent, pending>>
    BY <1>2 DEF RpcInvoke
  <2>2. Len(told'[c]) = 1 /\ Range(told'[c]) = {"error"}
    <3>1. Len(told'[c]) = Len(told[c]) + 1 /\ Range(told'[c]) = Range(told[c]) \union {"error"}
      BY <2>1, TellType
    <3>. QED
      BY <3>1, EmptyRange
  <2>. QED
    BY <2>1, <2>2, TellType DEF Types
<1>. QED
  BY <1>1, <1>2

\* What MakeCall makes of a call.
LEMMA MakeCallStep ==
  ASSUME Types, NEW c \in Calls, NEW m \in AllCode, NEW targets \in SUBSET Servers,
         NEW broadcast \in BOOLEAN, MakeCall(c, m, targets, broadcast)
  PROVE  /\ made' \in [Calls -> CallType]
         /\ made'[c] # NotMade
         /\ made'[c].servers = targets /\ made'[c].broadcast = broadcast
         /\ \A d \in Calls \ {c} : made'[d] = made[d]
<1> DEFINE call == [method |-> m, servers |-> targets, broadcast |-> broadcast]
<1>1. call \in CallType
  BY DEF CallType
<1>2. call # NotMade
  BY NoMethodAssumption DEF NotMade
<1>3. made' = [made EXCEPT ![c] = call]
  BY DEF MakeCall
<1>. QED
  BY <1>1, <1>2, <1>3 DEF Types

LEMMA CallStep ==
  ASSUME IInv, NEW c \in Calls, Call(c)
  PROVE  IInv'
<1> USE DEF client, remote
<1>0. Types /\ StageInv
  BY DEF IInv
<1>1. ASSUME made[c] = NotMade \/ c \in routing
      PROVE  /\ pending[c] = {} /\ told[c] = <<>> /\ nexts[c] = {}
             /\ ~made[c].broadcast
  BY <1>0, <1>1 DEF StageInv
<1>2. ASSUME made[c] = NotMade
      PROVE  c \notin routing
  BY <1>0, <1>2 DEF StageInv
<1>3. ASSUME NEW m \in AllCode, CallRouted(c, m)
      PROVE  IInv'
  <2>1. made[c] = NotMade /\ MakeCall(c, m, {}, FALSE) /\ routing' = routing \union {c}
    BY <1>3 DEF CallRouted, MayCall
  <2>2. UNCHANGED <<client, sent, pending, told, nexts, remote, notices>>
    BY <1>3 DEF CallRouted
  <2>3. /\ made' \in [Calls -> CallType] /\ made'[c] # NotMade
        /\ made'[c].servers = {} /\ made'[c].broadcast = FALSE
        /\ \A d \in Calls \ {c} : made'[d] = made[d]
    <3>1. {} \in SUBSET Servers /\ FALSE \in BOOLEAN
      OBVIOUS
    <3>. QED
      BY <1>0, <2>1, <3>1, MakeCallStep
  <2>4. Types' /\ OnlyCall(c)
    BY <1>0, <2>1, <2>2, <2>3 DEF Types, OnlyCall
  <2>5. Len(told'[c]) = 0 /\ Range(told'[c]) = {} /\ pending'[c] = {}
    BY <2>1, <2>2, <1>1, EmptyRange
  <2>6. /\ Len(told'[c]) <= IF pending'[c] = {} THEN 1 ELSE 0
        /\ pending'[c] \subseteq made'[c].servers
        /\ \A s, t \in made'[c].servers : s = t
        /\ told'[c] = <<>> /\ nexts[c] = {}
        /\ "ok" \notin Range(told'[c])
    BY <2>1, <2>2, <2>3, <2>5, <1>1
  <2>. QED
    BY <2>2, <2>3, <2>4, <2>5, <2>6, MadeStep
<1>4. ASSUME NEW m \in AllCode, NEW targets \in SUBSET Servers,
             NEW broadcast \in BOOLEAN, made[c] = NotMade,
             MakeCall(c, m, targets, broadcast), RpcInvoke(c, targets),
             ~broadcast => \A s, t \in targets : s = t,
             UNCHANGED <<client, routing, nexts, remote, notices>>
      PROVE  IInv'
  <2>1. /\ made' \in [Calls -> CallType] /\ made'[c] # NotMade
        /\ made'[c].servers = targets /\ made'[c].broadcast = broadcast
        /\ \A d \in Calls \ {c} : made'[d] = made[d]
    BY <1>0, <1>4, MakeCallStep
  <2>2. /\ told' \in [Calls -> Seq({"ok", "error"})]
        /\ sent' \in [Calls -> SUBSET Servers]
        /\ pending' \in [Calls -> SUBSET Servers]
        /\ \A d \in Calls \ {c} : told'[d] = told[d] /\ pending'[d] = pending[d]
        /\ pending'[c] \subseteq targets
        /\ Len(told'[c]) <= IF pending'[c] = {} THEN 1 ELSE 0
        /\ "ok" \notin Range(told'[c])
    BY <1>0, <1>4, <1>1, RpcInvokeStep
  <2>3. Types' /\ OnlyCall(c)
    BY <1>0, <1>4, <2>1, <2>2 DEF Types, OnlyCall
  <2>4. c \notin routing' /\ nexts[c] = {}
    BY <1>1, <1>2, <1>4
  <2>. QED
    BY <1>4, <2>1, <2>2, <2>3, <2>4, MadeStep
<1>5. ASSUME NEW m \in AllCode, NEW s \in Servers,
             CallServer(c, m, s) \/ CallDirect(c, m, s)
      PROVE  IInv'
  BY <1>4, <1>5 DEF CallServer, CallDirect, MayCall
<1>6. ASSUME NEW m \in AllCode, NEW targets \in SUBSET Servers, CallAll(c, m, targets)
      PROVE  IInv'
  <2>1. CASE targets # {}
    BY <1>4, <1>6, <2>1 DEF CallAll, MayCall
  <2>2. CASE targets = {}
    <3>1. /\ made[c] = NotMade /\ MakeCall(c, m, {}, TRUE) /\ Tell(c, "ok")
          /\ UNCHANGED <<client, routing, sent, pending, nexts, remote, notices>>
      BY <1>6, <2>2 DEF CallAll, MayCall
    <3>2. /\ made' \in [Calls -> CallType] /\ made'[c] # NotMade
          /\ made'[c].servers = {} /\ made'[c].broadcast
          /\ \A d \in Calls \ {c} : made'[d] = made[d]
      BY ZenonT(20), <1>0, <3>1, MakeCallStep
    <3>3. /\ told' \in [Calls -> Seq({"ok", "error"})]
          /\ \A d \in Calls \ {c} : told'[d] = told[d]
          /\ Len(told'[c]) = Len(told[c]) + 1
      BY <1>0, <3>1, TellType
    <3>4. Types' /\ OnlyCall(c)
      BY <1>0, <3>1, <3>2, <3>3 DEF Types, OnlyCall
    <3>5. Len(told'[c]) = 1 /\ pending'[c] = {} /\ c \notin routing'
      <4>1. told[c] = <<>> /\ pending[c] = {} /\ c \notin routing
        BY <3>1, <1>1, <1>2
      <4>2. Len(told[c]) = 0
        BY <4>1, EmptyRange
      <4>3. UNCHANGED <<pending, routing>>
        BY <3>1
      <4>4. Len(told'[c]) = 1
        BY <3>3, <4>2
      <4>. QED
        BY <4>1, <4>3, <4>4
    <3>6. /\ Len(told'[c]) <= IF pending'[c] = {} THEN 1 ELSE 0
          /\ pending'[c] \subseteq made'[c].servers /\ nexts[c] = {}
      BY <3>1, <3>5, <1>1
    <3>. QED
      BY <3>1, <3>2, <3>4, <3>5, <3>6, MadeStep
  <2>. QED
    BY <2>1, <2>2
<1>7. ASSUME NEW s \in Servers, Routed(c, s)
      PROVE  IInv'
  <2>1. /\ c \in routing /\ routing' = routing \ {c}
        /\ made' = [made EXCEPT ![c].servers = {s}] /\ RpcInvoke(c, {s})
        /\ UNCHANGED <<client, nexts, remote, notices>>
    BY <1>7 DEF Routed
  <2>2. /\ made' \in [Calls -> CallType]
        /\ made'[c].servers = {s} /\ ~made'[c].broadcast
        /\ \A d \in Calls \ {c} : made'[d] = made[d]
    <3>1. /\ made[c] \in CallType
          /\ made' = [made EXCEPT ![c] = [made[c] EXCEPT !.servers = {s}]]
      BY <1>0, <2>1 DEF Types
    <3>2. /\ [made[c] EXCEPT !.servers = {s}] \in CallType
          /\ [made[c] EXCEPT !.servers = {s}].servers = {s}
          /\ [made[c] EXCEPT !.servers = {s}].broadcast = made[c].broadcast
      BY <3>1 DEF CallType
    <3>. QED
      BY <1>0, <1>1, <2>1, <3>1, <3>2 DEF Types
  <2>3. made'[c] # NotMade
    BY <2>2 DEF NotMade
  <2>4. /\ told' \in [Calls -> Seq({"ok", "error"})]
        /\ sent' \in [Calls -> SUBSET Servers]
        /\ pending' \in [Calls -> SUBSET Servers]
        /\ \A d \in Calls \ {c} : told'[d] = told[d] /\ pending'[d] = pending[d]
        /\ pending'[c] \subseteq {s}
        /\ Len(told'[c]) <= IF pending'[c] = {} THEN 1 ELSE 0
        /\ "ok" \notin Range(told'[c])
    BY <1>0, <2>1, <1>1, RpcInvokeStep
  <2>5. Types' /\ OnlyCall(c)
    BY <1>0, <2>1, <2>2, <2>4 DEF Types, OnlyCall
  <2>. QED
    BY <2>1, <2>2, <2>3, <2>4, <2>5, <1>1, MadeStep
<1>8. ASSUME RouteFailed(c)
      PROVE  IInv'
  <2>1. /\ c \in routing /\ routing' = routing \ {c} /\ Tell(c, "error")
        /\ UNCHANGED <<client, made, sent, pending, nexts, remote, notices>>
    BY <1>8 DEF RouteFailed
  <2>2. /\ told' \in [Calls -> Seq({"ok", "error"})]
        /\ \A d \in Calls \ {c} : told'[d] = told[d]
        /\ Len(told'[c]) = Len(told[c]) + 1
        /\ Range(told'[c]) = Range(told[c]) \union {"error"}
    BY <1>0, <2>1, TellType
  <2>3. Types' /\ OnlyCall(c)
    BY <1>0, <2>1, <2>2 DEF Types, OnlyCall
  <2>4. Len(told'[c]) = 1 /\ "ok" \notin Range(told'[c]) /\ pending'[c] = {}
    BY <2>1, <2>2, <1>1, EmptyRange
  <2>5. made'[c] # NotMade /\ ~made'[c].broadcast
    BY <2>1, <1>1, <1>2
  <2>6. \A s, t \in made'[c].servers : s = t
    BY <1>0, <2>1, <2>5 DEF StageInv
  <2>7. /\ Len(told'[c]) <= IF pending'[c] = {} THEN 1 ELSE 0
        /\ pending'[c] \subseteq made'[c].servers
        /\ nexts[c] = {} /\ c \notin routing'
    BY <2>1, <2>4, <1>1
  <2>. QED
    BY <2>1, <2>3, <2>4, <2>5, <2>6, <2>7, MadeStep
<1>. QED
  BY <1>3, <1>5, <1>6, <1>7, <1>8 DEF Call

-----------------------------------------------------------------------------
(* Calls are answered and served.                                          *)

\* The callback of the station is called n times, for an answer that ends the
\* waiting or for a notice.
LEMMA AnsweredStep ==
  ASSUME IInv, NEW c \in Calls, NEW s \in Servers, NEW outcome \in {"ok", "error"},
         NEW n \in Nat, s \in pending[c], CallBack(c, s, outcome, n),
         n <= Reports + 1,
         outcome = "ok" => (\E x \in ran[c] : x.on = s /\ x.method # NoMethod)
                           \/ (mailbox = "ws2" /\ s \in cut'[c]),
         \/ pending' = [pending EXCEPT ![c] = @ \ {s}] /\ notices' = notices
         \/ pending' = pending /\ notices' = notices + 1,
         sent' \in [Calls -> SUBSET Servers],
         \/ UNCHANGED replies
         \/ \E x \in replies[c] : replies' = [replies EXCEPT ![c] = @ \ {x}],
         \/ UNCHANGED cut
         \/ cut' = [cut EXCEPT ![c] = @ \union {s}],
         UNCHANGED <<client, made, routing, mailbox, ran>>
  PROVE  IInv'
<1>0. Types /\ StageInv /\ ServedInv /\ CountInv
  BY DEF IInv
<1>cuts. /\ DOMAIN cut' = Calls /\ cut[c] \subseteq cut'[c]
         /\ \A d \in Calls \ {c} : cut'[d] = cut[d]
  BY <1>0 DEF Types
<1>kept. \A t \in Servers : Served(c, t) => Served(c, t)'
  BY <1>cuts DEF Served
<1>now. outcome = "ok" => Served(c, s)'
  BY DEF Served
<1>1. /\ told' \in [Calls -> Seq({"ok", "error"})]
      /\ nexts' \in [Calls -> SUBSET Servers]
      /\ \A d \in Calls \ {c} : told'[d] = told[d] /\ nexts'[d] = nexts[d]
      /\ made[c].broadcast => Len(told'[c]) <= 1
      /\ made[c].broadcast /\ told'[c] = <<>> => \A t \in nexts'[c] : Served(c, t)'
      /\ ~made[c].broadcast => nexts' = nexts /\ Len(told'[c]) = Len(told[c]) + n
      /\ "ok" \in Range(told'[c]) => \A t \in made[c].servers : Served(c, t)'
  BY <1>kept, <1>now, CallBackStep
<1>2. notices' \in Nat /\ notices <= notices'
  <2>1. notices \in Nat
    BY <1>0 DEF Types
  <2>. QED
    BY <2>1
<1>3. /\ pending' \in [Calls -> SUBSET Servers] /\ pending'[c] \subseteq pending[c]
      /\ \A d \in Calls \ {c} : pending'[d] = pending[d]
  BY <1>0 DEF Types
<1>4. /\ replies' \in [Calls -> SUBSET [from : Servers, error : BOOLEAN]]
      /\ replies'[c] \subseteq replies[c]
      /\ \A d \in Calls \ {c} : replies'[d] = replies[d]
  BY <1>0 DEF Types
<1>5. Types'
  BY <1>0, <1>1, <1>2, <1>3, <1>4, <1>cuts DEF Types, client
<1>6. OnlyCall(c)
  BY <1>1, <1>3, <1>4, <1>cuts DEF OnlyCall
<1>7. made[c] # NotMade /\ c \notin routing
  BY <1>0 DEF StageInv
<1>8. StageOf(c)'
  BY <1>0, <1>1, <1>3, <1>7 DEF StageInv, StageOf
<1>9. ServedOf(c)'
  <2>1. \A x \in replies'[c] : ~x.error => Served(c, x.from)'
    BY <1>0, <1>4, <1>kept DEF ServedInv, Types
  <2>. QED
    BY <1>1, <2>1 DEF ServedOf
<1>10. Reports \in Nat /\ Reports' = Reports /\ Reports <= Reports'
  BY <1>0, ReportsType, SameReports DEF client
<1>11. CountOf(c)'
  <2>1. CASE made[c].broadcast
    BY <1>1, <2>1 DEF CountOf
  <2>2. CASE ~made[c].broadcast
    <3>1. Len(told[c]) <= notices * (1 + Reports)
      <4>1. Len(told[c]) <= (notices + 0) * (1 + Reports)
        BY <1>0, <2>2 DEF CountInv
      <4>2. notices \in Nat
        BY <1>0 DEF Types
      <4>. QED
        BY <4>1, <4>2
    <3>2. notices + 1 = notices' + IF pending'[c] = {} THEN 1 ELSE 0
      <4>1. pending[c] = {s}
        BY <1>0, <2>2 DEF StageInv
      <4>2. notices \in Nat
        BY <1>0 DEF Types
      <4>3. \/ pending'[c] = {} /\ notices' = notices
            \/ pending'[c] # {} /\ notices' = notices + 1
        BY <1>0, <4>1 DEF Types
      <4>. QED
        BY <4>2, <4>3
    <3>3. Len(told'[c]) <= (notices + 1) * (1 + Reports)
      <4>1. notices \in Nat /\ Len(told[c]) \in Nat
        BY <1>0, LenProperties DEF Types
      <4>2. (notices + 1) * (1 + Reports) = notices * (1 + Reports) + (1 + Reports)
        BY <4>1, <1>10, OneMore
      <4>3. notices * (1 + Reports) \in Int
        BY <4>1, <1>10
      <4>4. Len(told'[c]) = Len(told[c]) + n
        BY <1>1, <2>2
      <4>. QED
        BY <3>1, <4>1, <4>2, <4>3, <4>4, <1>10
    <3>. QED
      BY <3>2, <3>3, <2>2, <1>10 DEF CountOf
  <2>. QED
    BY <2>1, <2>2
<1>. QED
  BY <1>2, <1>5, <1>6, <1>8, <1>9, <1>10, <1>11, OneCall

LEMMA AnswerStep ==
  ASSUME IInv, NEW c \in Calls, Answer(c)
  PROVE  IInv'
<1>0. /\ Types /\ StageInv /\ ServedInv /\ CountInv
      /\ Reports \in Nat
  BY ReportsType DEF IInv
<1>1. ASSUME NEW x \in replies[c], Reply(c, x)
      PROVE  IInv'
  <2>1. /\ replies' = [replies EXCEPT ![c] = @ \ {x}]
        /\ UNCHANGED <<client, made, routing, sent, mailbox, ran, cut, notices>>
    BY <1>1 DEF Reply
  <2>2. x \in [from : Servers, error : BOOLEAN]
    BY <1>0 DEF Types
  <2>3. sent' \in [Calls -> SUBSET Servers]
    BY <1>0, <2>1 DEF Types
  <2>4. CASE x.from \in pending[c]
    <3> DEFINE outcome == IF x.error THEN "error" ELSE "ok"
    <3>1. /\ pending' = [pending EXCEPT ![c] = @ \ {x.from}]
          /\ CallBack(c, x.from, outcome, 1)
      BY <1>1, <2>4 DEF Reply
    <3>2. outcome \in {"ok", "error"} /\ (outcome = "ok" => Served(c, x.from))
      BY <1>0, <2>2 DEF ServedInv
    <3> HIDE DEF outcome
    <3>3. 1 \in Nat /\ 1 <= Reports + 1 /\ x.from \in Servers
      BY <1>0, <2>2
    <3>. QED
      BY <2>1, <2>3, <2>4, <3>1, <3>2, <3>3, AnsweredStep DEF Served
  <2>5. CASE x.from \notin pending[c]
    <3>1. UNCHANGED <<pending, told, nexts>>
      BY <1>1, <2>5 DEF Reply
    <3>2. /\ replies' \in [Calls -> SUBSET [from : Servers, error : BOOLEAN]]
          /\ replies'[c] \subseteq replies[c]
          /\ \A d \in Calls \ {c} : replies'[d] = replies[d]
      BY <1>0, <2>1 DEF Types
    <3>3. Types' /\ OnlyCall(c)
      BY <1>0, <2>1, <3>1, <3>2 DEF Types, OnlyCall, client
    <3>4. StageOf(c)' /\ ServedOf(c)'
      BY <1>0, <2>1, <3>1, <3>2 DEF StageInv, ServedInv, StageOf, ServedOf, Served
    <3>5. Reports <= Reports' /\ notices <= notices'
      BY <1>0, <2>1, SameReports DEF client, Types
    <3>6. CountOf(c)'
      <4>1. CountOf(c)
        BY <1>0 DEF CountInv, CountOf
      <4>. QED
        BY <1>0, <2>1, <3>1, <3>3, <3>5, <4>1, CountKept
    <3>. QED
      BY <3>3, <3>4, <3>5, <3>6, OneCall
  <2>. QED
    BY <2>4, <2>5
<1>2. ASSUME NEW s \in Servers, Timeout(c, s) \/ Refuse(c, s),
             ~(mailbox = "ws2" /\ Timeout(c, s))
      PROVE  IInv'
  <2>1. /\ s \in pending[c] /\ pending' = [pending EXCEPT ![c] = @ \ {s}]
        /\ CallBack(c, s, "error", Reports + 1)
        /\ sent' = sent \/ sent' = [sent EXCEPT ![c] = @ \ {s}]
        /\ UNCHANGED <<client, made, routing, mailbox, replies, ran, cut, notices>>
    BY <1>2 DEF Timeout, Refuse, remote
  <2>2. sent' \in [Calls -> SUBSET Servers]
    BY <1>0, <2>1 DEF Types
  <2>3. Reports + 1 \in Nat /\ Reports + 1 <= Reports + 1
    BY <1>0
  <2>. QED
    BY <2>1, <2>2, <2>3, AnsweredStep
<1>3. ASSUME NEW s \in Servers, Notice(c, s) \/ CutOff(c, s)
      PROVE  IInv'
  <2>1. PICK n \in {Reports, Reports + 1} : CallBack(c, s, "error", n)
    BY <1>3 DEF Notice, CutOff
  <2>2. /\ s \in pending[c] /\ notices' = notices + 1
        /\ UNCHANGED <<client, made, routing, sent, pending, mailbox, replies, ran, cut>>
    BY <1>3 DEF Notice, CutOff, calls, remote
  <2>3. sent' \in [Calls -> SUBSET Servers]
    BY <1>0, <2>2 DEF Types
  <2>4. n \in Nat /\ n <= Reports + 1
    BY <1>0, <2>1
  <2>. QED
    BY <2>1, <2>2, <2>3, <2>4, AnsweredStep
<1>4. ASSUME NEW s \in Servers, CutOffWs2(c, s)
      PROVE  IInv'
  <2>1. /\ mailbox = "ws2" /\ s \in pending[c]
        /\ pending' = [pending EXCEPT ![c] = @ \ {s}]
        /\ cut' = [cut EXCEPT ![c] = @ \union {s}]
        /\ CallBack(c, s, "ok", 1)
        /\ UNCHANGED <<client, made, routing, sent, mailbox, replies, ran, notices>>
    BY <1>4 DEF CutOffWs2
  <2>2. sent' \in [Calls -> SUBSET Servers]
    BY <1>0, <2>1 DEF Types
  <2>3. s \in cut'[c]
    BY <1>0, <2>1 DEF Types
  <2>4. 1 \in Nat /\ 1 <= Reports + 1
    BY <1>0
  <2>. QED
    BY <2>1, <2>2, <2>3, <2>4, AnsweredStep
<1>5. ASSUME NEW s \in Servers, mailbox = "ws2", Timeout(c, s)
      PROVE  IInv'
  <2>1. /\ s \in pending[c] /\ pending' = [pending EXCEPT ![c] = @ \ {s}]
        /\ UNCHANGED <<client, made, routing, sent, told, nexts, mailbox, replies, ran,
                       cut, notices>>
    BY <1>5 DEF Timeout, remote
  <2>2. /\ pending' \in [Calls -> SUBSET Servers] /\ pending'[c] \subseteq pending[c]
        /\ \A d \in Calls \ {c} : pending'[d] = pending[d]
    BY <1>0, <2>1 DEF Types
  <2>3. Types' /\ OnlyCall(c)
    BY <1>0, <2>1, <2>2 DEF Types, OnlyCall, client
  <2>4. StageOf(c)' /\ ServedOf(c)'
    BY <1>0, <2>1, <2>2 DEF StageInv, ServedInv, StageOf, ServedOf, Served
  <2>5. Reports' = Reports /\ Reports <= Reports' /\ notices \in Nat
    BY <1>0, <2>1, SameReports DEF client, Types
  <2>6. CountOf(c)'
    <3>1. CASE made[c].broadcast
      BY <1>0, <2>1, <3>1 DEF CountInv, CountOf
    <3>2. CASE ~made[c].broadcast
      <4>1. Len(told[c]) <= notices * (1 + Reports)
        BY <1>0, <2>1, <2>5, <3>2 DEF CountInv
      <4>2. /\ (notices + 1) * (1 + Reports) = notices * (1 + Reports) + (1 + Reports)
            /\ notices * (1 + Reports) \in Nat /\ notices + 0 = notices
        BY <1>0, <2>5, OneMore
      <4>3. Len(told[c]) \in Nat
        BY <1>0, LenProperties DEF Types
      <4>4. /\ Len(told[c]) <= (notices + 0) * (1 + Reports)
            /\ Len(told[c]) <= (notices + 1) * (1 + Reports)
        BY <1>0, <4>1, <4>2, <4>3
      <4>. QED
        BY <2>1, <2>5, <3>2, <4>4 DEF CountOf
    <3>. QED
      BY <3>1, <3>2
  <2>7. notices <= notices'
    BY <2>1, <2>5
  <2>. QED
    BY <2>3, <2>4, <2>5, <2>6, <2>7, OneCall
<1>. QED
  BY <1>1, <1>2, <1>3, <1>4, <1>5 DEF Answer

LEMMA ServeStep ==
  ASSUME IInv, NEW c \in Calls, NEW s \in Servers, Serve(c, s) \/ Lose(c, s)
  PROVE  IInv'
<1>0. Types /\ StageInv /\ ServedInv /\ CountInv
  BY DEF IInv
<1> DEFINE method == Route(services[s], Received(made[c].method))
           reply(error) == [from |-> s, error |-> error]
           run == [on |-> s, method |-> method]
<1>1. /\ sent' = [sent EXCEPT ![c] = @ \ {s}]
      /\ UNCHANGED <<client, made, routing, pending, told, nexts, mailbox, cut, notices>>
  BY DEF Serve, Answered, Lose, remote
<1>2. \/ UNCHANGED <<replies, ran>>
      \/ /\ ran' = [ran EXCEPT ![c] = @ \union {run}]
         /\ \E error \in BOOLEAN :
              /\ method = NoMethod => error
              /\ replies' = [replies EXCEPT ![c] = @ \union {reply(error)}]
  BY DEF Serve, Answered, Lose, remote
<1> HIDE DEF method
<1>3. PICK error \in BOOLEAN :
        /\ \/ UNCHANGED <<replies, ran>>
           \/ /\ ran' = [ran EXCEPT ![c] = @ \union {run}]
              /\ replies' = [replies EXCEPT ![c] = @ \union {reply(error)}]
        /\ replies' # replies /\ ~error => method # NoMethod
  BY <1>2
<1>4. /\ replies' \in [Calls -> SUBSET [from : Servers, error : BOOLEAN]]
      /\ \A d \in Calls \ {c} : replies'[d] = replies[d] /\ ran'[d] = ran[d]
      /\ DOMAIN ran' = Calls /\ ran[c] \subseteq ran'[c]
  <2>1. reply(error) \in [from : Servers, error : BOOLEAN]
    OBVIOUS
  <2>2. replies \in [Calls -> SUBSET [from : Servers, error : BOOLEAN]]
    BY <1>0 DEF Types
  <2>3. DOMAIN ran = Calls
    BY <1>0 DEF Types
  <2> HIDE DEF reply, run
  <2>4. /\ replies' \in [Calls -> SUBSET [from : Servers, error : BOOLEAN]]
        /\ \A d \in Calls \ {c} : replies'[d] = replies[d]
    BY <1>3, <2>1, <2>2
  <2>5. /\ DOMAIN ran' = Calls /\ ran[c] \subseteq ran'[c]
        /\ \A d \in Calls \ {c} : ran'[d] = ran[d]
    BY <1>3, <2>3
  <2>. QED
    BY <2>4, <2>5
<1>5. Types' /\ OnlyCall(c)
  BY <1>0, <1>1, <1>4 DEF Types, OnlyCall, client
<1>6. ASSUME NEW t, Served(c, t)
      PROVE  Served(c, t)'
  BY <1>1, <1>4, <1>6 DEF Served
<1>7. ASSUME NEW x \in replies'[c], ~x.error
      PROVE  Served(c, x.from)'
  <2>1. CASE x \in replies[c]
    BY <1>0, <1>6, <1>7, <2>1 DEF ServedInv
  <2>2. CASE x \notin replies[c]
    <3>1. x = reply(error) /\ replies' # replies
      BY <1>0, <1>3, <1>7, <2>2 DEF Types
    <3>2. method # NoMethod /\ run \in ran'[c]
      BY <1>0, <1>3, <1>7, <3>1 DEF Types
    <3>. QED
      BY <3>1, <3>2 DEF Served
  <2>. QED
    BY <2>1, <2>2
<1>8. ServedOf(c)'
  BY <1>0, <1>1, <1>6, <1>7 DEF ServedInv, ServedOf
<1>9. StageOf(c)'
  BY <1>0, <1>1 DEF StageInv, StageOf
<1>10. Reports <= Reports' /\ notices <= notices'
  BY <1>0, <1>1, SameReports DEF client, Types
<1>11. CountOf(c)'
  <2>1. CountOf(c)
    BY <1>0 DEF CountInv, CountOf
  <2>. QED
    BY <1>0, <1>1, <1>5, <1>10, <2>1, CountKept
<1>. QED
  BY <1>5, <1>8, <1>9, <1>10, <1>11, OneCall

LEMMA NextStep ==
  ASSUME IInv, [Next]_vars
  PROVE  IInv'
<1>1. CASE Remote
  BY <1>1, ClientStep, ServeStep DEF Remote
<1>2. CASE \E c \in Calls : Call(c) \/ Answer(c)
  BY <1>2, CallStep, AnswerStep
<1>. QED
  BY <1>1, <1>2, ClientStep DEF Next

-----------------------------------------------------------------------------
(* The theorems.                                                           *)

\* The inductive invariant.
THEOREM InductiveInvariant == Spec => []IInv
BY InitIInv, NextStep, PTL DEF Spec

\* The user is told of a success only if each server of the call ran a method,
\* or had its connection broken over ws2.
THEOREM SuccessIsServed == Spec => []OkMeansServed
<1>1. IInv => OkMeansServed
  BY DEF IInv, ServedInv, Served, OkMeansServed
<1>. QED
  BY <1>1, InductiveInvariant, PTL

\* The callback of a broadcast is called once, that of another call once for its
\* answer and each notice, and by each listener.
THEOREM CallbacksAreBounded == Spec => []AnsweredOnce
<1>1. ASSUME IInv, NEW c \in Calls
      PROVE  Len(told[c]) <= IF made[c].broadcast THEN 1
                             ELSE (1 + notices) * (1 + Reports)
  <2>1. /\ notices \in Nat /\ Reports \in Nat /\ Len(told[c]) \in Nat
    BY <1>1, ReportsType, LenProperties DEF IInv, Types
  <2>2. /\ made[c].broadcast => Len(told[c]) <= 1
        /\ ~made[c].broadcast =>
             \/ Len(told[c]) <= (notices + 0) * (1 + Reports)
             \/ Len(told[c]) <= (notices + 1) * (1 + Reports)
    BY <1>1 DEF IInv, CountInv
  <2>3. /\ (notices + 1) * (1 + Reports) = notices * (1 + Reports) + (1 + Reports)
        /\ notices * (1 + Reports) \in Nat
    BY <2>1, OneMore
  <2>4. notices + 0 = notices /\ 1 + notices = notices + 1
    BY <2>1
  <2>. QED
    BY <2>1, <2>2, <2>3, <2>4
<1>2. IInv => AnsweredOnce
  BY <1>1 DEF AnsweredOnce
<1>. QED
  BY <1>2, InductiveInvariant, PTL

\* While the client is not running, rpcInvoke sends nothing.
LEMMA InvokeSendsNothing ==
  ASSUME NEW c, NEW targets, state # "started", RpcInvoke(c, targets)
  PROVE  UNCHANGED sent
BY DEF RpcInvoke

\* Each step of a closed client, with no start under way, keeps it closed and
\* adds nothing to what was sent.
LEMMA QuietStep ==
  ASSUME IInv, state = "closed", ticks = 0, [Next]_vars
  PROVE  state' = "closed" /\ \A d \in Calls : sent'[d] \subseteq sent[d]
<1> USE DEF client, calls, remote
<1>0. sent \in [Calls -> SUBSET Servers]
  BY DEF IInv, Types
<1>1. CASE \/ Start \/ Tick \/ Stop
           \/ \E p \in Range(Paths) : AddProxy(Code[p]) \/ AddProxy(NewCode[p])
  BY <1>1 DEF Start, Tick, Stop, AddProxy
<1>2. ASSUME NEW c \in Calls, Call(c)
      PROVE  UNCHANGED <<state, sent>>
  <2>1. ASSUME NEW m, NEW t,
               CallRouted(c, m) \/ CallServer(c, m, t) \/ CallAll(c, m, t)
        PROVE  FALSE
    BY <2>1 DEF CallRouted, CallServer, CallAll, MayCall
  <2>2. ASSUME NEW m, NEW s, CallDirect(c, m, s) \/ Routed(c, s)
        PROVE  UNCHANGED <<state, sent>>
    BY <2>2, InvokeSendsNothing DEF CallDirect, Routed
  <2>. QED
    BY <1>2, <2>1, <2>2 DEF Call, RouteFailed
<1>3. ASSUME NEW c \in Calls, Answer(c)
      PROVE  UNCHANGED state /\ \A d \in Calls : sent'[d] \subseteq sent[d]
  <2>1. ASSUME NEW s, NEW x,
               \/ Reply(c, x) \/ Timeout(c, s)
               \/ Notice(c, s) \/ CutOff(c, s) \/ CutOffWs2(c, s)
        PROVE  UNCHANGED <<state, sent>>
    BY <2>1 DEF Reply, Timeout, Notice, CutOff, CutOffWs2
  <2>2. ASSUME NEW s, Refuse(c, s)
        PROVE  UNCHANGED state /\ \A d \in Calls : sent'[d] \subseteq sent[d]
    BY <1>0, <2>2 DEF Refuse
  <2>. QED
    BY <1>3, <2>1, <2>2 DEF Answer
<1>4. CASE Remote
  <2>1. ASSUME NEW c \in Calls, NEW s \in Servers, Serve(c, s) \/ Lose(c, s)
        PROVE  UNCHANGED state /\ \A d \in Calls : sent'[d] \subseteq sent[d]
    BY <1>0, <2>1 DEF Serve, Answered, Lose
  <2>2. ASSUME NEW s, NEW p, Reload(s, p)
        PROVE  UNCHANGED <<state, sent>>
    BY <2>2 DEF Reload
  <2>. QED
    BY <1>4, <2>1, <2>2 DEF Remote
<1>5. CASE UNCHANGED vars
  BY <1>5 DEF vars
<1>. QED
  BY <1>1, <1>2, <1>3, <1>4, <1>5 DEF Next

\* A client that was stopped stays closed and sends nothing, whatever routers
\* call back later.
THEOREM StoppedStaysQuiet == Spec => StoppedIsQuiet
<1>1. IInv /\ [Next]_vars
        => [state = "closed" /\ ticks = 0 =>
              state' = "closed" /\ \A c \in Calls : sent'[c] \subseteq sent[c]]_vars
  BY QuietStep
<1>. QED
  BY <1>1, InductiveInvariant, PTL DEF Spec, StoppedIsQuiet

-----------------------------------------------------------------------------
(* A least and a greatest element, for proofs by induction.                *)

LEMMA NatLess == IsWellFoundedOn({x \in Nat \X Nat : x[1] < x[2]}, Nat)
BY NatLessThanWellFounded DEF OpToRel

\* A set of natural numbers that is not empty has a least element.
LEMMA Least ==
  ASSUME NEW S \in SUBSET Nat, S # {}
  PROVE  \E n \in S : \A k \in S : n <= k
<1>1. PICK n \in S : \A k \in S : ~(<<k, n>> \in {x \in Nat \X Nat : x[1] < x[2]})
  BY NatLess, WFMin
<1>2. \A k \in S : ~(k < n)
  BY <1>1
<1>. QED
  BY <1>2

\* A bounded one has a greatest.
LEMMA Greatest ==
  ASSUME NEW k \in Nat, NEW S \in SUBSET (1 .. k), S # {}
  PROVE  Max(S) \in S /\ \A x \in S : Max(S) >= x
<1> DEFINE Bounds == {b \in Nat : \A x \in S : x <= b}
<1>1. k \in Bounds
  OBVIOUS
<1>2. PICK b \in Bounds : \A c \in Bounds : b <= c
  BY <1>1, Least
<1>3. b \in S
  <2>1. SUFFICES ASSUME b \notin S PROVE FALSE
    OBVIOUS
  <2>2. \A x \in S : x \in Nat /\ x >= 1 /\ x <= b /\ x # b
    BY <2>1, <1>2
  <2>3. b \in Nat /\ b >= 1
    <3>1. PICK x \in S : x \in Nat
      BY <2>2
    <3>. QED
      BY <3>1, <2>2, <1>2
  <2>4. \A x \in S : x <= b - 1
    BY <2>2, <2>3
  <2>5. b - 1 \in Bounds
    BY <2>3, <2>4
  <2>. QED
    BY <2>3, <2>5, <1>2
<1>. QED
  BY <1>2, <1>3 DEF Max

-----------------------------------------------------------------------------
(* How genServicesMap enumerates the names of the services.                *)

\* An enumeration of a finite set has each of its elements at some position.
LEMMA EnumerationHolds ==
  ASSUME NEW S, IsFiniteSet(S)
  PROVE  /\ SetToSeq(S) \in [1 .. Cardinality(S) -> S] /\ Cardinality(S) \in Nat
         /\ \A x \in S : \E j \in 1 .. Cardinality(S) : SetToSeq(S)[j] = x
<1> DEFINE N == 1 .. Cardinality(S)
<1>1. Cardinality(S) \in Nat /\ \E f : f \in Bijection(N, S)
  BY FS_CardinalityType DEF ExistsBijection
<1>2. \E f \in [N -> S] : IsInjective(f)
  BY <1>1 DEF Bijection, Injection
<1>3. SetToSeq(S) \in [N -> S] /\ IsInjective(SetToSeq(S))
  BY <1>2, Zenon DEF SetToSeq
<1>4. SetToSeq(S) \in Injection(N, S)
  BY <1>3 DEF Injection
<1>5. IsFiniteSet(N) /\ Cardinality(N) = Cardinality(S)
  BY <1>1, FS_Interval
<1>6. SetToSeq(S) \in Surjection(N, S)
  BY <1>4, <1>5, FS_Injection
<1>. QED
  BY <1>1, <1>3, <1>6 DEF Surjection

\* The names of finitely many methods, up to part n, are all enumerated.
LEMMA AllNamesListed ==
  ASSUME NEW known, IsFiniteSet(known), NEW n
  PROVE  LET N == {SubSeq(m, 1, n) : m \in known} IN
           /\ Enumerated(known, n) \in Seq(N)
           /\ \A m \in known : \E j \in 1 .. Len(Enumerated(known, n)) :
                Enumerated(known, n)[j] = SubSeq(m, 1, n)
<1> DEFINE N == {SubSeq(m, 1, n) : m \in known}
           f == [m \in known |-> SubSeq(m, 1, n)]
<1>1. f \in Surjection(known, N)
  BY DEF Surjection
<1>2. IsFiniteSet(N)
  BY <1>1, FS_Surjection
<1>3. Enumerated(known, n) = SetToSeq(N)
  BY DEF Enumerated
<1>4. \A m \in known : SubSeq(m, 1, n) \in N
  OBVIOUS
<1>. HIDE DEF N
<1>5. /\ SetToSeq(N) \in [1 .. Cardinality(N) -> N] /\ Cardinality(N) \in Nat
      /\ \A x \in N : \E j \in 1 .. Cardinality(N) : SetToSeq(N)[j] = x
  BY <1>2, EnumerationHolds
<1>6. SetToSeq(N) \in Seq(N) /\ Len(SetToSeq(N)) = Cardinality(N)
  BY <1>5
<1>7. \A m \in known : \E j \in 1 .. Len(SetToSeq(N)) : SetToSeq(N)[j] = SubSeq(m, 1, n)
  BY <1>4, <1>5, <1>6
<1>. QED
  BY <1>3, <1>6, <1>7 DEF N

\* A name of a list is at the position that codes it.
LEMMA PositionHolds ==
  ASSUME NEW N, NEW list \in Seq(N), NEW j \in 1 .. Len(list)
  PROVE  /\ Position(list, list[j]) \in 0 .. Len(list) - 1
         /\ list[Position(list, list[j]) + 1] = list[j]
<1> DEFINE S == {1} \union {i \in DOMAIN list : list[i] = list[j]}
<1>1. Len(list) \in Nat /\ DOMAIN list = 1 .. Len(list)
  OBVIOUS
<1>2. S \in SUBSET (1 .. Len(list)) /\ S # {} /\ j \in S
  BY <1>1
<1>3. Max(S) \in S /\ \A x \in S : Max(S) >= x
  BY <1>1, <1>2, Greatest
<1>4. Max(S) \in 1 .. Len(list) /\ Max(S) >= j
  BY <1>2, <1>3
<1>5. list[Max(S)] = list[j]
  BY <1>3, <1>4
<1>6. Position(list, list[j]) = Max(S) - 1
  BY DEF Position
<1>. HIDE DEF S
<1>. QED
  BY <1>1, <1>4, <1>5, <1>6

\* encodeClient codes the names of a method of the services so that decodeServer
\* reads that method, whatever names are shared.
THEOREM CodeIsRead ==
  ASSUME NEW known, IsFiniteSet(known), NEW m \in known,
         NEW T, m \in Seq(T), Len(m) = 3
  PROVE  DecodeServer(EncodeClient(m, GenServicesMap(known)),
                      GenServicesMap(known)) = [n \in 1 .. 3 |-> m[n]]
<1> DEFINE map == GenServicesMap(known)
<1>2. ASSUME NEW n \in 1 .. 3
      PROVE  /\ Position(map[n], m[n]) < Len(map[n])
             /\ map[n][Position(map[n], m[n]) + 1] = m[n]
  <2> DEFINE names == Enumerated(known, n)
             N == {SubSeq(l, 1, n) : l \in known}
  <2>1. /\ names \in Seq(N)
        /\ \E j \in 1 .. Len(names) : names[j] = SubSeq(m, 1, n)
    BY AllNamesListed
  <2>2. map[n] = [j \in DOMAIN names |-> names[j][n]]
    BY <1>2 DEF GenServicesMap
  <2> HIDE DEF map, names, N
  <2>3. Len(names) \in Nat /\ DOMAIN names = 1 .. Len(names)
    BY <2>1
  <2>4. /\ map[n] \in Seq({names[j][n] : j \in 1 .. Len(names)})
        /\ Len(map[n]) = Len(names)
    BY <2>2, <2>3
  <2>5. PICK j \in 1 .. Len(names) : names[j] = SubSeq(m, 1, n)
    BY <2>1
  <2>6. SubSeq(m, 1, n)[n] = m[n]
    <3>1. \A k \in 1 .. n : m[k] \in T
      <4>. SUFFICES ASSUME NEW k \in 1 .. n
                    PROVE  m[k] \in T
        OBVIOUS
      <4>1. k \in 1 .. Len(m)
        BY <1>2
      <4>. QED
        BY <4>1, ElementOfSeq
    <3>2. \A k \in 1 .. n - 1 + 1 : SubSeq(m, 1, n)[k] = m[1 + k - 1]
      BY <1>2, <3>1, SubSeqProperties
    <3>. QED
      BY <1>2, <3>2
  <2>7. j \in 1 .. Len(map[n]) /\ map[n][j] = m[n]
    BY <2>2, <2>3, <2>4, <2>5, <2>6
  <2>8. /\ Position(map[n], m[n]) \in 0 .. Len(map[n]) - 1
        /\ map[n][Position(map[n], m[n]) + 1] = m[n]
    BY <2>4, <2>7, PositionHolds
  <2>. QED
    BY <2>3, <2>4, <2>8
<1>3. EncodeClient(m, map) = [n \in 1 .. 3 |-> Position(map[n], m[n])]
  BY DEF EncodeClient
<1>. HIDE DEF map
<1>4. DecodeServer(EncodeClient(m, map), map) = [n \in 1 .. 3 |-> m[n]]
  BY <1>2, <1>3 DEF DecodeServer
<1>. QED
  BY <1>4 DEF map

-----------------------------------------------------------------------------
(* How loadRemoteServices puts the paths together.                         *)

\* What is loaded from a path is its code.
LEMMA OnePath ==
  ASSUME NEW p \in Range(Paths)
  PROVE  LoadRemoteServices(<<p>>, NewCode) \subseteq AllCode
<1>1. DOMAIN <<p>> = {1} /\ <<p>>[1] = p
  OBVIOUS
<1>2. LoadRemoteServices(<<p>>, NewCode) \subseteq UNION {NewCode[<<p>>[i]] : i \in {1}}
  BY <1>1 DEF LoadRemoteServices
<1>. QED
  BY <1>1, <1>2 DEF AllCode

\* The services a server is created with.
LEMMA CreatedCode ==
  Created \subseteq AllCode /\ IsFiniteSet(Created)
<1>1. \A i \in DOMAIN Paths : Paths[i] \in Range(Paths)
  BY DEF Range
<1>2. Created \subseteq UNION {Code[Paths[i]] : i \in DOMAIN Paths}
  BY DEF Created, LoadRemoteServices
<1>3. Created \subseteq AllCode
  BY <1>1, <1>2 DEF AllCode
<1>. QED
  BY <1>3, FS_Subset, CodeAssumption

\* The dispatcher is handed the method that was called, if the coding knows it.
LEMMA ReceivedIsCalled ==
  ASSUME NEW m \in AllCode, coded => m \in Created
  PROVE  Received(m) = m
<1>1. CASE ~coded
  BY <1>1 DEF Received
<1>2. CASE coded
  <2>1. m = <<m[1], m[2], m[3]>>
    BY CodeAssumption
  <2>2. m \in Seq({m[1], m[2], m[3]}) /\ Len(m) = 3
    <3>1. PICK a, b, c : m = <<a, b, c>>
      BY <2>1
    <3>2. <<a, b, c>> \in Seq({a, b, c}) /\ Len(<<a, b, c>>) = 3
      OBVIOUS
    <3>3. m[1] = a /\ m[2] = b /\ m[3] = c
      BY <3>1
    <3>. QED
      BY <3>1, <3>2, <3>3
  <2>3. Received(m) = [n \in 1 .. 3 |-> m[n]]
    BY <1>2, <2>2, CreatedCode, CodeIsRead DEF Received, ServicesMap
  <2>4. [n \in 1 .. 3 |-> m[n]] = m
    BY <2>1, <2>2
  <2>. QED
    BY <2>3, <2>4
<1>. QED
  BY <1>1, <1>2

-----------------------------------------------------------------------------
(* The methods that run.                                                   *)

\* The client, and the services of each server.
StartInv ==
  /\ state \in {"inited", "started", "closed"}
  /\ starts \in 0 .. MaxStarts
  /\ ticks + listeners = starts
  /\ proxies \subseteq AllCode /\ mailbox \in Mailboxes

LoadedInv ==
  DOMAIN services = Servers /\ \A s \in Servers : services[s] \subseteq AllCode

\* A call that is not made, or waits for its router, has nothing under way; a
\* server that answered has no request left; what ran is what was called.
RunOf(c) ==
  /\ made[c] # NotMade => made[c].method \in AllCode
  /\ made[c] = NotMade \/ c \in routing =>
       sent[c] = {} /\ replies[c] = {} /\ ran[c] = {}
  /\ \A x \in replies[c] : x.from \notin sent[c]
  /\ (coded => made[c].method \in Created) =>
       \A x \in ran[c] : x.method \in {made[c].method, NoMethod}

RunInv == IInv /\ StartInv /\ LoadedInv /\ \A c \in Calls : RunOf(c)

LEMMA InitRunInv ==
  ASSUME Init
  PROVE  RunInv
<1>1. StartInv
  BY ClientAssumption DEF Init, StartInv
<1>2. LoadedInv
  BY CreatedCode DEF Init, LoadedInv
<1>3. ASSUME NEW c \in Calls
      PROVE  RunOf(c)
  <2>1. made[c] = NotMade /\ sent[c] = {} /\ replies[c] = {} /\ ran[c] = {}
    BY DEF Init
  <2>. QED
    BY <2>1 DEF RunOf
<1>. QED
  BY <1>1, <1>2, <1>3, InitIInv DEF RunInv

\* A step that adds nothing to a call.
LEMMA RunKept ==
  ASSUME NEW c \in Calls, RunOf(c), mailbox' = mailbox, made'[c] = made[c],
         c \in routing' => c \in routing, sent'[c] \subseteq sent[c],
         replies'[c] \subseteq replies[c], ran'[c] = ran[c]
  PROVE  RunOf(c)'
BY DEF RunOf, coded

LEMMA ClientRunStep ==
  ASSUME RunInv,
         \/ Start \/ Tick \/ Stop
         \/ \E p \in Range(Paths) : AddProxy(Code[p]) \/ AddProxy(NewCode[p])
         \/ \E s \in Servers, p \in Range(Paths) : Reload(s, p)
         \/ UNCHANGED vars
  PROVE  StartInv' /\ LoadedInv' /\ \A c \in Calls : RunOf(c)'
<1> USE DEF client, calls, remote
<1>1. UNCHANGED <<made, routing, sent, replies, ran, mailbox>>
  BY DEF Start, Tick, Stop, AddProxy, Reload, vars
<1>2. \A c \in Calls : RunOf(c)'
  BY <1>1, RunKept DEF RunInv
<1>3. StartInv'
  <2>1. ticks \in Nat /\ listeners \in Nat
    BY DEF RunInv, IInv, Types
  <2>2. ASSUME NEW p \in Range(Paths), AddProxy(Code[p]) \/ AddProxy(NewCode[p])
        PROVE  proxies' \subseteq AllCode
    BY <2>2 DEF AddProxy, InsertProxy, AllCode, RunInv, StartInv
  <2>3. CASE \E p \in Range(Paths) : AddProxy(Code[p]) \/ AddProxy(NewCode[p])
    BY <2>2, <2>3 DEF AddProxy, RunInv, StartInv
  <2>4. CASE Start \/ Tick \/ Stop
    BY <2>1, <2>4, ClientAssumption DEF Start, Tick, Stop, RunInv, StartInv
  <2>5. CASE UNCHANGED <<state, starts, ticks, listeners, proxies>>
    BY <1>1, <2>5 DEF RunInv, StartInv
  <2>. QED
    BY <2>3, <2>4, <2>5 DEF Reload, vars
<1>4. LoadedInv'
  <2>1. ASSUME NEW s \in Servers, NEW p \in Range(Paths), Reload(s, p)
        PROVE  LoadedInv'
    <3>1. services' = [services EXCEPT ![s] = LoadRemoteServices(<<p>>, NewCode)]
      BY <2>1 DEF Reload
    <3>. QED
      BY <3>1, OnePath DEF RunInv, LoadedInv
  <2>2. CASE UNCHANGED services
    BY <2>2 DEF RunInv, LoadedInv
  <2>. QED
    BY <2>1, <2>2 DEF Start, Tick, Stop, AddProxy, vars
<1>. QED
  BY <1>2, <1>3, <1>4

\* Call c is made, or routed.
LEMMA CallRunStep ==
  ASSUME RunInv, NEW c \in Calls, Call(c)
  PROVE  StartInv' /\ LoadedInv' /\ \A d \in Calls : RunOf(d)'
<1> USE DEF client, calls, remote
<1>0. Types /\ StageInv /\ RunOf(c)
  BY DEF RunInv, IInv
<1>1. UNCHANGED <<client, remote>>
  BY DEF Call, CallRouted, CallServer, CallDirect, CallAll, Routed, RouteFailed
<1>2. StartInv' /\ LoadedInv'
  BY <1>1 DEF RunInv, StartInv, LoadedInv
<1>3. made[c] = NotMade \/ c \in routing
  BY DEF Call, CallRouted, CallServer, CallDirect, CallAll, MayCall, Routed, RouteFailed
<1>4. replies[c] = {} /\ ran[c] = {} /\ sent[c] = {}
  BY <1>0, <1>3 DEF RunOf
<1>5. ASSUME NEW targets, RpcInvoke(c, targets)
      PROVE  \A d \in Calls \ {c} : sent'[d] = sent[d]
  BY <1>0, <1>5 DEF RpcInvoke, Types
<1>6. ASSUME NEW m \in AllCode, NEW targets \in SUBSET Servers,
             NEW broadcast \in BOOLEAN, MakeCall(c, m, targets, broadcast)
      PROVE  /\ made'[c].method = m /\ made'[c] # NotMade
             /\ \A d \in Calls \ {c} : made'[d] = made[d]
  <2>1. made'[c].method = m
    BY <1>0, <1>6 DEF MakeCall, Types
  <2>. QED
    BY <1>0, <1>6, <2>1, MakeCallStep
<1>7. \A d \in Calls \ {c} :
        made'[d] = made[d] /\ sent'[d] = sent[d] /\ (d \in routing' <=> d \in routing)
  <2>1. ASSUME NEW m \in AllCode, CallRouted(c, m)
        PROVE  \A d \in Calls \ {c} :
          made'[d] = made[d] /\ sent'[d] = sent[d] /\ (d \in routing' <=> d \in routing)
    BY <1>6, <2>1 DEF CallRouted
  <2>2. ASSUME NEW m \in AllCode, NEW s \in Servers,
               CallServer(c, m, s) \/ CallDirect(c, m, s)
        PROVE  \A d \in Calls \ {c} :
          made'[d] = made[d] /\ sent'[d] = sent[d] /\ (d \in routing' <=> d \in routing)
    BY <1>5, <1>6, <2>2 DEF CallServer, CallDirect
  <2>3. ASSUME NEW m \in AllCode, NEW targets \in SUBSET Servers, CallAll(c, m, targets)
        PROVE  \A d \in Calls \ {c} :
          made'[d] = made[d] /\ sent'[d] = sent[d] /\ (d \in routing' <=> d \in routing)
    BY <1>5, <1>6, <2>3 DEF CallAll
  <2>4. ASSUME NEW s \in Servers, Routed(c, s)
        PROVE  \A d \in Calls \ {c} :
          made'[d] = made[d] /\ sent'[d] = sent[d] /\ (d \in routing' <=> d \in routing)
    BY <1>0, <1>5, <2>4 DEF Routed, Types
  <2>5. CASE RouteFailed(c)
    BY <2>5 DEF RouteFailed
  <2>. QED
    BY <2>1, <2>2, <2>3, <2>4, <2>5 DEF Call
<1>8. made'[c].method \in AllCode
  <2>1. ASSUME NEW m \in AllCode, NEW s \in Servers,
               CallServer(c, m, s) \/ CallDirect(c, m, s)
        PROVE  made'[c].method \in AllCode
    BY <1>6, <2>1 DEF CallServer, CallDirect
  <2>2. ASSUME c \in routing
        PROVE  made[c].method \in AllCode
    BY <1>0, <2>2 DEF StageInv, RunOf
  <2>3. ASSUME NEW s \in Servers, Routed(c, s)
        PROVE  made'[c].method \in AllCode
    BY <1>0, <2>2, <2>3 DEF Routed, Types, CallType
  <2>4. CASE RouteFailed(c)
    BY <2>2, <2>4 DEF RouteFailed
  <2>5. ASSUME NEW m \in AllCode, NEW targets \in SUBSET Servers, CallAll(c, m, targets)
        PROVE  made'[c].method \in AllCode
    BY <1>6, <2>5 DEF CallAll
  <2>6. ASSUME NEW m \in AllCode, CallRouted(c, m)
        PROVE  made'[c].method \in AllCode
    <3>1. MakeCall(c, m, {}, FALSE) /\ {} \in SUBSET Servers
      BY <2>6 DEF CallRouted
    <3>. QED
      BY <1>6, <3>1
  <2>. QED
    BY <2>1, <2>3, <2>4, <2>5, <2>6 DEF Call
<1>9. sent'[c] = {} \/ (made'[c] # NotMade /\ c \notin routing')
  <2>1. made'[c] # NotMade
    BY <1>8, NoMethodAssumption DEF NotMade
  <2>2. ASSUME made[c] = NotMade
        PROVE  c \notin routing
    BY <1>0, <2>2 DEF StageInv
  <2>. QED
    BY <1>4, <2>1, <2>2
       DEF Call, CallRouted, CallServer, CallDirect, CallAll, MayCall, Routed, RouteFailed
<1>10. RunOf(c)'
  BY <1>1, <1>4, <1>8, <1>9 DEF RunOf
<1>11. ASSUME NEW d \in Calls \ {c}
       PROVE  RunOf(d)'
  <2>1. RunOf(d)
    BY DEF RunInv
  <2>. QED
    BY <1>1, <1>7, <2>1, RunKept
<1>. QED
  BY <1>2, <1>10, <1>11

LEMMA AnswerRunStep ==
  ASSUME RunInv, NEW c \in Calls, Answer(c)
  PROVE  StartInv' /\ LoadedInv' /\ \A d \in Calls : RunOf(d)'
<1> USE DEF client, calls, remote
<1>0. Types
  BY DEF RunInv, IInv
<1>1. UNCHANGED <<client, made, routing, mailbox, services, ran>>
  BY DEF Answer, Reply, Timeout, Refuse, Notice, CutOff, CutOffWs2
<1>2. \A d \in Calls : sent'[d] \subseteq sent[d] /\ replies'[d] \subseteq replies[d]
  <2>1. ASSUME NEW x \in replies[c], Reply(c, x)
        PROVE  UNCHANGED sent /\ \A d \in Calls : replies'[d] \subseteq replies[d]
    BY <1>0, <2>1 DEF Reply, Types
  <2>2. ASSUME NEW s \in Servers, Refuse(c, s)
        PROVE  UNCHANGED replies /\ \A d \in Calls : sent'[d] \subseteq sent[d]
    BY <1>0, <2>2 DEF Refuse, Types
  <2>3. ASSUME NEW s \in Servers, Notice(c, s) \/ CutOff(c, s) \/ CutOffWs2(c, s)
        PROVE  UNCHANGED <<sent, replies>>
    BY <2>3 DEF Notice, CutOff, CutOffWs2
  <2>4. ASSUME NEW s \in Servers, Timeout(c, s)
        PROVE  UNCHANGED <<sent, replies>>
    BY <2>4 DEF Timeout
  <2>. QED
    BY <2>1, <2>2, <2>3, <2>4 DEF Answer
<1>3. StartInv' /\ LoadedInv'
  BY <1>1 DEF RunInv, StartInv, LoadedInv
<1>4. ASSUME NEW d \in Calls
      PROVE  RunOf(d)'
  <2>1. RunOf(d)
    BY DEF RunInv
  <2>. QED
    BY <1>1, <1>2, <2>1, RunKept
<1>. QED
  BY <1>3, <1>4

LEMMA ServeRunStep ==
  ASSUME RunInv, NEW c \in Calls, NEW s \in Servers, Serve(c, s) \/ Lose(c, s)
  PROVE  StartInv' /\ LoadedInv' /\ \A d \in Calls : RunOf(d)'
<1> USE DEF client, calls, remote
<1>0. Types /\ StageInv /\ RunOf(c)
  BY DEF RunInv, IInv
<1>1. /\ s \in sent[c] /\ sent' = [sent EXCEPT ![c] = @ \ {s}]
      /\ UNCHANGED <<client, made, routing, mailbox, services>>
  BY DEF Serve, Answered, Lose
<1>2. StartInv' /\ LoadedInv'
  BY <1>1 DEF RunInv, StartInv, LoadedInv
<1>3. sent'[c] = sent[c] \ {s} /\ \A d \in Calls \ {c} : sent'[d] = sent[d]
  BY <1>0, <1>1 DEF Types
<1> DEFINE method == Route(services[s], Received(made[c].method))
           run == [on |-> s, method |-> method]
<1>4. PICK error \in BOOLEAN :
        \/ UNCHANGED <<replies, ran>>
        \/ /\ ran' = [ran EXCEPT ![c] = @ \union {run}]
           /\ replies' = [replies EXCEPT ![c] =
                            @ \union {[from |-> s, error |-> error]}]
  BY DEF Serve, Answered, Lose
<1>5. /\ \A d \in Calls \ {c} : replies'[d] = replies[d] /\ ran'[d] = ran[d]
      /\ ran'[c] \subseteq ran[c] \union {run}
      /\ replies'[c] \subseteq replies[c] \union {[from |-> s, error |-> error]}
  BY <1>0, <1>4 DEF Types
<1>6. made[c] # NotMade /\ c \notin routing /\ made[c].method \in AllCode
  BY <1>0, <1>1 DEF RunOf
<1>7. ASSUME coded => made[c].method \in Created
      PROVE  method \in {made[c].method, NoMethod}
  <2>1. Received(made[c].method) = made[c].method
    BY <1>6, <1>7, ReceivedIsCalled
  <2>. QED
    BY <2>1 DEF Route
<1>8. RunOf(c)'
  <2>1. made'[c] # NotMade /\ c \notin routing' /\ made'[c] = made[c] /\ mailbox' = mailbox
    BY <1>1, <1>6
  <2>2. \A x \in replies'[c] : x.from \notin sent'[c]
    BY <1>0, <1>3, <1>5 DEF RunOf
  <2>3. (coded => made[c].method \in Created) =>
          \A x \in ran'[c] : x.method \in {made[c].method, NoMethod}
    <3>1. run.method = method
      OBVIOUS
    <3> HIDE DEF method, run
    <3>. QED
      BY <1>0, <1>5, <1>7, <3>1 DEF RunOf
  <2>. QED
    BY <1>6, <2>1, <2>2, <2>3 DEF RunOf, coded
<1>9. ASSUME NEW d \in Calls \ {c}
      PROVE  RunOf(d)'
  <2>1. RunOf(d)
    BY DEF RunInv
  <2>. QED
    BY <1>1, <1>3, <1>5, <2>1, RunKept
<1>. QED
  BY <1>2, <1>8, <1>9

LEMMA NextRunStep ==
  ASSUME RunInv, [Next]_vars
  PROVE  RunInv'
<1>1. IInv'
  BY NextStep DEF RunInv
<1>2. CASE Remote
  BY <1>1, <1>2, ClientRunStep, ServeRunStep DEF Remote, RunInv
<1>3. CASE \E c \in Calls : Call(c) \/ Answer(c)
  BY <1>1, <1>3, CallRunStep, AnswerRunStep DEF RunInv
<1>. QED
  BY <1>1, <1>2, <1>3, ClientRunStep DEF Next, RunInv

\* The inductive invariant with the methods that run.
THEOREM RunInvariant == Spec => []RunInv
BY InitRunInv, NextRunStep, PTL DEF Spec

\* Every state has the types of the client.
THEOREM TypeCorrect == Spec => []TypeOK
<1>1. RunInv => TypeOK
  <2>. SUFFICES ASSUME RunInv PROVE TypeOK
    OBVIOUS
  <2>1. StartInv /\ LoadedInv /\ Types /\ StageInv
    BY DEF RunInv, IInv
  <2>2. ASSUME NEW c \in Calls
        PROVE  /\ made[c].method \in AllCode \union {NoMethod}
               /\ sent[c] \union pending[c] \union nexts[c] \subseteq Servers
               /\ \A x \in replies[c] : x.from \in Servers \ sent[c]
               /\ Range(told[c]) \subseteq {"ok", "error"}
    <3>1. made[c].method \in AllCode \union {NoMethod}
      BY <2>1 DEF Types, CallType
    <3>2. \A x \in replies[c] : x.from \in Servers \ sent[c]
      BY <2>1 DEF Types, RunInv, RunOf
    <3>3. Range(told[c]) \subseteq {"ok", "error"}
      BY <2>1, RangeOfSeq DEF Types
    <3>. QED
      BY <2>1, <3>1, <3>2, <3>3 DEF Types
  <2>3. routing \subseteq {c \in Calls : made[c] # NotMade}
    BY <2>1 DEF Types, StageInv
  <2>. QED
    BY <2>1, <2>2, <2>3 DEF TypeOK, StartInv, LoadedInv
<1>. QED
  BY <1>1, RunInvariant, PTL

\* A server runs the method that was called, or none.
THEOREM CalledMethodRuns == Spec => []RunsCalledMethod
<1>1. RunInv => RunsCalledMethod
  BY DEF RunInv, RunOf, RunsCalledMethod
<1>. QED
  BY <1>1, RunInvariant, PTL
=============================================================================
