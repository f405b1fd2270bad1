------------------------- MODULE MailStation_proofs -------------------------
(***************************************************************************)
(* Theorems about MailStation, for every value of its constants: its type  *)
(* invariant, that no connection escapes the map which stop closes, that a *)
(* stopped station stays closed unless it is reopened, and that the end of *)
(* an open mailbox closes no other.                                        *)
(***************************************************************************)
EXTENDS MailStation, SequenceTheorems, TLAPS

-----------------------------------------------------------------------------
(* The types, by the groups of the variables.                              *)

ConfigType ==
  /\ options \in Options
  /\ state \in {"inited", "started", "closed"}
  /\ ticks \in 0 .. MaxStarts /\ graceTimers \in Nat
  /\ servers \subseteq Servers /\ onlines \subseteq Servers

LinksType ==
  /\ boxes \in Seq(Box)
  /\ mailboxes \in [Servers -> 0 .. Len(boxes)]
  /\ connecting \subseteq Servers
  /\ cutBox \in 0 .. Len(boxes) /\ cut \subseteq Calls

WaitingType ==
  /\ pendings \in [Servers -> Seq(Calls)]
  /\ \A s \in Servers : Len(pendings[s]) <= PendingSize + 1
  /\ filtering \subseteq Calls \X Servers
  /\ returning \subseteq Calls \X Servers
  /\ inflight \subseteq (1 .. Len(boxes)) \X Calls

RunningType ==
  /\ serversMap \in Seq(Servers)
  /\ agenda \in Seq(Frames)
  /\ inCallback \in BOOLEAN /\ crashed \in BOOLEAN

HistoryType ==
  /\ issued \subseteq Calls /\ notified \subseteq Calls /\ reported \subseteq Calls
  /\ overflowed \subseteq Calls /\ removed \subseteq Servers
  /\ answers \in [Calls -> Seq({"ok", "error"})]
  /\ sends \in [Calls -> Nat]
  /\ adds \in 0 .. MaxAdds /\ losses \in 0 .. MaxLosses

LEMMA TypeParts ==
  TypeOK <=> ConfigType /\ LinksType /\ WaitingType /\ RunningType /\ HistoryType
  BY DEF TypeOK, ConfigType, LinksType, WaitingType, RunningType, HistoryType

-----------------------------------------------------------------------------
(* The inductive invariant.                                                *)

\* A server's mailbox is a mailbox of that server, and its newest one.
MapInv ==
  \A s \in Servers : mailboxes[s] # 0 =>
    /\ boxes[mailboxes[s]].server = s
    /\ \A n \in DOMAIN boxes : boxes[n].server = s => n <= mailboxes[s]

\* Stopped, and after the grace time, the mailboxes of the station are closed.
Quiet == state = "closed" /\ graceTimers = 0
StopInv ==
  Quiet => \A m \in DOMAIN boxes :
             boxes[m].phase \in {"failed", "closed"} \/ Orphaned(m)

IInv == TypeOK /\ MapInv /\ NoLeakedConnection /\ StopInv

-----------------------------------------------------------------------------
(* Sequences and frames.                                                   *)

LEMMA MappedSeq ==
  ASSUME NEW S, NEW q \in Seq(S), NEW f \in [DOMAIN q -> S]
  PROVE  f \in Seq(S) /\ Len(f) = Len(q) /\ DOMAIN f = DOMAIN q
<1>1. DOMAIN q = 1 .. Len(q) /\ Len(q) \in Nat
  BY LenProperties
<1>2. f \in [1 .. Len(q) -> S]
  BY <1>1
<1>3. f \in Seq(S)
  BY <1>1, <1>2
<1>4. Len(f) = Len(q)
  BY <1>1, <1>2, <1>3, LenProperties
<1> QED BY <1>3, <1>4

LEMMA EmptyIsSeq == ASSUME NEW S PROVE <<>> \in Seq(S)
  OBVIOUS

LEMMA OneFrame ==
  ASSUME NEW op \in Ops \ {"flushed"}, NEW c \in Calls, NEW s \in Servers
  PROVE  <<Frame(op, c, s)>> \in Seq(Frames)
<1>1. Frame(op, c, s) \in Frames
  BY DEF Frame, Frames
<1> QED BY <1>1

LEMMA TwoFrames ==
  ASSUME NEW op \in Ops \ {"flushed"}, NEW op2 \in Ops \ {"flushed"},
         NEW c \in Calls, NEW s \in Servers
  PROVE  <<Frame(op, c, s), Frame(op2, c, s)>> \in Seq(Frames)
<1>1. Frame(op, c, s) \in Frames /\ Frame(op2, c, s) \in Frames
  BY DEF Frame, Frames
<1> QED BY <1>1

LEMMA BoxServer ==
  ASSUME boxes \in Seq(Box)
  PROVE  \A m \in DOMAIN boxes : boxes[m].server \in Servers
<1>1. \A m \in DOMAIN boxes : boxes[m] \in Box
  BY ElementOfSeq, LenProperties
<1> QED BY <1>1 DEF Box

\* The frame that runs, and those behind it.
LEMMA RunningFrame ==
  ASSUME agenda \in Seq(Frames), NEW op \in Ops, Running(op)
  PROVE  /\ agenda # <<>> /\ Tail(agenda) \in Seq(Frames)
         /\ Head(agenda).server \in Servers
         /\ op # "flushed" => Head(agenda).call \in Calls
<1>1. agenda # <<>> /\ Head(agenda).op = op
  BY DEF Running
<1>2. Head(agenda) \in Frames /\ Tail(agenda) \in Seq(Frames)
  BY <1>1, HeadTailProperties
<1> QED BY <1>1, <1>2 DEF Frames

LEMMA ContinueType ==
  ASSUME NEW frames \in Seq(Frames), Tail(agenda) \in Seq(Frames),
         Continue(frames)
  PROVE  agenda' \in Seq(Frames)
  BY ConcatProperties DEF Continue

\* The flush of a queue.
LEMMA FlushType ==
  ASSUME WaitingType, NEW s \in Servers
  PROVE  FlushPending(s) \in Seq(Frames)
<1>1. CASE pendings[s] = <<>>
  BY <1>1 DEF FlushPending
<1>2. CASE pendings[s] # <<>>
  <2>1. pendings[s] \in Seq(Calls)
    BY DEF WaitingType
  <2>2. \A i \in 1 .. Len(pendings[s]) : pendings[s][i] \in Calls
    BY <2>1
  <2>3. \A i \in 1 .. Len(pendings[s]) :
          Frame("dispatch", pendings[s][i], s) \in Frames
    BY <2>2 DEF Frame, Frames, Ops
  <2>4. Dispatches(s) \in [1 .. Len(pendings[s]) -> Frames]
    BY <2>3 DEF Dispatches
  <2>5. Dispatches(s) \in Seq(Frames)
    BY <2>1, <2>4, LenProperties
  <2>6. Frame("flushed", NoCall, s) \in Frames
    BY DEF Frame, Frames
  <2>7. <<Frame("flushed", NoCall, s)>> \in Seq(Frames)
    BY <2>6
  <2> QED BY <1>2, <2>5, <2>7, ConcatProperties DEF FlushPending
<1> QED BY <1>1, <1>2

LEMMA OthersType ==
  ASSUME serversMap \in Seq(Servers), NEW s
  PROVE  /\ Others(s) \in Seq(Servers)
         /\ Others(s) # <<>> => Head(Others(s)) \in Servers
<1>1. Others(s) \in Seq(Servers)
  <2>1. CASE ~InList(s)
    BY <2>1 DEF Others
  <2>2. CASE InList(s)
    <3> DEFINE index == CHOOSE i \in DOMAIN serversMap : serversMap[i] = s
               left  == SubSeq(serversMap, 1, index - 1)
               right == SubSeq(serversMap, index + 1, Len(serversMap))
    <3>1. index \in DOMAIN serversMap
      BY <2>2 DEF InList
    <3>2. index \in 1 .. Len(serversMap) /\ Len(serversMap) \in Nat
      BY <3>1, LenProperties
    <3>3. left \in Seq(Servers)
      <4> HIDE DEF index
      <4> QED BY <3>2, SubSeqProperties
    <3>4. right \in Seq(Servers)
      <4> HIDE DEF index
      <4> QED BY <3>2, SubSeqProperties
    <3>5. Others(s) = left \o right
      BY <2>2 DEF Others
    <3> HIDE DEF left, right
    <3> QED BY <3>3, <3>4, <3>5, ConcatProperties
  <2> QED BY <2>1, <2>2
<1> QED BY <1>1, HeadTailProperties

-----------------------------------------------------------------------------
(* What a step does to the boxes.                                          *)

\* A mailbox keeps its server, and what has failed or is closed stays so.
Grown ==
  /\ options' = options
  /\ boxes' \in Seq(Box) /\ Len(boxes') >= Len(boxes)
  /\ \A m \in DOMAIN boxes :
       /\ boxes'[m].server = boxes[m].server
       /\ boxes'[m].echo => boxes[m].echo
       /\ boxes[m].broken => boxes'[m].broken
       /\ boxes[m].phase = "closed" => boxes'[m].phase = "closed"
       /\ boxes[m].phase = "failed" => boxes'[m].phase \in {"failed", "closed"}
       /\ boxes'[m].phase = "failed" => boxes[m].phase \in {"dialing", "failed"}
       /\ boxes'[m].phase = "dialing" => boxes[m].phase = "dialing"
       /\ boxes'[m].phase = "open" => boxes[m].phase \in {"dialing", "open"}

\* No mailbox is created.
SameBoxes == Grown /\ Len(boxes') = Len(boxes) /\ DOMAIN boxes' = DOMAIN boxes

LEMMA SameIsGrown ==
  ASSUME boxes \in Seq(Box), UNCHANGED <<options, boxes>>
  PROVE  SameBoxes
  BY DEF SameBoxes, Grown

LEMMA CloseBoxesStep ==
  ASSUME boxes \in Seq(Box), UNCHANGED options, NEW closing,
         CloseBoxes(closing)
  PROVE  /\ SameBoxes
         /\ \A m \in DOMAIN boxes :
              /\ m \in closing => boxes'[m].phase = "closed"
              /\ m \notin closing => boxes'[m] = boxes[m]
              /\ boxes'[m].echo = boxes[m].echo
<1>1. \A m \in DOMAIN boxes : boxes[m] \in Box
  BY ElementOfSeq, LenProperties
<1>2. \A m \in DOMAIN boxes :
        [boxes[m] EXCEPT !.phase = "closed"] \in Box
  BY <1>1 DEF Box, Phases
<1>3. boxes' \in [DOMAIN boxes -> Box]
  BY <1>1, <1>2 DEF CloseBoxes
<1>4. boxes' \in Seq(Box) /\ Len(boxes') = Len(boxes)
      /\ DOMAIN boxes' = DOMAIN boxes
  BY <1>3, MappedSeq
<1>5. \A m \in DOMAIN boxes :
        boxes'[m] = IF m \in closing THEN [boxes[m] EXCEPT !.phase = "closed"]
                    ELSE boxes[m]
  BY DEF CloseBoxes
<1>6. \A m \in DOMAIN boxes :
        /\ boxes'[m].server = boxes[m].server
        /\ boxes'[m].broken = boxes[m].broken
        /\ boxes'[m].echo = boxes[m].echo
        /\ m \in closing => boxes'[m].phase = "closed"
        /\ m \notin closing => boxes'[m] = boxes[m]
  BY <1>1, <1>5 DEF Box
<1>7. \A m \in DOMAIN boxes :
        boxes'[m].phase = boxes[m].phase \/ boxes'[m].phase = "closed"
  BY <1>6
<1>8. Len(boxes) \in Nat
  BY LenProperties
<1> QED BY <1>4, <1>6, <1>7, <1>8 DEF SameBoxes, Grown

LEMMA CloseAllStep ==
  ASSUME LinksType, UNCHANGED options, CloseAll
  PROVE  /\ SameBoxes
         /\ \A m \in DOMAIN boxes :
              /\ (\E s \in Servers : mailboxes[s] = m)
                   => boxes'[m].phase = "closed"
              /\ (\A s \in Servers : mailboxes[s] # m) => boxes'[m] = boxes[m]
              /\ boxes'[m].echo = boxes[m].echo
<1> DEFINE closing == {mailboxes[s] : s \in Servers} \ {0}
<1>1. CloseBoxes(closing)
  BY DEF CloseAll
<1>2. \A m \in DOMAIN boxes :
        m \in closing <=> \E s \in Servers : mailboxes[s] = m
  BY LenProperties DEF LinksType
<1> HIDE DEF closing
<1> QED BY <1>1, <1>2, CloseBoxesStep DEF LinksType

LEMMA DropBoxStep ==
  ASSUME LinksType, UNCHANGED options, NEW s \in Servers, DropBox(s)
  PROVE  /\ SameBoxes
         /\ mailboxes' = [mailboxes EXCEPT ![s] = 0]
         /\ \A m \in DOMAIN boxes :
              /\ m = mailboxes[s] => boxes'[m].phase = "closed"
              /\ m # mailboxes[s] => boxes'[m] = boxes[m]
              /\ boxes'[m].echo = boxes[m].echo
<1>1. CloseBoxes({mailboxes[s]})
  BY DEF DropBox
<1>2. mailboxes' = [mailboxes EXCEPT ![s] = 0]
  BY DEF DropBox
<1> QED BY <1>1, <1>2, CloseBoxesStep DEF LinksType

LEMMA CreateBoxStep ==
  ASSUME LinksType, UNCHANGED options, NEW s \in Servers, NEW c \in Calls,
         CreateBox(s, c)
  PROVE  /\ Grown
         /\ mailboxes' = [mailboxes EXCEPT ![s] = Len(boxes) + 1]
         /\ Len(boxes') = Len(boxes) + 1
         /\ DOMAIN boxes' = DOMAIN boxes \union {Len(boxes) + 1}
         /\ boxes'[Len(boxes) + 1] = NewBox(s, c)
         /\ \A m \in DOMAIN boxes : boxes'[m] = boxes[m]
<1>1. NewBox(s, c) \in Box
  BY DEF NewBox, Box, Phases
<1>2. boxes \in Seq(Box)
  BY DEF LinksType
<1>3. boxes' = Append(boxes, NewBox(s, c))
  BY DEF CreateBox
<1>4. /\ boxes' \in Seq(Box) /\ Len(boxes') = Len(boxes) + 1
      /\ \A m \in 1 .. Len(boxes) : boxes'[m] = boxes[m]
      /\ boxes'[Len(boxes) + 1] = NewBox(s, c)
  BY <1>1, <1>2, <1>3, AppendProperties
<1>5. Len(boxes) \in Nat /\ DOMAIN boxes = 1 .. Len(boxes)
      /\ DOMAIN boxes' = 1 .. Len(boxes')
  BY <1>2, <1>4, LenProperties
<1>6. DOMAIN boxes' = DOMAIN boxes \union {Len(boxes) + 1}
  BY <1>4, <1>5
<1>7. \A m \in DOMAIN boxes : boxes'[m] = boxes[m]
  BY <1>4, <1>5
<1>8. mailboxes' = [mailboxes EXCEPT ![s] = Len(boxes) + 1]
  BY DEF CreateBox
<1> QED BY <1>4, <1>5, <1>6, <1>7, <1>8 DEF Grown

LEMMA ConnectDoneStep ==
  ASSUME LinksType, NEW m \in DOMAIN boxes, ConnectDone(m)
  PROVE  /\ SameBoxes
         /\ mailboxes' = mailboxes
         /\ \A n \in DOMAIN boxes :
              /\ n # m => boxes'[n] = boxes[n]
              /\ boxes'[n].echo = boxes[n].echo
<1>1. boxes \in Seq(Box) /\ boxes[m] \in Box
  BY ElementOfSeq, LenProperties DEF LinksType
<1> DEFINE done == [boxes[m] EXCEPT !.connectDue = FALSE, !.listening = TRUE,
                      !.phase = IF @ = "dialing" THEN "open" ELSE @]
<1>2. done \in Box
  BY <1>1 DEF Box, Phases
<1>3. /\ done.server = boxes[m].server /\ done.broken = boxes[m].broken
      /\ done.echo = boxes[m].echo
      /\ done.phase = IF boxes[m].phase = "dialing" THEN "open"
                      ELSE boxes[m].phase
  BY <1>1 DEF Box
<1>4. boxes' = [boxes EXCEPT ![m] = done]
  BY <1>1 DEF ConnectDone
<1> HIDE DEF done
<1>5. boxes' \in Seq(Box) /\ Len(boxes') = Len(boxes)
      /\ DOMAIN boxes' = DOMAIN boxes
  BY <1>1, <1>2, <1>4, ExceptSeq
<1>6. boxes'[m] = done /\ \A n \in DOMAIN boxes : n # m => boxes'[n] = boxes[n]
  BY <1>1, <1>4
<1>7. options' = options /\ mailboxes' = mailboxes
  BY DEF ConnectDone, config
<1>8. Len(boxes) \in Nat
  BY <1>1, LenProperties
<1> QED BY <1>3, <1>5, <1>6, <1>7, <1>8 DEF SameBoxes, Grown

LEMMA ConnectTimeoutStep ==
  ASSUME LinksType, NEW m \in DOMAIN boxes, ConnectTimeout(m)
  PROVE  /\ SameBoxes
         /\ mailboxes' = mailboxes
         /\ \A n \in DOMAIN boxes : boxes'[n].echo = boxes[n].echo
<1>1. boxes \in Seq(Box) /\ boxes[m] \in Box
  BY ElementOfSeq, LenProperties DEF LinksType
<1> DEFINE done == [boxes[m] EXCEPT !.broken = TRUE]
<1>2. done \in Box
  BY <1>1 DEF Box, Phases
<1>3. /\ done.server = boxes[m].server /\ done.broken = TRUE
      /\ done.echo = boxes[m].echo /\ done.phase = boxes[m].phase
  BY <1>1 DEF Box
<1>4. boxes' = [boxes EXCEPT ![m] = done]
  BY <1>1 DEF ConnectTimeout
<1> HIDE DEF done
<1>5. boxes' \in Seq(Box) /\ Len(boxes') = Len(boxes)
      /\ DOMAIN boxes' = DOMAIN boxes
  BY <1>1, <1>2, <1>4, ExceptSeq
<1>6. boxes'[m] = done /\ \A n \in DOMAIN boxes : n # m => boxes'[n] = boxes[n]
  BY <1>1, <1>4
<1>7. options' = options /\ mailboxes' = mailboxes
  BY DEF ConnectTimeout, config
<1>8. Len(boxes) \in Nat
  BY <1>1, LenProperties
<1> QED BY <1>3, <1>5, <1>6, <1>7, <1>8 DEF SameBoxes, Grown

LEMMA ConnectFailStep ==
  ASSUME LinksType, NEW m \in DOMAIN boxes, ConnectFail(m)
  PROVE  /\ SameBoxes
         /\ mailboxes' = [mailboxes EXCEPT ![boxes[m].server] = 0]
         /\ options.reportsFailure
         /\ boxes[m].phase \in {"dialing", "closed"}
         /\ boxes'[m].broken
         /\ boxes'[m].phase = IF boxes[m].phase = "dialing" THEN "failed"
                              ELSE boxes[m].phase
         /\ \A n \in DOMAIN boxes :
              /\ n # m => boxes'[n] = boxes[n]
              /\ boxes'[n].echo = boxes[n].echo
<1>1. boxes \in Seq(Box) /\ boxes[m] \in Box
  BY ElementOfSeq, LenProperties DEF LinksType
<1> DEFINE done == [boxes[m] EXCEPT !.connectDue = FALSE, !.broken = TRUE,
                      !.phase = IF @ = "dialing" THEN "failed" ELSE @]
<1>2. done \in Box
  BY <1>1 DEF Box, Phases
<1>3. /\ done.server = boxes[m].server /\ done.broken = TRUE
      /\ done.echo = boxes[m].echo
      /\ done.phase = IF boxes[m].phase = "dialing" THEN "failed"
                      ELSE boxes[m].phase
  BY <1>1 DEF Box
<1>4. boxes' = [boxes EXCEPT ![m] = done]
  BY <1>1 DEF ConnectFail
<1> HIDE DEF done
<1>5. boxes' \in Seq(Box) /\ Len(boxes') = Len(boxes)
      /\ DOMAIN boxes' = DOMAIN boxes
  BY <1>1, <1>2, <1>4, ExceptSeq
<1>6. boxes'[m] = done /\ \A n \in DOMAIN boxes : n # m => boxes'[n] = boxes[n]
  BY <1>1, <1>4
<1>7. /\ options' = options /\ options.reportsFailure
      /\ mailboxes' = [mailboxes EXCEPT ![boxes[m].server] = 0]
      /\ boxes[m].phase \in {"dialing", "closed"}
  BY DEF ConnectFail, config
<1>8. Len(boxes) \in Nat
  BY <1>1, LenProperties
<1> QED BY <1>3, <1>5, <1>6, <1>7, <1>8 DEF SameBoxes, Grown

\* Mailbox m emits 'close', at once or after its disconnect loop.
Emitting(m) ==
  /\ UNCHANGED options /\ EmitClose(m)
  /\ cutBox' = 0 /\ (m = cutBox \/ Ends(m))

LEMMA EmitCloseStep ==
  ASSUME LinksType, NEW m \in DOMAIN boxes, Emitting(m)
  PROVE  /\ SameBoxes
         /\ mailboxes' = [mailboxes EXCEPT ![boxes[m].server] = 0]
         /\ \A n \in DOMAIN boxes :
              /\ n = mailboxes[boxes[m].server] => boxes'[n].phase = "closed"
              /\ n # mailboxes[boxes[m].server]
                   => boxes'[n].phase = boxes[n].phase
              /\ boxes'[n].broken = boxes[n].broken
              /\ boxes'[n].server = boxes[n].server
              /\ n # m => boxes'[n].echo = boxes[n].echo
         /\ boxes'[m].echo = FALSE
<1>1. boxes \in Seq(Box) /\ Len(boxes) \in Nat
  BY LenProperties DEF LinksType
<1>2. \A n \in DOMAIN boxes : boxes[n] \in Box
  BY <1>1, ElementOfSeq, LenProperties
<1> DEFINE s == boxes[m].server
           closing == {mailboxes[s]} \ {0}
           done(n) == [boxes[n] EXCEPT
                         !.phase = IF n \in closing THEN "closed" ELSE @,
                         !.echo = IF n = m THEN FALSE ELSE @]
<1>3. \A n \in DOMAIN boxes : n \in closing <=> n = mailboxes[s]
  BY <1>1, LenProperties
<1>4. \A n \in DOMAIN boxes :
        /\ done(n) \in Box
        /\ done(n).server = boxes[n].server
        /\ done(n).broken = boxes[n].broken
        /\ done(n).echo = IF n = m THEN FALSE ELSE boxes[n].echo
        /\ done(n).phase = IF n \in closing THEN "closed" ELSE boxes[n].phase
  <2> HIDE DEF closing
  <2> QED BY <1>2 DEF Box, Phases
<1>5. boxes' = [n \in DOMAIN boxes |-> done(n)]
  BY DEF Emitting, EmitClose
<1> HIDE DEF done
<1>6. boxes' \in [DOMAIN boxes -> Box]
  BY <1>4, <1>5
<1>7. boxes' \in Seq(Box) /\ Len(boxes') = Len(boxes)
      /\ DOMAIN boxes' = DOMAIN boxes
  BY <1>1, <1>6, MappedSeq
<1>8. \A n \in DOMAIN boxes :
        /\ boxes'[n].server = boxes[n].server
        /\ boxes'[n].broken = boxes[n].broken
        /\ n # m => boxes'[n].echo = boxes[n].echo
        /\ n = m => boxes'[n].echo = FALSE
        /\ n = mailboxes[s] => boxes'[n].phase = "closed"
        /\ n # mailboxes[s] => boxes'[n].phase = boxes[n].phase
  BY <1>3, <1>4, <1>5
<1>9. \A n \in DOMAIN boxes :
        boxes'[n].phase = boxes[n].phase \/ boxes'[n].phase = "closed"
  BY <1>8
<1>10. options' = options
  BY DEF Emitting
<1>11. SameBoxes
  <2>1. \A n \in DOMAIN boxes : boxes'[n].echo => boxes[n].echo
    <3> SUFFICES ASSUME NEW n \in DOMAIN boxes, boxes'[n].echo PROVE boxes[n].echo
      OBVIOUS
    <3>1. n # m
      BY <1>8
    <3> QED BY <1>8, <3>1
  <2> QED BY <1>1, <1>7, <1>8, <1>9, <1>10, <2>1 DEF SameBoxes, Grown
<1>12. mailboxes' = [mailboxes EXCEPT ![s] = 0]
  BY DEF Emitting, EmitClose
<1> QED BY <1>8, <1>11, <1>12

-----------------------------------------------------------------------------
(* The kinds of step.                                                      *)

\* A step that concerns no mailbox.
Apart == UNCHANGED <<options, boxes, mailboxes>>

Closing == UNCHANGED <<options, mailboxes>> /\ CloseAll

Dropping == UNCHANGED options /\ \E s \in removed' : s \in Servers /\ DropBox(s)

Creating ==
  /\ UNCHANGED <<options, state>> /\ state = "started"
  /\ \E s \in Servers, c \in Calls : mailboxes[s] = 0 /\ CreateBox(s, c)

BoxEvent ==
  \E m \in DOMAIN boxes : \/ ConnectDone(m) \/ ConnectTimeout(m)
                          \/ ConnectFail(m) \/ Emitting(m)

LEMMA DispatchKinds ==
  ASSUME RunningType, RunDispatch
  PROVE  Apart \/ Creating
<1> DEFINE c == Head(agenda).call
           s == Head(agenda).server
<1>1. Running("dispatch") /\ agenda \in Seq(Frames) /\ "dispatch" \in Ops
  BY DEF RunDispatch, RunningType, Ops
<1>2. c \in Calls /\ s \in Servers
  BY <1>1, RunningFrame
<1>3. Dispatch(c, s) /\ UNCHANGED <<options, state>>
  BY DEF RunDispatch, config
<1> HIDE DEF c, s
<1>4. UNCHANGED links \/ (state = "started" /\ mailboxes[s] = 0 /\ CreateBox(s, c))
  BY <1>3 DEF Dispatch
<1> QED BY <1>2, <1>3, <1>4 DEF Apart, Creating, links

LEMMA CutEndEmits ==
  ASSUME LinksType, RunCutEnd
  PROVE  cutBox \in DOMAIN boxes /\ Emitting(cutBox)
<1>1. cutBox \in 0 .. Len(boxes) /\ cutBox # 0
  BY DEF LinksType, RunCutEnd
<1>2. Len(boxes) \in Nat /\ DOMAIN boxes = 1 .. Len(boxes)
  BY LenProperties DEF LinksType
<1>3. cutBox \in DOMAIN boxes
  BY <1>1, <1>2
<1>4. UNCHANGED options /\ EmitClose(cutBox) /\ cutBox' = 0
  BY DEF RunCutEnd, config
<1> QED BY <1>3, <1>4 DEF Emitting

LEMMA CloseEmits ==
  ASSUME NEW m \in DOMAIN boxes, CloseEvent(m)
  PROVE  Emitting(m)
<1>1. UNCHANGED options /\ EmitClose(m) /\ Ends(m) /\ cutBox' = 0
  BY DEF CloseEvent, config, Polls, Idle, loop
<1> QED BY <1>1 DEF Emitting

LEMMA BoxSteps ==
  ASSUME LinksType, RunningType, [Next]_vars
  PROVE  Apart \/ Closing \/ Dropping \/ Creating \/ BoxEvent
<1>1. CASE Start
  BY <1>1 DEF Start, Apart, links
<1>2. CASE StartTick
  BY <1>2 DEF StartTick, Apart, links
<1>3. CASE GraceTimeout
  BY <1>3 DEF GraceTimeout, Closing
<1>4. ASSUME NEW force \in BOOLEAN, Stop(force)
      PROVE  Apart \/ Closing
  BY <1>4 DEF Stop, Apart, Closing
<1>5. ASSUME NEW s \in Servers, AddServer(s)
      PROVE  Apart
  BY <1>5 DEF AddServer, Apart, links
<1>6. ASSUME NEW s \in Servers, RemoveServer(s)
      PROVE  Apart \/ Dropping
  BY <1>6 DEF RemoveServer, Apart, Dropping
<1>7. ASSUME NEW c \in Calls, NEW s \in Servers,
             Invoke(c, s) \/ FilterNext(c, s) \/ AfterNext(c, s)
      PROVE  Apart
  BY <1>7 DEF Invoke, FilterNext, AfterNext, Apart, links, config
<1>8. ASSUME NEW m \in DOMAIN boxes, NEW c \in Calls, BoxAnswer(m, c)
      PROVE  Apart
  BY <1>8 DEF BoxAnswer, Apart, links, config
<1>9. CASE RunDispatch
  BY <1>9, DispatchKinds
<1>10. CASE RunPend \/ RunSend \/ RunResult \/ RunFailure \/ RunNotice
  BY <1>10 DEF RunPend, RunSend, RunResult, RunFailure, RunNotice, Apart, links,
               config
<1>11. CASE RunError \/ RunConnectError \/ RunFlushed \/ RunCutCall
  BY <1>11 DEF RunError, RunConnectError, RunFlushed, RunCutCall, Apart, links,
               config
<1>12. CASE UNCHANGED vars
  BY <1>12 DEF vars, Apart, links, config
<1>13. ASSUME NEW m \in DOMAIN boxes, Disconnect(m)
       PROVE  Apart
  BY <1>13 DEF Disconnect, Apart, links, config
<1>14. CASE RunCutEnd
  BY <1>14, CutEndEmits DEF BoxEvent
<1>15. ASSUME NEW m \in DOMAIN boxes,
              \/ ConnectDone(m) \/ ConnectTimeout(m) \/ ConnectFail(m)
              \/ CloseEvent(m)
       PROVE  BoxEvent
  BY <1>15, CloseEmits DEF BoxEvent
<1> QED
  BY <1>1, <1>2, <1>3, <1>4, <1>5, <1>6, <1>7, <1>8, <1>9, <1>10, <1>11, <1>12,
     <1>13, <1>14, <1>15 DEF Next, Run

LEMMA BoxesGrow ==
  ASSUME LinksType, RunningType, [Next]_vars
  PROVE  Grown
<1>1. CASE Apart
  BY <1>1, SameIsGrown DEF Apart, SameBoxes, LinksType
<1>2. CASE Closing
  BY <1>2, CloseAllStep DEF Closing, SameBoxes
<1>3. CASE Dropping
  BY <1>3, DropBoxStep DEF Dropping, SameBoxes
<1>4. CASE Creating
  BY <1>4, CreateBoxStep DEF Creating
<1>5. ASSUME NEW m \in DOMAIN boxes,
             \/ ConnectDone(m) \/ ConnectTimeout(m)
             \/ ConnectFail(m) \/ Emitting(m)
      PROVE  Grown
  BY <1>5, ConnectDoneStep, ConnectTimeoutStep, ConnectFailStep, EmitCloseStep
     DEF SameBoxes
<1> QED BY <1>1, <1>2, <1>3, <1>4, <1>5, BoxSteps DEF BoxEvent

-----------------------------------------------------------------------------
(* Type correctness.                                                       *)

LEMMA ConfigStep ==
  ASSUME ConfigType, [Next]_vars
  PROVE  ConfigType'
<1> USE DEF ConfigType
<1>1. CASE Start
  BY <1>1, OptionsAssumption DEF Start
<1>2. CASE StartTick
  BY <1>2, OptionsAssumption DEF StartTick
<1>3. CASE GraceTimeout
  BY <1>3 DEF GraceTimeout
<1>4. ASSUME NEW force \in BOOLEAN, Stop(force)
      PROVE  ConfigType'
  BY <1>4 DEF Stop
<1>5. ASSUME NEW s \in Servers, AddServer(s) \/ RemoveServer(s)
      PROVE  ConfigType'
  BY <1>5 DEF AddServer, RemoveServer
<1>6. CASE UNCHANGED config
  BY <1>6 DEF config
<1>7. ASSUME NEW c \in Calls, NEW s \in Servers,
             Invoke(c, s) \/ FilterNext(c, s) \/ AfterNext(c, s)
      PROVE  UNCHANGED config
  BY <1>7 DEF Invoke, FilterNext, AfterNext
<1>8. ASSUME NEW m \in DOMAIN boxes, NEW c \in Calls,
             \/ ConnectDone(m) \/ ConnectTimeout(m) \/ ConnectFail(m)
             \/ CloseEvent(m) \/ Disconnect(m) \/ BoxAnswer(m, c)
      PROVE  UNCHANGED config
  BY <1>8 DEF ConnectDone, ConnectTimeout, ConnectFail, CloseEvent, Disconnect,
              BoxAnswer
<1>9. ASSUME NEW m \in DOMAIN boxes,
             \/ ConnectDone(m) \/ ConnectTimeout(m) \/ ConnectFail(m)
             \/ CloseEvent(m) \/ Disconnect(m)
      PROVE  UNCHANGED config
  BY <1>9 DEF ConnectDone, ConnectTimeout, ConnectFail, CloseEvent, Disconnect
<1>10. CASE Run
  BY <1>10 DEF Run, RunDispatch, RunPend, RunSend, RunResult, RunFailure,
               RunNotice, RunError, RunConnectError, RunFlushed, RunCutCall,
               RunCutEnd, config
<1>11. CASE UNCHANGED vars
  BY <1>11 DEF vars, config
<1> QED
  BY <1>1, <1>2, <1>3, <1>4, <1>5, <1>6, <1>7, <1>8, <1>9, <1>10, <1>11 DEF Next

LEMMA ConnectingStep ==
  ASSUME connecting \subseteq Servers, RunningType, [Next]_vars
  PROVE  connecting' \subseteq Servers
<1>1. CASE Start \/ StartTick \/ GraceTimeout
  BY <1>1 DEF Start, StartTick, GraceTimeout, links
<1>2. ASSUME NEW force \in BOOLEAN, Stop(force)
      PROVE  UNCHANGED connecting
  BY <1>2 DEF Stop
<1>3. ASSUME NEW s \in Servers, AddServer(s) \/ RemoveServer(s)
      PROVE  UNCHANGED connecting
  BY <1>3 DEF AddServer, RemoveServer, links
<1>4. ASSUME NEW c \in Calls, NEW s \in Servers,
             Invoke(c, s) \/ FilterNext(c, s) \/ AfterNext(c, s)
      PROVE  UNCHANGED connecting
  BY <1>4 DEF Invoke, FilterNext, AfterNext, links
<1>5. ASSUME NEW m \in DOMAIN boxes, NEW c \in Calls, BoxAnswer(m, c)
      PROVE  UNCHANGED connecting
  BY <1>5 DEF BoxAnswer, links
<1>6. ASSUME NEW m \in DOMAIN boxes,
             \/ ConnectDone(m) \/ ConnectTimeout(m) \/ ConnectFail(m)
             \/ CloseEvent(m) \/ Disconnect(m)
      PROVE  connecting' \subseteq Servers
  BY <1>6 DEF ConnectDone, ConnectTimeout, ConnectFail, CloseEvent, Disconnect,
              links
<1>7. CASE RunDispatch
  <2> DEFINE c == Head(agenda).call
             s == Head(agenda).server
  <2>1. s \in Servers /\ Dispatch(c, s)
    BY <1>7, RunningFrame DEF RunDispatch, RunningType, Ops
  <2> HIDE DEF c, s
  <2> QED BY <2>1 DEF Dispatch, CreateBox, links
<1>8. CASE RunPend \/ RunSend \/ RunResult \/ RunFailure \/ RunNotice
  BY <1>8 DEF RunPend, RunSend, RunResult, RunFailure, RunNotice, links
<1>9. CASE \/ RunError \/ RunConnectError \/ RunFlushed
           \/ RunCutCall \/ RunCutEnd
  BY <1>9 DEF RunError, RunConnectError, RunFlushed, RunCutCall, RunCutEnd, links
<1>10. CASE UNCHANGED vars
  BY <1>10 DEF vars, links
<1> QED
  BY <1>1, <1>2, <1>3, <1>4, <1>5, <1>6, <1>7, <1>8, <1>9, <1>10 DEF Next, Run

\* The disconnect loop: whose it is and which calls it has still to call back.
LEMMA LoopSteps ==
  ASSUME [Next]_vars
  PROVE  \/ UNCHANGED loop
         \/ \E m \in DOMAIN boxes : Disconnect(m)
         \/ RunCutCall \/ RunCutEnd
<1>1. CASE Start \/ StartTick \/ GraceTimeout
  BY <1>1 DEF Start, StartTick, GraceTimeout
<1>2. ASSUME NEW force \in BOOLEAN, Stop(force)
      PROVE  UNCHANGED loop
  BY <1>2 DEF Stop
<1>3. ASSUME NEW s \in Servers, AddServer(s) \/ RemoveServer(s)
      PROVE  UNCHANGED loop
  BY <1>3 DEF AddServer, RemoveServer
<1>4. ASSUME NEW c \in Calls, NEW s \in Servers,
             Invoke(c, s) \/ FilterNext(c, s) \/ AfterNext(c, s)
      PROVE  UNCHANGED loop
  BY <1>4 DEF Invoke, FilterNext, AfterNext
<1>5. ASSUME NEW m \in DOMAIN boxes, NEW c \in Calls, BoxAnswer(m, c)
      PROVE  UNCHANGED loop
  BY <1>5 DEF BoxAnswer
<1>6. ASSUME NEW m \in DOMAIN boxes,
             \/ ConnectDone(m) \/ ConnectTimeout(m) \/ ConnectFail(m)
             \/ CloseEvent(m)
      PROVE  UNCHANGED loop
  BY <1>6 DEF ConnectDone, ConnectTimeout, ConnectFail, CloseEvent
<1>7. CASE \/ RunDispatch \/ RunPend \/ RunSend \/ RunResult \/ RunFailure
           \/ RunNotice \/ RunError \/ RunConnectError \/ RunFlushed
  BY <1>7 DEF RunDispatch, RunPend, RunSend, RunResult, RunFailure, RunNotice,
              RunError, RunConnectError, RunFlushed
<1>8. CASE UNCHANGED vars
  BY <1>8 DEF vars
<1> QED BY <1>1, <1>2, <1>3, <1>4, <1>5, <1>6, <1>7, <1>8 DEF Next, Run

LEMMA LinksStep ==
  ASSUME LinksType, RunningType, [Next]_vars
  PROVE  LinksType'
<1> USE DEF LinksType
<1>1. boxes' \in Seq(Box) /\ Len(boxes') >= Len(boxes)
  BY BoxesGrow DEF Grown
<1>2. Len(boxes) \in Nat /\ Len(boxes') \in Nat
  BY <1>1, LenProperties
<1>3. mailboxes' \in [Servers -> 0 .. Len(boxes')]
  <2>1. CASE mailboxes' = mailboxes
    BY <1>1, <1>2, <2>1
  <2>2. ASSUME NEW s \in Servers, mailboxes' = [mailboxes EXCEPT ![s] = 0]
        PROVE  mailboxes' \in [Servers -> 0 .. Len(boxes')]
    BY <1>1, <1>2, <2>2
  <2>3. CASE Creating
    <3>1. PICK s \in Servers, c \in Calls : CreateBox(s, c)
      BY <2>3 DEF Creating
    <3>2. /\ mailboxes' = [mailboxes EXCEPT ![s] = Len(boxes) + 1]
          /\ Len(boxes') = Len(boxes) + 1
      BY <2>3, <3>1, CreateBoxStep DEF Creating
    <3> QED BY <1>1, <1>2, <3>2
  <2>4. \A m \in DOMAIN boxes : boxes[m].server \in Servers
    BY BoxServer
  <2>5. CASE BoxEvent
    <3>1. PICK m \in DOMAIN boxes :
            \/ ConnectDone(m) \/ ConnectTimeout(m)
            \/ ConnectFail(m) \/ Emitting(m)
      BY <2>5 DEF BoxEvent
    <3>2. \/ mailboxes' = mailboxes
          \/ mailboxes' = [mailboxes EXCEPT ![boxes[m].server] = 0]
      BY <3>1, ConnectDoneStep, ConnectTimeoutStep, ConnectFailStep, EmitCloseStep
    <3> QED BY <2>1, <2>2, <2>4, <3>2
  <2>6. CASE Dropping
    BY <2>2, <2>6, DropBoxStep DEF Dropping
  <2>7. CASE Apart \/ Closing
    BY <2>1, <2>7 DEF Apart, Closing
  <2> QED BY <2>3, <2>5, <2>6, <2>7, BoxSteps
<1>4. connecting' \subseteq Servers
  BY ConnectingStep
<1>5. cutBox' \in 0 .. Len(boxes') /\ cut' \subseteq Calls
  <2>1. CASE UNCHANGED loop
    BY <1>1, <1>2, <2>1 DEF loop
  <2>2. ASSUME NEW m \in DOMAIN boxes, Disconnect(m)
        PROVE  cutBox' \in 0 .. Len(boxes') /\ cut' \subseteq Calls
    <3>1. m \in 1 .. Len(boxes)
      BY LenProperties
    <3>2. cutBox' = m /\ cut' \subseteq Calls
      BY <2>2 DEF Disconnect
    <3> QED BY <1>1, <1>2, <3>1, <3>2
  <2>3. CASE RunCutCall \/ RunCutEnd
    <3>1. cutBox' \in {0, cutBox} /\ cut' \subseteq cut
      BY <2>3 DEF RunCutCall, RunCutEnd
    <3> QED BY <1>1, <1>2, <3>1
  <2> QED BY <2>1, <2>2, <2>3, LoopSteps
<1> QED BY <1>1, <1>3, <1>4, <1>5

LEMMA WaitingKept ==
  ASSUME WaitingType, UNCHANGED waiting, LinksType, Grown
  PROVE  WaitingType'
<1>1. Len(boxes) \in Nat /\ Len(boxes') \in Nat /\ Len(boxes) <= Len(boxes')
  BY LenProperties DEF LinksType, Grown
<1>2. 1 .. Len(boxes) \subseteq 1 .. Len(boxes')
  BY <1>1
<1>3. inflight' \subseteq (1 .. Len(boxes')) \X Calls
  BY <1>2 DEF WaitingType, waiting
<1> QED BY <1>3 DEF WaitingType, waiting

LEMMA PendStep ==
  ASSUME WaitingType, NEW c \in Calls, NEW s \in Servers, ~PendingFull(s),
         pendings' = [pendings EXCEPT ![s] = Append(@, c)]
  PROVE  /\ pendings' \in [Servers -> Seq(Calls)]
         /\ \A t \in Servers : Len(pendings'[t]) <= PendingSize + 1
<1>1. pendings[s] \in Seq(Calls) /\ Len(pendings[s]) \in Nat
  BY LenProperties DEF WaitingType
<1>2. /\ Append(pendings[s], c) \in Seq(Calls)
      /\ Len(Append(pendings[s], c)) = Len(pendings[s]) + 1
  BY <1>1, AppendProperties
<1>3. Len(pendings[s]) + 1 <= PendingSize + 1
  BY <1>1, OptionsAssumption DEF PendingFull
<1>4. /\ pendings'[s] = Append(pendings[s], c)
      /\ \A t \in Servers : t # s => pendings'[t] = pendings[t]
  BY DEF WaitingType
<1>5. pendings' \in [Servers -> Seq(Calls)]
  BY <1>2 DEF WaitingType
<1>6. \A t \in Servers : Len(pendings'[t]) <= PendingSize + 1
  BY <1>2, <1>3, <1>4 DEF WaitingType
<1> QED BY <1>5, <1>6

LEMMA WaitingStep ==
  ASSUME WaitingType, LinksType, RunningType, [Next]_vars
  PROVE  WaitingType'
<1>1. Grown
  BY BoxesGrow
<1>2. CASE UNCHANGED waiting
  BY <1>1, <1>2, WaitingKept
<1>3. CASE Start \/ StartTick \/ GraceTimeout
  BY <1>2, <1>3 DEF Start, StartTick, GraceTimeout
<1>4. ASSUME NEW force \in BOOLEAN, Stop(force)
      PROVE  UNCHANGED waiting
  BY <1>4 DEF Stop
<1>5. ASSUME NEW s \in Servers, AddServer(s) \/ RemoveServer(s)
      PROVE  UNCHANGED waiting
  BY <1>5 DEF AddServer, RemoveServer
<1>6. ASSUME NEW c \in Calls, NEW s \in Servers, Invoke(c, s)
      PROVE  UNCHANGED waiting
  BY <1>6 DEF Invoke
<1>7. ASSUME NEW c \in Calls, NEW s \in Servers,
             FilterNext(c, s) \/ AfterNext(c, s)
      PROVE  WaitingType'
  BY <1>7 DEF FilterNext, AfterNext, WaitingType, links
<1>8. ASSUME NEW m \in DOMAIN boxes, NEW c \in Calls, BoxAnswer(m, c)
      PROVE  WaitingType'
  <2>1. boxes[m].server \in Servers
    BY BoxServer DEF LinksType
  <2> QED BY <1>8, <2>1 DEF BoxAnswer, WaitingType, links
<1>9. ASSUME NEW m \in DOMAIN boxes,
             \/ ConnectDone(m) \/ ConnectTimeout(m) \/ ConnectFail(m)
             \/ CloseEvent(m) \/ Disconnect(m)
      PROVE  UNCHANGED waiting
  BY <1>9 DEF ConnectDone, ConnectTimeout, ConnectFail, CloseEvent, Disconnect
<1>10. CASE RunDispatch
  <2> DEFINE c == Head(agenda).call
             s == Head(agenda).server
  <2>1. c \in Calls /\ s \in Servers /\ Dispatch(c, s)
    BY <1>10, RunningFrame DEF RunDispatch, RunningType, Ops
  <2>2. UNCHANGED <<pendings, returning, inflight>>
    BY <1>10 DEF RunDispatch
  <2> HIDE DEF c, s
  <2>3. filtering' \in {filtering, filtering \union {<<c, s>>}}
    BY <2>1 DEF Dispatch
  <2>4. filtering' \subseteq Calls \X Servers
    BY <2>1, <2>3 DEF WaitingType
  <2>5. Len(boxes) \in Nat /\ Len(boxes') \in Nat /\ Len(boxes) <= Len(boxes')
    BY <1>1, LenProperties DEF LinksType, Grown
  <2>6. 1 .. Len(boxes) \subseteq 1 .. Len(boxes')
    BY <2>5
  <2>7. inflight' \subseteq (1 .. Len(boxes')) \X Calls
    BY <2>2, <2>6 DEF WaitingType
  <2> QED BY <2>2, <2>4, <2>7 DEF WaitingType
<1>11. CASE RunPend
  <2> DEFINE c == Head(agenda).call
             s == Head(agenda).server
  <2>1. c \in Calls /\ s \in Servers
    BY <1>11, RunningFrame DEF RunPend, RunningType, Ops
  <2>2. UNCHANGED <<boxes, filtering, returning, inflight>>
    BY <1>11 DEF RunPend, links
  <2>3. \/ pendings' = pendings
        \/ ~PendingFull(s) /\ pendings' = [pendings EXCEPT ![s] = Append(@, c)]
    BY <1>11 DEF RunPend
  <2> HIDE DEF c, s
  <2>4. /\ pendings' \in [Servers -> Seq(Calls)]
        /\ \A t \in Servers : Len(pendings'[t]) <= PendingSize + 1
    BY <2>1, <2>3, PendStep DEF WaitingType
  <2> QED BY <2>2, <2>4 DEF WaitingType
<1>12. CASE RunSend
  <2> DEFINE c == Head(agenda).call
             s == Head(agenda).server
  <2>1. c \in Calls /\ s \in Servers
    BY <1>12, RunningFrame DEF RunSend, RunningType, Ops
  <2>2. UNCHANGED <<boxes, filtering, returning, pendings>>
    BY <1>12 DEF RunSend, links
  <2>3. \/ inflight' = inflight
        \/ mailboxes[s] # 0 /\ inflight' = inflight \union {<<mailboxes[s], c>>}
    BY <1>12 DEF RunSend
  <2> HIDE DEF c, s
  <2>4. Len(boxes) \in Nat /\ mailboxes[s] \in 0 .. Len(boxes)
    BY <2>1, LenProperties DEF LinksType
  <2>5. mailboxes[s] # 0 => mailboxes[s] \in 1 .. Len(boxes)
    BY <2>4
  <2>6. inflight' \subseteq (1 .. Len(boxes)) \X Calls
    BY <2>1, <2>3, <2>5 DEF WaitingType
  <2> QED BY <2>2, <2>6 DEF WaitingType
<1>13. CASE RunFlushed
  <2>1. Head(agenda).server \in Servers
    BY <1>13, RunningFrame DEF RunFlushed, RunningType, Ops
  <2>2. /\ UNCHANGED <<boxes, filtering, returning, inflight>>
        /\ pendings' = [pendings EXCEPT ![Head(agenda).server] = <<>>]
    BY <1>13 DEF RunFlushed, links
  <2>3. <<>> \in Seq(Calls) /\ Len(<<>>) = 0
    BY EmptyIsSeq
  <2>4. pendings' \in [Servers -> Seq(Calls)]
    BY <2>1, <2>2, <2>3 DEF WaitingType
  <2>5. \A t \in Servers :
          pendings'[t] = pendings[t] \/ Len(pendings'[t]) = 0
    BY <2>1, <2>2, <2>3 DEF WaitingType
  <2>6. \A t \in Servers : Len(pendings'[t]) <= PendingSize + 1
    BY <2>5, OptionsAssumption DEF WaitingType
  <2> QED BY <2>2, <2>4, <2>6 DEF WaitingType
<1>14. CASE \/ RunResult \/ RunFailure \/ RunNotice \/ RunError
            \/ RunConnectError \/ RunCutCall \/ RunCutEnd
  BY <1>2, <1>14 DEF RunResult, RunFailure, RunNotice, RunError,
                     RunConnectError, RunCutCall, RunCutEnd
<1>15. CASE UNCHANGED vars
  BY <1>2, <1>15 DEF vars
<1> QED
  BY <1>2, <1>3, <1>4, <1>5, <1>6, <1>7, <1>8, <1>9, <1>10, <1>11, <1>12,
     <1>13, <1>14, <1>15 DEF Next, Run

LEMMA ContinueRunning ==
  ASSUME RunningType, NEW op \in Ops, Running(op), NEW frames \in Seq(Frames),
         Continue(frames), UNCHANGED <<serversMap, crashed>>,
         inCallback' \in BOOLEAN
  PROVE  RunningType'
<1>1. agenda' \in Seq(Frames)
  BY RunningFrame, ContinueType DEF RunningType
<1> QED BY <1>1 DEF RunningType

LEMMA FailureRunning ==
  ASSUME ConfigType, RunningType, NEW op \in {"error", "connectError"}, Running(op),
         NEW c \in Calls, NEW s \in Servers,
         FailFast(c) \/ FailOver(c, s) \/ FailBack \/ (Crash /\ UNCHANGED serversMap)
  PROVE  RunningType'
<1> DEFINE others == Others(s)
<1>1. others \in Seq(Servers) /\ (others # <<>> => Head(others) \in Servers)
  BY OthersType DEF RunningType
<1>2. Tail(agenda) \in Seq(Frames) /\ <<>> \in Seq(Frames)
  BY RunningFrame, EmptyIsSeq DEF RunningType, Ops
<1> HIDE DEF others
<1>3. Continue(<<>>) => agenda' \in Seq(Frames)
  BY <1>2, ContinueType
<1>4. CASE Crash /\ UNCHANGED serversMap
  BY <1>4 DEF Crash, RunningType
<1>5. CASE FailFast(c)
  <2>1. options.tracing \in BOOLEAN
    BY OptionsAssumption DEF ConfigType
  <2> QED BY <1>3, <1>5, <2>1 DEF FailFast, RunningType
<1>6. CASE FailBack
  BY <1>3, <1>6 DEF FailBack, RunningType
<1>7. CASE FailOver(c, s)
  <2>1. CASE others # <<>> /\ Continue(<<Frame("dispatch", c, Head(others))>>)
             /\ serversMap' = others /\ inCallback' = FALSE /\ UNCHANGED crashed
    <3>1. <<Frame("dispatch", c, Head(others))>> \in Seq(Frames)
      BY <1>1, <2>1, OneFrame DEF Ops
    <3>2. agenda' \in Seq(Frames)
      BY <1>2, <2>1, <3>1, ContinueType
    <3> QED BY <1>1, <2>1, <3>2 DEF RunningType
  <2>2. CASE serversMap' = others /\ Crash
    BY <1>1, <2>2 DEF Crash, RunningType
  <2>3. CASE serversMap' = others /\ inCallback' = TRUE /\ Continue(<<>>)
             /\ UNCHANGED crashed
    BY <1>1, <1>3, <2>3 DEF RunningType
  <2> QED BY <1>4, <1>7, <2>1, <2>2, <2>3 DEF FailOver, others
<1> QED BY <1>4, <1>5, <1>6, <1>7

LEMMA DispatchRunning ==
  ASSUME RunningType, RunDispatch
  PROVE  RunningType'
<1> DEFINE c == Head(agenda).call
           s == Head(agenda).server
<1>1. /\ c \in Calls /\ s \in Servers
      /\ Tail(agenda) \in Seq(Frames) /\ <<>> \in Seq(Frames)
  BY RunningFrame, EmptyIsSeq DEF RunDispatch, RunningType, Ops
<1>2. Dispatch(c, s) /\ UNCHANGED <<serversMap, crashed>> /\ inCallback' = FALSE
  BY DEF RunDispatch
<1> HIDE DEF c, s
<1>3. \/ Continue(<<>>)
      \/ Continue(<<Frame("error", c, s)>>)
      \/ Continue(<<Frame("pend", c, s)>>)
      \/ Continue(<<Frame("send", c, s)>>)
      \/ Continue(<<Frame("error", c, s), Frame("pend", c, s)>>)
  BY <1>2 DEF Dispatch
<1>4. /\ <<Frame("error", c, s)>> \in Seq(Frames)
      /\ <<Frame("pend", c, s)>> \in Seq(Frames)
      /\ <<Frame("send", c, s)>> \in Seq(Frames)
  BY <1>1, OneFrame DEF Ops
<1>5. <<Frame("error", c, s), Frame("pend", c, s)>> \in Seq(Frames)
  BY <1>1, TwoFrames DEF Ops
<1>6. agenda' \in Seq(Frames)
  BY <1>1, <1>3, <1>4, <1>5, ContinueType
<1> QED BY <1>2, <1>6 DEF RunningType

LEMMA SendRunning ==
  ASSUME RunningType, RunSend
  PROVE  RunningType'
<1> DEFINE c == Head(agenda).call
           s == Head(agenda).server
<1>1. /\ c \in Calls /\ s \in Servers
      /\ Tail(agenda) \in Seq(Frames) /\ <<>> \in Seq(Frames)
  BY RunningFrame, EmptyIsSeq DEF RunSend, RunningType, Ops
<1>2. UNCHANGED <<serversMap, crashed>> /\ inCallback' = FALSE
  BY DEF RunSend
<1>3. \/ Continue(<<>>)
      \/ Continue(<<Frame("error", c, s)>>)
      \/ Continue(<<Frame("error", c, s), Frame("failure", c, s)>>)
  BY DEF RunSend
<1> HIDE DEF c, s
<1>4. <<Frame("error", c, s)>> \in Seq(Frames)
  BY <1>1, OneFrame DEF Ops
<1>5. <<Frame("error", c, s), Frame("failure", c, s)>> \in Seq(Frames)
  BY <1>1, TwoFrames DEF Ops
<1>6. agenda' \in Seq(Frames)
  BY <1>1, <1>3, <1>4, <1>5, ContinueType
<1> QED BY <1>2, <1>6 DEF RunningType

LEMMA RunningStep ==
  ASSUME RunningType, ConfigType, WaitingType, LinksType, [Next]_vars
  PROVE  RunningType'
<1>1. CASE UNCHANGED running /\ UNCHANGED serversMap
  BY <1>1 DEF running, RunningType
<1>2. CASE Start \/ StartTick \/ GraceTimeout
  BY <1>1, <1>2 DEF Start, StartTick, GraceTimeout
<1>3. ASSUME NEW force \in BOOLEAN, Stop(force)
      PROVE  RunningType'
  BY <1>1, <1>3 DEF Stop
<1>4. ASSUME NEW s \in Servers, AddServer(s)
      PROVE  RunningType'
  <2>1. serversMap' = serversMap \/ serversMap' = Append(serversMap, s)
    BY <1>4 DEF AddServer
  <2>2. serversMap' \in Seq(Servers)
    BY <2>1, AppendProperties DEF RunningType
  <2>3. UNCHANGED running
    BY <1>4 DEF AddServer
  <2> QED BY <2>2, <2>3 DEF running, RunningType
<1>5. ASSUME NEW s \in Servers, RemoveServer(s)
      PROVE  RunningType'
  BY <1>1, <1>5 DEF RemoveServer
<1>6. ASSUME NEW c \in Calls, NEW s \in Servers, Invoke(c, s)
      PROVE  RunningType'
  <2>1. <<Frame("dispatch", c, s)>> \in Seq(Frames)
    BY OneFrame DEF Ops
  <2>2. agenda' \in Seq(Frames)
    BY <1>6, <2>1, ConcatProperties DEF Invoke, RunningType
  <2>3. UNCHANGED <<serversMap, crashed>> /\ inCallback' = FALSE
    BY <1>6 DEF Invoke
  <2> QED BY <2>2, <2>3 DEF RunningType
<1>7. ASSUME NEW c \in Calls, NEW s \in Servers, FilterNext(c, s)
      PROVE  RunningType'
  <2>1. /\ \A t \in Servers : <<Frame("send", c, t)>> \in Seq(Frames)
        /\ <<Frame("error", c, s)>> \in Seq(Frames)
    BY OneFrame DEF Ops
  <2>2. agenda' \in Seq(Frames)
    BY <1>7, <2>1 DEF FilterNext
  <2>3. UNCHANGED <<serversMap, crashed>> /\ inCallback' = FALSE
    BY <1>7 DEF FilterNext
  <2> QED BY <2>2, <2>3 DEF RunningType
<1>8. ASSUME NEW c \in Calls, NEW s \in Servers, AfterNext(c, s)
      PROVE  RunningType'
  <2>1. <<Frame("result", c, s)>> \in Seq(Frames)
    BY OneFrame DEF Ops
  <2>2. <<Frame("error", c, s), Frame("result", c, s)>> \in Seq(Frames)
    BY TwoFrames DEF Ops
  <2>3. UNCHANGED <<serversMap, crashed>> /\ inCallback' = FALSE
    BY <1>8 DEF AfterNext
  <2>4. agenda' \in Seq(Frames)
    BY <1>8, <2>1, <2>2 DEF AfterNext
  <2> QED BY <2>3, <2>4 DEF RunningType
<1>9. ASSUME NEW m \in DOMAIN boxes, NEW c \in Calls, BoxAnswer(m, c)
      PROVE  RunningType'
  <2> DEFINE s == boxes[m].server
  <2>1. s \in Servers
    BY BoxServer DEF LinksType
  <2>2. <<Frame("result", c, s)>> \in Seq(Frames)
    BY <2>1, OneFrame DEF Ops
  <2>3. <<Frame("error", c, s), Frame("failure", c, s)>> \in Seq(Frames)
    BY <2>1, TwoFrames DEF Ops
  <2>4. UNCHANGED <<serversMap, crashed>> /\ inCallback' = FALSE
    BY <1>9 DEF BoxAnswer
  <2>5. agenda' \in Seq(Frames)
    BY <1>9, <2>2, <2>3 DEF BoxAnswer, RunningType
  <2> QED BY <2>4, <2>5 DEF RunningType
<1>10. ASSUME NEW m \in DOMAIN boxes, ConnectDone(m)
       PROVE  RunningType'
  <2>1. FlushPending(boxes[m].server) \in Seq(Frames)
    BY BoxServer, FlushType DEF LinksType
  <2>2. /\ UNCHANGED <<serversMap, crashed>> /\ inCallback' = FALSE
        /\ agenda' = FlushPending(boxes[m].server)
    BY <1>10 DEF ConnectDone
  <2> QED BY <2>1, <2>2 DEF RunningType
<1>11. ASSUME NEW m \in DOMAIN boxes,
              ConnectTimeout(m) \/ CloseEvent(m) \/ Disconnect(m)
       PROVE  RunningType'
  BY <1>1, <1>11 DEF ConnectTimeout, CloseEvent, Disconnect, RunningType
<1>12. ASSUME NEW m \in DOMAIN boxes, ConnectFail(m)
       PROVE  RunningType'
  <2>1. boxes[m].caller \in Calls /\ boxes[m].server \in Servers
    <3>1. boxes[m] \in Box
      BY ElementOfSeq, LenProperties DEF LinksType
    <3> QED BY <3>1 DEF Box
  <2>2. <<Frame("connectError", boxes[m].caller, boxes[m].server)>> \in Seq(Frames)
    BY <2>1, OneFrame DEF Ops
  <2>3. /\ UNCHANGED <<serversMap, crashed>> /\ inCallback' = FALSE
        /\ agenda' = <<Frame("connectError", boxes[m].caller, boxes[m].server)>>
    BY <1>12 DEF ConnectFail
  <2> QED BY <2>2, <2>3 DEF RunningType
<1>13. CASE RunPend \/ RunResult \/ RunFailure \/ RunNotice \/ RunFlushed
  <2>1. /\ Continue(<<>>) /\ UNCHANGED <<serversMap, crashed>>
        /\ inCallback' \in BOOLEAN /\ \E op \in Ops : Running(op)
    BY <1>13 DEF RunPend, RunResult, RunFailure, RunNotice, RunFlushed, CallBack,
                 Ops
  <2> QED BY <2>1, EmptyIsSeq, ContinueRunning
<1>14. CASE RunError \/ RunConnectError
  <2> DEFINE c == Head(agenda).call
             s == Head(agenda).server
  <2>1. PICK op \in {"error", "connectError"} : Running(op)
    BY <1>14 DEF RunError, RunConnectError
  <2>2. c \in Calls /\ s \in Servers
    BY <2>1, RunningFrame DEF RunningType, Ops
  <2>3. options.failMode \in {"failfast", "failover", "failback"}
    BY OptionsAssumption DEF ConfigType
  <2>4. \/ FailFast(c) \/ FailOver(c, s) \/ FailBack
        \/ Crash /\ UNCHANGED serversMap
    BY <1>14, <2>3 DEF RunError, RunConnectError
  <2> QED BY <2>1, <2>2, <2>4, FailureRunning
<1>15. CASE UNCHANGED vars
  BY <1>1, <1>15 DEF vars
<1>16. CASE RunCutCall
  <2>1. PICK c \in cut :
          agenda' = <<Frame("error", c, boxes[cutBox].server),
                      Frame("notice", c, boxes[cutBox].server)>>
    BY <1>16 DEF RunCutCall
  <2>2. cutBox \in DOMAIN boxes
    <3>1. cutBox \in 0 .. Len(boxes) /\ cutBox # 0
      BY <1>16 DEF RunCutCall, LinksType
    <3>2. Len(boxes) \in Nat /\ DOMAIN boxes = 1 .. Len(boxes)
      BY LenProperties DEF LinksType
    <3> QED BY <3>1, <3>2
  <2>3. c \in Calls /\ boxes[cutBox].server \in Servers
    BY <2>2, BoxServer DEF LinksType
  <2>4. agenda' \in Seq(Frames)
    BY <2>1, <2>3, TwoFrames DEF Ops
  <2>5. UNCHANGED <<serversMap, crashed>> /\ inCallback' = FALSE
    BY <1>16 DEF RunCutCall
  <2> QED BY <2>4, <2>5 DEF RunningType
<1>17. CASE RunCutEnd
  BY <1>17 DEF RunCutEnd, RunningType
<1> QED
  BY <1>2, <1>3, <1>4, <1>5, <1>6, <1>7, <1>8, <1>9, <1>10, <1>11, <1>12,
     <1>13, <1>14, <1>15, <1>16, <1>17, DispatchRunning, SendRunning
     DEF Next, Run

LEMMA AnswerType ==
  ASSUME answers \in [Calls -> Seq({"ok", "error"})], NEW c \in Calls,
         NEW word \in {"ok", "error"},
         answers' = [answers EXCEPT ![c] = Append(@, word)]
  PROVE  answers' \in [Calls -> Seq({"ok", "error"})]
<1>1. Append(answers[c], word) \in Seq({"ok", "error"})
  BY AppendProperties
<1> QED BY <1>1

LEMMA HistoryStep ==
  ASSUME HistoryType, ConfigType, RunningType, [Next]_vars
  PROVE  HistoryType'
<1>1. CASE UNCHANGED history
  BY <1>1 DEF history, HistoryType
<1>2. CASE Start \/ StartTick \/ GraceTimeout
  BY <1>1, <1>2 DEF Start, StartTick, GraceTimeout
<1>3. ASSUME NEW force \in BOOLEAN, Stop(force)
      PROVE  HistoryType'
  BY <1>1, <1>3 DEF Stop
<1>4. ASSUME NEW s \in Servers, AddServer(s) \/ RemoveServer(s)
      PROVE  HistoryType'
  BY <1>4, OptionsAssumption DEF AddServer, RemoveServer, HistoryType
<1>5. ASSUME NEW c \in Calls, NEW s \in Servers,
             Invoke(c, s) \/ FilterNext(c, s) \/ AfterNext(c, s)
      PROVE  HistoryType'
  BY <1>5 DEF Invoke, FilterNext, AfterNext, HistoryType, history
<1>6. ASSUME NEW m \in DOMAIN boxes, NEW c \in Calls,
             BoxAnswer(m, c) \/ ConnectDone(m) \/ ConnectTimeout(m)
      PROVE  HistoryType'
  BY <1>1, <1>6 DEF BoxAnswer, ConnectDone, ConnectTimeout
<1>7. ASSUME NEW m \in DOMAIN boxes,
             \/ ConnectDone(m) \/ ConnectTimeout(m)
             \/ ConnectFail(m) \/ CloseEvent(m) \/ Disconnect(m)
      PROVE  HistoryType'
  <2>1. CASE ConnectDone(m) \/ ConnectTimeout(m)
    BY <1>1, <2>1 DEF ConnectDone, ConnectTimeout
  <2>2. CASE ConnectFail(m) \/ CloseEvent(m) \/ Disconnect(m)
    <3>1. /\ UNCHANGED <<issued, answers, sends, notified, reported, overflowed,
                         removed, adds>>
          /\ losses' = losses \/ (losses < MaxLosses /\ losses' = losses + 1)
      BY <2>2 DEF ConnectFail, CloseEvent, Disconnect, Ends
    <3>2. losses' \in 0 .. MaxLosses
      BY <3>1, OptionsAssumption DEF HistoryType
    <3> QED BY <3>1, <3>2 DEF HistoryType
  <2> QED BY <1>7, <2>1, <2>2
<1>8. CASE RunDispatch \/ RunFlushed \/ RunCutCall \/ RunCutEnd
  BY <1>1, <1>8 DEF RunDispatch, RunFlushed, RunCutCall, RunCutEnd
<1>9. CASE RunPend
  <2>1. Head(agenda).call \in Calls
    BY <1>9, RunningFrame DEF RunPend, RunningType, Ops
  <2> QED BY <1>9, <2>1 DEF RunPend, HistoryType
<1>10. CASE RunSend
  <2>1. Head(agenda).call \in Calls
    BY <1>10, RunningFrame DEF RunSend, RunningType, Ops
  <2>2. \/ sends' = sends
        \/ sends' = [sends EXCEPT ![Head(agenda).call] = @ + 1]
    BY <1>10 DEF RunSend
  <2>3. sends' \in [Calls -> Nat]
    <3>1. sends[Head(agenda).call] + 1 \in Nat
      BY <2>1 DEF HistoryType
    <3> QED BY <2>1, <2>2, <3>1 DEF HistoryType
  <2>4. UNCHANGED <<issued, answers, notified, reported, overflowed, removed,
                    adds, losses>>
    BY <1>10 DEF RunSend
  <2> QED BY <2>3, <2>4 DEF HistoryType
<1>11. CASE RunResult \/ RunFailure \/ RunNotice
  <2>1. Head(agenda).call \in Calls
    BY <1>11, RunningFrame DEF RunResult, RunFailure, RunNotice, RunningType, Ops
  <2>2. \/ answers' = answers
        \/ \E word \in {"ok", "error"} :
             answers' = [answers EXCEPT ![Head(agenda).call] = Append(@, word)]
    BY <1>11 DEF RunResult, RunFailure, RunNotice, CallBack
  <2>3. answers' \in [Calls -> Seq({"ok", "error"})]
    BY <2>1, <2>2, AnswerType DEF HistoryType
  <2>4. /\ notified' \in {notified, notified \union {Head(agenda).call}}
        /\ UNCHANGED <<issued, sends, reported, overflowed, removed, adds, losses>>
    BY <1>11 DEF RunResult, RunFailure, RunNotice
  <2> QED BY <2>1, <2>3, <2>4 DEF HistoryType
<1>12. CASE RunError \/ RunConnectError
  <2> DEFINE c == Head(agenda).call
             s == Head(agenda).server
  <2>1. c \in Calls
    BY <1>12, RunningFrame DEF RunError, RunConnectError, RunningType, Ops
  <2>2. /\ reported' = reported \union {c}
        /\ UNCHANGED <<issued, sends, notified, overflowed, removed, adds, losses>>
    BY <1>12 DEF RunError, RunConnectError
  <2>3. options.failMode \in {"failfast", "failover", "failback"}
    BY OptionsAssumption DEF ConfigType
  <2>4. FailFast(c) \/ FailOver(c, s) \/ FailBack \/ Crash
    BY <1>12, <2>3 DEF RunError, RunConnectError
  <2> HIDE DEF c, s
  <2>5. \/ answers' = answers
        \/ answers' = [answers EXCEPT ![c] = Append(@, "error")]
    BY <2>4 DEF FailFast, FailOver, FailBack, Crash
  <2>6. answers' \in [Calls -> Seq({"ok", "error"})]
    BY <2>1, <2>5, AnswerType DEF HistoryType
  <2> QED BY <2>1, <2>2, <2>6 DEF HistoryType
<1>13. CASE UNCHANGED vars
  BY <1>1, <1>13 DEF vars
<1> QED
  BY <1>2, <1>3, <1>4, <1>5, <1>6, <1>7, <1>8, <1>9, <1>10, <1>11, <1>12, <1>13
     DEF Next, Run

LEMMA TypeInit == Init => TypeOK
<1> SUFFICES ASSUME Init PROVE TypeOK
  OBVIOUS
<1>1. /\ <<>> \in Seq(Box) /\ <<>> \in Seq(Calls) /\ <<>> \in Seq(Frames)
      /\ <<>> \in Seq(Servers) /\ <<>> \in Seq({"ok", "error"}) /\ Len(<<>>) = 0
  BY EmptyIsSeq
<1>2. ConfigType
  BY OptionsAssumption DEF Init, ConfigType
<1>3. LinksType
  BY <1>1 DEF Init, LinksType
<1>4. WaitingType
  BY <1>1, OptionsAssumption DEF Init, WaitingType
<1>5. RunningType
  BY <1>1 DEF Init, RunningType
<1>6. HistoryType
  BY <1>1, OptionsAssumption DEF Init, HistoryType
<1> QED BY <1>2, <1>3, <1>4, <1>5, <1>6, TypeParts

LEMMA TypeStep == TypeOK /\ [Next]_vars => TypeOK'
<1> SUFFICES ASSUME TypeOK, [Next]_vars PROVE TypeOK'
  OBVIOUS
<1>1. ConfigType /\ LinksType /\ WaitingType /\ RunningType /\ HistoryType
  BY TypeParts
<1>2. ConfigType' /\ LinksType' /\ WaitingType' /\ RunningType' /\ HistoryType'
  BY <1>1, ConfigStep, LinksStep, WaitingStep, RunningStep, HistoryStep
<1> QED BY <1>2
     DEF TypeOK, ConfigType, LinksType, WaitingType, RunningType, HistoryType

\* The variables keep their types, and the pending queues their limit (line
\* 413 of mailstation.js).
THEOREM TypeCorrect == Spec => []TypeOK
  BY TypeInit, TypeStep, PTL DEF Spec

-----------------------------------------------------------------------------
(* The map of the mailboxes.                                               *)

LEMMA OrphanedKept ==
  ASSUME LinksType, Grown, NEW m \in DOMAIN boxes, Orphaned(m)
  PROVE  Orphaned(m)'
<1>1. PICK n \in 1 .. m - 1 :
        /\ boxes[n].server = boxes[m].server
        /\ boxes[n].broken /\ boxes[n].phase = "closed"
        /\ options.reportsFailure
  BY DEF Orphaned
<1>2. Len(boxes) \in Nat /\ DOMAIN boxes = 1 .. Len(boxes)
  BY LenProperties DEF LinksType
<1>3. n \in DOMAIN boxes
  BY <1>2
<1>4. /\ boxes'[n].server = boxes'[m].server
      /\ boxes'[n].broken /\ boxes'[n].phase = "closed"
      /\ options'.reportsFailure
  BY <1>1, <1>3 DEF Grown
<1> QED BY <1>4 DEF Orphaned

\* A step that forgets mailboxes or none.
Forgetting ==
  SameBoxes /\ \A s \in Servers : mailboxes'[s] \in {0, mailboxes[s]}

\* A step that forgets the mailbox of s and closes it.
Replacing(s) ==
  /\ SameBoxes
  /\ mailboxes' = [mailboxes EXCEPT ![s] = 0]
  /\ \A m \in DOMAIN boxes : m = mailboxes[s] => boxes'[m].phase = "closed"

LEMMA MapSteps ==
  ASSUME LinksType, RunningType, [Next]_vars
  PROVE  \/ SameBoxes /\ mailboxes' = mailboxes
         \/ \E s \in Servers : Replacing(s)
         \/ Creating
         \/ \E m \in DOMAIN boxes : ConnectFail(m)
<1>1. CASE Apart
  BY <1>1, SameIsGrown DEF Apart, LinksType
<1>2. CASE Closing
  BY <1>2, CloseAllStep DEF Closing
<1>3. CASE Dropping
  BY <1>3, DropBoxStep DEF Dropping, Replacing
<1>4. ASSUME NEW m \in DOMAIN boxes, ConnectDone(m) \/ ConnectTimeout(m)
      PROVE  SameBoxes /\ mailboxes' = mailboxes
  BY <1>4, ConnectDoneStep, ConnectTimeoutStep
<1>5. ASSUME NEW m \in DOMAIN boxes, Emitting(m)
      PROVE  \E s \in Servers : Replacing(s)
  <2>1. boxes[m].server \in Servers
    BY BoxServer DEF LinksType
  <2>2. Replacing(boxes[m].server)
    BY <1>5, EmitCloseStep DEF Replacing
  <2> QED BY <2>1, <2>2
<1> QED BY <1>1, <1>2, <1>3, <1>4, <1>5, BoxSteps DEF BoxEvent

LEMMA MapKept ==
  ASSUME LinksType, MapInv, Forgetting
  PROVE  MapInv'
<1> SUFFICES ASSUME NEW s \in Servers, mailboxes'[s] # 0
             PROVE  /\ boxes'[mailboxes'[s]].server = s
                    /\ \A n \in DOMAIN boxes' :
                         boxes'[n].server = s => n <= mailboxes'[s]
  BY DEF MapInv
<1>1. mailboxes'[s] = mailboxes[s] /\ mailboxes[s] # 0
  BY DEF Forgetting
<1>2. /\ boxes[mailboxes[s]].server = s
      /\ \A n \in DOMAIN boxes : boxes[n].server = s => n <= mailboxes[s]
  BY <1>1 DEF MapInv
<1>3. mailboxes[s] \in DOMAIN boxes
  <2>1. Len(boxes) \in Nat /\ DOMAIN boxes = 1 .. Len(boxes)
    BY LenProperties DEF LinksType
  <2>2. mailboxes[s] \in 0 .. Len(boxes)
    BY DEF LinksType
  <2> QED BY <1>1, <2>1, <2>2
<1>4. /\ DOMAIN boxes' = DOMAIN boxes
      /\ \A n \in DOMAIN boxes : boxes'[n].server = boxes[n].server
  BY DEF Forgetting, SameBoxes, Grown
<1> QED BY <1>1, <1>2, <1>3, <1>4

LEMMA MapCreated ==
  ASSUME LinksType, MapInv, Creating
  PROVE  MapInv'
<1>1. PICK s \in Servers, c \in Calls : mailboxes[s] = 0 /\ CreateBox(s, c)
  BY DEF Creating
<1> DEFINE new == Len(boxes) + 1
<1>2. /\ mailboxes' = [mailboxes EXCEPT ![s] = new]
      /\ DOMAIN boxes' = DOMAIN boxes \union {new}
      /\ boxes'[new].server = s
      /\ \A m \in DOMAIN boxes : boxes'[m] = boxes[m]
  <2>1. NewBox(s, c).server = s
    BY DEF NewBox
  <2> QED BY <1>1, <2>1, CreateBoxStep DEF Creating
<1>3. Len(boxes) \in Nat /\ DOMAIN boxes = 1 .. Len(boxes)
  BY LenProperties DEF LinksType
<1>4. \A m \in DOMAIN boxes' : m <= new
  BY <1>2, <1>3
<1>5. new # 0
  BY <1>3
<1> HIDE DEF new
<1>6. ASSUME NEW t \in Servers, mailboxes'[t] # 0
      PROVE  /\ boxes'[mailboxes'[t]].server = t
             /\ \A n \in DOMAIN boxes' :
                  boxes'[n].server = t => n <= mailboxes'[t]
  <2>1. CASE t = s
    BY <1>2, <1>4, <2>1 DEF LinksType
  <2>2. CASE t # s
    <3>1. mailboxes'[t] = mailboxes[t] /\ mailboxes[t] # 0
      BY <1>2, <1>6, <2>2 DEF LinksType
    <3>2. /\ boxes[mailboxes[t]].server = t
          /\ \A n \in DOMAIN boxes : boxes[n].server = t => n <= mailboxes[t]
      BY <3>1 DEF MapInv
    <3>3. mailboxes[t] \in 0 .. Len(boxes)
      BY DEF LinksType
    <3>4. mailboxes[t] \in DOMAIN boxes
      BY <1>3, <3>1, <3>3
    <3> QED BY <1>2, <2>2, <3>1, <3>2, <3>4
  <2> QED BY <2>1, <2>2
<1> QED BY <1>6 DEF MapInv

LEMMA MapStep ==
  ASSUME LinksType, RunningType, MapInv, [Next]_vars
  PROVE  MapInv'
<1>1. CASE SameBoxes /\ mailboxes' = mailboxes
  BY <1>1, MapKept DEF Forgetting
<1>2. ASSUME NEW s \in Servers, Replacing(s)
      PROVE  MapInv'
  BY <1>2, MapKept DEF Forgetting, Replacing, LinksType
<1>3. ASSUME NEW m \in DOMAIN boxes, ConnectFail(m)
      PROVE  MapInv'
  <2>1. /\ SameBoxes /\ boxes[m].server \in Servers
        /\ mailboxes' = [mailboxes EXCEPT ![boxes[m].server] = 0]
    BY <1>3, ConnectFailStep, BoxServer DEF LinksType
  <2>2. Forgetting
    BY <2>1 DEF Forgetting, LinksType
  <2> QED BY <2>2, MapKept
<1> QED BY <1>1, <1>2, <1>3, MapCreated, MapSteps

-----------------------------------------------------------------------------
(* No connection escapes the map.                                          *)

LEMMA LeakKept ==
  ASSUME LinksType, NoLeakedConnection, SameBoxes, mailboxes' = mailboxes
  PROVE  NoLeakedConnection'
<1> SUFFICES ASSUME NEW m \in DOMAIN boxes', boxes'[m].phase \in {"dialing", "open"}
             PROVE  mailboxes'[boxes'[m].server] = m \/ Orphaned(m)'
  BY DEF NoLeakedConnection
<1>1. m \in DOMAIN boxes /\ Grown
  BY DEF SameBoxes
<1>2. boxes[m].phase \in {"dialing", "open"} /\ boxes'[m].server = boxes[m].server
  BY <1>1 DEF Grown
<1>3. mailboxes[boxes[m].server] = m \/ Orphaned(m)
  BY <1>1, <1>2 DEF NoLeakedConnection
<1> QED BY <1>1, <1>2, <1>3, OrphanedKept

LEMMA LeakReplaced ==
  ASSUME LinksType, NoLeakedConnection, NEW s \in Servers, Replacing(s)
  PROVE  NoLeakedConnection'
<1> SUFFICES ASSUME NEW m \in DOMAIN boxes', boxes'[m].phase \in {"dialing", "open"}
             PROVE  mailboxes'[boxes'[m].server] = m \/ Orphaned(m)'
  BY DEF NoLeakedConnection
<1>1. m \in DOMAIN boxes /\ Grown
  BY DEF SameBoxes, Replacing
<1>2. boxes[m].phase \in {"dialing", "open"} /\ boxes'[m].server = boxes[m].server
  BY <1>1 DEF Grown
<1>3. boxes[m].server \in Servers
  BY <1>1, BoxServer DEF LinksType
<1>4. CASE mailboxes[boxes[m].server] = m
  <2>1. mailboxes[s] # m
    BY <1>1 DEF Replacing
  <2>2. boxes[m].server # s
    BY <1>4, <2>1
  <2> QED BY <1>2, <1>3, <1>4, <2>2 DEF Replacing, LinksType
<1>5. CASE Orphaned(m)
  BY <1>1, <1>5, OrphanedKept
<1> QED BY <1>1, <1>2, <1>4, <1>5 DEF NoLeakedConnection

LEMMA LeakCreated ==
  ASSUME LinksType, NoLeakedConnection, Creating
  PROVE  NoLeakedConnection'
<1> SUFFICES ASSUME NEW m \in DOMAIN boxes', boxes'[m].phase \in {"dialing", "open"}
             PROVE  mailboxes'[boxes'[m].server] = m \/ Orphaned(m)'
  BY DEF NoLeakedConnection
<1>1. PICK s \in Servers, c \in Calls : mailboxes[s] = 0 /\ CreateBox(s, c)
  BY DEF Creating
<1> DEFINE new == Len(boxes) + 1
<1>2. /\ Grown
      /\ mailboxes' = [mailboxes EXCEPT ![s] = new]
      /\ DOMAIN boxes' = DOMAIN boxes \union {new}
      /\ boxes'[new].server = s
      /\ \A n \in DOMAIN boxes : boxes'[n] = boxes[n]
  <2>1. NewBox(s, c).server = s
    BY DEF NewBox
  <2> QED BY <1>1, <2>1, CreateBoxStep DEF Creating
<1>3. Len(boxes) \in Nat /\ DOMAIN boxes = 1 .. Len(boxes)
  BY LenProperties DEF LinksType
<1>4. CASE m = new
  BY <1>2, <1>4 DEF LinksType
<1>5. CASE m \in DOMAIN boxes
  <2>1. boxes'[m] = boxes[m]
    BY <1>2, <1>5
  <2>2. boxes[m].server \in Servers
    BY <1>5, BoxServer DEF LinksType
  <2>3. mailboxes[boxes[m].server] = m \/ Orphaned(m)
    BY <1>5, <2>1 DEF NoLeakedConnection
  <2>4. CASE Orphaned(m)
    BY <1>2, <1>5, <2>4, OrphanedKept
  <2>5. CASE mailboxes[boxes[m].server] = m
    <3>1. m # 0
      BY <1>3, <1>5
    <3>2. boxes[m].server # s
      BY <1>1, <2>5, <3>1
    <3> QED BY <1>2, <2>1, <2>2, <2>5, <3>2 DEF LinksType
  <2> QED BY <2>3, <2>4, <2>5
<1> QED BY <1>2, <1>4, <1>5

\* The server of m forgets whatever mailbox it has: m, which has failed, or a
\* successor, which is orphaned then.
LEMMA LeakFailed ==
  ASSUME LinksType, MapInv, NoLeakedConnection,
         NEW f \in DOMAIN boxes, ConnectFail(f)
  PROVE  NoLeakedConnection'
<1> SUFFICES ASSUME NEW m \in DOMAIN boxes', boxes'[m].phase \in {"dialing", "open"}
             PROVE  mailboxes'[boxes'[m].server] = m \/ Orphaned(m)'
  BY DEF NoLeakedConnection
<1> DEFINE s == boxes[f].server
<1>1. /\ Grown /\ DOMAIN boxes' = DOMAIN boxes
      /\ mailboxes' = [mailboxes EXCEPT ![s] = 0]
      /\ options.reportsFailure
      /\ boxes[f].phase \in {"dialing", "closed"}
      /\ boxes'[f].broken
      /\ boxes'[f].phase = IF boxes[f].phase = "dialing" THEN "failed"
                           ELSE boxes[f].phase
  BY ConnectFailStep DEF SameBoxes
<1>2. m \in DOMAIN boxes /\ boxes'[m].server = boxes[m].server
      /\ boxes[m].phase \in {"dialing", "open"}
  BY <1>1 DEF Grown
<1>3. boxes[m].server \in Servers /\ s \in Servers
  BY <1>2, BoxServer DEF LinksType
<1>4. CASE Orphaned(m)
  BY <1>1, <1>2, <1>4, OrphanedKept
<1>5. CASE mailboxes[boxes[m].server] = m /\ boxes[m].server # s
  BY <1>1, <1>2, <1>3, <1>5 DEF LinksType
<1>6. CASE mailboxes[boxes[m].server] = m /\ boxes[m].server = s
  <2>1. m # f
    BY <1>1
  <2>2. Len(boxes) \in Nat /\ DOMAIN boxes = 1 .. Len(boxes)
    BY LenProperties DEF LinksType
  <2>3. f <= m
    BY <1>2, <1>3, <1>6, <2>2 DEF MapInv
  <2>4. f \in 1 .. m - 1
    BY <1>2, <2>1, <2>2, <2>3
  <2>5. CASE boxes[f].phase = "closed"
    <3>1. /\ boxes'[f].server = boxes'[m].server /\ boxes'[f].broken
          /\ boxes'[f].phase = "closed" /\ options'.reportsFailure
      BY <1>1, <1>2, <1>6, <2>5 DEF Grown
    <3> QED BY <2>4, <3>1 DEF Orphaned
  <2>6. CASE boxes[f].phase = "dialing"
    <3>1. mailboxes[s] = f \/ Orphaned(f)
      BY <2>6 DEF NoLeakedConnection
    <3>2. Orphaned(f)
      BY <1>6, <2>1, <3>1
    <3>3. Orphaned(f)'
      BY <1>1, <3>2, OrphanedKept
    <3>4. PICK n \in 1 .. f - 1 :
            /\ boxes'[n].server = boxes'[f].server
            /\ boxes'[n].broken /\ boxes'[n].phase = "closed"
            /\ options'.reportsFailure
      BY <3>3 DEF Orphaned
    <3>5. n \in 1 .. m - 1
      BY <1>2, <2>2, <2>3
    <3>6. boxes'[f].server = boxes'[m].server
      BY <1>1, <1>2, <1>6 DEF Grown
    <3> QED BY <3>4, <3>5, <3>6 DEF Orphaned
  <2> QED BY <1>1, <2>5, <2>6
<1> QED BY <1>2, <1>4, <1>5, <1>6 DEF NoLeakedConnection

LEMMA LeakStep ==
  ASSUME LinksType, RunningType, MapInv, NoLeakedConnection, [Next]_vars
  PROVE  NoLeakedConnection'
  BY MapSteps, LeakKept, LeakReplaced, LeakCreated, LeakFailed

-----------------------------------------------------------------------------
(* A stopped station.                                                      *)

\* The station becomes quiet by closing its mailboxes only, and is reopened only
\* by a tick.
LEMMA StateSteps ==
  ASSUME ConfigType, [Next]_vars
  PROVE  /\ Quiet' => Quiet \/ Closing
         /\ state = "closed" => state' = "closed" \/ ticks > 0
<1> USE DEF ConfigType
<1>1. CASE UNCHANGED <<state, ticks, graceTimers>>
  BY <1>1 DEF Quiet
<1>2. CASE Start
  BY <1>2 DEF Start, Quiet
<1>3. CASE StartTick
  BY <1>3 DEF StartTick, Quiet
<1>4. CASE GraceTimeout
  BY <1>4 DEF GraceTimeout, Closing
<1>5. ASSUME NEW force \in BOOLEAN, Stop(force)
      PROVE  /\ Quiet' => Quiet \/ Closing
             /\ state = "closed" => state' = "closed" \/ ticks > 0
  BY <1>5 DEF Stop, Closing, Quiet
<1>6. ASSUME NEW s \in Servers, AddServer(s) \/ RemoveServer(s)
      PROVE  UNCHANGED <<state, ticks, graceTimers>>
  BY <1>6 DEF AddServer, RemoveServer
<1>7. ASSUME NEW c \in Calls, NEW s \in Servers,
             Invoke(c, s) \/ FilterNext(c, s) \/ AfterNext(c, s)
      PROVE  UNCHANGED config
  BY <1>7 DEF Invoke, FilterNext, AfterNext
<1>8. ASSUME NEW m \in DOMAIN boxes, NEW c \in Calls, BoxAnswer(m, c)
      PROVE  UNCHANGED config
  BY <1>8 DEF BoxAnswer
<1>9. ASSUME NEW m \in DOMAIN boxes,
             \/ ConnectDone(m) \/ ConnectTimeout(m) \/ ConnectFail(m)
             \/ CloseEvent(m) \/ Disconnect(m)
      PROVE  UNCHANGED config
  BY <1>9 DEF ConnectDone, ConnectTimeout, ConnectFail, CloseEvent, Disconnect
<1>10. CASE Run
  BY <1>10 DEF Run, RunDispatch, RunPend, RunSend, RunResult, RunFailure,
               RunNotice, RunError, RunConnectError, RunFlushed, RunCutCall,
               RunCutEnd, config, Quiet
<1>11. CASE UNCHANGED vars
  BY <1>11 DEF vars, config, Quiet
<1>12. UNCHANGED config => UNCHANGED <<state, ticks, graceTimers>>
  BY DEF config
<1> QED
  BY <1>1, <1>2, <1>3, <1>4, <1>5, <1>6, <1>7, <1>8, <1>9, <1>10, <1>11, <1>12
     DEF Next

LEMMA StopStep ==
  ASSUME ConfigType, LinksType, RunningType, NoLeakedConnection, StopInv,
         [Next]_vars
  PROVE  StopInv'
<1>1. Grown
  BY BoxesGrow
<1>2. ASSUME Quiet, NEW m \in DOMAIN boxes'
      PROVE  boxes'[m].phase \in {"failed", "closed"} \/ Orphaned(m)'
  <2>1. ~Creating
    BY <1>2 DEF Creating, Quiet
  <2>2. DOMAIN boxes' = DOMAIN boxes
    BY <2>1, MapSteps, ConnectFailStep DEF SameBoxes, Replacing
  <2>3. boxes[m].phase \in {"failed", "closed"} \/ Orphaned(m)
    BY <1>2, <2>2 DEF StopInv, Quiet
  <2>4. CASE boxes[m].phase \in {"failed", "closed"}
    BY <1>1, <2>2, <2>4 DEF Grown
  <2>5. CASE Orphaned(m)
    BY <1>1, <2>2, <2>5, OrphanedKept
  <2> QED BY <2>3, <2>4, <2>5
<1>3. ASSUME Closing, NEW m \in DOMAIN boxes'
      PROVE  boxes'[m].phase \in {"failed", "closed"} \/ Orphaned(m)'
  <2>1. /\ DOMAIN boxes' = DOMAIN boxes
        /\ (\E s \in Servers : mailboxes[s] = m) => boxes'[m].phase = "closed"
    BY <1>3, CloseAllStep DEF Closing, SameBoxes
  <2>2. boxes[m].server \in Servers /\ boxes[m].phase \in Phases
    <3>1. boxes[m] \in Box
      BY <2>1, ElementOfSeq, LenProperties DEF LinksType
    <3> QED BY <3>1 DEF Box
  <2>3. CASE boxes[m].phase \in {"failed", "closed"}
    BY <1>1, <2>1, <2>3 DEF Grown
  <2>4. CASE boxes[m].phase \in {"dialing", "open"}
    <3>1. mailboxes[boxes[m].server] = m \/ Orphaned(m)
      BY <2>1, <2>4 DEF NoLeakedConnection
    <3>2. CASE Orphaned(m)
      BY <1>1, <2>1, <3>2, OrphanedKept
    <3> QED BY <2>1, <2>2, <3>1, <3>2
  <2> QED BY <2>2, <2>3, <2>4 DEF Phases
<1>4. Quiet' => Quiet \/ Closing
  BY StateSteps
<1>5. Quiet' => \A m \in DOMAIN boxes' :
                  boxes'[m].phase \in {"failed", "closed"} \/ Orphaned(m)'
  BY <1>2, <1>3, <1>4
<1> QED BY <1>5 DEF StopInv, Quiet

-----------------------------------------------------------------------------
(* The theorems.                                                           *)

LEMMA InvInit == Init => IInv
<1> SUFFICES ASSUME Init PROVE IInv
  OBVIOUS
<1>1. TypeOK
  BY TypeInit
<1>2. DOMAIN boxes = {}
  BY DEF Init
<1>3. MapInv
  BY DEF Init, MapInv
<1>4. NoLeakedConnection
  BY <1>2 DEF NoLeakedConnection
<1>5. StopInv
  BY <1>2 DEF StopInv
<1> QED BY <1>1, <1>3, <1>4, <1>5 DEF IInv

LEMMA InvStep == IInv /\ [Next]_vars => IInv'
<1> SUFFICES ASSUME IInv, [Next]_vars PROVE IInv'
  OBVIOUS
<1>1. /\ TypeOK /\ MapInv /\ NoLeakedConnection /\ StopInv
      /\ ConfigType /\ LinksType /\ RunningType
  BY TypeParts DEF IInv
<1>2. TypeOK'
  BY <1>1, TypeStep
<1>3. MapInv'
  BY <1>1, MapStep
<1>4. NoLeakedConnection'
  BY <1>1, LeakStep
<1>5. StopInv'
  BY <1>1, StopStep
<1> QED BY <1>2, <1>3, <1>4, <1>5 DEF IInv

\* The inductive invariant of the station: mailboxes are found under their own
\* server, newest first, live ones are in the map or orphaned by a late error of
\* a connect, and those of a stopped station are closed.
THEOREM InductiveInvariant == Spec => []IInv
  BY InvInit, InvStep, PTL DEF Spec

\* Whatever is added, removed, broken or called back late, stop finds every
\* connection in the map, but those that a late connect error has orphaned
\* (lines 68-95 and 326-343 of mailstation.js).
THEOREM NoConnectionLeaks == Spec => []NoLeakedConnection
<1>1. IInv => NoLeakedConnection
  BY DEF IInv
<1> QED BY <1>1, InductiveInvariant, PTL

\* A stopped station stays stopped but for the tick of another start; stopped, it
\* creates no mailbox, and after the grace time none of its mailboxes is open
\* (lines 53-95 and 209-248 of mailstation.js).
THEOREM StoppedStationStaysClosed == Spec => StoppedStaysClosed
<1> DEFINE Act == state = "closed" =>
                    /\ state' = "closed" \/ ticks > 0
                    /\ Len(boxes') = Len(boxes)
                    /\ graceTimers = 0 => \A m \in DOMAIN boxes :
                         \/ boxes'[m].phase \in {"failed", "closed"}
                         \/ Orphaned(m)
<1>1. IInv /\ [Next]_vars => [Act]_vars
  <2> SUFFICES ASSUME IInv, [Next]_vars, state = "closed"
               PROVE  Act
    OBVIOUS
  <2>1. ConfigType /\ LinksType /\ RunningType /\ StopInv
    BY TypeParts DEF IInv
  <2>2. ~Creating
    BY DEF Creating
  <2>3. Len(boxes') = Len(boxes)
    BY <2>1, <2>2, MapSteps, ConnectFailStep DEF SameBoxes, Replacing
  <2>4. Grown
    BY <2>1, BoxesGrow
  <2>5. graceTimers = 0 =>
          \A m \in DOMAIN boxes :
            boxes[m].phase \in {"failed", "closed"} \/ Orphaned(m)
    BY <2>1 DEF StopInv, Quiet
  <2>6. graceTimers = 0 =>
          \A m \in DOMAIN boxes :
            boxes'[m].phase \in {"failed", "closed"} \/ Orphaned(m)
    BY <2>4, <2>5 DEF Grown
  <2>7. state' = "closed" \/ ticks > 0
    BY <2>1, StateSteps
  <2> QED BY <2>3, <2>6, <2>7
<1> QED BY <1>1, InductiveInvariant, PTL DEF Spec, StoppedStaysClosed

LEMMA EchoKept ==
  ASSUME LinksType, RunningType, [Next]_vars, NEW n \in DOMAIN boxes,
         boxes[n].echo, ~boxes'[n].echo
  PROVE  Emitting(n)
<1>1. Apart => boxes'[n].echo = boxes[n].echo
  BY DEF Apart
<1>2. Closing => boxes'[n].echo = boxes[n].echo
  BY CloseAllStep DEF Closing
<1>3. Dropping => boxes'[n].echo = boxes[n].echo
  BY DropBoxStep DEF Dropping
<1>4. Creating => boxes'[n].echo = boxes[n].echo
  BY CreateBoxStep DEF Creating
<1>5. BoxEvent
  BY <1>1, <1>2, <1>3, <1>4, BoxSteps
<1>6. PICK m \in DOMAIN boxes :
        \/ ConnectDone(m) \/ ConnectTimeout(m) \/ ConnectFail(m) \/ Emitting(m)
  BY <1>5 DEF BoxEvent
<1>7. Emitting(m)
  BY <1>6, ConnectDoneStep, ConnectTimeoutStep, ConnectFailStep
<1>8. n = m
  BY <1>7, EmitCloseStep
<1> QED BY <1>7, <1>8

\* Where connect reports no failure, the end of an open mailbox closes no other
\* one, by a socket error as after a disconnect loop, whose callbacks may have
\* added, removed and called anything (lines 335-342 of mailstation.js).
THEOREM CloseEventsStayHome == Spec => ClosesOwnBox
<1> DEFINE Act == ~options.reportsFailure =>
                    \A m, n \in DOMAIN boxes :
                      (m # n /\ boxes[n].phase = "open"
                         /\ boxes[n].echo /\ ~boxes'[n].echo)
                        => boxes'[m].phase = boxes[m].phase
<1>1. IInv /\ [Next]_vars => [Act]_vars
  <2> SUFFICES ASSUME IInv, [Next]_vars, ~options.reportsFailure,
                      NEW m \in DOMAIN boxes, NEW n \in DOMAIN boxes,
                      m # n, boxes[n].phase = "open",
                      boxes[n].echo, ~boxes'[n].echo
               PROVE  boxes'[m].phase = boxes[m].phase
    OBVIOUS
  <2>1. LinksType /\ RunningType /\ NoLeakedConnection
    BY TypeParts DEF IInv
  <2>2. Emitting(n)
    BY <2>1, EchoKept
  <2>3. ~Orphaned(n)
    BY DEF Orphaned
  <2>4. mailboxes[boxes[n].server] = n
    BY <2>1, <2>3 DEF NoLeakedConnection
  <2> QED BY <2>1, <2>2, <2>4, EmitCloseStep
<1> QED BY <1>1, InductiveInvariant, PTL DEF Spec, ClosesOwnBox
=============================================================================
