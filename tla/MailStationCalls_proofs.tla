---------------------- MODULE MailStationCalls_proofs ----------------------
(***************************************************************************)
(* Theorems about what MailStation does with a call, for every value of    *)
(* its constants: it is in one place at most, it is handed to a mailbox at *)
(* most once, its callback is called at most once, and once more at the    *)
(* disconnect of its mailbox, and it is not lost without an 'error' event, *)
(* but for the ways that NoSilentLoss names, a full queue and a mailbox    *)
(* that the station has forgotten while it was connecting.                 *)
(***************************************************************************)
EXTENDS MailStation_proofs

-----------------------------------------------------------------------------
(* Where a call is.  A frame is known by its depth in the agenda, which    *)
(* does not change while the frames on top of it run.  What is in a queue  *)
(* that is being flushed is on the agenda, and will be deleted.            *)

Early == {"dispatch", "pend", "send"}
Late == {"result", "failure"}

Flushing(s) ==
  \E i \in DOMAIN agenda : agenda[i].op = "flushed" /\ agenda[i].server = s

FrameSpots(c, ops) ==
  {<<"frame", Len(agenda) - i>> :
     i \in {j \in DOMAIN agenda : agenda[j].op \in ops /\ agenda[j].call = c}}

Queued(c) ==
  {x \in Servers \X Nat : /\ x[2] \in DOMAIN pendings[x[1]]
                         /\ pendings[x[1]][x[2]] = c}

QueueSpots(c)  == {<<"queue", x>> : x \in {y \in Queued(c) : ~Flushing(y[1])}}
FilterSpots(c) == {<<"filter", s>> : s \in {t \in Servers : <<c, t>> \in filtering}}
ReturnSpots(c) == {<<"return", s>> : s \in {t \in Servers : <<c, t>> \in returning}}
BoxSpots(c)    == {<<"box", m>> : m \in {n \in Nat : <<n, c>> \in inflight}}

\* On its way to a mailbox, with it, and on its way back to the caller.
EarlySpots(c) == FrameSpots(c, Early) \union QueueSpots(c) \union FilterSpots(c)
LateSpots(c)  == FrameSpots(c, Late) \union ReturnSpots(c) \union BoxSpots(c)
Spots(c)      == EarlySpots(c) \union LateSpots(c)

\* How often its callback was called by a 'disconnect' listener.
Notices(c) == IF c \in notified THEN 1 ELSE 0

\* A call is in one place at most: in none once it was answered otherwise, and
\* no longer on its way to a mailbox once it was sent.
PlaceInv(c) ==
  /\ \A p, q \in Spots(c) : p = q
  /\ c \notin issued => Spots(c) = {} /\ sends[c] = 0
  /\ sends[c] <= 1
  /\ sends[c] = 1 => EarlySpots(c) = {}
  /\ Silent => /\ c \notin issued => answers[c] = <<>>
               /\ Len(answers[c]) <= 1 + Notices(c)
               /\ Len(answers[c]) > Notices(c) => Spots(c) = {}

\* Where a call is that a 'disconnect' listener is to call back.  It is with the
\* mailbox as well.
NoticeSpots(c) ==
  FrameSpots(c, {"notice"}) \union {x \in {<<"cut">>} : c \in cut}

\* A call gets one notice at most: once it has one, it is with no other mailbox
\* than the one whose listener runs, or with one that has emitted 'close'.
NoticeInv(c) ==
  /\ \A p, q \in NoticeSpots(c) : p = q
  /\ c \in notified => NoticeSpots(c) = {}
  /\ BoxSpots(c) # {} \/ NoticeSpots(c) # {} \/ c \in notified => sends[c] = 1
  /\ NoticeSpots(c) # {} \/ c \in notified =>
       \A m \in Nat : <<m, c>> \in inflight => m = cutBox \/ ~boxes[m].echo

CallInv(c) == PlaceInv(c) /\ NoticeInv(c)
PlacesInv == \A c \in Calls : CallInv(c) \/ Retried(c)

-----------------------------------------------------------------------------
(* How a place changes.                                                    *)

\* Call c is neither handed over nor called back, but by the failure processing.
Untold(c) ==
  /\ options' = options /\ (c \in notified' <=> c \in notified)
  /\ answers'[c] = answers[c] \/ ~Silent

LEMMA Stays ==
  ASSUME NEW c \in Calls, HistoryType, PlaceInv(c), issued \subseteq issued',
         EarlySpots(c)' \subseteq EarlySpots(c),
         LateSpots(c)' \subseteq LateSpots(c),
         sends'[c] = sends[c], Untold(c)
  PROVE  PlaceInv(c)'
<1>1. Silent' = Silent /\ Notices(c)' = Notices(c)
  BY DEF Untold, Silent, Notices
<1>2. Spots(c)' \subseteq Spots(c)
  BY DEF Spots
<1>. QED
  BY <1>1, <1>2 DEF PlaceInv, Untold

\* A call moves from place p to place q, on its way to a mailbox.
LEMMA MovesEarly ==
  ASSUME NEW c \in Calls, HistoryType, PlaceInv(c), issued' = issued,
         NEW p \in EarlySpots(c), NEW q,
         EarlySpots(c)' \subseteq (EarlySpots(c) \ {p}) \union {q},
         LateSpots(c)' \subseteq LateSpots(c) \ {p},
         sends'[c] = sends[c], Untold(c)
  PROVE  PlaceInv(c)'
<1>1. Spots(c) \subseteq {p} /\ p \in Spots(c)
  BY DEF PlaceInv, Spots
<1>2. Spots(c)' \subseteq {q} /\ c \in issued
  BY <1>1 DEF PlaceInv, Spots
<1>3. Silent' = Silent /\ Notices(c)' = Notices(c)
  BY DEF Untold, Silent, Notices
<1>. QED
  BY <1>1, <1>2, <1>3 DEF PlaceInv, Untold

\* It moves to a place after that.
LEMMA MovesLate ==
  ASSUME NEW c \in Calls, HistoryType, PlaceInv(c), issued' = issued,
         NEW p \in Spots(c), NEW q,
         EarlySpots(c)' \subseteq EarlySpots(c) \ {p},
         LateSpots(c)' \subseteq (LateSpots(c) \ {p}) \union {q},
         sends'[c] = sends[c] \/ (p \in EarlySpots(c) /\ sends'[c] = sends[c] + 1),
         Untold(c)
  PROVE  PlaceInv(c)'
<1>1. Spots(c) \subseteq {p}
  BY DEF PlaceInv
<1>2. EarlySpots(c)' = {} /\ Spots(c)' \subseteq {q} /\ c \in issued
  BY <1>1 DEF PlaceInv, Spots
<1>3. sends'[c] <= 1 /\ sends[c] \in Nat
  BY DEF PlaceInv, HistoryType
<1>4. Silent' = Silent /\ Notices(c)' = Notices(c)
  BY DEF Untold, Silent, Notices
<1>. QED
  BY <1>2, <1>3, <1>4 DEF PlaceInv, Untold

\* A callback is called.
LEMMA IsAnswered ==
  ASSUME NEW c \in Calls, HistoryType, PlaceInv(c), issued' = issued,
         NEW p \in Spots(c),
         EarlySpots(c)' \subseteq EarlySpots(c) \ {p},
         LateSpots(c)' \subseteq LateSpots(c) \ {p},
         sends'[c] = sends[c], options' = options, c \in notified' <=> c \in notified,
         NEW outcome \in {"ok", "error"}, answers'[c] = Append(answers[c], outcome)
  PROVE  PlaceInv(c)'
<1>1. Silent' = Silent /\ Notices(c)' = Notices(c) /\ Notices(c) \in Nat
  BY DEF Silent, Notices
<1>2. answers[c] \in Seq({"ok", "error"}) /\ Len(answers[c]) \in Nat
  BY LenProperties DEF HistoryType
<1>3. Len(answers'[c]) = Len(answers[c]) + 1
  BY <1>2
<1>4. Silent => Len(answers'[c]) <= 1 + Notices(c)
  BY <1>1, <1>2, <1>3 DEF PlaceInv
<1>5. EarlySpots(c)' = {} /\ Spots(c)' = {} /\ c \in issued
  BY DEF PlaceInv, Spots
<1>. QED
  BY <1>1, <1>4, <1>5 DEF PlaceInv

\* It is called by a 'disconnect' listener.
LEMMA IsNoticed ==
  ASSUME NEW c \in Calls, HistoryType, PlaceInv(c), issued' = issued,
         c \in issued, c \notin notified, c \in notified',
         EarlySpots(c)' \subseteq EarlySpots(c),
         LateSpots(c)' \subseteq LateSpots(c),
         sends'[c] = sends[c], options' = options,
         NEW outcome \in {"ok", "error"}, answers'[c] = Append(answers[c], outcome)
  PROVE  PlaceInv(c)'
<1>1. Silent' = Silent /\ Notices(c)' = 1 /\ Notices(c) = 0
  BY DEF Silent, Notices
<1>2. answers[c] \in Seq({"ok", "error"}) /\ Len(answers[c]) \in Nat
  BY LenProperties DEF HistoryType
<1>3. Len(answers'[c]) = Len(answers[c]) + 1
  BY <1>2
<1>4. Spots(c)' \subseteq Spots(c)
  BY DEF Spots
<1>. QED
  BY <1>1, <1>2, <1>3, <1>4 DEF PlaceInv

-----------------------------------------------------------------------------
(* The frames.                                                             *)

Top == <<"frame", Len(agenda) - 1>>

\* The running frame is replaced by others.
LEMMA ContinueFrames ==
  ASSUME agenda \in Seq(Frames), agenda # <<>>, NEW frames \in Seq(Frames),
         Continue(frames)
  PROVE  /\ agenda' \in Seq(Frames)
         /\ Len(agenda') = Len(frames) + Len(agenda) - 1
         /\ \A i \in 1 .. Len(frames) : agenda'[i] = frames[i]
         /\ \A i \in 2 .. Len(agenda) :
              agenda'[i + Len(frames) - 1] = agenda[i]
<1>1. /\ Tail(agenda) \in Seq(Frames) /\ Len(Tail(agenda)) = Len(agenda) - 1
      /\ \A i \in 1 .. Len(Tail(agenda)) : Tail(agenda)[i] = agenda[i + 1]
  BY HeadTailProperties
<1>2. Len(agenda) \in Nat /\ Len(frames) \in Nat
  BY LenProperties
<1>3. /\ agenda' \in Seq(Frames)
      /\ Len(agenda') = Len(frames) + Len(Tail(agenda))
      /\ \A i \in 1 .. Len(frames) + Len(Tail(agenda)) :
           agenda'[i] = IF i <= Len(frames) THEN frames[i]
                        ELSE Tail(agenda)[i - Len(frames)]
  BY <1>1, ConcatProperties DEF Continue
<1>4. ASSUME NEW i \in 2 .. Len(agenda)
      PROVE  agenda'[i + Len(frames) - 1] = agenda[i]
  <2>1. i + Len(frames) - 1 \in 1 .. Len(frames) + Len(Tail(agenda))
    BY <1>1, <1>2
  <2>2. ~(i + Len(frames) - 1 <= Len(frames))
    BY <1>2
  <2>3. agenda'[i + Len(frames) - 1] = Tail(agenda)[i - 1]
    BY <1>2, <1>3, <2>1, <2>2
  <2>. QED
    BY <1>1, <1>2, <2>3
<1>5. Len(agenda') = Len(frames) + Len(agenda) - 1
  BY <1>1, <1>2, <1>3
<1>6. \A i \in 1 .. Len(frames) : agenda'[i] = frames[i]
  <2> TAKE i \in 1 .. Len(frames)
  <2>1. i \in 1 .. Len(frames) + Len(Tail(agenda)) /\ i <= Len(frames)
    BY <1>1, <1>2
  <2>. QED
    BY <1>3, <2>1
<1>. QED
  BY <1>3, <1>4, <1>5, <1>6

LEMMA FrameMoves ==
  ASSUME agenda \in Seq(Frames), agenda # <<>>, NEW frames \in Seq(Frames),
         Continue(frames), NEW c, NEW ops, NEW p \in FrameSpots(c, ops)'
  PROVE  \/ p \in FrameSpots(c, ops) /\ p # Top
         \/ \E i \in 1 .. Len(frames) :
              /\ frames[i].op \in ops /\ frames[i].call = c
              /\ p = <<"frame", Len(frames) + Len(agenda) - 1 - i>>
<1>1. Len(agenda) \in Nat /\ Len(frames) \in Nat
  BY LenProperties
<1>2. PICK i \in DOMAIN agenda' :
        /\ agenda'[i].op \in ops /\ agenda'[i].call = c
        /\ p = <<"frame", Len(agenda') - i>>
  BY DEF FrameSpots
<1>3. i \in 1 .. Len(frames) + Len(agenda) - 1
  BY ContinueFrames, LenProperties
<1>4. CASE i \in 1 .. Len(frames)
  BY <1>2, <1>4, ContinueFrames
<1>5. CASE i \notin 1 .. Len(frames)
  <2> DEFINE j == i - Len(frames) + 1
  <2>1. j \in 2 .. Len(agenda) /\ j \in DOMAIN agenda
    BY <1>1, <1>3, <1>5, LenProperties
  <2>2. agenda'[j + Len(frames) - 1] = agenda[j]
    BY <2>1, ContinueFrames
  <2>3. j + Len(frames) - 1 = i
    BY <1>1, <1>3
  <2>4. agenda[j] = agenda'[i]
    BY <2>2, <2>3
  <2>5. Len(agenda') - i = Len(agenda) - j
    BY <1>1, <1>3, ContinueFrames
  <2>6. p \in FrameSpots(c, ops)
    BY <1>2, <2>1, <2>4, <2>5 DEF FrameSpots
  <2>7. Len(agenda) - j # Len(agenda) - 1
    BY <1>1, <2>1
  <2>8. p # Top
    BY <1>2, <2>5, <2>7 DEF Top
  <2>. QED
    BY <2>6, <2>8
<1>. QED
  BY <1>4, <1>5

\* The frames of call c after a step of the running event, of which at most
\* the k-th of the new ones is a place.
LEMMA FrameSteps ==
  ASSUME RunningType, NEW op \in Ops, Running(op),
         NEW frames \in Seq(Frames), Continue(frames), NEW c, NEW ops, NEW k,
         \A i \in 1 .. Len(frames) :
           frames[i].op \in ops /\ frames[i].call = c => i = k
  PROVE  FrameSpots(c, ops)'
           \subseteq (FrameSpots(c, ops) \ {Top})
             \union {<<"frame", Len(frames) + Len(agenda) - 1 - k>>}
BY FrameMoves DEF RunningType, Running

LEMMA FramesGone ==
  ASSUME RunningType, NEW op \in Ops, Running(op),
         NEW frames \in Seq(Frames), Continue(frames), NEW c, NEW ops,
         \A i \in 1 .. Len(frames) : ~(frames[i].op \in ops /\ frames[i].call = c)
  PROVE  FrameSpots(c, ops)' \subseteq FrameSpots(c, ops) \ {Top}
BY FrameMoves DEF RunningType, Running

LEMMA TopSpot ==
  ASSUME RunningType, NEW op \in Ops, Running(op), NEW ops, op \in ops
  PROVE  Top \in FrameSpots(Head(agenda).call, ops)
<1>1. agenda # <<>> /\ agenda[1].op = op /\ Head(agenda) = agenda[1]
  BY DEF Running, RunningType
<1>2. 1 \in DOMAIN agenda
  BY <1>1, LenProperties, EmptySeq DEF RunningType
<1>. QED
  BY <1>1, <1>2 DEF FrameSpots, Top

\* A queue is being flushed before and after every step but the flush's own.
LEMMA FlushingKept ==
  ASSUME RunningType, NEW op \in Ops, Running(op),
         NEW frames \in Seq(Frames), Continue(frames),
         \A i \in 1 .. Len(frames) : frames[i].op # "flushed",
         NEW s, op = "flushed" => Head(agenda).server # s
  PROVE  Flushing(s)' <=> Flushing(s)
<1>1. agenda \in Seq(Frames) /\ agenda # <<>> /\ agenda[1].op = op
      /\ Head(agenda) = agenda[1]
  BY DEF Running, RunningType
<1>2. /\ Len(agenda) \in Nat /\ Len(frames) \in Nat
      /\ agenda' \in Seq(Frames)
      /\ Len(agenda') = Len(frames) + Len(agenda) - 1
      /\ \A i \in 1 .. Len(frames) : agenda'[i] = frames[i]
      /\ \A i \in 2 .. Len(agenda) : agenda'[i + Len(frames) - 1] = agenda[i]
  BY <1>1, ContinueFrames, LenProperties
<1>3. DOMAIN agenda = 1 .. Len(agenda) /\ DOMAIN agenda' = 1 .. Len(agenda')
  BY <1>1, <1>2, LenProperties
<1>4. ASSUME Flushing(s) PROVE Flushing(s)'
  <2>1. PICK i \in DOMAIN agenda : agenda[i].op = "flushed" /\ agenda[i].server = s
    BY <1>4 DEF Flushing
  <2>2. i \in 2 .. Len(agenda)
    BY <1>1, <1>2, <1>3, <2>1
  <2>3. i + Len(frames) - 1 \in DOMAIN agenda'
    BY <1>2, <1>3, <2>2
  <2>. QED
    BY <1>2, <2>1, <2>2, <2>3 DEF Flushing
<1>5. ASSUME Flushing(s)' PROVE Flushing(s)
  <2>1. PICK i \in DOMAIN agenda' :
          agenda'[i].op = "flushed" /\ agenda'[i].server = s
    BY <1>5 DEF Flushing
  <2>2. i \notin 1 .. Len(frames)
    BY <1>2, <2>1
  <2> DEFINE j == i - Len(frames) + 1
  <2>3. j \in 2 .. Len(agenda) /\ j \in DOMAIN agenda /\ j + Len(frames) - 1 = i
    BY <1>2, <1>3, <2>2
  <2>4. agenda[j] = agenda'[i]
    BY <1>2, <2>3
  <2>. QED
    BY <2>1, <2>3, <2>4 DEF Flushing
<1>. QED
  BY <1>4, <1>5

-----------------------------------------------------------------------------
(* The frame of a call that runs.                                          *)

LEMMA SpotsApart ==
  ASSUME NEW c
  PROVE  /\ Top \notin QueueSpots(c) /\ Top \notin FilterSpots(c)
         /\ Top \notin ReturnSpots(c) /\ Top \notin BoxSpots(c)
BY DEF Top, QueueSpots, FilterSpots, ReturnSpots, BoxSpots

\* What waits elsewhere, when a step adds nothing to it.
Elsewhere(c) ==
  /\ Queued(c)' \subseteq Queued(c)
  /\ FilterSpots(c)' \subseteq FilterSpots(c)
  /\ ReturnSpots(c)' \subseteq ReturnSpots(c)
  /\ BoxSpots(c)' \subseteq BoxSpots(c)

LEMMA ElsewhereKept ==
  ASSUME UNCHANGED waiting, NEW c
  PROVE  Elsewhere(c)
BY DEF waiting, Elsewhere, Queued, FilterSpots, ReturnSpots, BoxSpots

\* The running frame is gone, and no other frame of the event is a place of c.
LEMMA RunElsewhere ==
  ASSUME RunningType, NEW op \in Ops, Running(op), op # "flushed",
         NEW frames \in Seq(Frames), Continue(frames), NEW c,
         \A i \in 1 .. Len(frames) : frames[i].op # "flushed",
         \A i \in 1 .. Len(frames) :
           frames[i].op \in Early \union Late => frames[i].call # c
  PROVE  /\ FrameSpots(c, Early)' \subseteq FrameSpots(c, Early) \ {Top}
         /\ FrameSpots(c, Late)' \subseteq FrameSpots(c, Late) \ {Top}
         /\ Queued(c)' \subseteq Queued(c) => QueueSpots(c)' \subseteq QueueSpots(c)
         /\ Elsewhere(c) => /\ EarlySpots(c)' \subseteq EarlySpots(c) \ {Top}
                            /\ LateSpots(c)' \subseteq LateSpots(c) \ {Top}
<1>1. FrameSpots(c, Early)' \subseteq FrameSpots(c, Early) \ {Top}
  BY FramesGone
<1>2. FrameSpots(c, Late)' \subseteq FrameSpots(c, Late) \ {Top}
  BY FramesGone
<1>3. \A s : Flushing(s)' <=> Flushing(s)
  BY FlushingKept
<1>4. Queued(c)' \subseteq Queued(c) => QueueSpots(c)' \subseteq QueueSpots(c)
  BY <1>3 DEF QueueSpots
<1>. QED
  BY <1>1, <1>2, <1>4, SpotsApart DEF Elsewhere, EarlySpots, LateSpots

LEMMA OthersStay ==
  ASSUME RunningType, HistoryType, NEW op \in Ops, Running(op), op # "flushed",
         NEW frames \in Seq(Frames), Continue(frames), NEW c \in Calls, PlaceInv(c),
         \A i \in 1 .. Len(frames) : frames[i].op # "flushed",
         \A i \in 1 .. Len(frames) :
           frames[i].op \in Early \union Late => frames[i].call # c,
         Elsewhere(c), issued' = issued,
         sends'[c] = sends[c], Untold(c)
  PROVE  PlaceInv(c)'
BY RunElsewhere, Stays

\* The frames that a step may put in place of the running one.
LEMMA FrameFields ==
  ASSUME NEW op, NEW c, NEW s
  PROVE  /\ Frame(op, c, s).op = op /\ Frame(op, c, s).call = c
         /\ Frame(op, c, s).server = s
BY DEF Frame

\* The running frame of call c is replaced by another one, or two of which one
\* is an error.
LEMMA RunOn ==
  ASSUME RunningType, HistoryType, NEW op \in Early, Running(op),
         NEW c \in Calls, Head(agenda).call = c,
         NEW frames \in Seq(Frames), Continue(frames),
         \A i \in 1 .. Len(frames) :
           frames[i].call = c /\ frames[i].op \in {"pend", "send", "error"},
         \A i, j \in 1 .. Len(frames) :
           frames[i].op # "error" /\ frames[j].op # "error" => i = j,
         UNCHANGED waiting,
         issued' = issued, sends' = sends, NEW d \in Calls, PlaceInv(d), Untold(d)
  PROVE  PlaceInv(d)'
<1>1. CASE d # c
  BY <1>1, OthersStay, ElsewhereKept DEF Early, Ops
<1>2. CASE d = c
  <2>0. PICK k : \A i \in 1 .. Len(frames) : frames[i].op # "error" => i = k
    OBVIOUS
  <2> DEFINE q == <<"frame", Len(frames) + Len(agenda) - 1 - k>>
  <2>1. FrameSpots(c, Early)' \subseteq (FrameSpots(c, Early) \ {Top}) \union {q}
    BY <2>0, FrameSteps DEF Early, Ops
  <2>2. FrameSpots(c, Late)' \subseteq FrameSpots(c, Late) \ {Top}
    BY FramesGone DEF Early, Late, Ops
  <2>3. \A s : Flushing(s)' <=> Flushing(s)
    BY FlushingKept DEF Early, Ops
  <2>4. Elsewhere(c)
    BY ElsewhereKept
  <2>5. QueueSpots(c)' \subseteq QueueSpots(c)
    BY <2>3, <2>4 DEF QueueSpots, Elsewhere
  <2>6. Top \in EarlySpots(c)
    BY TopSpot DEF EarlySpots, Early, Ops
  <2>7. /\ EarlySpots(c)' \subseteq (EarlySpots(c) \ {Top}) \union {q}
        /\ LateSpots(c)' \subseteq LateSpots(c) \ {Top}
    <3> HIDE DEF q
    <3>. QED
      BY <2>1, <2>2, <2>4, <2>5, SpotsApart DEF Elsewhere, EarlySpots, LateSpots
  <2>. QED
    BY <1>2, <2>6, <2>7, MovesEarly
<1>. QED
  BY <1>1, <1>2

LEMMA NoFrames ==
  \E frames \in Seq(Frames) : frames = <<>> /\ 1 .. Len(frames) = {}
<1>1. <<>> \in Seq(Frames) /\ 1 .. Len(<<>>) = {}
  OBVIOUS
<1>. QED
  BY <1>1

\* The running frame of call c is replaced by another one.
LEMMA RunOnOne ==
  ASSUME RunningType, HistoryType, NEW op \in Early, Running(op),
         NEW c \in Calls, Head(agenda).call = c, NEW s \in Servers,
         NEW op2 \in {"pend", "send", "error"}, Continue(<<Frame(op2, c, s)>>),
         UNCHANGED waiting,
         issued' = issued, sends' = sends, NEW d \in Calls, PlaceInv(d), Untold(d)
  PROVE  PlaceInv(d)'
<1> DEFINE frames == <<Frame(op2, c, s)>>
<1>1. frames \in Seq(Frames)
  BY OneFrame DEF Ops
<1>2. /\ \A i \in 1 .. Len(frames) :
           frames[i].call = c /\ frames[i].op \in {"pend", "send", "error"}
      /\ \A i, j \in 1 .. Len(frames) : i = j
  BY FrameFields
<1>3. Continue(frames)
  OBVIOUS
<1> HIDE DEF frames
<1>. QED
  BY <1>1, <1>2, <1>3, RunOn

\* The running frame is the last of its function.
LEMMA RunEnds ==
  ASSUME RunningType, NEW op \in Ops, Running(op), op # "flushed",
         Continue(<<>>), NEW c
  PROVE  /\ FrameSpots(c, Early)' \subseteq FrameSpots(c, Early) \ {Top}
         /\ FrameSpots(c, Late)' \subseteq FrameSpots(c, Late) \ {Top}
         /\ \A s : Flushing(s)' <=> Flushing(s)
         /\ Queued(c)' \subseteq Queued(c) => QueueSpots(c)' \subseteq QueueSpots(c)
         /\ Elsewhere(c) => /\ EarlySpots(c)' \subseteq EarlySpots(c) \ {Top}
                            /\ LateSpots(c)' \subseteq LateSpots(c) \ {Top}
<1>1. PICK frames \in Seq(Frames) : frames = <<>> /\ 1 .. Len(frames) = {}
  BY NoFrames
<1>2. Continue(frames)
  BY <1>1
<1>3. \A s : Flushing(s)' <=> Flushing(s)
  BY <1>1, <1>2, FlushingKept
<1>. QED
  BY <1>1, <1>2, <1>3, RunElsewhere

LEMMA OthersStayEnd ==
  ASSUME RunningType, HistoryType, NEW op \in Ops, Running(op), op # "flushed",
         Continue(<<>>), NEW c \in Calls, PlaceInv(c),
         Elsewhere(c), issued' = issued,
         sends'[c] = sends[c], Untold(c)
  PROVE  PlaceInv(c)'
BY RunEnds, Stays

LEMMA PlaceDispatch ==
  ASSUME RunningType, HistoryType, RunDispatch, NEW d \in Calls, PlaceInv(d)
  PROVE  PlaceInv(d)'
<1>1. Running("dispatch") /\ "dispatch" \in Ops /\ "dispatch" \in Early
  BY DEF RunDispatch, Ops, Early
<1>2. PICK c \in Calls, s \in Servers :
        Head(agenda).call = c /\ Head(agenda).server = s /\ Dispatch(c, s)
  BY <1>1, RunningFrame DEF RunDispatch, RunningType
<1>3. /\ UNCHANGED <<pendings, returning, inflight>>
      /\ issued' = issued /\ sends' = sends /\ Untold(d)
  BY DEF RunDispatch, history, config, Untold
<1>4. CASE UNCHANGED filtering /\ Continue(<<Frame("error", c, s)>>)
  BY <1>1, <1>2, <1>3, <1>4, RunOnOne DEF waiting
<1>5. CASE UNCHANGED filtering /\ Continue(<<Frame("pend", c, s)>>)
  BY <1>1, <1>2, <1>3, <1>5, RunOnOne DEF waiting
<1>6. CASE UNCHANGED filtering /\ Continue(<<Frame("send", c, s)>>)
  BY <1>1, <1>2, <1>3, <1>6, RunOnOne DEF waiting
<1>7. CASE UNCHANGED filtering
           /\ Continue(<<Frame("error", c, s), Frame("pend", c, s)>>)
  <2> DEFINE frames == <<Frame("error", c, s), Frame("pend", c, s)>>
  <2>1. frames \in Seq(Frames)
    BY TwoFrames DEF Ops
  <2>2. /\ \A i \in 1 .. Len(frames) :
             frames[i].call = c /\ frames[i].op \in {"pend", "send", "error"}
        /\ \A i \in 1 .. Len(frames) : frames[i].op # "error" => i = 2
    BY FrameFields
  <2>3. Continue(frames)
    BY <1>7
  <2> HIDE DEF frames
  <2>. QED
    BY <1>1, <1>2, <1>3, <1>7, <2>1, <2>2, <2>3, RunOn DEF waiting
<1>8. CASE filtering' = filtering \union {<<c, s>>} /\ Continue(<<>>)
  <2> DEFINE q == <<"filter", s>>
  <2>1. \A e \in Calls : Queued(e)' = Queued(e) /\ ReturnSpots(e)' = ReturnSpots(e)
                       /\ BoxSpots(e)' = BoxSpots(e)
    BY <1>3 DEF Queued, ReturnSpots, BoxSpots
  <2>2. d # c => FilterSpots(d)' = FilterSpots(d)
    BY <1>8 DEF FilterSpots
  <2>3. FilterSpots(c)' \subseteq FilterSpots(c) \union {q}
    BY <1>8 DEF FilterSpots
  <2>4. /\ FrameSpots(c, Early)' \subseteq FrameSpots(c, Early) \ {Top}
        /\ FrameSpots(c, Late)' \subseteq FrameSpots(c, Late) \ {Top}
        /\ QueueSpots(c)' \subseteq QueueSpots(c)
    BY <1>1, <1>8, <2>1, RunEnds
  <2>5. Top \in EarlySpots(c)
    BY <1>1, <1>2, TopSpot DEF EarlySpots
  <2>6. /\ EarlySpots(c)' \subseteq (EarlySpots(c) \ {Top}) \union {q}
        /\ LateSpots(c)' \subseteq LateSpots(c) \ {Top}
    <3> HIDE DEF q
    <3>. QED
      BY <2>1, <2>3, <2>4, SpotsApart DEF EarlySpots, LateSpots
  <2>7. CASE d = c
    BY <1>3, <2>5, <2>6, <2>7, MovesEarly
  <2>8. CASE d # c
    <3>1. Elsewhere(d)
      BY <2>1, <2>2, <2>8 DEF Elsewhere
    <3>. QED
      BY <1>1, <1>3, <1>8, <3>1, OthersStayEnd
  <2>. QED
    BY <2>7, <2>8
<1>. QED
  BY <1>2, <1>4, <1>5, <1>6, <1>7, <1>8 DEF Dispatch

LEMMA PlacePend ==
  ASSUME WaitingType, RunningType, HistoryType, RunPend,
         NEW d \in Calls, PlaceInv(d)
  PROVE  PlaceInv(d)'
<1>1. Running("pend") /\ "pend" \in Ops /\ "pend" \in Early
  BY DEF RunPend, Ops, Early
<1>2. PICK c \in Calls, s \in Servers :
        Head(agenda).call = c /\ Head(agenda).server = s
  BY <1>1, RunningFrame DEF RunningType
<1>3. /\ UNCHANGED <<filtering, returning, inflight>> /\ Continue(<<>>)
      /\ issued' = issued /\ sends' = sends /\ Untold(d)
      /\ pendings' = pendings
         \/ pendings' = [pendings EXCEPT ![s] = Append(@, c)]
  BY <1>2 DEF RunPend, config, Untold
<1>4. CASE pendings' = pendings
  <2>1. PICK frames \in Seq(Frames) : frames = <<>> /\ 1 .. Len(frames) = {}
    BY NoFrames
  <2>2. Continue(frames)
    BY <1>3, <2>1
  <2>. QED
    BY <1>1, <1>2, <1>3, <1>4, <2>1, <2>2, RunOn DEF waiting
<1>5. CASE pendings' = [pendings EXCEPT ![s] = Append(@, c)]
  <2> DEFINE x == <<s, Len(pendings[s]) + 1>>
             q == <<"queue", x>>
  <2>1. \A e \in Calls :
          FilterSpots(e)' = FilterSpots(e) /\ ReturnSpots(e)' = ReturnSpots(e)
          /\ BoxSpots(e)' = BoxSpots(e)
    BY <1>3 DEF FilterSpots, ReturnSpots, BoxSpots
  <2>2. pendings[s] \in Seq(Calls)
    BY DEF WaitingType
  <2>3. /\ pendings'[s] = Append(pendings[s], c)
        /\ \A t \in Servers : t # s => pendings'[t] = pendings[t]
    BY <1>5 DEF WaitingType
  <2>4. /\ DOMAIN pendings'[s] = DOMAIN pendings[s] \union {Len(pendings[s]) + 1}
        /\ \A i \in DOMAIN pendings[s] : pendings'[s][i] = pendings[s][i]
        /\ pendings'[s][Len(pendings[s]) + 1] = c
    <3>1. Len(pendings[s]) \in Nat /\ DOMAIN pendings[s] = 1 .. Len(pendings[s])
      BY <2>2, LenProperties
    <3>. QED
      BY <2>2, <2>3, <3>1, AppendProperties
  <2>5. Queued(c)' \subseteq Queued(c) \union {x}
    <3> SUFFICES ASSUME NEW y \in Queued(c)', y # x PROVE y \in Queued(c)
      OBVIOUS
    <3>1. PICK t \in Servers, i \in Nat : y = <<t, i>>
      BY DEF Queued
    <3>2. i \in DOMAIN pendings'[t] /\ pendings'[t][i] = c
      BY <3>1 DEF Queued
    <3>3. i \in DOMAIN pendings[t] /\ pendings[t][i] = c
      BY <2>3, <2>4, <3>1, <3>2
    <3>. QED
      BY <3>1, <3>3 DEF Queued
  <2>6. ASSUME d # c PROVE Queued(d)' \subseteq Queued(d)
    <3> SUFFICES ASSUME NEW y \in Queued(d)' PROVE y \in Queued(d)
      OBVIOUS
    <3>1. PICK t \in Servers, i \in Nat : y = <<t, i>>
      BY DEF Queued
    <3>2. i \in DOMAIN pendings'[t] /\ pendings'[t][i] = d
      BY <3>1 DEF Queued
    <3>3. i \in DOMAIN pendings[t] /\ pendings[t][i] = d
      BY <2>3, <2>4, <2>6, <3>1, <3>2
    <3>. QED
      BY <3>1, <3>3 DEF Queued
  <2>7. \A t : Flushing(t)' <=> Flushing(t)
    BY <1>1, <1>3, RunEnds
  <2>8. QueueSpots(c)' \subseteq QueueSpots(c) \union {q}
    BY <2>5, <2>7 DEF QueueSpots
  <2>9. /\ FrameSpots(c, Early)' \subseteq FrameSpots(c, Early) \ {Top}
        /\ FrameSpots(c, Late)' \subseteq FrameSpots(c, Late) \ {Top}
    BY <1>1, <1>3, RunEnds
  <2>10. Top \in EarlySpots(c)
    BY <1>1, <1>2, TopSpot DEF EarlySpots
  <2>11. /\ EarlySpots(c)' \subseteq (EarlySpots(c) \ {Top}) \union {q}
         /\ LateSpots(c)' \subseteq LateSpots(c) \ {Top}
    <3> HIDE DEF q
    <3>. QED
      BY <2>1, <2>8, <2>9, SpotsApart DEF EarlySpots, LateSpots
  <2>12. CASE d = c
    BY <1>3, <2>10, <2>11, <2>12, MovesEarly
  <2>13. CASE d # c
    <3>1. Elsewhere(d)
      BY <2>1, <2>6, <2>13 DEF Elsewhere
    <3>. QED
      BY <1>1, <1>3, <3>1, OthersStayEnd
  <2>. QED
    BY <2>12, <2>13
<1>. QED
  BY <1>3, <1>4, <1>5

LEMMA PlaceSend ==
  ASSUME RunningType, HistoryType, RunSend, NEW d \in Calls, PlaceInv(d)
  PROVE  PlaceInv(d)'
<1>1. Running("send") /\ "send" \in Ops /\ "send" \in Early
  BY DEF RunSend, Ops, Early
<1>2. PICK c \in Calls, s \in Servers :
        Head(agenda).call = c /\ Head(agenda).server = s
  BY <1>1, RunningFrame DEF RunningType
<1>3. PICK m : m = mailboxes[s]
  OBVIOUS
<1>4. /\ UNCHANGED <<pendings, filtering, returning>>
      /\ issued' = issued /\ Untold(d)
  BY DEF RunSend, config, Untold
<1>5. \A b : Queued(b)' = Queued(b) /\ FilterSpots(b)' = FilterSpots(b)
            /\ ReturnSpots(b)' = ReturnSpots(b)
  BY <1>4 DEF Queued, FilterSpots, ReturnSpots
<1>6. Top \in EarlySpots(c) /\ Top \in Spots(c)
  BY <1>1, <1>2, TopSpot DEF EarlySpots, Spots
<1>7. CASE UNCHANGED <<inflight, sends>> /\ Continue(<<Frame("error", c, s)>>)
  BY <1>1, <1>2, <1>4, <1>7, RunOnOne DEF waiting
<1>8. CASE UNCHANGED <<inflight, sends>>
           /\ Continue(<<Frame("error", c, s), Frame("failure", c, s)>>)
  <2> DEFINE frames == <<Frame("error", c, s), Frame("failure", c, s)>>
             q == <<"frame", Len(frames) + Len(agenda) - 1 - 2>>
  <2>1. frames \in Seq(Frames)
    BY TwoFrames DEF Ops
  <2>2. /\ \A i \in 1 .. Len(frames) :
             frames[i].call = c /\ frames[i].op \in {"failure", "error"}
        /\ \A i \in 1 .. Len(frames) : frames[i].op # "error" => i = 2
    BY FrameFields
  <2>3. Continue(frames)
    BY <1>8
  <2> HIDE DEF frames
  <2>4. \A b : Elsewhere(b)
    BY <1>4, <1>8, ElsewhereKept DEF waiting
  <2>5. CASE d = c
    <3>1. FrameSpots(c, Early)' \subseteq FrameSpots(c, Early) \ {Top}
      BY <1>1, <2>1, <2>2, <2>3, FramesGone DEF Early
    <3>2. FrameSpots(c, Late)' \subseteq (FrameSpots(c, Late) \ {Top}) \union {q}
      BY <1>1, <2>1, <2>2, <2>3, FrameSteps DEF Late
    <3>3. \A t : Flushing(t)' <=> Flushing(t)
      BY <1>1, <2>1, <2>2, <2>3, FlushingKept
    <3>4. QueueSpots(c)' \subseteq QueueSpots(c)
      BY <3>3, <2>4 DEF QueueSpots, Elsewhere
    <3>5. /\ EarlySpots(c)' \subseteq EarlySpots(c) \ {Top}
          /\ LateSpots(c)' \subseteq (LateSpots(c) \ {Top}) \union {q}
      <4> HIDE DEF q
      <4>. QED
        BY <2>4, <3>1, <3>2, <3>4, SpotsApart DEF Elsewhere, EarlySpots, LateSpots
    <3>. QED
      BY <1>4, <1>6, <1>8, <2>5, <3>5, MovesLate
  <2>6. CASE d # c
    BY <1>1, <1>4, <1>8, <2>1, <2>2, <2>3, <2>4, <2>6, OthersStay
  <2>. QED
    BY <2>5, <2>6
<1>9. CASE /\ inflight' = inflight \union {<<m, c>>}
           /\ sends' = [sends EXCEPT ![c] = @ + 1] /\ Continue(<<>>)
  <2> DEFINE q == <<"box", m>>
  <2>1. BoxSpots(c)' \subseteq BoxSpots(c) \union {q}
    BY <1>9 DEF BoxSpots
  <2>2. d # c => BoxSpots(d)' = BoxSpots(d)
    BY <1>9 DEF BoxSpots
  <2>3. sends'[c] = sends[c] + 1 /\ (d # c => sends'[d] = sends[d])
    BY <1>9 DEF HistoryType
  <2>4. CASE d = c
    <3>1. /\ EarlySpots(c)' \subseteq EarlySpots(c) \ {Top}
          /\ LateSpots(c)' \subseteq (LateSpots(c) \ {Top}) \union {q}
      <4>1. /\ FrameSpots(c, Early)' \subseteq FrameSpots(c, Early) \ {Top}
            /\ FrameSpots(c, Late)' \subseteq FrameSpots(c, Late) \ {Top}
            /\ QueueSpots(c)' \subseteq QueueSpots(c)
        BY <1>1, <1>5, <1>9, RunEnds
      <4> HIDE DEF q
      <4>. QED
        BY <1>5, <2>1, <4>1, SpotsApart DEF EarlySpots, LateSpots
    <3>. QED
      BY <1>4, <1>6, <2>3, <2>4, <3>1, MovesLate
  <2>5. CASE d # c
    <3>1. Elsewhere(d)
      BY <1>5, <2>2, <2>5 DEF Elsewhere
    <3>. QED
      BY <1>1, <1>4, <1>9, <2>3, <2>5, <3>1, OthersStayEnd
  <2>. QED
    BY <2>4, <2>5
<1>. QED
  BY <1>2, <1>3, <1>7, <1>8, <1>9 DEF RunSend

LEMMA PlaceAnswer ==
  ASSUME RunningType, HistoryType, RunResult \/ RunFailure,
         NEW d \in Calls, PlaceInv(d)
  PROVE  PlaceInv(d)' \/ Retried(d)'
<1>1. PICK op \in Late : Running(op)
  BY DEF RunResult, RunFailure, Late
<1>2. op \in Ops /\ op # "flushed"
  BY DEF Late, Ops
<1>3. PICK c \in Calls : Head(agenda).call = c
  BY <1>1, <1>2, RunningFrame DEF RunningType
<1>4. /\ issued' = issued /\ sends' = sends /\ UNCHANGED waiting
      /\ options' = options /\ notified' = notified /\ reported' = reported
      /\ Continue(<<>>)
      /\ \E outcome \in {"ok", "error"} : CallBack(c, outcome)
  BY <1>3 DEF RunResult, RunFailure, config
<1>5. PICK outcome \in {"ok", "error"} : CallBack(c, outcome)
  BY <1>4
<1>6. \A b : Elsewhere(b)
  BY <1>4, ElsewhereKept
<1>7. CASE d = c /\ answers' = [answers EXCEPT ![c] = Append(@, outcome)]
  <2>1. Top \in Spots(c)
    BY <1>1, <1>2, <1>3, TopSpot DEF LateSpots, Spots
  <2>2. /\ EarlySpots(c)' \subseteq EarlySpots(c) \ {Top}
        /\ LateSpots(c)' \subseteq LateSpots(c) \ {Top}
    BY <1>1, <1>2, <1>4, <1>6, RunEnds
  <2>3. answers'[c] = Append(answers[c], outcome)
    BY <1>7 DEF HistoryType
  <2>. QED
    BY <1>4, <1>7, <2>1, <2>2, <2>3, IsAnswered
<1>8. CASE d # c
  <2>1. Untold(d)
    BY <1>4, <1>5, <1>8 DEF CallBack, HistoryType, Untold
  <2>. QED
    BY <1>1, <1>2, <1>4, <1>6, <2>1, OthersStayEnd
<1>9. CASE d = c /\ Retried(c)
  BY <1>4, <1>9 DEF Retried
<1>. QED
  BY <1>5, <1>7, <1>8, <1>9 DEF CallBack

\* Nothing moves.
LEMMA PlaceKept ==
  ASSUME HistoryType, UNCHANGED <<agenda, waiting>>, issued \subseteq issued',
         NEW d \in Calls, PlaceInv(d), sends'[d] = sends[d], Untold(d)
  PROVE  PlaceInv(d)'
<1>1. EarlySpots(d)' = EarlySpots(d) /\ LateSpots(d)' = LateSpots(d)
  BY DEF waiting, EarlySpots, LateSpots, FrameSpots, QueueSpots, Queued, Flushing,
         FilterSpots, ReturnSpots, BoxSpots
<1>. QED
  BY <1>1, Stays

\* The callback that a 'disconnect' listener calls.
LEMMA PlaceNotice ==
  ASSUME RunningType, HistoryType, RunNotice,
         NEW d \in Calls, PlaceInv(d), NoticeInv(d)
  PROVE  PlaceInv(d)' \/ Retried(d)'
<1>1. Running("notice") /\ "notice" \in Ops
  BY DEF RunNotice, Ops
<1>2. PICK c \in Calls : Head(agenda).call = c
  BY <1>1, RunningFrame DEF RunningType
<1>3. /\ issued' = issued /\ sends' = sends /\ UNCHANGED waiting
      /\ options' = options /\ notified' = notified \union {c}
      /\ reported' = reported /\ Continue(<<>>) /\ CallBack(c, "error")
  BY <1>2 DEF RunNotice, config
<1>4. Elsewhere(d)
  BY <1>3, ElsewhereKept
<1>5. CASE d = c /\ answers' = [answers EXCEPT ![c] = Append(@, "error")]
  <2>1. Top \in NoticeSpots(c)
    BY <1>1, <1>2, TopSpot DEF NoticeSpots
  <2>2. sends[c] = 1 /\ c \notin notified
    BY <1>5, <2>1 DEF NoticeInv
  <2>3. c \in issued
    BY <1>5, <2>2 DEF PlaceInv
  <2>4. EarlySpots(c)' \subseteq EarlySpots(c) /\ LateSpots(c)' \subseteq LateSpots(c)
    BY <1>1, <1>3, <1>4, <1>5, RunEnds
  <2>5. answers'[c] = Append(answers[c], "error")
    BY <1>5 DEF HistoryType
  <2>. QED
    BY <1>3, <1>5, <2>2, <2>3, <2>4, <2>5, IsNoticed
<1>6. CASE d # c
  <2>1. Untold(d)
    BY <1>3, <1>6 DEF CallBack, HistoryType, Untold
  <2>. QED
    BY <1>1, <1>3, <1>4, <2>1, OthersStayEnd
<1>7. CASE d = c /\ Retried(c)
  BY <1>3, <1>7 DEF Retried
<1>. QED
  BY <1>3, <1>5, <1>6, <1>7 DEF CallBack

LEMMA PlaceError ==
  ASSUME ConfigType, RunningType, HistoryType, RunError \/ RunConnectError,
         NEW d \in Calls, PlaceInv(d)
  PROVE  PlaceInv(d)' \/ Retried(d)'
<1>1. PICK op \in {"error", "connectError"} : Running(op)
  BY DEF RunError, RunConnectError
<1>2. op \in Ops /\ op # "flushed"
  BY DEF Ops
<1>3. PICK c \in Calls, s \in Servers :
        Head(agenda).call = c /\ Head(agenda).server = s
  BY <1>1, <1>2, RunningFrame DEF RunningType
<1>4. /\ issued' = issued /\ sends' = sends /\ UNCHANGED waiting
      /\ options' = options /\ c \in reported' /\ notified' = notified
  BY <1>3 DEF RunError, RunConnectError, config
<1>5. \A b : Elsewhere(b)
  BY <1>4, ElsewhereKept
<1>6. (\/ answers' = answers
       \/ d # c /\ answers' = [answers EXCEPT ![c] = Append(@, "error")])
        => Untold(d)
  BY <1>4 DEF HistoryType, Untold
<1>7. CASE options.failMode = "failfast" /\ FailFast(c)
  <2>1. Continue(<<>>) /\ Untold(d)
    BY <1>4, <1>7 DEF FailFast, Untold, Silent
  <2>. QED
    BY <1>1, <1>2, <1>4, <1>5, <2>1, OthersStayEnd
<1>8. CASE FailBack
  <2>1. Continue(<<>>) /\ Untold(d)
    BY <1>6, <1>8 DEF FailBack
  <2>. QED
    BY <1>1, <1>2, <1>4, <1>5, <2>1, OthersStayEnd
<1>9. CASE Crash
  BY <1>4, <1>6, <1>9, PlaceKept DEF Crash
<1>10. CASE options.failMode = "failover" /\ FailOver(c, s)
  <2>1. CASE d = c
    BY <1>4, <1>10, <2>1 DEF Retried
  <2>2. CASE d # c /\ Continue(<<>>)
             /\ answers' = [answers EXCEPT ![c] = Append(@, "error")]
    BY <1>1, <1>2, <1>4, <1>5, <1>6, <2>2, OthersStayEnd
  <2>3. CASE /\ d # c /\ Others(s) # <<>> /\ answers' = answers
             /\ Continue(<<Frame("dispatch", c, Head(Others(s)))>>)
    <3> DEFINE frames == <<Frame("dispatch", c, Head(Others(s)))>>
    <3>1. Head(Others(s)) \in Servers
      BY <2>3, OthersType DEF RunningType
    <3>2. frames \in Seq(Frames)
      BY <3>1, OneFrame DEF Ops
    <3>3. \A i \in 1 .. Len(frames) :
            frames[i].call = c /\ frames[i].op = "dispatch"
      BY FrameFields
    <3>4. Continue(frames)
      BY <2>3
    <3> HIDE DEF frames
    <3>. QED
      BY <1>1, <1>2, <1>4, <1>5, <1>6, <2>3, <3>2, <3>3, <3>4, OthersStay
  <2>. QED
    BY <1>9, <1>10, <2>1, <2>2, <2>3 DEF FailOver
<1>11. options.failMode \in {"failfast", "failover", "failback"}
  BY OptionsAssumption DEF ConfigType
<1>. QED
  BY <1>3, <1>7, <1>8, <1>9, <1>10, <1>11 DEF RunError, RunConnectError

\* The queue that was flushed is deleted: nothing in it was a place.
LEMMA PlaceFlushed ==
  ASSUME WaitingType, RunningType, HistoryType, RunFlushed,
         NEW d \in Calls, PlaceInv(d)
  PROVE  PlaceInv(d)'
<1>1. Running("flushed") /\ "flushed" \in Ops /\ Continue(<<>>)
  BY DEF RunFlushed, Ops
<1>2. PICK s \in Servers : Head(agenda).server = s
  BY <1>1, RunningFrame DEF RunningType
<1>3. /\ pendings' = [pendings EXCEPT ![s] = <<>>]
      /\ UNCHANGED <<filtering, returning, inflight>>
      /\ issued' = issued /\ sends' = sends /\ Untold(d)
  BY <1>2 DEF RunFlushed, history, config, Untold
<1>4. PICK frames \in Seq(Frames) : frames = <<>> /\ 1 .. Len(frames) = {}
  BY NoFrames
<1>5. Continue(frames)
  BY <1>1, <1>4
<1>6. /\ FrameSpots(d, Early)' \subseteq FrameSpots(d, Early)
      /\ FrameSpots(d, Late)' \subseteq FrameSpots(d, Late)
  BY <1>1, <1>4, <1>5, FramesGone
<1>7. \A t : t # s => (Flushing(t)' <=> Flushing(t))
  BY <1>1, <1>2, <1>4, <1>5, FlushingKept
<1>8. QueueSpots(d)' \subseteq QueueSpots(d)
  <2> SUFFICES ASSUME NEW x \in Queued(d)', ~Flushing(x[1])'
               PROVE  x \in Queued(d) /\ ~Flushing(x[1])
    BY DEF QueueSpots
  <2>1. PICK t \in Servers, i \in Nat : x = <<t, i>>
    BY DEF Queued
  <2>2. i \in DOMAIN pendings'[t] /\ pendings'[t][i] = d
    BY <2>1 DEF Queued
  <2>3. t # s
    BY <1>3, <2>2 DEF WaitingType
  <2>4. pendings'[t] = pendings[t]
    BY <1>3, <2>3 DEF WaitingType
  <2>. QED
    BY <1>7, <2>1, <2>2, <2>3, <2>4 DEF Queued
<1>9. /\ FilterSpots(d)' = FilterSpots(d) /\ ReturnSpots(d)' = ReturnSpots(d)
      /\ BoxSpots(d)' = BoxSpots(d)
  BY <1>3 DEF FilterSpots, ReturnSpots, BoxSpots
<1>10. /\ EarlySpots(d)' \subseteq EarlySpots(d)
       /\ LateSpots(d)' \subseteq LateSpots(d)
  BY <1>6, <1>8, <1>9 DEF EarlySpots, LateSpots
<1>. QED
  BY <1>3, <1>10, Stays

-----------------------------------------------------------------------------
(* The first step of an event, and a call from user code.                  *)

\* A call from user code puts its frame on top of the agenda.
LEMMA Pushed ==
  ASSUME agenda \in Seq(Frames), NEW f \in Frames, f.op # "flushed",
         agenda' = <<f>> \o agenda
  PROVE  /\ agenda' \in Seq(Frames) /\ Len(agenda') = Len(agenda) + 1
         /\ 1 \in DOMAIN agenda' /\ agenda'[1] = f
         /\ \A i \in DOMAIN agenda : i + 1 \in DOMAIN agenda' /\ agenda'[i + 1] = agenda[i]
         /\ \A i \in DOMAIN agenda' :
              i # 1 => i - 1 \in DOMAIN agenda /\ agenda'[i] = agenda[i - 1]
         /\ \A s : Flushing(s)' <=> Flushing(s)
<1>1. Len(agenda) \in Nat
  BY LenProperties
<1>2. /\ agenda' \in Seq(Frames) /\ Len(agenda') = Len(agenda) + 1
      /\ agenda'[1] = f
      /\ \A i \in 2 .. Len(agenda) + 1 : agenda'[i] = agenda[i - 1]
  BY <1>1, ConcatProperties
<1>3. DOMAIN agenda' = 1 .. Len(agenda) + 1 /\ DOMAIN agenda = 1 .. Len(agenda)
  BY <1>2, LenProperties
<1>4. ASSUME NEW i \in DOMAIN agenda
      PROVE  i + 1 \in DOMAIN agenda' /\ agenda'[i + 1] = agenda[i]
  BY <1>1, <1>2, <1>3
<1>5. ASSUME NEW i \in DOMAIN agenda', i # 1
      PROVE  i - 1 \in DOMAIN agenda /\ agenda'[i] = agenda[i - 1]
  BY <1>1, <1>2, <1>3, <1>5
<1>6. ASSUME NEW s PROVE Flushing(s)' <=> Flushing(s)
  <2>1. ASSUME Flushing(s) PROVE Flushing(s)'
    <3>1. PICK i \in DOMAIN agenda : agenda[i].op = "flushed" /\ agenda[i].server = s
      BY <2>1 DEF Flushing
    <3>2. i + 1 \in DOMAIN agenda' /\ agenda'[i + 1] = agenda[i]
      BY <1>4
    <3>. QED
      BY <3>1, <3>2 DEF Flushing
  <2>2. ASSUME Flushing(s)' PROVE Flushing(s)
    <3>1. PICK i \in DOMAIN agenda' :
            agenda'[i].op = "flushed" /\ agenda'[i].server = s
      BY <2>2 DEF Flushing
    <3>2. i - 1 \in DOMAIN agenda /\ agenda'[i] = agenda[i - 1]
      BY <1>2, <1>5, <3>1
    <3>. QED
      BY <3>1, <3>2 DEF Flushing
  <2>. QED
    BY <2>1, <2>2
<1>7. 1 \in DOMAIN agenda'
  BY <1>1, <1>3
<1>. QED
  BY <1>2, <1>4, <1>5, <1>6, <1>7

LEMMA PlaceInvoke ==
  ASSUME RunningType, HistoryType, NEW c \in Calls, NEW s \in Servers, Invoke(c, s),
         NEW d \in Calls, PlaceInv(d)
  PROVE  PlaceInv(d)'
<1> DEFINE f == Frame("dispatch", c, s)
           q == <<"frame", Len(agenda)>>
<1>1. /\ agenda' = <<f>> \o agenda /\ c \notin issued
      /\ issued' = issued \union {c}
      /\ UNCHANGED waiting /\ answers' = answers /\ sends' = sends
      /\ options' = options /\ notified' = notified /\ Untold(d)
  BY DEF Invoke, config, Untold
<1>2. f.op = "dispatch" /\ f.call = c /\ f \in Frames
  BY FrameFields DEF Frame, Frames, Ops
<1> HIDE DEF f
<1>3. agenda \in Seq(Frames) /\ Len(agenda) \in Nat
  BY LenProperties DEF RunningType
<1>4. /\ agenda' \in Seq(Frames) /\ Len(agenda') = Len(agenda) + 1
      /\ agenda'[1] = f /\ DOMAIN agenda' = 1 .. Len(agenda')
      /\ \A i \in DOMAIN agenda' :
           i # 1 => i - 1 \in DOMAIN agenda /\ agenda'[i] = agenda[i - 1]
      /\ \A t : Flushing(t)' <=> Flushing(t)
  BY <1>1, <1>2, <1>3, Pushed, LenProperties
<1>5. ASSUME NEW b, NEW ops, NEW p \in FrameSpots(b, ops)'
      PROVE  p \in FrameSpots(b, ops) \/ (p = q /\ b = c /\ "dispatch" \in ops)
  <2>1. PICK i \in DOMAIN agenda' :
          /\ agenda'[i].op \in ops /\ agenda'[i].call = b
          /\ p = <<"frame", Len(agenda') - i>>
    BY <1>5 DEF FrameSpots
  <2>2. CASE i = 1
    BY <1>2, <1>3, <1>4, <2>1, <2>2
  <2>3. CASE i # 1
    <3>1. i - 1 \in DOMAIN agenda /\ agenda'[i] = agenda[i - 1]
          /\ Len(agenda') - i = Len(agenda) - (i - 1)
      BY <1>3, <1>4, <2>1, <2>3
    <3>. QED
      BY <2>1, <3>1 DEF FrameSpots
  <2>. QED
    BY <2>2, <2>3
<1>6. ASSUME NEW b
      PROVE  /\ QueueSpots(b)' = QueueSpots(b) /\ FilterSpots(b)' = FilterSpots(b)
             /\ ReturnSpots(b)' = ReturnSpots(b) /\ BoxSpots(b)' = BoxSpots(b)
  BY <1>1, <1>4 DEF waiting, QueueSpots, Queued, FilterSpots, ReturnSpots, BoxSpots
<1> HIDE DEF q
<1>7. CASE d # c
  <2>1. EarlySpots(d)' \subseteq EarlySpots(d) /\ LateSpots(d)' \subseteq LateSpots(d)
    BY <1>5, <1>6, <1>7 DEF EarlySpots, LateSpots
  <2>. QED
    BY <1>1, <2>1, Stays
<1>8. CASE d = c
  <2>1. Spots(c) = {} /\ sends[c] = 0 /\ (Silent => answers[c] = <<>>)
    BY <1>1, <1>8 DEF PlaceInv
  <2>2. Spots(c)' \subseteq {q} /\ c \in issued'
    BY <1>1, <1>5, <1>6, <2>1 DEF Spots, EarlySpots, LateSpots
  <2>3. Silent' = Silent /\ Len(<<>>) = 0 /\ Notices(c)' \in Nat
    BY <1>1 DEF Silent, Notices
  <2>. QED
    BY <1>1, <1>8, <2>1, <2>2, <2>3 DEF PlaceInv
<1>. QED
  BY <1>7, <1>8

\* The agenda is empty before the first step of an event.
LEMMA IdleSpots ==
  ASSUME agenda = <<>>, NEW c, NEW ops
  PROVE  FrameSpots(c, ops) = {} /\ \A s : ~Flushing(s)
<1>1. DOMAIN agenda = {}
  OBVIOUS
<1>. QED
  BY <1>1 DEF FrameSpots, Flushing

LEMMA FirstSpots ==
  ASSUME NEW frames \in Seq(Frames), agenda' = frames, NEW c, NEW ops, NEW k,
         \A i \in 1 .. Len(frames) :
           frames[i].op \in ops /\ frames[i].call = c => i = k
  PROVE  FrameSpots(c, ops)' \subseteq {<<"frame", Len(frames) - k>>}
BY LenProperties DEF FrameSpots

LEMMA FirstNone ==
  ASSUME NEW frames \in Seq(Frames), agenda' = frames, NEW c, NEW ops,
         \A i \in 1 .. Len(frames) : ~(frames[i].op \in ops /\ frames[i].call = c)
  PROVE  FrameSpots(c, ops)' = {}
BY LenProperties DEF FrameSpots

LEMMA FirstFlushing ==
  ASSUME NEW frames \in Seq(Frames), agenda' = frames, NEW s, Flushing(s)'
  PROVE  \E i \in 1 .. Len(frames) : frames[i].op = "flushed" /\ frames[i].server = s
BY LenProperties DEF Flushing

\* An event that begins with the frames of another call than d.
LEMMA EventOfOther ==
  ASSUME HistoryType, agenda = <<>>, NEW frames \in Seq(Frames), agenda' = frames,
         NEW d \in Calls, PlaceInv(d),
         \A i \in 1 .. Len(frames) :
           /\ frames[i].op # "flushed"
           /\ frames[i].op \in Early \union Late => frames[i].call # d,
         Elsewhere(d), UNCHANGED <<options, history>>
  PROVE  PlaceInv(d)'
<1>1. FrameSpots(d, Early)' = {} /\ FrameSpots(d, Late)' = {}
  BY FirstNone
<1>2. \A s : ~Flushing(s)' /\ ~Flushing(s)
  BY FirstFlushing, IdleSpots
<1>3. QueueSpots(d)' \subseteq QueueSpots(d)
  BY <1>2 DEF QueueSpots, Elsewhere
<1>4. EarlySpots(d)' \subseteq EarlySpots(d) /\ LateSpots(d)' \subseteq LateSpots(d)
  BY <1>1, <1>3 DEF Elsewhere, EarlySpots, LateSpots
<1>. QED
  BY <1>4, Stays DEF history, Untold

\* A call leaves a filter, or its mailbox.
LEMMA Leaves ==
  ASSUME NEW c, NEW s
  PROVE  /\ filtering' = filtering \ {<<c, s>>}
              => FilterSpots(c)' \subseteq FilterSpots(c) \ {<<"filter", s>>}
         /\ returning' = returning \ {<<c, s>>}
              => ReturnSpots(c)' \subseteq ReturnSpots(c) \ {<<"return", s>>}
         /\ inflight' = inflight \ {<<s, c>>}
              => BoxSpots(c)' \subseteq BoxSpots(c) \ {<<"box", s>>}
<1>1. ASSUME filtering' = filtering \ {<<c, s>>}, NEW x \in FilterSpots(c)'
      PROVE  x \in FilterSpots(c) \ {<<"filter", s>>}
  <2>1. PICK t \in Servers : <<c, t>> \in filtering' /\ x = <<"filter", t>>
    BY <1>1 DEF FilterSpots
  <2>2. t # s
    BY <1>1, <2>1
  <2>. QED
    BY <1>1, <2>1, <2>2 DEF FilterSpots
<1>2. ASSUME returning' = returning \ {<<c, s>>}, NEW x \in ReturnSpots(c)'
      PROVE  x \in ReturnSpots(c) \ {<<"return", s>>}
  <2>1. PICK t \in Servers : <<c, t>> \in returning' /\ x = <<"return", t>>
    BY <1>2 DEF ReturnSpots
  <2>2. t # s
    BY <1>2, <2>1
  <2>. QED
    BY <1>2, <2>1, <2>2 DEF ReturnSpots
<1>3. ASSUME inflight' = inflight \ {<<s, c>>}, NEW x \in BoxSpots(c)'
      PROVE  x \in BoxSpots(c) \ {<<"box", s>>}
  <2>1. PICK n \in Nat : <<n, c>> \in inflight' /\ x = <<"box", n>>
    BY <1>3 DEF BoxSpots
  <2>2. n # s
    BY <1>3, <2>1
  <2>. QED
    BY <1>3, <2>1, <2>2 DEF BoxSpots
<1>. QED
  BY <1>1, <1>2, <1>3

LEMMA PlaceFilterNext ==
  ASSUME HistoryType, NEW c \in Calls, NEW s \in Servers, FilterNext(c, s),
         NEW d \in Calls, PlaceInv(d)
  PROVE  PlaceInv(d)'
<1> DEFINE p == <<"filter", s>>
<1>1. /\ agenda = <<>> /\ <<c, s>> \in filtering
      /\ filtering' = filtering \ {<<c, s>>}
      /\ UNCHANGED <<pendings, returning, inflight, options, history>>
  BY DEF FilterNext, Idle, config
<1>2. PICK op \in {"send", "error"}, t \in Servers : agenda' = <<Frame(op, c, t)>>
  BY DEF FilterNext
<1> DEFINE frames == <<Frame(op, c, t)>>
<1>3. frames \in Seq(Frames)
  BY OneFrame DEF Ops
<1>4. \A i \in 1 .. Len(frames) : frames[i].op = op /\ frames[i].call = c /\ i = 1
  BY FrameFields
<1>5. agenda' = frames
  BY <1>2
<1> HIDE DEF frames
<1>6. \A b : /\ Queued(b)' = Queued(b) /\ ReturnSpots(b)' = ReturnSpots(b)
             /\ BoxSpots(b)' = BoxSpots(b)
  BY <1>1 DEF Queued, ReturnSpots, BoxSpots
<1>7. d # c => FilterSpots(d)' = FilterSpots(d)
  BY <1>1 DEF FilterSpots
<1>8. CASE d = c
  <2> DEFINE q == <<"frame", Len(frames) - 1>>
  <2>1. p \in EarlySpots(c)
    BY <1>1 DEF EarlySpots, FilterSpots
  <2>2. FilterSpots(c)' \subseteq FilterSpots(c) \ {p}
    BY <1>1, Leaves
  <2>3. FrameSpots(c, Early)' \subseteq {q}
    BY <1>3, <1>4, <1>5, FirstSpots
  <2>4. FrameSpots(c, Late)' = {}
    BY <1>3, <1>4, <1>5, FirstNone DEF Late
  <2>5. \A b : ~Flushing(b)' /\ ~Flushing(b)
    BY <1>1, <1>3, <1>4, <1>5, FirstFlushing, IdleSpots
  <2>6. QueueSpots(c)' = QueueSpots(c) /\ p \notin QueueSpots(c)
    BY <1>6, <2>5 DEF QueueSpots
  <2>7. p \notin ReturnSpots(c) /\ p \notin BoxSpots(c)
    BY DEF ReturnSpots, BoxSpots
  <2> HIDE DEF p, q
  <2>8. /\ EarlySpots(c)' \subseteq (EarlySpots(c) \ {p}) \union {q}
        /\ LateSpots(c)' \subseteq LateSpots(c) \ {p}
    BY <1>6, <2>2, <2>3, <2>4, <2>6, <2>7 DEF EarlySpots, LateSpots
  <2>. QED
    BY <1>1, <1>8, <2>1, <2>8, MovesEarly DEF history, Untold
<1>9. CASE d # c
  <2>1. Elsewhere(d)
    BY <1>6, <1>7, <1>9 DEF Elsewhere
  <2>. QED
    BY <1>1, <1>3, <1>4, <1>5, <1>9, <2>1, EventOfOther
<1>. QED
  BY <1>8, <1>9

\* The frames with which an event goes on to the caller.
LEMMA Onwards ==
  ASSUME HistoryType, agenda = <<>>, NEW frames \in Seq(Frames), agenda' = frames,
         NEW c \in Calls, PlaceInv(c),
         \A i \in 1 .. Len(frames) :
           frames[i].call = c /\ frames[i].op \in Late \union {"error"},
         \A i, j \in 1 .. Len(frames) :
           frames[i].op # "error" /\ frames[j].op # "error" => i = j,
         NEW p \in LateSpots(c),
         Queued(c)' = Queued(c), FilterSpots(c)' = FilterSpots(c),
         ReturnSpots(c)' \subseteq ReturnSpots(c) \ {p},
         BoxSpots(c)' \subseteq BoxSpots(c) \ {p},
         UNCHANGED <<options, history>>
  PROVE  PlaceInv(c)'
<1>1. PICK k : \A i \in 1 .. Len(frames) : frames[i].op # "error" => i = k
  OBVIOUS
<1> DEFINE q == <<"frame", Len(frames) - k>>
<1>2. FrameSpots(c, Early)' = {}
  BY FirstNone DEF Early, Late
<1>3. FrameSpots(c, Late)' \subseteq {q}
  BY <1>1, FirstSpots DEF Late
<1>4. \A s : ~Flushing(s)' /\ ~Flushing(s)
  BY FirstFlushing, IdleSpots DEF Late
<1>5. QueueSpots(c)' = QueueSpots(c)
  BY <1>4 DEF QueueSpots
<1>6. EarlySpots(c) \subseteq {p} /\ p \in Spots(c)
  BY DEF PlaceInv, Spots
<1>7. p \notin QueueSpots(c) /\ p \notin FilterSpots(c)
  <2>1. FrameSpots(c, Late) = {}
    BY IdleSpots
  <2>2. CASE p \in ReturnSpots(c)
    <3>1. \E s : p = <<"return", s>>
      BY <2>2 DEF ReturnSpots
    <3>. QED
      BY <3>1 DEF QueueSpots, FilterSpots
  <2>3. CASE p \in BoxSpots(c)
    <3>1. \E n : p = <<"box", n>>
      BY <2>3 DEF BoxSpots
    <3>. QED
      BY <3>1 DEF QueueSpots, FilterSpots
  <2>. QED
    BY <2>1, <2>2, <2>3 DEF LateSpots
<1> HIDE DEF q
<1>8. /\ EarlySpots(c)' \subseteq EarlySpots(c) \ {p}
      /\ LateSpots(c)' \subseteq (LateSpots(c) \ {p}) \union {q}
  BY <1>2, <1>3, <1>5, <1>7 DEF EarlySpots, LateSpots
<1>. QED
  BY <1>6, <1>8, MovesLate DEF history, Untold

LEMMA PlaceAfterNext ==
  ASSUME HistoryType, NEW c \in Calls, NEW s \in Servers, AfterNext(c, s),
         NEW d \in Calls, PlaceInv(d)
  PROVE  PlaceInv(d)'
<1> DEFINE p == <<"return", s>>
<1>1. /\ agenda = <<>> /\ <<c, s>> \in returning
      /\ returning' = returning \ {<<c, s>>}
      /\ UNCHANGED <<pendings, filtering, inflight, options, history>>
  BY DEF AfterNext, Idle, config
<1>2. PICK frames \in {<<Frame("result", c, s)>>,
                       <<Frame("error", c, s), Frame("result", c, s)>>} :
        agenda' = frames
  BY DEF AfterNext
<1>3. frames \in Seq(Frames)
  BY OneFrame, TwoFrames DEF Ops
<1>4. /\ \A i \in 1 .. Len(frames) :
           frames[i].call = c /\ frames[i].op \in {"result", "error"}
      /\ \A i \in 1 .. Len(frames) : frames[i].op # "error" => i = Len(frames)
  <2>1. CASE frames = <<Frame("result", c, s)>>
    BY <2>1, FrameFields
  <2>2. CASE frames = <<Frame("error", c, s), Frame("result", c, s)>>
    BY <2>2, FrameFields
  <2>. QED
    BY <2>1, <2>2
<1>5. \A b : /\ Queued(b)' = Queued(b) /\ FilterSpots(b)' = FilterSpots(b)
             /\ BoxSpots(b)' = BoxSpots(b)
  BY <1>1 DEF Queued, FilterSpots, BoxSpots
<1>6. d # c => ReturnSpots(d)' = ReturnSpots(d)
  BY <1>1 DEF ReturnSpots
<1>7. CASE d = c
  <2>1. p \in LateSpots(c) /\ ReturnSpots(c)' \subseteq ReturnSpots(c) \ {p}
    BY <1>1, Leaves DEF LateSpots, ReturnSpots
  <2>2. p \notin BoxSpots(c)
    BY DEF BoxSpots
  <2> HIDE DEF p
  <2>. QED
    BY <1>1, <1>2, <1>3, <1>4, <1>5, <1>7, <2>1, <2>2, Onwards DEF Late
<1>8. CASE d # c
  <2>1. Elsewhere(d)
    BY <1>5, <1>6, <1>8 DEF Elsewhere
  <2>. QED
    BY <1>1, <1>2, <1>3, <1>4, <1>8, <2>1, EventOfOther
<1>. QED
  BY <1>7, <1>8

LEMMA PlaceBoxAnswer ==
  ASSUME LinksType, HistoryType, NEW m \in DOMAIN boxes, NEW c \in Calls,
         BoxAnswer(m, c), NEW d \in Calls, PlaceInv(d)
  PROVE  PlaceInv(d)'
<1> DEFINE p == <<"box", m>>
<1>1. PICK s \in Servers : s = boxes[m].server
  BY BoxServer DEF LinksType
<1>2. /\ agenda = <<>> /\ <<m, c>> \in inflight
      /\ inflight' = inflight \ {<<m, c>>}
      /\ UNCHANGED <<pendings, filtering, options, history>>
  BY DEF BoxAnswer, Polls, Idle, config
<1>3. m \in Nat
  BY LenProperties DEF LinksType
<1>4. \A b : Queued(b)' = Queued(b) /\ FilterSpots(b)' = FilterSpots(b)
  BY <1>2 DEF Queued, FilterSpots
<1>5. d # c => BoxSpots(d)' = BoxSpots(d)
  BY <1>2 DEF BoxSpots
<1>6. p \in LateSpots(c) /\ BoxSpots(c)' \subseteq BoxSpots(c) \ {p}
  BY <1>2, <1>3, Leaves DEF LateSpots, BoxSpots
<1>7. CASE returning' = returning \union {<<c, s>>} /\ UNCHANGED agenda
  <2> DEFINE q == <<"return", s>>
  <2>1. \A b, ops : FrameSpots(b, ops)' = FrameSpots(b, ops)
    BY <1>7 DEF FrameSpots
  <2>2. \A b : QueueSpots(b)' = QueueSpots(b)
    BY <1>4, <1>7 DEF QueueSpots, Flushing
  <2>3. CASE d = c
    <3>1. ReturnSpots(c)' \subseteq ReturnSpots(c) \union {q}
      BY <1>7 DEF ReturnSpots
    <3>2. FrameSpots(c, Early) = {} /\ FrameSpots(c, Late) = {}
      BY <1>2, IdleSpots
    <3>3. p \notin QueueSpots(c) /\ p \notin FilterSpots(c) /\ p \notin ReturnSpots(c)
      BY DEF QueueSpots, FilterSpots, ReturnSpots
    <3>4. p \in Spots(c)
      BY <1>6 DEF Spots
    <3> HIDE DEF p, q
    <3>5. /\ EarlySpots(c)' \subseteq EarlySpots(c) \ {p}
          /\ LateSpots(c)' \subseteq (LateSpots(c) \ {p}) \union {q}
      BY <1>4, <1>6, <2>1, <2>2, <3>1, <3>2, <3>3 DEF EarlySpots, LateSpots
    <3>. QED
      BY <1>2, <2>3, <3>4, <3>5, MovesLate DEF history, Untold
  <2>4. CASE d # c
    <3>1. ReturnSpots(d)' = ReturnSpots(d)
      BY <1>7, <2>4 DEF ReturnSpots
    <3>2. EarlySpots(d)' = EarlySpots(d) /\ LateSpots(d)' = LateSpots(d)
      BY <1>4, <1>5, <2>1, <2>2, <2>4, <3>1 DEF EarlySpots, LateSpots
    <3>. QED
      BY <1>2, <3>2, Stays DEF history, Untold
  <2>. QED
    BY <2>3, <2>4
<1>8. ASSUME NEW frames \in {<<Frame("result", c, s)>>,
                            <<Frame("error", c, s), Frame("failure", c, s)>>},
             agenda' = frames, UNCHANGED returning
      PROVE  PlaceInv(d)'
  <2>1. frames \in Seq(Frames)
    BY OneFrame, TwoFrames DEF Ops
  <2>2. /\ \A i \in 1 .. Len(frames) :
             frames[i].call = c /\ frames[i].op \in {"result", "failure", "error"}
        /\ \A i \in 1 .. Len(frames) : frames[i].op # "error" => i = Len(frames)
    <3>1. CASE frames = <<Frame("result", c, s)>>
      BY <3>1, FrameFields
    <3>2. CASE frames = <<Frame("error", c, s), Frame("failure", c, s)>>
      BY <3>2, FrameFields
    <3>. QED
      BY <3>1, <3>2
  <2>3. \A b : ReturnSpots(b)' = ReturnSpots(b)
    BY <1>8 DEF ReturnSpots
  <2>4. CASE d = c
    <3>1. p \notin ReturnSpots(c)
      BY DEF ReturnSpots
    <3> HIDE DEF p
    <3>. QED
      BY <1>2, <1>4, <1>6, <1>8, <2>1, <2>2, <2>3, <2>4, <3>1, Onwards DEF Late
  <2>5. CASE d # c
    <3>1. Elsewhere(d)
      BY <1>4, <1>5, <2>3, <2>5 DEF Elsewhere
    <3>. QED
      BY <1>2, <1>8, <2>1, <2>2, <2>5, <3>1, EventOfOther
  <2>. QED
    BY <2>4, <2>5
<1>. QED
  BY <1>1, <1>7, <1>8 DEF BoxAnswer

\* The queue of a server is flushed: what was in it is on the agenda.
LEMMA FlushFrames ==
  ASSUME WaitingType, NEW s \in Servers, pendings[s] # <<>>
  PROVE  /\ FlushPending(s) \in Seq(Frames)
         /\ Len(FlushPending(s)) = Len(pendings[s]) + 1
         /\ \A i \in 1 .. Len(pendings[s]) :
              FlushPending(s)[i] = Frame("dispatch", pendings[s][i], s)
         /\ FlushPending(s)[Len(pendings[s]) + 1] = Frame("flushed", NoCall, s)
<1>1. pendings[s] \in Seq(Calls) /\ Len(pendings[s]) \in Nat
  BY LenProperties DEF WaitingType
<1>2. \A i \in 1 .. Len(pendings[s]) :
        Frame("dispatch", pendings[s][i], s) \in Frames
  BY <1>1, ElementOfSeq DEF Frame, Frames, Ops
<1>3. Dispatches(s) \in [1 .. Len(pendings[s]) -> Frames]
      /\ \A i \in 1 .. Len(pendings[s]) :
           Dispatches(s)[i] = Frame("dispatch", pendings[s][i], s)
  BY <1>2 DEF Dispatches
<1>4. Dispatches(s) \in Seq(Frames) /\ Len(Dispatches(s)) = Len(pendings[s])
  BY <1>1, <1>3, LenProperties
<1>5. Frame("flushed", NoCall, s) \in Frames
  BY DEF Frame, Frames
<1> DEFINE left == Dispatches(s)
           last == Frame("flushed", NoCall, s)
<1>6. FlushPending(s) = left \o <<last>>
  BY DEF FlushPending
<1>7. left \in Seq(Frames) /\ last \in Frames /\ Len(left) = Len(pendings[s])
  BY <1>4, <1>5
<1> HIDE DEF left, last
<1>8. <<last>> \in Seq(Frames) /\ Len(<<last>>) = 1 /\ <<last>>[1] = last
  BY <1>7
<1>9. /\ FlushPending(s) \in Seq(Frames)
      /\ Len(FlushPending(s)) = Len(pendings[s]) + 1
      /\ \A i \in 1 .. Len(pendings[s]) + 1 :
           FlushPending(s)[i] = IF i <= Len(pendings[s]) THEN left[i]
                                ELSE <<last>>[i - Len(pendings[s])]
  BY <1>6, <1>7, <1>8, ConcatProperties
<1>10. \A i \in 1 .. Len(pendings[s]) : FlushPending(s)[i] = left[i]
  BY <1>1, <1>9
<1>11. FlushPending(s)[Len(pendings[s]) + 1] = last
  <2>1. Len(pendings[s]) + 1 - Len(pendings[s]) = 1
    BY <1>1
  <2>. QED
    BY <1>1, <1>8, <1>9, <2>1
<1>. QED
  BY <1>3, <1>9, <1>10, <1>11 DEF left, last

LEMMA PlaceConnectDone ==
  ASSUME LinksType, WaitingType, HistoryType, NEW m \in DOMAIN boxes, ConnectDone(m),
         NEW d \in Calls, PlaceInv(d)
  PROVE  PlaceInv(d)'
<1>1. PICK s \in Servers : s = boxes[m].server
  BY BoxServer DEF LinksType
<1>2. /\ agenda = <<>> /\ agenda' = FlushPending(s)
      /\ UNCHANGED <<waiting, options, history>>
  BY <1>1 DEF ConnectDone, Polls, Idle, config
<1>3. \A b : /\ Queued(b)' = Queued(b) /\ FilterSpots(b)' = FilterSpots(b)
             /\ ReturnSpots(b)' = ReturnSpots(b) /\ BoxSpots(b)' = BoxSpots(b)
  BY <1>2 DEF waiting, Queued, FilterSpots, ReturnSpots, BoxSpots
<1>4. CASE pendings[s] = <<>>
  <2>1. UNCHANGED agenda
    BY <1>2, <1>4 DEF FlushPending
  <2>. QED
    BY <1>2, <2>1, PlaceKept DEF history, Untold
<1>5. CASE pendings[s] # <<>>
  <2> DEFINE n == Len(pendings[s])
  <2>1. /\ agenda' \in Seq(Frames) /\ Len(agenda') = n + 1 /\ n \in Nat
        /\ DOMAIN agenda' = 1 .. n + 1 /\ DOMAIN pendings[s] = 1 .. n
        /\ \A i \in 1 .. n : agenda'[i] = Frame("dispatch", pendings[s][i], s)
        /\ agenda'[n + 1] = Frame("flushed", NoCall, s)
    BY <1>2, <1>5, FlushFrames, LenProperties DEF WaitingType
  <2> HIDE DEF n
  <2>2. ASSUME NEW i \in DOMAIN agenda', agenda'[i].op # "flushed"
        PROVE  /\ i \in 1 .. n /\ agenda'[i].op = "dispatch"
               /\ agenda'[i].call = pendings[s][i]
    BY <2>1, <2>2, FrameFields
  <2>3. Flushing(s)'
    <3>1. n + 1 \in DOMAIN agenda'
      BY <2>1
    <3>. QED
      BY <2>1, <3>1, FrameFields DEF Flushing
  <2>4. FrameSpots(d, Late)' = {}
    BY <2>2 DEF FrameSpots, Late
  <2>5. \A x \in FrameSpots(d, Early)' :
          \E i \in 1 .. n : pendings[s][i] = d /\ x = <<"frame", n + 1 - i>>
    BY <2>1, <2>2 DEF FrameSpots, Early
  <2>6. QueueSpots(d)' \subseteq QueueSpots(d)
    BY <1>2, <1>3, IdleSpots DEF QueueSpots
  <2>7. CASE \A i \in 1 .. n : pendings[s][i] # d
    <3>1. FrameSpots(d, Early)' = {}
      BY <2>5, <2>7
    <3>2. EarlySpots(d)' \subseteq EarlySpots(d) /\ LateSpots(d)' \subseteq LateSpots(d)
      BY <1>3, <2>4, <2>6, <3>1 DEF EarlySpots, LateSpots
    <3>. QED
      BY <1>2, <3>2, Stays DEF history, Untold
  <2>8. ASSUME NEW i \in 1 .. n, pendings[s][i] = d
        PROVE  PlaceInv(d)'
    <3> DEFINE p == <<"queue", <<s, i>>>>
               q == <<"frame", n + 1 - i>>
    <3>1. \A j \in 1 .. n : pendings[s][j] = d => <<"queue", <<s, j>>>> \in QueueSpots(d)
      <4>1. \A j \in 1 .. n : pendings[s][j] = d => <<s, j>> \in Queued(d)
        BY <2>1 DEF Queued
      <4>2. ~Flushing(s)
        BY <1>2, IdleSpots
      <4>. QED
        BY <4>1, <4>2 DEF QueueSpots
    <3>2. p \in EarlySpots(d)
      BY <2>8, <3>1 DEF EarlySpots
    <3>3. \A j \in 1 .. n : pendings[s][j] = d => j = i
      <4>1. \A j \in 1 .. n : pendings[s][j] = d => <<"queue", <<s, j>>>> = p
        BY <3>1, <3>2 DEF PlaceInv, Spots, EarlySpots
      <4>. QED
        BY <4>1
    <3>4. FrameSpots(d, Early)' \subseteq {q}
      BY <2>5, <3>3
    <3>5. p \notin QueueSpots(d)'
      BY <2>3 DEF QueueSpots
    <3>6. p \notin FilterSpots(d) /\ p \notin ReturnSpots(d) /\ p \notin BoxSpots(d)
      BY DEF FilterSpots, ReturnSpots, BoxSpots
    <3> HIDE DEF p, q
    <3>7. /\ EarlySpots(d)' \subseteq (EarlySpots(d) \ {p}) \union {q}
          /\ LateSpots(d)' \subseteq LateSpots(d) \ {p}
      BY <1>3, <2>4, <2>6, <3>4, <3>5, <3>6 DEF EarlySpots, LateSpots
    <3>. QED
      BY <1>2, <3>2, <3>7, MovesEarly DEF history, Untold
  <2>. QED
    BY <2>7, <2>8
<1>. QED
  BY <1>4, <1>5

LEMMA PlaceConnectFail ==
  ASSUME LinksType, HistoryType, NEW m \in DOMAIN boxes, ConnectFail(m),
         NEW d \in Calls, PlaceInv(d)
  PROVE  PlaceInv(d)'
<1>1. PICK s \in Servers, c \in Calls : s = boxes[m].server /\ c = boxes[m].caller
  <2>1. boxes[m] \in Box
    BY ElementOfSeq, LenProperties DEF LinksType
  <2>. QED
    BY <2>1 DEF Box
<1>2. /\ agenda = <<>> /\ agenda' = <<Frame("connectError", c, s)>>
      /\ UNCHANGED waiting
      /\ UNCHANGED <<options, issued, answers, sends, notified>>
  BY <1>1 DEF ConnectFail, Polls, Idle, config
<1> DEFINE frames == <<Frame("connectError", c, s)>>
<1>3. frames \in Seq(Frames)
  BY OneFrame DEF Ops
<1>4. \A i \in 1 .. Len(frames) : frames[i].op = "connectError"
  BY FrameFields
<1>5. agenda' = frames
  BY <1>2
<1> HIDE DEF frames
<1>6. FrameSpots(d, Early)' = {} /\ FrameSpots(d, Late)' = {}
  BY <1>3, <1>4, <1>5, FirstNone DEF Early, Late
<1>7. \A b : ~Flushing(b)' /\ ~Flushing(b)
  BY <1>2, <1>3, <1>4, <1>5, FirstFlushing, IdleSpots
<1>8. Elsewhere(d)
  BY <1>2, ElsewhereKept
<1>9. QueueSpots(d)' \subseteq QueueSpots(d)
  BY <1>7, <1>8 DEF QueueSpots, Elsewhere
<1>10. EarlySpots(d)' \subseteq EarlySpots(d) /\ LateSpots(d)' \subseteq LateSpots(d)
  BY <1>6, <1>8, <1>9 DEF Elsewhere, EarlySpots, LateSpots
<1>. QED
  BY <1>2, <1>10, Stays DEF Untold

\* The next call of a disconnect loop: it stays with its mailbox.
LEMMA CutFrames ==
  ASSUME LinksType, RunCutCall
  PROVE  \E c \in cut, frames \in Seq(Frames) :
           /\ agenda' = frames /\ cut' = cut \ {c}
           /\ Len(frames) = 2 /\ frames[1].op = "error" /\ frames[2].op = "notice"
           /\ \A i \in 1 .. Len(frames) : frames[i].call = c
<1>1. PICK c \in cut, s \in Servers :
        /\ cut' = cut \ {c}
        /\ agenda' = <<Frame("error", c, s), Frame("notice", c, s)>>
  <2>1. cutBox \in DOMAIN boxes
    BY LenProperties DEF LinksType, RunCutCall
  <2>. QED
    BY <2>1, BoxServer DEF LinksType, RunCutCall
<1> DEFINE frames == <<Frame("error", c, s), Frame("notice", c, s)>>
<1>2. c \in Calls
  BY DEF LinksType
<1>3. frames \in Seq(Frames)
  BY <1>2, TwoFrames DEF Ops
<1>4. /\ Len(frames) = 2 /\ frames[1].op = "error" /\ frames[2].op = "notice"
      /\ \A i \in 1 .. Len(frames) : frames[i].call = c
  BY FrameFields
<1>. QED
  BY <1>1, <1>3, <1>4

LEMMA PlaceCutCall ==
  ASSUME LinksType, HistoryType, RunCutCall, NEW d \in Calls, PlaceInv(d)
  PROVE  PlaceInv(d)'
<1>1. agenda = <<>> /\ UNCHANGED <<waiting, options, history>>
  BY DEF RunCutCall, config
<1>2. PICK c \in cut, frames \in Seq(Frames) :
        /\ agenda' = frames /\ Len(frames) = 2
        /\ frames[1].op = "error" /\ frames[2].op = "notice"
  BY CutFrames
<1>3. \A i \in 1 .. Len(frames) : frames[i].op \in {"error", "notice"}
  <2>1. \A i \in 1 .. 2 : i = 1 \/ i = 2
    OBVIOUS
  <2>. QED
    BY <1>2, <2>1
<1>. QED
  BY <1>1, <1>2, <1>3, ElsewhereKept, EventOfOther DEF Early, Late

-----------------------------------------------------------------------------
(* The steps that move no call.                                            *)

LEMMA HistoryGrows ==
  ASSUME ConfigType, LinksType, RunningType, [Next]_vars
  PROVE  options' = options /\ reported \subseteq reported'
<1>1. options' = options
  BY BoxesGrow DEF Grown
<1>2. CASE Run
  <2>1. CASE RunError \/ RunConnectError
    BY <1>1, <2>1 DEF RunError, RunConnectError
  <2>2. CASE RunDispatch \/ RunFlushed \/ RunCutCall \/ RunCutEnd
    BY <1>1, <2>2 DEF RunDispatch, RunFlushed, RunCutCall, RunCutEnd, history
  <2>3. CASE RunPend \/ RunSend \/ RunResult \/ RunFailure \/ RunNotice
    BY <1>1, <2>3 DEF RunPend, RunSend, RunResult, RunFailure, RunNotice
  <2>. QED
    BY <1>2, <2>1, <2>2, <2>3 DEF Run
<1>3. UNCHANGED history => UNCHANGED reported
  BY DEF history
<1>4. ASSUME NEW s \in Servers, AddServer(s) \/ RemoveServer(s)
      PROVE  UNCHANGED reported
  BY <1>4 DEF AddServer, RemoveServer
<1>5. ASSUME NEW c \in Calls, NEW s \in Servers,
             Invoke(c, s) \/ FilterNext(c, s) \/ AfterNext(c, s)
      PROVE  UNCHANGED reported
  BY <1>5 DEF Invoke, FilterNext, AfterNext, history
<1>6. ASSUME NEW m \in DOMAIN boxes, NEW c \in Calls, BoxAnswer(m, c)
      PROVE  UNCHANGED reported
  BY <1>6 DEF BoxAnswer, history
<1>7. ASSUME NEW m \in DOMAIN boxes,
             \/ ConnectDone(m) \/ ConnectTimeout(m) \/ ConnectFail(m)
             \/ CloseEvent(m) \/ Disconnect(m)
      PROVE  UNCHANGED reported
  BY <1>7 DEF ConnectDone, ConnectTimeout, ConnectFail, CloseEvent, Disconnect,
              history
<1>8. CASE Start \/ StartTick \/ GraceTimeout \/ \E force \in BOOLEAN : Stop(force)
  BY <1>1, <1>3, <1>8 DEF Start, StartTick, GraceTimeout, Stop
<1>9. CASE UNCHANGED vars
  BY <1>1, <1>3, <1>9 DEF vars
<1>. QED
  BY <1>1, <1>2, <1>4, <1>5, <1>6, <1>7, <1>8, <1>9 DEF Next

LEMMA PlaceStep ==
  ASSUME ConfigType, LinksType, WaitingType, RunningType, HistoryType, [Next]_vars,
         NEW d \in Calls, PlaceInv(d), NoticeInv(d)
  PROVE  PlaceInv(d)' \/ Retried(d)'
<1>0. options' = options
  BY HistoryGrows
<1>1. CASE UNCHANGED <<agenda, waiting, issued, sends, answers, notified>>
  BY <1>0, <1>1, PlaceKept DEF Untold
<1>2. CASE Start \/ StartTick \/ GraceTimeout \/ \E force \in BOOLEAN : Stop(force)
  BY <1>1, <1>2 DEF Start, StartTick, GraceTimeout, Stop, running, history
<1>3. ASSUME NEW s \in Servers, AddServer(s) \/ RemoveServer(s)
      PROVE  PlaceInv(d)' \/ Retried(d)'
  BY <1>1, <1>3 DEF AddServer, RemoveServer, running
<1>4. ASSUME NEW c \in Calls, NEW s \in Servers,
             Invoke(c, s) \/ FilterNext(c, s) \/ AfterNext(c, s)
      PROVE  PlaceInv(d)' \/ Retried(d)'
  BY <1>4, PlaceInvoke, PlaceFilterNext, PlaceAfterNext
<1>5. ASSUME NEW m \in DOMAIN boxes, NEW c \in Calls, BoxAnswer(m, c)
      PROVE  PlaceInv(d)' \/ Retried(d)'
  BY <1>5, PlaceBoxAnswer
<1>6. ASSUME NEW m \in DOMAIN boxes,
             \/ ConnectDone(m) \/ ConnectTimeout(m) \/ ConnectFail(m)
             \/ CloseEvent(m) \/ Disconnect(m)
      PROVE  PlaceInv(d)' \/ Retried(d)'
  <2>1. CASE ConnectTimeout(m) \/ CloseEvent(m) \/ Disconnect(m)
    BY <1>1, <2>1 DEF ConnectTimeout, CloseEvent, Disconnect, running, history
  <2>. QED
    BY <1>6, <2>1, PlaceConnectDone, PlaceConnectFail
<1>7. CASE Run
  <2>1. CASE RunCutEnd
    BY <1>1, <2>1 DEF RunCutEnd, history
  <2>. QED
    BY <1>7, <2>1, PlaceDispatch, PlacePend, PlaceSend, PlaceAnswer, PlaceNotice,
       PlaceError, PlaceFlushed, PlaceCutCall
       DEF Run
<1>8. CASE UNCHANGED vars
  BY <1>1, <1>8 DEF vars, running, history
<1>. QED
  BY <1>2, <1>3, <1>4, <1>5, <1>6, <1>7, <1>8 DEF Next

-----------------------------------------------------------------------------
(* The frames of an event.                                                 *)

LEMMA AFrame ==
  ASSUME NEW op \in Ops \ {"flushed"}, NEW c \in Calls, NEW s \in Servers
  PROVE  \E frames \in Seq(Frames) :
           /\ frames = <<Frame(op, c, s)>> /\ Len(frames) = 1
           /\ \A i \in 1 .. Len(frames) : /\ frames[i].op = op
                                         /\ frames[i].call = c /\ frames[i].server = s
<1> DEFINE frames == <<Frame(op, c, s)>>
<1>1. frames \in Seq(Frames)
  BY OneFrame
<1>2. /\ frames = <<Frame(op, c, s)>> /\ Len(frames) = 1
      /\ \A i \in 1 .. Len(frames) : /\ frames[i].op = op
                                    /\ frames[i].call = c /\ frames[i].server = s
  BY FrameFields
<1> HIDE DEF frames
<1>. QED
  BY <1>1, <1>2

LEMMA AnErrorFirst ==
  ASSUME NEW op \in Ops \ {"flushed"}, NEW c \in Calls, NEW s \in Servers
  PROVE  \E frames \in Seq(Frames) :
           /\ frames = <<Frame("error", c, s), Frame(op, c, s)>> /\ Len(frames) = 2
           /\ \A i \in 1 .. Len(frames) : /\ frames[i].op \in {"error", op}
                                         /\ frames[i].call = c /\ frames[i].server = s
<1> DEFINE frames == <<Frame("error", c, s), Frame(op, c, s)>>
<1>1. frames \in Seq(Frames)
  BY TwoFrames DEF Ops
<1>2. /\ frames = <<Frame("error", c, s), Frame(op, c, s)>> /\ Len(frames) = 2
      /\ \A i \in 1 .. Len(frames) : /\ frames[i].op \in {"error", op}
                                    /\ frames[i].call = c /\ frames[i].server = s
  BY FrameFields
<1> HIDE DEF frames
<1>. QED
  BY <1>1, <1>2

\* The running frame ends with others in its place, of which one queues a call
\* only while its server has no mailbox that is connected.
Replaced(op, frames) ==
  /\ Running(op) /\ Continue(frames)
  /\ \A i \in 1 .. Len(frames) :
       /\ frames[i].op \notin {"flushed", "connectError", "notice"}
       /\ frames[i].op = "pend"
            => /\ state = "started"
               /\ mailboxes[frames[i].server] = 0 \/ frames[i].server \in connecting

LEMMA RunFrames ==
  ASSUME ConfigType, RunningType, Run, agenda # <<>>
  PROVE  \/ UNCHANGED <<agenda, links>>
         \/ \E op \in Ops, frames \in Seq(Frames) : Replaced(op, frames)
<1> DEFINE c == Head(agenda).call
           s == Head(agenda).server
           Goal == \E op \in Ops, frames \in Seq(Frames) : Replaced(op, frames)
<1>1. \A op \in Ops : Running(op) => s \in Servers /\ (op # "flushed" => c \in Calls)
  BY RunningFrame DEF RunningType
<1>2. ASSUME NEW op \in Ops, Running(op), Continue(<<>>) PROVE Goal
  BY <1>2, NoFrames DEF Replaced
<1>3. ASSUME NEW op \in Ops \ {"flushed"}, Running(op),
             NEW op2 \in {"error", "send", "dispatch"}, NEW t \in Servers,
             Continue(<<Frame(op2, c, t)>>)
      PROVE  Goal
  <2> HIDE DEF c
  <2>1. c \in Calls
    BY <1>1, <1>3 DEF c
  <2>. QED
    BY <1>3, <2>1, AFrame DEF Replaced, Ops
<1>4. CASE RunDispatch
  <2>1. Running("dispatch") /\ Dispatch(c, s) /\ "dispatch" \in Ops
    BY <1>4 DEF RunDispatch, Ops
  <2>2. c \in Calls /\ s \in Servers
    BY <1>1, <2>1
  <2>3. CASE /\ Continue(<<Frame("pend", c, s)>>) /\ state = "started"
             /\ mailboxes[s] = 0 \/ s \in connecting
    <3>1. PICK frames \in Seq(Frames) :
            /\ frames = <<Frame("pend", c, s)>>
            /\ \A i \in 1 .. Len(frames) : frames[i].op = "pend" /\ frames[i].server = s
      <4> HIDE DEF c, s
      <4>. QED
        BY <2>2, AFrame DEF Ops
    <3>. QED
      BY <2>1, <2>3, <3>1 DEF Replaced
  <2>4. CASE /\ Continue(<<Frame("error", c, s), Frame("pend", c, s)>>)
             /\ state = "started" /\ mailboxes[s] = 0
    <3>1. PICK frames \in Seq(Frames) :
            /\ frames = <<Frame("error", c, s), Frame("pend", c, s)>>
            /\ \A i \in 1 .. Len(frames) : /\ frames[i].op \in {"error", "pend"}
                                          /\ frames[i].server = s
      <4> HIDE DEF c, s
      <4>. QED
        BY <2>2, AnErrorFirst DEF Ops
    <3>. QED
      BY <2>1, <2>4, <3>1 DEF Replaced
  <2>5. \/ Continue(<<>>) \/ Continue(<<Frame("error", c, s)>>)
        \/ Continue(<<Frame("send", c, s)>>)
        \/ /\ Continue(<<Frame("pend", c, s)>>) /\ state = "started"
           /\ mailboxes[s] = 0 \/ s \in connecting
        \/ /\ Continue(<<Frame("error", c, s), Frame("pend", c, s)>>)
           /\ state = "started" /\ mailboxes[s] = 0
    <3> HIDE DEF c, s
    <3>. QED
      BY <2>1 DEF Dispatch
  <2>. QED
    BY <1>2, <1>3, <2>1, <2>2, <2>3, <2>4, <2>5
<1>5. CASE RunSend
  <2>1. Running("send") /\ "send" \in Ops
    BY <1>5 DEF RunSend, Ops
  <2>2. c \in Calls /\ s \in Servers
    BY <1>1, <2>1
  <2>3. CASE Continue(<<Frame("error", c, s), Frame("failure", c, s)>>)
    <3>1. PICK frames \in Seq(Frames) :
            /\ frames = <<Frame("error", c, s), Frame("failure", c, s)>>
            /\ \A i \in 1 .. Len(frames) : frames[i].op \in {"error", "failure"}
      <4> HIDE DEF c, s
      <4>. QED
        BY SMTT(20), <2>2, AnErrorFirst DEF Ops
    <3>. QED
      BY <2>1, <2>3, <3>1 DEF Replaced
  <2>4. \/ Continue(<<>>) \/ Continue(<<Frame("error", c, s)>>)
        \/ Continue(<<Frame("error", c, s), Frame("failure", c, s)>>)
    BY <1>5 DEF RunSend
  <2>. QED
    BY <1>2, <1>3, <2>1, <2>2, <2>3, <2>4
<1>6. CASE RunPend \/ RunResult \/ RunFailure \/ RunNotice \/ RunFlushed
  BY <1>2, <1>6 DEF RunPend, RunResult, RunFailure, RunNotice, RunFlushed, Ops
<1>7. CASE RunError \/ RunConnectError
  <2>1. PICK op \in {"error", "connectError"} : Running(op)
    BY <1>7 DEF RunError, RunConnectError
  <2>0. options.failMode \in {"failfast", "failover", "failback"}
    BY OptionsAssumption DEF ConfigType
  <2>2. FailFast(c) \/ FailOver(c, s) \/ FailBack \/ Crash
    BY <1>7, <2>0 DEF RunError, RunConnectError
  <2>3. \/ UNCHANGED agenda \/ Continue(<<>>)
        \/ Others(s) # <<>> /\ Continue(<<Frame("dispatch", c, Head(Others(s)))>>)
    <3> HIDE DEF c, s
    <3>. QED
      BY <2>2 DEF FailFast, FailOver, FailBack, Crash
  <2>4. UNCHANGED links
    BY <1>7 DEF RunError, RunConnectError
  <2>. QED
    BY <1>2, <1>3, <2>1, <2>3, <2>4, OthersType DEF Ops, RunningType
<1>. QED
  BY <1>4, <1>5, <1>6, <1>7 DEF Run, RunCutCall, RunCutEnd

\* While an event runs, the user may call the station and nothing else happens.
LEMMA BusySteps ==
  ASSUME agenda # <<>>, [Next]_vars
  PROVE  \/ Run
         \/ \E c \in Calls, s \in Servers : Invoke(c, s)
         \/ \E s \in Servers : RemoveServer(s)
         \/ UNCHANGED <<agenda, waiting, mailboxes, connecting>>
<1>1. UNCHANGED links => UNCHANGED <<mailboxes, connecting>>
  BY DEF links
<1>2. CASE Start \/ StartTick \/ GraceTimeout \/ \E force \in BOOLEAN : Stop(force)
  BY <1>1, <1>2 DEF Start, StartTick, GraceTimeout, Stop, Polls, Idle, running
<1>3. ASSUME NEW s \in Servers, AddServer(s)
      PROVE  UNCHANGED <<agenda, waiting, mailboxes, connecting>>
  BY <1>1, <1>3 DEF AddServer, running
<1>4. ASSUME NEW c \in Calls, NEW s \in Servers
      PROVE  ~FilterNext(c, s) /\ ~AfterNext(c, s)
  BY DEF FilterNext, AfterNext, Idle
<1>5. ASSUME NEW m \in DOMAIN boxes
      PROVE  /\ ~ConnectDone(m) /\ ~ConnectTimeout(m) /\ ~ConnectFail(m)
             /\ ~CloseEvent(m) /\ ~Disconnect(m)
             /\ \A c \in Calls : ~BoxAnswer(m, c)
  BY DEF ConnectDone, ConnectTimeout, ConnectFail, CloseEvent, Disconnect,
         BoxAnswer, Polls, Idle
<1>6. CASE UNCHANGED vars
  BY <1>1, <1>6 DEF vars, running
<1>. QED
  BY <1>2, <1>3, <1>4, <1>5, <1>6 DEF Next

\* What the first step of an event puts on the agenda: only a connect callback
\* flushes a queue, and only a disconnect loop calls back out of turn.
LEMMA EventFrames ==
  ASSUME LinksType, WaitingType, RunningType, agenda = <<>>, [Next]_vars
  PROVE  /\ \/ \E m \in DOMAIN boxes : ConnectDone(m)
            \/ \A i \in DOMAIN agenda' : agenda'[i].op # "flushed"
         /\ \/ RunCutCall
            \/ \A i \in DOMAIN agenda' : agenda'[i].op # "notice"
<1> DEFINE Others2 == \A i \in DOMAIN agenda' : agenda'[i].op \notin {"flushed", "notice"}
<1>1. UNCHANGED agenda => Others2
  OBVIOUS
<1>2. ASSUME NEW frames \in Seq(Frames), agenda' = frames,
             \A i \in 1 .. Len(frames) : frames[i].op \notin {"flushed", "notice"}
      PROVE  Others2
  BY <1>2, LenProperties
<1>3. ASSUME NEW op \in Ops \ {"flushed", "notice"}, NEW c \in Calls, NEW u \in Servers,
             agenda' = <<Frame(op, c, u)>>
      PROVE  Others2
  BY <1>2, <1>3, AFrame
<1>4. ASSUME NEW op \in Ops \ {"flushed", "notice"}, NEW c \in Calls, NEW u \in Servers,
             agenda' = <<Frame("error", c, u), Frame(op, c, u)>>
      PROVE  Others2
  <2>1. PICK frames \in Seq(Frames) :
          /\ frames = <<Frame("error", c, u), Frame(op, c, u)>>
          /\ \A i \in 1 .. Len(frames) : frames[i].op \in {"error", op}
    BY <1>4, AnErrorFirst
  <2>. QED
    BY <1>2, <1>4, <2>1
<1> HIDE DEF Others2
<1>5. CASE Run
  <2>1. RunCutCall \/ RunCutEnd
    BY <1>5 DEF Run, RunDispatch, RunFlushed, RunPend, RunSend, RunResult, RunFailure,
       RunNotice, RunError, RunConnectError, Running
  <2>2. CASE RunCutEnd
    BY <1>1, <2>2 DEF RunCutEnd, Others2
  <2>3. CASE RunCutCall
    <3>1. PICK frames \in Seq(Frames) :
            /\ agenda' = frames /\ Len(frames) = 2
            /\ frames[1].op = "error" /\ frames[2].op = "notice"
      BY <2>3, CutFrames
    <3>2. \A i \in DOMAIN agenda' : i = 1 \/ i = 2
      BY <3>1, LenProperties
    <3>. QED
      BY <2>3, <3>1, <3>2
  <2>. QED
    BY <2>1, <2>2, <2>3
<1>6. CASE Start \/ StartTick \/ GraceTimeout \/ \E force \in BOOLEAN : Stop(force)
  BY <1>1, <1>6 DEF Start, StartTick, GraceTimeout, Stop, running
<1>7. ASSUME NEW t \in Servers, AddServer(t) \/ RemoveServer(t)
      PROVE  Others2
  BY <1>1, <1>7 DEF AddServer, RemoveServer, running
<1>8. ASSUME NEW c \in Calls, NEW t \in Servers, Invoke(c, t)
      PROVE  Others2
  <2> DEFINE f == Frame("dispatch", c, t)
  <2>1. f \in Frames /\ f.op = "dispatch"
    BY FrameFields DEF Frame, Frames, Ops
  <2>2. agenda' = <<f>> \o agenda
    BY <1>8 DEF Invoke
  <2> HIDE DEF f
  <2>3. /\ agenda'[1] = f
        /\ \A i \in DOMAIN agenda' : i # 1 => i - 1 \in DOMAIN agenda
    BY <2>1, <2>2, Pushed DEF RunningType
  <2>4. DOMAIN agenda = {}
    OBVIOUS
  <2>. QED
    BY <2>1, <2>3, <2>4 DEF Others2
<1>9. ASSUME NEW c \in Calls, NEW t \in Servers, FilterNext(c, t) \/ AfterNext(c, t)
      PROVE  Others2
  <2>1. \/ \E op \in {"send", "error", "result"}, u \in Servers :
             agenda' = <<Frame(op, c, u)>>
        \/ agenda' = <<Frame("error", c, t), Frame("result", c, t)>>
    BY <1>9 DEF FilterNext, AfterNext
  <2>. QED
    BY <1>3, <1>4, <2>1 DEF Ops
<1>10. ASSUME NEW m \in DOMAIN boxes, NEW c \in Calls, BoxAnswer(m, c)
       PROVE  Others2
  <2>1. PICK t \in Servers : t = boxes[m].server
    BY BoxServer DEF LinksType
  <2>2. \/ UNCHANGED agenda \/ agenda' = <<Frame("result", c, t)>>
        \/ agenda' = <<Frame("error", c, t), Frame("failure", c, t)>>
    BY <1>10, <2>1 DEF BoxAnswer
  <2>. QED
    BY <1>1, <1>3, <1>4, <2>2 DEF Ops
<1>11. ASSUME NEW m \in DOMAIN boxes,
              ConnectTimeout(m) \/ CloseEvent(m) \/ Disconnect(m)
       PROVE  Others2
  BY <1>1, <1>11 DEF ConnectTimeout, CloseEvent, Disconnect, running
<1>12. ASSUME NEW m \in DOMAIN boxes, ConnectFail(m)
       PROVE  Others2
  <2>1. PICK t \in Servers, c \in Calls : t = boxes[m].server /\ c = boxes[m].caller
    <3>1. boxes[m] \in Box
      BY ElementOfSeq, LenProperties DEF LinksType
    <3>. QED
      BY <3>1 DEF Box
  <2>2. agenda' = <<Frame("connectError", c, t)>>
    BY <1>12, <2>1 DEF ConnectFail
  <2>. QED
    BY <1>3, <2>2 DEF Ops
<1>13. ASSUME NEW m \in DOMAIN boxes, ConnectDone(m)
       PROVE  \A i \in DOMAIN agenda' : agenda'[i].op # "notice"
  <2>1. PICK t \in Servers : t = boxes[m].server
    BY BoxServer DEF LinksType
  <2>2. agenda' = FlushPending(t)
    BY <1>13, <2>1 DEF ConnectDone
  <2>3. CASE pendings[t] = <<>>
    BY <2>2, <2>3 DEF FlushPending
  <2>4. CASE pendings[t] # <<>>
    <3>1. /\ agenda' \in Seq(Frames) /\ Len(agenda') = Len(pendings[t]) + 1
          /\ \A i \in 1 .. Len(pendings[t]) : agenda'[i].op = "dispatch"
          /\ agenda'[Len(pendings[t]) + 1].op = "flushed"
      BY <2>2, <2>4, FlushFrames, FrameFields
    <3>2. Len(pendings[t]) \in Nat
      BY LenProperties DEF WaitingType
    <3>3. \A i \in DOMAIN agenda' :
            i \in 1 .. Len(pendings[t]) \/ i = Len(pendings[t]) + 1
      BY <3>1, <3>2, LenProperties
    <3>. QED
      BY <3>1, <3>3
  <2>. QED
    BY <2>3, <2>4
<1>14. CASE UNCHANGED vars
  BY <1>1, <1>14 DEF vars, running
<1>. QED
  BY <1>5, <1>6, <1>7, <1>8, <1>9, <1>10, <1>11, <1>12, <1>13, <1>14
     DEF Next, Others2

-----------------------------------------------------------------------------
(* The notices of a disconnect loop.                                       *)

LEMMA NoticeKept ==
  ASSUME WaitingType, NEW c, NoticeInv(c),
         NoticeSpots(c)' \subseteq NoticeSpots(c),
         BoxSpots(c)' \subseteq BoxSpots(c),
         c \in notified' <=> c \in notified, sends'[c] = sends[c], cutBox' = cutBox,
         \A m \in DOMAIN boxes : boxes'[m].echo => boxes[m].echo
  PROVE  NoticeInv(c)'
<1>1. ASSUME NEW m \in Nat, <<m, c>> \in inflight'
      PROVE  <<m, c>> \in inflight /\ (boxes'[m].echo => boxes[m].echo)
  <2>1. <<"box", m>> \in BoxSpots(c)
    BY <1>1 DEF BoxSpots
  <2>2. <<m, c>> \in inflight
    BY <2>1 DEF BoxSpots
  <2>. QED
    BY <2>2 DEF WaitingType
<1>. QED
  BY <1>1 DEF NoticeInv

\* Which steps hand a call over, and which count as a notice.
LEMMA NoticeSteps ==
  ASSUME [Next]_vars
  PROVE  /\ RunNotice \/ UNCHANGED notified
         /\ RunSend \/ (UNCHANGED sends /\ inflight' \subseteq inflight)
<1>1. UNCHANGED history => UNCHANGED <<sends, notified>>
  BY DEF history
<1>2. UNCHANGED waiting => UNCHANGED inflight
  BY DEF waiting
<1>3. CASE Start \/ StartTick \/ GraceTimeout \/ \E force \in BOOLEAN : Stop(force)
  BY <1>1, <1>2, <1>3 DEF Start, StartTick, GraceTimeout, Stop
<1>4. ASSUME NEW s \in Servers, AddServer(s) \/ RemoveServer(s)
      PROVE  UNCHANGED <<sends, notified, inflight>>
  BY <1>2, <1>4 DEF AddServer, RemoveServer
<1>5. ASSUME NEW c \in Calls, NEW s \in Servers,
             Invoke(c, s) \/ FilterNext(c, s) \/ AfterNext(c, s)
      PROVE  UNCHANGED <<sends, notified, inflight>>
  BY <1>1, <1>2, <1>5 DEF Invoke, FilterNext, AfterNext
<1>6. ASSUME NEW m \in DOMAIN boxes, NEW c \in Calls, BoxAnswer(m, c)
      PROVE  UNCHANGED <<sends, notified>> /\ inflight' \subseteq inflight
  BY <1>1, <1>6 DEF BoxAnswer
<1>7. ASSUME NEW m \in DOMAIN boxes,
             \/ ConnectDone(m) \/ ConnectTimeout(m) \/ ConnectFail(m)
             \/ CloseEvent(m) \/ Disconnect(m)
      PROVE  UNCHANGED <<sends, notified, inflight>>
  BY <1>1, <1>2, <1>7 DEF ConnectDone, ConnectTimeout, ConnectFail, CloseEvent,
                          Disconnect
<1>8. CASE Run
  <2>1. CASE RunDispatch \/ RunFlushed \/ RunCutCall \/ RunCutEnd
    BY <1>1, <1>2, <2>1 DEF RunDispatch, RunFlushed, RunCutCall, RunCutEnd
  <2>2. CASE RunPend \/ RunSend \/ RunResult \/ RunFailure \/ RunNotice
    BY <1>2, <2>2 DEF RunPend, RunSend, RunResult, RunFailure, RunNotice
  <2>3. CASE RunError \/ RunConnectError
    BY <1>2, <2>3 DEF RunError, RunConnectError
  <2>. QED
    BY <1>8, <2>1, <2>2, <2>3 DEF Run
<1>9. CASE UNCHANGED vars
  BY <1>1, <1>2, <1>9 DEF vars
<1>. QED
  BY <1>3, <1>4, <1>5, <1>6, <1>7, <1>8, <1>9 DEF Next

\* A step of the running event, or of the user while it runs.
LEMMA NoticeBusy ==
  ASSUME ConfigType, LinksType, WaitingType, RunningType, HistoryType,
         agenda # <<>>, [Next]_vars, NEW c \in Calls, PlaceInv(c), NoticeInv(c)
  PROVE  NoticeInv(c)'
<1> DEFINE Before == FrameSpots(c, {"notice"})
<1>1. UNCHANGED loop
  BY LoopSteps DEF Disconnect, RunCutCall, RunCutEnd, Polls, Idle
<1>2. \A m \in DOMAIN boxes : boxes'[m].echo => boxes[m].echo
  BY BoxesGrow DEF Grown
<1>3. CASE Run
  <2>1. UNCHANGED agenda => Before' \subseteq Before
    BY DEF FrameSpots
  <2>2. ASSUME NEW op \in Ops, NEW frames \in Seq(Frames), Replaced(op, frames)
        PROVE  Before' \subseteq Before \ {Top}
    BY <2>2, FramesGone DEF Replaced
  <2>3. Before' \subseteq Before
    BY <1>3, <2>1, <2>2, RunFrames
  <2>4. NoticeSpots(c)' \subseteq NoticeSpots(c)
    BY <1>1, <2>3 DEF NoticeSpots, loop
  <2>5. CASE RunNotice /\ Head(agenda).call = c
    <3>1. Running("notice") /\ "notice" \in Ops /\ Continue(<<>>)
      BY <2>5 DEF RunNotice, Ops
    <3>2. Top \in NoticeSpots(c)
      BY <2>5, <3>1, TopSpot DEF NoticeSpots
    <3>3. NoticeSpots(c) \subseteq {Top} /\ sends[c] = 1
          /\ \A m \in Nat : <<m, c>> \in inflight => m = cutBox \/ ~boxes[m].echo
      BY <3>2 DEF NoticeInv
    <3>4. Before' \subseteq Before \ {Top}
      <4>1. PICK frames \in Seq(Frames) : frames = <<>> /\ 1 .. Len(frames) = {}
        BY NoFrames
      <4>. QED
        BY <3>1, <4>1, FramesGone
    <3>5. <<"cut">> # Top
      BY DEF Top
    <3>6. NoticeSpots(c)' = {}
      BY <1>1, <3>3, <3>4, <3>5 DEF NoticeSpots, loop
    <3>7. /\ UNCHANGED <<inflight, sends, boxes>> /\ cutBox' = cutBox
      BY <1>1, <2>5 DEF RunNotice, waiting, links, loop
    <3>. QED
      BY <3>3, <3>6, <3>7 DEF NoticeInv
  <2>6. CASE RunSend /\ Head(agenda).call = c
    <3>1. Running("send") /\ "send" \in Ops /\ "send" \in Early
      BY <2>6 DEF RunSend, Ops, Early
    <3>2. Top \in EarlySpots(c)
      BY <2>6, <3>1, TopSpot DEF EarlySpots
    <3>3. sends[c] = 0
      BY <3>2 DEF PlaceInv, HistoryType
    <3>4. NoticeSpots(c) = {} /\ c \notin notified
      BY <3>3 DEF NoticeInv
    <3>5. \/ UNCHANGED <<inflight, sends>>
          \/ sends' = [sends EXCEPT ![c] = @ + 1]
      BY <2>6 DEF RunSend
    <3>6. UNCHANGED notified
      BY <2>6 DEF RunSend
    <3>7. CASE UNCHANGED <<inflight, sends>>
      <4>1. BoxSpots(c)' = BoxSpots(c) /\ cutBox' = cutBox
        BY <1>1, <3>7 DEF BoxSpots, loop
      <4>. QED
        BY <1>2, <2>4, <3>6, <3>7, <4>1, NoticeKept
    <3>8. CASE sends' = [sends EXCEPT ![c] = @ + 1]
      <4>1. sends'[c] = 1
        BY <3>3, <3>8 DEF HistoryType
      <4>. QED
        BY <2>4, <3>4, <3>6, <4>1 DEF NoticeInv
    <3>. QED
      BY <3>5, <3>7, <3>8
  <2>7. CASE /\ ~(RunNotice /\ Head(agenda).call = c)
             /\ ~(RunSend /\ Head(agenda).call = c)
    <3>1. c \in notified' <=> c \in notified
      BY <2>7, NoticeSteps DEF RunNotice
    <3>2. sends'[c] = sends[c] /\ BoxSpots(c)' \subseteq BoxSpots(c)
      <4>1. CASE RunSend
        <5>1. Head(agenda).call # c
          BY <2>7, <4>1
        <5>. QED
          BY <4>1, <5>1 DEF RunSend, HistoryType, BoxSpots
      <4>2. CASE UNCHANGED sends /\ inflight' \subseteq inflight
        BY <4>2 DEF BoxSpots
      <4>. QED
        BY <4>1, <4>2, NoticeSteps
    <3>. QED
      BY <1>1, <1>2, <2>4, <3>1, <3>2, NoticeKept DEF loop
  <2>. QED
    BY <2>5, <2>6, <2>7
<1>4. CASE ~Run
  <2>1. UNCHANGED <<notified, sends>> /\ BoxSpots(c)' \subseteq BoxSpots(c)
    BY <1>4, NoticeSteps DEF Run, BoxSpots
  <2>2. ASSUME NEW d \in Calls, NEW s \in Servers, Invoke(d, s)
        PROVE  Before' \subseteq Before
    <3> DEFINE f == Frame("dispatch", d, s)
    <3>1. f \in Frames /\ f.op = "dispatch"
      BY FrameFields DEF Frame, Frames, Ops
    <3>2. agenda' = <<f>> \o agenda
      BY <2>2 DEF Invoke
    <3> HIDE DEF f
    <3>3. /\ agenda'[1] = f /\ Len(agenda') = Len(agenda) + 1 /\ Len(agenda) \in Nat
          /\ DOMAIN agenda = 1 .. Len(agenda) /\ DOMAIN agenda' = 1 .. Len(agenda')
          /\ \A i \in DOMAIN agenda' :
               i # 1 => i - 1 \in DOMAIN agenda /\ agenda'[i] = agenda[i - 1]
      BY <3>1, <3>2, Pushed, LenProperties DEF RunningType
    <3> SUFFICES ASSUME NEW p \in Before' PROVE p \in Before
      OBVIOUS
    <3>4. PICK i \in DOMAIN agenda' :
            /\ agenda'[i].op = "notice" /\ agenda'[i].call = c
            /\ p = <<"frame", Len(agenda') - i>>
      BY DEF FrameSpots
    <3>5. i # 1
      BY <3>1, <3>3, <3>4
    <3>6. /\ i - 1 \in DOMAIN agenda /\ agenda'[i] = agenda[i - 1]
          /\ Len(agenda') - i = Len(agenda) - (i - 1)
      BY <3>3, <3>5
    <3>. QED
      BY <3>4, <3>6 DEF FrameSpots
  <2>3. UNCHANGED agenda => Before' \subseteq Before
    BY DEF FrameSpots
  <2>4. Before' \subseteq Before
    BY <1>4, <2>2, <2>3, BusySteps DEF RemoveServer, running
  <2>5. NoticeSpots(c)' \subseteq NoticeSpots(c)
    BY <1>1, <2>4 DEF NoticeSpots, loop
  <2>. QED
    BY <1>1, <1>2, <2>1, <2>5, NoticeKept DEF loop
<1>. QED
  BY <1>3, <1>4

LEMMA NoticeStep ==
  ASSUME ConfigType, LinksType, WaitingType, RunningType, HistoryType,
         [Next]_vars, NEW c \in Calls, PlaceInv(c), NoticeInv(c)
  PROVE  NoticeInv(c)'
<1>1. CASE agenda # <<>>
  BY <1>1, NoticeBusy
<1>2. CASE agenda = <<>>
  <2>1. \A m \in DOMAIN boxes : boxes'[m].echo => boxes[m].echo
    BY BoxesGrow DEF Grown
  <2>2. UNCHANGED <<notified, sends>> /\ inflight' \subseteq inflight
    BY <1>2, NoticeSteps DEF RunNotice, RunSend, Running
  <2>3. BoxSpots(c)' \subseteq BoxSpots(c)
    BY <2>2 DEF BoxSpots
  <2>4. FrameSpots(c, {"notice"}) = {}
    BY <1>2, IdleSpots
  <2>5. RunCutCall \/ FrameSpots(c, {"notice"})' = {}
    BY <1>2, EventFrames DEF FrameSpots
  <2>6. CASE UNCHANGED loop
    <3>1. ~RunCutCall
      BY <2>6 DEF RunCutCall, loop
    <3>2. NoticeSpots(c)' \subseteq NoticeSpots(c)
      BY <2>5, <2>6, <3>1 DEF NoticeSpots, loop
    <3>. QED
      BY <2>1, <2>2, <2>3, <2>6, <3>2, NoticeKept DEF loop
  <2>7. ASSUME NEW m \in DOMAIN boxes, Disconnect(m)
        PROVE  NoticeInv(c)'
    <3>1. /\ cutBox = 0 /\ cutBox' = m /\ boxes[m].echo
          /\ UNCHANGED <<boxes, inflight, agenda>>
          /\ cut' = {d \in Calls : <<m, d>> \in inflight}
      BY <2>7 DEF Disconnect, Polls, Idle, Ends, links, waiting
    <3>2. NoticeSpots(c)' = {x \in {<<"cut">>} : c \in cut'}
      BY <2>4, <3>1 DEF NoticeSpots, FrameSpots
    <3>3. m \in Nat /\ m # 0
      BY LenProperties DEF LinksType
    <3>4. CASE <<m, c>> \in inflight
      <4>1. c \notin notified /\ NoticeSpots(c) = {}
        BY <3>1, <3>3, <3>4 DEF NoticeInv
      <4>2. <<"box", m>> \in BoxSpots(c) /\ <<"box", m>> \in Spots(c)
        BY <3>3, <3>4 DEF BoxSpots, Spots, LateSpots
      <4>3. sends[c] = 1
        BY <4>2 DEF NoticeInv
      <4>4. \A n \in Nat : <<n, c>> \in inflight => n = m
        <5>1. \A n \in Nat : <<n, c>> \in inflight => <<"box", n>> \in Spots(c)
          BY DEF BoxSpots, Spots, LateSpots
        <5>. QED
          BY <4>2, <5>1 DEF PlaceInv
      <4>. QED
        BY <2>2, <3>1, <3>2, <4>1, <4>3, <4>4 DEF NoticeInv
    <3>5. CASE <<m, c>> \notin inflight
      <4>1. NoticeSpots(c)' = {} /\ BoxSpots(c)' = BoxSpots(c)
        BY <3>1, <3>2, <3>5 DEF BoxSpots
      <4>2. \A n \in Nat : <<n, c>> \in inflight => n # 0
        BY DEF WaitingType
      <4>. QED
        BY <2>2, <3>1, <4>1, <4>2 DEF NoticeInv
    <3>. QED
      BY <3>4, <3>5
  <2>8. CASE RunCutCall
    <3>1. PICK d \in cut, frames \in Seq(Frames) :
            /\ agenda' = frames /\ cut' = cut \ {d} /\ Len(frames) = 2
            /\ frames[1].op = "error" /\ frames[2].op = "notice"
            /\ \A i \in 1 .. Len(frames) : frames[i].call = d
      BY <2>8, CutFrames
    <3>2. UNCHANGED <<boxes, inflight, cutBox>>
      BY <2>8 DEF RunCutCall, links, waiting
    <3>3. \A i \in 1 .. Len(frames) : frames[i].op = "notice" => i = 2
      BY <3>1
    <3>4. CASE d = c
      <4>1. <<"cut">> \in NoticeSpots(c)
        BY <3>1, <3>4 DEF NoticeSpots
      <4>2. FrameSpots(c, {"notice"})' \subseteq {<<"frame", Len(frames) - 2>>}
        BY <3>1, <3>3, FirstSpots
      <4>3. NoticeSpots(c)' \subseteq {<<"frame", Len(frames) - 2>>}
        BY <3>1, <3>4, <4>2 DEF NoticeSpots
      <4>4. \A p, q \in NoticeSpots(c)' : p = q
        BY <4>3
      <4>. QED
        BY <2>2, <3>2, <4>1, <4>4 DEF NoticeInv
    <3>5. CASE d # c
      <4>1. FrameSpots(c, {"notice"})' = {}
        BY <3>1, <3>5, FirstNone
      <4>2. NoticeSpots(c)' \subseteq NoticeSpots(c)
        BY <3>1, <4>1 DEF NoticeSpots
      <4>. QED
        BY <2>1, <2>2, <2>3, <3>2, <4>2, NoticeKept
    <3>. QED
      BY <3>4, <3>5
  <2>9. CASE RunCutEnd
    <3>1. cut = {} /\ cut' = {} /\ UNCHANGED <<agenda, inflight>>
      BY <2>9 DEF RunCutEnd, waiting
    <3>2. NoticeSpots(c) = {} /\ NoticeSpots(c)' = {}
      BY <2>4, <3>1 DEF NoticeSpots, FrameSpots
    <3>3. cutBox \in DOMAIN boxes /\ ~boxes'[cutBox].echo
      BY <2>9, CutEndEmits, EmitCloseStep
    <3>4. \A m \in Nat : <<m, c>> \in inflight => m \in DOMAIN boxes
      BY DEF WaitingType
    <3>5. c \in notified' =>
            \A m \in Nat : <<m, c>> \in inflight' => m = cutBox' \/ ~boxes'[m].echo
      BY <2>1, <2>2, <3>1, <3>3, <3>4 DEF NoticeInv
    <3>. QED
      BY <2>2, <2>3, <3>2, <3>5 DEF NoticeInv
  <2>. QED
    BY <2>6, <2>7, <2>8, <2>9, LoopSteps
<1>. QED
  BY <1>1, <1>2

-----------------------------------------------------------------------------
(* The theorems.                                                           *)

LEMMA PlacesInit == Init => PlacesInv
<1> SUFFICES ASSUME Init, NEW c \in Calls PROVE PlaceInv(c) /\ NoticeInv(c)
  BY DEF PlacesInv, CallInv
<1>1. /\ agenda = <<>> /\ pendings = [s \in Servers |-> <<>>]
      /\ filtering = {} /\ returning = {} /\ inflight = {}
      /\ sends[c] = 0 /\ answers[c] = <<>> /\ notified = {} /\ cut = {}
  BY DEF Init
<1>2. /\ FrameSpots(c, Early) = {} /\ FrameSpots(c, Late) = {}
      /\ FrameSpots(c, {"notice"}) = {}
  BY <1>1, IdleSpots
<1>3. QueueSpots(c) = {}
  BY <1>1 DEF QueueSpots, Queued
<1>4. FilterSpots(c) = {} /\ ReturnSpots(c) = {} /\ BoxSpots(c) = {}
  BY <1>1 DEF FilterSpots, ReturnSpots, BoxSpots
<1>5. Spots(c) = {} /\ EarlySpots(c) = {} /\ NoticeSpots(c) = {}
  BY <1>1, <1>2, <1>3, <1>4 DEF Spots, EarlySpots, LateSpots, NoticeSpots
<1>6. Len(answers[c]) = 0 /\ Notices(c) = 0
  BY <1>1 DEF Notices
<1>. QED
  BY <1>1, <1>4, <1>5, <1>6 DEF PlaceInv, NoticeInv

LEMMA PlacesStep == IInv /\ PlacesInv /\ [Next]_vars => PlacesInv'
<1> SUFFICES ASSUME IInv, PlacesInv, [Next]_vars, NEW c \in Calls
             PROVE  CallInv(c)' \/ Retried(c)'
  BY DEF PlacesInv
<1>1. ConfigType /\ LinksType /\ WaitingType /\ RunningType /\ HistoryType
  BY TypeParts DEF IInv
<1>2. CASE Retried(c)
  BY <1>1, <1>2, HistoryGrows DEF Retried
<1>3. CASE CallInv(c)
  BY <1>1, <1>3, PlaceStep, NoticeStep DEF CallInv
<1>. QED
  BY <1>2, <1>3 DEF PlacesInv

\* A call that failover has not dispatched again is in one place at most, among
\* the frames of the running event, the queues that no flush is about to delete,
\* the filters and the mailboxes.  The disconnect listener of its mailbox calls
\* it back at most once, and leaves it there; any other answer finds it in no
\* place afterwards.
THEOREM CallsAreInOnePlace == Spec => []PlacesInv
  BY PlacesInit, PlacesStep, InductiveInvariant, PTL DEF Spec

\* No call is handed to a mailbox twice, whatever the station queues, flushes
\* and looks up again (lines 209-262 and 412-437 of mailstation.js), but for a
\* call that failover has dispatched again.
THEOREM CallsSentOnce == Spec => []SentOnce
<1>1. PlacesInv => SentOnce
  BY DEF PlacesInv, CallInv, PlaceInv, SentOnce
<1>. QED
  BY <1>1, CallsAreInOnePlace, PTL

\* Without a tracer, or with failback, the callback of a call is called once at
\* most, and once more if its mailbox is cut off (lines 250-298 of
\* mailstation.js and lines 18-107 of failureProcess.js), but for a call that
\* failover has dispatched again.
THEOREM CallbacksCalledOnce == Spec => []OneAnswer
<1>1. PlacesInv => OneAnswer
  BY DEF PlacesInv, CallInv, PlaceInv, OneAnswer, Notices
<1>. QED
  BY <1>1, CallsAreInOnePlace, PTL

-----------------------------------------------------------------------------
(* No call is lost silently: the inductive invariant.                      *)

\* The error of its connect was called back.
Failed(m) == boxes[m].broken /\ options.reportsFailure

\* Connect is called back once: a mailbox that waits for it was not listened to
\* yet, and one that has failed is not open.
LinkInv ==
  \A m \in DOMAIN boxes :
    /\ boxes[m].connectDue => boxes[m].echo /\ ~boxes[m].listening /\ ~Failed(m)
    /\ Failed(m) => boxes[m].phase \in {"failed", "closed"}

\* The mailbox whose disconnect loop runs was connected, and emits 'close' after
\* the loop.
CutInv ==
  cutBox # 0 =>
    /\ boxes[cutBox].echo /\ boxes[cutBox].listening
    /\ boxes[cutBox].phase \in {"open", "closed"}

\* A mailbox that has neither failed nor emitted 'close' is the one of its
\* server, if the station has forgotten no mailbox of that server.
Live(m) == boxes[m].echo /\ ~Failed(m) => mailboxes[boxes[m].server] = m

LiveInv ==
  \A s \in Servers : \/ Forgetful(s)
                     \/ \A m \in DOMAIN boxes : boxes[m].server = s => Live(m)

Pending(s) ==
  \E i \in DOMAIN agenda : agenda[i].op = "pend" /\ agenda[i].server = s

\* While a queue is being flushed its server has a mailbox that is connected,
\* and no call is about to join the queue.
FlushOk(s) ==
  Flushing(s) => ~Pending(s) /\ mailboxes[s] # 0 /\ s \notin connecting

\* One queue is flushed at a time.
FlushInv ==
  /\ \A s, t \in Servers : Flushing(s) /\ Flushing(t) => s = t
  /\ \A s \in Servers : Forgetful(s) \/ FlushOk(s)

\* Call c is on the agenda for its own sake: not as the call whose dispatch has
\* created a mailbox that failed.
OnAgenda(c) ==
  \E i \in DOMAIN agenda : agenda[i].call = c /\ agenda[i].op # "connectError"

InQueueOf(c, s) == \E i \in DOMAIN pendings[s] : pendings[s][i] = c

InQueue(c)    == \E s \in Servers : ~Flushing(s) /\ InQueueOf(c, s)
WithFilter(c) == \E s \in Servers : <<c, s>> \in filtering \union returning
WithBox(c)    == \E m \in DOMAIN boxes : <<m, c>> \in inflight

\* Call c is somewhere that leads to an answer: the queue that is being flushed
\* does not, it will be deleted.
Alive(c) == OnAgenda(c) \/ InQueue(c) \/ WithFilter(c) \/ WithBox(c)

Settled(c) == answers[c] # <<>> \/ c \in reported \/ c \in overflowed

\* What is in a queue that is being flushed is also somewhere else, or settled.
FateInv ==
  \A s \in Servers, c \in Calls :
    Flushing(s) /\ InQueueOf(c, s) => Forgetful(s) \/ Settled(c) \/ Alive(c)

-----------------------------------------------------------------------------
(* The flags of a mailbox.                                                 *)

\* The flags change at the connect callback and at the 'close' event.
FlagsKept(n) ==
  /\ boxes'[n].connectDue = boxes[n].connectDue
  /\ boxes'[n].listening = boxes[n].listening
  /\ boxes'[n].echo = boxes[n].echo
  /\ boxes'[n].broken = boxes[n].broken

Connects(n) ==
  /\ ~boxes'[n].connectDue /\ boxes'[n].listening
  /\ boxes'[n].broken = boxes[n].broken

TimesOut(n) ==
  /\ boxes'[n].connectDue = boxes[n].connectDue
  /\ boxes'[n].listening = boxes[n].listening
  /\ boxes'[n].echo = boxes[n].echo
  /\ ~options.reportsFailure

Fails(n) ==
  /\ ~boxes'[n].connectDue /\ boxes'[n].listening = boxes[n].listening
  /\ boxes'[n].phase \in {"failed", "closed"}

Closes(n) ==
  /\ boxes'[n].connectDue = boxes[n].connectDue
  /\ boxes'[n].listening = boxes[n].listening
  /\ boxes'[n].broken = boxes[n].broken
  /\ Emitting(n)

LEMMA BoxesStay ==
  ASSUME LinksType, RunningType, [Next]_vars
  PROVE  DOMAIN boxes \subseteq DOMAIN boxes'
<1>1. Grown /\ LinksType'
  BY BoxesGrow, LinksStep
<1>2. /\ DOMAIN boxes = 1 .. Len(boxes) /\ DOMAIN boxes' = 1 .. Len(boxes')
      /\ Len(boxes) \in Nat /\ Len(boxes') \in Nat
  BY <1>1, LenProperties DEF LinksType
<1>. QED
  BY <1>1, <1>2 DEF Grown

LEMMA CloseBoxesFlags ==
  ASSUME LinksType, NEW closing, CloseBoxes(closing), NEW n \in DOMAIN boxes
  PROVE  FlagsKept(n)
<1>1. boxes[n] \in Box
  BY ElementOfSeq, LenProperties DEF LinksType
<1>2. boxes'[n] = IF n \in closing THEN [boxes[n] EXCEPT !.phase = "closed"]
                  ELSE boxes[n]
  BY DEF CloseBoxes
<1>. QED
  BY <1>1, <1>2 DEF FlagsKept, Box

LEMMA BoxEventFlags ==
  ASSUME LinksType, NEW m \in DOMAIN boxes, NEW n \in DOMAIN boxes,
         ConnectDone(m) \/ ConnectTimeout(m) \/ ConnectFail(m) \/ Emitting(m)
  PROVE  FlagsKept(n) \/ Connects(n) \/ TimesOut(n) \/ Fails(n) \/ Closes(n)
<1>1. boxes \in Seq(Box) /\ boxes[n] \in Box
  BY ElementOfSeq, LenProperties DEF LinksType
<1>2. CASE n # m /\ (ConnectDone(m) \/ ConnectTimeout(m) \/ ConnectFail(m))
  BY <1>1, <1>2 DEF ConnectDone, ConnectTimeout, ConnectFail, FlagsKept
<1>3. CASE n = m /\ ConnectDone(m)
  BY <1>1, <1>3 DEF ConnectDone, Connects, Box
<1>4. CASE n = m /\ ConnectTimeout(m)
  BY <1>1, <1>4 DEF ConnectTimeout, TimesOut, Box
<1>5. CASE n = m /\ ConnectFail(m)
  BY <1>1, <1>5 DEF ConnectFail, Fails, Box
<1>6. CASE Emitting(m)
  <2> DEFINE closing == {mailboxes[boxes[m].server]} \ {0}
  <2>1. boxes'[n] = [boxes[n] EXCEPT
                       !.phase = IF n \in closing THEN "closed" ELSE @,
                       !.echo = IF n = m THEN FALSE ELSE @]
    BY <1>6 DEF Emitting, EmitClose
  <2> HIDE DEF closing
  <2>2. /\ boxes'[n].connectDue = boxes[n].connectDue
        /\ boxes'[n].listening = boxes[n].listening
        /\ boxes'[n].broken = boxes[n].broken
        /\ n # m => boxes'[n].echo = boxes[n].echo
    BY <1>1, <2>1 DEF Box
  <2>. QED
    BY <1>6, <2>2 DEF FlagsKept, Closes
<1>. QED
  BY <1>2, <1>3, <1>4, <1>5, <1>6

LEMMA FlagSteps ==
  ASSUME LinksType, RunningType, [Next]_vars, NEW n \in DOMAIN boxes
  PROVE  FlagsKept(n) \/ Connects(n) \/ TimesOut(n) \/ Fails(n) \/ Closes(n)
<1>1. CASE Apart
  BY <1>1 DEF Apart, FlagsKept
<1>2. CASE Closing
  BY <1>2, CloseBoxesFlags DEF Closing, CloseAll
<1>3. CASE Dropping
  BY <1>3, CloseBoxesFlags DEF Dropping, DropBox
<1>4. CASE Creating
  BY <1>4, CreateBoxStep DEF Creating, FlagsKept
<1>. QED
  BY <1>1, <1>2, <1>3, <1>4, BoxSteps, BoxEventFlags DEF BoxEvent

\* A mailbox that a step adds.
LEMMA NewBoxes ==
  ASSUME LinksType, RunningType, [Next]_vars, NEW n \in DOMAIN boxes' \ DOMAIN boxes
  PROVE  /\ boxes'[n].echo /\ ~boxes'[n].listening /\ ~boxes'[n].broken
         /\ mailboxes'[boxes'[n].server] = n
<1>1. Creating
  BY MapSteps, ConnectFailStep DEF SameBoxes, Replacing
<1>2. PICK s \in Servers, c \in Calls : CreateBox(s, c)
  BY <1>1 DEF Creating
<1>3. /\ n = Len(boxes) + 1 /\ boxes'[n] = NewBox(s, c)
      /\ mailboxes' = [mailboxes EXCEPT ![s] = n]
  BY <1>1, <1>2, CreateBoxStep DEF Creating
<1>. QED
  BY <1>3 DEF NewBox, LinksType

LEMMA LinkStep ==
  ASSUME LinksType, RunningType, LinkInv, CutInv, [Next]_vars
  PROVE  LinkInv'
<1> SUFFICES ASSUME NEW n \in DOMAIN boxes'
             PROVE  /\ boxes'[n].connectDue =>
                         boxes'[n].echo /\ ~boxes'[n].listening /\ ~Failed(n)'
                    /\ Failed(n)' => boxes'[n].phase \in {"failed", "closed"}
  BY DEF LinkInv
<1>1. CASE n \notin DOMAIN boxes
  BY <1>1, NewBoxes DEF Failed
<1>2. CASE n \in DOMAIN boxes
  <2>1. /\ options' = options
        /\ boxes[n].phase = "closed" => boxes'[n].phase = "closed"
        /\ boxes[n].phase = "failed" => boxes'[n].phase \in {"failed", "closed"}
    BY <1>2, BoxesGrow DEF Grown
  <2>2. /\ boxes[n].connectDue => boxes[n].echo /\ ~boxes[n].listening /\ ~Failed(n)
        /\ Failed(n) => boxes[n].phase \in {"failed", "closed"}
    BY <1>2 DEF LinkInv
  <2>3. CASE FlagsKept(n) \/ Connects(n) \/ TimesOut(n) \/ Fails(n)
    BY <2>1, <2>2, <2>3 DEF FlagsKept, Connects, TimesOut, Fails, Failed
  <2>4. CASE Closes(n)
    <3>1. n # 0
      BY <1>2, LenProperties DEF LinksType
    <3>2. boxes[n].listening
      BY <2>4, <3>1 DEF Closes, Emitting, Ends, CutInv
    <3>. QED
      BY <2>1, <2>2, <2>4, <3>2 DEF Closes, Failed
  <2>. QED
    BY <1>2, <2>3, <2>4, FlagSteps
<1>. QED
  BY <1>1, <1>2

LEMMA CutStep ==
  ASSUME LinksType, RunningType, CutInv, [Next]_vars
  PROVE  CutInv'
<1> SUFFICES ASSUME cutBox' # 0
             PROVE  /\ boxes'[cutBox'].echo /\ boxes'[cutBox'].listening
                    /\ boxes'[cutBox'].phase \in {"open", "closed"}
  BY DEF CutInv
<1>1. CASE cutBox' = cutBox /\ ~\E m \in DOMAIN boxes : Disconnect(m)
  <2> DEFINE m == cutBox
  <2>1. m \in DOMAIN boxes
    BY <1>1, LenProperties DEF LinksType
  <2>2. boxes[m].echo /\ boxes[m].listening /\ boxes[m].phase \in {"open", "closed"}
    BY <1>1 DEF CutInv
  <2>3. /\ boxes[m].phase = "closed" => boxes'[m].phase = "closed"
        /\ boxes'[m].phase = "failed" => boxes[m].phase \in {"dialing", "failed"}
        /\ boxes'[m].phase = "dialing" => boxes[m].phase = "dialing"
    BY <2>1, BoxesGrow DEF Grown
  <2>4. boxes'[m] \in Box
    <3>1. LinksType' /\ DOMAIN boxes \subseteq DOMAIN boxes'
      BY LinksStep, BoxesStay
    <3>. QED
      BY <2>1, <3>1, ElementOfSeq, LenProperties DEF LinksType
  <2>5. boxes'[m].phase \in {"open", "closed"}
    BY <2>2, <2>3, <2>4 DEF Box, Phases
  <2>6. boxes'[m].echo
    BY <1>1, <2>1, <2>2, EchoKept DEF Emitting
  <2>7. boxes'[m].listening
    BY <2>1, <2>2, FlagSteps DEF FlagsKept, Connects, TimesOut, Fails, Closes
  <2>. QED
    BY <1>1, <2>5, <2>6, <2>7
<1>2. ASSUME NEW m \in DOMAIN boxes, Disconnect(m)
      PROVE  /\ boxes'[cutBox'].echo /\ boxes'[cutBox'].listening
             /\ boxes'[cutBox'].phase \in {"open", "closed"}
  BY <1>2 DEF Disconnect, Ends, links
<1>3. RunCutEnd => cutBox' = 0
  BY DEF RunCutEnd
<1>4. RunCutCall => cutBox' = cutBox
  BY DEF RunCutCall
<1>. QED
  BY <1>1, <1>2, <1>3, <1>4, LoopSteps DEF loop

-----------------------------------------------------------------------------
(* A station that has forgotten no mailbox.                                *)

LEMMA RemovedGrows ==
  ASSUME [Next]_vars
  PROVE  removed \subseteq removed'
<1>1. UNCHANGED history => UNCHANGED removed
  BY DEF history
<1>2. CASE Start \/ StartTick \/ GraceTimeout \/ \E force \in BOOLEAN : Stop(force)
  BY <1>1, <1>2 DEF Start, StartTick, GraceTimeout, Stop
<1>3. ASSUME NEW s \in Servers, AddServer(s) \/ RemoveServer(s)
      PROVE  removed \subseteq removed'
  BY <1>3 DEF AddServer, RemoveServer
<1>4. ASSUME NEW c \in Calls, NEW s \in Servers,
             Invoke(c, s) \/ FilterNext(c, s) \/ AfterNext(c, s)
      PROVE  UNCHANGED removed
  BY <1>1, <1>4 DEF Invoke, FilterNext, AfterNext
<1>5. ASSUME NEW m \in DOMAIN boxes, NEW c \in Calls, BoxAnswer(m, c)
      PROVE  UNCHANGED removed
  BY <1>1, <1>5 DEF BoxAnswer
<1>6. ASSUME NEW m \in DOMAIN boxes,
             \/ ConnectDone(m) \/ ConnectTimeout(m) \/ ConnectFail(m)
             \/ CloseEvent(m) \/ Disconnect(m)
      PROVE  UNCHANGED removed
  BY <1>1, <1>6 DEF ConnectDone, ConnectTimeout, ConnectFail, CloseEvent, Disconnect
<1>7. CASE Run
  <2>1. CASE RunDispatch \/ RunFlushed \/ RunCutCall \/ RunCutEnd
    BY <1>1, <2>1 DEF RunDispatch, RunFlushed, RunCutCall, RunCutEnd
  <2>2. CASE RunPend \/ RunSend \/ RunResult \/ RunFailure \/ RunNotice
    BY <2>2 DEF RunPend, RunSend, RunResult, RunFailure, RunNotice
  <2>3. CASE RunError \/ RunConnectError
    BY <2>3 DEF RunError, RunConnectError
  <2>. QED
    BY <1>7, <2>1, <2>2, <2>3 DEF Run
<1>8. CASE UNCHANGED vars
  BY <1>1, <1>8 DEF vars
<1>. QED
  BY <1>2, <1>3, <1>4, <1>5, <1>6, <1>7, <1>8 DEF Next

LEMMA ForgetfulStays ==
  ASSUME LinksType, RunningType, [Next]_vars, NEW s, Forgetful(s)
  PROVE  Forgetful(s)'
<1>1. Grown
  BY BoxesGrow
<1>2. DOMAIN boxes \subseteq DOMAIN boxes'
  BY BoxesStay
<1>3. \A m \in DOMAIN boxes : Orphaned(m) => Orphaned(m)'
  BY <1>1, OrphanedKept
<1>4. \A m \in DOMAIN boxes : boxes'[m].server = boxes[m].server
  BY <1>1 DEF Grown
<1>. QED
  BY <1>2, <1>3, <1>4, RemovedGrows DEF Forgetful

\* The map forgets the mailbox n of server s only in a step that n fails or ends
\* in, or that makes the station forgetful.
LEMMA LiveKept ==
  ASSUME LinksType, RunningType, MapInv, NoLeakedConnection, LinkInv, CutInv,
         [Next]_vars, NEW s \in Servers, NEW n \in DOMAIN boxes,
         mailboxes[s] = n, boxes[n].server = s, ~Forgetful(s)',
         \A m \in DOMAIN boxes : boxes[m].server = s => Live(m) /\ ~Orphaned(m),
         boxes'[n].echo, ~Failed(n)'
  PROVE  mailboxes'[s] = n
<1>1. Len(boxes) \in Nat /\ DOMAIN boxes = 1 .. Len(boxes)
  BY LenProperties DEF LinksType
<1>2. mailboxes \in [Servers -> 0 .. Len(boxes)]
  BY DEF LinksType
<1>3. \A m \in DOMAIN boxes : boxes[m].server \in Servers
  BY BoxServer DEF LinksType
<1>4. CASE Apart \/ Closing
  BY <1>4 DEF Apart, Closing
<1>5. CASE Dropping
  <2>1. PICK t \in removed' : t \in Servers /\ DropBox(t)
    BY <1>5 DEF Dropping
  <2>2. t # s
    BY <2>1 DEF Forgetful
  <2>. QED
    BY <1>2, <2>1, <2>2 DEF DropBox
<1>6. CASE Creating
  <2>1. PICK t \in Servers, c \in Calls : mailboxes[t] = 0 /\ CreateBox(t, c)
    BY <1>6 DEF Creating
  <2>2. t # s
    BY <1>1, <2>1
  <2>. QED
    BY <1>2, <2>1, <2>2 DEF CreateBox
\* Another mailbox m of the same server that has failed and is closed.
<1>7. ASSUME NEW m \in DOMAIN boxes, boxes[m].server = s, m # n,
             boxes'[m].broken, boxes'[m].phase = "closed", options'.reportsFailure
      PROVE  FALSE
  <2>1. m <= n
    BY <1>1, <1>7 DEF MapInv
  <2>2. m \in 1 .. n - 1
    BY <1>1, <1>7, <2>1
  <2>3. /\ boxes'[m].server = s /\ boxes'[n].server = s
        /\ n \in DOMAIN boxes'
    BY <1>7, BoxesGrow, BoxesStay DEF Grown
  <2>4. Orphaned(n)'
    BY <1>7, <2>2, <2>3 DEF Orphaned
  <2>. QED
    BY <2>3, <2>4 DEF Forgetful
<1>8. ASSUME NEW m \in DOMAIN boxes, ConnectDone(m) \/ ConnectTimeout(m)
      PROVE  mailboxes'[s] = n
  BY <1>8, ConnectDoneStep, ConnectTimeoutStep
<1>9. ASSUME NEW m \in DOMAIN boxes, ConnectFail(m)
      PROVE  mailboxes'[s] = n
  <2>1. /\ mailboxes' = [mailboxes EXCEPT ![boxes[m].server] = 0]
        /\ options.reportsFailure /\ options' = options
        /\ boxes[m].phase \in {"dialing", "closed"}
        /\ boxes'[m].broken
        /\ boxes'[m].phase = IF boxes[m].phase = "dialing" THEN "failed"
                             ELSE boxes[m].phase
    BY <1>9, ConnectFailStep DEF SameBoxes, Grown
  <2>2. m # n
    BY <2>1 DEF Failed
  <2>3. boxes[m].server # s
    <3> SUFFICES ASSUME boxes[m].server = s PROVE FALSE
      OBVIOUS
    <3>1. CASE boxes[m].phase = "dialing"
      BY <2>2, <3>1 DEF NoLeakedConnection
    <3>2. CASE boxes[m].phase = "closed"
      BY <1>7, <2>1, <2>2, <3>2
    <3>. QED
      BY <2>1, <3>1, <3>2
  <2>. QED
    BY <1>2, <1>3, <2>1, <2>3
<1>10. ASSUME NEW m \in DOMAIN boxes, Emitting(m)
       PROVE  mailboxes'[s] = n
  <2>1. /\ mailboxes' = [mailboxes EXCEPT ![boxes[m].server] = 0]
        /\ ~boxes'[m].echo /\ boxes'[m].broken = boxes[m].broken
        /\ boxes[m].phase = "closed" => boxes'[m].phase = "closed"
        /\ options' = options
    BY <1>10, EmitCloseStep DEF SameBoxes, Grown
  <2>2. boxes[m].echo /\ boxes[m].phase \in {"open", "closed"}
    BY <1>1, <1>10 DEF Emitting, Ends, CutInv
  <2>3. m # n
    BY <2>1
  <2>4. boxes[m].server # s
    <3> SUFFICES ASSUME boxes[m].server = s PROVE FALSE
      OBVIOUS
    <3>1. Failed(m)
      BY <2>2, <2>3 DEF Live
    <3>2. boxes[m].phase = "closed"
      BY <2>2, <3>1 DEF LinkInv
    <3>. QED
      BY <1>7, <2>1, <2>3, <3>1, <3>2 DEF Failed
  <2>. QED
    BY <1>2, <1>3, <2>1, <2>4
<1>. QED
  BY <1>4, <1>5, <1>6, <1>8, <1>9, <1>10, BoxSteps DEF BoxEvent

LEMMA LiveStep ==
  ASSUME LinksType, RunningType, MapInv, NoLeakedConnection, LinkInv, CutInv,
         LiveInv, [Next]_vars
  PROVE  LiveInv'
<1> SUFFICES ASSUME NEW s \in Servers, ~Forgetful(s)',
                    NEW n \in DOMAIN boxes', boxes'[n].server = s,
                    boxes'[n].echo, ~Failed(n)'
             PROVE  mailboxes'[s] = n
  BY DEF LiveInv, Live
<1>1. CASE n \notin DOMAIN boxes
  BY <1>1, NewBoxes
<1>2. CASE n \in DOMAIN boxes
  <2>1. ~Forgetful(s)
    BY ForgetfulStays
  <2>2. \A m \in DOMAIN boxes : boxes[m].server = s => Live(m) /\ ~Orphaned(m)
    BY <2>1 DEF LiveInv, Forgetful
  <2>3. boxes[n].server = s /\ boxes[n].echo /\ ~Failed(n)
    BY <1>2, BoxesGrow DEF Grown, Failed
  <2>4. mailboxes[s] = n
    BY <1>2, <2>2, <2>3 DEF Live
  <2>. QED
    BY <1>2, <2>2, <2>3, <2>4, LiveKept
<1>. QED
  BY <1>1, <1>2

-----------------------------------------------------------------------------
(* A queue that is being flushed.                                          *)

\* What the agenda holds after a step of the running event.
LEMMA OldFrames ==
  ASSUME RunningType, NEW op \in Ops, Running(op),
         NEW frames \in Seq(Frames), Continue(frames)
  PROVE  /\ \A j \in DOMAIN agenda' :
              \/ j \in 1 .. Len(frames) /\ agenda'[j] = frames[j]
              \/ \E i \in DOMAIN agenda : agenda'[j] = agenda[i]
         /\ \A i \in 1 .. Len(frames) :
              i \in DOMAIN agenda' /\ agenda'[i] = frames[i]
         /\ \A i \in DOMAIN agenda :
              i # 1 => \E j \in DOMAIN agenda' : agenda'[j] = agenda[i]
<1>1. agenda \in Seq(Frames) /\ agenda # <<>>
  BY DEF Running, RunningType
<1>2. /\ Len(agenda) \in Nat /\ Len(frames) \in Nat /\ Len(agenda) >= 1
      /\ agenda' \in Seq(Frames)
      /\ Len(agenda') = Len(frames) + Len(agenda) - 1
      /\ \A i \in 1 .. Len(frames) : agenda'[i] = frames[i]
      /\ \A i \in 2 .. Len(agenda) : agenda'[i + Len(frames) - 1] = agenda[i]
  BY <1>1, ContinueFrames, LenProperties, EmptySeq
<1>3. DOMAIN agenda = 1 .. Len(agenda) /\ DOMAIN agenda' = 1 .. Len(agenda')
  BY <1>1, <1>2, LenProperties
<1>4. ASSUME NEW j \in DOMAIN agenda', j \notin 1 .. Len(frames)
      PROVE  \E i \in DOMAIN agenda : agenda'[j] = agenda[i]
  <2> DEFINE i == j - Len(frames) + 1
  <2>1. i \in 2 .. Len(agenda) /\ i \in DOMAIN agenda /\ i + Len(frames) - 1 = j
    BY <1>2, <1>3, <1>4
  <2>2. agenda'[i + Len(frames) - 1] = agenda[i]
    BY <1>2, <2>1
  <2>. QED
    BY <2>1, <2>2
<1>5. ASSUME NEW i \in DOMAIN agenda, i # 1
      PROVE  \E j \in DOMAIN agenda' : agenda'[j] = agenda[i]
  <2>1. i \in 2 .. Len(agenda) /\ i + Len(frames) - 1 \in DOMAIN agenda'
    BY <1>2, <1>3, <1>5
  <2>. QED
    BY <1>2, <2>1
<1>6. 1 .. Len(frames) \subseteq DOMAIN agenda'
  BY <1>2, <1>3
<1>. QED
  BY <1>2, <1>4, <1>5, <1>6

LEMMA FramesBack ==
  ASSUME RunningType, NEW op \in Ops, Running(op),
         NEW frames \in Seq(Frames), Continue(frames), NEW s,
         \A i \in 1 .. Len(frames) : frames[i].op # "flushed"
  PROVE  /\ Flushing(s)' => Flushing(s)
         /\ (\A i \in 1 .. Len(frames) : frames[i].op = "pend" => frames[i].server # s)
              => (Pending(s)' => Pending(s))
BY OldFrames DEF Flushing, Pending

LEMMA EndsBack ==
  ASSUME RunningType, NEW op \in Ops, Running(op), Continue(<<>>), NEW s
  PROVE  (Flushing(s)' => Flushing(s)) /\ (Pending(s)' => Pending(s))
<1>1. PICK frames \in Seq(Frames) : frames = <<>> /\ 1 .. Len(frames) = {}
  BY NoFrames
<1>. QED
  BY <1>1, FramesBack

LEMMA FlushKept ==
  ASSUME NEW s, FlushOk(s), Flushing(s)' => Flushing(s), Pending(s)' => Pending(s),
         UNCHANGED <<mailboxes, connecting>>
  PROVE  FlushOk(s)'
BY DEF FlushOk

LEMMA FlushRun ==
  ASSUME ConfigType, LinksType, RunningType, Run, agenda # <<>>,
         NEW s \in Servers, FlushOk(s)
  PROVE  FlushOk(s)'
<1>2. CASE UNCHANGED <<agenda, links>>
  BY <1>2, FlushKept DEF links, Flushing, Pending
<1>3. UNCHANGED links \/ (RunDispatch /\ Creating)
  <2>1. RunDispatch \/ UNCHANGED links
    BY DEF Run, RunFlushed, RunPend, RunSend, RunResult, RunFailure, RunNotice,
           RunError, RunConnectError, RunCutCall, RunCutEnd
  <2>2. RunDispatch => UNCHANGED links \/ Creating
    <3> SUFFICES ASSUME RunDispatch PROVE UNCHANGED links \/ Creating
      OBVIOUS
    <3>1. /\ Head(agenda).server \in Servers /\ Head(agenda).call \in Calls
          /\ Dispatch(Head(agenda).call, Head(agenda).server)
          /\ UNCHANGED config
      BY RunningFrame DEF RunDispatch, RunningType, Ops
    <3>. QED
      BY <3>1 DEF Dispatch, Creating, config
  <2>. QED
    BY <2>1, <2>2
<1>4. ASSUME NEW op \in Ops, NEW frames \in Seq(Frames), Replaced(op, frames)
      PROVE  FlushOk(s)'
  <2>1. Flushing(s)' => Flushing(s)
    BY <1>4, FramesBack DEF Replaced
  <2> SUFFICES ASSUME Flushing(s) PROVE FlushOk(s)'
    BY <2>1 DEF FlushOk
  <2>2. ~Pending(s) /\ mailboxes[s] # 0 /\ s \notin connecting
    BY DEF FlushOk
  <2>3. ~Pending(s)'
    BY <1>4, <2>2, FramesBack DEF Replaced
  <2>4. mailboxes'[s] # 0 /\ s \notin connecting'
    <3>1. CASE UNCHANGED links
      BY <2>2, <3>1 DEF links
    <3>2. CASE Creating
      <4>1. PICK t \in Servers, c \in Calls : mailboxes[t] = 0 /\ CreateBox(t, c)
        BY <3>2 DEF Creating
      <4>. QED
        BY <2>2, <4>1 DEF CreateBox, LinksType
    <3>. QED
      BY <1>3, <3>1, <3>2
  <2>. QED
    BY <2>3, <2>4 DEF FlushOk
<1>. QED
  BY <1>2, <1>4, RunFrames

\* A connect callback flushes the queue of a server that has a mailbox.
LEMMA FlushConnectDone ==
  ASSUME LinksType, WaitingType, LinkInv, LiveInv,
         NEW m \in DOMAIN boxes, ConnectDone(m), NEW s \in Servers, Flushing(s)'
  PROVE  /\ s = boxes[m].server
         /\ Forgetful(s) \/ FlushOk(s)'
<1>1. PICK t \in Servers : t = boxes[m].server
  BY BoxServer DEF LinksType
<1>2. /\ agenda = <<>> /\ agenda' = FlushPending(t)
      /\ UNCHANGED mailboxes /\ connecting' = connecting \ {t}
      /\ boxes[m].connectDue
  BY <1>1 DEF ConnectDone, Polls, Idle
<1>3. CASE pendings[t] = <<>>
  BY <1>2, <1>3 DEF FlushPending, Flushing
<1>4. CASE pendings[t] # <<>>
  <2>1. /\ FlushPending(t) \in Seq(Frames) /\ Len(pendings[t]) \in Nat
        /\ \A i \in 1 .. Len(FlushPending(t)) :
             \/ FlushPending(t)[i].op = "dispatch"
             \/ FlushPending(t)[i].op = "flushed" /\ FlushPending(t)[i].server = t
    <3>1. Len(pendings[t]) \in Nat
      BY LenProperties DEF WaitingType
    <3>. QED
      BY <1>4, <3>1, FlushFrames, FrameFields
  <2>2. PICK frames \in Seq(Frames) :
          /\ agenda' = frames
          /\ \A i \in 1 .. Len(frames) :
               \/ frames[i].op = "dispatch"
               \/ frames[i].op = "flushed" /\ frames[i].server = t
    BY <1>2, <2>1
  <2>3. ~Pending(s)'
    BY <2>2, LenProperties DEF Pending
  <2>4. s = t
    BY <2>2, FirstFlushing
  <2>5. Forgetful(t) \/ mailboxes[t] # 0
    <3>1. boxes[m].echo /\ ~Failed(m) /\ m # 0
      BY <1>2, LenProperties DEF LinkInv, LinksType
    <3>. QED
      BY <1>1, <1>2, <3>1 DEF LiveInv, Live
  <2>. QED
    BY <1>1, <1>2, <2>3, <2>4, <2>5 DEF FlushOk
<1>. QED
  BY <1>3, <1>4

\* An event that flushes no queue.
LEMMA FlushesNone ==
  ASSUME NEW frames \in Seq(Frames), agenda' = frames,
         \A i \in 1 .. Len(frames) : frames[i].op # "flushed", NEW s
  PROVE  ~Flushing(s)'
BY FirstFlushing

\* The queue of a server is flushed by a connect callback.
LEMMA FlushBegins ==
  ASSUME LinksType, WaitingType, RunningType, agenda = <<>>, [Next]_vars,
         NEW s, Flushing(s)'
  PROVE  \E m \in DOMAIN boxes : ConnectDone(m)
BY EventFrames DEF Flushing

\* A queue that is being flushed in a step of the running event, or of the user.
LEMMA FlushGoesOn ==
  ASSUME ConfigType, LinksType, RunningType, agenda # <<>>, [Next]_vars,
         NEW s \in Servers
  PROVE  /\ Flushing(s)' => Flushing(s)
         /\ FlushOk(s) => Forgetful(s)' \/ FlushOk(s)'
<1>2. CASE Run
  <2>1. Flushing(s)' => Flushing(s)
    BY <1>2, RunFrames, FramesBack DEF Replaced, Flushing
  <2>. QED
    BY <1>2, <2>1, FlushRun
<1>3. ASSUME NEW c \in Calls, NEW t \in Servers, Invoke(c, t)
      PROVE  (Flushing(s)' => Flushing(s)) /\ (FlushOk(s) => FlushOk(s)')
  <2> DEFINE f == Frame("dispatch", c, t)
  <2>1. f \in Frames /\ f.op = "dispatch"
    BY FrameFields DEF Frame, Frames, Ops
  <2>2. agenda' = <<f>> \o agenda /\ UNCHANGED <<mailboxes, connecting>>
    BY <1>3 DEF Invoke, links
  <2> HIDE DEF f
  <2>3. (Flushing(s)' => Flushing(s)) /\ (Pending(s)' => Pending(s))
    BY SMTT(20), <2>1, <2>2, Pushed DEF RunningType, Pending
  <2>. QED
    BY <2>2, <2>3, FlushKept
<1>4. ASSUME NEW t \in Servers, RemoveServer(t)
      PROVE  /\ Flushing(s)' => Flushing(s)
             /\ FlushOk(s) => Forgetful(s)' \/ FlushOk(s)'
  <2>1. UNCHANGED <<agenda, connecting>>
    BY <1>4 DEF RemoveServer, running
  <2>2. CASE t = s
    BY <1>4, <2>1, <2>2 DEF RemoveServer, Forgetful, Flushing
  <2>3. CASE t # s
    <3>1. mailboxes'[s] = mailboxes[s]
      BY <1>4, <2>3 DEF RemoveServer, DropBox, LinksType
    <3>. QED
      BY <2>1, <3>1 DEF FlushOk, Flushing, Pending
  <2>. QED
    BY <2>2, <2>3
<1>5. CASE UNCHANGED <<agenda, mailboxes, connecting>>
  BY <1>5, FlushKept DEF Flushing, Pending
<1>. QED
  BY <1>2, <1>3, <1>4, <1>5, BusySteps

LEMMA FlushStep ==
  ASSUME ConfigType, LinksType, WaitingType, RunningType,
         LinkInv, LiveInv, FlushInv, [Next]_vars
  PROVE  FlushInv'
<1>1. \A s \in Servers : Forgetful(s) => Forgetful(s)'
  BY ForgetfulStays
<1>2. CASE agenda = <<>>
  <2>1. ASSUME NEW s \in Servers, Flushing(s)'
        PROVE  \E m \in DOMAIN boxes : ConnectDone(m)
    BY <1>2, <2>1, FlushBegins
  <2>2. ASSUME NEW m \in DOMAIN boxes, ConnectDone(m), NEW s \in Servers, Flushing(s)'
        PROVE  s = boxes[m].server /\ (Forgetful(s)' \/ FlushOk(s)')
    BY <1>1, <2>2, FlushConnectDone
  <2>. QED
    BY <2>1, <2>2 DEF FlushInv, FlushOk
<1>3. CASE agenda # <<>>
  BY <1>1, <1>3, FlushGoesOn DEF FlushInv
<1>. QED
  BY <1>2, <1>3

-----------------------------------------------------------------------------
(* The fate of a call.                                                     *)

LEMMA SettledStays ==
  ASSUME ConfigType, LinksType, RunningType, HistoryType, [Next]_vars,
         NEW c \in Calls, Settled(c)
  PROVE  Settled(c)'
<1> DEFINE Told(d, word) == answers' = [answers EXCEPT ![d] = Append(@, word)]
<1>1. /\ \/ answers' = answers
         \/ \E d \in Calls, word \in {"ok", "error"} : Told(d, word)
      /\ overflowed \subseteq overflowed'
  <2>1. UNCHANGED history => UNCHANGED <<answers, overflowed>>
    BY DEF history
  <2>2. CASE Start \/ StartTick \/ GraceTimeout \/ \E force \in BOOLEAN : Stop(force)
    BY <2>1, <2>2 DEF Start, StartTick, GraceTimeout, Stop
  <2>3. ASSUME NEW s \in Servers, AddServer(s) \/ RemoveServer(s)
        PROVE  UNCHANGED <<answers, overflowed>>
    BY <2>3 DEF AddServer, RemoveServer
  <2>4. ASSUME NEW d \in Calls, NEW s \in Servers,
               Invoke(d, s) \/ FilterNext(d, s) \/ AfterNext(d, s)
        PROVE  UNCHANGED <<answers, overflowed>>
    BY <2>1, <2>4 DEF Invoke, FilterNext, AfterNext
  <2>5. ASSUME NEW m \in DOMAIN boxes, NEW d \in Calls, BoxAnswer(m, d)
        PROVE  UNCHANGED <<answers, overflowed>>
    BY <2>1, <2>5 DEF BoxAnswer
  <2>6. ASSUME NEW m \in DOMAIN boxes,
               \/ ConnectDone(m) \/ ConnectTimeout(m) \/ ConnectFail(m)
               \/ CloseEvent(m) \/ Disconnect(m)
        PROVE  UNCHANGED <<answers, overflowed>>
    BY <2>1, <2>6 DEF ConnectDone, ConnectTimeout, ConnectFail, CloseEvent, Disconnect
  <2>7. CASE RunDispatch \/ RunFlushed \/ RunPend \/ RunSend \/ RunCutCall \/ RunCutEnd
    BY <2>1, <2>7 DEF RunDispatch, RunFlushed, RunPend, RunSend, RunCutCall, RunCutEnd
  <2>8. CASE RunResult \/ RunFailure \/ RunNotice \/ RunError \/ RunConnectError
    <3>1. Head(agenda).call \in Calls
      BY <2>8, RunningFrame
         DEF RunResult, RunFailure, RunNotice, RunError, RunConnectError, RunningType, Ops
    <3>2. CASE RunResult \/ RunFailure \/ RunNotice
      BY <3>1, <3>2 DEF RunResult, RunFailure, RunNotice, CallBack
    <3>3. options.failMode \in {"failfast", "failover", "failback"}
      BY OptionsAssumption DEF ConfigType
    <3>4. CASE RunError \/ RunConnectError
      BY <3>1, <3>3, <3>4 DEF RunError, RunConnectError, FailFast, FailOver, FailBack, Crash
    <3>. QED
      BY <2>8, <3>2, <3>4
  <2>9. CASE UNCHANGED vars
    BY <2>1, <2>9 DEF vars
  <2>. QED
    BY <2>2, <2>3, <2>4, <2>5, <2>6, <2>7, <2>8, <2>9 DEF Next, Run
<1>2. answers[c] # <<>> => answers'[c] # <<>>
  <2>1. ASSUME NEW d \in Calls, NEW word,
               Told(d, word), answers[c] # <<>>
        PROVE  answers'[c] # <<>>
    <3>1. answers[c] \in Seq({"ok", "error"})
      BY DEF HistoryType
    <3>2. Append(answers[c], word) # <<>>
      BY <3>1
    <3>. QED
      BY <2>1, <3>2 DEF HistoryType
  <2>. QED
    BY <1>1, <2>1
<1>3. reported \subseteq reported'
  BY HistoryGrows
<1>. QED
  BY <1>1, <1>2, <1>3 DEF Settled

\* One of the frames that replace the running one, or that an event starts with,
\* is about call c.
LEMMA GoesOn ==
  ASSUME RunningType, NEW op \in Ops, Running(op),
         NEW frames \in Seq(Frames), Continue(frames), NEW c,
         Len(frames) > 0,
         \A i \in 1 .. Len(frames) : frames[i].call = c /\ frames[i].op # "connectError"
  PROVE  OnAgenda(c)'
<1>1. 1 \in 1 .. Len(frames)
  BY LenProperties
<1>. QED
  BY <1>1, OldFrames DEF OnAgenda

LEMMA Begins ==
  ASSUME NEW frames \in Seq(Frames), agenda' = frames, NEW c, Len(frames) > 0,
         \A i \in 1 .. Len(frames) : frames[i].call = c /\ frames[i].op # "connectError"
  PROVE  OnAgenda(c)'
<1>1. 1 \in 1 .. Len(frames) /\ 1 \in DOMAIN agenda'
  BY LenProperties
<1>. QED
  BY <1>1 DEF OnAgenda

\* Call c joins a queue that is being flushed.
Joins(c) ==
  \E s \in Servers : Flushing(s) /\ Pending(s) /\ InQueueOf(c, s)'

\* The call of the running frame.
LEMMA FateOwn ==
  ASSUME ConfigType, LinksType, WaitingType, RunningType, HistoryType, Run,
         agenda # <<>>, Head(agenda).op # "flushed",
         NEW c \in Calls, NEW s \in Servers,
         Head(agenda).call = c, Head(agenda).server = s
  PROVE  Settled(c)' \/ Alive(c)' \/ Joins(c)
<1>1. PICK op \in Ops : Running(op) /\ op # "flushed"
  BY DEF Run, RunDispatch, RunFlushed, RunPend, RunSend, RunResult, RunFailure,
         RunNotice, RunError, RunConnectError, RunCutCall, RunCutEnd, Running, Ops
<1> DEFINE Goal == Settled(c)' \/ Alive(c)' \/ Joins(c)
<1>3. ASSUME NEW op2 \in {"error", "send", "pend"}, Continue(<<Frame(op2, c, s)>>)
      PROVE  Goal
  <2>1. op2 \in Ops \ {"flushed"}
    BY DEF Ops
  <2>2. PICK frames \in Seq(Frames) :
          /\ frames = <<Frame(op2, c, s)>> /\ Len(frames) = 1
          /\ \A i \in 1 .. Len(frames) : frames[i].op = op2 /\ frames[i].call = c
    BY <2>1, AFrame
  <2>3. Continue(frames) /\ Len(frames) > 0
    BY <1>3, <2>2
  <2>. QED
    BY <1>1, <2>2, <2>3, GoesOn DEF Alive
<1>4. ASSUME NEW op2 \in {"pend", "failure"},
             Continue(<<Frame("error", c, s), Frame(op2, c, s)>>)
      PROVE  Goal
  <2>1. op2 \in Ops \ {"flushed"}
    BY DEF Ops
  <2>2. PICK frames \in Seq(Frames) :
          /\ frames = <<Frame("error", c, s), Frame(op2, c, s)>> /\ Len(frames) = 2
          /\ \A i \in 1 .. Len(frames) : /\ frames[i].op \in {"error", op2}
                                        /\ frames[i].call = c
    BY <2>1, AnErrorFirst
  <2>3. Continue(frames) /\ Len(frames) > 0
    BY <1>4, <2>2
  <2>. QED
    BY <1>1, <2>2, <2>3, GoesOn DEF Alive
<1>5. CASE RunDispatch
  <2>1. Dispatch(c, s)
    BY <1>5 DEF RunDispatch
  <2>2. <<c, s>> \in filtering' => Goal
    BY DEF Alive, WithFilter
  <2>. QED
    BY <1>3, <1>4, <2>1, <2>2 DEF Dispatch
<1>6. CASE RunPend
  <2>1. Running("pend") /\ Continue(<<>>) /\ "pend" \in Ops
    BY <1>6 DEF RunPend, Ops
  <2>2. Pending(s)
    <3>1. 1 \in DOMAIN agenda /\ agenda[1].op = "pend" /\ agenda[1].server = s
      BY <2>1, LenProperties, EmptySeq DEF Running, RunningType
    <3>. QED
      BY <3>1 DEF Pending
  <2>3. Flushing(s)' => Flushing(s)
    BY <2>1, EndsBack
  <2>4. \/ overflowed' = overflowed \union {c}
        \/ pendings' = [pendings EXCEPT ![s] = Append(@, c)]
    BY <1>6 DEF RunPend
  <2>5. CASE pendings' = [pendings EXCEPT ![s] = Append(@, c)]
    <3>1. pendings[s] \in Seq(Calls) /\ pendings'[s] = Append(pendings[s], c)
      BY <2>5 DEF WaitingType
    <3>2. /\ Len(pendings[s]) + 1 \in DOMAIN pendings'[s]
          /\ pendings'[s][Len(pendings[s]) + 1] = c
      BY <3>1, AppendProperties, LenProperties
    <3>. QED
      BY <2>2, <2>3, <3>2 DEF Alive, InQueue, InQueueOf, Joins
  <2>. QED
    BY <2>4, <2>5 DEF Settled
<1>7. CASE RunSend
  <2>1. \/ Continue(<<Frame("error", c, s)>>)
        \/ Continue(<<Frame("error", c, s), Frame("failure", c, s)>>)
        \/ /\ mailboxes[s] # 0 /\ boxes' = boxes
           /\ <<mailboxes[s], c>> \in inflight'
    BY <1>7 DEF RunSend, links
  <2>2. CASE /\ mailboxes[s] # 0 /\ boxes' = boxes
             /\ <<mailboxes[s], c>> \in inflight'
    <3>1. mailboxes[s] \in DOMAIN boxes
      BY <2>2, LenProperties DEF LinksType
    <3>. QED
      BY <2>2, <3>1 DEF Alive, WithBox
  <2>. QED
    BY <1>3, <1>4, <2>1, <2>2
<1>8. CASE RunResult \/ RunFailure \/ RunNotice
  <2>1. PICK word \in {"ok", "error"} :
          \/ answers' = [answers EXCEPT ![c] = Append(@, word)]
          \/ c \in reported'
    BY <1>8 DEF RunResult, RunFailure, RunNotice, CallBack, Retried
  <2>2. CASE answers' = [answers EXCEPT ![c] = Append(@, word)]
    <3>1. /\ answers[c] \in Seq({"ok", "error"})
          /\ answers'[c] = Append(answers[c], word)
      BY <2>2 DEF HistoryType
    <3>2. answers'[c] # <<>>
      BY <3>1
    <3>. QED
      BY <3>2 DEF Settled
  <2>. QED
    BY <2>1, <2>2 DEF Settled
<1>9. CASE RunError \/ RunConnectError
  BY <1>9 DEF RunError, RunConnectError, Settled
<1>10. ~RunFlushed /\ ~RunCutCall /\ ~RunCutEnd
  BY DEF RunFlushed, Running, RunCutCall, RunCutEnd
<1>. QED
  BY <1>5, <1>6, <1>7, <1>8, <1>9, <1>10 DEF Run

\* A call that is in a queue which is not being flushed.
LEMMA QueuesKept ==
  ASSUME WaitingType, RunningType, Run, NEW s \in Servers, ~Flushing(s),
         NEW i \in DOMAIN pendings[s]
  PROVE  i \in DOMAIN pendings'[s] /\ pendings'[s][i] = pendings[s][i]
<1>1. pendings[s] \in Seq(Calls)
  BY DEF WaitingType
<1>2. CASE RunPend
  <2> DEFINE c == Head(agenda).call
             t == Head(agenda).server
  <2>1. c \in Calls /\ t \in Servers
    BY <1>2, RunningFrame DEF RunPend, RunningType, Ops
  <2>2. pendings' = pendings \/ pendings' = [pendings EXCEPT ![t] = Append(@, c)]
    BY <1>2 DEF RunPend
  <2> HIDE DEF c, t
  <2>3. pendings'[s] = pendings[s] \/ pendings'[s] = Append(pendings[s], c)
    BY <2>1, <2>2 DEF WaitingType
  <2>4. /\ i \in DOMAIN Append(pendings[s], c)
        /\ Append(pendings[s], c)[i] = pendings[s][i]
    BY <1>1, <2>1, AppendProperties, LenProperties
  <2>. QED
    BY <2>3, <2>4
<1>3. CASE RunFlushed
  <2>1. /\ Running("flushed") /\ "flushed" \in Ops
        /\ pendings' = [pendings EXCEPT ![Head(agenda).server] = <<>>]
    BY <1>3 DEF RunFlushed, Ops
  <2>2. 1 \in DOMAIN agenda /\ agenda[1].op = "flushed" /\ Head(agenda) = agenda[1]
    BY <2>1, LenProperties, EmptySeq DEF Running, RunningType
  <2>3. Head(agenda).server # s
    BY <2>2 DEF Flushing
  <2>. QED
    BY <2>1, <2>3 DEF WaitingType
<1>4. CASE UNCHANGED pendings
  BY <1>4
<1>. QED
  BY <1>2, <1>3, <1>4
     DEF Run, RunDispatch, RunSend, RunResult, RunFailure, RunNotice, RunError,
         RunConnectError, RunCutCall, RunCutEnd, waiting

LEMMA FateRun ==
  ASSUME ConfigType, LinksType, WaitingType, RunningType, HistoryType, Run,
         agenda # <<>>, NEW c \in Calls, Alive(c)
  PROVE  Settled(c)' \/ Alive(c)' \/ Joins(c)
<1>1. DOMAIN boxes \subseteq DOMAIN boxes'
  BY BoxesStay DEF Next
<1>2. filtering \subseteq filtering' /\ returning \subseteq returning'
      /\ inflight \subseteq inflight'
  BY DEF Run, RunDispatch, Dispatch, RunFlushed, RunPend, RunSend, RunResult, RunFailure,
         RunNotice, RunError, RunConnectError, RunCutCall, RunCutEnd, waiting
<1>3. WithFilter(c) => WithFilter(c)'
  BY <1>2 DEF WithFilter
<1>4. WithBox(c) => WithBox(c)'
  BY <1>1, <1>2 DEF WithBox
<1>5. \A s \in Servers : ~Flushing(s) => ~Flushing(s)'
  BY RunFrames, FramesBack DEF Replaced, Flushing
<1>6. InQueue(c) => InQueue(c)'
  BY <1>5, QueuesKept DEF InQueue, InQueueOf
<1>7. ASSUME OnAgenda(c)
      PROVE  \/ OnAgenda(c)'
             \/ Head(agenda).op # "flushed" /\ Head(agenda).call = c
  <2>1. PICK i \in DOMAIN agenda : agenda[i].call = c /\ agenda[i].op # "connectError"
    BY <1>7 DEF OnAgenda
  <2>2. CASE i # 1
    BY <2>1, <2>2, RunFrames, OldFrames DEF Replaced, OnAgenda
  <2>3. CASE i = 1
    <3>1. Head(agenda) = agenda[1] /\ agenda[1] \in Frames
      BY <2>1, <2>3, ElementOfSeq, LenProperties, EmptySeq DEF RunningType
    <3>2. agenda[1].op # "flushed"
      BY <2>1, <2>3, <3>1, SetsAssumption DEF Frames
    <3>. QED
      BY <2>1, <2>3, <3>1, <3>2
  <2>. QED
    BY <2>2, <2>3
<1>8. ASSUME Head(agenda).op # "flushed", Head(agenda).call = c
      PROVE  Settled(c)' \/ Alive(c)' \/ Joins(c)
  <2>1. Head(agenda).server \in Servers
    BY RunningFrame DEF Run, RunDispatch, RunFlushed, RunPend, RunSend, RunResult,
       RunFailure, RunNotice, RunError, RunConnectError, RunCutCall, RunCutEnd,
       RunningType, Ops
  <2>. QED
    BY <1>8, <2>1, FateOwn
<1>. QED
  BY <1>3, <1>4, <1>6, <1>7, <1>8 DEF Alive

\* A step that leaves the frames and the queues alone.
LEMMA FateKept ==
  ASSUME LinksType, RunningType, [Next]_vars, NEW c, Alive(c),
         UNCHANGED <<agenda, pendings>>,
         \A s \in Servers : <<c, s>> \in filtering \union returning
                              => <<c, s>> \in filtering' \union returning',
         \A m \in DOMAIN boxes : <<m, c>> \in inflight => <<m, c>> \in inflight'
  PROVE  Alive(c)'
<1>1. OnAgenda(c)' = OnAgenda(c) /\ InQueue(c)' = InQueue(c)
  BY DEF OnAgenda, InQueue, InQueueOf, Flushing
<1>2. WithFilter(c) => WithFilter(c)'
  BY DEF WithFilter
<1>3. WithBox(c) => WithBox(c)'
  BY BoxesStay DEF WithBox
<1>. QED
  BY <1>1, <1>2, <1>3 DEF Alive

\* An event that flushes no queue, of another call.
LEMMA FateOfOther ==
  ASSUME LinksType, RunningType, [Next]_vars, NEW c, Alive(c),
         agenda = <<>>, NEW frames \in Seq(Frames), agenda' = frames,
         \A i \in 1 .. Len(frames) : frames[i].op # "flushed", UNCHANGED pendings,
         \A s \in Servers : <<c, s>> \in filtering \union returning
                              => <<c, s>> \in filtering' \union returning',
         \A m \in DOMAIN boxes : <<m, c>> \in inflight => <<m, c>> \in inflight'
  PROVE  Alive(c)'
<1>1. ~OnAgenda(c)
  BY DEF OnAgenda
<1>2. \A s : ~Flushing(s)'
  BY FirstFlushing
<1>3. InQueue(c) => InQueue(c)'
  BY <1>2 DEF InQueue, InQueueOf
<1>4. WithFilter(c) => WithFilter(c)'
  BY DEF WithFilter
<1>5. WithBox(c) => WithBox(c)'
  BY BoxesStay DEF WithBox
<1>. QED
  BY <1>1, <1>3, <1>4, <1>5 DEF Alive

LEMMA FateInvoke ==
  ASSUME LinksType, RunningType, [Next]_vars, NEW d \in Calls, NEW s \in Servers,
         Invoke(d, s), NEW c
  PROVE  Alive(c) => Alive(c)'
<1> DEFINE f == Frame("dispatch", d, s)
<1>1. f \in Frames /\ f.op = "dispatch" /\ f.call = d
  BY FrameFields DEF Frame, Frames, Ops
<1>2. agenda' = <<f>> \o agenda /\ UNCHANGED waiting
  BY DEF Invoke
<1> HIDE DEF f
<1>3. OnAgenda(c) => OnAgenda(c)'
  <2>1. \A i \in DOMAIN agenda :
          i + 1 \in DOMAIN agenda' /\ agenda'[i + 1] = agenda[i]
    BY <1>1, <1>2, Pushed DEF RunningType
  <2>. QED
    BY <2>1 DEF OnAgenda
<1>4. \A t : Flushing(t)' <=> Flushing(t)
  BY <1>1, <1>2, Pushed DEF RunningType
<1>5. InQueue(c) => InQueue(c)'
  BY <1>2, <1>4 DEF InQueue, InQueueOf, waiting
<1>6. (WithFilter(c) => WithFilter(c)') /\ (WithBox(c) => WithBox(c)')
  BY <1>2, BoxesStay DEF WithFilter, WithBox, waiting
<1>. QED
  BY <1>3, <1>5, <1>6 DEF Alive

\* A filter or a mailbox passes call d on.
LEMMA FatePassed ==
  ASSUME LinksType, RunningType, [Next]_vars,
         NEW d \in Calls, NEW s \in Servers, agenda = <<>>,
         \/ \E op \in {"send", "error", "result"}, t \in Servers :
              agenda' = <<Frame(op, d, t)>>
         \/ \E op \in {"result", "failure"} :
              agenda' = <<Frame("error", d, s), Frame(op, d, s)>>,
         NEW c, Alive(c), UNCHANGED pendings,
         \A t \in Servers : c # d /\ <<c, t>> \in filtering \union returning
                              => <<c, t>> \in filtering' \union returning',
         \A m \in DOMAIN boxes : c # d /\ <<m, c>> \in inflight => <<m, c>> \in inflight'
  PROVE  Alive(c)'
<1> DEFINE Passes(frames) ==
             /\ frames = agenda' /\ Len(frames) > 0
             /\ \A i \in 1 .. Len(frames) :
                  /\ frames[i].call = d
                  /\ frames[i].op \in {"send", "error", "result", "failure"}
<1>1. \E frames \in Seq(Frames) : Passes(frames)
  <2>1. ASSUME NEW op \in {"send", "error", "result"}, NEW t \in Servers,
               agenda' = <<Frame(op, d, t)>>
        PROVE  \E frames \in Seq(Frames) : Passes(frames)
    <3>1. op \in Ops \ {"flushed"}
      BY DEF Ops
    <3>2. PICK frames \in Seq(Frames) :
            /\ frames = <<Frame(op, d, t)>> /\ Len(frames) = 1
            /\ \A i \in 1 .. Len(frames) : frames[i].op = op /\ frames[i].call = d
      BY <3>1, AFrame
    <3>3. frames = agenda' /\ Len(frames) > 0
      BY <2>1, <3>2
    <3>. QED
      BY <3>2, <3>3
  <2>2. ASSUME NEW op \in {"result", "failure"},
               agenda' = <<Frame("error", d, s), Frame(op, d, s)>>
        PROVE  \E frames \in Seq(Frames) : Passes(frames)
    <3>1. op \in Ops \ {"flushed"}
      BY DEF Ops
    <3>2. PICK frames \in Seq(Frames) :
            /\ frames = <<Frame("error", d, s), Frame(op, d, s)>> /\ Len(frames) = 2
            /\ \A i \in 1 .. Len(frames) : /\ frames[i].op \in {"error", op}
                                          /\ frames[i].call = d
      BY <3>1, AnErrorFirst
    <3>3. frames = agenda' /\ Len(frames) > 0
      BY <2>2, <3>2
    <3>. QED
      BY <3>2, <3>3
  <2>. QED
    BY <2>1, <2>2
<1>2. PICK frames \in Seq(Frames) : Passes(frames)
  BY <1>1
<1>3. CASE c = d
  BY <1>2, <1>3, Begins DEF Alive
<1>4. CASE c # d
  BY <1>2, <1>4, FateOfOther
<1>. QED
  BY <1>3, <1>4

LEMMA FlushedCalls ==
  ASSUME LinksType, WaitingType, NEW m \in DOMAIN boxes, ConnectDone(m),
         NEW s \in Servers, s = boxes[m].server, NEW c, InQueueOf(c, s)
  PROVE  OnAgenda(c)'
<1>1. agenda' = FlushPending(s) /\ pendings[s] \in Seq(Calls)
  BY DEF ConnectDone, WaitingType
<1>2. pendings[s] # <<>>
  BY DEF InQueueOf
<1>3. FlushPending(s) \in Seq(Frames)
  BY <1>1, <1>2, FlushFrames
<1>4. /\ Len(pendings[s]) \in Nat /\ DOMAIN pendings[s] = 1 .. Len(pendings[s])
      /\ DOMAIN agenda' = 1 .. Len(pendings[s]) + 1
  BY <1>1, <1>2, <1>3, FlushFrames, LenProperties
<1>5. \A i \in DOMAIN pendings[s] :
        /\ i \in DOMAIN agenda' /\ agenda'[i].op = "dispatch"
        /\ agenda'[i].call = pendings[s][i]
  BY <1>1, <1>2, <1>4, FlushFrames, FrameFields
<1>. QED
  BY <1>5 DEF InQueueOf, OnAgenda

LEMMA FateConnectDone ==
  ASSUME LinksType, WaitingType, RunningType, LinkInv, LiveInv, [Next]_vars,
         NEW m \in DOMAIN boxes, ConnectDone(m), NEW c \in Calls, Alive(c)
  PROVE  Alive(c)'
<1>1. agenda = <<>> /\ UNCHANGED <<pendings, filtering, returning, inflight>>
  BY DEF ConnectDone, Polls, Idle, waiting
<1>2. ~OnAgenda(c)
  BY <1>1 DEF OnAgenda
<1>3. InQueue(c) => InQueue(c)' \/ OnAgenda(c)'
  BY <1>1, FlushConnectDone, FlushedCalls DEF InQueue, InQueueOf
<1>4. (WithFilter(c) => WithFilter(c)') /\ (WithBox(c) => WithBox(c)')
  BY <1>1, BoxesStay DEF WithFilter, WithBox
<1>. QED
  BY <1>2, <1>3, <1>4 DEF Alive

\* A call that is somewhere stays somewhere, or is settled.
LEMMA AliveStep ==
  ASSUME ConfigType, LinksType, WaitingType, RunningType, HistoryType,
         LinkInv, LiveInv, [Next]_vars, NEW c \in Calls, Alive(c)
  PROVE  Settled(c)' \/ Alive(c)' \/ Joins(c)
<1>1. c \in Calls /\ Alive(c)
  OBVIOUS
<1>2. ASSUME UNCHANGED <<agenda, waiting>> PROVE Alive(c)'
  BY <1>1, <1>2, FateKept DEF waiting
<1>3. CASE Start \/ StartTick \/ GraceTimeout \/ \E force \in BOOLEAN : Stop(force)
  BY <1>2, <1>3 DEF Start, StartTick, GraceTimeout, Stop, running
<1>4. ASSUME NEW s \in Servers, AddServer(s) \/ RemoveServer(s)
      PROVE  Alive(c)'
  <2>1. UNCHANGED <<agenda, waiting>>
    BY <1>4 DEF AddServer, RemoveServer, running
  <2>. QED
    BY <1>2, <2>1
<1>5. ASSUME NEW d \in Calls, NEW s \in Servers, Invoke(d, s)
      PROVE  Alive(c)'
  BY <1>1, <1>5, FateInvoke
<1>6. ASSUME NEW d \in Calls, NEW s \in Servers, FilterNext(d, s)
      PROVE  Alive(c)'
  <2>1. /\ agenda = <<>> /\ UNCHANGED <<pendings, returning, inflight>>
        /\ filtering' = filtering \ {<<d, s>>}
        /\ \/ \E t \in Servers : agenda' = <<Frame("send", d, t)>>
           \/ agenda' = <<Frame("error", d, s)>>
    BY <1>6 DEF FilterNext, Idle
  <2>. QED
    BY <1>1, <2>1, FatePassed
<1>7. ASSUME NEW d \in Calls, NEW s \in Servers, AfterNext(d, s)
      PROVE  Alive(c)'
  <2>1. /\ agenda = <<>> /\ UNCHANGED <<pendings, filtering, inflight>>
        /\ returning' = returning \ {<<d, s>>}
        /\ \/ agenda' = <<Frame("result", d, s)>>
           \/ agenda' = <<Frame("error", d, s), Frame("result", d, s)>>
    BY <1>7 DEF AfterNext, Idle
  <2>. QED
    BY <1>1, <2>1, FatePassed
<1>8. ASSUME NEW m \in DOMAIN boxes, NEW d \in Calls, BoxAnswer(m, d)
      PROVE  Alive(c)'
  <2>1. PICK s \in Servers : s = boxes[m].server
    BY BoxServer DEF LinksType
  <2>2. /\ agenda = <<>> /\ UNCHANGED <<pendings, filtering>>
        /\ inflight' = inflight \ {<<m, d>>}
    BY <1>8 DEF BoxAnswer, Polls, Idle
  <2>3. CASE returning' = returning \union {<<d, s>>} /\ UNCHANGED agenda
    <3>1. CASE c = d
      BY <2>3, <3>1 DEF Alive, WithFilter
    <3>2. CASE c # d
      BY <1>1, <2>2, <2>3, <3>2, FateKept
    <3>. QED
      BY <3>1, <3>2
  <2>4. CASE /\ UNCHANGED returning
             /\ \/ agenda' = <<Frame("result", d, s)>>
                \/ agenda' = <<Frame("error", d, s), Frame("failure", d, s)>>
    BY <1>1, <2>2, <2>4, FatePassed
  <2>. QED
    BY <1>8, <2>1, <2>3, <2>4 DEF BoxAnswer
<1>9. ASSUME NEW m \in DOMAIN boxes,
             ConnectTimeout(m) \/ CloseEvent(m) \/ Disconnect(m)
      PROVE  Alive(c)'
  <2>1. UNCHANGED <<agenda, waiting>>
    BY <1>9 DEF ConnectTimeout, CloseEvent, Disconnect, running
  <2>. QED
    BY <1>2, <2>1
<1>10. ASSUME NEW m \in DOMAIN boxes, ConnectFail(m)
       PROVE  Alive(c)'
  <2>1. PICK t \in Servers, d \in Calls : t = boxes[m].server /\ d = boxes[m].caller
    <3>1. boxes[m] \in Box
      BY ElementOfSeq, LenProperties DEF LinksType
    <3>. QED
      BY <3>1 DEF Box
  <2>2. /\ agenda = <<>> /\ agenda' = <<Frame("connectError", d, t)>>
        /\ UNCHANGED <<pendings, filtering, returning, inflight>>
    BY <1>10, <2>1 DEF ConnectFail, Polls, Idle, waiting
  <2>3. PICK frames \in Seq(Frames) :
          /\ frames = <<Frame("connectError", d, t)>>
          /\ \A i \in 1 .. Len(frames) : frames[i].op = "connectError"
    BY AFrame DEF Ops
  <2>4. agenda' = frames
    BY <2>2, <2>3
  <2>. QED
    BY <1>1, <2>2, <2>3, <2>4, FateOfOther
<1>11. CASE Run
  <2>1. CASE agenda # <<>>
    BY <1>1, <1>11, <2>1, FateRun
  <2>2. CASE RunCutCall
    <3>1. PICK frames \in Seq(Frames) :
            /\ agenda' = frames /\ Len(frames) = 2
            /\ frames[1].op = "error" /\ frames[2].op = "notice"
      BY <2>2, CutFrames
    <3>2. \A i \in 1 .. Len(frames) : frames[i].op # "flushed"
      <4>1. \A i \in 1 .. 2 : i = 1 \/ i = 2
        OBVIOUS
      <4>. QED
        BY <3>1, <4>1
    <3>3. agenda = <<>> /\ UNCHANGED waiting
      BY <2>2 DEF RunCutCall
    <3>. QED
      BY <1>1, <3>1, <3>2, <3>3, FateOfOther DEF waiting
  <2>3. CASE RunCutEnd
    BY <1>2, <2>3 DEF RunCutEnd
  <2>. QED
    BY <1>11, <2>1, <2>2, <2>3
       DEF Run, RunDispatch, RunFlushed, RunPend, RunSend, RunResult, RunFailure,
           RunNotice, RunError, RunConnectError, Running
<1>12. CASE UNCHANGED vars
  BY <1>2, <1>12 DEF vars, running
<1>. QED
  BY <1>1, <1>3, <1>4, <1>5, <1>6, <1>7, <1>8, <1>9, <1>10, <1>11, <1>12,
     FateConnectDone DEF Next

\* No call joins the queue of s in a step of the running event, or of the user.
LEMMA QueueBack ==
  ASSUME WaitingType, RunningType, agenda # <<>>, [Next]_vars,
         NEW s \in Servers, ~Pending(s), NEW c, InQueueOf(c, s)'
  PROVE  InQueueOf(c, s)
<1>1. CASE UNCHANGED waiting
  BY <1>1 DEF waiting, InQueueOf
<1>2. CASE Run
  <2>1. CASE RunPend
    <3> DEFINE d == Head(agenda).call
               t == Head(agenda).server
    <3>1. t \in Servers /\ Running("pend") /\ "pend" \in Ops
      BY <2>1, RunningFrame DEF RunPend, RunningType, Ops
    <3>2. 1 \in DOMAIN agenda /\ agenda[1].op = "pend" /\ Head(agenda) = agenda[1]
      BY <3>1, LenProperties, EmptySeq DEF Running, RunningType
    <3>3. t # s
      BY <3>2 DEF Pending
    <3>4. pendings' = pendings \/ pendings' = [pendings EXCEPT ![t] = Append(@, d)]
      BY <2>1 DEF RunPend
    <3> HIDE DEF d, t
    <3>. QED
      BY <3>1, <3>3, <3>4 DEF WaitingType, InQueueOf
  <2>2. CASE RunFlushed
    <3>1. pendings' = [pendings EXCEPT ![Head(agenda).server] = <<>>]
      BY <2>2 DEF RunFlushed
    <3>2. pendings'[s] = pendings[s] \/ pendings'[s] = <<>>
      BY <3>1 DEF WaitingType
    <3>. QED
      BY <3>2 DEF InQueueOf
  <2>3. CASE RunDispatch \/ RunSend
    BY <2>3 DEF RunDispatch, RunSend, InQueueOf
  <2>4. CASE RunResult \/ RunFailure \/ RunNotice \/ RunError \/ RunConnectError
    BY <1>1, <2>4 DEF RunResult, RunFailure, RunNotice, RunError, RunConnectError
  <2>5. ~RunCutCall /\ ~RunCutEnd
    BY DEF RunCutCall, RunCutEnd
  <2>. QED
    BY <1>2, <2>1, <2>2, <2>3, <2>4, <2>5 DEF Run
<1>. QED
  BY <1>1, <1>2, BusySteps DEF Invoke, RemoveServer

LEMMA FateStep ==
  ASSUME ConfigType, LinksType, WaitingType, RunningType, HistoryType,
         LinkInv, LiveInv, FlushInv, FateInv, [Next]_vars
  PROVE  FateInv'
<1> SUFFICES ASSUME NEW s \in Servers, NEW c \in Calls,
                    Flushing(s)', InQueueOf(c, s)'
             PROVE  Forgetful(s)' \/ Settled(c)' \/ Alive(c)'
  BY DEF FateInv
<1>1. CASE agenda = <<>>
  <2>1. PICK m \in DOMAIN boxes : ConnectDone(m)
    BY <1>1, FlushBegins
  <2>2. s = boxes[m].server
    BY <2>1, FlushConnectDone
  <2>3. InQueueOf(c, s)
    BY <2>1 DEF ConnectDone, waiting, InQueueOf
  <2>. QED
    BY <2>1, <2>2, <2>3, FlushedCalls DEF Alive
<1>2. CASE agenda # <<>>
  <2>1. Flushing(s)
    BY <1>2, FlushGoesOn
  <2>2. CASE Forgetful(s)
    BY <2>2, ForgetfulStays
  <2>3. CASE ~Forgetful(s)
    <3>1. ~Pending(s)
      BY <2>1, <2>3 DEF FlushInv, FlushOk
    <3>2. Settled(c) \/ Alive(c)
      BY <1>2, <2>1, <2>3, <3>1, QueueBack DEF FateInv
    <3>3. ~Joins(c)
      BY <2>1, <3>1 DEF FlushInv, Joins
    <3>. QED
      BY <3>2, <3>3, SettledStays, AliveStep
  <2>. QED
    BY <2>2, <2>3
<1>. QED
  BY <1>1, <1>2

\* The error of a failed connect is reported with the call that had created the
\* mailbox.
LEMMA ConnectErrorStep ==
  ASSUME ConfigType, LinksType, RunningType, HistoryType, [Next]_vars,
         NEW i \in DOMAIN agenda, agenda[i].op = "connectError"
  PROVE  \/ \E j \in DOMAIN agenda' : agenda'[j] = agenda[i]
         \/ agenda[i].call \in reported'
<1>1. agenda # <<>>
  OBVIOUS
<1>2. CASE UNCHANGED agenda
  BY <1>2
<1>3. CASE Run
  <2>1. CASE i # 1
    BY <1>1, <1>2, <1>3, <2>1, RunFrames, OldFrames DEF Replaced
  <2>2. CASE i = 1
    <3>1. Head(agenda) = agenda[i]
      BY <1>1, <2>2 DEF RunningType
    <3>2. RunConnectError
      BY <1>1, <1>3, <3>1 DEF Run, RunDispatch, RunFlushed, RunPend, RunSend, RunResult,
         RunFailure, RunNotice, RunError, RunCutCall, RunCutEnd, Running
    <3>. QED
      BY <3>1, <3>2 DEF RunConnectError
  <2>. QED
    BY <2>1, <2>2
<1>4. ASSUME NEW d \in Calls, NEW t \in Servers, Invoke(d, t)
      PROVE  \E j \in DOMAIN agenda' : agenda'[j] = agenda[i]
  <2> DEFINE f == Frame("dispatch", d, t)
  <2>1. f \in Frames /\ f.op = "dispatch"
    BY FrameFields DEF Frame, Frames, Ops
  <2>2. agenda' = <<f>> \o agenda
    BY <1>4 DEF Invoke
  <2> HIDE DEF f
  <2>. QED
    BY <2>1, <2>2, Pushed DEF RunningType
<1>. QED
  BY <1>1, <1>2, <1>3, <1>4, BusySteps DEF RemoveServer, running

-----------------------------------------------------------------------------
(* The theorem.                                                            *)

LossInv == LinkInv /\ CutInv /\ LiveInv /\ FlushInv /\ FateInv

LEMMA LossInit == Init => LossInv
<1> SUFFICES ASSUME Init PROVE LossInv
  OBVIOUS
<1>1. boxes = <<>> /\ cutBox = 0 /\ agenda = <<>>
  BY DEF Init
<1>2. DOMAIN boxes = {} /\ DOMAIN agenda = {}
  BY <1>1
<1>. QED
  BY <1>1, <1>2
     DEF LossInv, LinkInv, CutInv, LiveInv, FlushInv, FlushOk, Flushing, FateInv

LEMMA LossStep == IInv /\ LossInv /\ [Next]_vars => LossInv'
<1> SUFFICES ASSUME IInv, LossInv, [Next]_vars PROVE LossInv'
  OBVIOUS
<1>1. /\ ConfigType /\ LinksType /\ WaitingType /\ RunningType /\ HistoryType
      /\ MapInv /\ NoLeakedConnection
  BY TypeParts DEF IInv
<1>2. LinkInv /\ CutInv /\ LiveInv /\ FlushInv /\ FateInv
  BY DEF LossInv
<1>. QED
  BY <1>1, <1>2, LinkStep, CutStep, LiveStep, FlushStep, FateStep DEF LossInv

\* What is alive, or has joined a queue, is at some server.
LEMMA SomewhereNext ==
  ASSUME TypeOK', NEW c, ~Waiting(c)'
  PROVE  ~Alive(c)' /\ ~Joins(c)
<1>1. agenda' \in Seq(Frames) /\ boxes' \in Seq(Box)
  BY DEF TypeOK
<1>2. \A i \in DOMAIN agenda' : agenda'[i].server \in Servers
  <2> SUFFICES ASSUME NEW i \in DOMAIN agenda' PROVE agenda'[i].server \in Servers
    OBVIOUS
  <2>1. agenda'[i] \in Frames
    BY <1>1, ElementOfSeq, LenProperties
  <2>. QED
    BY <2>1 DEF Frames
<1>3. \A m \in DOMAIN boxes' : boxes'[m].server \in Servers
  <2> SUFFICES ASSUME NEW m \in DOMAIN boxes' PROVE boxes'[m].server \in Servers
    OBVIOUS
  <2>1. boxes'[m] \in Box
    BY <1>1, ElementOfSeq, LenProperties
  <2>. QED
    BY <2>1 DEF Box
<1>4. \A s \in Servers : ~WaitingAt(c, s)'
  BY DEF Waiting
<1>5. ~OnAgenda(c)'
  BY <1>2, <1>4 DEF WaitingAt, OnAgenda
<1>6. ~InQueue(c)' /\ ~Joins(c)
  BY <1>4 DEF WaitingAt, InQueue, InQueueOf, Joins
<1>7. ~WithFilter(c)'
  BY <1>4 DEF WaitingAt, WithFilter
<1>8. ~WithBox(c)'
  BY <1>3, <1>4 DEF WaitingAt, WithBox
<1>. QED
  BY <1>5, <1>6, <1>7, <1>8 DEF Alive

LEMMA NoLossStep ==
  ASSUME TypeOK, TypeOK', LossInv, [Next]_vars,
         NEW c \in Calls, NEW s \in Servers, WaitingAt(c, s), ~Waiting(c)'
  PROVE  Settled(c)' \/ Forgetful(s)'
<1>1. ConfigType /\ LinksType /\ WaitingType /\ RunningType /\ HistoryType
  BY TypeParts
<1>2. ~Alive(c)' /\ ~Joins(c)
  BY SomewhereNext
<1>3. CASE Alive(c)
  BY <1>1, <1>2, <1>3, AliveStep DEF LossInv
<1>4. CASE Flushing(s) /\ InQueueOf(c, s)
  <2>1. Forgetful(s) \/ Settled(c) \/ Alive(c)
    BY <1>4 DEF LossInv, FateInv
  <2>. QED
    BY <1>1, <1>3, <2>1, ForgetfulStays, SettledStays
<1>5. ASSUME NEW i \in DOMAIN agenda, agenda[i].op = "connectError",
             agenda[i].call = c, agenda[i].server = s
      PROVE  Settled(c)'
  <2>1. \A j \in DOMAIN agenda' : agenda'[j] # agenda[i]
    BY <1>5 DEF Waiting, WaitingAt
  <2>. QED
    BY <1>1, <1>5, <2>1, ConnectErrorStep DEF Settled
<1>. QED
  BY <1>3, <1>4, <1>5
     DEF WaitingAt, Alive, OnAgenda, InQueue, InQueueOf, WithFilter, WithBox

\* No call is lost without an 'error' event, but from a full queue and while the
\* station has forgotten a mailbox of its server that was connecting (lines
\* 209-262 and 309-437 of mailstation.js).
THEOREM NoCallLostSilently == Spec => NoSilentLoss
<1> DEFINE Step ==
      \A c \in Calls, s \in Servers :
        WaitingAt(c, s) /\ ~Waiting(c)' =>
          \/ answers'[c] # <<>> \/ c \in reported' \/ c \in overflowed'
          \/ Forgetful(s)'
<1>1. Spec => []LossInv
  BY LossInit, LossStep, InductiveInvariant, PTL DEF Spec
<1>2. TypeOK /\ TypeOK' /\ LossInv /\ [Next]_vars => [Step]_vars
  BY NoLossStep DEF Settled
<1>. QED
  BY <1>1, <1>2, TypeCorrect, PTL DEF Spec, NoSilentLoss
=============================================================================
