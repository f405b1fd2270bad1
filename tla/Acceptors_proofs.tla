--------------------------- MODULE Acceptors_proofs ---------------------------
(***************************************************************************)
(* Theorems about Acceptors, for every value of its constants: each        *)
(* request that arrives is handed to its service once, but for those       *)
(* behind one whose service throws; an open connection is sent the answers *)
(* in order; they answer its own requests; and the state keeps its types   *)
(* and the bounds of the model.                                            *)
(***************************************************************************)
EXTENDS Acceptors, SequenceTheorems, FiniteSetTheorems, TLAPS

-----------------------------------------------------------------------------
(* The inductive invariant of the requests.                                *)

\* The types of what the requests go through.  That ids stay below their bound
\* is not needed.
Types ==
  /\ conn \in Conns \union {0}
  /\ rest \in Seq(Nat) /\ called \in Nat \union {NoId}
  /\ received \in [Conns -> Nat]
  /\ answered \in [Conns -> Seq(Nat)]
  /\ serving \subseteq Conns \X Nat
  /\ failed \subseteq Conns \X Nat /\ dropped \subseteq Conns \X Nat

\* What is left of a packet are the last requests that have arrived, in order,
\* and the request whose service is called came before them.
PacketInv ==
  /\ conn = 0 => rest = <<>> /\ called = NoId
  /\ conn # 0 =>
       /\ Len(rest) <= received[conn]
       /\ \A i \in 1 .. Len(rest) :
            rest[i] = received[conn] - Len(rest) + i - 1
       /\ called # NoId => called < received[conn] - Len(rest)

\* The requests of c that are no longer to be called are those below this.
Begun(c) == received[c] - (IF c = conn THEN Len(rest) ELSE 0)

\* The service of request id of c was called.
Served(c, id) == <<c, id>> \in serving \/ id \in Range(answered[c])

\* A request that was dropped, behind one whose service threw.
DroppedInv ==
  \A c \in Conns, id \in Nat :
    <<c, id>> \in dropped => \E before \in 0 .. id - 1 : <<c, before>> \in failed

\* Each request below Begun was called or dropped, no other was, and none was
\* both.
RequestInv ==
  \A c \in Conns, id \in Nat :
    /\ id < Begun(c) <=> Served(c, id) \/ <<c, id>> \in dropped
    /\ ~(Served(c, id) /\ <<c, id>> \in dropped)

IInv == Types /\ PacketInv /\ DroppedInv /\ RequestInv

-----------------------------------------------------------------------------
(* What a step does to the requests.                                       *)

\* A step that concerns no request.
Apart ==
  UNCHANGED <<conn, rest, called, received, serving, answered, failed, dropped>>

Arrives ==
  /\ conn = 0
  /\ \E c \in Conns, n \in Nat :
       /\ Cardinality(Arrived) + n <= MaxRequests
       /\ conn' = c
       /\ rest' = [i \in 1 .. n |-> received[c] + i - 1]
       /\ received' = [received EXCEPT ![c] = @ + n]
  /\ UNCHANGED <<called, serving, answered, failed, dropped>>

Calls ==
  /\ conn # 0 /\ rest # <<>>
  /\ called' = Head(rest)
  /\ rest' = Tail(rest)
  /\ serving' = serving \union {<<conn, Head(rest)>>}
  /\ UNCHANGED <<conn, received, answered, failed, dropped>>

Returns ==
  /\ conn # 0 /\ rest = <<>>
  /\ conn' = 0 /\ called' = NoId
  /\ UNCHANGED <<rest, received, serving, answered, failed, dropped>>

Throws ==
  /\ conn # 0 /\ called # NoId
  /\ failed' = failed \union {<<conn, called>>}
  /\ dropped' = dropped \union {<<conn, id>> : id \in Range(rest)}
  /\ conn' = 0 /\ rest' = <<>> /\ called' = NoId
  /\ UNCHANGED <<received, serving, answered>>

\* A service calls back.
Answers ==
  /\ \E c \in Conns, id \in Ids :
       /\ <<c, id>> \in serving
       /\ serving' = serving \ {<<c, id>>}
       /\ answered' = [answered EXCEPT ![c] = Append(@, id)]
  /\ UNCHANGED <<conn, rest, called, received, failed, dropped>>

Step == Apart \/ Arrives \/ Calls \/ Returns \/ Throws \/ Answers

LEMMA MqttSteps ==
  ASSUME Mqtt!Next
  PROVE  Step
<1>1. CASE Mqtt!Accept \/ Mqtt!Flush
  BY <1>1 DEF Mqtt!Accept, Mqtt!Admit, Mqtt!Flush, Mqtt!FlushQueues,
       Mqtt!running, Mqtt!history, Apart, Step
<1>2. ASSUME NEW c \in Conns,
             Mqtt!SocketClose(c)
      PROVE  Step
  BY <1>2 DEF Mqtt!SocketClose, Mqtt!Leave, Mqtt!running, Mqtt!history,
       Apart, Step
<1>3. ASSUME NEW c \in Conns, NEW alone \in BOOLEAN, NEW n \in 1 .. MaxBatch,
             Mqtt!Publish(c, alone, n)
      PROVE  Step
  <2>1. n \in Nat
    BY BoundsAssumption
  <2>2. Mqtt!Cardinality(Mqtt!Arrived) = Cardinality(Arrived)
    BY DEF Mqtt!Cardinality, Cardinality, Mqtt!IsFiniteSet, IsFiniteSet, Mqtt!Arrived, Arrived,
         Mqtt!Conns, Conns, Mqtt!Ids, Ids
  <2> QED BY <1>3, <2>1, <2>2 DEF Mqtt!Publish, Mqtt!Arrive, Mqtt!Idle, Arrives, Step
<1>4. CASE Mqtt!ProcessMsg \/ Mqtt!PublishDone
  BY <1>4 DEF Mqtt!ProcessMsg, Mqtt!PublishDone, Mqtt!Call, Mqtt!Return,
       Mqtt!history, Calls, Returns, Step, NoId, Mqtt!NoId
<1>5. CASE Mqtt!Throw
  BY <1>5 DEF Mqtt!Throw, Mqtt!DropRest, Mqtt!Range, Range, Mqtt!NoId, NoId,
       Throws, Step
<1>6. ASSUME NEW c \in Conns, NEW id \in Ids, Mqtt!Answer(c, id)
      PROVE  Step
  BY <1>6 DEF Mqtt!Answer, Mqtt!running, Answers, Step
<1> QED BY <1>1, <1>2, <1>3, <1>4, <1>5, <1>6 DEF Mqtt!Next, Mqtt!Conns,
       Conns, Mqtt!Ids, Ids

LEMMA TcpSteps ==
  ASSUME Tcp!Next
  PROVE  Step
<1>1. CASE Tcp!Accept \/ Tcp!Flush
  BY <1>1 DEF Tcp!Accept, Tcp!Admit, Tcp!Flush, Tcp!FlushQueues, Tcp!running,
       Tcp!history, Apart, Step
<1>2. ASSUME NEW c \in Conns,
             Tcp!SocketClose(c)
      PROVE  Step
  BY <1>2 DEF Tcp!SocketClose, Tcp!Leave, Tcp!running, Tcp!history, Apart,
       Step
<1>3. ASSUME NEW c \in Conns, NEW alone \in BOOLEAN, NEW n \in 1 .. MaxBatch,
             Tcp!Data(c, alone, n)
      PROVE  Step
  <2>1. n \in Nat
    BY BoundsAssumption
  <2>2. Tcp!Cardinality(Tcp!Arrived) = Cardinality(Arrived)
    BY DEF Tcp!Cardinality, Cardinality, Tcp!IsFiniteSet, IsFiniteSet, Tcp!Arrived, Arrived,
         Tcp!Conns, Conns, Tcp!Ids, Ids
  <2> QED BY <1>3, <2>1, <2>2 DEF Tcp!Data, Tcp!Arrive, Tcp!Idle, Arrives, Step
<1>4. CASE Tcp!ProcessMsg \/ Tcp!DataDone
  BY <1>4 DEF Tcp!ProcessMsg, Tcp!DataDone, Tcp!Call, Tcp!Return,
       Tcp!history, Calls, Returns, Step, NoId, Tcp!NoId
<1>5. CASE Tcp!Throw
  BY <1>5 DEF Tcp!Throw, Tcp!DropRest, Tcp!Range, Range, Tcp!NoId, NoId,
       Throws, Step
<1>6. ASSUME NEW c \in Conns, NEW id \in Ids, Tcp!Answer(c, id)
      PROVE  Step
  BY <1>6 DEF Tcp!Answer, Tcp!running, Answers, Step
<1> QED BY <1>1, <1>2, <1>3, <1>4, <1>5, <1>6 DEF Tcp!Next, Tcp!Conns, Conns,
       Tcp!Ids, Ids

LEMMA WsSteps ==
  ASSUME Ws!Next
  PROVE  Step
<1>1. CASE Ws!Accept \/ Ws!AcceptRejected \/ Ws!Flush
  BY <1>1 DEF Ws!Accept, Ws!Admit, Ws!AcceptRejected, Ws!Flush, Ws!FlushQueues, Ws!running,
       Ws!history, Apart, Step
<1>2. ASSUME NEW c \in Conns,
             Ws!Permit(c) \/ Ws!Reject(c) \/ Ws!SocketClose(c)
      PROVE  Step
  BY <1>2 DEF Ws!Permit, Ws!Reject, Ws!SocketClose, Ws!Leave, Ws!running,
       Ws!history, Apart, Step
<1>3. ASSUME NEW c \in Conns, NEW alone \in BOOLEAN, NEW n \in 1 .. MaxBatch,
             Ws!Message(c, alone, n)
      PROVE  Step
  <2>1. n \in Nat
    BY BoundsAssumption
  <2>2. Ws!Cardinality(Ws!Arrived) = Cardinality(Arrived)
    BY DEF Ws!Cardinality, Cardinality, Ws!IsFiniteSet, IsFiniteSet, Ws!Arrived, Arrived,
         Ws!Conns, Conns, Ws!Ids, Ids
  <2> QED BY <1>3, <2>1, <2>2 DEF Ws!Message, Ws!Arrive, Ws!Idle, Arrives, Step
<1>4. CASE Ws!ProcessMsg \/ Ws!MessageDone
  BY <1>4 DEF Ws!ProcessMsg, Ws!MessageDone, Ws!Call, Ws!Return, Ws!history,
       Calls, Returns, Step, NoId, Ws!NoId
<1>5. CASE Ws!Throw
  BY <1>5 DEF Ws!Throw, Ws!DropRest, Ws!Range, Range, Ws!NoId, NoId, Throws,
       Step
<1>6. ASSUME NEW c \in Conns, NEW id \in Ids, Ws!Answer(c, id)
      PROVE  Step
  BY <1>6 DEF Ws!Answer, Ws!running, Answers, Step
<1> QED BY <1>1, <1>2, <1>3, <1>4, <1>5, <1>6 DEF Ws!Next, Ws!Conns, Conns,
       Ws!Ids, Ids

LEMMA Ws2Steps ==
  ASSUME Ws2!Next
  PROVE  Step
<1>1. CASE Ws2!Accept \/ Ws2!Flush
  BY <1>1 DEF Ws2!Accept, Ws2!Admit, Ws2!Flush, Ws2!FlushQueues,
       Ws2!FlushThrows, Ws2!running, Ws2!history, Apart, Step
<1>2. ASSUME NEW c \in Conns,
             Ws2!Closing(c) \/ Ws2!Rejected(c) \/ Ws2!Permitted(c) \/ Ws2!SocketClose(c)
      PROVE  Step
  BY <1>2 DEF Ws2!Closing, Ws2!Rejected, Ws2!Permitted, Ws2!SocketClose,
       Ws2!running, Ws2!history, Apart, Step
<1>3. ASSUME NEW c \in Conns, NEW alone \in BOOLEAN, NEW n \in 1 .. MaxBatch,
             Ws2!Message(c, alone, n)
      PROVE  Step
  <2>1. n \in Nat
    BY BoundsAssumption
  <2>2. Ws2!Cardinality(Ws2!Arrived) = Cardinality(Arrived)
    BY DEF Ws2!Cardinality, Cardinality, Ws2!IsFiniteSet, IsFiniteSet, Ws2!Arrived, Arrived,
         Ws2!Conns, Conns, Ws2!Ids, Ids
  <2> QED BY <1>3, <2>1, <2>2 DEF Ws2!Message, Ws2!Arrive, Ws2!Idle, Arrives, Step
<1>4. CASE Ws2!ProcessMsg \/ Ws2!MessageDone
  BY <1>4 DEF Ws2!ProcessMsg, Ws2!MessageDone, Ws2!Call, Ws2!Return,
       Ws2!history, Calls, Returns, Step, NoId, Ws2!NoId
<1>5. CASE Ws2!Throw
  BY <1>5 DEF Ws2!Throw, Ws2!DropRest, Ws2!Range, Range, Ws2!NoId, NoId,
       Throws, Step
<1>6. ASSUME NEW c \in Conns, NEW id \in Ids, Ws2!ReplyOpen(c, id) \/ Ws2!ReplyToClosed(c, id)
      PROVE  Step
  BY <1>6 DEF Ws2!ReplyOpen, Ws2!ReplyToClosed, Ws2!Answer, Ws2!running,
       Answers, Step
<1> QED BY <1>1, <1>2, <1>3, <1>4, <1>5, <1>6 DEF Ws2!Next, Ws2!Conns, Conns,
       Ws2!Ids, Ids

LEMMA Mqtt2Steps ==
  ASSUME Mqtt2!Next
  PROVE  Step
<1>1. CASE Mqtt2!Accept \/ Mqtt2!Flush
  BY <1>1 DEF Mqtt2!Accept, Mqtt2!Admit, Mqtt2!Flush, Mqtt2!running,
       Mqtt2!history, Apart, Step
<1>2. ASSUME NEW c \in Conns,
             Mqtt2!Handshake(c) \/ Mqtt2!SocketClose(c)
      PROVE  Step
  BY <1>2 DEF Mqtt2!Handshake, Mqtt2!SocketClose, Mqtt2!Leave, Mqtt2!running,
       Mqtt2!history, Apart, Step
<1>3. ASSUME NEW c \in Conns, Mqtt2!Publish(c)
      PROVE  Step
  <2>1. 1 \in Nat
    OBVIOUS
  <2>2. Mqtt2!Cardinality(Mqtt2!Arrived) = Cardinality(Arrived)
    BY DEF Mqtt2!Cardinality, Cardinality, Mqtt2!IsFiniteSet, IsFiniteSet, Mqtt2!Arrived, Arrived,
         Mqtt2!Conns, Conns, Mqtt2!Ids, Ids
  <2> QED BY <1>3, <2>1, <2>2 DEF Mqtt2!Publish, Mqtt2!Arrive, Mqtt2!Idle, Arrives, Step
<1>4. CASE Mqtt2!ProcessMsg \/ Mqtt2!PublishDone
  BY <1>4 DEF Mqtt2!ProcessMsg, Mqtt2!PublishDone, Mqtt2!Call, Mqtt2!Return,
       Mqtt2!history, Calls, Returns, Step, NoId, Mqtt2!NoId
<1>5. CASE Mqtt2!Throw
  BY <1>5 DEF Mqtt2!Throw, Mqtt2!DropRest, Mqtt2!Range, Range, Mqtt2!NoId,
       NoId, Throws, Step
<1>6. ASSUME NEW c \in Conns, NEW id \in Ids, Mqtt2!Answer(c, id)
      PROVE  Step
  BY <1>6 DEF Mqtt2!Answer, Mqtt2!running, Answers, Step
<1> QED BY <1>1, <1>2, <1>3, <1>4, <1>5, <1>6 DEF Mqtt2!Next, Mqtt2!Conns,
       Conns, Mqtt2!Ids, Ids

LEMMA Steps ==
  ASSUME [Next]_vars
  PROVE  Step
<1>1. CASE Start \/ Stop \/ UNCHANGED vars
  BY <1>1 DEF Start, Stop, vars, running, history, Apart, Step
<1> QED BY <1>1, MqttSteps, TcpSteps, WsSteps, Ws2Steps, Mqtt2Steps DEF Next

-----------------------------------------------------------------------------
(* The invariant is kept.                                                  *)

\* What is left of the packet are the requests from Begun on.
LEMMA RestIds ==
  ASSUME Types, PacketInv, conn # 0, NEW id
  PROVE  id \in Range(rest) <=> id \in Nat /\ Begun(conn) <= id /\ id < received[conn]
<1>1. /\ conn \in Conns /\ received[conn] \in Nat /\ Len(rest) \in Nat
      /\ DOMAIN rest = 1 .. Len(rest) /\ Len(rest) <= received[conn]
      /\ Begun(conn) = received[conn] - Len(rest)
  BY LenProperties DEF Types, PacketInv, Begun
<1>2. \A i \in 1 .. Len(rest) : rest[i] = received[conn] - Len(rest) + i - 1
  BY DEF PacketInv
<1>3. ASSUME id \in Range(rest)
      PROVE  id \in Nat /\ Begun(conn) <= id /\ id < received[conn]
  <2>1. PICK i \in 1 .. Len(rest) : id = rest[i]
    BY <1>1, <1>3 DEF Range
  <2> QED BY <1>1, <1>2, <2>1
<1>4. ASSUME id \in Nat, Begun(conn) <= id, id < received[conn]
      PROVE  id \in Range(rest)
  <2> DEFINE i == id - Begun(conn) + 1
  <2>1. i \in 1 .. Len(rest) /\ received[conn] - Len(rest) + i - 1 = id
    BY <1>1, <1>4
  <2>2. rest[i] = id
    BY <1>2, <2>1
  <2> QED BY <1>1, <2>1, <2>2 DEF Range
<1> QED BY <1>3, <1>4

LEMMA HeadRest ==
  ASSUME Types, PacketInv, conn # 0, rest # <<>>
  PROVE  /\ conn \in Conns /\ Head(rest) = Begun(conn) /\ Head(rest) \in Nat
         /\ Tail(rest) \in Seq(Nat) /\ Len(Tail(rest)) = Len(rest) - 1
         /\ \A i \in 1 .. Len(rest) - 1 : Tail(rest)[i] = rest[i + 1]
         /\ Len(rest) \in Nat /\ Len(rest) >= 1
<1>1. /\ Head(rest) = rest[1] /\ Head(rest) \in Nat
      /\ Tail(rest) \in Seq(Nat) /\ Len(Tail(rest)) = Len(rest) - 1
      /\ \A i \in 1 .. Len(Tail(rest)) : Tail(rest)[i] = rest[i + 1]
  BY HeadTailProperties DEF Types
<1>2. Len(rest) \in Nat /\ Len(rest) # 0
  BY EmptySeq, LenProperties DEF Types
<1>3. conn \in Conns /\ received[conn] \in Nat
  BY DEF Types
<1>4. rest[1] = received[conn] - Len(rest) + 1 - 1
  BY <1>2 DEF PacketInv
<1>5. Begun(conn) = received[conn] - Len(rest)
  BY DEF Begun
<1> QED BY <1>1, <1>2, <1>3, <1>4, <1>5

LEMMA ApartStep ==
  ASSUME IInv, Apart
  PROVE  IInv'
<1>1. Types'
  BY DEF IInv, Types, Apart
<1>2. PacketInv'
  BY DEF IInv, PacketInv, Apart
<1>3. DroppedInv' /\ RequestInv'
  BY DEF IInv, DroppedInv, RequestInv, Served, Begun, Apart
<1> QED BY <1>1, <1>2, <1>3 DEF IInv

LEMMA ArriveStep ==
  ASSUME IInv, Arrives
  PROVE  IInv'
<1>1. PICK c \in Conns, n \in Nat :
        /\ conn' = c
        /\ rest' = [i \in 1 .. n |-> received[c] + i - 1]
        /\ received' = [received EXCEPT ![c] = @ + n]
  BY DEF Arrives
<1>2. /\ conn = 0 /\ rest = <<>> /\ called = NoId
      /\ UNCHANGED <<called, serving, answered, failed, dropped>>
  BY DEF Arrives, IInv, PacketInv
<1>3. received \in [Conns -> Nat] /\ c # 0
  BY DEF IInv, Types, Conns
<1>4. \A i \in 1 .. n : received[c] + i - 1 \in Nat
  BY <1>3
<1>5. rest' \in Seq(Nat) /\ Len(rest') = n
      /\ \A i \in 1 .. n : rest'[i] = received[c] + i - 1
  <2>1. rest' \in [1 .. n -> Nat]
    BY <1>1, <1>4
  <2>2. rest' \in Seq(Nat)
    BY <2>1
  <2> QED BY <1>1, <2>1, <2>2, LenProperties
<1>6. /\ received' \in [Conns -> Nat] /\ received'[c] = received[c] + n
      /\ \A d \in Conns : d # c => received'[d] = received[d]
  BY <1>1, <1>3
<1>7. Types'
  BY <1>1, <1>2, <1>5, <1>6 DEF IInv, Types
<1>8. PacketInv'
  <2>1. Len(rest') <= received'[c]
    BY <1>3, <1>5, <1>6
  <2>2. \A i \in 1 .. n : rest'[i] = received'[c] - Len(rest') + i - 1
    BY <1>3, <1>5, <1>6
  <2> QED BY <1>1, <1>2, <1>3, <1>5, <2>1, <2>2 DEF PacketInv
<1>9. \A d \in Conns : Begun(d)' = Begun(d)
  <2> SUFFICES ASSUME NEW d \in Conns PROVE Begun(d)' = Begun(d)
    OBVIOUS
  <2>1. d # conn /\ received[d] \in Nat
    BY <1>2, <1>3 DEF Conns
  <2> QED BY <1>1, <1>5, <1>6, <2>1 DEF Begun
<1>10. DroppedInv' /\ RequestInv'
  BY <1>2, <1>9 DEF IInv, DroppedInv, RequestInv, Served
<1> QED BY <1>7, <1>8, <1>10 DEF IInv

LEMMA CallStep ==
  ASSUME IInv, Calls
  PROVE  IInv'
<1> DEFINE id == Head(rest)
<1>1. /\ conn # 0 /\ rest # <<>>
      /\ called' = id /\ rest' = Tail(rest)
      /\ serving' = serving \union {<<conn, id>>}
      /\ UNCHANGED <<conn, received, answered, failed, dropped>>
  BY DEF Calls
<1>2. /\ conn \in Conns /\ id = Begun(conn) /\ id \in Nat
      /\ Tail(rest) \in Seq(Nat) /\ Len(Tail(rest)) = Len(rest) - 1
      /\ \A i \in 1 .. Len(rest) - 1 : Tail(rest)[i] = rest[i + 1]
      /\ Len(rest) \in Nat /\ Len(rest) >= 1
  BY <1>1, HeadRest DEF IInv
<1>3. Begun(conn) = received[conn] - Len(rest) /\ received[conn] \in Nat
  BY <1>2 DEF Begun, IInv, Types
<1> HIDE DEF id
<1>4. Types'
  BY <1>1, <1>2 DEF IInv, Types
<1>5. PacketInv'
  <2>1. /\ Len(rest) <= received[conn]
        /\ \A i \in 1 .. Len(rest) : rest[i] = received[conn] - Len(rest) + i - 1
    BY <1>1 DEF IInv, PacketInv
  <2>2. Len(rest') <= received[conn] /\ id < received[conn] - Len(rest')
    BY <1>1, <1>2, <1>3, <2>1
  <2>3. \A i \in 1 .. Len(rest') :
          rest'[i] = received[conn] - Len(rest') + i - 1
    BY SMTT(20), <1>1, <1>2, <1>3, <2>1
  <2> QED BY <1>1, <2>2, <2>3 DEF PacketInv
<1>6. \A c \in Conns : Begun(c)' = IF c = conn THEN Begun(c) + 1 ELSE Begun(c)
  BY <1>1, <1>2, <1>3 DEF Begun
<1>7. \A c \in Conns, i \in Nat :
        /\ <<c, i>> \in dropped' <=> <<c, i>> \in dropped
        /\ Served(c, i)' <=> Served(c, i) \/ (c = conn /\ i = id)
  BY <1>1 DEF Served
<1>8. RequestInv'
  <2> SUFFICES ASSUME NEW c \in Conns, NEW i \in Nat
               PROVE  /\ i < Begun(c)' <=> Served(c, i)' \/ <<c, i>> \in dropped'
                      /\ ~(Served(c, i)' /\ <<c, i>> \in dropped')
    BY DEF RequestInv
  <2>1. /\ i < Begun(c) <=> Served(c, i) \/ <<c, i>> \in dropped
        /\ ~(Served(c, i) /\ <<c, i>> \in dropped)
    BY DEF IInv, RequestInv
  <2>2. CASE c # conn
    BY <1>6, <1>7, <2>1, <2>2
  <2>3. CASE c = conn
    <3>1. Begun(c)' = Begun(c) + 1 /\ Begun(c) = id
      BY <1>2, <1>6, <2>3
    <3>2. i < Begun(c)' <=> i < Begun(c) \/ i = id
      BY <1>2, <3>1
    <3>3. i = id => ~(i < Begun(c))
      BY <1>2, <3>1
    <3> QED BY <1>7, <2>1, <2>3, <3>2, <3>3
  <2> QED BY <2>2, <2>3
<1>9. DroppedInv'
  BY <1>1 DEF IInv, DroppedInv
<1> QED BY <1>4, <1>5, <1>8, <1>9 DEF IInv

LEMMA ReturnStep ==
  ASSUME IInv, Returns
  PROVE  IInv'
<1>1. /\ conn # 0 /\ rest = <<>> /\ conn' = 0 /\ called' = NoId
      /\ UNCHANGED <<rest, received, serving, answered, failed, dropped>>
  BY DEF Returns
<1>2. Types'
  BY <1>1 DEF IInv, Types
<1>3. PacketInv'
  BY <1>1 DEF PacketInv
<1>4. \A c \in Conns : Begun(c)' = Begun(c)
  <2>1. Len(rest) = 0
    BY <1>1
  <2> QED BY <1>1, <2>1 DEF Begun, IInv, Types, Conns
<1>5. DroppedInv' /\ RequestInv'
  BY <1>1, <1>4 DEF IInv, DroppedInv, RequestInv, Served
<1> QED BY <1>2, <1>3, <1>5 DEF IInv

LEMMA ThrowStep ==
  ASSUME IInv, Throws
  PROVE  IInv'
<1>1. /\ conn # 0 /\ called # NoId
      /\ failed' = failed \union {<<conn, called>>}
      /\ dropped' = dropped \union {<<conn, id>> : id \in Range(rest)}
      /\ conn' = 0 /\ rest' = <<>> /\ called' = NoId
      /\ UNCHANGED <<received, serving, answered>>
  BY DEF Throws
<1>2. /\ conn \in Conns /\ called \in Nat /\ received[conn] \in Nat
      /\ Len(rest) \in Nat /\ Len(rest) <= received[conn]
      /\ called < Begun(conn) /\ Begun(conn) = received[conn] - Len(rest)
  BY <1>1, LenProperties DEF IInv, Types, PacketInv, Begun
<1>3. \A id : id \in Range(rest)
                <=> id \in Nat /\ Begun(conn) <= id /\ id < received[conn]
  BY <1>1, RestIds DEF IInv
<1>4. Types'
  <2>1. <<>> \in Seq(Nat)
    OBVIOUS
  <2>2. dropped' \subseteq Conns \X Nat
    BY <1>1, <1>2, <1>3 DEF IInv, Types
  <2>3. failed' \subseteq Conns \X Nat
    BY <1>1, <1>2 DEF IInv, Types
  <2> QED BY <1>1, <2>1, <2>2, <2>3 DEF IInv, Types
<1>5. PacketInv'
  BY <1>1 DEF PacketInv
<1>6. DroppedInv'
  <2> SUFFICES ASSUME NEW c \in Conns, NEW id \in Nat, <<c, id>> \in dropped'
               PROVE  \E before \in 0 .. id - 1 : <<c, before>> \in failed'
    BY DEF DroppedInv
  <2>1. CASE <<c, id>> \in dropped
    BY <1>1, <2>1 DEF IInv, DroppedInv
  <2>2. CASE c = conn /\ id \in Range(rest)
    <3>1. called \in 0 .. id - 1
      BY <1>2, <1>3, <2>2
    <3> QED BY <1>1, <2>2, <3>1
  <2> QED BY <1>1, <2>1, <2>2
<1>7. RequestInv'
  <2> SUFFICES ASSUME NEW c \in Conns, NEW i \in Nat
               PROVE  /\ i < Begun(c)' <=> Served(c, i)' \/ <<c, i>> \in dropped'
                      /\ ~(Served(c, i)' /\ <<c, i>> \in dropped')
    BY DEF RequestInv
  <2>1. /\ i < Begun(c) <=> Served(c, i) \/ <<c, i>> \in dropped
        /\ ~(Served(c, i) /\ <<c, i>> \in dropped)
    BY DEF IInv, RequestInv
  <2>2. Served(c, i)' <=> Served(c, i)
    BY <1>1 DEF Served
  <2>3. Begun(c)' = received[c] /\ received[c] \in Nat
    BY SMTT(20), <1>1 DEF Begun, IInv, Types, Conns
  <2>4. CASE c # conn
    BY <1>1, <2>1, <2>2, <2>3, <2>4 DEF Begun
  <2>5. CASE c = conn
    <3>1. <<c, i>> \in dropped' <=>
            <<c, i>> \in dropped \/ (Begun(conn) <= i /\ i < received[conn])
      BY <1>1, <1>3, <2>5
    <3> QED BY <1>2, <2>1, <2>2, <2>3, <2>5, <3>1
  <2> QED BY <2>4, <2>5
<1> QED BY <1>4, <1>5, <1>6, <1>7 DEF IInv

LEMMA AppendRange ==
  ASSUME NEW S, NEW q \in Seq(S), NEW x \in S
  PROVE  \A y : y \in Range(Append(q, x)) <=> y \in Range(q) \/ y = x
<1>1. /\ Append(q, x) \in Seq(S) /\ Len(Append(q, x)) = Len(q) + 1
      /\ \A i \in 1 .. Len(q) : Append(q, x)[i] = q[i]
      /\ Append(q, x)[Len(q) + 1] = x
  BY AppendProperties
<1>2. /\ Len(q) \in Nat /\ DOMAIN q = 1 .. Len(q)
      /\ DOMAIN Append(q, x) = 1 .. Len(q) + 1
  BY <1>1, LenProperties
<1>3. \A i : i \in 1 .. Len(q) + 1 <=> i \in 1 .. Len(q) \/ i = Len(q) + 1
  BY <1>2
<1> QED BY <1>1, <1>2, <1>3 DEF Range

LEMMA AnswerStep ==
  ASSUME IInv, Answers
  PROVE  IInv'
<1>1. PICK c \in Conns, id \in Ids :
        /\ <<c, id>> \in serving
        /\ serving' = serving \ {<<c, id>>}
        /\ answered' = [answered EXCEPT ![c] = Append(@, id)]
  BY DEF Answers
<1>2. UNCHANGED <<conn, rest, called, received, failed, dropped>>
  BY DEF Answers
<1>3. id \in Nat /\ answered[c] \in Seq(Nat)
  BY <1>1 DEF IInv, Types
<1>4. Types'
  <2>1. Append(answered[c], id) \in Seq(Nat)
    BY <1>3, AppendProperties
  <2> QED BY <1>1, <1>2, <2>1 DEF IInv, Types
<1>5. PacketInv' /\ DroppedInv'
  BY <1>2 DEF IInv, PacketInv, DroppedInv
<1>6. \A d \in Conns : Begun(d)' = Begun(d)
  BY <1>2 DEF Begun
<1>7. \A d \in Conns, i \in Nat : Served(d, i)' <=> Served(d, i)
  <2> SUFFICES ASSUME NEW d \in Conns, NEW i \in Nat
               PROVE  Served(d, i)' <=> Served(d, i)
    OBVIOUS
  <2>1. CASE d # c
    BY <1>1, <2>1 DEF Served, IInv, Types
  <2>2. CASE d = c
    <3>1. answered'[d] = Append(answered[c], id)
      BY <1>1, <2>2 DEF IInv, Types
    <3>2. i \in Range(answered'[d]) <=> i \in Range(answered[d]) \/ i = id
      BY <1>3, <2>2, <3>1, AppendRange
    <3> QED BY <1>1, <2>2, <3>2 DEF Served
  <2> QED BY <2>1, <2>2
<1>8. RequestInv'
  BY <1>2, <1>6, <1>7 DEF IInv, RequestInv
<1> QED BY <1>4, <1>5, <1>8 DEF IInv

-----------------------------------------------------------------------------
(* The theorems.                                                           *)

LEMMA InvInit == Init => IInv
<1> SUFFICES ASSUME Init PROVE IInv
  OBVIOUS
<1>1. /\ conn = 0 /\ rest = <<>> /\ called = NoId
      /\ received = [c \in Conns |-> 0]
      /\ answered = [c \in Conns |-> <<>>]
      /\ serving = {} /\ failed = {} /\ dropped = {}
  BY DEF Init, Mqtt!Init, Mqtt!New, Tcp!Init, Tcp!New, Ws!Init, Ws!New,
         Ws2!Init, Ws2!New, Mqtt2!Init, Mqtt2!New, NoId, Mqtt!NoId, Tcp!NoId,
         Ws!NoId, Ws2!NoId, Mqtt2!NoId, Conns, Mqtt!Conns, Tcp!Conns, Ws!Conns,
         Ws2!Conns, Mqtt2!Conns
<1>2. <<>> \in Seq(Nat) /\ Range(<<>>) = {}
  BY DEF Range
<1>3. Types
  BY <1>1, <1>2 DEF Types
<1>4. PacketInv /\ DroppedInv
  BY <1>1 DEF PacketInv, DroppedInv
<1>5. RequestInv
  <2>1. \A c \in Conns : Begun(c) = 0
    BY <1>1 DEF Begun, Conns
  <2> QED BY <1>1, <1>2, <2>1 DEF RequestInv, Served
<1> QED BY <1>3, <1>4, <1>5 DEF IInv

LEMMA InvStep == IInv /\ [Next]_vars => IInv'
  BY Steps, ApartStep, ArriveStep, CallStep, ReturnStep, ThrowStep, AnswerStep
     DEF Step

\* The inductive invariant of the acceptors: what is left of a packet is the end
\* of what has arrived, and what has begun was called or dropped.
THEOREM InductiveInvariant == Spec => []IInv
  BY InvInit, InvStep, PTL DEF Spec

LEMMA InvImplies == IInv => NoLostRequest
<1> SUFFICES ASSUME IInv, NEW c \in Conns, NEW id \in 0 .. received[c] - 1
             PROVE  LET due == c = conn /\ id \in Range(rest)
                        called_ == <<c, id>> \in serving \/ id \in Range(answered[c])
                    IN  \/ due /\ ~called_ /\ <<c, id>> \notin dropped
                        \/ called_ /\ ~due /\ <<c, id>> \notin dropped
                        \/ <<c, id>> \in dropped /\ ~called_ /\ ~due
                             /\ \E before \in 0 .. id - 1 : <<c, before>> \in failed
  BY DEF NoLostRequest
<1>1. id \in Nat /\ received[c] \in Nat /\ id < received[c]
  BY DEF IInv, Types
<1>2. c = conn /\ id \in Range(rest) <=> ~(id < Begun(c))
  <2>1. CASE c = conn
    <3>1. id \in Range(rest) <=> Begun(c) <= id
      BY <1>1, <2>1, RestIds DEF IInv, Conns
    <3>2. Begun(c) \in Int
      BY <1>1, <2>1, LenProperties DEF Begun, IInv, Types
    <3> QED BY <1>1, <2>1, <3>1, <3>2
  <2>2. CASE c # conn
    BY <1>1, <2>2 DEF Begun
  <2> QED BY <2>1, <2>2
<1>3. /\ id < Begun(c) <=> Served(c, id) \/ <<c, id>> \in dropped
      /\ ~(Served(c, id) /\ <<c, id>> \in dropped)
      /\ <<c, id>> \in dropped => \E before \in 0 .. id - 1 : <<c, before>> \in failed
  BY <1>1 DEF IInv, RequestInv, DroppedInv
<1> QED BY <1>2, <1>3 DEF Served

\* In every acceptor a request that has arrived is yet to be called, was called
\* once, or was dropped behind one whose service threw (mqtt-acceptor 53-73,
\* 132-178, and the same lines of the others).
THEOREM NoRequestIsLost == Spec => []NoLostRequest
  BY InductiveInvariant, InvImplies, PTL

-----------------------------------------------------------------------------
(* The replies of a connection.                                            *)

AnyReply == [to : Conns, id : Int, error : BOOLEAN]

\* Nothing was answered, and nothing is sent.
LEMMA CarriesNothing ==
  ASSUME NEW c
  PROVE  Carries(<<>>, c, <<>>)
<1>. DEFINE at == [i \in {} |-> 0]
<1>1. DOMAIN <<>> = {} /\ at \in [{} -> {}]
  OBVIOUS
<1>. QED
  BY <1>1 DEF Carries

\* An answer is sent behind everything that was sent before.
LEMMA CarriesAnswer ==
  ASSUME NEW replies \in Seq(AnyReply), NEW c \in Conns, NEW ids \in Seq(Nat),
         NEW id \in Nat, Carries(replies, c, ids)
  PROVE  Carries(Append(replies, Reply(c, id, FALSE)), c, Append(ids, id))
<1>. DEFINE r == Append(replies, Reply(c, id, FALSE))
            a == Append(ids, id)
            n == Len(replies) + 1
            m == Len(ids) + 1
<1>1. Reply(c, id, FALSE) \in AnyReply
  BY DEF Reply, AnyReply
<1>2. /\ Len(replies) \in Nat /\ DOMAIN replies = 1 .. Len(replies)
      /\ Len(ids) \in Nat /\ DOMAIN ids = 1 .. Len(ids)
  BY LenProperties
<1>3. /\ DOMAIN r = 1 .. n /\ r[n] = Reply(c, id, FALSE)
      /\ \A k \in DOMAIN replies : r[k] = replies[k]
  <2>. DEFINE x == Reply(c, id, FALSE)
  <2>0. x \in AnyReply
    BY <1>1
  <2>. HIDE DEF x
  <2>1. /\ Append(replies, x) \in Seq(AnyReply) /\ Len(Append(replies, x)) = n
        /\ \A k \in 1 .. Len(replies) : Append(replies, x)[k] = replies[k]
        /\ Append(replies, x)[n] = x
    BY <2>0, AppendProperties
  <2>2. DOMAIN Append(replies, x) = 1 .. n
    BY <2>1, LenProperties
  <2>. QED
    BY <1>2, <2>1, <2>2 DEF x
<1>4. /\ DOMAIN a = 1 .. m /\ a[m] = id
      /\ \A i \in DOMAIN ids : a[i] = ids[i]
  BY <1>2, AppendProperties
<1>5. /\ \A k \in DOMAIN r : k \in DOMAIN replies \/ k = n
      /\ \A i \in DOMAIN a : i \in DOMAIN ids \/ i = m
      /\ n \in DOMAIN r /\ n \notin DOMAIN replies /\ m \in DOMAIN a /\ m \notin DOMAIN ids
      /\ DOMAIN replies \subseteq DOMAIN r /\ DOMAIN ids \subseteq DOMAIN a
      /\ \A k \in DOMAIN replies : k < n
      /\ \A i \in DOMAIN ids : i < m
      /\ n \in Nat /\ m \in Nat /\ DOMAIN ids \subseteq Nat /\ DOMAIN replies \subseteq Nat
  BY <1>2, <1>3, <1>4
<1>. HIDE DEF r, a, n, m
<1>6. PICK at \in [DOMAIN ids -> DOMAIN replies] :
        /\ \A i, j \in DOMAIN ids : i < j => at[i] < at[j]
        /\ \A i \in DOMAIN ids : replies[at[i]] = Reply(c, ids[i], FALSE)
        /\ \A k \in DOMAIN replies : replies[k].error \/ \E i \in DOMAIN ids : at[i] = k
  BY DEF Carries
<1>. DEFINE to == [i \in DOMAIN a |-> IF i = m THEN n ELSE at[i]]
<1>7. /\ to \in [DOMAIN a -> DOMAIN r]
      /\ to[m] = n
      /\ \A i \in DOMAIN ids : to[i] = at[i] /\ at[i] \in DOMAIN replies
  BY <1>5, <1>6
<1>. HIDE DEF to
<1>8. \A i, j \in DOMAIN a : i < j => to[i] < to[j]
  <2>. SUFFICES ASSUME NEW i \in DOMAIN a, NEW j \in DOMAIN a, i < j
                PROVE  to[i] < to[j]
    OBVIOUS
  <2>1. i \in DOMAIN ids
    <3>1. j \in DOMAIN ids \/ j = m
      BY <1>5
    <3>2. i # m
      BY <1>5, <3>1
    <3>. QED
      BY <1>5, <3>2
  <2>2. CASE j = m
    BY <1>5, <1>7, <2>1, <2>2
  <2>3. CASE j \in DOMAIN ids
    BY <1>6, <1>7, <2>1, <2>3
  <2>. QED
    BY <1>5, <2>2, <2>3
<1>9. ASSUME NEW i \in DOMAIN a
      PROVE  r[to[i]] = Reply(c, a[i], FALSE)
  <2>1. CASE i = m
    BY <1>3, <1>4, <1>7, <2>1
  <2>2. CASE i \in DOMAIN ids
    <3>1. r[to[i]] = replies[at[i]]
      BY <1>3, <1>7, <2>2
    <3>. QED
      BY <1>4, <1>6, <2>2, <3>1
  <2>. QED
    BY <1>5, <2>1, <2>2
<1>10. \A k \in DOMAIN r : r[k].error \/ \E i \in DOMAIN a : to[i] = k
  BY <1>3, <1>5, <1>6, <1>7
<1>11. Carries(r, c, a)
  BY <1>7, <1>8, <1>9, <1>10 DEF Carries
<1>. QED
  BY <1>11 DEF r, a

\* A reply queued behind the others is sent behind them.
LEMMA AppendBehind ==
  ASSUME NEW w \in Seq(AnyReply), NEW q \in Seq(AnyReply), NEW r \in AnyReply
  PROVE  /\ w \o q \in Seq(AnyReply)
         /\ w \o Append(q, r) = Append(w \o q, r)
<1>1. w \o q \in Seq(AnyReply)
  BY ConcatProperties
<1>. QED
  BY <1>1

\* An error is sent before the replies that are queued.
LEMMA CarriesError ==
  ASSUME NEW w \in Seq(AnyReply), NEW q \in Seq(AnyReply), NEW c, NEW ids \in Seq(Nat),
         NEW e \in AnyReply, e.error, Carries(w \o q, c, ids)
  PROVE  Carries((w \o <<e>>) \o q, c, ids)
<1>. DEFINE s == w \o q
            t == (w \o <<e>>) \o q
            n == Len(w)
            Past(k) == IF k <= n THEN k ELSE k + 1
<1>1. /\ n \in Nat /\ Len(q) \in Nat /\ DOMAIN s = 1 .. n + Len(q)
      /\ \A k \in 1 .. n : s[k] = w[k]
      /\ \A k \in 1 .. Len(q) : s[n + k] = q[k]
  BY LenProperties, ConcatProperties
<1>2. /\ w \o <<e>> \in Seq(AnyReply) /\ Len(w \o <<e>>) = n + 1
      /\ \A k \in 1 .. n : (w \o <<e>>)[k] = w[k]
      /\ (w \o <<e>>)[n + 1] = e
  BY <1>1
<1>3. /\ DOMAIN t = 1 .. n + 1 + Len(q)
      /\ \A k \in 1 .. n + 1 : t[k] = (w \o <<e>>)[k]
      /\ \A k \in 1 .. Len(q) : t[n + 1 + k] = q[k]
  BY <1>1, <1>2, LenProperties, ConcatProperties
<1>4. /\ \A k \in 1 .. n : t[k] = w[k]
      /\ t[n + 1] = e
  BY <1>1, <1>2, <1>3
<1>. HIDE DEF s, t, n, Past
<1>5. \A k \in DOMAIN s : Past(k) \in DOMAIN t /\ t[Past(k)] = s[k]
  <2>. SUFFICES ASSUME NEW k \in DOMAIN s
                PROVE  Past(k) \in DOMAIN t /\ t[Past(k)] = s[k]
    OBVIOUS
  <2>1. CASE k <= n
    BY <1>1, <1>3, <1>4, <2>1 DEF Past
  <2>2. CASE ~(k <= n)
    <3>1. k - n \in 1 .. Len(q) /\ k = n + (k - n) /\ k + 1 = n + 1 + (k - n)
      BY <1>1, <2>2
    <3>2. s[k] = q[k - n] /\ t[k + 1] = q[k - n]
      BY <1>1, <1>3, <3>1
    <3>3. Past(k) = k + 1
      BY <2>2 DEF Past
    <3>4. k + 1 \in DOMAIN t
      BY <1>1, <1>3, <2>2
    <3>. QED
      BY <3>2, <3>3, <3>4
  <2>. QED
    BY <2>1, <2>2
<1>6. \A k \in DOMAIN t : t[k] = e \/ \E l \in DOMAIN s : k = Past(l)
  <2>. SUFFICES ASSUME NEW k \in DOMAIN t, k # n + 1
                PROVE  \E l \in DOMAIN s : k = Past(l)
    BY <1>4
  <2>1. CASE k <= n
    BY <1>1, <1>3, <2>1 DEF Past
  <2>2. CASE ~(k <= n)
    <3>1. k - 1 \in DOMAIN s /\ ~(k - 1 <= n) /\ (k - 1) + 1 = k
      BY <1>1, <1>3, <2>2
    <3>2. k = Past(k - 1)
      BY <3>1 DEF Past
    <3>. QED
      BY <3>1, <3>2
  <2>. QED
    BY <2>1, <2>2
<1>7. \A k, l \in DOMAIN s : k < l => Past(k) < Past(l)
  BY <1>1 DEF Past
<1>8. PICK at \in [DOMAIN ids -> DOMAIN s] :
        /\ \A i, j \in DOMAIN ids : i < j => at[i] < at[j]
        /\ \A i \in DOMAIN ids : s[at[i]] = Reply(c, ids[i], FALSE)
        /\ \A k \in DOMAIN s : s[k].error \/ \E i \in DOMAIN ids : at[i] = k
  BY DEF Carries, s
<1>. DEFINE to == [i \in DOMAIN ids |-> Past(at[i])]
<1>9. /\ to \in [DOMAIN ids -> DOMAIN t]
      /\ \A i, j \in DOMAIN ids : i < j => to[i] < to[j]
      /\ \A i \in DOMAIN ids : t[to[i]] = Reply(c, ids[i], FALSE)
  BY <1>5, <1>7, <1>8
<1>10. \A k \in DOMAIN t : t[k].error \/ \E i \in DOMAIN ids : to[i] = k
  BY <1>5, <1>6, <1>8
<1>11. Carries(t, c, ids)
  BY <1>9, <1>10 DEF Carries
<1>. QED
  BY <1>11 DEF t

-----------------------------------------------------------------------------
(* The inductive invariant of the replies.                                 *)

\* Without a queue the tcp acceptor keeps its connections apart as well.
KeptApart == kind = "tcp" => ~bufferMsg

\* What AnswersInOrder is promised for.
Ordered == kind \in {"tcp", "mqtt2"} => ~bufferMsg

ReplyTypes ==
  /\ bufferMsg \in BOOLEAN /\ curId \in Nat \ {0} /\ open \subseteq Conns
  /\ written \in [Conns -> Seq(AnyReply)]
  /\ msgQueues \in [DOMAIN msgQueues -> Seq(AnyReply)]

\* A connection that is yet to come has sent and been sent nothing.
FutureInv ==
  /\ conn < curId
  /\ \A k \in DOMAIN sockets : sockets[k] \in 1 .. curId - 1
  /\ \A c \in Conns, id \in Nat : <<c, id>> \in serving => c < curId
  /\ \A c \in Conns : c >= curId =>
       /\ c \notin open /\ c \notin DOMAIN msgQueues
       /\ answered[c] = <<>> /\ written[c] = <<>>

\* Connections are known under their keys, and but for those of tcp an open one
\* is known.
KeysInv ==
  /\ \A k \in DOMAIN sockets : Key(sockets[k]) = k
  /\ kind # "tcp" => open \subseteq DOMAIN sockets

\* Replies are queued, and sent, for the connection whose request they answer.
RepliesInv ==
  /\ ~bufferMsg => DOMAIN msgQueues = {}
  /\ KeptApart =>
       /\ \A k \in DOMAIN msgQueues, i \in Nat :
            i \in DOMAIN msgQueues[k] => msgQueues[k][i].to = k
       /\ RepliesReachRequester

ReplyInv == ReplyTypes /\ FutureInv /\ KeysInv /\ RepliesInv /\ AnswersInOrder

-----------------------------------------------------------------------------
(* What a step does to the replies.                                        *)

\* No reply is made or moved.
Rests ==
  /\ conn' \in {0, conn} \/ (conn' \in Conns /\ conn' < curId)
  /\ serving' \subseteq serving \union {<<conn, id>> : id \in Nat}
  /\ open' \subseteq open /\ (kind # "ws2" => UNCHANGED open)
  /\ waiting' \subseteq waiting
  /\ UNCHANGED <<kind, bufferMsg, curId, sockets, msgQueues, answered, written>>

Admits ==
  /\ curId <= MaxConns
  /\ curId' = curId + 1
  /\ open' = open \union {curId} \/ (kind = "ws" /\ UNCHANGED open)
  /\ waiting' \subseteq waiting \union {curId}
  /\ sockets' = [k \in DOMAIN sockets \union {Key(curId)} |->
                   IF k = Key(curId) THEN curId ELSE sockets[k]]
  /\ UNCHANGED <<kind, bufferMsg, msgQueues, conn, serving, answered, written>>

Leaves ==
  /\ \E c \in Conns :
       /\ open' = open \ {c}
       /\ sockets' = Restrict(sockets, DOMAIN sockets \ {Key(c)})
       /\ msgQueues' = Restrict(msgQueues, DOMAIN msgQueues \ {Key(c)})
  /\ waiting' \subseteq waiting
  /\ UNCHANGED <<kind, bufferMsg, curId, conn, serving, answered, written>>

\* The error of a service goes past the queue.
Fails ==
  /\ conn # 0 /\ conn' = 0
  /\ \E id \in {called, NoId} : DoSend(conn, <<Reply(conn, id, TRUE)>>)
  /\ UNCHANGED <<kind, bufferMsg, curId, open, waiting, sockets, msgQueues, serving, answered>>

\* A service calls back: the reply is queued, sent, or lost with its connection.
CallsBack ==
  /\ \E c \in Conns, id \in Ids :
       /\ <<c, id>> \in serving
       /\ serving' = serving \ {<<c, id>>}
       /\ answered' = [answered EXCEPT ![c] = Append(@, id)]
       /\ \/ bufferMsg /\ Enqueue(c, Reply(c, id, FALSE)) /\ UNCHANGED written
          \/ ~bufferMsg /\ DoSend(c, <<Reply(c, id, FALSE)>>) /\ UNCHANGED msgQueues
          \/ c \notin open /\ UNCHANGED <<written, msgQueues>>
  /\ UNCHANGED <<kind, bufferMsg, curId, open, waiting, sockets, conn>>

Flushes ==
  /\ msgQueues' = Flushed
  /\ \/ written' = [c \in Conns |-> FlushedTo(c)]
     \/ kind = "mqtt2" /\ UNCHANGED written
  /\ UNCHANGED <<kind, bufferMsg, curId, open, waiting, sockets, conn, serving, answered>>

ReplyStep == Rests \/ Admits \/ Leaves \/ Fails \/ CallsBack \/ Flushes

LEMMA MqttReplies ==
  ASSUME Types, kind = "mqtt", Mqtt!Next
  PROVE  ReplyStep
<1>. USE DEF Mqtt!gateway, Mqtt!links, Mqtt!running, Mqtt!history
<1>1. CASE Mqtt!Accept
  BY <1>1 DEF Mqtt!Accept, Mqtt!Admit, Mqtt!Key, Key, Admits, ReplyStep
<1>2. CASE Mqtt!Flush
  BY <1>2 DEF Mqtt!Flush, Mqtt!FlushQueues, Mqtt!Flushed, Flushed, Mqtt!FlushedTo, FlushedTo,
       Mqtt!Key, Key, Mqtt!Conns, Conns, Flushes, ReplyStep
<1>3. ASSUME NEW c \in Conns, Mqtt!SocketClose(c)
      PROVE  ReplyStep
  BY <1>3 DEF Mqtt!SocketClose, Mqtt!Leave, Mqtt!Key, Key, Mqtt!Restrict, Restrict,
       Leaves, ReplyStep
<1>4. ASSUME NEW c \in Conns, NEW alone \in BOOLEAN, NEW n \in 1 .. MaxBatch,
             Mqtt!Publish(c, alone, n)
      PROVE  ReplyStep
  BY <1>4 DEF Mqtt!Publish, Mqtt!Arrive, Rests, ReplyStep
<1>5. CASE Mqtt!ProcessMsg
  <2>1. Head(rest) \in Nat
    BY <1>5, HeadTailProperties DEF Mqtt!ProcessMsg, Mqtt!Call, Types
  <2>. QED
    BY <1>5, <2>1 DEF Mqtt!ProcessMsg, Mqtt!Call, Rests, ReplyStep
<1>6. CASE Mqtt!PublishDone
  BY <1>6 DEF Mqtt!PublishDone, Mqtt!Return, Rests, ReplyStep
<1>7. CASE Mqtt!Throw
  <2>1. (IF single THEN called ELSE NoId) \in {called, NoId}
    OBVIOUS
  <2>. QED
    BY <1>7, <2>1 DEF Mqtt!Throw, Mqtt!DropRest, Mqtt!DoSend, DoSend, Mqtt!Reply, Reply,
       Mqtt!NoId, NoId, Fails, ReplyStep
<1>8. ASSUME NEW c \in Conns, NEW id \in Ids, Mqtt!Answer(c, id)
      PROVE  ReplyStep
  BY <1>8 DEF Mqtt!Answer, Mqtt!Enqueue, Enqueue, Mqtt!DoSend, DoSend, Mqtt!Reply, Reply,
       Mqtt!Key, Key, CallsBack, ReplyStep
<1>. QED
  BY <1>1, <1>2, <1>3, <1>4, <1>5, <1>6, <1>7, <1>8
  DEF Mqtt!Next, Mqtt!Conns, Conns, Mqtt!Ids, Ids

LEMMA TcpReplies ==
  ASSUME Types, kind = "tcp", Tcp!Next
  PROVE  ReplyStep
<1>. USE DEF Tcp!gateway, Tcp!links, Tcp!running, Tcp!history
<1>1. CASE Tcp!Accept
  BY <1>1 DEF Tcp!Accept, Tcp!Admit, Tcp!Key, Key, Admits, ReplyStep
<1>2. CASE Tcp!Flush
  BY <1>2 DEF Tcp!Flush, Tcp!FlushQueues, Tcp!Flushed, Flushed, Tcp!FlushedTo, FlushedTo,
       Tcp!Key, Key, Tcp!Conns, Conns, Flushes, ReplyStep
<1>3. ASSUME NEW c \in Conns, Tcp!SocketClose(c)
      PROVE  ReplyStep
  BY <1>3 DEF Tcp!SocketClose, Tcp!Leave, Tcp!Key, Key, Tcp!Restrict, Restrict,
       Leaves, ReplyStep
<1>4. ASSUME NEW c \in Conns, NEW alone \in BOOLEAN, NEW n \in 1 .. MaxBatch,
             Tcp!Data(c, alone, n)
      PROVE  ReplyStep
  BY <1>4 DEF Tcp!Data, Tcp!Arrive, Rests, ReplyStep
<1>5. CASE Tcp!ProcessMsg
  <2>1. Head(rest) \in Nat
    BY <1>5, HeadTailProperties DEF Tcp!ProcessMsg, Tcp!Call, Types
  <2>. QED
    BY <1>5, <2>1 DEF Tcp!ProcessMsg, Tcp!Call, Rests, ReplyStep
<1>6. CASE Tcp!DataDone
  BY <1>6 DEF Tcp!DataDone, Tcp!Return, Rests, ReplyStep
<1>7. CASE Tcp!Throw
  BY <1>7 DEF Tcp!Throw, Tcp!DropRest, Rests, ReplyStep
<1>8. ASSUME NEW c \in Conns, NEW id \in Ids, Tcp!Answer(c, id)
      PROVE  ReplyStep
  BY <1>8 DEF Tcp!Answer, Tcp!Enqueue, Enqueue, Tcp!DoSend, DoSend, Tcp!Reply, Reply,
       Tcp!Key, Key, CallsBack, ReplyStep
<1>. QED
  BY <1>1, <1>2, <1>3, <1>4, <1>5, <1>6, <1>7, <1>8
  DEF Tcp!Next, Tcp!Conns, Conns, Tcp!Ids, Ids

LEMMA WsReplies ==
  ASSUME Types, kind = "ws", Ws!Next
  PROVE  ReplyStep
<1>. USE DEF Ws!gateway, Ws!links, Ws!running, Ws!history
<1>1. CASE Ws!Accept
  BY <1>1 DEF Ws!Accept, Ws!Admit, Ws!Key, Key, Admits, ReplyStep
<1>11. CASE Ws!AcceptRejected
  BY <1>11 DEF Ws!AcceptRejected, Key, Admits, ReplyStep
<1>2. CASE Ws!Flush
  BY <1>2 DEF Ws!Flush, Ws!FlushQueues, Ws!Flushed, Flushed, Ws!FlushedTo, FlushedTo,
       Ws!Key, Key, Ws!Conns, Conns, Flushes, ReplyStep
<1>3. ASSUME NEW c \in Conns, Ws!Permit(c)
      PROVE  ReplyStep
  BY <1>3 DEF Ws!Permit, Rests, ReplyStep
<1>4. ASSUME NEW c \in Conns, Ws!Reject(c)
      PROVE  ReplyStep
  BY <1>4 DEF Ws!Reject, Ws!Leave, Ws!Key, Key, Ws!Restrict, Restrict,
       Leaves, ReplyStep
<1>5. ASSUME NEW c \in Conns, Ws!SocketClose(c)
      PROVE  ReplyStep
  BY <1>5 DEF Ws!SocketClose, Ws!Leave, Ws!Key, Key, Ws!Restrict, Restrict,
       Leaves, ReplyStep
<1>6. ASSUME NEW c \in Conns, NEW alone \in BOOLEAN, NEW n \in 1 .. MaxBatch,
             Ws!Message(c, alone, n)
      PROVE  ReplyStep
  BY <1>6 DEF Ws!Message, Ws!Arrive, Rests, ReplyStep
<1>7. CASE Ws!ProcessMsg
  <2>1. Head(rest) \in Nat
    BY <1>7, HeadTailProperties DEF Ws!ProcessMsg, Ws!Call, Types
  <2>. QED
    BY <1>7, <2>1 DEF Ws!ProcessMsg, Ws!Call, Rests, ReplyStep
<1>8. CASE Ws!MessageDone
  BY <1>8 DEF Ws!MessageDone, Ws!Return, Rests, ReplyStep
<1>9. CASE Ws!Throw
  BY <1>9 DEF Ws!Throw, Ws!DropRest, Rests, ReplyStep
<1>10. ASSUME NEW c \in Conns, NEW id \in Ids, Ws!Answer(c, id)
      PROVE  ReplyStep
  BY <1>10 DEF Ws!Answer, Ws!Enqueue, Enqueue, Ws!DoSend, DoSend, Ws!Reply, Reply,
       Ws!Key, Key, CallsBack, ReplyStep
<1>. QED
  BY <1>1, <1>2, <1>3, <1>4, <1>5, <1>6, <1>7, <1>8, <1>9, <1>10, <1>11
  DEF Ws!Next, Ws!Conns, Conns, Ws!Ids, Ids

LEMMA Ws2Replies ==
  ASSUME Types, kind = "ws2", Ws2!Next
  PROVE  ReplyStep
<1>. USE DEF Ws2!gateway, Ws2!links, Ws2!running, Ws2!history
<1>1. CASE Ws2!Accept
  BY <1>1 DEF Ws2!Accept, Ws2!Admit, Ws2!Key, Key, Admits, ReplyStep
<1>2. CASE Ws2!FlushThrows
  BY <1>2 DEF Ws2!FlushThrows, Rests, ReplyStep
<1>3. CASE Ws2!FlushQueues
  BY <1>3 DEF Ws2!FlushQueues, Ws2!Flushed, Flushed, Ws2!FlushedTo, FlushedTo,
       Ws2!Key, Key, Ws2!Conns, Conns, Flushes, ReplyStep
<1>4. CASE Ws2!Flush
  BY <1>4, <1>2, <1>3 DEF Ws2!Flush
<1>5. ASSUME NEW c \in Conns, Ws2!Closing(c)
      PROVE  ReplyStep
  BY <1>5 DEF Ws2!Closing, Rests, ReplyStep
<1>6. ASSUME NEW c \in Conns, Ws2!Rejected(c)
      PROVE  ReplyStep
  BY <1>6 DEF Ws2!Rejected, Ws2!Closing, Rests, ReplyStep
<1>7. ASSUME NEW c \in Conns, Ws2!Permitted(c)
      PROVE  ReplyStep
  BY <1>7 DEF Ws2!Permitted, Ws2!Closing, Rests, ReplyStep
<1>8. ASSUME NEW c \in Conns, Ws2!SocketClose(c)
      PROVE  ReplyStep
  BY <1>8 DEF Ws2!SocketClose, Ws2!Key, Key, Ws2!Restrict, Restrict,
       Leaves, ReplyStep
<1>9. ASSUME NEW c \in Conns, NEW alone \in BOOLEAN, NEW n \in 1 .. MaxBatch,
             Ws2!Message(c, alone, n)
      PROVE  ReplyStep
  BY <1>9 DEF Ws2!Message, Ws2!Arrive, Rests, ReplyStep
<1>10. CASE Ws2!ProcessMsg
  <2>1. Head(rest) \in Nat
    BY <1>10, HeadTailProperties DEF Ws2!ProcessMsg, Ws2!Call, Types
  <2>. QED
    BY <1>10, <2>1 DEF Ws2!ProcessMsg, Ws2!Call, Rests, ReplyStep
<1>11. CASE Ws2!MessageDone
  BY <1>11 DEF Ws2!MessageDone, Ws2!Return, Rests, ReplyStep
<1>12. CASE Ws2!Throw
  BY <1>12 DEF Ws2!Throw, Ws2!DropRest, Rests, ReplyStep
<1>13. ASSUME NEW c \in Conns, NEW id \in Ids, Ws2!ReplyOpen(c, id)
      PROVE  ReplyStep
  BY <1>13 DEF Ws2!ReplyOpen, Ws2!Answer, Ws2!Enqueue, Enqueue, Ws2!DoSend, DoSend,
       Ws2!Reply, Reply, Ws2!Key, Key, CallsBack, ReplyStep
<1>14. ASSUME NEW c \in Conns, NEW id \in Ids, Ws2!ReplyToClosed(c, id)
      PROVE  ReplyStep
  BY <1>14 DEF Ws2!ReplyToClosed, CallsBack, ReplyStep
<1>. QED
  BY <1>1, <1>2, <1>3, <1>4, <1>5, <1>6, <1>7, <1>8, <1>9, <1>10, <1>11, <1>12, <1>13, <1>14
  DEF Ws2!Next, Ws2!Conns, Conns, Ws2!Ids, Ids

LEMMA Mqtt2Replies ==
  ASSUME Types, kind = "mqtt2", Mqtt2!Next
  PROVE  ReplyStep
<1>. USE DEF Mqtt2!gateway, Mqtt2!links, Mqtt2!running, Mqtt2!history
<1>1. CASE Mqtt2!Accept
  BY <1>1 DEF Mqtt2!Accept, Mqtt2!Admit, Mqtt2!Key, Key, Admits, ReplyStep
<1>2. CASE Mqtt2!Flush
  BY <1>2 DEF Mqtt2!Flush, Mqtt2!Flushed, Flushed, Flushes, Rests, ReplyStep
<1>3. ASSUME NEW c \in Conns, Mqtt2!Handshake(c)
      PROVE  ReplyStep
  BY <1>3 DEF Mqtt2!Handshake, Rests, ReplyStep
<1>4. ASSUME NEW c \in Conns, Mqtt2!SocketClose(c)
      PROVE  ReplyStep
  BY <1>4 DEF Mqtt2!SocketClose, Mqtt2!Leave, Mqtt2!Key, Key, Mqtt2!Restrict, Restrict,
       Leaves, ReplyStep
<1>5. ASSUME NEW c \in Conns, Mqtt2!Publish(c)
      PROVE  ReplyStep
  BY <1>5 DEF Mqtt2!Publish, Mqtt2!Arrive, Rests, ReplyStep
<1>6. CASE Mqtt2!ProcessMsg
  <2>1. Head(rest) \in Nat
    BY <1>6, HeadTailProperties DEF Mqtt2!ProcessMsg, Mqtt2!Call, Types
  <2>. QED
    BY <1>6, <2>1 DEF Mqtt2!ProcessMsg, Mqtt2!Call, Rests, ReplyStep
<1>7. CASE Mqtt2!PublishDone
  BY <1>7 DEF Mqtt2!PublishDone, Mqtt2!Return, Rests, ReplyStep
<1>8. CASE Mqtt2!Throw
  BY <1>8 DEF Mqtt2!Throw, Mqtt2!DropRest, Rests, ReplyStep
<1>9. ASSUME NEW c \in Conns, NEW id \in Ids, Mqtt2!Answer(c, id)
      PROVE  ReplyStep
  BY <1>9 DEF Mqtt2!Answer, Mqtt2!Enqueue, Enqueue, Mqtt2!DoSend, DoSend, Mqtt2!Reply, Reply,
       Mqtt2!Key, Key, CallsBack, ReplyStep
<1>. QED
  BY <1>1, <1>2, <1>3, <1>4, <1>5, <1>6, <1>7, <1>8, <1>9
  DEF Mqtt2!Next, Mqtt2!Conns, Conns, Mqtt2!Ids, Ids

LEMMA ReplySteps ==
  ASSUME Types, [Next]_vars
  PROVE  ReplyStep
<1>1. CASE Start \/ Stop \/ UNCHANGED vars
  BY <1>1 DEF Start, Stop, vars, gateway, links, running, history, Rests, ReplyStep
<1>. QED
  BY <1>1, MqttReplies, TcpReplies, WsReplies, Ws2Replies, Mqtt2Replies DEF Next

-----------------------------------------------------------------------------
(* The replies are kept.                                                   *)

\* Where queues are under the keys of their connections, or there are none.
LEMMA QueueType ==
  ASSUME ReplyTypes, NEW c
  PROVE  Queue(c) \in Seq(AnyReply)
<1>1. <<>> \in Seq(AnyReply)
  OBVIOUS
<1>. QED
  BY <1>1 DEF Queue, ReplyTypes

LEMMA RestsReplies ==
  ASSUME Types, ReplyInv, Rests
  PROVE  ReplyInv'
<1>1. /\ \/ conn' = 0 \/ conn' = conn \/ (conn' \in Conns /\ conn' < curId)
      /\ serving' \subseteq serving \union {<<conn, id>> : id \in Nat}
      /\ open' \subseteq open
      /\ UNCHANGED <<kind, bufferMsg, curId, sockets, msgQueues, answered, written>>
  BY DEF Rests
<1>2. ReplyTypes' /\ KeysInv' /\ RepliesInv'
  BY <1>1 DEF ReplyInv, ReplyTypes, KeysInv, Key, RepliesInv, KeptApart, RepliesReachRequester
<1>3. FutureInv'
  <2>1. conn' < curId'
    BY <1>1 DEF ReplyInv, FutureInv, ReplyTypes
  <2>2. \A c \in Conns, id \in Nat : <<c, id>> \in serving' => c < curId'
    BY <1>1 DEF ReplyInv, FutureInv
  <2>. QED
    BY <1>1, <2>1, <2>2 DEF ReplyInv, FutureInv
<1>4. AnswersInOrder'
  BY <1>1 DEF ReplyInv, AnswersInOrder, Queue
<1>. QED
  BY <1>2, <1>3, <1>4 DEF ReplyInv

LEMMA AdmitsReplies ==
  ASSUME Types, ReplyInv, Admits
  PROVE  ReplyInv'
<1>1. /\ curId <= MaxConns /\ curId' = curId + 1
      /\ open' = open \union {curId} \/ UNCHANGED open
      /\ UNCHANGED <<kind, bufferMsg, msgQueues, conn, serving, answered, written>>
  BY DEF Admits
<1>2. /\ curId \in Nat \ {0} /\ curId \in Conns
  BY <1>1, BoundsAssumption DEF ReplyInv, ReplyTypes, Conns
<1>3. ReplyTypes' /\ RepliesInv'
  BY <1>1, <1>2 DEF ReplyInv, ReplyTypes, RepliesInv, KeptApart, RepliesReachRequester
<1>4. KeysInv'
  <2>1. sockets' = [k \in DOMAIN sockets \union {Key(curId)} |->
                      IF k = Key(curId) THEN curId ELSE sockets[k]]
    BY DEF Admits
  <2>. QED
    BY <1>1, <2>1 DEF ReplyInv, KeysInv, Key
<1>5. FutureInv'
  <2>1. \A c \in Conns : c >= curId' => c >= curId /\ c # curId
    BY <1>1, <1>2 DEF Conns
  <2>2. \A c \in Conns \union {0} : c < curId => c < curId'
    BY <1>1, <1>2 DEF Conns
  <2>3. conn \in Conns \union {0}
    BY DEF Types
  <2>4. \A k \in DOMAIN sockets' : sockets'[k] \in 1 .. curId' - 1
    <3>1. \A k \in DOMAIN sockets' :
            sockets'[k] = curId \/ (k \in DOMAIN sockets /\ sockets'[k] = sockets[k])
      BY DEF Admits
    <3>. QED
      BY <1>1, <1>2, <3>1 DEF ReplyInv, FutureInv
  <2>. QED
    BY <1>1, <2>1, <2>2, <2>3, <2>4 DEF ReplyInv, FutureInv
<1>6. AnswersInOrder'
  <2>. SUFFICES ASSUME Ordered, NEW c \in open'
                PROVE  Carries(written[c] \o Queue(c), c, answered[c])
    BY <1>1 DEF AnswersInOrder, Ordered, Queue
  <2>1. CASE c \in open
    BY <2>1 DEF ReplyInv, AnswersInOrder, Ordered
  <2>2. CASE c = curId
    <3>1. written[c] = <<>> /\ Queue(c) = <<>> /\ answered[c] = <<>>
      BY <1>2, <2>2 DEF ReplyInv, FutureInv, Queue
    <3>2. <<>> \o <<>> = <<>>
      OBVIOUS
    <3>. QED
      BY <3>1, <3>2, CarriesNothing
  <2>. QED
    BY <1>1, <2>1, <2>2
<1>. QED
  BY <1>3, <1>4, <1>5, <1>6 DEF ReplyInv

LEMMA LeavesReplies ==
  ASSUME Types, ReplyInv, Leaves
  PROVE  ReplyInv'
<1>1. PICK c \in Conns :
        /\ open' = open \ {c}
        /\ sockets' = Restrict(sockets, DOMAIN sockets \ {Key(c)})
        /\ msgQueues' = Restrict(msgQueues, DOMAIN msgQueues \ {Key(c)})
  BY DEF Leaves
<1>2. UNCHANGED <<kind, bufferMsg, curId, conn, serving, answered, written>>
  BY DEF Leaves
<1>3. /\ DOMAIN msgQueues' = DOMAIN msgQueues \ {Key(c)}
      /\ \A k \in DOMAIN msgQueues' : msgQueues'[k] = msgQueues[k]
      /\ msgQueues' \in [DOMAIN msgQueues' -> Seq(AnyReply)]
  BY <1>1 DEF Restrict, ReplyInv, ReplyTypes
<1>4. /\ DOMAIN sockets' = DOMAIN sockets \ {Key(c)}
      /\ \A k \in DOMAIN sockets' : sockets'[k] = sockets[k]
  BY <1>1 DEF Restrict
<1>5. ReplyTypes' /\ RepliesInv' /\ FutureInv'
  <2>1. ReplyTypes'
    BY <1>1, <1>2, <1>3 DEF ReplyInv, ReplyTypes
  <2>2. FutureInv'
    BY <1>1, <1>2, <1>3, <1>4 DEF ReplyInv, FutureInv
  <2>3. KeptApart' <=> KeptApart
    BY <1>2 DEF KeptApart
  <2>4. RepliesReachRequester' <=> RepliesReachRequester
    BY <1>2 DEF RepliesReachRequester
  <2>5. ASSUME KeptApart, NEW k \in DOMAIN msgQueues', NEW i \in Nat,
               i \in DOMAIN msgQueues'[k]
        PROVE  msgQueues'[k][i].to = k
    BY <1>3, <2>5 DEF ReplyInv, RepliesInv
  <2>6. ~bufferMsg' => DOMAIN msgQueues' = {}
    BY <1>2, <1>3 DEF ReplyInv, RepliesInv
  <2>7. RepliesInv'
    BY <2>3, <2>4, <2>5, <2>6 DEF ReplyInv, RepliesInv
  <2>. QED
    BY <2>1, <2>2, <2>7
<1>6. KeysInv'
  BY <1>1, <1>2, <1>4 DEF ReplyInv, KeysInv, Key
<1>7. AnswersInOrder'
  <2>. SUFFICES ASSUME Ordered, NEW d \in open'
                PROVE  Carries(written[d] \o Queue(d)', d, answered[d])
    BY <1>2 DEF AnswersInOrder, Ordered
  <2>1. d \in open /\ d # c
    BY <1>1
  <2>2. Queue(d)' = Queue(d)
    <3>1. CASE kind = "tcp"
      BY <1>3, <3>1 DEF Ordered, Queue, ReplyInv, RepliesInv
    <3>2. CASE kind # "tcp"
      <4>1. Key(c) = c
        BY <3>2 DEF Key
      <4>. QED
        BY <1>3, <2>1, <4>1 DEF Queue
    <3>. QED
      BY <3>1, <3>2
  <2>. QED
    BY <2>1, <2>2 DEF ReplyInv, AnswersInOrder, Ordered
<1>. QED
  BY <1>5, <1>6, <1>7 DEF ReplyInv

\* Replies to connection c are handed to its socket.
LEMMA Sent ==
  ASSUME ReplyTypes, NEW c \in Conns, NEW reply \in AnyReply, DoSend(c, <<reply>>)
  PROVE  /\ written' \in [Conns -> Seq(AnyReply)]
         /\ written'[c] = written[c] \o <<reply>>
         /\ written'[c] = Append(written[c], reply)
         /\ \A d \in Conns \ {c} : written'[d] = written[d]
         /\ \A i \in DOMAIN written'[c] :
              \/ i \in DOMAIN written[c] /\ written'[c][i] = written[c][i]
              \/ written'[c][i] = reply
<1>1. written[c] \in Seq(AnyReply)
  BY DEF ReplyTypes
<1>2. written[c] \o <<reply>> = Append(written[c], reply)
  BY <1>1
<1>3. /\ Append(written[c], reply) \in Seq(AnyReply)
      /\ \A i \in DOMAIN Append(written[c], reply) :
           \/ i \in DOMAIN written[c] /\ Append(written[c], reply)[i] = written[c][i]
           \/ Append(written[c], reply)[i] = reply
  BY <1>1
<1>. QED
  BY <1>2, <1>3 DEF DoSend, ReplyTypes

LEMMA FailsReplies ==
  ASSUME Types, ReplyInv, Fails
  PROVE  ReplyInv'
<1>1. PICK id \in Int : DoSend(conn, <<Reply(conn, id, TRUE)>>)
  <2>1. {called, NoId} \subseteq Int
    BY DEF Types, NoId
  <2>. QED
    BY <2>1 DEF Fails
<1>. DEFINE e == Reply(conn, id, TRUE)
<1>2. /\ conn # 0 /\ conn' = 0
      /\ UNCHANGED <<kind, bufferMsg, curId, open, sockets, msgQueues, serving, answered>>
  BY DEF Fails
<1>3. conn \in Conns /\ conn < curId /\ curId \in Nat \ {0}
  BY <1>2 DEF Types, ReplyInv, FutureInv, ReplyTypes
<1>4. e \in AnyReply /\ e.to = conn /\ e.error
  BY <1>3 DEF Reply, AnyReply
<1>5. DoSend(conn, <<e>>)
  BY <1>1
<1>. HIDE DEF e
<1>6. /\ written' \in [Conns -> Seq(AnyReply)]
      /\ written'[conn] = written[conn] \o <<e>>
      /\ \A d \in Conns \ {conn} : written'[d] = written[d]
      /\ \A i \in DOMAIN written'[conn] :
           \/ i \in DOMAIN written[conn] /\ written'[conn][i] = written[conn][i]
           \/ written'[conn][i] = e
  BY <1>3, <1>4, <1>5, Sent DEF ReplyInv
<1>7. ReplyTypes' /\ KeysInv'
  BY <1>2, <1>6 DEF ReplyInv, ReplyTypes, KeysInv, Key
<1>8. FutureInv'
  <2>1. \A c \in Conns : c >= curId => c # conn
    BY <1>3 DEF Conns
  <2>2. conn' < curId'
    BY <1>2, <1>3
  <2>. QED
    BY <1>2, <1>6, <2>1, <2>2 DEF ReplyInv, FutureInv
<1>9. RepliesInv'
  <2>1. ASSUME RepliesReachRequester, NEW c \in Conns, NEW i \in DOMAIN written'[c]
        PROVE  written'[c][i].to = c
    <3>1. CASE c = conn
      BY SMTT(20), <1>3, <1>4, <1>6, <2>1, <3>1 DEF RepliesReachRequester
    <3>2. CASE c # conn
      BY <1>6, <2>1, <3>2 DEF RepliesReachRequester
    <3>. QED
      BY <3>1, <3>2
  <2>2. RepliesReachRequester => RepliesReachRequester'
    BY <2>1 DEF RepliesReachRequester
  <2>3. KeptApart' <=> KeptApart
    BY <1>2 DEF KeptApart
  <2>. QED
    BY <1>2, <2>2, <2>3 DEF ReplyInv, RepliesInv
<1>10. AnswersInOrder'
  <2>. SUFFICES ASSUME Ordered, NEW c \in open
                PROVE  Carries(written'[c] \o Queue(c), c, answered[c])
    BY <1>2 DEF AnswersInOrder, Ordered, Queue
  <2>0. Carries(written[c] \o Queue(c), c, answered[c])
    BY DEF ReplyInv, AnswersInOrder, Ordered
  <2>1. CASE c = conn
    <3>1. /\ written[conn] \in Seq(AnyReply) /\ Queue(conn) \in Seq(AnyReply)
          /\ answered[conn] \in Seq(Nat)
      BY <1>3, QueueType DEF ReplyInv, ReplyTypes, Types
    <3>2. Carries((written[conn] \o <<e>>) \o Queue(conn), conn, answered[conn])
      <4>. DEFINE w == written[conn]
                  q == Queue(conn)
                  a == answered[conn]
      <4>1. w \in Seq(AnyReply) /\ q \in Seq(AnyReply) /\ a \in Seq(Nat)
        BY <3>1
      <4>2. Carries(w \o q, conn, a)
        BY <2>0, <2>1
      <4>. HIDE DEF w, q, a
      <4>3. Carries((w \o <<e>>) \o q, conn, a)
        BY <1>4, <4>1, <4>2, CarriesError
      <4>. QED
        BY <4>3 DEF w, q, a
    <3>. QED
      BY <1>6, <2>1, <3>2
  <2>2. CASE c # conn
    <3>1. c \in Conns
      BY DEF ReplyInv, ReplyTypes
    <3>2. written'[c] = written[c]
      BY <1>6, <2>2, <3>1
    <3>. QED
      BY <2>0, <3>2
  <2>. QED
    BY <2>1, <2>2
<1>. QED
  BY <1>7, <1>8, <1>9, <1>10 DEF ReplyInv


LEMMA CallsBackReplies ==
  ASSUME Types, ReplyInv, CallsBack
  PROVE  ReplyInv'
<1>1. PICK c \in Conns, id \in Ids :
        /\ <<c, id>> \in serving
        /\ serving' = serving \ {<<c, id>>}
        /\ answered' = [answered EXCEPT ![c] = Append(@, id)]
        /\ \/ bufferMsg /\ Enqueue(c, Reply(c, id, FALSE)) /\ UNCHANGED written
           \/ ~bufferMsg /\ DoSend(c, <<Reply(c, id, FALSE)>>) /\ UNCHANGED msgQueues
           \/ c \notin open /\ UNCHANGED <<written, msgQueues>>
  BY DEF CallsBack
<1>2. UNCHANGED <<kind, bufferMsg, curId, open, sockets, conn>>
  BY DEF CallsBack
<1>. DEFINE r == Reply(c, id, FALSE)
<1>3. id \in Nat /\ c < curId /\ curId \in Nat \ {0}
  BY <1>1 DEF Types, ReplyInv, FutureInv, ReplyTypes
<1>4. r \in AnyReply /\ r.to = c
  BY <1>3 DEF Reply, AnyReply
<1>5. /\ answered[c] \in Seq(Nat) /\ answered'[c] = Append(answered[c], id)
      /\ \A d \in Conns \ {c} : answered'[d] = answered[d]
  BY <1>1 DEF Types
<1>6. KeysInv'
  BY <1>2 DEF ReplyInv, KeysInv, Key
<1>7. \A d \in Conns : d >= curId => d # c
  BY <1>3 DEF Conns
<1>8. \A d \in Conns, i \in Nat : <<d, i>> \in serving' => d < curId'
  BY <1>1, <1>2 DEF ReplyInv, FutureInv
<1>9. ASSUME bufferMsg, Enqueue(c, r), UNCHANGED written
      PROVE  ReplyInv'
  <2>. DEFINE k == Key(c)
  <2>1. /\ msgQueues' = [l \in DOMAIN msgQueues \union {k} |->
                           IF l = k THEN Append(Queue(k), r) ELSE msgQueues[l]]
    BY <1>9 DEF Enqueue, Queue
  <2>2. k \in {0, c}
    BY DEF Key
  <2>. HIDE DEF r, k
  <2>3. /\ Queue(k) \in Seq(AnyReply) /\ Append(Queue(k), r) \in Seq(AnyReply)
    BY <1>4, QueueType DEF ReplyInv
  <2>4. /\ DOMAIN msgQueues' = DOMAIN msgQueues \union {k}
        /\ msgQueues'[k] = Append(Queue(k), r)
        /\ \A l \in DOMAIN msgQueues \ {k} : msgQueues'[l] = msgQueues[l]
    BY <2>1
  <2>5. ReplyTypes'
    BY <1>2, <1>9, <2>1, <2>3 DEF ReplyInv, ReplyTypes
  <2>6. FutureInv'
    BY SMTT(20), <1>2, <1>5, <1>7, <1>8, <1>9, <2>2, <2>4 DEF ReplyInv, FutureInv, Conns
  <2>7. RepliesInv'
    <3>1. RepliesReachRequester' <=> RepliesReachRequester
      BY <1>9 DEF RepliesReachRequester
    <3>2. ASSUME KeptApart, NEW l \in DOMAIN msgQueues', NEW i \in Nat,
                 i \in DOMAIN msgQueues'[l]
          PROVE  msgQueues'[l][i].to = l
      <4>1. k = c
        BY <1>9, <3>2 DEF KeptApart, Key, k
      <4>2. CASE l # k
        BY <2>4, <3>2, <4>2 DEF ReplyInv, RepliesInv
      <4>3. CASE l = k
        <5>1. CASE i \in DOMAIN Queue(k) /\ msgQueues'[k][i] = Queue(k)[i]
          <6>1. k \in DOMAIN msgQueues /\ Queue(k) = msgQueues[k]
            BY <5>1 DEF Queue
          <6>. QED
            BY <3>2, <4>3, <5>1, <6>1 DEF ReplyInv, RepliesInv
        <5>2. CASE msgQueues'[k][i] = r
          BY <1>4, <4>1, <4>3, <5>2
        <5>3. \/ i \in DOMAIN Queue(k) /\ Append(Queue(k), r)[i] = Queue(k)[i]
              \/ Append(Queue(k), r)[i] = r
          BY <1>4, <2>3, <2>4, <3>2, <4>3
        <5>. QED
          BY <2>4, <5>1, <5>2, <5>3
      <4>. QED
        BY <4>2, <4>3
    <3>3. KeptApart' <=> KeptApart
      BY <1>2 DEF KeptApart
    <3>. QED
      BY <1>2, <1>9, <3>1, <3>2, <3>3 DEF ReplyInv, RepliesInv
  <2>8. AnswersInOrder'
    <3>. SUFFICES ASSUME Ordered, NEW d \in open
                  PROVE  Carries(written[d] \o Queue(d)', d, answered'[d])
      BY <1>2, <1>9 DEF AnswersInOrder, Ordered
    <3>1. k = c
      BY <1>9 DEF Ordered, Key, k
    <3>2. Carries(written[d] \o Queue(d), d, answered[d]) /\ d \in Conns
      BY DEF ReplyInv, AnswersInOrder, Ordered, ReplyTypes
    <3>3. CASE d = c
      <4>1. Queue(d)' = Append(Queue(d), r)
        BY <2>4, <3>1, <3>3 DEF Queue
      <4>2. written[d] \in Seq(AnyReply) /\ Queue(d) \in Seq(AnyReply)
        BY <2>3, <3>1, <3>2, <3>3 DEF ReplyInv, ReplyTypes
      <4>3. /\ written[d] \o Append(Queue(d), r) = Append(written[d] \o Queue(d), r)
            /\ written[d] \o Queue(d) \in Seq(AnyReply)
        BY <1>4, <4>2, AppendBehind
      <4>4. Carries(Append(written[d] \o Queue(d), r), d, Append(answered[d], id))
        BY <1>3, <1>5, <3>2, <3>3, <4>3, CarriesAnswer DEF r
      <4>. QED
        BY <1>5, <3>3, <4>1, <4>3, <4>4
    <3>4. CASE d # c
      <4>1. Queue(d)' = Queue(d)
        BY <2>4, <3>1, <3>4 DEF Queue
      <4>. QED
        BY <1>5, <3>2, <3>4, <4>1
    <3>. QED
      BY <3>3, <3>4
  <2>. QED
    BY <1>6, <2>5, <2>6, <2>7, <2>8 DEF ReplyInv
<1>10. ASSUME ~bufferMsg, DoSend(c, <<r>>), UNCHANGED msgQueues
       PROVE  ReplyInv'
  <2>. HIDE DEF r
  <2>1. /\ written' \in [Conns -> Seq(AnyReply)]
        /\ written'[c] = Append(written[c], r)
        /\ \A d \in Conns \ {c} : written'[d] = written[d]
        /\ \A i \in DOMAIN written'[c] :
             \/ i \in DOMAIN written[c] /\ written'[c][i] = written[c][i]
             \/ written'[c][i] = r
    BY <1>4, <1>10, Sent DEF ReplyInv
  <2>2. ReplyTypes'
    BY <1>2, <1>10, <2>1 DEF ReplyInv, ReplyTypes
  <2>3. FutureInv'
    BY <1>2, <1>5, <1>7, <1>8, <1>10, <2>1 DEF ReplyInv, FutureInv
  <2>4. RepliesInv'
    <3>1. ASSUME RepliesReachRequester, NEW d \in Conns, NEW i \in DOMAIN written'[d]
          PROVE  written'[d][i].to = d
      <4>1. CASE d = c
        BY <1>4, <2>1, <3>1, <4>1 DEF RepliesReachRequester
      <4>2. CASE d # c
        BY <2>1, <3>1, <4>2 DEF RepliesReachRequester
      <4>. QED
        BY <4>1, <4>2
    <3>2. RepliesReachRequester => RepliesReachRequester'
      BY <3>1 DEF RepliesReachRequester
    <3>3. KeptApart' <=> KeptApart
      BY <1>2 DEF KeptApart
    <3>. QED
      BY <1>2, <1>10, <3>2, <3>3 DEF ReplyInv, RepliesInv
  <2>5. AnswersInOrder'
    <3>. SUFFICES ASSUME Ordered, NEW d \in open
                  PROVE  Carries(written'[d] \o Queue(d), d, answered'[d])
      BY <1>2, <1>10 DEF AnswersInOrder, Ordered, Queue
    <3>1. Queue(d) = <<>>
      BY <1>10 DEF Queue, ReplyInv, RepliesInv
    <3>2. Carries(written[d] \o Queue(d), d, answered[d]) /\ d \in Conns
      BY DEF ReplyInv, AnswersInOrder, Ordered, ReplyTypes
    <3>3. /\ written[d] \in Seq(AnyReply) /\ written'[d] \in Seq(AnyReply)
          /\ written[d] \o <<>> = written[d] /\ written'[d] \o <<>> = written'[d]
      BY <2>1, <3>2 DEF ReplyInv, ReplyTypes
    <3>4. CASE d = c
      <4>1. Carries(Append(written[d], r), d, Append(answered[d], id))
        BY <1>3, <1>5, <3>1, <3>2, <3>3, <3>4, CarriesAnswer DEF r
      <4>. QED
        BY <1>5, <2>1, <3>1, <3>3, <3>4, <4>1
    <3>5. CASE d # c
      BY <1>5, <2>1, <3>2, <3>5
    <3>. QED
      BY <3>4, <3>5
  <2>. QED
    BY <1>6, <2>2, <2>3, <2>4, <2>5 DEF ReplyInv
<1>11. ASSUME c \notin open, UNCHANGED <<written, msgQueues>>
       PROVE  ReplyInv'
  <2>1. ReplyTypes' /\ RepliesInv'
    BY <1>2, <1>11 DEF ReplyInv, ReplyTypes, RepliesInv, KeptApart, RepliesReachRequester
  <2>2. FutureInv'
    BY <1>2, <1>5, <1>7, <1>8, <1>11 DEF ReplyInv, FutureInv
  <2>3. AnswersInOrder'
    BY <1>2, <1>5, <1>11 DEF ReplyInv, ReplyTypes, AnswersInOrder, Queue
  <2>. QED
    BY <1>6, <2>1, <2>2, <2>3 DEF ReplyInv
<1>. QED
  BY <1>1, <1>9, <1>10, <1>11

LEMMA FlushesReplies ==
  ASSUME Types, ReplyInv, Flushes
  PROVE  ReplyInv'
<1>1. UNCHANGED <<kind, bufferMsg, curId, open, sockets, conn, serving, answered>>
  BY DEF Flushes
<1>2. /\ DOMAIN msgQueues' = DOMAIN msgQueues \intersect DOMAIN sockets
      /\ \A k \in DOMAIN msgQueues' : msgQueues'[k] = <<>>
      /\ msgQueues' = [k \in DOMAIN msgQueues' |-> <<>>]
  BY DEF Flushes, Flushed
<1>3. \A d : Queue(d)' = <<>>
  BY <1>2 DEF Queue
<1>4. ASSUME NEW d \in Conns
      PROVE  \/ written'[d] = written[d]
             \/ /\ written'[d] = written[d] \o msgQueues[Key(d)]
                /\ Key(d) \in DOMAIN msgQueues \intersect DOMAIN sockets
                /\ sockets[Key(d)] = d
  <2>1. CASE kind = "mqtt2" /\ UNCHANGED written
    BY <2>1
  <2>2. CASE written' = [c \in Conns |-> FlushedTo(c)]
    <3>1. CASE \E k \in DOMAIN msgQueues \intersect DOMAIN sockets : sockets[k] = d
      <4>1. PICK k \in DOMAIN msgQueues \intersect DOMAIN sockets : sockets[k] = d
        BY <3>1
      <4>2. k = Key(d)
        BY <4>1 DEF ReplyInv, KeysInv
      <4>. QED
        BY <2>2, <3>1, <4>1, <4>2 DEF FlushedTo
    <3>2. CASE ~\E k \in DOMAIN msgQueues \intersect DOMAIN sockets : sockets[k] = d
      BY <2>2, <3>2 DEF FlushedTo
    <3>. QED
      BY <3>1, <3>2
  <2>. QED
    BY <2>1, <2>2 DEF Flushes

<1>5. written' \in [Conns -> Seq(AnyReply)]
  <2>1. written' = [d \in Conns |-> written'[d]]
    BY DEF Flushes, ReplyInv, ReplyTypes
  <2>2. ASSUME NEW d \in Conns
        PROVE  written'[d] \in Seq(AnyReply)
    <3>1. written[d] \in Seq(AnyReply)
      BY DEF ReplyInv, ReplyTypes
    <3>2. CASE /\ written'[d] = written[d] \o msgQueues[Key(d)]
               /\ Key(d) \in DOMAIN msgQueues
      <4>1. msgQueues[Key(d)] \in Seq(AnyReply)
        BY <3>2 DEF ReplyInv, ReplyTypes
      <4>. QED
        BY <3>1, <3>2, <4>1, ConcatProperties
    <3>. QED
      BY <1>4, <3>1, <3>2
  <2>. QED
    BY <2>1, <2>2
<1>6. ReplyTypes' /\ KeysInv'
  <2>1. <<>> \in Seq(AnyReply)
    OBVIOUS
  <2>2. msgQueues' \in [DOMAIN msgQueues' -> Seq(AnyReply)]
    BY <1>2, <2>1
  <2>. QED
    BY <1>1, <1>5, <2>2 DEF ReplyInv, ReplyTypes, KeysInv, Key
<1>7. FutureInv'
  <2>1. ASSUME NEW d \in Conns, d >= curId
        PROVE  written'[d] = <<>>
    <3>1. ~(Key(d) \in DOMAIN sockets /\ sockets[Key(d)] = d) /\ written[d] = <<>>
      BY <2>1 DEF ReplyInv, FutureInv, ReplyTypes, Conns
    <3>. QED
      BY <1>4, <3>1
  <2>. QED
    BY <1>1, <1>2, <2>1 DEF ReplyInv, FutureInv
<1>8. RepliesInv'
  <2>1. ASSUME KeptApart, NEW d \in Conns, NEW i \in DOMAIN written'[d]
        PROVE  written'[d][i].to = d
    <3>1. CASE written'[d] = written[d]
      BY <2>1, <3>1 DEF ReplyInv, RepliesInv, RepliesReachRequester
    <3>2. CASE /\ written'[d] = written[d] \o msgQueues[Key(d)]
               /\ Key(d) \in DOMAIN msgQueues
      <4>1. written[d] \in Seq(AnyReply) /\ msgQueues[Key(d)] \in Seq(AnyReply)
        BY <3>2 DEF ReplyInv, ReplyTypes
      <4>2. \/ i \in DOMAIN written[d] /\ written'[d][i] = written[d][i]
            \/ \E j \in Nat : /\ j \in DOMAIN msgQueues[Key(d)]
                              /\ written'[d][i] = msgQueues[Key(d)][j]
        <5>. DEFINE w == written[d]
                    q == msgQueues[Key(d)]
        <5>0. w \in Seq(AnyReply) /\ q \in Seq(AnyReply)
          BY <4>1
        <5>. HIDE DEF w, q
        <5>1. /\ Len(w) \in Nat /\ Len(q) \in Nat
              /\ DOMAIN w = 1 .. Len(w) /\ DOMAIN q = 1 .. Len(q)
              /\ DOMAIN (w \o q) = 1 .. Len(w) + Len(q)
              /\ \A n \in 1 .. Len(w) : (w \o q)[n] = w[n]
              /\ \A n \in Len(w) + 1 .. Len(w) + Len(q) : (w \o q)[n] = q[n - Len(w)]
          BY <5>0, LenProperties, ConcatProperties
        <5>2. CASE i \in 1 .. Len(w)
          BY <3>2, <5>1, <5>2 DEF w, q
        <5>3. CASE i \in Len(w) + 1 .. Len(w) + Len(q)
          <6>1. i - Len(w) \in 1 .. Len(q)
            BY <5>1, <5>3
          <6>. QED
            BY <3>2, <5>1, <5>3, <6>1 DEF w, q
        <5>4. i \in 1 .. Len(w) + Len(q)
          BY <2>1, <3>2, <5>1 DEF w, q
        <5>. QED
          BY <5>1, <5>2, <5>3, <5>4
      <4>3. Key(d) = d
        BY <2>1, <3>2 DEF Key, KeptApart, ReplyInv, RepliesInv
      <4>. QED
        BY <2>1, <3>2, <4>2, <4>3 DEF ReplyInv, RepliesInv, RepliesReachRequester
    <3>. QED
      BY <1>4, <3>1, <3>2
  <2>2. KeptApart => RepliesReachRequester'
    BY <2>1 DEF RepliesReachRequester
  <2>3. KeptApart' <=> KeptApart
    BY <1>1 DEF KeptApart
  <2>. QED
    BY <1>1, <1>2, <2>2, <2>3 DEF ReplyInv, RepliesInv
<1>9. AnswersInOrder'
  <2>. SUFFICES ASSUME Ordered, NEW d \in open
                PROVE  Carries(written'[d] \o Queue(d)', d, answered[d])
    BY <1>1 DEF AnswersInOrder, Ordered
  <2>1. Carries(written[d] \o Queue(d), d, answered[d]) /\ d \in Conns
    BY DEF ReplyInv, AnswersInOrder, Ordered, ReplyTypes
  <2>2. /\ written[d] \in Seq(AnyReply) /\ Queue(d) \in Seq(AnyReply)
        /\ written'[d] \in Seq(AnyReply)
    BY <1>5, <2>1, QueueType DEF ReplyInv, ReplyTypes
  <2>3. written'[d] = written[d] \o Queue(d)
    <3>1. written[d] \o <<>> = written[d]
      BY <2>2
    <3>2. CASE ~bufferMsg
      <4>1. Queue(d) = <<>> /\ DOMAIN msgQueues = {}
        BY <3>2 DEF Queue, ReplyInv, RepliesInv
      <4>. QED
        BY <1>4, <2>1, <3>1, <4>1
    <3>3. CASE bufferMsg
      <4>1. kind \notin {"tcp", "mqtt2"} /\ Key(d) = d
        BY <3>3 DEF Ordered, Key
      <4>2. d \in DOMAIN sockets /\ sockets[d] = d
        BY <4>1 DEF ReplyInv, KeysInv, Key
      <4>3. written'[d] = FlushedTo(d)
        BY <2>1, <4>1 DEF Flushes
      <4>4. CASE d \in DOMAIN msgQueues
        BY <4>1, <4>2, <4>3, <4>4 DEF FlushedTo, Queue
      <4>5. CASE d \notin DOMAIN msgQueues
        <5>1. Queue(d) = <<>>
          BY <4>5 DEF Queue
        <5>. QED
          BY <1>4, <2>1, <3>1, <4>1, <4>5, <5>1
      <4>. QED
        BY <4>4, <4>5
    <3>. QED
      BY <3>2, <3>3 DEF ReplyInv, ReplyTypes
  <2>4. written'[d] \o <<>> = written'[d]
    BY <2>2
  <2>. QED
    BY <1>3, <2>1, <2>3, <2>4
<1>. QED
  BY <1>6, <1>7, <1>8, <1>9 DEF ReplyInv

LEMMA ReplyInvStep ==
  ASSUME Types, ReplyInv, ReplyStep
  PROVE  ReplyInv'
BY RestsReplies, AdmitsReplies, LeavesReplies, FailsReplies, CallsBackReplies,
   FlushesReplies DEF ReplyStep

LEMMA ReplyInvInit == Init => ReplyInv
<1>. SUFFICES ASSUME Init PROVE ReplyInv
  OBVIOUS
<1>1. /\ bufferMsg \in BOOLEAN
      /\ curId = 1 /\ open = {} /\ sockets = <<>> /\ msgQueues = <<>> /\ conn = 0
      /\ serving = {}
      /\ answered = [c \in Conns |-> <<>>]
      /\ written = [c \in Conns |-> <<>>]
  BY OptionsAssumption
  DEF Init, Mqtt!Init, Mqtt!New, Tcp!Init, Tcp!New, Ws!Init, Ws!New,
      Ws2!Init, Ws2!New, Mqtt2!Init, Mqtt2!New, Conns, Mqtt!Conns, Tcp!Conns, Ws!Conns,
      Ws2!Conns, Mqtt2!Conns
<1>2. DOMAIN <<>> = {} /\ <<>> \in Seq(AnyReply) /\ msgQueues \in [{} -> Seq(AnyReply)]
  BY <1>1
<1>3. ReplyTypes
  BY <1>1, <1>2 DEF ReplyTypes
<1>4. FutureInv /\ KeysInv /\ RepliesInv /\ AnswersInOrder
  BY <1>1, <1>2
  DEF FutureInv, KeysInv, RepliesInv, RepliesReachRequester, AnswersInOrder, Conns
<1>. QED
  BY <1>3, <1>4 DEF ReplyInv

-----------------------------------------------------------------------------
(* The theorems about the replies.                                         *)

LEMMA ReplyInvariant == Spec => []ReplyInv
<1>1. IInv => Types
  BY DEF IInv
<1>. QED
  BY <1>1, ReplyInvInit, ReplySteps, ReplyInvStep, InductiveInvariant, PTL DEF Spec

\* An open connection is sent every answer to its requests once, in the order of
\* the answers, queued or not; of the buffered acceptors those of tcp and mqtt2
\* are excepted (mqtt-acceptor 166-207, and the same lines of the others).
THEOREM AnswersAreInOrder == Spec => []AnswersInOrder
<1>1. ReplyInv => AnswersInOrder
  BY DEF ReplyInv
<1>. QED
  BY <1>1, ReplyInvariant, PTL

\* What a connection is sent answers its own requests, but for the buffered tcp
\* acceptor, whose connections share a queue (tcp-acceptor 43, 120-158).
THEOREM RepliesReachTheirRequester == Spec => [](KeptApart => RepliesReachRequester)
<1>1. ReplyInv => (KeptApart => RepliesReachRequester)
  BY DEF ReplyInv, RepliesInv
<1>. QED
  BY <1>1, ReplyInvariant, PTL

-----------------------------------------------------------------------------
(* The types, with the bounds of the model.                                *)

FlagTypes ==
  /\ kind \in Kinds /\ bufferMsg \in Buffering
  /\ started \in BOOLEAN /\ stoped \in BOOLEAN /\ interval \in BOOLEAN
  /\ single \in BOOLEAN /\ crashed \in BOOLEAN

\* The connections that are kept were accepted, and so were those whose keys are.
LinkTypes ==
  /\ curId \in 1 .. MaxConns + 1
  /\ open \subseteq 1 .. curId - 1 /\ waiting \subseteq 1 .. curId - 1
  /\ DOMAIN sockets \subseteq 0 .. curId - 1
  /\ kind \notin {"ws", "ws2"} => Range(sockets) \subseteq open
  /\ DOMAIN msgQueues \subseteq 0 .. curId - 1
  /\ conn \in 0 .. curId - 1

IdTypes ==
  /\ rest \in Seq(Ids) /\ called \in Ids \union {NoId}
  /\ serving \subseteq Conns \X Ids
  /\ received \in [Conns -> 0 .. MaxRequests]
  /\ answered \in [Conns -> Seq(Ids)]
  /\ failed \subseteq Conns \X Ids /\ dropped \subseteq Conns \X Ids

SentTypes ==
  /\ msgQueues \in [DOMAIN msgQueues -> Seq(Replies)]
  /\ written \in [Conns -> Seq(Replies)]

LEMMA TypeParts == TypeOK <=> FlagTypes /\ LinkTypes /\ IdTypes /\ SentTypes
  BY DEF TypeOK, FlagTypes, LinkTypes, IdTypes, SentTypes

LEMMA MqttFlags ==
  ASSUME FlagTypes, Mqtt!Next
  PROVE  FlagTypes'
<1>. USE DEF Mqtt!gateway, Mqtt!running, FlagTypes
<1>1. CASE Mqtt!Accept
  BY <1>1 DEF Mqtt!Accept, Mqtt!Admit
<1>2. CASE Mqtt!Flush
  BY <1>2 DEF Mqtt!Flush, Mqtt!FlushQueues
<1>3. ASSUME NEW c \in Conns,
             Mqtt!SocketClose(c)
      PROVE  FlagTypes'
  BY <1>3 DEF Mqtt!SocketClose, Mqtt!Leave
<1>4. ASSUME NEW c \in Conns, NEW alone \in BOOLEAN, NEW n \in 1 .. MaxBatch,
             Mqtt!Publish(c, alone, n)
      PROVE  FlagTypes'
  BY <1>4 DEF Mqtt!Publish, Mqtt!Arrive
<1>5. CASE Mqtt!ProcessMsg \/ Mqtt!PublishDone
  BY <1>5 DEF Mqtt!ProcessMsg, Mqtt!PublishDone, Mqtt!Call, Mqtt!Return
<1>6. CASE Mqtt!Throw
  BY <1>6 DEF Mqtt!Throw, Mqtt!DropRest
<1>7. ASSUME NEW c \in Conns, NEW id \in Ids, Mqtt!Answer(c, id)
      PROVE  FlagTypes'
  BY <1>7 DEF Mqtt!Answer
<1>. QED
  BY <1>1, <1>2, <1>3, <1>4, <1>5, <1>6, <1>7
  DEF Mqtt!Next, Mqtt!Conns, Conns, Mqtt!Ids, Ids

LEMMA TcpFlags ==
  ASSUME FlagTypes, Tcp!Next
  PROVE  FlagTypes'
<1>. USE DEF Tcp!gateway, Tcp!running, FlagTypes
<1>1. CASE Tcp!Accept
  BY <1>1 DEF Tcp!Accept, Tcp!Admit
<1>2. CASE Tcp!Flush
  BY <1>2 DEF Tcp!Flush, Tcp!FlushQueues
<1>3. ASSUME NEW c \in Conns,
             Tcp!SocketClose(c)
      PROVE  FlagTypes'
  BY <1>3 DEF Tcp!SocketClose, Tcp!Leave
<1>4. ASSUME NEW c \in Conns, NEW alone \in BOOLEAN, NEW n \in 1 .. MaxBatch,
             Tcp!Data(c, alone, n)
      PROVE  FlagTypes'
  BY <1>4 DEF Tcp!Data, Tcp!Arrive
<1>5. CASE Tcp!ProcessMsg \/ Tcp!DataDone
  BY <1>5 DEF Tcp!ProcessMsg, Tcp!DataDone, Tcp!Call, Tcp!Return
<1>6. CASE Tcp!Throw
  BY <1>6 DEF Tcp!Throw, Tcp!DropRest
<1>7. ASSUME NEW c \in Conns, NEW id \in Ids, Tcp!Answer(c, id)
      PROVE  FlagTypes'
  BY <1>7 DEF Tcp!Answer
<1>. QED
  BY <1>1, <1>2, <1>3, <1>4, <1>5, <1>6, <1>7
  DEF Tcp!Next, Tcp!Conns, Conns, Tcp!Ids, Ids

LEMMA WsFlags ==
  ASSUME FlagTypes, Ws!Next
  PROVE  FlagTypes'
<1>. USE DEF Ws!gateway, Ws!running, FlagTypes
<1>1. CASE Ws!Accept \/ Ws!AcceptRejected
  BY <1>1 DEF Ws!Accept, Ws!Admit, Ws!AcceptRejected
<1>2. CASE Ws!Flush
  BY <1>2 DEF Ws!Flush, Ws!FlushQueues
<1>3. ASSUME NEW c \in Conns,
             Ws!Permit(c) \/ Ws!Reject(c) \/ Ws!SocketClose(c)
      PROVE  FlagTypes'
  BY <1>3 DEF Ws!Permit, Ws!Reject, Ws!SocketClose, Ws!Leave
<1>4. ASSUME NEW c \in Conns, NEW alone \in BOOLEAN, NEW n \in 1 .. MaxBatch,
             Ws!Message(c, alone, n)
      PROVE  FlagTypes'
  BY <1>4 DEF Ws!Message, Ws!Arrive
<1>5. CASE Ws!ProcessMsg \/ Ws!MessageDone
  BY <1>5 DEF Ws!ProcessMsg, Ws!MessageDone, Ws!Call, Ws!Return
<1>6. CASE Ws!Throw
  BY <1>6 DEF Ws!Throw, Ws!DropRest
<1>7. ASSUME NEW c \in Conns, NEW id \in Ids, Ws!Answer(c, id)
      PROVE  FlagTypes'
  BY <1>7 DEF Ws!Answer
<1>. QED
  BY <1>1, <1>2, <1>3, <1>4, <1>5, <1>6, <1>7
  DEF Ws!Next, Ws!Conns, Conns, Ws!Ids, Ids

LEMMA Ws2Flags ==
  ASSUME FlagTypes, Ws2!Next
  PROVE  FlagTypes'
<1>. USE DEF Ws2!gateway, Ws2!running, FlagTypes
<1>1. CASE Ws2!Accept
  BY <1>1 DEF Ws2!Accept, Ws2!Admit
<1>2. CASE Ws2!Flush
  BY <1>2 DEF Ws2!Flush, Ws2!FlushQueues, Ws2!FlushThrows
<1>3. ASSUME NEW c \in Conns,
             Ws2!Closing(c) \/ Ws2!Rejected(c) \/ Ws2!Permitted(c) \/ Ws2!SocketClose(c)
      PROVE  FlagTypes'
  BY <1>3 DEF Ws2!Closing, Ws2!Rejected, Ws2!Permitted, Ws2!SocketClose, Ws2!Leave
<1>4. ASSUME NEW c \in Conns, NEW alone \in BOOLEAN, NEW n \in 1 .. MaxBatch,
             Ws2!Message(c, alone, n)
      PROVE  FlagTypes'
  BY <1>4 DEF Ws2!Message, Ws2!Arrive
<1>5. CASE Ws2!ProcessMsg \/ Ws2!MessageDone
  BY <1>5 DEF Ws2!ProcessMsg, Ws2!MessageDone, Ws2!Call, Ws2!Return
<1>6. CASE Ws2!Throw
  BY <1>6 DEF Ws2!Throw, Ws2!DropRest
<1>7. ASSUME NEW c \in Conns, NEW id \in Ids, Ws2!ReplyOpen(c, id) \/ Ws2!ReplyToClosed(c, id)
      PROVE  FlagTypes'
  BY <1>7 DEF Ws2!Answer, Ws2!ReplyOpen, Ws2!ReplyToClosed
<1>. QED
  BY <1>1, <1>2, <1>3, <1>4, <1>5, <1>6, <1>7
  DEF Ws2!Next, Ws2!Conns, Conns, Ws2!Ids, Ids

LEMMA Mqtt2Flags ==
  ASSUME FlagTypes, Mqtt2!Next
  PROVE  FlagTypes'
<1>. USE DEF Mqtt2!gateway, Mqtt2!running, FlagTypes
<1>1. CASE Mqtt2!Accept
  BY <1>1 DEF Mqtt2!Accept, Mqtt2!Admit
<1>2. CASE Mqtt2!Flush
  BY <1>2 DEF Mqtt2!Flush, Mqtt2!FlushQueues
<1>3. ASSUME NEW c \in Conns,
             Mqtt2!Handshake(c) \/ Mqtt2!SocketClose(c)
      PROVE  FlagTypes'
  BY <1>3 DEF Mqtt2!Handshake, Mqtt2!SocketClose, Mqtt2!Leave
<1>4. ASSUME NEW c \in Conns, Mqtt2!Publish(c)
      PROVE  FlagTypes'
  BY <1>4 DEF Mqtt2!Publish, Mqtt2!Arrive
<1>5. CASE Mqtt2!ProcessMsg \/ Mqtt2!PublishDone
  BY <1>5 DEF Mqtt2!ProcessMsg, Mqtt2!PublishDone, Mqtt2!Call, Mqtt2!Return
<1>6. CASE Mqtt2!Throw
  BY <1>6 DEF Mqtt2!Throw, Mqtt2!DropRest
<1>7. ASSUME NEW c \in Conns, NEW id \in Ids, Mqtt2!Answer(c, id)
      PROVE  FlagTypes'
  BY <1>7 DEF Mqtt2!Answer
<1>. QED
  BY <1>1, <1>2, <1>3, <1>4, <1>5, <1>6, <1>7
  DEF Mqtt2!Next, Mqtt2!Conns, Conns, Mqtt2!Ids, Ids

LEMMA FlagSteps ==
  ASSUME FlagTypes, [Next]_vars
  PROVE  FlagTypes'
<1>1. CASE UNCHANGED vars
  BY <1>1 DEF vars, gateway, running, FlagTypes
<1>2. CASE Start
  <2>1. bufferMsg \in BOOLEAN
    BY OptionsAssumption DEF FlagTypes
  <2>. QED
    BY <1>2, <2>1 DEF Start, running, FlagTypes
<1>3. CASE Stop
  BY <1>3 DEF Stop, running, FlagTypes
<1>. QED
  BY <1>1, <1>2, <1>3, MqttFlags, TcpFlags, WsFlags, Ws2Flags, Mqtt2Flags DEF Next

\* A connection has made no more requests than have arrived.
LEMMA ArrivedCount ==
  ASSUME received \in [Conns -> 0 .. MaxRequests], NEW c \in Conns
  PROVE  received[c] <= Cardinality(Arrived) /\ Cardinality(Arrived) \in Nat
<1>. DEFINE S == 1 .. received[c]
            f == [i \in S |-> <<c, i - 1>>]
<1>1. IsFiniteSet(Arrived)
  <2>1. IsFiniteSet(Conns) /\ IsFiniteSet(Ids)
    BY FS_Interval, BoundsAssumption DEF Conns, Ids
  <2>2. IsFiniteSet(Conns \X Ids)
    BY <2>1, FS_Product
  <2>3. Arrived \in SUBSET (Conns \X Ids)
    BY DEF Arrived
  <2>. QED
    BY <2>2, <2>3, FS_Subset
<1>2. received[c] \in Nat /\ received[c] <= MaxRequests
  BY BoundsAssumption
<1>3. Cardinality(S) = received[c]
  BY <1>2, FS_Interval
<1>4. \A i \in S : i \in Nat /\ i - 1 \in Ids /\ i - 1 < received[c]
  BY <1>2, BoundsAssumption DEF Ids
<1>5. \A i \in S : <<c, i - 1>> \in Arrived
  BY <1>4 DEF Arrived
<1>6. f \in Injection(S, Arrived)
  <2>1. f \in [S -> Arrived]
    BY <1>5
  <2>2. ASSUME NEW i \in S, NEW j \in S, f[i] = f[j]
        PROVE  i = j
    <3>1. i - 1 = j - 1
      BY <2>2
    <3>. QED
      BY <1>4, <3>1
  <2>. QED
    BY <2>1, <2>2 DEF Injection, IsInjective
<1>7. Cardinality(S) <= Cardinality(Arrived)
  BY <1>1, <1>6, FS_Injection
<1>. QED
  BY <1>1, <1>3, <1>7, FS_CardinalityType

LEMMA IdSteps ==
  ASSUME IdTypes, Types, Step
  PROVE  IdTypes'
<1>1. CASE Apart
  BY <1>1 DEF Apart, IdTypes
<1>2. CASE Arrives
  <2>1. PICK c \in Conns, n \in Nat :
          /\ Cardinality(Arrived) + n <= MaxRequests
          /\ conn' = c
          /\ rest' = [i \in 1 .. n |-> received[c] + i - 1]
          /\ received' = [received EXCEPT ![c] = @ + n]
    BY <1>2 DEF Arrives
  <2>2. /\ received[c] \in Nat
        /\ received[c] <= Cardinality(Arrived) /\ Cardinality(Arrived) \in Nat
    BY BoundsAssumption, ArrivedCount DEF IdTypes
  <2>3. received[c] + n \in 0 .. MaxRequests
    BY <2>1, <2>2, BoundsAssumption
  <2>4. \A i \in 1 .. n : received[c] + i - 1 \in Ids
    BY <2>2, <2>3, BoundsAssumption DEF Ids
  <2>5. rest' \in Seq(Ids)
    <3>1. rest' \in [1 .. n -> Ids]
      BY <2>1, <2>4
    <3>. QED
      BY <3>1
  <2>6. received' \in [Conns -> 0 .. MaxRequests]
    BY <2>1, <2>3 DEF IdTypes
  <2>. QED
    BY <1>2, <2>5, <2>6 DEF Arrives, IdTypes
<1>3. CASE Calls
  <2>1. Head(rest) \in Ids /\ Tail(rest) \in Seq(Ids) /\ conn \in Conns
    BY <1>3, HeadTailProperties DEF Calls, IdTypes, Types
  <2>. QED
    BY <1>3, <2>1 DEF Calls, IdTypes
<1>4. CASE Returns
  BY <1>4 DEF Returns, IdTypes
<1>5. CASE Throws
  <2>1. conn \in Conns /\ called \in Ids
    BY <1>5 DEF Throws, IdTypes, Types
  <2>2. Range(rest) \subseteq Ids
    BY DEF IdTypes, Range
  <2>3. dropped' \subseteq Conns \X Ids /\ failed' \subseteq Conns \X Ids
    BY <1>5, <2>1, <2>2 DEF Throws, IdTypes
  <2>4. rest' \in Seq(Ids) /\ called' \in Ids \union {NoId}
    BY <1>5 DEF Throws
  <2>. QED
    BY <1>5, <2>3, <2>4 DEF Throws, IdTypes
<1>6. CASE Answers
  <2>1. PICK c \in Conns, id \in Ids :
          /\ serving' = serving \ {<<c, id>>}
          /\ answered' = [answered EXCEPT ![c] = Append(@, id)]
    BY <1>6 DEF Answers
  <2>2. answered[c] \in Seq(Ids) /\ Append(answered[c], id) \in Seq(Ids)
    BY DEF IdTypes
  <2>3. answered' \in [Conns -> Seq(Ids)]
    BY <2>1, <2>2 DEF IdTypes
  <2>. QED
    BY <1>6, <2>1, <2>3 DEF Answers, IdTypes
<1>. QED
  BY <1>1, <1>2, <1>3, <1>4, <1>5, <1>6 DEF Step

LEMMA LinkSteps ==
  ASSUME LinkTypes, Types, ReplyInv, ReplyStep
  PROVE  LinkTypes'
<1>1. curId \in Nat \ {0} /\ curId <= MaxConns + 1
  BY BoundsAssumption DEF LinkTypes
<1>2. CASE Rests
  <2>1. conn' \in 0 .. curId' - 1
    BY <1>1, <1>2 DEF Rests, LinkTypes, Conns
  <2>. QED
    BY <1>2, <2>1 DEF Rests, LinkTypes
<1>3. CASE Admits
  <2>. DEFINE k == Key(curId)
  <2>1. /\ curId' = curId + 1 /\ curId' \in 1 .. MaxConns + 1
        /\ curId' - 1 = curId
        /\ \A n \in 0 .. curId - 1 : n \in 0 .. curId' - 1
        /\ \A n \in 1 .. curId - 1 : n \in 1 .. curId' - 1
        /\ curId \in 1 .. curId' - 1 /\ 0 \in 0 .. curId' - 1 /\ curId \in 0 .. curId' - 1
    BY <1>1, <1>3, BoundsAssumption DEF Admits
  <2>2. k \in 0 .. curId' - 1
    BY <2>1 DEF Key
  <2>. HIDE DEF k
  <2>3. /\ DOMAIN sockets' = DOMAIN sockets \union {k}
        /\ \A l \in DOMAIN sockets' :
             sockets'[l] = curId \/ (l \in DOMAIN sockets /\ sockets'[l] = sockets[l])
    BY <1>3 DEF Admits, k
  <2>4. DOMAIN sockets' \subseteq 0 .. curId' - 1
    BY <2>1, <2>2, <2>3 DEF LinkTypes
  <2>5. kind' \notin {"ws", "ws2"} => Range(sockets') \subseteq open'
    <3>1. kind' \notin {"ws", "ws2"} =>
            open' = open \union {curId} /\ Range(sockets) \subseteq open
      BY <1>3 DEF Admits, LinkTypes
    <3>. QED
      BY <2>3, <3>1 DEF Range
  <2>6. /\ open' \subseteq 1 .. curId' - 1 /\ waiting' \subseteq 1 .. curId' - 1
        /\ DOMAIN msgQueues' \subseteq 0 .. curId' - 1 /\ conn' \in 0 .. curId' - 1
    BY <1>3, <2>1 DEF Admits, LinkTypes
  <2>. QED
    BY <2>1, <2>4, <2>5, <2>6 DEF LinkTypes
<1>4. CASE Leaves
  <2>1. PICK c \in Conns :
          /\ open' = open \ {c}
          /\ sockets' = Restrict(sockets, DOMAIN sockets \ {Key(c)})
          /\ msgQueues' = Restrict(msgQueues, DOMAIN msgQueues \ {Key(c)})
    BY <1>4 DEF Leaves
  <2>2. /\ UNCHANGED <<kind, curId, conn>> /\ waiting' \subseteq waiting
    BY <1>4 DEF Leaves
  <2>3. /\ DOMAIN sockets' = DOMAIN sockets \ {Key(c)}
        /\ \A k \in DOMAIN sockets' : sockets'[k] = sockets[k]
        /\ DOMAIN msgQueues' = DOMAIN msgQueues \ {Key(c)}
    BY <2>1 DEF Restrict
  <2>4. \A k \in DOMAIN sockets' : sockets[k] # c
    BY <2>3 DEF ReplyInv, KeysInv
  <2>5. kind' \notin {"ws", "ws2"} => Range(sockets') \subseteq open'
    BY <2>1, <2>2, <2>3, <2>4 DEF LinkTypes, Range
  <2>. QED
    BY <2>1, <2>2, <2>3, <2>5 DEF LinkTypes
<1>5. CASE Fails
  <2>1. conn' \in 0 .. curId' - 1
    BY <1>1, <1>5 DEF Fails
  <2>. QED
    BY <1>5, <2>1 DEF Fails, LinkTypes
<1>6. CASE CallsBack
  <2>1. PICK c \in Conns, id \in Ids :
          /\ <<c, id>> \in serving
          /\ \/ Enqueue(c, Reply(c, id, FALSE))
             \/ UNCHANGED msgQueues
    BY <1>6 DEF CallsBack
  <2>2. UNCHANGED <<kind, curId, open, waiting, sockets, conn>>
    BY <1>6 DEF CallsBack
  <2>3. id \in Nat
    BY <2>1 DEF Types
  <2>4. c < curId
    BY <2>1, <2>3 DEF ReplyInv, FutureInv
  <2>5. Key(c) \in 0 .. curId - 1
    BY <1>1, <2>4 DEF Conns, Key
  <2>6. DOMAIN msgQueues' \subseteq DOMAIN msgQueues \union {Key(c)}
    BY <2>1 DEF Enqueue
  <2>. QED
    BY <2>2, <2>5, <2>6 DEF LinkTypes
<1>7. CASE Flushes
  BY <1>7 DEF Flushes, Flushed, LinkTypes
<1>. QED
  BY <1>2, <1>3, <1>4, <1>5, <1>6, <1>7 DEF ReplyStep

\* What is behind what was written.
LEMMA SendTypes ==
  ASSUME SentTypes, NEW c \in Conns, NEW reply \in Replies, DoSend(c, <<reply>>)
  PROVE  written' \in [Conns -> Seq(Replies)]
<1>1. written[c] \in Seq(Replies) /\ <<reply>> \in Seq(Replies)
  BY DEF SentTypes
<1>2. written[c] \o <<reply>> \in Seq(Replies)
  BY <1>1, ConcatProperties
<1>. QED
  BY <1>2 DEF DoSend, SentTypes

LEMMA SentSteps ==
  ASSUME SentTypes, IdTypes, Types, ReplyInv, ReplyStep
  PROVE  SentTypes'
<1>1. CASE Rests \/ Admits
  BY <1>1 DEF Rests, Admits, SentTypes
<1>2. CASE Leaves
  BY <1>2 DEF Leaves, Restrict, SentTypes
<1>3. CASE Fails
  <2>1. PICK id \in {called, NoId} : DoSend(conn, <<Reply(conn, id, TRUE)>>)
    BY <1>3 DEF Fails
  <2>2. conn \in Conns /\ id \in Ids \union {NoId}
    BY <1>3 DEF Fails, Types, IdTypes
  <2>3. Reply(conn, id, TRUE) \in Replies
    BY <2>2 DEF Reply, Replies
  <2>. QED
    BY <1>3, <2>1, <2>2, <2>3, SendTypes DEF Fails, SentTypes
<1>4. CASE CallsBack
  <2>1. PICK c \in Conns, id \in Ids :
          \/ Enqueue(c, Reply(c, id, FALSE)) /\ UNCHANGED written
          \/ DoSend(c, <<Reply(c, id, FALSE)>>) /\ UNCHANGED msgQueues
          \/ UNCHANGED <<written, msgQueues>>
    BY <1>4 DEF CallsBack
  <2>. DEFINE r == Reply(c, id, FALSE)
              k == Key(c)
              queue == IF k \in DOMAIN msgQueues THEN msgQueues[k] ELSE <<>>
  <2>2. r \in Replies
    BY DEF Reply, Replies
  <2>3. CASE Enqueue(c, r) /\ UNCHANGED written
    <3>1. queue \in Seq(Replies)
      BY DEF SentTypes
    <3>2. msgQueues' = [l \in DOMAIN msgQueues \union {k} |->
                          IF l = k THEN Append(queue, r) ELSE msgQueues[l]]
      BY <2>3 DEF Enqueue
    <3>. HIDE DEF r, k, queue
    <3>3. Append(queue, r) \in Seq(Replies)
      BY <2>2, <3>1
    <3>. QED
      BY <2>3, <3>2, <3>3 DEF SentTypes
  <2>. QED
    BY <2>1, <2>2, <2>3, SendTypes DEF SentTypes
<1>5. CASE Flushes
  <2>1. msgQueues' \in [DOMAIN msgQueues' -> Seq(Replies)]
    <3>1. <<>> \in Seq(Replies)
      OBVIOUS
    <3>. QED
      BY <1>5, <3>1 DEF Flushes, Flushed
  <2>2. ASSUME NEW c \in Conns
        PROVE  FlushedTo(c) \in Seq(Replies)
    <3>1. written[c] \in Seq(Replies)
      BY DEF SentTypes
    <3>2. CASE \E k \in DOMAIN msgQueues \intersect DOMAIN sockets : sockets[k] = c
      <4>1. Key(c) \in DOMAIN msgQueues
        BY <3>2 DEF ReplyInv, KeysInv
      <4>2. msgQueues[Key(c)] \in Seq(Replies)
        BY <4>1 DEF SentTypes
      <4>3. written[c] \o msgQueues[Key(c)] \in Seq(Replies)
        BY <3>1, <4>2, ConcatProperties
      <4>. QED
        BY <3>2, <4>3 DEF FlushedTo
    <3>3. CASE ~\E k \in DOMAIN msgQueues \intersect DOMAIN sockets : sockets[k] = c
      BY <3>1, <3>3 DEF FlushedTo
    <3>. QED
      BY <3>2, <3>3
  <2>3. written' \in [Conns -> Seq(Replies)]
    BY <1>5, <2>2 DEF Flushes, SentTypes
  <2>. QED
    BY <2>1, <2>3 DEF SentTypes
<1>. QED
  BY <1>1, <1>2, <1>3, <1>4, <1>5 DEF ReplyStep

LEMMA TypeInit == Init => TypeOK
<1>. SUFFICES ASSUME Init PROVE TypeOK
  OBVIOUS
<1>1. /\ kind \in Kinds /\ bufferMsg \in Buffering
      /\ started = FALSE /\ stoped = FALSE /\ interval = FALSE
      /\ curId = 1 /\ open = {} /\ waiting = {} /\ sockets = <<>> /\ msgQueues = <<>>
      /\ conn = 0 /\ single = FALSE /\ rest = <<>> /\ called = NoId /\ crashed = FALSE
      /\ serving = {} /\ failed = {} /\ dropped = {}
      /\ received = [c \in Conns |-> 0]
      /\ answered = [c \in Conns |-> <<>>]
      /\ written = [c \in Conns |-> <<>>]
  BY DEF Init, Mqtt!Init, Mqtt!New, Tcp!Init, Tcp!New, Ws!Init, Ws!New, Ws2!Init, Ws2!New,
         Mqtt2!Init, Mqtt2!New, Conns, Mqtt!Conns, Tcp!Conns, Ws!Conns, Ws2!Conns,
         Mqtt2!Conns, NoId, Mqtt!NoId, Tcp!NoId, Ws!NoId, Ws2!NoId, Mqtt2!NoId
<1>2. DOMAIN <<>> = {} /\ Range(<<>>) = {}
  BY DEF Range
<1>3. FlagTypes
  BY <1>1 DEF FlagTypes
<1>4. LinkTypes
  <2>1. curId \in 1 .. MaxConns + 1 /\ conn \in 0 .. curId - 1
    BY <1>1, BoundsAssumption
  <2>. QED
    BY <1>1, <1>2, <2>1 DEF LinkTypes
<1>5. IdTypes
  <2>1. 0 \in 0 .. MaxRequests /\ <<>> \in Seq(Ids)
    BY BoundsAssumption
  <2>. QED
    BY <1>1, <2>1 DEF IdTypes
<1>6. SentTypes
  <2>1. <<>> \in Seq(Replies)
    OBVIOUS
  <2>. QED
    BY <1>1, <1>2, <2>1 DEF SentTypes
<1>. QED
  BY <1>3, <1>4, <1>5, <1>6, TypeParts

\* The state has its types, within the bounds of the model: ids of requests that
\* arrived, connections that were accepted, sockets that are open.
THEOREM TypeCorrect == Spec => []TypeOK
<1>1. TypeOK /\ IInv /\ ReplyInv /\ [Next]_vars => TypeOK'
  <2>. SUFFICES ASSUME TypeOK, IInv, ReplyInv, [Next]_vars
                PROVE  TypeOK'
    OBVIOUS
  <2>1. FlagTypes /\ LinkTypes /\ IdTypes /\ SentTypes /\ Types
    BY TypeParts DEF IInv
  <2>2. Step /\ ReplyStep
    BY <2>1, Steps, ReplySteps
  <2>3. (FlagTypes /\ LinkTypes /\ IdTypes /\ SentTypes)'
    BY <2>1, <2>2, FlagSteps, LinkSteps, IdSteps, SentSteps
  <2>. QED
    BY <2>3 DEF TypeOK, FlagTypes, LinkTypes, IdTypes, SentTypes
<1>. QED
  BY <1>1, TypeInit, InductiveInvariant, ReplyInvariant, PTL DEF Spec
=============================================================================
