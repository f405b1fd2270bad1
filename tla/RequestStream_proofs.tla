------------------------ MODULE RequestStream_proofs ------------------------
(***************************************************************************)
(* What the steps of a mailbox and of its connection do to the requests on *)
(* their way: lemmas that the proofs of all mailboxes use.                 *)
(***************************************************************************)
EXTENDS RequestStream, SequenceTheorems, TLAPS

\* Nothing was sent yet.
LEMMA EmptyStream == Stream(<<>>, <<>>, <<>>, 0)
BY DEF Stream, InOrder, Ascends, Precedes, Below

\* A connection that breaks loses the packets on the wire, and nothing else.
LEMMA WireLost ==
  ASSUME NEW r, NEW w, NEW b, NEW n, Stream(r, w, b, n)
  PROVE  Stream(r, <<>>, b, n)
BY DEF Stream, InOrder

\* The buffer is dropped.
LEMMA BufferLost ==
  ASSUME NEW r, NEW w, NEW b, NEW n, Stream(r, w, b, n)
  PROVE  Stream(r, w, <<>>, n)
BY DEF Stream, InOrder, Ascends, Precedes, Below

\* A request is given its id, and is then not written.
LEMMA IdTaken ==
  ASSUME NEW r, NEW w, NEW b, NEW n, Stream(r, w, b, n)
  PROVE  Stream(r, w, b, n + 1)
BY DEF Stream, Below

\* A request is buffered.
LEMMA RequestBuffered ==
  ASSUME NEW r, NEW w, NEW b, NEW n, Stream(r, w, b, n)
  PROVE  Stream(r, w, Append(b, n), n + 1)
<1>. DEFINE a == Append(b, n)
<1>1. /\ r \in Seq(Nat) /\ w \in Seq(Seq(Nat)) /\ b \in Seq(Nat) /\ n \in Nat
      /\ Len(b) \in Nat /\ DOMAIN b = 1 .. Len(b)
  BY DEF Stream
<1>2. /\ a \in Seq(Nat) /\ DOMAIN a = 1 .. Len(b) + 1
      /\ \A i \in 1 .. Len(b) : a[i] = b[i]
      /\ a[Len(b) + 1] = n
  BY <1>1, AppendProperties
<1>3. \A j \in DOMAIN a : (j \in DOMAIN b /\ a[j] = b[j]) \/ (j = Len(b) + 1 /\ a[j] = n)
  BY <1>1, <1>2
<1>. HIDE DEF a
<1>4. Below(a, n + 1)
  <2>1. \A i \in DOMAIN b : b[i] \in Nat /\ b[i] < n
    BY <1>1 DEF Stream, Below
  <2>. QED
    BY SMTT(20), <1>1, <1>3, <2>1 DEF Below
<1>5. ASSUME NEW s \in Seq(Nat), Precedes(s, b), Below(s, n)
      PROVE  Precedes(s, a)
  BY <1>3, <1>5 DEF Precedes, Below
<1>6. Ascends(a)
  <2>1. SUFFICES ASSUME NEW i \in DOMAIN a, NEW j \in DOMAIN a, i < j
                 PROVE  a[i] < a[j]
    BY DEF Ascends
  <2>2. i \in DOMAIN b /\ a[i] = b[i]
    BY SMTT(20), <1>1, <1>2, <1>3, <2>1
  <2>3. CASE j \in DOMAIN b /\ a[j] = b[j]
    BY <2>1, <2>2, <2>3 DEF Stream, InOrder, Ascends
  <2>4. CASE a[j] = n
    BY <2>2, <2>4 DEF Stream, Below
  <2>. QED
    BY <1>3, <2>3, <2>4
<1>7. \A p \in DOMAIN w : w[p] \in Seq(Nat)
  BY <1>1
<1>8. Precedes(r, a) /\ \A p \in DOMAIN w : Precedes(w[p], a)
  BY <1>1, <1>5, <1>7 DEF Stream, InOrder
<1>9. InOrder(r, w, a)
  BY <1>6, <1>8 DEF Stream, InOrder
<1>10. Stream(r, w, b, n + 1)
  BY IdTaken
<1>11. Stream(r, w, a, n + 1)
  BY <1>2, <1>4, <1>9, <1>10 DEF Stream
<1>. QED
  BY <1>11 DEF a

\* The buffer is written as one packet, and emptied.
LEMMA BufferWritten ==
  ASSUME NEW r, NEW w, NEW b, NEW n, Stream(r, w, b, n)
  PROVE  Stream(r, Append(w, b), <<>>, n)
<1>. DEFINE a == Append(w, b)
<1>1. /\ r \in Seq(Nat) /\ w \in Seq(Seq(Nat)) /\ b \in Seq(Nat)
      /\ Len(w) \in Nat /\ DOMAIN w = 1 .. Len(w)
  BY DEF Stream
<1>2. /\ a \in Seq(Seq(Nat)) /\ DOMAIN a = 1 .. Len(w) + 1
      /\ \A p \in 1 .. Len(w) : a[p] = w[p]
      /\ a[Len(w) + 1] = b
  BY <1>1, AppendProperties
<1>3. \A p \in DOMAIN a : (p \in DOMAIN w /\ a[p] = w[p]) \/ (p = Len(w) + 1 /\ a[p] = b)
  BY <1>1, <1>2
<1>. HIDE DEF a
<1>4. \A p \in DOMAIN a : Precedes(r, a[p]) /\ Ascends(a[p]) /\ Below(a[p], n)
  BY <1>3 DEF Stream, InOrder
<1>5. ASSUME NEW p \in DOMAIN a, NEW q \in DOMAIN a, p < q
      PROVE  Precedes(a[p], a[q])
  <2>1. p \in DOMAIN w /\ a[p] = w[p]
    BY <1>1, <1>2, <1>3, <1>5
  <2>. QED
    BY <1>3, <1>5, <2>1 DEF Stream, InOrder
<1>6. \A s : Precedes(s, <<>>)
  BY DEF Precedes
<1>7. Stream(r, w, <<>>, n)
  BY BufferLost
<1>8. InOrder(r, a, <<>>)
  BY <1>4, <1>5, <1>6, <1>7 DEF Stream, InOrder
<1>9. Stream(r, a, <<>>, n)
  BY <1>2, <1>4, <1>7, <1>8 DEF Stream
<1>. QED
  BY <1>9 DEF a

\* A request is written as a packet of its own: there is no buffer.
LEMMA RequestWritten ==
  ASSUME NEW r, NEW w, NEW n, Stream(r, w, <<>>, n)
  PROVE  Stream(r, Append(w, <<n>>), <<>>, n + 1)
<1>1. Append(<<>>, n) = <<n>>
  OBVIOUS
<1>. QED
  BY <1>1, RequestBuffered, BufferWritten

\* The server receives the oldest packet on the wire.
LEMMA PacketReceived ==
  ASSUME NEW r, NEW w, NEW b, NEW n, Stream(r, w, b, n), w # <<>>
  PROVE  Stream(r \o Head(w), Tail(w), b, n)
<1>. DEFINE h == Head(w)
            t == Tail(w)
            c == r \o h
<1>1. /\ r \in Seq(Nat) /\ w \in Seq(Seq(Nat)) /\ b \in Seq(Nat) /\ n \in Nat
      /\ h \in Seq(Nat) /\ h = w[1] /\ 1 \in DOMAIN w
      /\ t \in Seq(Seq(Nat))
      /\ \A p \in DOMAIN t : p \in Nat /\ p + 1 \in DOMAIN w /\ t[p] = w[p + 1] /\ 1 < p + 1
  BY DEF Stream
<1>2. /\ Len(r) \in Nat /\ DOMAIN r = 1 .. Len(r)
      /\ Len(h) \in Nat /\ DOMAIN h = 1 .. Len(h)
  BY <1>1, LenProperties
<1>3. /\ c \in Seq(Nat) /\ DOMAIN c = 1 .. Len(r) + Len(h)
      /\ \A i \in 1 .. Len(r) : c[i] = r[i]
      /\ \A i \in Len(r) + 1 .. Len(r) + Len(h) : c[i] = h[i - Len(r)]
  BY <1>1, <1>2, ConcatProperties, LenProperties
<1>4. \A i \in DOMAIN c : \/ i \in DOMAIN r /\ c[i] = r[i]
                          \/ /\ i > Len(r) /\ i - Len(r) \in DOMAIN h
                             /\ c[i] = h[i - Len(r)]
  BY <1>2, <1>3
<1>. HIDE DEF h, t, c
<1>5. ASSUME NEW s, Precedes(r, s), Precedes(h, s)
      PROVE  Precedes(c, s)
  BY <1>4, <1>5 DEF Precedes
<1>6. Below(c, n)
  BY <1>1, <1>4 DEF Stream, Below
<1>7. Ascends(c)
  <2>1. SUFFICES ASSUME NEW i \in DOMAIN c, NEW j \in DOMAIN c, i < j
                 PROVE  c[i] < c[j]
    BY DEF Ascends
  <2>2. i \in Int /\ j \in Int
    BY <1>3
  <2>3. Ascends(r) /\ Ascends(h) /\ Precedes(r, h)
    BY <1>1 DEF Stream, InOrder
  <2>4. CASE i \in DOMAIN r /\ c[i] = r[i]
    BY <1>4, <2>1, <2>3, <2>4 DEF Ascends, Precedes
  <2>5. CASE /\ i > Len(r) /\ i - Len(r) \in DOMAIN h
             /\ c[i] = h[i - Len(r)]
    <3>1. j > Len(r)
      BY <1>2, <2>1, <2>2, <2>5
    <3>2. /\ j - Len(r) \in DOMAIN h /\ c[j] = h[j - Len(r)]
      BY <1>2, <1>4, <3>1
    <3>3. i - Len(r) < j - Len(r)
      BY <1>2, <2>1, <2>2
    <3>. QED
      BY <2>3, <2>5, <3>2, <3>3 DEF Ascends
  <2>. QED
    BY <1>4, <2>4, <2>5
<1>8. \A p \in DOMAIN t : /\ Precedes(c, t[p]) /\ Ascends(t[p]) /\ Precedes(t[p], b)
                          /\ Below(t[p], n)
  BY <1>1, <1>5 DEF Stream, InOrder
<1>9. ASSUME NEW p \in DOMAIN t, NEW q \in DOMAIN t, p < q
      PROVE  Precedes(t[p], t[q])
  <2>1. p + 1 < q + 1
    BY <1>1, <1>9
  <2>. QED
    BY <1>1, <2>1 DEF Stream, InOrder
<1>10. Ascends(b) /\ Precedes(c, b) /\ Below(b, n)
  BY <1>1, <1>5 DEF Stream, InOrder
<1>11. Stream(c, t, b, n)
  BY <1>1, <1>3, <1>6, <1>7, <1>8, <1>9, <1>10 DEF Stream, InOrder
<1>. QED
  BY <1>11 DEF h, t, c
=============================================================================
