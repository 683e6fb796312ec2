---------------------------- MODULE CyphalProofs ----------------------------
(***************************************************************************)
(* Proofs about the Cyphal node, for any requests, queue sizes, timeouts   *)
(* and devices, and about the messages it carries.                         *)
(***************************************************************************)
EXTENDS Cyphal, CyphalRequests, CyphalCodec, FiniteSetTheorems, SequenceTheorems, TLAPS

-----------------------------------------------------------------------------
(* Sequences                                                               *)

\* A sequence without its last element.
LEMMA FrontShape ==
  ASSUME NEW S, NEW q \in Seq(S), q # <<>>
  PROVE  /\ Front(q) \in Seq(S) /\ Len(q) \in Nat \ {0} /\ Len(Front(q)) = Len(q) - 1
         /\ \A i \in 1..(Len(q) - 1) : Front(q)[i] = q[i]
<1> DEFINE n == Len(q) - 1
<1>1. n \in Nat /\ Len(q) \in Nat \ {0} /\ \A i \in 1..n : q[i] \in S OBVIOUS
<1> HIDE DEF n
<1>2. /\ SubSeq(q, 1, n) \in Seq(S)
      /\ Len(SubSeq(q, 1, n)) = IF 1 <= n THEN n - 1 + 1 ELSE 0
      /\ \A i \in 1..(n - 1 + 1) : SubSeq(q, 1, n)[i] = q[1 + i - 1]
  BY <1>1, SubSeqProperties
<1>3. /\ SubSeq(q, 1, n) \in Seq(S) /\ Len(SubSeq(q, 1, n)) = n
      /\ \A i \in 1..n : SubSeq(q, 1, n)[i] = q[i]
  BY <1>1, <1>2
<1> QED BY <1>1, <1>3 DEF n, Front

\* The elements from m on, as a sequence.
LEMMA RestShape ==
  ASSUME NEW S, NEW q \in Seq(S), NEW m \in 1..(Len(q) + 1)
  PROVE  /\ SubSeq(q, m, Len(q)) \in Seq(S) /\ Len(SubSeq(q, m, Len(q))) = Len(q) - m + 1
         /\ \A i \in 1..(Len(q) - m + 1) : SubSeq(q, m, Len(q))[i] = q[m + i - 1]
<1>1. Len(q) \in Nat /\ m \in Int OBVIOUS
<1>2. \A i \in m..Len(q) : q[i] \in S OBVIOUS
<1>3. /\ SubSeq(q, m, Len(q)) \in Seq(S)
      /\ Len(SubSeq(q, m, Len(q))) = IF m <= Len(q) THEN Len(q) - m + 1 ELSE 0
      /\ \A i \in 1..(Len(q) - m + 1) : SubSeq(q, m, Len(q))[i] = q[m + i - 1]
  BY <1>1, <1>2, SubSeqProperties
<1> QED BY <1>1, <1>3

\* The first k elements, as a sequence.
LEMMA FirstShape ==
  ASSUME NEW S, NEW q \in Seq(S), NEW k \in 0..Len(q)
  PROVE  /\ SubSeq(q, 1, k) \in Seq(S) /\ Len(SubSeq(q, 1, k)) = k
         /\ \A i \in 1..k : SubSeq(q, 1, k)[i] = q[i]
<1>1. k \in Nat /\ \A i \in 1..k : q[i] \in S OBVIOUS
<1>2. /\ SubSeq(q, 1, k) \in Seq(S)
      /\ Len(SubSeq(q, 1, k)) = IF 1 <= k THEN k - 1 + 1 ELSE 0
      /\ \A i \in 1..(k - 1 + 1) : SubSeq(q, 1, k)[i] = q[1 + i - 1]
  BY <1>1, SubSeqProperties
<1> QED BY <1>1, <1>2

\* Insertion is a concatenation.
LEMMA InsertIs ==
  ASSUME NEW q, NEW i, NEW x
  PROVE  InsertAt(q, i, x) = SubSeq(q, 1, i - 1) \o <<x>> \o SubSeq(q, i, Len(q))
BY DEF InsertAt

\* The sequence t is q with x at the place m.
IsInserted(t, q, m, x) ==
  /\ Len(t) = Len(q) + 1 /\ t[m] = x
  /\ \A i \in 1..(m - 1) : t[i] = q[i]
  /\ \A i \in (m + 1)..(Len(q) + 1) : t[i] = q[i - 1]

\* What insertion at place m does.
LEMMA InsertShape ==
  ASSUME NEW S, NEW q \in Seq(S), NEW x \in S, NEW m \in 1..(Len(q) + 1)
  PROVE  InsertAt(q, m, x) \in Seq(S) /\ IsInserted(InsertAt(q, m, x), q, m, x)
<1> DEFINE a == SubSeq(q, 1, m - 1)
           b == SubSeq(q, m, Len(q))
           c == a \o <<x>>
<1>1. m - 1 \in 0..Len(q) /\ m \in Nat \ {0} /\ Len(q) \in Nat OBVIOUS
<1>2. a \in Seq(S) /\ Len(a) = m - 1 /\ \A i \in 1..(m - 1) : a[i] = q[i]
  BY <1>1, FirstShape
<1>3. /\ b \in Seq(S) /\ Len(b) = Len(q) - m + 1
      /\ \A i \in 1..(Len(q) - m + 1) : b[i] = q[m + i - 1]
  BY RestShape
<1>4. InsertAt(q, m, x) = c \o b BY InsertIs
<1> HIDE DEF a, b
<1>6. /\ c \in Seq(S) /\ Len(c) = m /\ c[m] = x /\ \A i \in 1..(m - 1) : c[i] = q[i]
  BY <1>1, <1>2
<1> HIDE DEF c
<1>7. /\ c \o b \in Seq(S) /\ Len(c \o b) = Len(c) + Len(b)
      /\ \A i \in 1..(Len(c) + Len(b)) : (c \o b)[i] = IF i <= Len(c) THEN c[i] ELSE b[i - Len(c)]
  BY <1>3, <1>6, ConcatProperties
<1>8. Len(c \o b) = Len(q) + 1 BY <1>1, <1>3, <1>6, <1>7
<1>9. (c \o b)[m] = x /\ \A i \in 1..(m - 1) : (c \o b)[i] = q[i]
  BY <1>1, <1>3, <1>6, <1>7
<1>10. ASSUME NEW i \in (m + 1)..(Len(q) + 1) PROVE (c \o b)[i] = q[i - 1]
  <2>0. i \in Int /\ m + 1 <= i /\ i <= Len(q) + 1 BY <1>1
  <2>1. i \in 1..(Len(c) + Len(b)) /\ ~(i <= Len(c)) BY <1>1, <1>3, <1>6, <2>0
  <2>2. i - Len(c) \in 1..(Len(q) - m + 1) /\ m + (i - Len(c)) - 1 = i - 1 BY <1>1, <1>6, <2>0
  <2> QED BY <1>3, <1>7, <2>1, <2>2
<1> QED BY <1>4, <1>7, <1>8, <1>9, <1>10 DEF IsInserted

\* What removal of place k does.
LEMMA RemoveShape ==
  ASSUME NEW S, NEW q \in Seq(S), NEW k \in 1..Len(q)
  PROVE  /\ RemoveAt(q, k) \in Seq(S) /\ Len(RemoveAt(q, k)) = Len(q) - 1
         /\ \A i \in 1..(k - 1) : RemoveAt(q, k)[i] = q[i]
         /\ \A i \in k..(Len(q) - 1) : RemoveAt(q, k)[i] = q[i + 1]
<1> DEFINE a == SubSeq(q, 1, k - 1)
           b == SubSeq(q, k + 1, Len(q))
<1>1. k - 1 \in 0..Len(q) /\ k + 1 \in 1..(Len(q) + 1) /\ k \in Nat /\ Len(q) \in Nat OBVIOUS
<1>2. a \in Seq(S) /\ Len(a) = k - 1 /\ \A i \in 1..(k - 1) : a[i] = q[i]
  BY <1>1, FirstShape
<1>3. /\ b \in Seq(S) /\ Len(b) = Len(q) - (k + 1) + 1
      /\ \A i \in 1..(Len(q) - (k + 1) + 1) : b[i] = q[k + 1 + i - 1]
  BY <1>1, RestShape
<1>4. RemoveAt(q, k) = a \o b BY DEF RemoveAt
<1>5. Len(b) = Len(q) - k /\ \A i \in 1..(Len(q) - k) : b[i] = q[k + i]
  BY <1>1, <1>3
<1> HIDE DEF a, b
<1>7. /\ a \o b \in Seq(S) /\ Len(a \o b) = Len(a) + Len(b)
      /\ \A i \in 1..(Len(a) + Len(b)) : (a \o b)[i] = IF i <= Len(a) THEN a[i] ELSE b[i - Len(a)]
  BY <1>2, <1>3, ConcatProperties
<1>8. Len(a \o b) = Len(q) - 1 BY <1>1, <1>2, <1>5, <1>7
<1>9. \A i \in 1..(k - 1) : (a \o b)[i] = q[i] BY <1>1, <1>2, <1>5, <1>7
<1>10. ASSUME NEW i \in k..(Len(q) - 1) PROVE (a \o b)[i] = q[i + 1]
  <2>1. i \in 1..(Len(a) + Len(b)) /\ ~(i <= Len(a)) /\ i - Len(a) \in 1..(Len(q) - k)
        /\ k + (i - Len(a)) = i + 1
    BY <1>1, <1>2, <1>5
  <2> QED BY <1>5, <1>7, <2>1
<1> QED BY <1>4, <1>7, <1>8, <1>9, <1>10


-----------------------------------------------------------------------------
(* The stack of C++ frames                                                 *)

\* What the stack says of processTx(), of any stack.
Stack(s, busy) ==
  /\ s \in Seq(Frame)
  /\ \A i \in 1..Len(s) : InProcessTx(s[i]) => busy
  /\ \A i, j \in 1..Len(s) : InProcessTx(s[i]) /\ InProcessTx(s[j]) => i = j
IsWriting(f) == f.op = "tx" /\ f.at # "peek"
WritingIn(s) == {s[i].item : i \in {j \in 1..Len(s) : IsWriting(s[j])}}

\* Writing is WritingIn of the stack.
LEMMA WritingIs == Writing = WritingIn(calls)
BY DEF Writing, WritingIn, WritingAt, IsWriting

\* The same in the next state.
LEMMA WritingIsNext == Writing' = WritingIn(calls')
BY DEF Writing, WritingIn, WritingAt, IsWriting

\* The fields of a call on the stack.
LEMMA CallFields ==
  \A op, at, item : /\ Call(op, at, item).op = op /\ Call(op, at, item).at = at
                    /\ Call(op, at, item).item = item
BY DEF Call

\* A call on top of the others; processTx() only when it is not below.
LEMMA StackPush ==
  ASSUME NEW s, NEW busy, Stack(s, busy), NEW f \in Frame, ~IsWriting(f), InProcessTx(f) => ~busy,
         NEW now, (busy \/ InProcessTx(f)) => now
  PROVE  Stack(Append(s, f), now) /\ WritingIn(Append(s, f)) = WritingIn(s)
<1> DEFINE t == Append(s, f)
<1>1. s \in Seq(Frame) /\ Len(s) \in Nat BY DEF Stack
<1>2. /\ t \in Seq(Frame) /\ Len(t) = Len(s) + 1 /\ t[Len(s) + 1] = f
      /\ \A i \in 1..Len(s) : i \in 1..Len(t) /\ t[i] = s[i]
  BY <1>1
<1> HIDE DEF t
<1>3. \A i \in 1..Len(t) : i \in 1..Len(s) \/ (i = Len(s) + 1 /\ t[i] = f) BY <1>1, <1>2
<1>4. \A i \in 1..Len(t) : InProcessTx(t[i]) => now BY <1>2, <1>3 DEF Stack
<1>5. ASSUME NEW i \in 1..Len(t), NEW j \in 1..Len(t), InProcessTx(t[i]), InProcessTx(t[j])
      PROVE  i = j
  <2>1. CASE i \in 1..Len(s) /\ j \in 1..Len(s) BY <1>2, <1>5, <2>1 DEF Stack
  <2>2. CASE InProcessTx(f)
    <3>1. \A k \in 1..Len(s) : ~InProcessTx(s[k]) BY <2>2 DEF Stack
    <3> QED BY <1>2, <1>3, <1>5, <3>1
  <2>3. CASE ~InProcessTx(f) BY <1>3, <1>5, <2>1, <2>3
  <2> QED BY <2>2, <2>3
<1>6. ASSUME NEW x PROVE x \in WritingIn(t) <=> x \in WritingIn(s)
  <2>1. ASSUME x \in WritingIn(t) PROVE x \in WritingIn(s)
    <3>1. PICK i \in 1..Len(t) : IsWriting(t[i]) /\ x = t[i].item BY <2>1 DEF WritingIn
    <3>2. i \in 1..Len(s) /\ t[i] = s[i] BY <1>2, <1>3, <3>1
    <3> QED BY <3>1, <3>2 DEF WritingIn
  <2>2. ASSUME x \in WritingIn(s) PROVE x \in WritingIn(t)
    <3>1. PICK i \in 1..Len(s) : IsWriting(s[i]) /\ x = s[i].item BY <2>2 DEF WritingIn
    <3> QED BY <1>2, <3>1 DEF WritingIn
  <2> QED BY <2>1, <2>2
<1>7. WritingIn(t) = WritingIn(s) BY <1>6
<1> QED BY <1>2, <1>4, <1>5, <1>7 DEF Stack, t

\* The top call returns, having written nothing; processTx() clears its flag.
LEMMA StackPop ==
  ASSUME NEW s, NEW busy, Stack(s, busy), s # <<>>, ~IsWriting(Last(s)),
         NEW now, busy /\ ~InProcessTx(Last(s)) => now
  PROVE  Stack(Front(s), now) /\ WritingIn(Front(s)) = WritingIn(s)
<1> DEFINE t == Front(s)
           n == Len(s)
<1>1. s \in Seq(Frame) BY DEF Stack
<1>2. /\ t \in Seq(Frame) /\ n \in Nat \ {0} /\ Len(t) = n - 1
      /\ \A i \in 1..(n - 1) : t[i] = s[i]
  BY <1>1, FrontShape
<1>3. Last(s) = s[n] /\ n \in 1..n BY <1>2 DEF Last
<1> HIDE DEF t
<1>4. \A i \in 1..Len(t) : i \in 1..n /\ i # n /\ t[i] = s[i] BY <1>2
<1>5. \A i \in 1..Len(t) : InProcessTx(t[i]) => now BY <1>3, <1>4 DEF Stack
<1>6. \A i, j \in 1..Len(t) : InProcessTx(t[i]) /\ InProcessTx(t[j]) => i = j BY <1>4 DEF Stack
<1>7. ASSUME NEW x PROVE x \in WritingIn(t) <=> x \in WritingIn(s)
  <2>1. ASSUME x \in WritingIn(t) PROVE x \in WritingIn(s)
    <3>1. PICK i \in 1..Len(t) : IsWriting(t[i]) /\ x = t[i].item BY <2>1 DEF WritingIn
    <3> QED BY <1>4, <3>1 DEF WritingIn
  <2>2. ASSUME x \in WritingIn(s) PROVE x \in WritingIn(t)
    <3>1. PICK i \in 1..n : IsWriting(s[i]) /\ x = s[i].item BY <2>2 DEF WritingIn
    <3>2. i # n BY <1>3, <3>1
    <3>3. i \in 1..Len(t) /\ t[i] = s[i] BY <1>2, <3>2
    <3> QED BY <3>1, <3>3 DEF WritingIn
  <2> QED BY <2>1, <2>2
<1>8. WritingIn(t) = WritingIn(s) BY <1>7
<1> QED BY <1>2, <1>5, <1>6, <1>8 DEF Stack, t

\* processTx(), on top of the stack, goes on at another place.
LEMMA StackTop ==
  ASSUME NEW s, NEW busy, Stack(s, busy), s # <<>>, InProcessTx(Last(s)),
         NEW f \in Frame, InProcessTx(f)
  PROVE  /\ Stack(Append(Front(s), f), busy) /\ busy
         /\ WritingIn(s) = IF IsWriting(Last(s)) THEN {Last(s).item} ELSE {}
         /\ WritingIn(Append(Front(s), f)) = IF IsWriting(f) THEN {f.item} ELSE {}
<1> DEFINE t == Append(Front(s), f)
           n == Len(s)
<1>1. s \in Seq(Frame) BY DEF Stack
<1>2. /\ Front(s) \in Seq(Frame) /\ n \in Nat \ {0} /\ Len(Front(s)) = n - 1
      /\ \A i \in 1..(n - 1) : Front(s)[i] = s[i]
  BY <1>1, FrontShape
<1>3. Last(s) = s[n] /\ n \in 1..n BY <1>2 DEF Last
<1>4. /\ t \in Seq(Frame) /\ Len(t) = n /\ t[n] = f
      /\ \A i \in 1..n : i # n => t[i] = s[i]
  BY <1>2
<1> HIDE DEF t
<1>5. busy /\ \A i \in 1..n : i # n => ~InProcessTx(s[i]) BY <1>3 DEF Stack
<1>6. \A i, j \in 1..Len(t) : InProcessTx(t[i]) /\ InProcessTx(t[j]) => i = j BY <1>3, <1>4, <1>5
<1>7. \A i \in 1..n : IsWriting(s[i]) => i = n BY <1>5 DEF IsWriting, InProcessTx
<1>8. \A i \in 1..n : IsWriting(t[i]) => i = n BY <1>4, <1>5 DEF IsWriting, InProcessTx
<1>9. WritingIn(s) = IF IsWriting(Last(s)) THEN {Last(s).item} ELSE {}
  BY <1>3, <1>7 DEF WritingIn
<1>10. WritingIn(t) = IF IsWriting(f) THEN {f.item} ELSE {}
  BY <1>3, <1>4, <1>8 DEF WritingIn
<1> QED BY <1>4, <1>5, <1>6, <1>9, <1>10 DEF Stack, t

\* The listeners of the next event run in the call on top.
LEMMA StackStage ==
  ASSUME NEW s, NEW busy, Stack(s, busy), s # <<>>, Last(s).at # "peek",
         NEW f \in Frame, f.op = Last(s).op, f.item = Last(s).item, f.at # "peek"
  PROVE  Stack(Append(Front(s), f), busy) /\ WritingIn(Append(Front(s), f)) = WritingIn(s)
<1> DEFINE t == Append(Front(s), f)
           n == Len(s)
<1>1. s \in Seq(Frame) BY DEF Stack
<1>2. /\ Front(s) \in Seq(Frame) /\ n \in Nat \ {0} /\ Len(Front(s)) = n - 1
      /\ \A i \in 1..(n - 1) : Front(s)[i] = s[i]
  BY <1>1, FrontShape
<1>3. Last(s) = s[n] /\ n \in 1..n BY <1>2 DEF Last
<1>4. /\ t \in Seq(Frame) /\ Len(t) = n /\ t[n] = f
      /\ \A i \in 1..n : i # n => t[i] = s[i]
  BY <1>2
<1> HIDE DEF t
<1>5. \A i \in 1..n : /\ (InProcessTx(t[i]) <=> InProcessTx(s[i]))
                       /\ (IsWriting(t[i]) <=> IsWriting(s[i]))
                       /\ t[i].item = s[i].item
  BY <1>3, <1>4 DEF InProcessTx, IsWriting
<1>6. WritingIn(t) = WritingIn(s) BY <1>4, <1>5 DEF WritingIn
<1>7. Stack(t, busy) BY <1>4, <1>5 DEF Stack
<1> QED BY <1>6, <1>7 DEF t


-----------------------------------------------------------------------------
(* The queue                                                               *)

\* EachFrameOnce and what it needs, of any queue.
Nums(q) == {q[i].n : i \in 1..Len(q)}
Once(q, w, p, s, d) ==
  /\ q \in Seq(Items) /\ p \in 0..MaxItems /\ s \in [1..MaxItems -> Nat] /\ d \subseteq 1..MaxItems
  /\ \A i \in 1..Len(q) : q[i].n \in 1..p
  /\ \A i, j \in 1..Len(q) : q[i].n = q[j].n => i = j
  /\ \A n \in 1..MaxItems : n > p => s[n] = 0 /\ n \notin d
  /\ w \subseteq Nums(q)
  /\ \A n \in 1..p : /\ s[n] \in {0, 1}
                     /\ n \in Nums(q) => n \notin d /\ (s[n] = 1 <=> n \in w)
                     /\ n \notin Nums(q) => (s[n] = 1 <=> n \notin d)

\* A frame of the queue has a number.
LEMMA ItemTypes ==
  ASSUME NEW q \in Seq(Items), NEW i \in 1..Len(q)
  PROVE  /\ q[i] \in Items /\ q[i].n \in 1..MaxItems /\ q[i].id \in 1..3
         /\ q[i].old \in BOOLEAN
<1>1. q[i] \in Items OBVIOUS
<1> QED BY <1>1 DEF Items

\* canardTxPush of a new frame.
LEMMA OncePush ==
  ASSUME NEW q, NEW w, NEW p, NEW s, NEW d, Once(q, w, p, s, d), p < MaxItems, MaxItems \in Nat,
         NEW x \in Items, x.n = p + 1, NEW k \in 1..(Len(q) + 1)
  PROVE  Once(InsertAt(q, k, x), w, p + 1, s, d)
<1> DEFINE t == InsertAt(q, k, x)
           Was(i) == IF i < k THEN i ELSE i - 1
<1>1. q \in Seq(Items) /\ p \in Nat /\ Len(q) \in Nat /\ k \in Nat BY DEF Once
<1>2. /\ t \in Seq(Items) /\ Len(t) = Len(q) + 1 /\ t[k] = x
      /\ \A i \in 1..(k - 1) : t[i] = q[i]
      /\ \A i \in (k + 1)..(Len(q) + 1) : t[i] = q[i - 1]
  <2> HIDE DEF Was
  <2>1. q \in Seq(Items) /\ x \in Items /\ k \in 1..(Len(q) + 1) BY <1>1
  <2>2. t \in Seq(Items) /\ IsInserted(t, q, k, x) BY <2>1, InsertShape
  <2> HIDE DEF t
  <2> QED BY <2>2 DEF IsInserted
<1> HIDE DEF t
<1>3. ASSUME NEW i \in 1..Len(t), i # k
      PROVE  Was(i) \in 1..Len(q) /\ t[i] = q[Was(i)]
  <2>1. CASE i < k BY <1>1, <1>2, <2>1
  <2>2. CASE i > k
    <3>1. i \in (k + 1)..(Len(q) + 1) BY <1>1, <1>2, <1>3, <2>2
    <3> QED BY <1>1, <1>2, <2>2, <3>1
  <2> QED BY <1>1, <1>3, <2>1, <2>2
<1>4. ASSUME NEW i \in 1..Len(t), NEW j \in 1..Len(t), i # k, j # k, Was(i) = Was(j)
      PROVE  i = j
  BY <1>1, <1>2, <1>4
<1>5. ASSUME NEW j \in 1..Len(q) PROVE \E i \in 1..Len(t) : t[i] = q[j]
  <2>1. CASE j < k BY <1>1, <1>2, <2>1
  <2>2. CASE j >= k
    <3>1. j + 1 \in (k + 1)..(Len(q) + 1) /\ j + 1 \in 1..Len(t) /\ (j + 1) - 1 = j
      BY <1>1, <1>2, <2>2
    <3> QED BY <1>2, <3>1
  <2> QED BY <1>1, <2>1, <2>2
<1> HIDE DEF Was
<1>6. \A i \in 1..Len(q) : q[i].n \in 1..p /\ q[i].n # p + 1 BY <1>1 DEF Once
<1>7. k \in 1..Len(t) BY <1>1, <1>2
<1>8. ASSUME NEW n PROVE n \in Nums(t) <=> n \in Nums(q) \/ n = p + 1
  <2>1. ASSUME n \in Nums(t) PROVE n \in Nums(q) \/ n = p + 1
    <3>1. PICK i \in 1..Len(t) : n = t[i].n BY <2>1 DEF Nums
    <3>2. CASE i = k BY <1>2, <3>1, <3>2
    <3>3. CASE i # k BY <1>3, <3>1, <3>3 DEF Nums
    <3> QED BY <3>2, <3>3
  <2>2. ASSUME n \in Nums(q) PROVE n \in Nums(t)
    <3>1. PICK j \in 1..Len(q) : n = q[j].n BY <2>2 DEF Nums
    <3> QED BY <1>5, <3>1 DEF Nums
  <2>3. p + 1 \in Nums(t) BY <1>2, <1>7 DEF Nums
  <2> QED BY <2>1, <2>2, <2>3
<1>9. \A i \in 1..Len(t) : t[i].n \in 1..(p + 1)
  <2> SUFFICES ASSUME NEW i \in 1..Len(t) PROVE t[i].n \in 1..(p + 1) OBVIOUS
  <2>1. CASE i = k BY <1>1, <1>2, <2>1
  <2>2. CASE i # k
    <3>1. t[i].n \in 1..p BY <1>3, <1>6, <2>2
    <3> QED BY <1>1, <3>1
  <2> QED BY <2>1, <2>2
<1>10. ASSUME NEW i \in 1..Len(t), NEW j \in 1..Len(t), t[i].n = t[j].n PROVE i = j
  <2>1. CASE i = k \/ j = k
    <3>1. \A m \in 1..Len(t) : m # k => t[m].n # p + 1 BY <1>3, <1>6
    <3> QED BY <1>2, <1>10, <2>1, <3>1
  <2>2. CASE i # k /\ j # k
    <3>0. /\ Was(i) \in 1..Len(q) /\ t[i] = q[Was(i)]
          /\ Was(j) \in 1..Len(q) /\ t[j] = q[Was(j)]
      BY <1>3, <2>2
    <3>1. Was(i) = Was(j) BY <1>10, <3>0 DEF Once
    <3> QED BY <1>4, <2>2, <3>1
  <2> QED BY <2>1, <2>2
<1>11. p + 1 \in 1..MaxItems /\ p + 1 \in 0..MaxItems /\ p + 1 \notin Nums(q)
  BY <1>1, <1>6 DEF Nums
<1>12. w \subseteq Nums(t) /\ p + 1 \notin w BY <1>8, <1>11 DEF Once
<1>13. s[p + 1] = 0 /\ p + 1 \notin d BY <1>1, <1>11 DEF Once
<1>14. ASSUME NEW n \in 1..(p + 1)
       PROVE  /\ s[n] \in {0, 1}
              /\ n \in Nums(t) => n \notin d /\ (s[n] = 1 <=> n \in w)
              /\ n \notin Nums(t) => (s[n] = 1 <=> n \notin d)
  <2>1. CASE n = p + 1 BY <1>8, <1>12, <1>13, <2>1
  <2>2. CASE n # p + 1
    <3>1. n \in 1..p BY <1>1, <2>2
    <3> QED BY <1>8, <2>2, <3>1 DEF Once
  <2> QED BY <2>1, <2>2
<1>15. \A n \in 1..MaxItems : n > p + 1 => s[n] = 0 /\ n \notin d BY <1>1 DEF Once
<1> QED BY <1>2, <1>9, <1>10, <1>11, <1>12, <1>14, <1>15 DEF Once, t

\* t is q without its frame at m.
Takes(q, t, m) ==
  /\ t \in Seq(Items)
  /\ \A i \in 1..Len(t) : \E j \in 1..Len(q) : j # m /\ t[i] = q[j]
  /\ \A j \in 1..Len(q) : j # m => \E i \in 1..Len(t) : t[i] = q[j]
  /\ \A i, j \in 1..Len(t) : t[i].n = t[j].n => i = j

\* Frame x was written or dropped, and no other one.
Settles(s, u, d, e, x) ==
  /\ u \in [1..MaxItems -> Nat] /\ e \subseteq 1..MaxItems
  /\ \A n \in 1..MaxItems : n # x => u[n] = s[n] /\ (n \in e <=> n \in d)
  /\ u[x] \in {0, 1} /\ (u[x] = 1 <=> x \notin e)

\* A frame leaves the queue by a drop or a write.
LEMMA OnceTake ==
  ASSUME NEW q, NEW w, NEW p, NEW s, NEW d, Once(q, w, p, s, d), MaxItems \in Nat,
         NEW t, NEW m \in 1..Len(q), Takes(q, t, m),
         NEW u, NEW e, Settles(s, u, d, e, q[m].n), w \in {{}, {q[m].n}}
  PROVE  Once(t, {}, p, u, e)
<1> DEFINE x == q[m].n
<1>1. q \in Seq(Items) /\ p \in 0..MaxItems /\ x \in 1..p /\ x \in 1..MaxItems BY DEF Once
<1> HIDE DEF x
<1>2. ASSUME NEW n PROVE n \in Nums(t) <=> n \in Nums(q) /\ n # x
  <2>1. ASSUME n \in Nums(t) PROVE n \in Nums(q) /\ n # x
    <3>1. PICK i \in 1..Len(t) : n = t[i].n BY <2>1 DEF Nums
    <3>2. PICK j \in 1..Len(q) : j # m /\ t[i] = q[j] BY DEF Takes
    <3>3. q[j].n # q[m].n BY <3>2 DEF Once
    <3> QED BY <3>1, <3>2, <3>3 DEF Nums, x
  <2>2. ASSUME n \in Nums(q), n # x PROVE n \in Nums(t)
    <3>1. PICK j \in 1..Len(q) : n = q[j].n BY <2>2 DEF Nums
    <3>2. j # m BY <2>2, <3>1 DEF x
    <3> QED BY <3>1, <3>2 DEF Nums, Takes
  <2> QED BY <2>1, <2>2
<1>3. ASSUME NEW i \in 1..Len(t) PROVE t[i].n \in 1..p
  <2>1. PICK j \in 1..Len(q) : t[i] = q[j] BY DEF Takes
  <2> QED BY <2>1 DEF Once
<1>4. ASSUME NEW n \in 1..p
      PROVE  /\ u[n] \in {0, 1}
             /\ n \in Nums(t) => n \notin e /\ u[n] # 1
             /\ n \notin Nums(t) => (u[n] = 1 <=> n \notin e)
  <2>1. CASE n = x BY <1>2, <2>1 DEF x, Settles
  <2>2. CASE n # x
    <3>1. n \in 1..MaxItems /\ n \notin w BY <1>1, <2>2 DEF x
    <3> QED BY <1>2, <2>2, <3>1 DEF Once, x, Settles
  <2> QED BY <2>1, <2>2
<1>5. \A n \in 1..MaxItems : n > p => u[n] = 0 /\ n \notin e
  <2> SUFFICES ASSUME NEW n \in 1..MaxItems, n > p PROVE u[n] = 0 /\ n \notin e OBVIOUS
  <2>1. n # x BY <1>1
  <2> QED BY <2>1 DEF Once, x, Settles
<1> QED BY <1>1, <1>3, <1>4, <1>5 DEF Once, Takes, Settles

\* The first frame leaves.
LEMMA TailTakes ==
  ASSUME NEW q \in Seq(Items), q # <<>>, \A i, j \in 1..Len(q) : q[i].n = q[j].n => i = j
  PROVE  1 \in 1..Len(q) /\ Head(q) = q[1] /\ Takes(q, Tail(q), 1)
<1> DEFINE t == Tail(q)
<1>1. /\ 1 \in 1..Len(q) /\ Head(q) = q[1] /\ t \in Seq(Items) /\ Len(t) = Len(q) - 1 /\ Len(q) \in Nat
      /\ \A i \in 1..Len(t) : t[i] = q[i + 1]
  OBVIOUS
<1> HIDE DEF t
<1>2. \A i \in 1..Len(t) : i + 1 \in 1..Len(q) /\ i + 1 # 1 BY <1>1
<1>3. \A j \in 1..Len(q) : j # 1 => j - 1 \in 1..Len(t) /\ (j - 1) + 1 = j BY <1>1
<1>4. ASSUME NEW i \in 1..Len(t), NEW j \in 1..Len(t), t[i].n = t[j].n PROVE i = j
  <2>1. i + 1 = j + 1 BY <1>1, <1>2, <1>4
  <2> QED BY <2>1
<1>5. \A i \in 1..Len(t) : \E j \in 1..Len(q) : j # 1 /\ t[i] = q[j] BY <1>1, <1>2
<1>6. ASSUME NEW j \in 1..Len(q), j # 1 PROVE \E i \in 1..Len(t) : t[i] = q[j]
  <2>1. j - 1 \in 1..Len(t) /\ t[j - 1] = q[j] BY <1>1, <1>3, <1>6
  <2> QED BY <2>1
<1> QED BY <1>1, <1>4, <1>5, <1>6 DEF t, Takes

\* The frame at place m leaves.
LEMMA RemoveTakes ==
  ASSUME NEW q \in Seq(Items), NEW m \in 1..Len(q), \A i, j \in 1..Len(q) : q[i].n = q[j].n => i = j
  PROVE  Takes(q, RemoveAt(q, m), m)
<1> DEFINE t == RemoveAt(q, m)
           Was(i) == IF i < m THEN i ELSE i + 1
<1>0. Len(q) \in Nat /\ m \in Nat OBVIOUS
<1>a. /\ t \in Seq(Items) /\ Len(t) = Len(q) - 1
      /\ \A i \in 1..(m - 1) : t[i] = q[i]
      /\ \A i \in m..(Len(q) - 1) : t[i] = q[i + 1]
  BY RemoveShape, Zenon
<1> HIDE DEF t
<1>1. /\ t \in Seq(Items) /\ Len(t) = Len(q) - 1 /\ Len(q) \in Nat /\ m \in Nat
      /\ \A i \in 1..(m - 1) : t[i] = q[i]
      /\ \A i \in m..(Len(q) - 1) : t[i] = q[i + 1]
  BY <1>0, <1>a
<1>2. ASSUME NEW i \in 1..Len(t) PROVE Was(i) \in 1..Len(q) /\ Was(i) # m /\ t[i] = q[Was(i)]
  <2>1. CASE i < m BY <1>1, <2>1
  <2>2. CASE i >= m
    <3>1. i \in m..(Len(q) - 1) BY <1>1, <2>2
    <3> QED BY <1>1, <2>2, <3>1
  <2> QED BY <1>1, <2>1, <2>2
<1>3. ASSUME NEW j \in 1..Len(q), j # m PROVE \E i \in 1..Len(t) : t[i] = q[j]
  <2>1. CASE j < m BY <1>1, <2>1
  <2>2. CASE j > m
    <3>1. j - 1 \in m..(Len(q) - 1) /\ j - 1 \in 1..Len(t) /\ (j - 1) + 1 = j BY <1>1, <2>2
    <3> QED BY <1>1, <3>1
  <2> QED BY <1>1, <1>3, <2>1, <2>2
<1>4. ASSUME NEW i \in 1..Len(t), NEW j \in 1..Len(t), t[i].n = t[j].n PROVE i = j
  <2>1. Was(i) = Was(j)
    <3> HIDE DEF Was
    <3> QED BY <1>2, <1>4
  <2> QED BY <1>1, <2>1
<1> QED BY <1>1, <1>2, <1>3, <1>4 DEF t, Takes

\* Deadlines that pass change no number.
LEMMA OnceOld ==
  ASSUME NEW q, NEW w, NEW p, NEW s, NEW d, Once(q, w, p, s, d),
         NEW t \in Seq(Items), Len(t) = Len(q), \A i \in 1..Len(q) : t[i].n = q[i].n
  PROVE  Once(t, w, p, s, d)
<1>1. Nums(t) = Nums(q) BY DEF Nums
<1> QED BY <1>1 DEF Once


-----------------------------------------------------------------------------
(* Steps of the queue                                                      *)

\* QueueInv in terms of the above.
LEMMA QueueSplit ==
  ASSUME QueueInv
  PROVE  /\ in_process_tx \in BOOLEAN /\ Stack(calls, in_process_tx)
         /\ Once(tx, WritingIn(calls), pushed, sent, dropped)
<1>1. in_process_tx \in BOOLEAN BY DEF QueueInv, QueueTypeOK
<1>2. Stack(calls, in_process_tx) BY DEF QueueInv, QueueTypeOK, OneProcessTx, Stack
<1>3. Queued = Nums(tx) BY DEF Queued, Nums
<1>4. \A i \in 1..Len(tx) : tx[i].n \in 1..pushed
  <2> SUFFICES ASSUME NEW i \in 1..Len(tx) PROVE tx[i].n \in 1..pushed OBVIOUS
  <2>1. tx[i].n \in 1..MaxItems BY ItemTypes DEF QueueInv, QueueTypeOK
  <2> QED BY <2>1, CyphalAssumption DEF QueueInv, QueueDistinct, QueueTypeOK
<1>5. EachFrameOnce /\ QueueDistinct /\ QueueTypeOK BY DEF QueueInv
<1>6. Once(tx, WritingIn(calls), pushed, sent, dropped)
  BY <1>3, <1>4, <1>5, WritingIs DEF EachFrameOnce, QueueDistinct, QueueTypeOK, Once
<1> QED BY <1>1, <1>2, <1>6

\* And back, for the state after a step.
LEMMA QueueJoin ==
  ASSUME in_process_tx' \in BOOLEAN, Stack(calls', in_process_tx'),
         Once(tx', WritingIn(calls'), pushed', sent', dropped')
  PROVE  QueueInv'
<1>1. QueueTypeOK' /\ OneProcessTx' BY DEF Stack, Once, QueueTypeOK, OneProcessTx
<1>2. Queued' = Nums(tx') BY DEF Queued, Nums
<1>3. QueueDistinct' BY DEF Once, QueueDistinct
<1>4. EachFrameOnce' BY <1>2, WritingIsNext DEF Once, EachFrameOnce
<1> QED BY <1>1, <1>3, <1>4 DEF QueueInv

\* A step that leaves the queue alone and the stack sound.
LEMMA QueueStill ==
  ASSUME QueueInv, in_process_tx' \in BOOLEAN, Stack(calls', in_process_tx'),
         WritingIn(calls') = WritingIn(calls), UNCHANGED <<tx, pushed, sent, dropped>>
  PROVE  QueueInv'
BY QueueSplit, QueueJoin

\* processTx() is entered unless it runs.
LEMMA ProcessTxStack ==
  ASSUME QueueInv, ProcessTx
  PROVE  /\ in_process_tx' \in BOOLEAN /\ Stack(calls', in_process_tx')
         /\ WritingIn(calls') = WritingIn(calls)
<1>1. Stack(calls, in_process_tx) /\ in_process_tx \in BOOLEAN BY QueueSplit
<1>2. CASE Enters /\ can
  <2> DEFINE f == Call("tx", "peek", 0)
  <2>1. f \in Frame /\ ~IsWriting(f) /\ InProcessTx(f) BY DEF Call, Frame, IsWriting, InProcessTx
  <2>2. calls' = Append(calls, f) /\ in_process_tx' = TRUE /\ ~in_process_tx
    BY <1>2 DEF ProcessTx, Enters
  <2> HIDE DEF f
  <2>3. Stack(Append(calls, f), TRUE) /\ WritingIn(Append(calls, f)) = WritingIn(calls)
    BY <1>1, <2>1, <2>2, StackPush
  <2> QED BY <2>2, <2>3
<1>3. CASE ~(Enters /\ can)
  <2>1. calls' = calls /\ in_process_tx' = in_process_tx BY <1>3 DEF ProcessTx
  <2> QED BY <1>1, <2>1
<1> QED BY <1>2, <1>3

\* The place of a new frame is one of the queue.
LEMMA PlaceTypes ==
  ASSUME tx \in Seq(Items), NEW id
  PROVE  Cardinality(NotAfter(id)) + 1 \in 1..(Len(tx) + 1)
<1>1. NotAfter(id) \in SUBSET (1..Len(tx)) /\ Len(tx) \in Nat BY DEF NotAfter
<1>2. IsFiniteSet(1..Len(tx)) /\ Cardinality(1..Len(tx)) = Len(tx)
  <2> DEFINE n == Len(tx)
  <2>1. n \in Nat /\ n \in Int /\ 1 \in Int BY <1>1
  <2> HIDE DEF n
  <2>2. IsFiniteSet(1..n) /\ Cardinality(1..n) = n BY <2>1, FS_Interval
  <2> QED BY <2>2 DEF n
<1>3. IsFiniteSet(NotAfter(id)) /\ Cardinality(NotAfter(id)) <= Len(tx) BY <1>1, <1>2, FS_Subset
<1>4. Cardinality(NotAfter(id)) \in Nat BY <1>3, FS_CardinalityType
<1> QED BY <1>1, <1>3, <1>4

\* pushMsg() and the processTx() behind it.
LEMMA PushMsgInv ==
  ASSUME QueueInv, NEW id \in 1..3, PushMsg(id), dropped' = dropped
  PROVE  QueueInv'
<1> USE CyphalAssumption
<1> DEFINE k == Cardinality(NotAfter(id)) + 1
           x == Item(pushed + 1, id, FALSE)
<1>1. /\ in_process_tx' \in BOOLEAN /\ Stack(calls', in_process_tx')
      /\ WritingIn(calls') = WritingIn(calls)
  BY ProcessTxStack DEF PushMsg
<1>2. Once(tx, WritingIn(calls), pushed, sent, dropped) BY QueueSplit
<1>3. tx \in Seq(Items) /\ Len(tx) \in Nat /\ pushed \in Nat /\ pushed < MaxItems
  BY <1>2 DEF Once, PushMsg
<1>5. x \in Items /\ x.n = pushed + 1 BY <1>3 DEF Item, Items
<1>6. k \in 1..(Len(tx) + 1) BY <1>3, PlaceTypes
<1>7. tx' = InsertAt(tx, k, x) /\ pushed' = pushed + 1 /\ sent' = sent
  BY DEF PushMsg, Enqueued
<1> HIDE DEF k, x
<1>8. Once(InsertAt(tx, k, x), WritingIn(calls), pushed + 1, sent, dropped)
  BY <1>2, <1>3, <1>5, <1>6, OncePush
<1>9. Once(tx', WritingIn(calls'), pushed', sent', dropped') BY <1>1, <1>7, <1>8
<1> QED BY <1>1, <1>9, QueueJoin

\* Publications, the heartbeat, requests and local services.
LEMMA ServicesInv ==
  ASSUME QueueInv,
         OnMsgPublish \/ Heartbeat \/ RequestPush \/ OnGetInfo \/ OnRequest \/ HandleLocalResp
  PROVE  QueueInv'
<1>1. Stack(calls, in_process_tx) /\ in_process_tx \in BOOLEAN BY QueueSplit
<1>2. dropped' = dropped
  BY DEF OnMsgPublish, Heartbeat, RequestPush, OnGetInfo, OnRequest, HandleLocalResp, queuevars
<1>3. CASE PushMsg(Message) BY <1>2, <1>3, PushMsgInv DEF Message
<1>4. CASE PushMsg(HeartbeatMsg) BY <1>2, <1>4, PushMsgInv DEF HeartbeatMsg
<1>5. CASE PushMsg(ServiceTransfer) BY <1>2, <1>5, PushMsgInv DEF ServiceTransfer
<1>6. CASE ProcessTxOnly BY <1>2, <1>6, ProcessTxStack, QueueStill DEF ProcessTxOnly
<1>7. CASE UNCHANGED <<calls, tx, in_process_tx, pushed, sent>> BY <1>1, <1>2, <1>7, QueueStill
<1> QED
  BY <1>3, <1>4, <1>5, <1>6, <1>7
     DEF OnMsgPublish, Heartbeat, RequestPush, OnGetInfo, OnRequest, HandleLocalResp, canvars

\* processTx() ends, at an empty queue or a device that refuses or failed.
LEMMA TxLeaveInv ==
  ASSUME QueueInv, TxDone \/ TxRefused \/ TxFailed
  PROVE  QueueInv'
<1>1. /\ calls # <<>> /\ InProcessTx(Last(calls)) /\ ~IsWriting(Last(calls))
      /\ calls' = Front(calls) /\ in_process_tx' = FALSE
      /\ UNCHANGED <<tx, pushed, sent, dropped>>
  BY DEF TxDone, TxRefused, TxFailed, SlotDone, InTx, Leave, Top, queuevars, InProcessTx, IsWriting
<1>3. Stack(calls, in_process_tx) BY QueueSplit
<1>4. Stack(Front(calls), FALSE) /\ WritingIn(Front(calls)) = WritingIn(calls)
  BY <1>1, <1>3, StackPop
<1> QED BY <1>1, <1>4, QueueStill

\* At the head of its loop, processTx() is on top of the stack.
LEMMA InTxStack ==
  ASSUME QueueInv, InTx
  PROVE  /\ Stack(calls, in_process_tx) /\ calls # <<>> /\ InProcessTx(Last(calls))
         /\ ~IsWriting(Last(calls))
BY QueueSplit DEF InTx, Top, IsWriting, InProcessTx

\* And it is writing nothing.
LEMMA PeekWritesNothing ==
  ASSUME QueueInv, InTx
  PROVE  WritingIn(calls) = {}
<1>1. Stack(calls, in_process_tx) /\ calls # <<>> /\ InProcessTx(Last(calls)) /\ ~IsWriting(Last(calls))
  BY InTxStack
<1> DEFINE f == Call("tx", "peek", 0)
<1>2. f \in Frame /\ InProcessTx(f) BY DEF Call, Frame, InProcessTx
<1> HIDE DEF f
<1> QED BY <1>1, <1>2, StackTop

\* A write fails, and the listeners of the error run.
LEMMA TxFailsInv == ASSUME QueueInv, TxFails PROVE QueueInv'
<1> DEFINE f == Call("txfail", "event", 0)
<1>1. /\ InTx /\ calls' = Append(Front(calls), f)
      /\ UNCHANGED <<tx, in_process_tx, pushed, sent, dropped>>
  BY DEF TxFails, queuevars
<1>2. f \in Frame /\ InProcessTx(f) /\ ~IsWriting(f) BY DEF Call, Frame, InProcessTx, IsWriting
<1> HIDE DEF f
<1>3. Stack(calls, in_process_tx) /\ calls # <<>> /\ InProcessTx(Last(calls)) BY <1>1, InTxStack
<1>4. WritingIn(calls) = {} BY <1>1, PeekWritesNothing
<1>5. Stack(Append(Front(calls), f), in_process_tx) /\ WritingIn(Append(Front(calls), f)) = {}
  BY <1>2, <1>3, StackTop
<1>6. in_process_tx' \in BOOLEAN BY <1>1, QueueSplit
<1> QED BY <1>1, <1>4, <1>5, <1>6, QueueStill

\* An expired frame is dropped.
LEMMA TxExpiredInv == ASSUME QueueInv, TxExpired PROVE QueueInv'
<1> USE CyphalAssumption
<1>1. /\ InTx /\ tx # <<>> /\ tx' = Tail(tx) /\ dropped' = dropped \cup {Head(tx).n}
      /\ UNCHANGED <<calls, in_process_tx, pushed, sent>>
  BY DEF TxExpired, canvars
<1>2. WritingIn(calls) = {} BY <1>1, PeekWritesNothing
<1>3. /\ Once(tx, {}, pushed, sent, dropped) /\ in_process_tx \in BOOLEAN
      /\ Stack(calls, in_process_tx)
  BY <1>2, QueueSplit
<1>4. /\ 1 \in 1..Len(tx) /\ Head(tx) = tx[1] /\ Takes(tx, Tail(tx), 1)
  BY <1>1, <1>3, TailTakes DEF Once
<1> DEFINE x == tx[1].n
<1>5. x \in 1..pushed /\ x \in 1..MaxItems /\ x \in Nums(tx) BY <1>3, <1>4 DEF Once, Nums
<1>6. dropped' = dropped \cup {x} BY <1>1, <1>4
<1> HIDE DEF x
<1>7. sent[x] = 0 BY <1>3, <1>5 DEF Once
<1>8. Settles(sent, sent, dropped, dropped', x) BY <1>3, <1>5, <1>6, <1>7 DEF Settles, Once
<1>9. Once(Tail(tx), {}, pushed, sent, dropped') BY <1>3, <1>4, <1>8, OnceTake DEF x
<1> QED BY <1>1, <1>2, <1>3, <1>9, QueueJoin

\* A frame is written: in place, or into the queue of the device.
LEMMA TxWriteInv == ASSUME QueueInv, TxWrite PROVE QueueInv'
<1> USE CyphalAssumption
<1>1. /\ InTx /\ tx # <<>> /\ sent' = [sent EXCEPT ![Head(tx).n] = @ + 1]
      /\ UNCHANGED <<in_process_tx, pushed, dropped>>
  BY DEF TxWrite, Written, queuevars
<1>2. WritingIn(calls) = {} BY <1>1, PeekWritesNothing
<1>3. /\ Once(tx, {}, pushed, sent, dropped) /\ in_process_tx \in BOOLEAN
      /\ Stack(calls, in_process_tx)
  BY <1>2, QueueSplit
<1>4. /\ 1 \in 1..Len(tx) /\ Head(tx) = tx[1] /\ Takes(tx, Tail(tx), 1)
  BY <1>1, <1>3, TailTakes DEF Once
<1> DEFINE x == tx[1].n
<1>5. x \in 1..pushed /\ x \in 1..MaxItems /\ x \in Nums(tx) BY <1>3, <1>4 DEF Once, Nums
<1>6. sent' = [sent EXCEPT ![x] = @ + 1] BY <1>1, <1>4
<1>b. sync => calls' = Append(Front(calls), Call("tx", "event", x)) /\ tx' = tx
  BY <1>4 DEF TxWrite
<1> HIDE DEF x
<1>7. sent[x] = 0 /\ x \notin dropped BY <1>3, <1>5 DEF Once
<1>8. /\ sent' \in [1..MaxItems -> Nat] /\ sent'[x] = 1
      /\ \A n \in 1..MaxItems : n # x => sent'[n] = sent[n]
  BY <1>3, <1>5, <1>6, <1>7 DEF Once
<1>9. CASE sync
  <2> DEFINE f == Call("tx", "event", x)
  <2>1. f \in Frame /\ InProcessTx(f) /\ IsWriting(f) /\ f.item = x
    BY <1>5 DEF Call, Frame, IsWriting, InProcessTx
  <2>2. calls' = Append(Front(calls), f) /\ tx' = tx BY <1>9, <1>b
  <2> HIDE DEF f
  <2>3. calls # <<>> /\ InProcessTx(Last(calls)) BY <1>1, InTxStack
  <2>4. Stack(Append(Front(calls), f), in_process_tx) /\ WritingIn(Append(Front(calls), f)) = {x}
    BY <1>3, <2>1, <2>3, StackTop
  <2>5. Once(tx, {x}, pushed, sent', dropped)
    <3>1. pushed \in Nat /\ 1..pushed \subseteq 1..MaxItems BY <1>3 DEF Once
    <3>2. \A n \in 1..MaxItems : n > pushed => n # x BY <1>5, <3>1
    <3> QED BY <1>3, <1>5, <1>7, <1>8, <3>1, <3>2 DEF Once
  <2> QED BY <1>1, <1>3, <2>2, <2>4, <2>5, QueueJoin
<1>10. CASE ~sync
  <2>1. calls' = calls /\ tx' = Tail(tx) BY <1>10 DEF TxWrite
  <2>2. Settles(sent, sent', dropped, dropped, x) BY <1>3, <1>7, <1>8 DEF Settles, Once
  <2>3. Once(Tail(tx), {}, pushed, sent', dropped) BY <1>3, <1>4, <2>2, OnceTake DEF x
  <2> QED BY <1>1, <1>2, <1>3, <2>1, <2>3, QueueJoin
<1> QED BY <1>9, <1>10

\* The frame that was written is taken out, and it is still there.
LEMMA TxPopInv == ASSUME QueueInv, TxPop PROVE QueueInv' /\ broken' = broken
<1> USE CyphalAssumption
<1> DEFINE n == Last(calls).item
           f == Call("tx", "peek", 0)
<1>1. /\ calls # <<>> /\ InProcessTx(Last(calls)) /\ IsWriting(Last(calls))
      /\ calls' = Append(Front(calls), f)
      /\ UNCHANGED <<in_process_tx, pushed, sent, dropped>>
  BY DEF TxPop, SlotDone, Top, IsWriting, InProcessTx
<1>2. f \in Frame /\ InProcessTx(f) /\ ~IsWriting(f) BY DEF Call, Frame, IsWriting, InProcessTx
<1> HIDE DEF f
<1>3. /\ Once(tx, WritingIn(calls), pushed, sent, dropped) /\ in_process_tx \in BOOLEAN
      /\ Stack(calls, in_process_tx)
  BY QueueSplit
<1>4. /\ Stack(Append(Front(calls), f), in_process_tx) /\ WritingIn(Append(Front(calls), f)) = {}
      /\ WritingIn(calls) = {n}
  BY <1>1, <1>2, <1>3, StackTop
<1>5. n \in Nums(tx) BY <1>3, <1>4 DEF Once
<1>6. \E i \in 1..Len(tx) : tx[i].n = n BY <1>5 DEF Nums
<1>7. broken' = broken /\ \E i \in 1..Len(tx) : tx[i].n = n /\ tx' = RemoveAt(tx, i)
  BY <1>6 DEF TxPop, Top
<1> HIDE DEF n
<1>8. PICK m \in 1..Len(tx) : tx[m].n = n /\ tx' = RemoveAt(tx, m) BY <1>7
<1>9. Takes(tx, tx', m) BY <1>3, <1>8, RemoveTakes DEF Once
<1>10. n \in 1..pushed /\ n \in 1..MaxItems BY <1>3, <1>8 DEF Once
<1>11. sent[n] = 1 /\ n \notin dropped BY <1>3, <1>4, <1>5, <1>10 DEF Once
<1>12. Settles(sent, sent, dropped, dropped, n) BY <1>3, <1>11 DEF Settles, Once
<1>13. Once(tx', {}, pushed, sent, dropped) BY <1>3, <1>4, <1>8, <1>9, <1>12, OnceTake
<1> QED BY <1>1, <1>3, <1>4, <1>7, <1>13, QueueJoin

\* Frames past their deadline keep their numbers.
LEMMA AgeInv == ASSUME QueueInv, Age PROVE QueueInv'
<1>0. tx' = Expired /\ UNCHANGED <<calls, in_process_tx, pushed, sent, dropped>>
  BY DEF Age, canvars, queuevars
<1>1. /\ Stack(calls, in_process_tx) /\ in_process_tx \in BOOLEAN
      /\ Once(tx, WritingIn(calls), pushed, sent, dropped)
  BY QueueSplit
<1>2. tx \in Seq(Items) /\ Len(tx) \in Nat BY <1>1 DEF Once
<1>3. \A i \in 1..Len(tx) : Item(tx[i].n, tx[i].id, TRUE) \in Items
  BY <1>2, ItemTypes DEF Item, Items
<1>5. Expired \in [1..Len(tx) -> Items] BY <1>3 DEF Expired
<1>6. Expired \in Seq(Items) /\ Len(Expired) = Len(tx) BY <1>2, <1>5
<1>7. \A i \in 1..Len(tx) : Expired[i].n = tx[i].n BY DEF Expired, Item
<1>8. Once(Expired, WritingIn(calls), pushed, sent, dropped) BY <1>1, <1>6, <1>7, OnceOld
<1> QED BY <1>0, <1>1, <1>8, QueueJoin

\* The CAN worker below: its calls come and go on the same stack.
LEMMA CanStepStack ==
  ASSUME QueueInv, CanStep
  PROVE  Stack(calls', in_process_tx') /\ WritingIn(calls') = WritingIn(calls)
<1>1. Stack(calls, in_process_tx) BY QueueSplit
<1>2. in_process_tx' = in_process_tx /\ CanNext BY DEF CanStep
<1>3. CASE calls' = calls BY <1>1, <1>2, <1>3
<1>4. CASE \E op \in {"can", "canfail", "device", "state"} : calls' = Emits(op)
  <2>1. PICK op \in {"can", "canfail", "device", "state"} : calls' = Append(calls, Call(op, "event", 0))
    BY <1>4 DEF Emits
  <2> DEFINE f == Call(op, "event", 0)
  <2>2. f \in Frame /\ ~InProcessTx(f) /\ ~IsWriting(f) BY DEF Call, Frame, InProcessTx, IsWriting
  <2>3. calls' = Append(calls, f) BY <2>1
  <2> HIDE DEF f
  <2> QED BY <1>1, <1>2, <2>2, <2>3, StackPush
<1>5. CASE /\ calls # <<>> /\ Last(calls).op \in {"device", "state", "canfail", "can"}
           /\ calls' = Front(calls)
  <2>1. ~InProcessTx(Last(calls)) /\ ~IsWriting(Last(calls)) BY <1>5 DEF InProcessTx, IsWriting
  <2> QED BY <1>1, <1>2, <1>5, <2>1, StackPop
<1>6. CASE /\ calls # <<>> /\ Last(calls).at \in {"event", "flushed"}
           /\ \E at \in {"flushed", "counted"} : calls' = At(at)
  <2>1. PICK at \in {"flushed", "counted"} :
          calls' = Append(Front(calls), Call(Last(calls).op, at, Last(calls).item))
    BY <1>6 DEF At, Top
  <2> DEFINE f == Call(Last(calls).op, at, Last(calls).item)
  <2>2. Last(calls) \in Frame
    <3>1. calls \in Seq(Frame) /\ Len(calls) \in 1..Len(calls)
      BY <1>1, <1>6, FrontShape DEF Stack
    <3> QED BY <3>1 DEF Last
  <2>3. /\ f \in Frame /\ f.op = Last(calls).op /\ f.item = Last(calls).item /\ f.at # "peek"
    BY <2>2 DEF Call, Frame
  <2>4. Last(calls).at # "peek" /\ calls' = Append(Front(calls), f) BY <1>6, <2>1
  <2> HIDE DEF f
  <2> QED BY <1>1, <1>2, <1>6, <2>3, <2>4, StackStage
<1>7. \/ calls' = calls
      \/ \E op \in {"can", "canfail", "device", "state"} : calls' = Emits(op)
      \/ /\ calls # <<>> /\ Last(calls).op \in {"device", "state", "canfail", "can"}
         /\ calls' = Front(calls)
      \/ /\ calls # <<>> /\ Last(calls).at \in {"event", "flushed"}
         /\ \E at \in {"flushed", "counted"} : calls' = At(at)
  <2>1. CASE CanCalls BY <2>1 DEF CanCalls, OnMsg, OnMsgRefused, Destroy, Unconnected
  <2>2. CASE DeviceTakes \/ StateChanged BY <2>2 DEF DeviceTakes, StateChanged, Unconnected
  <2>3. CASE CanReturns
    BY <2>3 DEF CanReturns, Flush, SlotReturns, OnMsgCounts, OnMsgReturns, SlotDone, Top
  <2> QED BY <1>2, <2>1, <2>2, <2>3 DEF CanNext
<1> QED BY <1>3, <1>4, <1>5, <1>6, <1>7

\* So the queue stays sound.
LEMMA CanStepInv == ASSUME QueueInv, CanStep PROVE QueueInv'
<1>1. in_process_tx \in BOOLEAN BY QueueSplit
<1>2. UNCHANGED <<tx, in_process_tx, pushed, sent, dropped>> BY DEF CanStep, queuevars
<1> QED BY <1>1, <1>2, CanStepStack, QueueStill

\* Every step keeps the queue sound.
LEMMA QueueNext == QueueInv /\ [Next]_vars => QueueInv'
<1> SUFFICES ASSUME QueueInv, [Next]_vars PROVE QueueInv' OBVIOUS
<1>1. CASE OnMsgPublish \/ Heartbeat \/ RequestPush \/ OnGetInfo \/ OnRequest \/ HandleLocalResp
  BY <1>1, ServicesInv
<1>2. CASE TxDone \/ TxRefused \/ TxFailed BY <1>2, TxLeaveInv
<1>3. CASE TxExpired BY <1>3, TxExpiredInv
<1>4. CASE TxWrite BY <1>4, TxWriteInv
<1>5. CASE TxPop BY <1>5, TxPopInv
<1>6. CASE TxFails BY <1>6, TxFailsInv
<1>7. CASE Age BY <1>7, AgeInv
<1>8. CASE CanStep BY <1>8, CanStepInv
<1>9. CASE CanDeleted \/ UNCHANGED vars
  <2>1. UNCHANGED <<calls, tx, in_process_tx, pushed, sent, dropped>>
    BY <1>9 DEF CanDeleted, vars, canvars
  <2>2. Stack(calls, in_process_tx) /\ in_process_tx \in BOOLEAN BY QueueSplit
  <2> QED BY <2>1, <2>2, QueueStill
<1> QED BY <1>1, <1>2, <1>3, <1>4, <1>5, <1>6, <1>7, <1>8, <1>9 DEF Next, CyphalStep, TxStep

\* A node that starts has an empty queue.
LEMMA QueueStarts == CyphalInit => QueueInv
<1> SUFFICES ASSUME CyphalInit PROVE QueueInv OBVIOUS
<1> USE CyphalAssumption DEF CyphalInit, CanInit
<1>0. /\ calls = <<>> /\ tx = <<>> /\ in_process_tx = FALSE /\ pushed = 0 /\ dropped = {}
      /\ sent = [n \in 1..MaxItems |-> 0]
  OBVIOUS
<1>1. QueueTypeOK
  <2>1. <<>> \in Seq(Frame) /\ <<>> \in Seq(Items) OBVIOUS
  <2>2. pushed \in 0..MaxItems /\ sent \in [1..MaxItems -> Nat] BY <1>0
  <2> QED BY <1>0, <2>1, <2>2, Zenon DEF QueueTypeOK
<1>3. OneProcessTx /\ QueueDistinct BY DEF OneProcessTx, QueueDistinct
<1>4. Writing = {} BY DEF Writing
<1>5. EachFrameOnce BY <1>4 DEF EachFrameOnce
<1> QED BY <1>1, <1>3, <1>5 DEF QueueInv

(***************************************************************************)
(* processTx() takes every frame out of the queue exactly once, for every  *)
(* size of the queue, whatever the listeners of framesWritten do while it  *)
(* is writing and however often a write fails (cyphalworker.cpp, processTx *)
(* and pushMsg).                                                           *)
(***************************************************************************)
THEOREM CyphalEachFrameOnce == Spec => []EachFrameOnce
<1>1. QueueInv => EachFrameOnce BY DEF QueueInv
<1> QED BY <1>1, QueueStarts, QueueNext, PTL DEF Spec

-----------------------------------------------------------------------------
(* Requests and their answers                                              *)

\* The key after a key is one.
LEMMA NextKey == \A tid \in Keys : tid \in Nat /\ (tid + 1) % TableMod \in Keys
BY RequestsAssumption DEF Keys

\* A call that was not made has no entry.
LEMMA NoEntryYet ==
  ASSUME TableInv, NEW r \in Reqs, state[r] = "none"
  PROVE  \A e \in port.in_flight : e.req # r
BY DEF TableInv

\* TablesInv after a call that added no entry, or one under a key of its own.
LEMMA RequestKeeps ==
  ASSUME TablesInv, NEW r \in Reqs, state[r] = "none", NEW key \in Keys,
         port.tid = key, NEW s \in {"raised", "waiting"}, state' = [state EXCEPT ![r] = s],
         NEW new, new = {} \/ \E who \in {r, Nobody} : new = {InFlight(who, key, Ticks)},
         new # {} => \A e \in port.in_flight : e.tid # key,
         s = "raised" => \A e \in new : e.req # r,
         NEW its \in {"usual", "other"},
         port' = Port((key + 1) % TableMod, its, port.in_flight \cup new),
         subscribed' = IF new = {} THEN subscribed ELSE TRUE,
         queued' = queued \/ (new = {InFlight(r, key, Ticks)} /\ queued' = queued \cup {Transfer(r, key)}),
         answers' = answers
  PROVE  TablesInv'
<1> USE RequestsAssumption
<1>1. TableTypeOK /\ TableInv /\ TransfersInv BY DEF TablesInv
<1>2. state \in [Reqs -> States] /\ port.in_flight \subseteq Entries BY <1>1 DEF TableTypeOK
<1>3. /\ \A q \in Reqs : q # r => state'[q] = state[q]
      /\ state'[r] = s /\ state' \in [Reqs -> States]
  BY <1>2 DEF States
<1>4. (key + 1) % TableMod \in Keys BY NextKey
<1>5. \A e \in new : e.tid = key /\ e.req \in {r, Nobody} /\ e \in Entries
  BY DEF InFlight, Entries
<1>6. port'.in_flight = port.in_flight \cup new /\ port'.tid = (key + 1) % TableMod /\ port'.type = its
  BY DEF Port
<1>7. port' \in [tid : Keys, type : {"none", "usual", "other"}, in_flight : SUBSET Entries]
  BY <1>2, <1>4, <1>5 DEF Port
<1>8. Transfer(r, key) \in [req : Reqs, tid : Keys] /\ Transfer(r, key).req = r /\ Transfer(r, key).tid = key
  BY DEF Transfer
<1>9. \A q \in queued' : q \in queued \/ (q = Transfer(r, key) /\ new = {InFlight(r, key, Ticks)})
  OBVIOUS
<1>10. TableTypeOK' BY <1>1, <1>3, <1>7, <1>8, <1>9 DEF TableTypeOK
<1>11. \A e \in port.in_flight : e.req # r BY <1>1, NoEntryYet
<1>12. Nobody \notin Reqs OBVIOUS
<1>13. \A e \in port'.in_flight : e.req \in Reqs => state'[e.req] = "waiting"
  BY <1>1, <1>3, <1>5, <1>6, <1>11, <1>12 DEF TableInv
<1>14. \A e, f \in new : e = f OBVIOUS
<1>15. \A e, f \in port'.in_flight : e.tid = f.tid => e = f
  BY <1>1, <1>5, <1>6, <1>14 DEF TableInv
<1>16. subscribed' <=> port'.in_flight # {} BY <1>1, <1>6 DEF TableInv
<1>21. \A e, f \in port'.in_flight : e.req = f.req /\ e.req \in Reqs => e = f
  <2>1. \A e \in port.in_flight, f \in new : e.req = f.req => e.req \notin Reqs
    BY <1>5, <1>11, <1>12
  <2>2. \A e, f \in port.in_flight : e.req = f.req /\ e.req \in Reqs => e = f
    BY <1>1 DEF TableInv
  <2> QED BY <1>6, <1>14, <2>1, <2>2
<1>17. TableInv' BY <1>13, <1>15, <1>16, <1>21 DEF TableInv
<1>18. ASSUME NEW q \in queued'
       PROVE  /\ state'[q.req] # "none"
              /\ \A e \in port'.in_flight : e.req = q.req => e.tid = q.tid
  <2>1. CASE q \in queued
    <3>1. q.req \in Reqs /\ q.req # r /\ state[q.req] # "none" BY <1>1, <2>1 DEF TableTypeOK, TransfersInv
    <3>2. \A e \in new : e.req # q.req BY <1>5, <1>12, <3>1
    <3> QED BY <1>1, <1>3, <1>6, <2>1, <3>1, <3>2 DEF TransfersInv
  <2>2. CASE q = Transfer(r, key) BY <1>3, <1>5, <1>6, <1>8, <1>11, <2>2
  <2> QED BY <1>9, <2>1, <2>2
<1>19. ASSUME NEW a \in answers'
       PROVE  /\ state'[a.req] # "none"
              /\ \A e \in port'.in_flight : e.req = a.req => a.tid = e.tid % TidMod
  <2>1. a \in answers /\ a.req \in Reqs /\ a.req # r /\ state[a.req] # "none"
    BY <1>1 DEF TableTypeOK, TransfersInv
  <2>2. \A e \in new : e.req # a.req BY <1>5, <1>12, <2>1
  <2> QED BY <1>1, <1>3, <1>6, <2>1, <2>2 DEF TransfersInv
<1>20. TransfersInv' BY <1>18, <1>19 DEF TransfersInv
<1> QED BY <1>10, <1>17, <1>20 DEF TablesInv

\* Request().
LEMMA RequestTables ==
  ASSUME TablesInv, NEW r \in Reqs, NEW type \in {"usual", "other"}, Request(r, type)
  PROVE  TablesInv'
<1> DEFINE key == port.tid
           its == IF port.type = "none" THEN type ELSE port.type
           Next1(n) == Port((key + 1) % TableMod, its, port.in_flight \cup n)
<1>1. key \in Keys /\ its \in {"usual", "other"} /\ state[r] = "none" /\ answers' = answers
  BY DEF TablesInv, TableTypeOK, Request
<1>2. CASE /\ RequestRaises(r, Port((key + 1) % TableMod, its, port.in_flight))
           /\ UNCHANGED subscribed
  <2> DEFINE new == {}
  <2>1. /\ state' = [state EXCEPT ![r] = "raised"] /\ port' = Next1(new)
        /\ queued' = queued /\ subscribed' = subscribed
    BY <1>2 DEF RequestRaises
  <2> QED BY <1>1, <2>1, RequestKeeps
<1>3. CASE /\ \A e \in port.in_flight : e.tid # key
           /\ subscribed' = TRUE /\ RequestRaises(r, Next1({InFlight(Nobody, key, Ticks)}))
  <2> DEFINE new == {InFlight(Nobody, key, Ticks)}
  <2>1. /\ state' = [state EXCEPT ![r] = "raised"] /\ port' = Next1(new) /\ queued' = queued
    BY <1>3 DEF RequestRaises
  <2>2. \A e \in new : e.req # r BY RequestsAssumption DEF InFlight
  <2>3. new # {} /\ \E who \in {r, Nobody} : new = {InFlight(who, key, Ticks)} OBVIOUS
  <2>4. subscribed' = IF new = {} THEN subscribed ELSE TRUE BY <1>3, <2>3
  <2> HIDE DEF new, key, its
  <2> QED BY <1>1, <1>3, <2>1, <2>2, <2>3, <2>4, RequestKeeps DEF key
<1>4. CASE /\ \A e \in port.in_flight : e.tid # key
           /\ subscribed' = TRUE /\ RequestSent(r, Next1({InFlight(r, key, Ticks)}), key)
  <2> DEFINE new == {InFlight(r, key, Ticks)}
  <2>1. /\ state' = [state EXCEPT ![r] = "waiting"] /\ port' = Next1(new)
        /\ queued' = queued \cup {Transfer(r, key)}
    BY <1>4 DEF RequestSent
  <2>3. /\ new # {} /\ new = {InFlight(r, key, Ticks)}
        /\ \E who \in {r, Nobody} : new = {InFlight(who, key, Ticks)}
    OBVIOUS
  <2>4. subscribed' = IF new = {} THEN subscribed ELSE TRUE BY <1>4, <2>3
  <2> HIDE DEF new, key, its
  <2> QED BY <1>1, <1>4, <2>1, <2>3, <2>4, RequestKeeps DEF key
<1> QED BY <1>2, <1>3, <1>4 DEF Request

\* A request is written, and its answer is on the way.
LEMMA WrittenTables ==
  ASSUME TablesInv, NEW q \in queued, RequestWritten(q)
  PROVE  TablesInv'
<1> USE RequestsAssumption
<1> DEFINE b == Transfer(q.req, q.tid % TidMod)
<1>1. TableTypeOK /\ TableInv /\ TransfersInv BY DEF TablesInv
<1>2. q.req \in Reqs /\ q.tid \in Nat BY <1>1, NextKey DEF TableTypeOK
<1>3. q.tid % TidMod \in Nat BY <1>2
<1>4. b \in [req : Reqs, tid : Nat] /\ b.req = q.req /\ b.tid = q.tid % TidMod
  BY <1>2, <1>3 DEF Transfer
<1>5. /\ queued' \subseteq queued /\ answers' = answers \cup {b}
      /\ UNCHANGED <<port, subscribed, state>>
  BY DEF RequestWritten
<1> HIDE DEF b
<1>6. TableTypeOK' BY <1>1, <1>4, <1>5 DEF TableTypeOK
<1>7. TableInv' BY <1>1, <1>5 DEF TableInv
<1>8. /\ state[b.req] # "none"
      /\ \A e \in port.in_flight : e.req = b.req => b.tid = e.tid % TidMod
  BY <1>1, <1>4 DEF TransfersInv
<1>9. TransfersInv' BY <1>1, <1>5, <1>8 DEF TransfersInv
<1> QED BY <1>6, <1>7, <1>9 DEF TablesInv

\* Entries go, with time or with their calls; the calls of the others wait as before.
LEMMA EntriesGo ==
  ASSUME TablesInv, queued' = queued, answers' \subseteq answers, state' \in [Reqs -> States],
         port' \in [tid : Keys, type : {"none", "usual", "other"}, in_flight : SUBSET Entries],
         \A r \in Reqs : state[r] # "none" => state'[r] # "none",
         \A g \in port'.in_flight : \E e \in port.in_flight : g.req = e.req /\ g.tid = e.tid,
         \A e, f \in port'.in_flight : e.tid = f.tid => e = f,
         \A e, f \in port'.in_flight : e.req = f.req /\ e.req \in Reqs => e = f,
         \A g \in port'.in_flight : g.req \in Reqs => state'[g.req] = "waiting",
         subscribed' <=> port'.in_flight # {}
  PROVE  TablesInv'
<1>1. TableTypeOK /\ TableInv /\ TransfersInv BY DEF TablesInv
<1>2. TableTypeOK' BY <1>1 DEF TableTypeOK
<1>3. TableInv' BY DEF TableInv
<1>4. /\ \A q \in queued : q.req \in Reqs
      /\ \A a \in answers : a.req \in Reqs
  BY <1>1 DEF TableTypeOK
<1>5. TransfersInv' BY <1>1, <1>4 DEF TransfersInv
<1> QED BY <1>2, <1>3, <1>5 DEF TablesInv

\* on_frame() with a response.
LEMMA ResponseTables ==
  ASSUME TablesInv, NEW a \in answers, OnResponse(a)
  PROVE  TablesInv'
<1>1. TableTypeOK /\ TableInv /\ TransfersInv BY DEF TablesInv
<1>2. queued' = queued /\ answers' \subseteq answers BY DEF OnResponse
<1>3. CASE UNCHANGED <<port, subscribed, state>>
  BY <1>1, <1>2, <1>3, EntriesGo DEF TableTypeOK, TableInv
<1>4. CASE ~UNCHANGED <<port, subscribed, state>>
  <2> DEFINE mine == IF info THEN {} ELSE Handler(a.tid)
  <2>1. /\ port' = Port(port.tid, port.type, port.in_flight \ mine)
        /\ subscribed /\ subscribed' = Unsubscribes(port.in_flight \ mine)
        /\ state' = [r \in Reqs |-> IF \E e \in mine : e.req = r
                                      THEN IF r = a.req THEN "answered" ELSE "mistaken"
                                      ELSE state[r]]
    BY <1>4 DEF OnResponse
  <2>8. mine \subseteq port.in_flight BY DEF Handler
  <2> HIDE DEF mine
  <2>3. state' \in [Reqs -> States] /\ \A r \in Reqs : state[r] # "none" => state'[r] # "none"
    BY <1>1, <2>1 DEF TableTypeOK, States
  <2>4. port'.in_flight = port.in_flight \ mine BY <2>1 DEF Port
  <2>5. port' \in [tid : Keys, type : {"none", "usual", "other"}, in_flight : SUBSET Entries]
    BY <1>1, <2>1 DEF TableTypeOK, Port
  <2>6. subscribed' <=> port'.in_flight # {} BY <2>1, <2>4 DEF Unsubscribes
  <2>7. ASSUME NEW g \in port'.in_flight, g.req \in Reqs PROVE state'[g.req] = "waiting"
    <3>1. g \in port.in_flight /\ g \notin mine BY <2>4
    <3>2. state[g.req] = "waiting" BY <1>1, <2>7, <3>1 DEF TableInv
    <3>3. ~\E e \in mine : e.req = g.req
      BY <1>1, <2>7, <2>8, <3>1 DEF TableInv
    <3> QED BY <2>1, <2>7, <3>2, <3>3
  <2> QED BY <1>1, <1>2, <2>3, <2>4, <2>5, <2>6, <2>7, EntriesGo DEF TableInv
<1> QED BY <1>3, <1>4

\* An entry after a period is the same entry, with less time.
LEMMA ElapsedEntry ==
  ASSUME NEW e \in Entries, e.left # 1
  PROVE  Elapsed(e) \in Entries /\ Elapsed(e).req = e.req /\ Elapsed(e).tid = e.tid
<1> USE RequestsAssumption
<1>1. e.req \in Reqs \cup {Nobody} /\ e.tid \in Keys /\ e.left \in 1..Ticks BY DEF Entries
<1>2. e.left - 1 \in 1..Ticks BY <1>1
<1> QED BY <1>1, <1>2 DEF Elapsed, InFlight, Entries

\* checkReqTimeouts().
LEMMA TimeoutTables ==
  ASSUME TablesInv, CheckReqTimeouts
  PROVE  TablesInv'
<1> DEFINE gone == {e \in port.in_flight : e.left = 1}
           rest == {Elapsed(e) : e \in port.in_flight \ gone}
<1>1. TableTypeOK /\ TableInv /\ TransfersInv BY DEF TablesInv
<1>2. /\ queued' = queued /\ answers' = answers
      /\ port' = IF rest = {} THEN NoPort ELSE Port(port.tid, port.type, rest)
      /\ subscribed' = Unsubscribes(rest)
      /\ state' = [r \in Reqs |-> IF \E e \in gone : e.req = r THEN "timeout" ELSE state[r]]
  BY DEF CheckReqTimeouts
<1>3. port.in_flight \subseteq Entries BY <1>1 DEF TableTypeOK
<1>4. \A g \in rest : \E e \in port.in_flight :
        g = Elapsed(e) /\ g.req = e.req /\ g.tid = e.tid /\ e \notin gone /\ g \in Entries
  BY <1>3, ElapsedEntry
<1>5. gone \subseteq port.in_flight /\ (port.in_flight = {} => rest = {}) OBVIOUS
<1> HIDE DEF gone, rest
<1>6. port'.in_flight = rest BY <1>2 DEF Port, NoPort
<1>7. 0 \in Keys BY RequestsAssumption DEF Keys
<1>8. port' \in [tid : Keys, type : {"none", "usual", "other"}, in_flight : SUBSET Entries]
  BY <1>1, <1>2, <1>4, <1>7 DEF TableTypeOK, Port, NoPort
<1>9. state' \in [Reqs -> States] /\ \A r \in Reqs : state[r] # "none" => state'[r] # "none"
  BY <1>1, <1>2 DEF TableTypeOK, States
<1>10. \A g, h \in rest : g.tid = h.tid => g = h BY <1>1, <1>4 DEF TableInv
<1>11. \A g, h \in rest : g.req = h.req /\ g.req \in Reqs => g = h BY <1>1, <1>4 DEF TableInv
<1>12. ASSUME NEW g \in rest, g.req \in Reqs PROVE state'[g.req] = "waiting"
  <2>1. PICK e \in port.in_flight : g.req = e.req /\ e \notin gone BY <1>4
  <2>2. state[g.req] = "waiting" BY <1>1, <1>12, <2>1 DEF TableInv
  <2>3. ~\E f \in gone : f.req = g.req BY <1>1, <1>5, <1>12, <2>1 DEF TableInv
  <2> QED BY <1>2, <1>12, <2>2, <2>3
<1>13. subscribed' <=> rest # {}
  BY <1>1, <1>2, <1>5 DEF Unsubscribes, TableInv
<1>14. \A g \in rest : \E e \in port.in_flight : g.req = e.req /\ g.tid = e.tid BY <1>4
<1> QED BY <1>2, <1>6, <1>8, <1>9, <1>10, <1>11, <1>12, <1>13, <1>14, EntriesGo

\* Every step keeps the table.
LEMMA TablesNext == TablesInv /\ [ReqNext]_reqvars => TablesInv'
<1> SUFFICES ASSUME TablesInv, [ReqNext]_reqvars PROVE TablesInv' OBVIOUS
<1>1. CASE ReqNext
  BY <1>1, RequestTables, WrittenTables, ResponseTables, TimeoutTables DEF ReqNext
<1>2. CASE UNCHANGED reqvars
  BY <1>2 DEF reqvars, TablesInv, TableTypeOK, TableInv, TransfersInv
<1> QED BY <1>1, <1>2

\* It holds of a node that was asked for nothing yet.
LEMMA TablesStart == ReqInit => TablesInv
<1> SUFFICES ASSUME ReqInit PROVE TablesInv OBVIOUS
<1>1. port = NoPort /\ NoPort.in_flight = {} BY DEF ReqInit, NoPort, Port
<1>2. 0 \in Keys BY RequestsAssumption DEF Keys
<1>3. TableTypeOK BY <1>2 DEF ReqInit, NoPort, Port, TableTypeOK, States
<1> QED BY <1>1, <1>3 DEF ReqInit, TablesInv, TableInv, TransfersInv

\* The table gives every answer to its own call.
LEMMA TablesAnswer == TablesInv => OwnAnswer
<1> SUFFICES ASSUME TablesInv PROVE OwnAnswer OBVIOUS
<1>1. TableTypeOK /\ TableInv /\ TransfersInv BY DEF TablesInv
<1>2. ASSUME NEW a \in answers, NEW e \in port.in_flight, e.req = a.req, e.tid < TidMod
      PROVE  Handler(a.tid) = {e}
  <2>1. e.tid \in Nat BY <1>1, NextKey DEF TableTypeOK, Entries
  <2>2. e.tid % TidMod = e.tid BY <1>2, <2>1, RequestsAssumption
  <2>3. a.tid = e.tid BY <1>1, <1>2, <2>2 DEF TransfersInv
  <2> QED BY <1>1, <2>3 DEF Handler, TableInv
<1> QED BY <1>1, <1>2 DEF OwnAnswer, TableInv

(***************************************************************************)
(* An answer under way finds the entry of its own call, and that only,     *)
(* whenever the wire carries the entry's key (Request(), on_frame() and    *)
(* checkReqTimeouts() in cyphalworker.cpp): for any calls, timeouts and    *)
(* sizes of the table and of transfer ids, with late and lost answers and  *)
(* keys that were used before.                                             *)
(***************************************************************************)
THEOREM CyphalOwnAnswer == ReqSpec => []OwnAnswer
BY TablesStart, TablesNext, TablesAnswer, PTL DEF ReqSpec

-----------------------------------------------------------------------------
(* Messages                                                                *)

\* The first cells after a sequence was written over them are the sequence.
LEMMA OverFirst ==
  ASSUME NEW C \in Nat, NEW q \in Seq(Nat), Len(q) <= C, NEW cells, DOMAIN cells = 1..C
  PROVE  SubSeq(Over(cells, q), 1, Len(q)) = q
<1>1. Len(q) \in Nat /\ DOMAIN q = 1..Len(q) OBVIOUS
<1>2. \A i \in 1..Len(q) : Over(cells, q)[i] = q[i] /\ q[i] \in Nat BY <1>1 DEF Over
<1>3. /\ SubSeq(Over(cells, q), 1, Len(q)) \in Seq(Nat)
      /\ Len(SubSeq(Over(cells, q), 1, Len(q))) = IF 1 <= Len(q) THEN Len(q) - 1 + 1 ELSE 0
      /\ \A i \in 1..Len(q) - 1 + 1 : SubSeq(Over(cells, q), 1, Len(q))[i] = Over(cells, q)[1 + i - 1]
  BY <1>1, <1>2, SubSeqProperties
<1>4. Len(SubSeq(Over(cells, q), 1, Len(q))) = Len(q) BY <1>1, <1>3
<1>5. \A i \in 1..Len(q) : SubSeq(Over(cells, q), 1, Len(q))[i] = q[i] BY <1>1, <1>2, <1>3
<1> QED BY <1>3, <1>4, <1>5, SeqEqual

\* A sequence as long as the cells replaces them all.
LEMMA OverAll ==
  ASSUME NEW C \in Nat, NEW q, DOMAIN q = 1..C, q = [i \in 1..C |-> q[i]],
         NEW cells, DOMAIN cells = 1..C
  PROVE  Over(cells, q) = q
BY DEF Over

\* What the receiver has in memory for a field that was filled in memory g.
Arrived(kind, val, g, h) == Unwire(kind, Wire(kind, Filled(kind, val, g)), Garbage(kind, h))

\* A kind of variable length arrives with its first count cells.
LEMMA VariableBack ==
  ASSUME NEW kind \in Variable, NEW g, NEW h, NEW val, NEW q \in Seq(Nat), Len(q) <= Cells(kind),
         Filled(kind, val, g).count = Len(q),
         SubSeq(Filled(kind, val, g).cells, 1, Len(q)) = q
  PROVE  SubSeq(Arrived(kind, val, g, h).cells, 1, Arrived(kind, val, g, h).count) = q
<1>1. Wire(kind, Filled(kind, val, g)) = q BY DEF Wire
<1>2. Cells(kind) \in Nat BY CodecAssumption DEF Variable, AllKinds
<1>3. /\ Unwire(kind, q, Garbage(kind, h)).cells = Over(Garbage(kind, h).cells, q)
      /\ Unwire(kind, q, Garbage(kind, h)).count = Len(q)
  BY DEF Unwire
<1>4. DOMAIN Garbage(kind, h).cells = 1..Cells(kind) BY DEF Garbage
<1>5. SubSeq(Over(Garbage(kind, h).cells, q), 1, Len(q)) = q BY <1>2, <1>4, OverFirst
<1> QED BY <1>1, <1>3, <1>5 DEF Arrived

\* The cells of a field of that kind.
FillsAll(kind, q) == DOMAIN q = 1..Cells(kind) /\ q = [i \in 1..Cells(kind) |-> q[i]]

\* A kind of fixed length arrives with all its cells.
LEMMA FixedBack ==
  ASSUME NEW kind \in AllKinds \ Variable, NEW g, NEW h, NEW val, NEW q,
         FillsAll(kind, q), Filled(kind, val, g).cells = q
  PROVE  Arrived(kind, val, g, h).cells = q
<1>1. Wire(kind, Filled(kind, val, g)) = q BY DEF Wire
<1>2. Cells(kind) \in Nat BY CodecAssumption
<1>3. Unwire(kind, q, Garbage(kind, h)).cells = Over(Garbage(kind, h).cells, q) BY DEF Unwire
<1>4. DOMAIN Garbage(kind, h).cells = 1..Cells(kind) BY DEF Garbage
<1>5. Over(Garbage(kind, h).cells, q) = q BY <1>2, <1>4, OverAll DEF FillsAll
<1> QED BY <1>1, <1>3, <1>5 DEF Arrived

\* A bit array comes back as one bit for every element, the ones in reach.
LEMMA BitArrayBack ==
  ASSUME NEW val \in Variants, NEW g, NEW h, Accepted("bit_array", val)
  PROVE  Shown("bit_array", Arrived("bit_array", val, g, h)) = Meaning("bit_array", val)
<1> DEFINE bits == [i \in DOMAIN val.v |-> IF val.v[i] = 0 THEN 0 ELSE 1]
           C == Cells("bit_array")
           cells == Garbage("bit_array", g).cells
<1>1. val.v \in Seq(Nat) /\ Len(val.v) \in Nat /\ Len(val.v) <= C /\ C \in Nat
  BY CodecAssumption DEF Accepted, AllKinds
<1>2. bits \in Seq(Nat) /\ Len(bits) = Len(val.v) BY <1>1
<1>3. DOMAIN cells = 1..C BY DEF Garbage
<1>4. bits = [i \in DOMAIN val.v |-> IF val.v[i] # 0 THEN 1 ELSE 0] OBVIOUS
<1>5. \A m : Stored("bit_array", val, m) = [cells |-> StoredBits(m.cells, val.v), count |-> Len(val.v)]
  BY Zenon DEF Stored
<1>6. StoredBits(cells, val.v) = Over(cells, bits) BY <1>4 DEF StoredBits
<1> HIDE DEF bits, C
<1>0. Filled("bit_array", val, g) = [cells |-> Over(cells, bits), count |-> Len(bits)]
  BY Zenon, <1>2, <1>5, <1>6 DEF Filled
<1> HIDE DEF cells
<1>7. Filled("bit_array", val, g).cells = Over(cells, bits) /\ Filled("bit_array", val, g).count = Len(bits)
  BY <1>0
<1>8. SubSeq(Over(cells, bits), 1, Len(bits)) = bits BY <1>1, <1>2, <1>3, OverFirst
<1>9. SubSeq(Arrived("bit_array", val, g, h).cells, 1, Arrived("bit_array", val, g, h).count) = bits
  BY <1>1, <1>2, <1>7, <1>8, VariableBack DEF Variable, C
<1>10. \A m : Shown("bit_array", m) = List(ReadBits(SubSeq(m.cells, 1, m.count))) BY Zenon DEF Shown
<1> DEFINE meant == [i \in DOMAIN val.v |-> IF i <= Reach /\ val.v[i] # 0 THEN 1 ELSE 0]
<1>11. Meaning("bit_array", val) = List(meant) BY Zenon DEF Meaning
<1>12. ReadBits(bits) = meant BY DEF ReadBits, bits
<1> HIDE DEF meant
<1> QED BY <1>9, <1>10, <1>11, <1>12

\* A variant is a record of its type and its value.
LEMMA VariantShape ==
  ASSUME NEW val \in Variants
  PROVE  val = [t |-> val.t, v |-> val.v] /\ val.v \in Seq(Nat)
BY CodecAssumption

\* The elements of a list are numbers, as the type of the field holds them.
LEMMA ValuesShape ==
  ASSUME NEW val \in Variants
  PROVE  /\ ValuesOf(val.v) \in Seq(Nat) /\ Len(ValuesOf(val.v)) = Len(val.v)
         /\ Len(val.v) \in Nat
<1>1. val.v \in Seq(Nat) /\ Len(val.v) \in Nat /\ DOMAIN val.v = 1..Len(val.v) BY VariantShape
<1>2. \A i \in 1..Len(val.v) : ValueOf(val.v[i]) \in Nat BY <1>1, CodecAssumption DEF ValueOf
<1>3. ValuesOf(val.v) = [i \in 1..Len(val.v) |-> ValueOf(val.v[i])] BY <1>1 DEF ValuesOf
<1> QED BY <1>1, <1>2, <1>3

\* A list of variable length comes back, every element converted.
LEMMA DynArrayBack ==
  ASSUME NEW val \in Variants, NEW g, NEW h, Accepted("dyn_array", val)
  PROVE  Shown("dyn_array", Arrived("dyn_array", val, g, h)) = Meaning("dyn_array", val)
<1> DEFINE cells == Garbage("dyn_array", g).cells  C == Cells("dyn_array")  q == ValuesOf(val.v)
<1>1. q \in Seq(Nat) /\ Len(q) = Len(val.v) /\ Len(q) <= C /\ C \in Nat
  BY CodecAssumption, ValuesShape DEF Accepted, AllKinds
<1>2. DOMAIN cells = 1..C BY DEF Garbage
<1>3. \A m : Stored("dyn_array", val, m) = [cells |-> Over(m.cells, ValuesOf(val.v)), count |-> Len(val.v)]
  BY Zenon DEF Stored
<1>4. /\ Filled("dyn_array", val, g).cells = Over(cells, q)
      /\ Filled("dyn_array", val, g).count = Len(q)
  <2>1. \A m : Stored("dyn_array", val, m) = [cells |-> Over(m.cells, q), count |-> Len(val.v)] BY <1>3
  <2> HIDE DEF q
  <2>2. Filled("dyn_array", val, g) = [cells |-> Over(cells, q), count |-> Len(val.v)]
    BY Zenon, <2>1 DEF Filled
  <2> QED BY <1>1, <2>2
<1>9. Meaning("dyn_array", val) = List(q) BY Zenon DEF Meaning
<1> HIDE DEF cells, C, q
<1>5. SubSeq(Over(cells, q), 1, Len(q)) = q BY <1>1, <1>2, OverFirst
<1>6. SubSeq(Arrived("dyn_array", val, g, h).cells, 1, Arrived("dyn_array", val, g, h).count) = q
  BY <1>1, <1>4, <1>5, VariableBack DEF Variable, C
<1>7. \A m : Shown("dyn_array", m) = List(SubSeq(m.cells, 1, m.count)) BY Zenon DEF Shown
<1> QED BY <1>6, <1>7, <1>9

\* A string comes back without the zero that was copied behind it.
LEMMA DynStringBack ==
  ASSUME NEW val \in Variants, NEW g, NEW h, Accepted("dyn_string", val)
  PROVE  Shown("dyn_string", Arrived("dyn_string", val, g, h)) = Meaning("dyn_string", val)
<1> DEFINE cells == Garbage("dyn_string", g).cells  C == Cells("dyn_string")
           z == Append(val.v, 0)  n == Len(val.v)
<1>1. val.t = "str" /\ val.v \in Seq(Nat) /\ n <= C - 1 /\ C \in Nat \ {0} /\ n \in Nat
  BY CodecAssumption DEF Accepted, AllKinds
<1>2. z \in Seq(Nat) /\ Len(z) = n + 1 /\ \A i \in 1..n : z[i] = val.v[i] /\ val.v[i] \in Nat BY <1>1
<1>3. DOMAIN cells = 1..C BY DEF Garbage
<1>4. \A m : Stored("dyn_string", val, m) = [cells |-> Over(m.cells, Append(val.v, 0)), count |-> Len(val.v)]
  BY Zenon DEF Stored
<1>5. /\ Filled("dyn_string", val, g).cells = Over(cells, z)
      /\ Filled("dyn_string", val, g).count = n
  BY <1>4 DEF Filled
<1>6. n = Len(val.v) OBVIOUS
<1> HIDE DEF cells, C, z, n
<1>7. \A i \in 1..n : Over(cells, z)[i] = val.v[i] /\ val.v[i] \in Nat BY <1>1, <1>2, <1>3 DEF Over
<1>8. /\ SubSeq(Over(cells, z), 1, n) \in Seq(Nat)
      /\ Len(SubSeq(Over(cells, z), 1, n)) = IF 1 <= n THEN n - 1 + 1 ELSE 0
      /\ \A i \in 1..n - 1 + 1 : SubSeq(Over(cells, z), 1, n)[i] = Over(cells, z)[1 + i - 1]
  BY <1>1, <1>7, SubSeqProperties
<1>9. Len(SubSeq(Over(cells, z), 1, n)) = n BY <1>1, <1>8
<1>10. \A i \in 1..n : SubSeq(Over(cells, z), 1, n)[i] = val.v[i] BY <1>1, <1>7, <1>8
<1>11. SubSeq(Over(cells, z), 1, n) = val.v BY <1>1, <1>6, <1>8, <1>9, <1>10, SeqEqual
<1>12. SubSeq(Arrived("dyn_string", val, g, h).cells, 1, Arrived("dyn_string", val, g, h).count) = val.v
  BY <1>1, <1>5, <1>6, <1>11, VariableBack DEF Variable, C
<1>13. \A m : Shown("dyn_string", m) = Str(SubSeq(m.cells, 1, m.count)) BY Zenon DEF Shown
<1>14. Meaning("dyn_string", val) = val BY Zenon DEF Meaning
<1>15. Str(val.v) = val BY <1>1, VariantShape DEF Str
<1> QED BY <1>12, <1>13, <1>14, <1>15

\* A field of fixed length is filled with the cells it is given.
LEMMA FixedFilled ==
  ASSUME NEW kind, NEW val, NEW g, NEW q, Stored(kind, val, Garbage(kind, g)) = Fixed(q, Garbage(kind, g))
  PROVE  Filled(kind, val, g).cells = q
BY DEF Filled, Fixed

\* A list of fixed length comes back, every element converted.
LEMMA FixedArrayBack ==
  ASSUME NEW val \in Variants, NEW g, NEW h, Accepted("fixed_array", val)
  PROVE  Shown("fixed_array", Arrived("fixed_array", val, g, h)) = Meaning("fixed_array", val)
<1> DEFINE q == ValuesOf(val.v)
<1>1. q \in Seq(Nat) /\ Len(q) = Cells("fixed_array") BY ValuesShape DEF Accepted
<1>2. \A m : Stored("fixed_array", val, m) = Fixed(ValuesOf(val.v), m) BY Zenon DEF Stored
<1>3. \A m : Stored("fixed_array", val, m) = Fixed(q, m) BY <1>2
<1>4. Meaning("fixed_array", val) = List(q) BY Zenon DEF Meaning
<1> HIDE DEF q
<1>5. FillsAll("fixed_array", q) BY <1>1 DEF FillsAll
<1>6. Filled("fixed_array", val, g).cells = q BY <1>3, FixedFilled
<1>7. Arrived("fixed_array", val, g, h).cells = q BY <1>5, <1>6, FixedBack DEF AllKinds, Variable
<1>8. \A m : Shown("fixed_array", m) = List(m.cells) BY Zenon DEF Shown
<1> QED BY <1>4, <1>7, <1>8

\* A single number arrives.
LEMMA SingleBack ==
  ASSUME NEW kind \in {"enum", "plain"}, NEW val, NEW g, NEW h, NEW n,
         Stored(kind, val, Garbage(kind, g)) = Fixed(<<n>>, Garbage(kind, g))
  PROVE  Arrived(kind, val, g, h).cells[1] = n
<1>1. Cells(kind) = 1 BY CodecAssumption
<1> DEFINE q == <<n>>
<1>3. Filled(kind, val, g).cells = q BY FixedFilled
<1>4. kind \in AllKinds \ Variable BY DEF AllKinds, Variable
<1>5. FillsAll(kind, q) BY <1>1 DEF FillsAll
<1>6. q[1] = n OBVIOUS
<1> HIDE DEF q
<1>7. Arrived(kind, val, g, h).cells = q BY <1>3, <1>4, <1>5, FixedBack
<1> QED BY <1>6, <1>7

\* The name of an enumerator comes back.
LEMMA EnumBack ==
  ASSUME NEW val \in Variants, NEW g, NEW h, Accepted("enum", val)
  PROVE  Shown("enum", Arrived("enum", val, g, h)) = Meaning("enum", val)
<1>1. val.t = "str" /\ \E e \in DOMAIN EnumNames : EnumNames[e] = val.v BY DEF Accepted, Range
<1>2. EnumNames[Enumerator(val.v)] = val.v BY Zenon, <1>1 DEF Enumerator
<1>3. \A m : Stored("enum", val, m) = Fixed(<<Enumerator(val.v)>>, m) BY Zenon DEF Stored
<1>4. Arrived("enum", val, g, h).cells[1] = Enumerator(val.v) BY <1>3, SingleBack
<1>5. \A m : Shown("enum", m) = Str(EnumNames[m.cells[1]]) BY Zenon DEF Shown
<1>6. Meaning("enum", val) = val BY Zenon DEF Meaning
<1>7. Str(val.v) = val BY <1>1, VariantShape DEF Str
<1> QED BY <1>2, <1>4, <1>5, <1>6, <1>7

\* A number comes back converted, and anything else as zero.
LEMMA PlainBack ==
  ASSUME NEW val \in Variants, NEW g, NEW h
  PROVE  Shown("plain", Arrived("plain", val, g, h)) = Meaning("plain", val)
<1> DEFINE n == IF val.t = "num" THEN ValueOf(val.v[1]) ELSE 0
<1>1. \A m : Stored("plain", val, m) = Fixed(<<n>>, m) BY Zenon DEF Stored
<1>2. Meaning("plain", val) = Num(n) BY Zenon DEF Meaning
<1> HIDE DEF n
<1>3. Arrived("plain", val, g, h).cells[1] = n BY <1>1, SingleBack
<1>4. \A m : Shown("plain", m) = Num(m.cells[1]) BY Zenon DEF Shown
<1> QED BY <1>2, <1>3, <1>4

\* The bits of a mask come back in order, the ones it has.
LEMMA BitmaskBack ==
  ASSUME NEW val \in Variants, NEW g, NEW h, Accepted("bitmask", val)
  PROVE  Shown("bitmask", Arrived("bitmask", val, g, h)) = Meaning("bitmask", val)
<1> DEFINE C == Cells("bitmask")
           q == [i \in 1..C |-> IF i - 1 \in BitIndices(val.v) THEN 1 ELSE 0]
<1>1. val.v \in Seq(Nat) /\ C \in Nat BY CodecAssumption DEF AllKinds
<1>2. BitIndices(val.v) \subseteq Nat BY <1>1, CodecAssumption DEF BitIndices
<1>3. DOMAIN Garbage("bitmask", g).cells = 1..C BY DEF Garbage
<1>4. \A m : Stored("bitmask", val, m) =
               Fixed([i \in DOMAIN m.cells |-> IF i - 1 \in BitIndices(val.v) THEN 1 ELSE 0], m)
  BY Zenon DEF Stored
<1>5. Stored("bitmask", val, Garbage("bitmask", g)) = Fixed(q, Garbage("bitmask", g)) BY <1>3, <1>4
<1>6. Filled("bitmask", val, g).cells = q BY <1>5, FixedFilled
<1>7. DOMAIN q = 1..C /\ FillsAll("bitmask", q) BY DEF FillsAll
<1>0. "bitmask" \in AllKinds \ Variable BY DEF AllKinds, Variable
<1> HIDE DEF q
<1>8. Arrived("bitmask", val, g, h).cells = q BY Zenon, <1>0, <1>6, <1>7, FixedBack
<1> DEFINE shown == {i - 1 : i \in {j \in DOMAIN q : q[j] = 1}}
           meant == {n \in BitIndices(val.v) : n < C}
<1> HIDE DEF C
<1>9. \A j \in 1..C : q[j] = 1 <=> j - 1 \in BitIndices(val.v) BY DEF q
<1>10. shown = meant
  <2>1. ASSUME NEW b \in shown PROVE b \in meant
    <3>1. PICK i \in 1..C : q[i] = 1 /\ b = i - 1 BY <2>1, <1>7
    <3> QED BY <1>1, <1>9, <3>1
  <2>2. ASSUME NEW b \in meant PROVE b \in shown
    <3>1. b \in Nat /\ b + 1 \in 1..C /\ (b + 1) - 1 = b BY <1>1, <1>2, <2>2
    <3>2. q[b + 1] = 1 BY <1>9, <3>1
    <3>3. b + 1 \in {j \in DOMAIN q : q[j] = 1} BY <1>7, <3>1, <3>2
    <3> QED BY <3>1, <3>3
  <2> QED BY <2>1, <2>2
<1> HIDE DEF shown, meant
<1>11. \A m : Shown("bitmask", m) =
                List(SetToSortSeq({i - 1 : i \in {j \in DOMAIN m.cells : m.cells[j] = 1}}, <))
  BY Zenon DEF Shown
<1>12. Shown("bitmask", Arrived("bitmask", val, g, h)) = List(SetToSortSeq(shown, <))
  BY Zenon, <1>8, <1>11 DEF shown
<1>13. Meaning("bitmask", val) = List(SetToSortSeq(meant, <)) BY Zenon DEF Meaning, meant, C
<1> QED BY Zenon, <1>10, <1>12, <1>13

\* A uuid whose bytes all have two digits comes back as its digits.
LEMMA UniqueIdBack ==
  ASSUME NEW val \in Variants, NEW g, NEW h, ComesBack("unique_id", val)
  PROVE  Shown("unique_id", Arrived("unique_id", val, g, h)) = Meaning("unique_id", val)
<1> DEFINE C == Cells("unique_id")
<1>1. /\ val.t = "uuid" /\ val.v \in Seq(Nat) /\ Len(val.v) = C
      /\ \A i \in DOMAIN val.v : val.v[i] >= 16
  BY CodecAssumption DEF ComesBack
<1>2. FillsAll("unique_id", val.v) BY <1>1 DEF FillsAll
<1>3. \A m : Stored("unique_id", val, m) =
               Fixed(IF val.t = "uuid" THEN val.v ELSE [i \in DOMAIN m.cells |-> 0], m)
  BY Zenon DEF Stored
<1>4. Stored("unique_id", val, Garbage("unique_id", g)) = Fixed(val.v, Garbage("unique_id", g))
  BY <1>1, <1>3
<1>5. Filled("unique_id", val, g).cells = val.v BY <1>4, FixedFilled
<1>6. Arrived("unique_id", val, g, h).cells = val.v BY <1>2, <1>5, FixedBack DEF AllKinds, Variable
<1> DEFINE shown == [i \in DOMAIN val.v |-> Hex(val.v[i])]
           meant == [i \in DOMAIN val.v |-> <<val.v[i] \div 16, val.v[i] % 16>>]
<1>7. \A i \in DOMAIN val.v : Hex(val.v[i]) = <<val.v[i] \div 16, val.v[i] % 16>>
  <2> SUFFICES ASSUME NEW i \in DOMAIN val.v PROVE Hex(val.v[i]) = <<val.v[i] \div 16, val.v[i] % 16>>
    OBVIOUS
  <2>1. val.v[i] \in Nat /\ ~(val.v[i] < 16) BY <1>1
  <2> QED BY <2>1 DEF Hex
<1>8. shown = meant BY <1>7
<1> HIDE DEF shown, meant
<1>9. \A m : Shown("unique_id", m) = Str(FlattenSeq([i \in DOMAIN m.cells |-> Hex(m.cells[i])]))
  BY Zenon DEF Shown
<1>10. Shown("unique_id", Arrived("unique_id", val, g, h)) = Str(FlattenSeq(shown))
  BY Zenon, <1>6, <1>9 DEF shown
<1>11. Meaning("unique_id", val) = Str(FlattenSeq(meant)) BY Zenon DEF Meaning, meant
<1> QED BY Zenon, <1>8, <1>10, <1>11

\* Every field of every kind comes back, whatever the two structs held before.
LEMMA FieldBack ==
  ASSUME NEW kind \in AllKinds, NEW val \in Variants, NEW g, NEW h,
         Accepted(kind, val), ComesBack(kind, val)
  PROVE  Shown(kind, Arrived(kind, val, g, h)) = Meaning(kind, val)
<1>1. CASE kind = "bit_array" BY <1>1, BitArrayBack
<1>2. CASE kind = "bitmask" BY <1>2, BitmaskBack
<1>3. CASE kind = "unique_id" BY <1>3, UniqueIdBack
<1>4. CASE kind = "dyn_string" BY <1>4, DynStringBack
<1>5. CASE kind = "dyn_array" BY <1>5, DynArrayBack
<1>6. CASE kind = "enum" BY <1>6, EnumBack
<1>7. CASE kind = "fixed_array" BY <1>7, FixedArrayBack
<1>8. CASE kind = "plain" BY <1>8, PlainBack
<1> QED BY <1>1, <1>2, <1>3, <1>4, <1>5, <1>6, <1>7, <1>8 DEF AllKinds

\* What the receiver is given of a message that was accepted.
LEMMA MessageBack ==
  ASSUME CodecTypeOK, FromVariantOk(msgType, input), NEW g, NEW h, payload = Payload(g)
  PROVE  /\ DOMAIN ToVariant(h) = WrittenFields(msgType, input)
         /\ \A f \in WrittenFields(msgType, input) :
              ComesBack(msgType.kinds[f], input[f]) =>
                ToVariant(h)[f] = Meaning(msgType.kinds[f], input[f])
<1>1. DOMAIN payload = WrittenFields(msgType, input) BY DEF Payload
<1>2. DOMAIN ToVariant(h) = WrittenFields(msgType, input) BY <1>1 DEF ToVariant
<1>3. ASSUME NEW f \in WrittenFields(msgType, input), ComesBack(msgType.kinds[f], input[f])
      PROVE  ToVariant(h)[f] = Meaning(msgType.kinds[f], input[f])
  <2>1. f \in FieldNames /\ msgType.kinds[f] \in FieldKinds BY DEF WrittenFields, CodecTypeOK
  <2>2. msgType.kinds[f] \in AllKinds BY <2>1, CodecAssumption
  <2>3. f \in DOMAIN input /\ Accepted(msgType.kinds[f], input[f]) BY DEF FromVariantOk
  <2>4. PICK names \in MapKeys : input \in [names -> Variants] BY DEF CodecTypeOK
  <2>5. input[f] \in Variants BY <2>3, <2>4
  <2>6. payload[f] = Wire(msgType.kinds[f], Filled(msgType.kinds[f], input[f], g)) BY DEF Payload
  <2>7. Received(f, h) = Arrived(msgType.kinds[f], input[f], g, h) BY <2>6 DEF Received, Arrived
  <2>8. ToVariant(h)[f] = Shown(msgType.kinds[f], Received(f, h)) BY <1>1 DEF ToVariant
  <2> QED BY <1>3, <2>2, <2>3, <2>5, <2>7, <2>8, FieldBack
<1> QED BY <1>2, <1>3

\* A message starts on nobody's bus.
LEMMA CodecStarts == CodecInit => CodecInv
BY DEF CodecInit, CodecInv, CodecTypeOK, OnTheBus, CodecRoundTrip, Output

\* do_serialize() puts on the bus what from_variant() made.
LEMMA SerializeCodec ==
  ASSUME CodecInv, NEW g \in Memory, Serialize(g)
  PROVE  CodecInv'
<1>1. CodecTypeOK' /\ msgType' = msgType /\ input' = input BY DEF CodecInv, CodecTypeOK, Serialize
<1>2. CASE ~FromVariantOk(msgType, input)
  <2>1. output' = Output("refused", Empty) /\ payload' = Empty BY <1>2 DEF Serialize
  <2>2. output'.how = "refused" BY <2>1 DEF Output
  <2> QED BY <1>1, <2>1, <2>2 DEF CodecInv, OnTheBus, CodecRoundTrip, Empty
<1>3. CASE FromVariantOk(msgType, input)
  <2>1. output' = output /\ output.how = "none" /\ payload' = Payload(g) BY <1>3 DEF Serialize
  <2>2. Payload(g)' = Payload(g) BY <1>1 DEF Payload, WrittenFields
  <2>3. FromVariantOk(msgType', input') BY <1>1, <1>3
  <2>4. OnTheBus' BY <2>1, <2>2, <2>3, Zenon DEF OnTheBus
  <2>5. CodecRoundTrip' BY <2>1 DEF CodecRoundTrip
  <2> QED BY <1>1, <2>4, <2>5 DEF CodecInv
<1> QED BY <1>2, <1>3

\* do_deserialize() gives the script what was sent.
LEMMA DeserializeCodec ==
  ASSUME CodecInv, NEW h \in Memory, Deserialize(h)
  PROVE  CodecInv'
<1>1. CodecTypeOK' /\ msgType' = msgType /\ input' = input BY DEF CodecInv, CodecTypeOK, Deserialize
<1>2. payload' = Empty /\ payload # Empty BY DEF Deserialize
<1>3. OnTheBus' BY <1>2 DEF OnTheBus, Empty
<1>4. CASE output' = Output("failed", Empty)
  <2>1. output'.how = "failed" BY <1>4 DEF Output
  <2> QED BY <1>1, <1>3, <2>1 DEF CodecInv, CodecRoundTrip
<1>5. CASE output' = Output(IF output.how = "peer" THEN "peer" ELSE "got", ToVariant(h))
  <2>1. /\ output'.how = IF output.how = "peer" THEN "peer" ELSE "got"
        /\ output'.map = ToVariant(h)
    BY <1>5 DEF Output
  <2>2. CASE output.how = "peer" BY <1>1, <1>3, <2>1, <2>2 DEF CodecInv, CodecRoundTrip
  <2>3. CASE output.how # "peer"
    <3>1. PICK g \in Memory : payload = Payload(g) BY <1>2, <2>3 DEF CodecInv, OnTheBus
    <3>2. FromVariantOk(msgType, input) /\ CodecTypeOK BY <1>2, <2>3 DEF CodecInv, OnTheBus
    <3>3. /\ DOMAIN ToVariant(h) = WrittenFields(msgType, input)
          /\ \A f \in WrittenFields(msgType, input) :
               ComesBack(msgType.kinds[f], input[f]) =>
                 ToVariant(h)[f] = Meaning(msgType.kinds[f], input[f])
      BY <3>1, <3>2, MessageBack
    <3>4. CodecRoundTrip' BY <1>1, <2>1, <3>3, Zenon DEF CodecRoundTrip
    <3> QED BY <1>1, <1>3, <3>4 DEF CodecInv
  <2> QED BY <2>2, <2>3
<1> QED BY <1>4, <1>5 DEF Deserialize

\* Every step keeps it.
LEMMA CodecStep ==
  ASSUME CodecInv, [CodecNext]_codecVars
  PROVE  CodecInv'
<1>1. CASE \E g \in Memory : Serialize(g) BY <1>1, SerializeCodec
<1>2. CASE \E g \in Memory : Deserialize(g) BY <1>2, DeserializeCodec
<1>3. CASE \E f \in FieldNames : FromPeer(f)
  <2>1. output' = Output("peer", Empty) /\ UNCHANGED <<msgType, input>> BY <1>3 DEF FromPeer
  <2>2. output'.how = "peer" BY <2>1 DEF Output
  <2> QED BY <2>1, <2>2 DEF CodecInv, CodecTypeOK, OnTheBus, CodecRoundTrip
<1>4. CASE UNCHANGED codecVars
  <2>1. payload' = payload /\ output' = output /\ msgType' = msgType /\ input' = input
    BY <1>4 DEF codecVars
  <2>2. CodecTypeOK' BY <2>1 DEF CodecInv, CodecTypeOK
  <2>3. \A g : Payload(g)' = Payload(g) BY <2>1 DEF Payload, WrittenFields
  <2>4. OnTheBus' BY <2>1, <2>3 DEF CodecInv, OnTheBus, Empty
  <2>5. CodecRoundTrip' BY <2>1 DEF CodecInv, CodecRoundTrip
  <2> QED BY <2>2, <2>4, <2>5 DEF CodecInv
<1> QED BY <1>1, <1>2, <1>3, <1>4 DEF CodecNext

(***************************************************************************)
(* A message that from_variant() accepts arrives with every field it was   *)
(* sent with and no others, each with its meaning (do_serialize() and      *)
(* do_deserialize() in cyphal_msgs.cpp), for message types of any number   *)
(* of fields of any kinds and sizes, any values, and whatever the two      *)
(* uninitialized structs held before.                                      *)
(***************************************************************************)
THEOREM CyphalRoundTrip == CodecSpec => []CodecRoundTrip
<1>1. CodecInv /\ [CodecNext]_codecVars => CodecInv' BY CodecStep
<1>2. CodecInv => CodecRoundTrip BY DEF CodecInv
<1> QED BY <1>1, <1>2, CodecStarts, PTL DEF CodecSpec
=============================================================================
