---------------------------- MODULE ModbusProofs ----------------------------
(***************************************************************************)
(* Proofs about the Modbus masters of one device, for any masters,         *)
(* registers, queue limits, overflow mode, retries and values.             *)
(***************************************************************************)
EXTENDS Modbus, FiniteSetTheorems, SequenceTheorems, TLAPS

-----------------------------------------------------------------------------
(* Counting                                                                *)

\* A finite set has a number of elements, and its subsets no more.
LEMMA CountSubset ==
  ASSUME NEW T, IsFiniteSet(T), NEW S \in SUBSET T
  PROVE  /\ Cardinality(S) \in Nat /\ Cardinality(T) \in Nat
         /\ Cardinality(S) <= Cardinality(T)
BY FS_Subset, FS_CardinalityType

\* A set within T and one element more has at most one element more.
LEMMA CountOneMore ==
  ASSUME NEW T, IsFiniteSet(T), NEW x, NEW S \in SUBSET (T \union {x})
  PROVE  /\ Cardinality(S) \in Nat /\ Cardinality(T) \in Nat
         /\ Cardinality(S) <= Cardinality(T) + 1
<1>1. /\ IsFiniteSet(T \union {x})
      /\ Cardinality(T \union {x}) = IF x \in T THEN Cardinality(T) ELSE Cardinality(T) + 1
  BY FS_AddElement
<1>2. Cardinality(T) \in Nat BY FS_CardinalityType
<1>3. Cardinality(S) \in Nat /\ Cardinality(S) <= Cardinality(T \union {x})
  BY <1>1, CountSubset
<1> QED BY <1>1, <1>2, <1>3

\* A set within T that lacks an element of T has an element less.
LEMMA CountOneLess ==
  ASSUME NEW T, IsFiniteSet(T), NEW x \in T, NEW S \in SUBSET (T \ {x})
  PROVE  /\ Cardinality(S) \in Nat /\ Cardinality(T) \in Nat
         /\ Cardinality(S) + 1 <= Cardinality(T)
<1>1. IsFiniteSet(T \ {x}) /\ Cardinality(T \ {x}) = Cardinality(T) - 1
  BY FS_RemoveElement
<1>2. Cardinality(T) \in Nat BY FS_CardinalityType
<1>3. Cardinality(S) \in Nat /\ Cardinality(S) <= Cardinality(T \ {x})
  BY <1>1, CountSubset
<1> QED BY <1>1, <1>2, <1>3

\* The requests of a value are finitely many.
LEMMA OpenFinite ==
  ASSUME nextId \in Nat, NEW r \in Reg
  PROVE  IsFiniteSet(Open(r)) /\ Cardinality(Open(r)) \in Nat
<1>1. IsFiniteSet(1..nextId) BY FS_Interval
<1>2. Open(r) \in SUBSET (1..nextId) BY DEF Open
<1> QED BY <1>1, <1>2, FS_Subset, FS_CardinalityType

\* The retries of all records are at most those of fresh ones.
LEMMA CreditsBound ==
  /\ IsFiniteSet(Credits)
  /\ Cardinality(Credits) \in Nat
  /\ Cardinality(Reg) * Retries \in Nat
  /\ Cardinality(Credits) <= Cardinality(Reg) * Retries
<1> USE ModbusAssumption
<1>1. IsFiniteSet(1..Retries) /\ Cardinality(1..Retries) = Retries
  BY FS_Interval
<1>2. /\ IsFiniteSet(Reg \X (1..Retries))
      /\ Cardinality(Reg \X (1..Retries)) = Cardinality(Reg) * Retries
  BY <1>1, FS_Product
<1>3. Credits \in SUBSET (Reg \X (1..Retries)) BY DEF Credits
<1>4. IsFiniteSet(Credits) BY <1>2, <1>3, FS_Subset
<1> QED BY <1>2, <1>3, <1>4, CountSubset

-----------------------------------------------------------------------------
(* The invariant                                                           *)

\* What has to be shown of a state: the limits on the nesting and the tries
\* follow from what pays for them.
ModbusCore ==
  /\ ModbusTypeOK /\ QueuesBounded
  /\ NewestUnderWay /\ WritesInOrder /\ IdsDistinct /\ FullWhileRemoving
  /\ TriesPaid /\ NestingPaid

\* The tries and the nesting stay within what pays for them.
LEMMA CoreSuffices == ModbusCore => ModbusInv
<1> SUFFICES ASSUME ModbusCore PROVE RecursionBounded /\ TriesBounded
  BY DEF ModbusCore, ModbusInv
<1> USE ModbusAssumption
<1>1. Len(stack) \in Nat BY DEF ModbusCore, ModbusTypeOK
<1>2. RecursionBounded
  BY <1>1, CreditsBound DEF ModbusCore, NestingPaid, RecursionBounded
<1>3. ASSUME NEW r \in Reg PROVE tries[r] <= Retries + 1
  <2>1. Cardinality(Open(r)) \in Nat BY OpenFinite DEF ModbusCore, ModbusTypeOK
  <2>2. tries[r] \in Nat /\ inFlight[r].left \in Nat BY DEF ModbusCore, ModbusTypeOK
  <2>3. tries[r] + inFlight[r].left + Cardinality(Open(r)) <= Retries + 1
    BY DEF ModbusCore, TriesPaid
  <2> QED BY <2>1, <2>2, <2>3
<1> QED BY <1>2, <1>3 DEF TriesBounded

\* A device without masters, requests and records.
LEMMA ModbusInitInv == ModbusInit => ModbusInv
<1> SUFFICES ASSUME ModbusInit PROVE ModbusCore BY CoreSuffices
<1> USE ModbusAssumption DEF ModbusInit
<1>1. ModbusTypeOK BY DEF ModbusTypeOK, NoRecord
<1>2. QueuesBounded BY DEF QueuesBounded
<1>3. NewestUnderWay /\ WritesInOrder /\ IdsDistinct /\ FullWhileRemoving
  BY DEF NewestUnderWay, NoRecord, WritesInOrder, IdsDistinct, FullWhileRemoving
<1>4. TriesPaid
  <2> SUFFICES ASSUME NEW r \in Reg
               PROVE  tries[r] + inFlight[r].left + Cardinality(Open(r)) <= Retries + 1
    BY DEF TriesPaid
  <2>1. Open(r) = {} BY DEF Open
  <2>2. Cardinality(Open(r)) = 0 BY <2>1, FS_EmptySet
  <2> QED BY <2>2 DEF NoRecord
<1>5. NestingPaid
  <2>1. Len(stack) = 0 OBVIOUS
  <2> QED BY <2>1, CreditsBound DEF NestingPaid
<1> QED BY <1>1, <1>2, <1>3, <1>4, <1>5 DEF ModbusCore

\* Steps that touch no write: the masters, the link, the reads and the replies
\* to them.
LEMMA QuietStep ==
  ASSUME ModbusInv, ModbusTypeOK', QueuesBounded',
         UNCHANGED <<writes, inFlight, stack, nextId, newest, lastSent, tries>>
  PROVE  ModbusInv'
<1>1. \A r \in Reg : Open(r)' = Open(r) BY DEF Open, Carries
<1>2. Credits' = Credits BY DEF Credits
<1>3. TriesPaid' /\ NestingPaid' BY <1>1, <1>2 DEF ModbusInv, TriesPaid, NestingPaid
<1>4. NewestUnderWay' /\ WritesInOrder' /\ IdsDistinct' /\ FullWhileRemoving'
  BY DEF ModbusInv, NewestUnderWay, WritesInOrder, IdsDistinct, FullWhileRemoving
<1>5. RecursionBounded' /\ TriesBounded' BY DEF ModbusInv, RecursionBounded, TriesBounded
<1> QED BY <1>3, <1>4, <1>5 DEF ModbusInv

\* A sequence without its last element.
LEMMA ButLast ==
  ASSUME NEW S, NEW q \in Seq(S), Len(q) > 0
  PROVE  /\ SubSeq(q, 1, Len(q) - 1) \in Seq(S)
         /\ Len(SubSeq(q, 1, Len(q) - 1)) = Len(q) - 1
         /\ \A i \in 1..(Len(q) - 1) : SubSeq(q, 1, Len(q) - 1)[i] = q[i]
<1> DEFINE n == Len(q) - 1
<1>1. n \in Nat OBVIOUS
<1>2. \A i \in 1..n : q[i] \in S OBVIOUS
<1> HIDE DEF n
<1>3. /\ SubSeq(q, 1, n) \in Seq(S)
      /\ Len(SubSeq(q, 1, n)) = IF 1 <= n THEN n - 1 + 1 ELSE 0
      /\ \A i \in 1..(n - 1 + 1) : SubSeq(q, 1, n)[i] = q[1 + i - 1]
  BY <1>1, <1>2, SubSeqProperties
<1>4. /\ SubSeq(q, 1, n) \in Seq(S) /\ Len(SubSeq(q, 1, n)) = n
      /\ \A i \in 1..n : SubSeq(q, 1, n)[i] = q[i]
  BY <1>1, <1>3
<1> QED BY <1>4 DEF n

\* What Execute() makes of a full queue: one request leaves at either end, the
\* others keep their order, and the new one is the last.
LEMMA PushedFull ==
  ASSUME NEW S, NEW q \in Seq(S), NEW x \in S, Len(q) > 0
  PROVE  /\ Pushed(q, x, Len(q)) \in Seq(S)
         /\ Len(Pushed(q, x, Len(q))) = Len(q)
         /\ \E d \in {0, 1} : \A i \in 1..(Len(q) - 1) : Pushed(q, x, Len(q))[i] = q[i + d]
         /\ Pushed(q, x, Len(q))[Len(q)] = x
<1>1. CASE Overflow = "pop_first"
  <2>1. Pushed(q, x, Len(q)) = Append(Tail(q), x) BY <1>1 DEF Pushed
  <2>2. Tail(q) \in Seq(S) /\ Len(Tail(q)) = Len(q) - 1 OBVIOUS
  <2>3. \A i \in 1..(Len(q) - 1) : Tail(q)[i] = q[i + 1] OBVIOUS
  <2>4. \A i \in 1..(Len(q) - 1) : Append(Tail(q), x)[i] = q[i + 1] BY <2>2, <2>3
  <2> QED BY <2>1, <2>2, <2>4
<1>2. CASE Overflow # "pop_first"
  <2> DEFINE front == SubSeq(q, 1, Len(q) - 1)
  <2>1. Pushed(q, x, Len(q)) = Append(front, x) BY <1>2 DEF Pushed
  <2>2. /\ front \in Seq(S) /\ Len(front) = Len(q) - 1
        /\ \A i \in 1..(Len(q) - 1) : front[i] = q[i]
    BY ButLast
  <2> HIDE DEF front
  <2>4. \A i \in 1..(Len(q) - 1) : Append(front, x)[i] = q[i + 0] BY <2>2
  <2> QED BY <2>1, <2>2, <2>4
<1> QED BY <1>1, <1>2

\* A queue keeps its limit however it is pushed to.
LEMMA PushedBounded ==
  ASSUME NEW S, NEW q \in Seq(S), NEW x \in S, NEW max \in Nat \ {0}, Len(q) <= max
  PROVE  Pushed(q, x, max) \in Seq(S) /\ Len(Pushed(q, x, max)) <= max
<1>1. CASE Len(q) < max BY <1>1 DEF Pushed
<1>2. CASE Len(q) = max BY <1>2, PushedFull
<1> QED BY <1>1, <1>2

-----------------------------------------------------------------------------
(* Queues and calls                                                        *)

\* What is left of a queue when its first request was taken, or none.
Remains(w, q) == w = q \/ (q # <<>> /\ w = Tail(q))

\* The calls of Execute() below one of its callbacks: those under way, whose
\* victims may have changed, or none when the event loop made the call.
Below(c, s) == c = <<>> \/ (Len(c) = Len(s) /\ \A i \in 1..Len(s) : c[i].req = s[i].req)

\* Where the requests of such a queue were.
LEMMA RemainsShape ==
  ASSUME NEW S, NEW q \in Seq(S), NEW w, Remains(w, q)
  PROVE  /\ w \in Seq(S) /\ Len(w) <= Len(q)
         /\ \E d \in {0, 1} : \A i \in 1..Len(w) : i + d \in 1..Len(q) /\ w[i] = q[i + d]
<1>1. CASE w = q
  <2>1. \A i \in 1..Len(w) : i + 0 \in 1..Len(q) /\ w[i] = q[i + 0] BY <1>1
  <2> QED BY <1>1, <2>1
<1>2. CASE q # <<>> /\ w = Tail(q)
  <2>1. w \in Seq(S) /\ Len(w) = Len(q) - 1 BY <1>2
  <2>2. \A i \in 1..Len(w) : i + 1 \in 1..Len(q) /\ w[i] = q[i + 1] BY <1>2
  <2> QED BY <2>1, <2>2
<1> QED BY <1>1, <1>2 DEF Remains

\* The same for the calls.
LEMMA BelowShape ==
  ASSUME NEW s \in Seq(Call), NEW c \in Seq(Call), Below(c, s)
  PROVE  Len(c) <= Len(s) /\ \A i \in 1..Len(c) : i \in 1..Len(s) /\ c[i].req = s[i].req
BY DEF Below

\* IdsDistinct, of any queue, calls and next id.
Distinct(w, s, n) ==
  /\ \A i \in 1..Len(w) : w[i].id < n
  /\ \A i \in 1..Len(s) : s[i].req.id < n
  /\ \A i, j \in 1..Len(w) : w[i].id = w[j].id => i = j
  /\ \A i, j \in 1..Len(s) : s[i].req.id = s[j].req.id => i = j
  /\ \A i \in 1..Len(w), j \in 1..Len(s) : w[i].id # s[j].req.id

\* Requests have natural ids, in a queue and in a call.
LEMMA QueuedId ==
  ASSUME NEW w \in Seq(Request), NEW i \in 1..Len(w)
  PROVE  w[i] \in Request /\ w[i].id \in Nat \ {0} /\ w[i].reg \in Reg /\ w[i].unit \in 1..MaxValues
<1>1. w[i] \in Request OBVIOUS
<1> QED BY <1>1 DEF Request

\* The same for the request of a call.
LEMMA CalledId ==
  ASSUME NEW c \in Seq(Call), NEW i \in 1..Len(c)
  PROVE  /\ c[i] \in Call /\ c[i].req \in Request /\ c[i].victim \in Nat
         /\ c[i].req.id \in Nat \ {0} /\ c[i].req.reg \in Reg /\ c[i].req.unit \in 1..MaxValues
<1>1. c[i] \in Call OBVIOUS
<1>2. c[i].req \in Request /\ c[i].victim \in Nat BY <1>1 DEF Call
<1> QED BY <1>1, <1>2 DEF Request

\* Requests that leave leave the others distinct.
LEMMA DistinctLess ==
  ASSUME NEW q \in Seq(Request), NEW w, Remains(w, q),
         NEW s \in Seq(Call), NEW c \in Seq(Call), Below(c, s),
         NEW n \in Nat, Distinct(q, s, n)
  PROVE  Distinct(w, c, n)
<1>1. PICK d \in {0, 1} : \A i \in 1..Len(w) : i + d \in 1..Len(q) /\ w[i] = q[i + d]
  BY RemainsShape, SMTT(30)
<1>2. w \in Seq(Request) BY RemainsShape
<1>3. \A i \in 1..Len(c) : i \in 1..Len(s) /\ c[i].req = s[i].req BY BelowShape
<1>4. \A i \in 1..Len(w) : w[i].id < n BY <1>1 DEF Distinct
<1>5. \A i \in 1..Len(c) : c[i].req.id < n BY <1>3 DEF Distinct
<1>6. \A i, j \in 1..Len(w) : w[i].id = w[j].id => i = j
  <2> SUFFICES ASSUME NEW i \in 1..Len(w), NEW j \in 1..Len(w), w[i].id = w[j].id PROVE i = j
    OBVIOUS
  <2>1. /\ i + d \in 1..Len(q) /\ w[i] = q[i + d]
        /\ j + d \in 1..Len(q) /\ w[j] = q[j + d]
    BY <1>1
  <2>2. i + d = j + d BY <2>1 DEF Distinct
  <2> QED BY <2>2
<1>7. \A i, j \in 1..Len(c) : c[i].req.id = c[j].req.id => i = j BY <1>3 DEF Distinct
<1>8. ASSUME NEW i \in 1..Len(w), NEW j \in 1..Len(c) PROVE w[i].id # c[j].req.id
  <2>1. /\ i + d \in 1..Len(q) /\ w[i] = q[i + d]
        /\ j \in 1..Len(s) /\ c[j].req = s[j].req
    BY <1>1, <1>3
  <2> QED BY <2>1 DEF Distinct
<1> QED BY <1>4, <1>5, <1>6, <1>7, <1>8 DEF Distinct

\* A call with the next id is distinct from all others.
LEMMA DistinctCall ==
  ASSUME NEW w \in Seq(Request), NEW c \in Seq(Call), NEW n \in Nat, Distinct(w, c, n),
         NEW new \in Call, new.req.id = n
  PROVE  Distinct(w, Append(c, new), n + 1)
<1> DEFINE s == Append(c, new)
<1>1. /\ Len(s) = Len(c) + 1 /\ s[Len(c) + 1] = new
      /\ \A i \in 1..Len(c) : s[i] = c[i]
  OBVIOUS
<1>2. \A i \in 1..Len(w) : w[i].id \in Nat BY QueuedId
<1>3. \A i \in 1..Len(c) : c[i].req.id \in Nat BY CalledId
<1> HIDE DEF s
<1>4. \A i \in 1..Len(s) : i \in 1..Len(c) \/ s[i] = new BY <1>1
<1>5. \A i \in 1..Len(w) : w[i].id < n + 1 /\ w[i].id # n BY <1>2 DEF Distinct
<1>6. \A i \in 1..Len(c) : c[i].req.id < n + 1 /\ c[i].req.id # n BY <1>3 DEF Distinct
<1>7. \A i \in 1..Len(s) : s[i].req.id < n + 1 BY <1>1, <1>4, <1>6
<1>8. \A i, j \in 1..Len(s) : s[i].req.id = s[j].req.id => i = j
  BY <1>1, <1>6, SMTT(30) DEF Distinct
<1>9. \A i \in 1..Len(w), j \in 1..Len(s) : w[i].id # s[j].req.id
  BY <1>1, <1>4, <1>5, SMTT(30) DEF Distinct
<1>10. Distinct(w, s, n + 1) BY <1>5, <1>7, <1>8, <1>9 DEF Distinct
<1> QED BY <1>10 DEF s

\* A queue some of whose requests were taken is in order if it was.
LEMMA OrderKept ==
  ASSUME ModbusTypeOK, WritesInOrder, Remains(writes', writes), UNCHANGED <<newest, lastSent>>
  PROVE  WritesInOrder'
<1>1. writes \in Seq(Request) BY DEF ModbusTypeOK
<1>2. PICK d \in {0, 1} :
        \A i \in 1..Len(writes') : i + d \in 1..Len(writes) /\ writes'[i] = writes[i + d]
  BY <1>1, RemainsShape
<1>3. ASSUME NEW i \in 1..Len(writes'), NEW j \in 1..Len(writes'), i < j,
             writes'[i].reg = writes'[j].reg
      PROVE  writes'[i].unit <= writes'[j].unit
  <2>1. i + d < j + d /\ i + d \in 1..Len(writes) /\ j + d \in 1..Len(writes) BY <1>2, <1>3
  <2> QED BY <1>2, <1>3, <2>1 DEF WritesInOrder
<1>4. \A i \in 1..Len(writes') :
        writes'[i].unit \in lastSent[writes'[i].reg]..newest[writes'[i].reg]
  BY <1>2 DEF WritesInOrder
<1>5. \A r \in Reg : lastSent'[r] <= newest'[r] BY DEF WritesInOrder
<1> QED BY <1>3, <1>4, <1>5 DEF WritesInOrder

-----------------------------------------------------------------------------
(* Retries                                                                 *)

\* The requests of a value within a queue and a stack of calls.
OpenIn(w, s, r) ==
  {n \in 1..nextId : \/ \E i \in 1..Len(w) : w[i].id = n /\ Carries(w[i], r)
                     \/ \E i \in 1..Len(s) : s[i].req.id = n /\ Carries(s[i].req, r)}

\* They are finitely many.
LEMMA OpenInFinite ==
  ASSUME NEW w, NEW s, NEW r \in Reg, nextId \in Nat
  PROVE  IsFiniteSet(OpenIn(w, s, r)) /\ Cardinality(OpenIn(w, s, r)) \in Nat
<1>1. IsFiniteSet(1..nextId) BY FS_Interval
<1>2. OpenIn(w, s, r) \in SUBSET (1..nextId) BY DEF OpenIn
<1> QED BY <1>1, <1>2, FS_Subset, FS_CardinalityType

\* A call with the next id adds itself, to its own register.
LEMMA OpenCall ==
  ASSUME ModbusTypeOK, NEW w \in Seq(Request), NEW c \in Seq(Call), Distinct(w, c, nextId),
         NEW new \in Call, new.req.id = nextId,
         writes' = w, stack' = Append(c, new), nextId' = nextId + 1, newest' = newest,
         NEW r \in Reg
  PROVE  /\ Open(r)' \in SUBSET (OpenIn(w, c, r) \union {nextId})
         /\ r # new.req.reg => Open(r)' \in SUBSET OpenIn(w, c, r)
<1>1. /\ Len(stack') = Len(c) + 1 /\ stack'[Len(c) + 1] = new
      /\ \A i \in 1..Len(c) : stack'[i] = c[i]
  OBVIOUS
<1>2. nextId \in Nat \ {0} BY DEF ModbusTypeOK
<1>3. \A i \in 1..Len(stack') : i \in 1..Len(c) \/ stack'[i] = new BY <1>1
<1>4. ASSUME NEW n \in Open(r)', ~(n = nextId /\ r = new.req.reg) PROVE n \in OpenIn(w, c, r)
  <2>1. CASE \E i \in 1..Len(w) : w[i].id = n /\ Carries(w[i], r)
    <3>1. PICK i \in 1..Len(w) : w[i].id = n /\ Carries(w[i], r) BY <2>1
    <3>2. n < nextId /\ n \in Nat BY <3>1, QueuedId DEF Distinct
    <3>3. n \in 1..nextId BY <1>2, <1>4, <3>2 DEF Open
    <3> QED BY <3>1, <3>3 DEF OpenIn
  <2>2. CASE \E i \in 1..Len(c) : c[i].req.id = n /\ Carries(c[i].req, r)
    <3>1. PICK i \in 1..Len(c) : c[i].req.id = n /\ Carries(c[i].req, r) BY <2>2
    <3>2. n < nextId /\ n \in Nat BY <3>1, CalledId DEF Distinct
    <3>3. n \in 1..nextId BY <1>2, <1>4, <3>2 DEF Open
    <3> QED BY <3>1, <3>3 DEF OpenIn
  <2>3. CASE new.req.id = n /\ Carries(new.req, r)
    BY <1>4, <2>3 DEF Carries
  <2>4. \/ \E i \in 1..Len(w) : w[i].id = n /\ Carries(w[i], r)
        \/ \E i \in 1..Len(stack') : stack'[i].req.id = n /\ Carries(stack'[i].req, r)
    BY <1>4 DEF Open, Carries
  <2> QED BY <1>1, <1>3, <2>1, <2>2, <2>3, <2>4
<1> QED BY <1>4

\* Whatever left the queue before a retry is paid for by the tries it counted.
Paid(w, c) ==
  /\ tries' \in [Reg -> Nat]
  /\ \A r \in Reg : tries'[r] + Cardinality(OpenIn(w, c, r)) <= tries[r] + Cardinality(Open(r))

\* A call that has called its victim back has a full queue.
FullFor(c) == \A i \in 1..Len(c) : c[i].victim # 0 => Len(writes') = MaxWrites

\* Master::retry keeps the invariant, whatever has left the queue before it and
\* within whichever calls of Execute() it is made, if what left is paid for.
LEMMA RetryInv ==
  ASSUME ModbusInv, NEW r \in Reg, NEW calls \in Seq(Call), Retry(r, calls),
         UNCHANGED <<linkVars, reads, newest, lastSent>>, sent' \in {sent, <<>>},
         Below(calls, stack), Remains(writes', writes), FullFor(calls), Paid(writes', calls)
  PROVE  ModbusInv'
<1> USE ModbusAssumption
<1> DEFINE again == inFlight[r].on /\ inFlight[r].left > 0
           new == Frame(nextId, r, inFlight[r].unit)
<1>1. /\ stack \in Seq(Call) /\ nextId \in Nat \ {0}
      /\ inFlight \in [Reg -> [on : BOOLEAN, unit : 0..MaxValues, left : 0..Retries]]
      /\ tries \in [Reg -> Nat] /\ writes \in Seq(Request)
      /\ \A x \in Reg : inFlight[x].left \in Nat
  BY DEF ModbusInv, ModbusTypeOK
<1>2. writes' \in Seq(Request) /\ Len(writes') <= Len(writes) BY <1>1, RemainsShape
<1>3. /\ Len(calls) \in Nat /\ Len(calls) <= Len(stack)
      /\ \A i \in 1..Len(calls) : i \in 1..Len(stack) /\ calls[i].req = stack[i].req
  BY <1>1, BelowShape
<1>4. tries' \in [Reg -> Nat] BY DEF Paid
<1>5. WritesInOrder' BY OrderKept DEF ModbusInv
<1>6. QueuesBounded' BY <1>1, <1>2 DEF ModbusInv, QueuesBounded
<1>7. Distinct(writes', calls, nextId)
  <2>1. Distinct(writes, stack, nextId) BY DEF ModbusInv, IdsDistinct, Distinct
  <2> QED BY <1>1, <2>1, DistinctLess
<1>8. \A i \in 1..Len(calls) : calls[i].req.unit = newest[calls[i].req.reg]
  BY <1>3 DEF ModbusInv, NewestUnderWay
<1>9. ASSUME NEW x \in Reg
      PROVE  /\ tries[x] \in Nat /\ tries'[x] \in Nat /\ inFlight[x].left \in Nat
             /\ IsFiniteSet(OpenIn(writes', calls, x))
             /\ Cardinality(OpenIn(writes', calls, x)) \in Nat
             /\ tries'[x] + inFlight[x].left + Cardinality(OpenIn(writes', calls, x)) <= Retries + 1
  <2>1. Cardinality(Open(x)) \in Nat BY <1>1, OpenFinite
  <2>2. /\ IsFiniteSet(OpenIn(writes', calls, x))
        /\ Cardinality(OpenIn(writes', calls, x)) \in Nat
    BY <1>1, OpenInFinite
  <2>3. tries[x] + inFlight[x].left + Cardinality(Open(x)) <= Retries + 1
    BY DEF ModbusInv, TriesPaid
  <2>4. tries'[x] + Cardinality(OpenIn(writes', calls, x)) <= tries[x] + Cardinality(Open(x))
    BY DEF Paid
  <2>5. tries[x] \in Nat /\ tries'[x] \in Nat /\ inFlight[x].left \in Nat BY <1>1, <1>4
  <2> QED BY <2>1, <2>2, <2>3, <2>4, <2>5, SMTT(30)
<1>a. sent' \in Seq(Master \union Request) /\ Len(sent') <= 1
  <2>1. CASE sent' = sent BY <2>1 DEF ModbusInv, ModbusTypeOK
  <2>2. CASE sent' = <<>> BY <2>2
  <2> QED BY <2>1, <2>2
<1>b. /\ created' \subseteq Master /\ polling' \subseteq created' /\ link' \in {"down", "up"}
      /\ reads' \in Seq(Master)
      /\ newest' \in [Reg -> 0..MaxValues] /\ lastSent' \in [Reg -> 0..MaxValues]
  BY DEF ModbusInv, ModbusTypeOK, linkVars
<1>10. CASE ~again
  <2>1. stack' = calls /\ inFlight' = inFlight /\ nextId' = nextId BY <1>10 DEF Retry
  <2>2. ModbusTypeOK' BY <1>1, <1>2, <1>4, <1>a, <1>b, <2>1 DEF ModbusTypeOK
  <2>3. NewestUnderWay' BY <1>8, <2>1 DEF ModbusInv, NewestUnderWay
  <2>4. IdsDistinct' BY <1>7, <2>1 DEF Distinct, IdsDistinct
  <2>5. FullWhileRemoving' BY <2>1 DEF FullWhileRemoving, FullFor
  <2>6. TriesPaid'
    <3> SUFFICES ASSUME NEW x \in Reg
                 PROVE  tries'[x] + inFlight'[x].left + Cardinality(Open(x)') <= Retries + 1
      BY DEF TriesPaid
    <3>1. Open(x)' = OpenIn(writes', calls, x) BY <2>1 DEF Open, OpenIn, Carries
    <3> QED BY <1>9, <2>1, <3>1
  <2>7. NestingPaid'
    <3>1. Credits' = Credits BY <2>1 DEF Credits
    <3>2. Len(stack) + Cardinality(Credits) <= Cardinality(Reg) * Retries + 1
      BY DEF ModbusInv, NestingPaid
    <3>3. Len(stack') <= Len(stack) /\ Len(stack') \in Nat /\ Len(stack) \in Nat
      BY <1>1, <1>3, <2>1
    <3> QED BY <3>1, <3>2, <3>3, CreditsBound DEF NestingPaid
  <2>8. ModbusCore' BY <1>5, <1>6, <2>2, <2>3, <2>4, <2>5, <2>6, <2>7 DEF ModbusCore
  <2> QED BY <2>8, CoreSuffices, PTL
<1>11. CASE again
  <2>1. /\ stack' = Append(calls, new) /\ nextId' = nextId + 1
        /\ inFlight' = [inFlight EXCEPT ![r] = [on |-> TRUE, unit |-> inFlight[r].unit,
                                                  left |-> inFlight[r].left - 1]]
    BY <1>11 DEF Retry
  <2>2. inFlight[r].unit = newest[r] /\ newest[r] \in 1..MaxValues
    BY <1>11 DEF ModbusInv, ModbusTypeOK, NewestUnderWay
  <2>3. /\ new \in Call /\ new.victim = 0
        /\ new.req = [id |-> nextId, reg |-> r, unit |-> newest[r]]
        /\ new.req.id = nextId /\ new.req.reg = r /\ new.req.unit = newest[r]
    BY <1>1, <2>2 DEF Frame, Call, Request
  <2> HIDE DEF new
  <2>4. /\ stack' \in Seq(Call) /\ Len(stack') = Len(calls) + 1
        /\ \A i \in 1..Len(stack') : IF i \in 1..Len(calls) THEN stack'[i] = calls[i]
                                                            ELSE stack'[i] = new
    BY <2>1, <2>3
  <2>5. /\ inFlight' \in [Reg -> [on : BOOLEAN, unit : 0..MaxValues, left : 0..Retries]]
        /\ \A x \in Reg : /\ inFlight'[x].on => inFlight[x].on
                          /\ inFlight'[x].unit = inFlight[x].unit
                          /\ inFlight'[x].left = IF x = r THEN inFlight[x].left - 1
                                                         ELSE inFlight[x].left
    <3>1. /\ inFlight[r].left - 1 \in 0..Retries /\ inFlight[r].unit \in 0..MaxValues
      BY <1>1, <1>11
    <3>2. inFlight'[r] = [on |-> TRUE, unit |-> inFlight[r].unit, left |-> inFlight[r].left - 1]
      BY <1>1, <2>1
    <3>3. \A x \in Reg : x # r => inFlight'[x] = inFlight[x] BY <1>1, <2>1
    <3>4. inFlight'[r] \in [on : BOOLEAN, unit : 0..MaxValues, left : 0..Retries]
      BY <3>1, <3>2
    <3>5. inFlight' \in [Reg -> [on : BOOLEAN, unit : 0..MaxValues, left : 0..Retries]]
      BY <1>1, <2>1, <3>2, <3>4
    <3>6. /\ inFlight[r].on /\ inFlight'[r].unit = inFlight[r].unit
          /\ inFlight'[r].left = inFlight[r].left - 1
      BY <1>11, <3>1, <3>2
    <3> HIDE DEF again
    <3> QED BY <3>3, <3>5, <3>6
  <2>6. ModbusTypeOK' BY <1>1, <1>2, <1>4, <1>a, <1>b, <2>1, <2>4, <2>5, SMTT(30) DEF ModbusTypeOK
  <2>7. NewestUnderWay'
    <3>1. \A i \in 1..Len(stack') : stack'[i].req.unit = newest[stack'[i].req.reg]
      BY <1>8, <2>3, <2>4
    <3> QED BY <2>5, <3>1 DEF ModbusInv, NewestUnderWay
  <2>8. IdsDistinct'
    <3>1. Distinct(writes', stack', nextId') BY <1>1, <1>2, <1>7, <2>1, <2>3, DistinctCall
    <3> QED BY <3>1 DEF Distinct, IdsDistinct
  <2>9. FullWhileRemoving' BY <2>3, <2>4 DEF FullWhileRemoving, FullFor
  <2>10. TriesPaid'
    <3> SUFFICES ASSUME NEW x \in Reg
                 PROVE  tries'[x] + inFlight'[x].left + Cardinality(Open(x)') <= Retries + 1
      BY DEF TriesPaid
    <3>1. /\ Open(x)' \in SUBSET (OpenIn(writes', calls, x) \union {nextId})
          /\ x # r => Open(x)' \in SUBSET OpenIn(writes', calls, x)
      BY <1>2, <1>7, <2>1, <2>3, OpenCall DEF ModbusInv
    <3>2. CASE x = r
      <4>1. /\ Cardinality(Open(x)') \in Nat
            /\ Cardinality(Open(x)') <= Cardinality(OpenIn(writes', calls, x)) + 1
        BY <1>9, <3>1, CountOneMore
      <4>2. inFlight'[x].left = inFlight[x].left - 1 BY <2>5, <3>2
      <4> QED BY <1>9, <4>1, <4>2, SMTT(30)
    <3>3. CASE x # r
      <4>1. /\ Cardinality(Open(x)') \in Nat
            /\ Cardinality(Open(x)') <= Cardinality(OpenIn(writes', calls, x))
        BY <1>9, <3>1, <3>3, CountSubset
      <4>2. inFlight'[x].left = inFlight[x].left BY <2>5, <3>3
      <4> QED BY <1>9, <4>1, <4>2
    <3> QED BY <3>2, <3>3
  <2>11. NestingPaid'
    <3>1. Credits' \in SUBSET (Credits \ {<<r, inFlight[r].left>>})
      BY <1>1, <2>5 DEF Credits
    <3>2. <<r, inFlight[r].left>> \in Credits BY <1>1, <1>11 DEF Credits
    <3>3. /\ Cardinality(Credits') \in Nat /\ Cardinality(Credits) \in Nat
          /\ Cardinality(Credits') + 1 <= Cardinality(Credits)
      BY <3>1, <3>2, CreditsBound, CountOneLess
    <3>4. Len(stack) + Cardinality(Credits) <= Cardinality(Reg) * Retries + 1
      BY DEF ModbusInv, NestingPaid
    <3>5. Len(stack') <= Len(stack) + 1 /\ Len(stack') \in Nat /\ Len(stack) \in Nat
      BY <1>1, <1>3, <2>4
    <3> QED BY <3>3, <3>4, <3>5, CreditsBound DEF NestingPaid
  <2>12. ModbusCore'
    BY <1>5, <1>6, <2>6, <2>7, <2>8, <2>9, <2>10, <2>11 DEF ModbusCore
  <2> QED BY <2>12, CoreSuffices, PTL
<1> QED BY <1>10, <1>11


-----------------------------------------------------------------------------
(* The steps                                                               *)

\* The requests in the queue and the calls are all there is.
LEMMA OpenIsOpenIn ==
  ASSUME NEW c \in Seq(Call), Len(c) = Len(stack),
         \A i \in 1..Len(stack) : c[i].req = stack[i].req, NEW r \in Reg
  PROVE  OpenIn(writes, c, r) = Open(r)
BY DEF OpenIn, Open

\* A request taken from the queue counts as a try if it carries the newest value,
\* and is one request less.
LEMMA TakenPaid ==
  ASSUME ModbusInv, AtLoop, writes # <<>>, tries' = Tried(Head(writes))
  PROVE  Paid(Tail(writes), <<>>)
<1> DEFINE req == Head(writes)
           w == Tail(writes)
<1>1. /\ writes \in Seq(Request) /\ Len(writes) > 0 /\ req = writes[1]
      /\ w \in Seq(Request) /\ Len(w) = Len(writes) - 1
      /\ \A i \in 1..Len(w) : i + 1 \in 1..Len(writes) /\ w[i] = writes[i + 1]
      /\ tries \in [Reg -> Nat] /\ nextId \in Nat \ {0} /\ stack = <<>> /\ Len(stack) = 0
  BY DEF ModbusInv, ModbusTypeOK, AtLoop
<1>2. req.reg \in Reg /\ req.id \in Nat BY <1>1, QueuedId
<1>3. Remains(w, writes) BY DEF Remains
<1>4. Distinct(writes, stack, nextId) BY DEF ModbusInv, IdsDistinct, Distinct
<1> HIDE DEF req, w
<1>5. tries' = IF req.unit = newest[req.reg] THEN [tries EXCEPT ![req.reg] = @ + 1] ELSE tries
  BY DEF Tried, req
<1>6. tries' \in [Reg -> Nat] BY <1>1, <1>2, <1>5
<1>7. ASSUME NEW r \in Reg
      PROVE  tries'[r] + Cardinality(OpenIn(w, <<>>, r)) <= tries[r] + Cardinality(Open(r))
  <2>1. ASSUME NEW n \in OpenIn(w, <<>>, r) PROVE n \in Open(r) /\ n # req.id
    <3>1. PICK i \in 1..Len(w) : w[i].id = n /\ Carries(w[i], r) BY DEF OpenIn
    <3>2. i + 1 \in 1..Len(writes) /\ w[i] = writes[i + 1] BY <1>1
    <3>3. n \in Open(r) BY <3>1, <3>2 DEF Open, OpenIn
    <3>4. writes[i + 1].id # writes[1].id
      <4>1. i + 1 # 1 /\ 1 \in 1..Len(writes) BY <1>1
      <4> QED BY <1>4, <3>2, <4>1 DEF Distinct
    <3> QED BY <1>1, <3>1, <3>2, <3>3, <3>4
  <2>2. IsFiniteSet(Open(r)) /\ Cardinality(Open(r)) \in Nat BY <1>1, OpenFinite
  <2>3. CASE req.unit = newest[req.reg] /\ r = req.reg
    <3>1. tries'[r] = tries[r] + 1 /\ tries[r] \in Nat BY <1>1, <1>5, <2>3
    <3>2. 1 \in 1..Len(writes) /\ writes[1].id < nextId /\ Carries(writes[1], r)
      BY <1>1, <1>4, <2>3 DEF Distinct, Carries
    <3>3. writes[1].id \in Nat \ {0}
      BY <1>1, <3>2, QueuedId
    <3>4. req.id \in Open(r) BY <1>1, <3>2, <3>3 DEF Open
    <3>5. OpenIn(w, <<>>, r) \in SUBSET (Open(r) \ {req.id}) BY <2>1
    <3>6. /\ Cardinality(OpenIn(w, <<>>, r)) \in Nat
          /\ Cardinality(OpenIn(w, <<>>, r)) + 1 <= Cardinality(Open(r))
      BY <2>2, <3>4, <3>5, CountOneLess
    <3> QED BY <2>2, <3>1, <3>6
  <2>4. CASE ~(req.unit = newest[req.reg] /\ r = req.reg)
    <3>1. tries'[r] = tries[r] /\ tries[r] \in Nat BY <1>1, <1>2, <1>5, <2>4
    <3>2. OpenIn(w, <<>>, r) \in SUBSET Open(r) BY <2>1
    <3>3. /\ Cardinality(OpenIn(w, <<>>, r)) \in Nat
          /\ Cardinality(OpenIn(w, <<>>, r)) <= Cardinality(Open(r))
      BY <2>2, <3>2, CountSubset
    <3> QED BY <2>2, <3>1, <3>3
  <2> QED BY <2>3, <2>4
<1> QED BY <1>6, <1>7 DEF Paid, w


\* The callback of a request that fails outside Execute().
LEMMA WriteFailedInv == ModbusInv /\ WriteFailed => ModbusInv'
<1> SUFFICES ASSUME ModbusInv, WriteFailed PROVE ModbusInv' OBVIOUS
<1>1. /\ sent \in Seq(Master \union Request) /\ sent # <<>> /\ stack = <<>> /\ tries' = tries
      /\ writes' = writes /\ sent' = <<>> /\ tries \in [Reg -> Nat] /\ nextId \in Nat
  BY DEF WriteFailed, AtLoop, historyVars, ModbusInv, ModbusTypeOK
<1>2. sent[1] \in Request
  <2>1. sent[1] \in Master \union Request BY <1>1
  <2> QED BY <2>1 DEF WriteFailed
<1>3. sent[1].reg \in Reg BY <1>2 DEF Request
<1>4. <<>> \in Seq(Call) /\ Below(<<>>, stack) /\ FullFor(<<>>) /\ Remains(writes', writes)
  <2>1. Remains(writes', writes) BY <1>1 DEF Remains
  <2> QED BY <2>1 DEF Below, FullFor
<1>5. Paid(writes', <<>>)
  <2> SUFFICES ASSUME NEW r \in Reg
               PROVE  tries'[r] + Cardinality(OpenIn(writes', <<>>, r)) <= tries[r] + Cardinality(Open(r))
    BY <1>1 DEF Paid
  <2>1. OpenIn(writes', <<>>, r) = Open(r)
    <3>1. <<>> \in Seq(Call) /\ Len(<<>>) = Len(stack)
          /\ \A i \in 1..Len(stack) : <<>>[i].req = stack[i].req
      BY <1>1
    <3>2. OpenIn(writes, <<>>, r) = Open(r) BY <3>1, OpenIsOpenIn
    <3> QED BY <1>1, <3>2
  <2>2. Cardinality(Open(r)) \in Nat /\ tries[r] \in Nat BY <1>1, OpenFinite
  <2> QED BY <1>1, <2>1, <2>2
<1>6. /\ Retry(sent[1].reg, <<>>)
      /\ UNCHANGED <<linkVars, reads, newest, lastSent>> /\ sent' \in {sent, <<>>}
  BY <1>1 DEF WriteFailed, historyVars
<1> QED BY <1>3, <1>4, <1>5, <1>6, RetryInv

\* The device refuses a request and its callback is called at once.
LEMMA SendRefusedInv == ModbusInv /\ SendRefused => ModbusInv'
<1> SUFFICES ASSUME ModbusInv, SendRefused PROVE ModbusInv' OBVIOUS
<1>1. /\ writes \in Seq(Request) /\ writes # <<>> /\ stack = <<>>
      /\ writes' = Tail(writes) /\ tries' = Tried(Head(writes)) /\ sent' = sent
  BY DEF SendRefused, AtLoop, ModbusInv, ModbusTypeOK
<1>2. Head(writes).reg \in Reg
  <2>1. Head(writes) = writes[1] /\ 1 \in 1..Len(writes) BY <1>1
  <2> QED BY <1>1, <2>1, QueuedId
<1>3. <<>> \in Seq(Call) /\ Below(<<>>, stack) /\ FullFor(<<>>) /\ Remains(writes', writes)
  BY <1>1 DEF Below, FullFor, Remains
<1>4. Paid(writes', <<>>) BY <1>1, TakenPaid DEF AtLoop
<1>5. /\ Retry(Head(writes).reg, <<>>)
      /\ UNCHANGED <<linkVars, reads, newest, lastSent>> /\ sent' \in {sent, <<>>}
  BY <1>1 DEF SendRefused
<1> QED BY <1>2, <1>3, <1>4, <1>5, RetryInv

\* Execute() calls back the request it is going to remove.
LEMMA OverflowCallInv == ModbusInv /\ OverflowCall => ModbusInv'
<1> SUFFICES ASSUME ModbusInv, OverflowCall PROVE ModbusInv' OBVIOUS
<1> USE ModbusAssumption
<1> DEFINE calls == [stack EXCEPT ![Len(stack)] = [req |-> stack[Len(stack)].req,
                                                  victim |-> Victim.id]]
<1>1. /\ writes \in Seq(Request) /\ stack \in Seq(Call) /\ stack # <<>> /\ Len(stack) > 0
      /\ writes' = writes /\ tries' = tries /\ sent' = sent /\ tries \in [Reg -> Nat]
      /\ nextId \in Nat
  BY DEF OverflowCall, historyVars, ModbusInv, ModbusTypeOK
<1>2. Len(writes) = MaxWrites BY <1>1 DEF OverflowCall, ModbusInv, QueuesBounded
<1>3. Victim \in Request /\ Victim.reg \in Reg /\ Victim.id \in Nat
  <2>1. 1 \in 1..Len(writes) /\ Len(writes) \in 1..Len(writes) BY <1>1, <1>2
  <2>2. Victim = writes[1] \/ Victim = writes[Len(writes)] BY <1>1, <2>1 DEF Victim
  <2> QED BY <1>1, <2>1, <2>2, QueuedId
<1>4. [req |-> stack[Len(stack)].req, victim |-> Victim.id] \in Call
  <2>1. Len(stack) \in 1..Len(stack) BY <1>1
  <2>2. stack[Len(stack)].req \in Request BY <1>1, <2>1, CalledId
  <2> QED BY <1>3, <2>2 DEF Call
<1>5. calls \in Seq(Call) /\ Len(calls) = Len(stack) BY <1>1, <1>4
<1>6. \A i \in 1..Len(stack) : calls[i].req = stack[i].req
  <2> SUFFICES ASSUME NEW i \in 1..Len(stack) PROVE calls[i].req = stack[i].req OBVIOUS
  <2>1. CASE i = Len(stack)
    <3>1. calls[i] = [req |-> stack[Len(stack)].req, victim |-> Victim.id] BY <1>1, <2>1
    <3> QED BY <2>1, <3>1
  <2>2. CASE i # Len(stack)
    <3>1. calls[i] = stack[i] BY <1>1, <2>2
    <3> QED BY <3>1
  <2> QED BY <2>1, <2>2
<1>7. Retry(Victim.reg, calls) BY DEF OverflowCall
<1> HIDE DEF calls
<1>8. Below(calls, stack) /\ FullFor(calls) /\ Remains(writes', writes)
  <2>1. Remains(writes', writes) BY <1>1 DEF Remains
  <2>2. FullFor(calls) BY <1>1, <1>2 DEF FullFor
  <2> QED BY <1>5, <1>6, <2>1, <2>2 DEF Below
<1>9. Paid(writes', calls)
  <2> SUFFICES ASSUME NEW r \in Reg
               PROVE  tries'[r] + Cardinality(OpenIn(writes', calls, r)) <= tries[r] + Cardinality(Open(r))
    BY <1>1 DEF Paid
  <2>1. OpenIn(writes', calls, r) = Open(r) BY <1>1, <1>5, <1>6, OpenIsOpenIn
  <2>2. Cardinality(Open(r)) \in Nat /\ tries[r] \in Nat BY <1>1, OpenFinite
  <2> QED BY <1>1, <2>1, <2>2
<1>10. UNCHANGED <<linkVars, reads, newest, lastSent>> /\ sent' \in {sent, <<>>}
  BY DEF OverflowCall, historyVars
<1> QED BY <1>3, <1>5, <1>7, <1>8, <1>9, <1>10, RetryInv

\* A write is handed to the device.
LEMMA SendWriteInv == ModbusInv /\ SendWrite => ModbusInv'
<1> SUFFICES ASSUME ModbusInv, SendWrite PROVE ModbusCore' BY CoreSuffices, PTL
<1> USE ModbusAssumption
<1> DEFINE req == Head(writes)
<1>1. /\ writes \in Seq(Request) /\ writes # <<>> /\ stack = <<>> /\ stack' = stack
      /\ writes' = Tail(writes) /\ tries' = Tried(req) /\ sent' = <<req>>
      /\ lastSent' = [lastSent EXCEPT ![req.reg] = req.unit]
      /\ newest' = newest /\ inFlight' = inFlight /\ nextId' = nextId
      /\ lastSent \in [Reg -> 0..MaxValues] /\ newest \in [Reg -> 0..MaxValues]
      /\ nextId \in Nat \ {0}
  BY DEF SendWrite, AtLoop, ModbusInv, ModbusTypeOK
<1>2. /\ 1 \in 1..Len(writes) /\ req = writes[1]
      /\ writes' \in Seq(Request) /\ Len(writes') = Len(writes) - 1
      /\ \A i \in 1..Len(writes') : i + 1 \in 1..Len(writes) /\ writes'[i] = writes[i + 1]
  BY <1>1
<1>3. req \in Request /\ req.reg \in Reg /\ req.unit \in 1..MaxValues BY <1>1, <1>2, QueuedId
<1>4. Paid(writes', <<>>) BY <1>1, TakenPaid DEF AtLoop
<1> HIDE DEF req
<1>5. ModbusTypeOK'
  <2>1. tries' \in [Reg -> Nat] BY <1>4 DEF Paid
  <2>2. sent' \in Seq(Master \union Request) /\ Len(sent') <= 1 BY <1>1, <1>3
  <2>3. lastSent' \in [Reg -> 0..MaxValues] BY <1>1, <1>3
  <2> QED BY <1>1, <1>2, <2>1, <2>2, <2>3 DEF ModbusInv, ModbusTypeOK, SendWrite, linkVars
<1>6. QueuesBounded' BY <1>1, <1>2 DEF ModbusInv, QueuesBounded, SendWrite
<1>7. NewestUnderWay' BY <1>1 DEF ModbusInv, NewestUnderWay
<1>8. WritesInOrder'
  <2>1. ASSUME NEW i \in 1..Len(writes'), NEW j \in 1..Len(writes'), i < j,
               writes'[i].reg = writes'[j].reg
        PROVE  writes'[i].unit <= writes'[j].unit
    <3>1. i + 1 < j + 1 /\ i + 1 \in 1..Len(writes) /\ j + 1 \in 1..Len(writes) BY <1>2, <2>1
    <3> QED BY <1>2, <2>1, <3>1 DEF ModbusInv, WritesInOrder
  <2>2. ASSUME NEW i \in 1..Len(writes')
        PROVE  writes'[i].unit \in lastSent'[writes'[i].reg]..newest'[writes'[i].reg]
    <3>1. i + 1 \in 1..Len(writes) /\ writes'[i] = writes[i + 1] /\ 1 < i + 1 BY <1>2
    <3>2. /\ writes[i + 1].unit \in lastSent[writes[i + 1].reg]..newest[writes[i + 1].reg]
          /\ req.reg = writes[i + 1].reg => req.unit <= writes[i + 1].unit
      BY <1>2, <3>1 DEF ModbusInv, WritesInOrder
    <3>3. writes[i + 1].reg \in Reg /\ writes[i + 1].unit \in Nat BY <1>1, <3>1, QueuedId
    <3>4. CASE writes[i + 1].reg = req.reg
      <4>1. lastSent'[req.reg] = req.unit BY <1>1, <1>3
      <4> QED BY <1>1, <1>3, <3>1, <3>2, <3>3, <3>4, <4>1
    <3>5. CASE writes[i + 1].reg # req.reg
      <4>1. lastSent'[writes[i + 1].reg] = lastSent[writes[i + 1].reg] BY <1>1, <3>3, <3>5
      <4> QED BY <1>1, <3>1, <3>2, <4>1
    <3> QED BY <3>4, <3>5
  <2>3. ASSUME NEW r \in Reg PROVE lastSent'[r] <= newest'[r]
    <3>1. req.unit <= newest[req.reg] /\ lastSent[r] <= newest[r]
      BY <1>2, <1>3, <1>1 DEF ModbusInv, WritesInOrder
    <3>2. lastSent'[r] = IF r = req.reg THEN req.unit ELSE lastSent[r] BY <1>1
    <3> QED BY <1>1, <3>1, <3>2
  <2> QED BY <2>1, <2>2, <2>3 DEF WritesInOrder
<1>9. IdsDistinct'
  <2>1. Distinct(writes, stack, nextId) BY DEF ModbusInv, IdsDistinct, Distinct
  <2>2. Remains(writes', writes) /\ Below(<<>>, stack) /\ <<>> \in Seq(Call)
    BY <1>1 DEF Remains, Below
  <2>3. stack \in Seq(Call) /\ nextId \in Nat BY <1>1
  <2>4. Distinct(writes', <<>>, nextId) BY <1>1, <2>1, <2>2, <2>3, DistinctLess
  <2> QED BY <1>1, <2>4 DEF Distinct, IdsDistinct
<1>10. FullWhileRemoving' BY <1>1 DEF FullWhileRemoving
<1>11. TriesPaid'
  <2> SUFFICES ASSUME NEW r \in Reg
               PROVE  tries'[r] + inFlight'[r].left + Cardinality(Open(r)') <= Retries + 1
    BY DEF TriesPaid
  <2>1. Open(r)' = OpenIn(writes', <<>>, r) BY <1>1 DEF Open, OpenIn, Carries
  <2>2. Cardinality(Open(r)) \in Nat BY <1>1, OpenFinite
  <2>3. Cardinality(OpenIn(writes', <<>>, r)) \in Nat BY <1>1, OpenInFinite
  <2>4. tries[r] + inFlight[r].left + Cardinality(Open(r)) <= Retries + 1
    BY DEF ModbusInv, TriesPaid
  <2>5. /\ tries'[r] + Cardinality(OpenIn(writes', <<>>, r)) <= tries[r] + Cardinality(Open(r))
        /\ tries'[r] \in Nat
    BY <1>4 DEF Paid
  <2>6. tries[r] \in Nat /\ inFlight[r].left \in Nat BY DEF ModbusInv, ModbusTypeOK
  <2>7. inFlight'[r].left = inFlight[r].left BY <1>1
  <2> QED BY <2>1, <2>2, <2>3, <2>4, <2>5, <2>6, <2>7
<1>12. NestingPaid'
  <2>1. Credits' = Credits BY <1>1 DEF Credits
  <2> QED BY <1>1, <2>1 DEF ModbusInv, NestingPaid
<1> QED
  BY <1>5, <1>6, <1>7, <1>8, <1>9, <1>10, <1>11, <1>12 DEF ModbusCore


\* The end of Execute(): what it leaves of the queue, and its request last.
LEMMA ExecuteEndShape ==
  ASSUME ModbusInv, ExecuteEnd
  PROVE  /\ writes' \in Seq(Request) /\ Len(writes') \in Len(writes)..MaxWrites
         /\ Len(writes') >= 1 /\ writes'[Len(writes')] = stack[Len(stack)].req
         /\ \E d \in {0, 1} : \A i \in 1..(Len(writes') - 1) :
              i + d \in 1..Len(writes) /\ writes'[i] = writes[i + d]
<1> USE ModbusAssumption
<1> DEFINE top == stack[Len(stack)]
<1>1. /\ writes \in Seq(Request) /\ stack \in Seq(Call) /\ Len(stack) \in 1..Len(stack)
      /\ Len(writes) \in Nat /\ Len(writes) <= MaxWrites
  BY DEF ModbusInv, ModbusTypeOK, QueuesBounded, ExecuteEnd
<1>2. top \in Call /\ top.req \in Request BY <1>1, CalledId
<1>3. CASE top.victim = 0
  <2>1. writes' = Append(writes, top.req) /\ Len(writes) < MaxWrites BY <1>3 DEF ExecuteEnd
  <2> HIDE DEF top
  <2>2. /\ writes' \in Seq(Request) /\ Len(writes') = Len(writes) + 1
        /\ writes'[Len(writes) + 1] = top.req
        /\ \A i \in 1..Len(writes) : writes'[i] = writes[i]
    BY <1>1, <1>2, <2>1
  <2>3. \A i \in 1..(Len(writes') - 1) : i + 0 \in 1..Len(writes) /\ writes'[i] = writes[i + 0]
    BY <1>1, <2>2
  <2>4. Len(writes') \in Len(writes)..MaxWrites /\ Len(writes') >= 1 BY <1>1, <2>1, <2>2
  <2> QED BY <2>2, <2>3, <2>4 DEF top
<1>4. CASE top.victim # 0
  <2>1. writes' = Pushed(writes, top.req, Len(writes)) BY <1>4 DEF ExecuteEnd
  <2>2. Len(writes) = MaxWrites BY <1>1, <1>4 DEF ModbusInv, FullWhileRemoving
  <2> HIDE DEF top
  <2>3. /\ writes' \in Seq(Request) /\ Len(writes') = Len(writes)
        /\ \E d \in {0, 1} : \A i \in 1..(Len(writes) - 1) : writes'[i] = writes[i + d]
        /\ writes'[Len(writes)] = top.req
    <3>1. Len(writes) > 0 BY <2>2
    <3>2. writes \in Seq(Request) /\ top.req \in Request BY <1>1, <1>2
    <3>3. /\ Pushed(writes, top.req, Len(writes)) \in Seq(Request)
          /\ Len(Pushed(writes, top.req, Len(writes))) = Len(writes)
          /\ \E d \in {0, 1} : \A i \in 1..(Len(writes) - 1) :
               Pushed(writes, top.req, Len(writes))[i] = writes[i + d]
          /\ Pushed(writes, top.req, Len(writes))[Len(writes)] = top.req
      BY <3>1, <3>2, PushedFull, ZenonT(60)
    <3> QED BY <2>1, <3>3
  <2>4. PICK d \in {0, 1} : \A i \in 1..(Len(writes) - 1) : writes'[i] = writes[i + d] BY <2>3
  <2>5. \A i \in 1..(Len(writes') - 1) : i + d \in 1..Len(writes) /\ writes'[i] = writes[i + d]
    BY <1>1, <2>3, <2>4
  <2>6. Len(writes') \in Len(writes)..MaxWrites /\ Len(writes') >= 1 /\ writes'[Len(writes')] = top.req
    BY <1>1, <2>2, <2>3
  <2> QED BY <2>3, <2>5, <2>6 DEF top
<1> QED BY <1>3, <1>4

\* The request of the innermost call moves to the queue.
LEMMA ExecuteEndInv == ModbusInv /\ ExecuteEnd => ModbusInv'
<1> SUFFICES ASSUME ModbusInv, ExecuteEnd PROVE ModbusCore' BY CoreSuffices, PTL
<1> USE ModbusAssumption
<1> DEFINE k == Len(stack)
           m == Len(writes')
           req == stack[k].req
<1>1. /\ writes \in Seq(Request) /\ stack \in Seq(Call) /\ k \in Nat /\ k \in 1..k /\ k > 0
      /\ stack' = SubSeq(stack, 1, k - 1) /\ nextId' = nextId /\ newest' = newest
      /\ lastSent' = lastSent /\ tries' = tries /\ inFlight' = inFlight
      /\ newest \in [Reg -> 0..MaxValues] /\ lastSent \in [Reg -> 0..MaxValues]
      /\ nextId \in Nat \ {0} /\ tries \in [Reg -> Nat]
  BY DEF ModbusInv, ModbusTypeOK, ExecuteEnd, historyVars
<1>2. /\ writes' \in Seq(Request) /\ m \in Len(writes)..MaxWrites /\ m \in Nat /\ m >= 1
      /\ writes'[m] = req
  BY <1>1, ExecuteEndShape
<1>3. PICK d \in {0, 1} : \A i \in 1..(m - 1) : i + d \in 1..Len(writes) /\ writes'[i] = writes[i + d]
  BY ExecuteEndShape
<1>4. /\ stack' \in Seq(Call) /\ Len(stack') = k - 1
      /\ \A i \in 1..(k - 1) : stack'[i] = stack[i]
  BY <1>1, ButLast
<1>5. req \in Request /\ req.reg \in Reg /\ req.unit = newest[req.reg]
  BY <1>1, CalledId DEF ModbusInv, NewestUnderWay
<1>6. Distinct(writes, stack, nextId) BY DEF ModbusInv, IdsDistinct, Distinct
<1> HIDE DEF k, m, req
<1>7. \A i \in 1..m : i \in 1..(m - 1) \/ i = m BY <1>2
<1>8. ModbusTypeOK'
  BY <1>1, <1>2, <1>4 DEF ModbusInv, ModbusTypeOK, ExecuteEnd, linkVars, m
<1>9. QueuesBounded' BY <1>2 DEF ModbusInv, QueuesBounded, ExecuteEnd, m
<1>10. NewestUnderWay'
  <2>1. \A i \in 1..Len(stack') : stack'[i].req.unit = newest'[stack'[i].req.reg]
    BY <1>1, <1>4 DEF ModbusInv, NewestUnderWay, k
  <2> QED BY <1>1, <2>1 DEF ModbusInv, NewestUnderWay
<1>11. WritesInOrder'
  <2>1. ASSUME NEW i \in 1..m PROVE writes'[i].unit \in lastSent[writes'[i].reg]..newest[writes'[i].reg]
    <3>1. CASE i = m
      <4>1. lastSent[req.reg] <= newest[req.reg] BY <1>5 DEF ModbusInv, WritesInOrder
      <4> QED BY <1>1, <1>2, <1>5, <3>1, <4>1
    <3>2. CASE i \in 1..(m - 1)
      <4>1. i + d \in 1..Len(writes) /\ writes'[i] = writes[i + d] BY <1>3, <3>2
      <4> QED BY <4>1 DEF ModbusInv, WritesInOrder
    <3> QED BY <1>7, <3>1, <3>2
  <2>2. ASSUME NEW i \in 1..m, NEW j \in 1..m, i < j, writes'[i].reg = writes'[j].reg
        PROVE  writes'[i].unit <= writes'[j].unit
    <3>1. i \in 1..(m - 1) BY <1>2, <2>2
    <3>2. i + d \in 1..Len(writes) /\ writes'[i] = writes[i + d] BY <1>3, <3>1
    <3>3. CASE j = m
      <4>1. writes'[j].unit = newest[writes'[i].reg] BY <1>2, <1>5, <2>2, <3>3
      <4>2. writes'[i].unit \in lastSent[writes'[i].reg]..newest[writes'[i].reg] BY <2>1
      <4> QED BY <4>1, <4>2
    <3>4. CASE j \in 1..(m - 1)
      <4>1. j + d \in 1..Len(writes) /\ writes'[j] = writes[j + d] BY <1>3, <3>4
      <4>2. i + d < j + d BY <2>2
      <4> QED BY <2>2, <3>2, <4>1, <4>2 DEF ModbusInv, WritesInOrder
    <3> QED BY <1>7, <3>3, <3>4
  <2>3. \A r \in Reg : lastSent[r] <= newest[r] BY DEF ModbusInv, WritesInOrder
  <2> QED BY <1>1, <2>1, <2>2, <2>3 DEF WritesInOrder, m
<1>12. IdsDistinct'
  <2>1. ASSUME NEW i \in 1..m PROVE writes'[i].id < nextId
    <3>1. CASE i = m BY <1>1, <1>2, <1>6, <3>1 DEF Distinct, req, k
    <3>2. CASE i \in 1..(m - 1) BY <1>3, <1>6, <3>2 DEF Distinct
    <3> QED BY <1>7, <3>1, <3>2
  <2>2. \A i \in 1..(k - 1) : i \in 1..k /\ i # k BY <1>1
  <2>3. \A i \in 1..(k - 1) : stack'[i].req.id < nextId
    BY <1>4, <1>6, <2>2 DEF Distinct, k
  <2>4. ASSUME NEW i \in 1..(m - 1) PROVE writes'[i].id # req.id
    <3>1. i + d \in 1..Len(writes) /\ writes'[i] = writes[i + d] BY <1>3
    <3> QED BY <1>1, <1>6, <3>1 DEF Distinct, req, k
  <2>5. ASSUME NEW i \in 1..m, NEW j \in 1..m, writes'[i].id = writes'[j].id PROVE i = j
    <3>1. CASE i = m \/ j = m BY <1>2, <1>7, <2>4, <2>5, <3>1
    <3>2. CASE i \in 1..(m - 1) /\ j \in 1..(m - 1)
      <4>1. /\ i + d \in 1..Len(writes) /\ writes'[i] = writes[i + d]
            /\ j + d \in 1..Len(writes) /\ writes'[j] = writes[j + d]
        BY <1>3, <3>2
      <4>2. i + d = j + d BY <1>6, <2>5, <4>1 DEF Distinct
      <4> QED BY <4>2
    <3> QED BY <1>7, <3>1, <3>2
  <2>6. \A i, j \in 1..(k - 1) : stack'[i].req.id = stack'[j].req.id => i = j
    BY <1>4, <1>6, <2>2 DEF Distinct, k
  <2>7. ASSUME NEW i \in 1..m, NEW j \in 1..(k - 1) PROVE writes'[i].id # stack'[j].req.id
    <3>1. stack'[j] = stack[j] /\ j \in 1..k /\ j # k BY <1>4, <2>2
    <3>2. CASE i = m BY <1>1, <1>2, <1>6, <3>1, <3>2 DEF Distinct, req, k
    <3>3. CASE i \in 1..(m - 1)
      <4>1. i + d \in 1..Len(writes) /\ writes'[i] = writes[i + d] BY <1>3, <3>3
      <4> QED BY <1>6, <3>1, <4>1 DEF Distinct, k
    <3> QED BY <1>7, <3>2, <3>3
  <2> QED BY <1>1, <1>4, <2>1, <2>3, <2>5, <2>6, <2>7 DEF IdsDistinct, m
<1>13. FullWhileRemoving'
  <2> SUFFICES ASSUME NEW i \in 1..(k - 1), stack'[i].victim # 0 PROVE m = MaxWrites
    BY <1>4 DEF FullWhileRemoving, m
  <2>1. stack'[i] = stack[i] /\ i \in 1..k BY <1>1, <1>4
  <2>2. Len(writes) = MaxWrites BY <2>1 DEF ModbusInv, FullWhileRemoving, k
  <2> QED BY <1>2, <2>2
<1>14. TriesPaid'
  <2> SUFFICES ASSUME NEW r \in Reg
               PROVE  tries'[r] + inFlight'[r].left + Cardinality(Open(r)') <= Retries + 1
    BY DEF TriesPaid
  <2>1. ASSUME NEW n \in Open(r)' PROVE n \in Open(r)
    <3>1. n \in 1..nextId BY <1>1 DEF Open
    <3>2. \/ \E i \in 1..m : writes'[i].id = n /\ Carries(writes'[i], r)
          \/ \E i \in 1..(k - 1) : stack'[i].req.id = n /\ Carries(stack'[i].req, r)
      BY <1>1, <1>4 DEF Open, Carries, m
    <3>3. CASE \E i \in 1..m : writes'[i].id = n /\ Carries(writes'[i], r)
      <4>1. PICK i \in 1..m : writes'[i].id = n /\ Carries(writes'[i], r) BY <3>3
      <4>2. CASE i = m
        <5>1. k \in 1..Len(stack) /\ stack[k].req.id = n /\ Carries(stack[k].req, r)
          BY <1>1, <1>2, <4>1, <4>2 DEF req, k
        <5> QED BY <3>1, <5>1 DEF Open
      <4>3. CASE i \in 1..(m - 1)
        <5>1. i + d \in 1..Len(writes) /\ writes'[i] = writes[i + d] BY <1>3, <4>3
        <5> QED BY <3>1, <4>1, <5>1 DEF Open
      <4> QED BY <1>7, <4>2, <4>3
    <3>4. CASE \E i \in 1..(k - 1) : stack'[i].req.id = n /\ Carries(stack'[i].req, r)
      <4>1. PICK i \in 1..(k - 1) : stack'[i].req.id = n /\ Carries(stack'[i].req, r) BY <3>4
      <4>2. i \in 1..Len(stack) /\ stack'[i] = stack[i] BY <1>1, <1>4 DEF k
      <4> QED BY <3>1, <4>1, <4>2 DEF Open
    <3> QED BY <3>2, <3>3, <3>4
  <2>2. IsFiniteSet(Open(r)) /\ Cardinality(Open(r)) \in Nat BY <1>1, OpenFinite
  <2>3. Open(r)' \in SUBSET Open(r) BY <2>1
  <2>4. Cardinality(Open(r)') \in Nat /\ Cardinality(Open(r)') <= Cardinality(Open(r))
    BY <2>2, <2>3, CountSubset
  <2>5. tries[r] + inFlight[r].left + Cardinality(Open(r)) <= Retries + 1
    BY DEF ModbusInv, TriesPaid
  <2>6. tries[r] \in Nat /\ inFlight[r].left \in Nat BY DEF ModbusInv, ModbusTypeOK
  <2>7. tries'[r] = tries[r] /\ inFlight'[r].left = inFlight[r].left BY <1>1
  <2> QED BY <2>2, <2>4, <2>5, <2>6, <2>7
<1>15. NestingPaid'
  <2>1. Credits' = Credits BY <1>1 DEF Credits
  <2>2. k + Cardinality(Credits) <= Cardinality(Reg) * Retries + 1
    BY DEF ModbusInv, NestingPaid, k
  <2> QED BY <1>1, <1>4, <2>1, <2>2, CreditsBound DEF NestingPaid
<1> QED
  BY <1>8, <1>9, <1>10, <1>11, <1>12, <1>13, <1>14, <1>15 DEF ModbusCore


\* A message brings a new value, whose budget is whole.
LEMMA OnMsgInv == ASSUME NEW r \in Reg PROVE ModbusInv /\ OnMsg(r) => ModbusInv'
<1> SUFFICES ASSUME ModbusInv, OnMsg(r) PROVE ModbusCore' BY CoreSuffices, PTL
<1> USE ModbusAssumption
<1> DEFINE v == newest[r] + 1
           new == Frame(nextId, r, v)
           fresh == [on |-> TRUE, unit |-> v, left |-> Retries]
           Records == [on : BOOLEAN, unit : 0..MaxValues, left : 0..Retries]
<1>1. /\ writes \in Seq(Request) /\ stack = <<>> /\ Len(stack) = 0 /\ writes' = writes
      /\ nextId \in Nat \ {0} /\ nextId' = nextId + 1
      /\ newest \in [Reg -> 0..MaxValues] /\ lastSent \in [Reg -> 0..MaxValues]
      /\ lastSent' = lastSent /\ tries \in [Reg -> Nat] /\ tries' = [tries EXCEPT ![r] = 0]
      /\ inFlight \in [Reg -> Records] /\ newest[r] < MaxValues
      /\ newest' = [newest EXCEPT ![r] = @ + 1]
  BY DEF ModbusInv, ModbusTypeOK, OnMsg, AtLoop
<1>2. /\ v \in 1..MaxValues /\ newest'[r] = v
      /\ \A x \in Reg : x # r => newest'[x] = newest[x]
      /\ newest' \in [Reg -> 0..MaxValues]
  BY <1>1
<1>3. stack' = <<new>> /\ inFlight' = [inFlight EXCEPT ![r] = fresh]
  BY <1>2 DEF OnMsg
<1>4. /\ new \in Call /\ new.victim = 0
      /\ new.req.id = nextId /\ new.req.reg = r /\ new.req.unit = v
  BY <1>1, <1>2 DEF Frame, Call, Request
<1>5. fresh \in Records /\ fresh.on /\ fresh.unit = v /\ fresh.left = Retries BY <1>2
<1>6. /\ tries' \in [Reg -> Nat] /\ tries'[r] = 0
      /\ \A x \in Reg : x # r => tries'[x] = tries[x]
  BY <1>1
<1>7. /\ inFlight' \in [Reg -> Records] /\ inFlight'[r] = fresh
      /\ \A x \in Reg : x # r => inFlight'[x] = inFlight[x]
  BY <1>1, <1>3, <1>5
<1>8. /\ stack' \in Seq(Call) /\ Len(stack') = 1 /\ stack'[1] = new
      /\ \A i \in 1..Len(stack') : stack'[i] = new
  BY <1>3, <1>4
<1>9. ASSUME NEW i \in 1..Len(writes)
      PROVE  /\ writes[i].id \in Nat \ {0} /\ writes[i].id < nextId
             /\ writes[i].reg \in Reg /\ writes[i].unit \in Nat
             /\ writes[i].unit \in lastSent[writes[i].reg]..newest[writes[i].reg]
  <2>0. writes \in Seq(Request) BY <1>1
  <2>1. writes[i].id \in Nat \ {0} /\ writes[i].reg \in Reg /\ writes[i].unit \in Nat
    BY <2>0, QueuedId
  <2>2. writes[i].id < nextId BY DEF ModbusInv, IdsDistinct
  <2> QED BY <2>1, <2>2 DEF ModbusInv, WritesInOrder
<1> HIDE DEF v, new, fresh
<1>10. ModbusTypeOK'
  BY <1>1, <1>2, <1>6, <1>7, <1>8, SMTT(30) DEF ModbusInv, ModbusTypeOK, OnMsg, linkVars
<1>11. QueuesBounded' BY DEF ModbusInv, QueuesBounded, OnMsg
<1>12. NewestUnderWay'
  <2>1. ASSUME NEW x \in Reg, inFlight'[x].on
        PROVE  inFlight'[x].unit = newest'[x] /\ newest'[x] > 0
    <3>1. CASE x = r BY <1>2, <1>5, <1>7, <3>1
    <3>2. CASE x # r BY <1>2, <1>7, <2>1, <3>2 DEF ModbusInv, NewestUnderWay
    <3> QED BY <3>1, <3>2
  <2> QED BY <1>2, <1>4, <1>8, <2>1 DEF NewestUnderWay
<1>13. WritesInOrder'
  <2>1. ASSUME NEW i \in 1..Len(writes)
        PROVE  writes[i].unit \in lastSent[writes[i].reg]..newest'[writes[i].reg]
    <3>1. newest[writes[i].reg] <= newest'[writes[i].reg]
      BY <1>1, <1>2, <1>9 DEF v
    <3> QED BY <1>1, <1>2, <1>9, <3>1, SMTT(30)
  <2>2. ASSUME NEW x \in Reg PROVE lastSent[x] <= newest'[x]
    <3>1. lastSent[x] <= newest[x] BY DEF ModbusInv, WritesInOrder
    <3> QED BY <1>1, <1>2, <3>1 DEF v
  <2> QED BY <1>1, <2>1, <2>2 DEF ModbusInv, WritesInOrder
<1>14. IdsDistinct'
  <2>1. Distinct(writes, stack, nextId) BY DEF ModbusInv, IdsDistinct, Distinct
  <2>2. stack \in Seq(Call) /\ stack' = Append(stack, new) BY <1>1, <1>3
  <2>3. nextId \in Nat BY <1>1
  <2>4. Distinct(writes, Append(stack, new), nextId + 1)
    BY <1>1, <1>4, <2>1, <2>2, <2>3, DistinctCall
  <2> QED BY <1>1, <2>2, <2>4 DEF Distinct, IdsDistinct
<1>15. FullWhileRemoving' BY <1>4, <1>8 DEF FullWhileRemoving
<1>16. TriesPaid'
  <2> SUFFICES ASSUME NEW x \in Reg
               PROVE  tries'[x] + inFlight'[x].left + Cardinality(Open(x)') <= Retries + 1
    BY DEF TriesPaid
  <2>1. ASSUME NEW n \in Open(x)'
        PROVE  \/ n = nextId /\ x = r
               \/ \E i \in 1..Len(writes) :
                    writes[i].id = n /\ writes[i].reg = x /\ writes[i].unit = newest'[x]
    BY <1>1, <1>4, <1>8 DEF Open, Carries
  <2>2. CASE x = r
    <3>1. ASSUME NEW n \in Open(x)' PROVE n = nextId
      <4>1. \A i \in 1..Len(writes) : writes[i].reg = r => writes[i].unit # newest'[r]
        BY <1>1, <1>2, <1>9, SMTT(30) DEF v
      <4> QED BY <2>1, <2>2, <4>1
    <3>2. Open(x)' \in SUBSET {nextId} BY <3>1
    <3>3. Cardinality(Open(x)') \in Nat /\ Cardinality(Open(x)') <= 1
      <4>1. IsFiniteSet({nextId}) /\ Cardinality({nextId}) = 1 BY FS_Singleton
      <4> QED BY <3>2, <4>1, CountSubset
    <3> QED BY <1>5, <1>6, <1>7, <2>2, <3>3
  <2>3. CASE x # r
    <3>1. ASSUME NEW n \in Open(x)' PROVE n \in Open(x)
      <4>1. PICK i \in 1..Len(writes) : writes[i].id = n /\ writes[i].reg = x /\ writes[i].unit = newest'[x]
        BY <2>1, <2>3
      <4>2. n \in 1..nextId /\ newest'[x] = newest[x] BY <1>1, <1>2, <1>9, <2>3, <4>1, SMTT(30)
      <4> QED BY <4>1, <4>2 DEF Open, Carries
    <3>2. IsFiniteSet(Open(x)) /\ Cardinality(Open(x)) \in Nat BY <1>1, OpenFinite
    <3>3. Open(x)' \in SUBSET Open(x) BY <3>1
    <3>4. Cardinality(Open(x)') \in Nat /\ Cardinality(Open(x)') <= Cardinality(Open(x))
      BY <3>2, <3>3, CountSubset
    <3>5. tries[x] + inFlight[x].left + Cardinality(Open(x)) <= Retries + 1
      BY DEF ModbusInv, TriesPaid
    <3>6. tries[x] \in Nat /\ inFlight[x].left \in Nat BY <1>1
    <3>7. tries'[x] = tries[x] /\ inFlight'[x].left = inFlight[x].left BY <1>6, <1>7, <2>3
    <3> QED BY <3>2, <3>4, <3>5, <3>6, <3>7
  <2> QED BY <2>2, <2>3
<1>17. NestingPaid'
  <2>1. (/\ IsFiniteSet(Credits)
         /\ Cardinality(Credits) \in Nat
         /\ Cardinality(Reg) * Retries \in Nat
         /\ Cardinality(Credits) <= Cardinality(Reg) * Retries)'
    BY CreditsBound, PTL
  <2> QED BY <1>8, <2>1 DEF NestingPaid
<1> QED
  BY <1>10, <1>11, <1>12, <1>13, <1>14, <1>15, <1>16, <1>17 DEF ModbusCore

\* A write succeeded: the record goes, with the retries it had left.
LEMMA WriteOkInv == ModbusInv /\ WriteOk => ModbusInv'
<1> SUFFICES ASSUME ModbusInv, WriteOk PROVE ModbusCore' BY CoreSuffices, PTL
<1> USE ModbusAssumption
<1> DEFINE r == sent[1].reg
           Records == [on : BOOLEAN, unit : 0..MaxValues, left : 0..Retries]
<1>1. /\ sent \in Seq(Master \union Request) /\ sent # <<>> /\ sent' = <<>>
      /\ UNCHANGED <<writes, stack, nextId, newest, lastSent, tries, reads, linkVars>>
      /\ inFlight' = [inFlight EXCEPT ![r] = NoRecord]
      /\ inFlight \in [Reg -> Records] /\ tries \in [Reg -> Nat] /\ nextId \in Nat \ {0}
      /\ stack \in Seq(Call)
  BY DEF WriteOk, historyVars, ModbusInv, ModbusTypeOK
<1>2. r \in Reg
  <2>1. sent[1] \in Master \union Request BY <1>1
  <2>2. sent[1] \in Request BY <2>1 DEF WriteOk
  <2> QED BY <2>2 DEF Request
<1>3. NoRecord \in Records /\ ~NoRecord.on /\ NoRecord.left = 0 BY DEF NoRecord
<1> HIDE DEF r
<1>4. /\ inFlight' \in [Reg -> Records] /\ inFlight'[r] = NoRecord
      /\ \A x \in Reg : x # r => inFlight'[x] = inFlight[x]
  BY <1>1, <1>2, <1>3
<1>5. ASSUME NEW x \in Reg
      PROVE  /\ inFlight'[x].on => x # r
             /\ inFlight'[x].left \in Nat /\ inFlight[x].left \in Nat
             /\ inFlight'[x].left <= inFlight[x].left
  <2>1. inFlight[x].left \in Nat BY <1>1
  <2>2. CASE x = r BY <1>3, <1>4, <2>1, <2>2
  <2>3. CASE x # r BY <1>4, <2>1, <2>3
  <2> QED BY <2>2, <2>3
<1>6. ModbusTypeOK'
  <2>1. sent' \in Seq(Master \union Request) /\ Len(sent') <= 1 BY <1>1
  <2> QED BY <1>1, <1>4, <2>1 DEF ModbusInv, ModbusTypeOK, linkVars
<1>7. QueuesBounded' BY <1>1 DEF ModbusInv, QueuesBounded
<1>8. NewestUnderWay'
  <2>1. ASSUME NEW x \in Reg, inFlight'[x].on
        PROVE  inFlight'[x].unit = newest[x] /\ newest[x] > 0
    BY <1>4, <1>5, <2>1 DEF ModbusInv, NewestUnderWay
  <2> QED BY <1>1, <2>1 DEF ModbusInv, NewestUnderWay
<1>9. WritesInOrder' /\ IdsDistinct' /\ FullWhileRemoving'
  BY <1>1 DEF ModbusInv, WritesInOrder, IdsDistinct, FullWhileRemoving
<1>10. TriesPaid'
  <2> SUFFICES ASSUME NEW x \in Reg
               PROVE  tries'[x] + inFlight'[x].left + Cardinality(Open(x)') <= Retries + 1
    BY DEF TriesPaid
  <2>1. Open(x)' = Open(x) BY <1>1 DEF Open, Carries
  <2>2. Cardinality(Open(x)) \in Nat BY <1>1, OpenFinite
  <2>3. tries[x] + inFlight[x].left + Cardinality(Open(x)) <= Retries + 1
    BY DEF ModbusInv, TriesPaid
  <2>4. tries'[x] = tries[x] /\ tries[x] \in Nat BY <1>1
  <2> QED BY <1>5, <2>1, <2>2, <2>3, <2>4
<1>11. NestingPaid'
  <2>1. Credits' \in SUBSET Credits BY <1>5 DEF Credits
  <2>2. Cardinality(Credits') \in Nat /\ Cardinality(Credits') <= Cardinality(Credits)
    BY <2>1, CreditsBound, CountSubset
  <2>3. Len(stack) + Cardinality(Credits) <= Cardinality(Reg) * Retries + 1
    BY DEF ModbusInv, NestingPaid
  <2>4. Len(stack') = Len(stack) /\ Len(stack) \in Nat BY <1>1
  <2> QED BY <2>2, <2>3, <2>4, CreditsBound DEF NestingPaid
<1> QED BY <1>6, <1>7, <1>8, <1>9, <1>10, <1>11 DEF ModbusCore

\* Steps of the masters, the link and the reads.
LEMMA QuietInv ==
  ModbusInv /\ (\/ \E m \in Master : Create(m) \/ Poll(m)
                \/ Connect \/ Disconnect \/ SendRead \/ ReadReply) => ModbusInv'
<1> SUFFICES ASSUME ModbusInv,
                    \/ \E m \in Master : Create(m) \/ Poll(m)
                    \/ Connect \/ Disconnect \/ SendRead \/ ReadReply
             PROVE  ModbusInv'
  OBVIOUS
<1> USE ModbusAssumption
<1>1. ModbusTypeOK /\ QueuesBounded BY DEF ModbusInv
<1>2. ASSUME NEW m \in Master, Create(m) PROVE ModbusInv'
  BY <1>1, <1>2, QuietStep DEF Create, ModbusTypeOK, QueuesBounded, historyVars
<1>3. ASSUME NEW m \in Master, Poll(m) PROVE ModbusInv'
  <2>1. reads' \in Seq(Master) /\ Len(reads') <= MaxReads
    BY <1>1, <1>3, PushedBounded DEF Poll, ModbusTypeOK, QueuesBounded
  <2> QED BY <1>1, <1>3, <2>1, QuietStep DEF Poll, ModbusTypeOK, QueuesBounded, historyVars, linkVars
<1>4. CASE Connect
  BY <1>1, <1>4, QuietStep DEF Connect, ModbusTypeOK, QueuesBounded, historyVars
<1>5. CASE Disconnect
  BY <1>1, <1>5, QuietStep DEF Disconnect, ModbusTypeOK, QueuesBounded, historyVars
<1>6. CASE SendRead
  <2>1. /\ reads \in Seq(Master) /\ reads # <<>> /\ reads' = Tail(reads)
        /\ sent' = <<Head(reads)>> \/ sent' = <<>>
    BY <1>1, <1>6 DEF SendRead, ModbusTypeOK
  <2>2. reads' \in Seq(Master) /\ Len(reads') <= Len(reads) /\ Len(reads') \in Nat /\ Len(reads) \in Nat
    BY <2>1
  <2>3. Head(reads) \in Master BY <2>1
  <2>4. sent' \in Seq(Master \union Request) /\ Len(sent') <= 1
    <3>1. CASE sent' = <<Head(reads)>> BY <2>3, <3>1
    <3>2. CASE sent' = <<>> BY <3>2
    <3> QED BY <2>1, <3>1, <3>2
  <2> QED
    BY <1>1, <1>6, <2>2, <2>4, QuietStep DEF SendRead, ModbusTypeOK, QueuesBounded, historyVars, linkVars
<1>7. CASE ReadReply
  <2>1. sent' \in Seq(Master \union Request) /\ Len(sent') <= 1 BY <1>7 DEF ReadReply
  <2> QED
    BY <1>1, <1>7, <2>1, QuietStep DEF ReadReply, ModbusTypeOK, QueuesBounded, historyVars, linkVars
<1> QED BY <1>2, <1>3, <1>4, <1>5, <1>6, <1>7

-----------------------------------------------------------------------------
(* The theorems                                                            *)

\* Every step keeps the invariant.
LEMMA ModbusNextInv == ModbusInv /\ [ModbusNext]_modbusVars => ModbusInv'
<1> SUFFICES ASSUME ModbusInv, [ModbusNext]_modbusVars PROVE ModbusInv' OBVIOUS
<1>1. CASE \/ \E m \in Master : Create(m) \/ Poll(m)
           \/ Connect \/ Disconnect \/ SendRead \/ ReadReply
  BY <1>1, QuietInv
<1>2. ASSUME NEW r \in Reg, OnMsg(r) PROVE ModbusInv' BY <1>2, OnMsgInv
<1>3. CASE OverflowCall BY <1>3, OverflowCallInv
<1>4. CASE ExecuteEnd BY <1>4, ExecuteEndInv
<1>5. CASE SendWrite BY <1>5, SendWriteInv
<1>6. CASE SendRefused BY <1>6, SendRefusedInv
<1>7. CASE WriteOk BY <1>7, WriteOkInv
<1>8. CASE WriteFailed BY <1>8, WriteFailedInv
<1>9. CASE UNCHANGED modbusVars
  <2>1. ModbusTypeOK' /\ QueuesBounded'
    BY <1>9 DEF modbusVars, ModbusInv, ModbusTypeOK, QueuesBounded
  <2> QED BY <1>9, <2>1, QuietStep DEF modbusVars
<1> QED
  BY <1>1, <1>2, <1>3, <1>4, <1>5, <1>6, <1>7, <1>8, <1>9 DEF ModbusNext

\* The queues keep their limits, Execute() nests at most once per retry the
\* records have left, and no value is handed to the device more often than
\* write_retries + 1 times, for any registers, limits and overflow mode.
THEOREM ModbusInvariant == ModbusSpec => []ModbusInv
<1>1. ModbusInit => ModbusInv BY ModbusInitInv
<1>2. ModbusInv /\ [ModbusNext]_modbusVars => ModbusInv' BY ModbusNextInv
<1> QED BY <1>1, <1>2, PTL DEF ModbusSpec

\* One step sends no value older than the last one of its register.
LEMMA StepNotStale ==
  ModbusInv /\ [ModbusNext]_modbusVars => [\A r \in Reg : lastSent'[r] >= lastSent[r]]_modbusVars
<1> SUFFICES ASSUME ModbusInv, ModbusNext PROVE \A r \in Reg : lastSent'[r] >= lastSent[r]
  OBVIOUS
<1>1. lastSent \in [Reg -> 0..MaxValues] BY DEF ModbusInv, ModbusTypeOK
<1>2. CASE SendWrite
  <2>0. /\ writes \in Seq(Request) /\ writes # <<>>
        /\ lastSent' = [lastSent EXCEPT ![Head(writes).reg] = Head(writes).unit]
    BY <1>2 DEF SendWrite, ModbusInv, ModbusTypeOK
  <2>1. /\ writes \in Seq(Request) /\ 1 \in 1..Len(writes) /\ Head(writes) = writes[1]
        /\ lastSent' = [lastSent EXCEPT ![writes[1].reg] = writes[1].unit]
    <3>1. Head(writes) = writes[1] /\ 1 \in 1..Len(writes) BY <2>0
    <3> QED BY <2>0, <3>1
  <2>2. writes[1].reg \in Reg /\ writes[1].unit \in Nat BY <2>1, QueuedId
  <2>3. writes[1].unit >= lastSent[writes[1].reg]
    BY <1>1, <2>1, <2>2 DEF ModbusInv, WritesInOrder
  <2> QED BY <1>1, <2>1, <2>2, <2>3
<1>3. CASE ~SendWrite
  <2>1. lastSent' = lastSent
    BY <1>3 DEF ModbusNext, Create, Poll, Connect, Disconnect, OnMsg, OverflowCall, ExecuteEnd,
       SendRefused, SendRead, ReadReply, WriteOk, WriteFailed, historyVars
  <2> QED BY <1>1, <2>1
<1> QED BY <1>2, <1>3

\* An old value is never sent after a newer one of its register, however
\* retries, overflows and new messages interleave.
THEOREM ModbusNeverStale == ModbusSpec => NoStaleWrite
<1>1. ModbusInit => ModbusInv BY ModbusInitInv
<1>2. ModbusInv /\ [ModbusNext]_modbusVars => ModbusInv' BY ModbusNextInv
<1>3. ModbusInv /\ [ModbusNext]_modbusVars => [\A r \in Reg : lastSent'[r] >= lastSent[r]]_modbusVars
  BY StepNotStale
<1> QED BY <1>1, <1>2, <1>3, PTL DEF ModbusSpec, NoStaleWrite
=============================================================================
