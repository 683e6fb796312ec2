---------------------------- MODULE EventsProofs ----------------------------
(***************************************************************************)
(* Proofs about what reaches a script: messages through the listeners of a *)
(* pipe source, the fields of a lazy message, the values of registers, the *)
(* events of a child process and the quality of tags, for any listeners,   *)
(* filters, messages, register maps, names of workers and fields, and any  *)
(* number of calls and starts.                                             *)
(***************************************************************************)
EXTENDS Pipes, Process, Tags, Lazy, Loopback, FiniteSetTheorems, SequenceTheorems, WellFoundedInduction, TLAPS

\* Nobody is connected, nothing was sent.
LEMMA PipesInitInv == PipesInit => PipesInv
<1> SUFFICES ASSUME PipesInit PROVE PipesInv
  OBVIOUS
<1>1. twice = FALSE
  BY DEF PipesInit
<1>2. PipesTypeOK
  <2>1. listeners \in Seq(Listener) /\ unused \subseteq Listener /\ steady \subseteq Message
    BY DEF PipesInit
  <2>2. at \in [Message -> Nat] /\ due \in [Message -> SUBSET Listener]
    BY DEF PipesInit
  <2>3. got \in [Listener -> SUBSET Message] /\ result \in [Matcher -> SUBSET Message]
    BY DEF PipesInit
  <2>4. twice \in BOOLEAN
    BY <1>1
  <2> QED BY <2>1, <2>2, <2>3, <2>4 DEF PipesTypeOK
<1>3. TableSound /\ AheadFresh /\ SteadyReaches /\ NoDoubleDelivery
  BY <1>1 DEF PipesInit, TableSound, AheadFresh, SteadyReaches, NoDoubleDelivery
<1> QED BY <1>2, <1>3 DEF PipesInv

\* What a table without one of its entries holds: every entry was in it before,
\* at the same place or one further back, and the removed one is gone.
LEMMA RemoveShape ==
  ASSUME PipesTypeOK, TableSound, NEW l, RemoveListener(l)
  PROVE  /\ listeners' \in Seq(Listener) /\ Len(listeners') \in Nat /\ Len(listeners) \in Nat
         /\ \A i \in 1..Len(listeners') :
              \E k \in 1..Len(listeners) : /\ k \in {i, i + 1}
                                           /\ listeners'[i] = listeners[k] /\ listeners[k] # l
         /\ \A i, j \in 1..Len(listeners') : listeners'[i] = listeners'[j] => i = j
<1>1. PICK j \in 1..Len(listeners) :
        /\ listeners[j] = l
        /\ listeners' = [i \in 1..(Len(listeners) - 1) |->
                           IF i < j THEN listeners[i] ELSE listeners[i + 1]]
  BY DEF RemoveListener
<1>2. listeners \in Seq(Listener) /\ Len(listeners) \in Nat /\ Len(listeners) >= 1
  BY <1>1 DEF PipesTypeOK
<1>3. \A i \in 1..(Len(listeners) - 1) : i \in 1..Len(listeners) /\ i + 1 \in 1..Len(listeners)
  BY <1>2
<1>4. listeners' \in [1..(Len(listeners) - 1) -> Listener]
  BY <1>1, <1>2, <1>3
<1>5. listeners' \in Seq(Listener) /\ Len(listeners') = Len(listeners) - 1
  BY <1>2, <1>4
<1>6. ASSUME NEW i \in 1..Len(listeners')
      PROVE  \E k \in 1..Len(listeners) : /\ k = (IF i < j THEN i ELSE i + 1)
                                          /\ listeners'[i] = listeners[k] /\ listeners[k] # l
  <2> DEFINE k == IF i < j THEN i ELSE i + 1
  <2>1. k \in 1..Len(listeners) /\ k # j
    BY <1>2, <1>3, <1>5
  <2>2. listeners'[i] = listeners[k]
    BY <1>1, <1>5
  <2>3. listeners[k] # l
    BY <1>1, <2>1 DEF TableSound
  <2> QED BY <2>1, <2>2, <2>3
<1>7. ASSUME NEW i \in 1..Len(listeners'), NEW h \in 1..Len(listeners'),
             listeners'[i] = listeners'[h]
      PROVE  i = h
  <2>1. (IF i < j THEN i ELSE i + 1) = (IF h < j THEN h ELSE h + 1)
    BY <1>6, <1>7 DEF TableSound
  <2>2. i \in Nat /\ h \in Nat /\ j \in Nat
    BY <1>2, <1>5
  <2> QED BY <2>1, <2>2
<1> QED BY <1>2, <1>5, <1>6, <1>7

\* connect(): the new entry is at the end, ahead of every loop.
LEMMA ConnectInv ==
  ASSUME PipesInv, NEW l \in Listener, Connect(l)
  PROVE  PipesInv'
<1> USE DEF PipesInv
<1>1. /\ l \in unused /\ unused' = unused \ {l}
      /\ listeners' = Append(listeners, l)
      /\ UNCHANGED <<at, due, steady, got, twice, result>>
  BY DEF Connect
<1>2. /\ listeners \in Seq(Listener) /\ listeners' \in Seq(Listener)
      /\ Len(listeners) \in Nat /\ Len(listeners') = Len(listeners) + 1
      /\ listeners'[Len(listeners) + 1] = l
      /\ \A i \in 1..Len(listeners) : listeners'[i] = listeners[i] /\ i \in 1..Len(listeners')
      /\ \A i \in 1..Len(listeners') : i \in 1..Len(listeners) \/ i = Len(listeners) + 1
  BY <1>1 DEF PipesTypeOK
<1>3. PipesTypeOK' /\ NoDoubleDelivery'
  BY <1>1, <1>2 DEF PipesTypeOK, NoDoubleDelivery
<1>4. got[l] = {} /\ \A i \in 1..Len(listeners) : listeners[i] # l
  BY <1>1 DEF TableSound
<1>5. TableSound'
  BY <1>1, <1>2, <1>4 DEF TableSound
<1>6. AheadFresh'
  BY <1>1, <1>2, <1>4 DEF AheadFresh
<1>7. SteadyReaches'
  BY <1>1, <1>2 DEF SteadyReaches
<1> QED BY <1>3, <1>5, <1>6, <1>7

\* An entry that leaves the table pulls the others towards the loops, which may
\* pass over one of them and never meet one again.
LEMMA RemoveInv ==
  ASSUME PipesInv, NEW l, RemoveListener(l), steady' = {}, UNCHANGED <<unused, due>>,
         got' \in [Listener -> SUBSET Message],
         at' \in [Message -> Nat], twice' = FALSE, result' \in [Matcher -> SUBSET Message],
         \A m \in Message : at'[m] = 0 <=> at[m] = 0,
         \A m \in Message : at[m] <= at'[m],
         \A m \in Message, k \in Listener : m \in got'[k] => m \in got[k] \/ (k = l /\ at[m] > 0)
  PROVE  PipesInv'
<1> USE DEF PipesInv
<1>1. /\ listeners' \in Seq(Listener) /\ Len(listeners') \in Nat /\ Len(listeners) \in Nat
      /\ \A i \in 1..Len(listeners') :
           \E k \in 1..Len(listeners) : /\ k \in {i, i + 1}
                                        /\ listeners'[i] = listeners[k] /\ listeners[k] # l
      /\ \A i, j \in 1..Len(listeners') : listeners'[i] = listeners'[j] => i = j
  BY RemoveShape
<1>2. twice' \in BOOLEAN
  OBVIOUS
<1>3. PipesTypeOK'
  BY <1>1, <1>2 DEF PipesTypeOK
<1>4. NoDoubleDelivery' /\ SteadyReaches'
  BY DEF NoDoubleDelivery, SteadyReaches
<1>5. PICK j \in 1..Len(listeners) : listeners[j] = l
  BY DEF RemoveListener
<1>6. l \in Listener /\ l \notin unused
  BY <1>5 DEF PipesTypeOK, TableSound
<1>7. ASSUME NEW u \in unused PROVE got'[u] = {} /\ \A i \in 1..Len(listeners') : listeners'[i] # u
  <2>1. got[u] = {} /\ u # l /\ u \in Listener
    BY <1>6 DEF TableSound, PipesTypeOK
  <2>2. \A i \in 1..Len(listeners') : listeners'[i] # u
    BY <1>1, SMTT(30) DEF TableSound
  <2>3. \A m \in Message : m \notin got'[u]
    BY <2>1
  <2> QED BY <2>1, <2>2, <2>3
<1>8. TableSound'
  BY <1>1, <1>7 DEF TableSound
<1>9. ASSUME NEW m \in Message, at'[m] > 0, NEW i \in 1..Len(listeners'), at'[m] <= i
      PROVE  m \notin got'[listeners'[i]]
  <2>1. PICK k \in 1..Len(listeners) : /\ k \in {i, i + 1}
                                       /\ listeners'[i] = listeners[k] /\ listeners[k] # l
    BY <1>1
  <2>2. at[m] \in Nat /\ at'[m] \in Nat /\ at[m] > 0 /\ at[m] <= k
    BY <1>9, <1>1, <2>1 DEF PipesTypeOK
  <2>3. m \notin got[listeners[k]] /\ listeners[k] \in Listener
    BY <2>2 DEF AheadFresh, PipesTypeOK
  <2> QED BY <2>1, <2>3
<1>10. ASSUME NEW m \in Message, due[m] = {}
       PROVE  at'[m] = 0 /\ \A k \in Listener : m \notin got'[k]
  <2>1. at[m] = 0 /\ \A k \in Listener : m \notin got[k]
    BY <1>10 DEF AheadFresh
  <2> QED BY <2>1
<1>11. AheadFresh'
  BY <1>9, <1>10 DEF AheadFresh
<1> QED BY <1>3, <1>4, <1>8, <1>11

\* cancel() from a script.
LEMMA CancelInv ==
  ASSUME PipesInv, NEW l \in Listener, Cancel(l)
  PROVE  PipesInv'
<1>1. /\ RemoveListener(l) /\ steady' = {}
      /\ UNCHANGED <<unused, at, due, got, twice, result>>
  BY DEF Cancel
<1>2. twice' = FALSE
  BY <1>1 DEF PipesInv, NoDoubleDelivery, PipesTypeOK
<1>3. /\ got' \in [Listener -> SUBSET Message] /\ at' \in [Message -> Nat]
      /\ result' \in [Matcher -> SUBSET Message]
  BY <1>1 DEF PipesInv, PipesTypeOK
<1>4. \A m \in Message : at'[m] = at[m] /\ at[m] <= at'[m]
  BY <1>1 DEF PipesInv, PipesTypeOK
<1>5. \A m \in Message, k \in Listener : m \in got'[k] => m \in got[k]
  BY <1>1
<1> QED BY <1>1, <1>2, <1>3, <1>4, <1>5, RemoveInv


\* call_all() starts: nobody has the message, and all of the table is ahead.
LEMMA NotifyInv ==
  ASSUME PipesInv, NEW m \in Message, Notify(m)
  PROVE  PipesInv'
<1> USE DEF PipesInv
<1>1. /\ at[m] = 0 /\ due[m] = {} /\ InTable # {}
      /\ at' = [at EXCEPT ![m] = 1]
      /\ due' = [due EXCEPT ![m] = InTable]
      /\ steady' = steady \union {m}
      /\ UNCHANGED <<listeners, unused, got, twice, result>>
  BY DEF Notify
<1>2. InTable \subseteq Listener
  BY DEF InTable, PipesTypeOK
<1>3. PipesTypeOK'
  BY <1>1, <1>2 DEF PipesTypeOK
<1>4. NoDoubleDelivery' /\ TableSound'
  BY <1>1 DEF NoDoubleDelivery, TableSound
<1>5. /\ at'[m] = 1 /\ due'[m] = InTable
      /\ \A n \in Message \ {m} : at'[n] = at[n] /\ due'[n] = due[n]
  BY <1>1 DEF PipesTypeOK
<1>6. \A l \in Listener : m \notin got[l]
  BY <1>1 DEF AheadFresh
<1>7. \A i \in 1..Len(listeners) : listeners[i] \in Listener
  BY DEF PipesTypeOK
<1>8. AheadFresh'
  BY <1>1, <1>5, <1>6, <1>7 DEF AheadFresh
<1>9. SteadyReaches'
  <2>1. \A l \in InTable : \E i \in 1..Len(listeners) : 1 <= i /\ listeners[i] = l
    BY DEF InTable, PipesTypeOK
  <2> QED BY <1>1, <1>5, <2>1 DEF SteadyReaches, PipesTypeOK
<1> QED BY <1>3, <1>4, <1>8, <1>9

\* A listener is called: it did not have the message, and is behind the loop now.
LEMMA DeliverInv ==
  ASSUME PipesInv, NEW m \in Message, Deliver(m)
  PROVE  PipesInv'
<1> USE DEF PipesInv
<1> DEFINE l == listeners[at[m]]
<1>1. /\ at[m] \in 1..Len(listeners)
      /\ got' = [got EXCEPT ![l] = @ \union {m}]
      /\ twice' = (twice \/ m \in got[l])
      /\ at' = [at EXCEPT ![m] = @ + 1]
      /\ UNCHANGED <<unused, due>>
  BY DEF Deliver
<1>2. \/ UNCHANGED <<listeners, steady, result>>
      \/ /\ RemoveListener(l) /\ steady' = {} /\ l \in Matcher
         /\ result' = [result EXCEPT ![l] = @ \union {m}]
  BY DEF Deliver
<1>3. /\ l \in Listener /\ m \notin got[l] /\ at[m] \in Nat /\ at[m] > 0
      /\ Len(listeners) \in Nat
  BY <1>1 DEF PipesTypeOK, AheadFresh
<1>4. \A i \in 1..Len(listeners) : listeners[i] = l => i = at[m]
  BY <1>1 DEF TableSound
<1>5. l \notin unused
  BY <1>1 DEF TableSound
<1> HIDE DEF l
<1>6. twice' = FALSE
  BY <1>1, <1>3 DEF NoDoubleDelivery, PipesTypeOK
<1>7. /\ got' \in [Listener -> SUBSET Message]
      /\ got'[l] = got[l] \union {m}
      /\ \A k \in Listener \ {l} : got'[k] = got[k]
  BY <1>1, <1>3 DEF PipesTypeOK
<1>8. /\ at' \in [Message -> Nat]
      /\ at'[m] = at[m] + 1
      /\ \A n \in Message \ {m} : at'[n] = at[n]
  BY <1>1, <1>3 DEF PipesTypeOK
<1>9. \A n \in Message, k \in Listener : n \in got'[k] => n \in got[k] \/ (k = l /\ n = m)
  BY <1>7
<1>10. CASE UNCHANGED <<listeners, steady, result>>
  <2>1. twice' \in BOOLEAN
    BY <1>6
  <2>2. PipesTypeOK'
    BY <1>1, <1>7, <1>8, <1>10, <2>1 DEF PipesTypeOK
  <2>3. NoDoubleDelivery'
    BY <1>6 DEF NoDoubleDelivery
  <2>4. TableSound'
    BY <1>1, <1>5, <1>7, <1>10 DEF TableSound, PipesTypeOK
  <2>5. ASSUME NEW n \in Message, at'[n] > 0, NEW i \in 1..Len(listeners), at'[n] <= i
        PROVE  n \notin got'[listeners[i]]
    <3>1. at[n] \in Nat /\ at[n] > 0 /\ at[n] <= i /\ (n = m => at[m] < i)
      BY <1>3, <1>8, <2>5 DEF PipesTypeOK
    <3>2. n \notin got[listeners[i]] /\ listeners[i] \in Listener
      BY <3>1 DEF AheadFresh, PipesTypeOK
    <3>3. ~(listeners[i] = l /\ n = m)
      BY <1>3, <1>4, <3>1
    <3> QED BY <1>9, <3>2, <3>3
  <2>6. ASSUME NEW n \in Message, due[n] = {}
        PROVE  at'[n] = 0 /\ \A k \in Listener : n \notin got'[k]
    <3>1. n # m /\ at[n] = 0 /\ \A k \in Listener : n \notin got[k]
      BY <1>3, <2>6 DEF AheadFresh
    <3> QED BY <1>8, <1>9, <3>1
  <2>7. AheadFresh'
    BY <1>1, <1>10, <2>5, <2>6 DEF AheadFresh
  <2>8. ASSUME NEW n \in steady, at'[n] > 0, NEW k \in due[n]
        PROVE  n \in got'[k] \/ \E i \in 1..Len(listeners) : at'[n] <= i /\ listeners[i] = k
    <3>1. n \in Message /\ k \in Listener /\ at[n] > 0
      BY <1>3, <1>8, <2>8 DEF PipesTypeOK
    <3>2. n \in got[k] \/ \E i \in 1..Len(listeners) : at[n] <= i /\ listeners[i] = k
      BY <2>8, <3>1 DEF SteadyReaches
    <3>3. CASE n \in got[k]
      BY <1>7, <3>1, <3>3
    <3>4. CASE k = l /\ n = m
      BY <1>7, <3>4
    <3>5. ASSUME NEW i \in 1..Len(listeners), at[n] <= i, listeners[i] = k, ~(k = l /\ n = m)
          PROVE  at'[n] <= i
      <4>1. n = m => i # at[m]
        BY <3>5 DEF l
      <4> QED BY <1>3, <1>8, <3>1, <3>5, <4>1 DEF PipesTypeOK
    <3> QED BY <3>2, <3>3, <3>4, <3>5
  <2>9. SteadyReaches'
    BY <1>1, <1>10, <2>8 DEF SteadyReaches
  <2> QED BY <2>2, <2>3, <2>4, <2>7, <2>9
<1>11. CASE /\ RemoveListener(l) /\ steady' = {} /\ l \in Matcher
            /\ result' = [result EXCEPT ![l] = @ \union {m}]
  <2>1. result' \in [Matcher -> SUBSET Message]
    BY <1>11 DEF PipesTypeOK
  <2>2. \A n \in Message : (at'[n] = 0 <=> at[n] = 0) /\ at[n] <= at'[n]
    BY <1>3, <1>8 DEF PipesTypeOK
  <2>3. \A n \in Message, k \in Listener : n \in got'[k] => n \in got[k] \/ (k = l /\ at[n] > 0)
    BY <1>3, <1>9
  <2> QED BY <1>1, <1>6, <1>7, <1>8, <1>11, <2>1, <2>2, <2>3, RemoveInv
<1> QED BY <1>2, <1>10, <1>11

\* The loop ends.
LEMMA FinishInv ==
  ASSUME PipesInv, NEW m \in Message, Finish(m)
  PROVE  PipesInv'
<1> USE DEF PipesInv
<1>1. /\ at' = [at EXCEPT ![m] = 0]
      /\ UNCHANGED <<listeners, unused, due, steady, got, twice, result>>
  BY DEF Finish
<1>2. PipesTypeOK'
  BY <1>1 DEF PipesTypeOK
<1>3. at'[m] = 0 /\ \A n \in Message \ {m} : at'[n] = at[n]
  BY <1>1 DEF PipesTypeOK
<1>4. NoDoubleDelivery' /\ TableSound'
  BY <1>1 DEF NoDoubleDelivery, TableSound
<1>5. AheadFresh'
  BY <1>1, <1>3 DEF AheadFresh
<1>6. SteadyReaches'
  BY <1>1, <1>3 DEF SteadyReaches, PipesTypeOK
<1> QED BY <1>2, <1>4, <1>5, <1>6

\* Every step of scripts and deliveries keeps the invariant.
LEMMA PipesNextInv == PipesInv /\ [PipesNext]_pipeVars => PipesInv'
<1> SUFFICES ASSUME PipesInv, [PipesNext]_pipeVars PROVE PipesInv'
  OBVIOUS
<1>1. CASE UNCHANGED pipeVars
  BY <1>1 DEF pipeVars, PipesInv, PipesTypeOK, NoDoubleDelivery, TableSound, AheadFresh,
              SteadyReaches
<1> QED BY <1>1, ConnectInv, CancelInv, NotifyInv, DeliverInv, FinishInv DEF PipesNext

\* While listeners are connected and removed under the loops of call_all(), no
\* listener is called twice with one message.
THEOREM PipesInvariant == PipesSpec => []PipesInv
BY PipesInitInv, PipesNextInv, PTL DEF PipesSpec

\* A delivery under which nothing was removed has reached whom it found at its
\* start when it ends.
LEMMA NobodySkippedStep ==
  PipesInv /\ [PipesNext]_pipeVars =>
    [\A m \in steady : at[m] > 0 /\ at'[m] = 0 => \A l \in due[m] : m \in got[l]]_pipeVars
<1> SUFFICES ASSUME PipesInv, [PipesNext]_pipeVars, ~UNCHANGED pipeVars,
                    NEW m \in steady, at[m] > 0, at'[m] = 0, NEW l \in due[m]
             PROVE  m \in got[l]
  OBVIOUS
<1>1. m \in Message /\ at[m] \in Nat /\ at \in [Message -> Nat] /\ Len(listeners) \in Nat
  BY DEF PipesInv, PipesTypeOK
<1>2. \A k \in Listener : ~Connect(k) /\ ~Cancel(k)
  BY <1>1 DEF Connect, Cancel
<1>3. \A n \in Message : ~Notify(n) /\ ~Deliver(n)
  BY <1>1 DEF Notify, Deliver
<1>4. PICK n \in Message : Finish(n)
  BY <1>2, <1>3 DEF PipesNext
<1>5. n = m
  BY <1>1, <1>4 DEF Finish
<1>6. at[m] > Len(listeners)
  BY <1>4, <1>5 DEF Finish
<1> QED BY <1>1, <1>6 DEF PipesInv, SteadyReaches

\* call_all() delivers a message to a listener at most once, and to everyone it
\* found at its start unless a listener was removed meanwhile (builtins.lua).
THEOREM PipesDeliveredOnce == PipesSpec => DeliveredOnce
<1>1. PipesSpec => NobodySkipped
  BY NobodySkippedStep, PipesInvariant, PTL DEF PipesSpec, NobodySkipped
<1> QED BY <1>1, PipesInvariant, PTL DEF DeliveredOnce


-----------------------------------------------------------------------------
(* Process: the events of a child.                                         *)

ChildEvents == Ends \cup {"started", "error"}

\* What one more event changes: "started" opens, an end closes, an error does
\* neither; what was told before stays told.
LEMMA OpenAppend ==
  ASSUME NEW s \in Seq(ChildEvents), NEW e \in ChildEvents
  PROVE  /\ Append(s, e) \in Seq(ChildEvents)
         /\ Len(s) \in Nat /\ Len(Append(s, e)) = Len(s) + 1
         /\ Append(s, e)[Len(s) + 1] = e
         /\ \A n \in 1..Len(s) : Append(s, e)[n] = s[n]
         /\ \A n \in 0..Len(s) : Open(Append(s, e), n) <=> Open(s, n)
         /\ Open(Append(s, e), Len(s) + 1) <=> e = "started" \/ (e \notin Ends /\ Open(s, Len(s)))
<1> DEFINE t == Append(s, e)
           L == Len(s)
<1>1. /\ t \in Seq(ChildEvents) /\ L \in Nat /\ Len(t) = L + 1 /\ t[L + 1] = e
      /\ \A n \in 1..L : t[n] = s[n]
  OBVIOUS
<1> HIDE DEF t, L
<1>2. ASSUME NEW n \in 0..L PROVE Open(t, n) <=> Open(s, n)
  <2>1. \A i \in 1..n : i \in 1..L /\ \A k \in (i + 1)..n : k \in 1..L
    BY <1>1
  <2>2. \A i \in 1..n : t[i] = s[i] /\ \A k \in (i + 1)..n : t[k] = s[k]
    BY <1>1, <2>1
  <2> QED BY <2>2 DEF Open
<1>3. ASSUME e = "started" PROVE Open(t, L + 1)
  <2>1. L + 1 \in 1..(L + 1) /\ ((L + 1) + 1)..(L + 1) = {}
    BY <1>1
  <2> QED BY <1>1, <1>3, <2>1 DEF Open
<1>4. ASSUME e \notin Ends, Open(s, L) PROVE Open(t, L + 1)
  <2>1. PICK i \in 1..L : s[i] = "started" /\ \A k \in (i + 1)..L : s[k] \notin Ends
    BY <1>4 DEF Open
  <2>2. i \in 1..(L + 1) /\ \A k \in (i + 1)..(L + 1) : k \in (i + 1)..L \/ k = L + 1
    BY <1>1
  <2>3. \A k \in (i + 1)..L : t[k] = s[k]
    BY <1>1
  <2> QED BY <1>1, <1>4, <2>1, <2>2, <2>3 DEF Open
<1>5. ASSUME Open(t, L + 1), e # "started" PROVE e \notin Ends /\ Open(s, L)
  <2>1. PICK i \in 1..(L + 1) : t[i] = "started" /\ \A k \in (i + 1)..(L + 1) : t[k] \notin Ends
    BY <1>5 DEF Open
  <2>2. i \in 1..L
    BY <1>1, <1>5, <2>1
  <2>3. L + 1 \in (i + 1)..(L + 1) /\ \A k \in (i + 1)..L : k \in (i + 1)..(L + 1) /\ t[k] = s[k]
    BY <1>1, <2>2
  <2> QED BY <1>1, <2>1, <2>2, <2>3 DEF Open
<1>6. Open(t, L + 1) <=> e = "started" \/ (e \notin Ends /\ Open(s, L))
  BY <1>3, <1>4, <1>5
<1> QED BY <1>1, <1>2, <1>6 DEF t, L

\* No child, or the first one is being started.
LEMMA ProcessInitInv == ProcessInit => ProcessInv
<1> SUFFICES ASSUME ProcessInit PROVE ProcessInv
  OBVIOUS
<1>1. killed = FALSE /\ late = FALSE
  BY DEF ProcessInit
<1>2. killed \in BOOLEAN /\ late \in BOOLEAN
  BY <1>1
<1>3. ProcessTypeOK
  BY <1>2 DEF ProcessInit, ProcessTypeOK
<1>4. Len(events) = 0 /\ ~Open(events, 0) /\ ~Open(events, Len(events))
  BY DEF ProcessInit, Open
<1>5. ChildKnown /\ EndSeen
  BY <1>4 DEF ProcessInit, ChildKnown, EndSeen
<1> QED BY <1>3, <1>5 DEF ProcessInv

\* An event that fits what the script knows is told: it opens when nothing is
\* open, and closes what is.
LEMMA ToldInv ==
  ASSUME ProcessInv, NEW e \in ChildEvents, SendEvent(e), worker # "gone",
         UNCHANGED <<worker, killed, starts, late>>,
         e = "started" => proc = "starting" /\ proc' = "running",
         e \in Ends => proc = "running" /\ proc' = "not_running",
         e = "error" => proc = "starting" /\ proc' = "not_running"
  PROVE  ProcessInv'
<1> DEFINE L == Len(events)
<1>1. /\ events \in Seq(ChildEvents) /\ proc \in {"not_running", "starting", "running"}
      /\ killed \in BOOLEAN /\ late \in BOOLEAN
  BY DEF ProcessInv, ProcessTypeOK, ChildEvents
<1>2. events' = Append(events, e)
  BY DEF SendEvent
<1>3. /\ events' \in Seq(ChildEvents)
      /\ L \in Nat /\ Len(events') = L + 1
      /\ events'[L + 1] = e
      /\ \A n \in 1..L : events'[n] = events[n]
      /\ \A n \in 0..L : Open(events', n) <=> Open(events, n)
      /\ Open(events', L + 1) <=> e = "started" \/ (e \notin Ends /\ Open(events, L))
  BY <1>1, <1>2, OpenAppend
<1>4. proc = "running" <=> Open(events, L)
  BY DEF ProcessInv, ChildKnown
<1> HIDE DEF L
<1>5. \/ e = "started" /\ proc = "starting" /\ proc' = "running"
      \/ e \in Ends /\ proc = "running" /\ proc' = "not_running"
      \/ e = "error" /\ proc = "starting" /\ proc' = "not_running"
  BY DEF ChildEvents
<1>6. killed' \in BOOLEAN /\ late' \in BOOLEAN
  BY <1>1
<1>7. ProcessTypeOK'
  BY <1>3, <1>5, <1>6 DEF ProcessInv, ProcessTypeOK, ChildEvents
<1>8. proc' = "running" <=> Open(events', Len(events'))
  BY <1>3, <1>4, <1>5 DEF Ends
<1>9. worker = "doomed" /\ ~late => proc = "not_running"
  BY DEF ProcessInv, ChildKnown
<1>10. ~(worker = "doomed" /\ ~late)
  BY <1>5, <1>9
<1>11. ChildKnown'
  BY <1>8, <1>10 DEF ChildKnown
<1>12. ASSUME NEW n \in 1..(L + 1)
       PROVE  /\ events'[n] = "started" => ~Open(events', n - 1)
              /\ events'[n] \in Ends => Open(events', n - 1)
  <2>1. CASE n \in 1..L
    <3>1. n - 1 \in 0..L /\ events'[n] = events[n]
      BY <1>3, <2>1
    <3>2. /\ events[n] = "started" => ~Open(events, n - 1)
          /\ events[n] \in Ends => Open(events, n - 1)
      BY <2>1 DEF ProcessInv, EndSeen, L
    <3> QED BY <1>3, <3>1, <3>2
  <2>2. CASE n = L + 1
    <3>1. n - 1 = L /\ L \in 0..L
      BY <1>3, <2>2
    <3>2. Open(events', n - 1) <=> proc = "running"
      BY <1>3, <1>4, <3>1
    <3> QED BY <1>3, <1>5, <2>2, <3>2 DEF Ends
  <2> QED BY <1>3, <2>1, <2>2
<1>13. EndSeen'
  BY <1>3, <1>12 DEF EndSeen
<1> QED BY <1>7, <1>11, <1>13 DEF ProcessInv

\* A step that tells nothing keeps what was told, as long as it leaves a running
\* child running or is the last.
LEMMA UntoldInv ==
  ASSUME ProcessInv, UNCHANGED events, ProcessTypeOK',
         worker' # "gone" => worker # "gone" /\ (proc' = "running" <=> proc = "running"),
         worker' = "doomed" /\ ~late' => proc' = "not_running",
         worker' = "gone" /\ ~late' => worker \in {"doomed", "gone"} /\ ~late
  PROVE  ProcessInv'
<1>1. ChildKnown'
  BY DEF ProcessInv, ChildKnown
<1>2. worker = "doomed" /\ ~late => ~Open(events, Len(events))
  BY DEF ProcessInv, ChildKnown
<1>3. worker = "gone" /\ ~late => ~Open(events, Len(events))
  BY DEF ProcessInv, EndSeen
<1>4. worker' = "gone" /\ ~late' => ~Open(events, Len(events))
  BY <1>2, <1>3
<1>5. EndSeen'
  BY <1>4 DEF ProcessInv, EndSeen
<1> QED BY <1>1, <1>5 DEF ProcessInv

\* Every step of the worker, its child and its script keeps the invariant.
LEMMA ProcessNextInv == ProcessInv /\ [ProcessNext]_processVars => ProcessInv'
<1> SUFFICES ASSUME ProcessInv, [ProcessNext]_processVars PROVE ProcessInv'
  OBVIOUS
<1>1. /\ worker \in {"alive", "terminating", "killing", "doomed", "gone"}
      /\ proc \in {"not_running", "starting", "running"}
      /\ killed \in BOOLEAN /\ late \in BOOLEAN
      /\ events \in Seq(Ends \cup {"started", "error"}) /\ starts \in Nat
  BY DEF ProcessInv, ProcessTypeOK
<1>2. worker = "doomed" /\ ~late => proc = "not_running"
  BY DEF ProcessInv, ChildKnown
<1>3. CASE Launch
  <2>1. killed' \in BOOLEAN /\ late' \in BOOLEAN
    BY <1>3 DEF Launch
  <2>2. ProcessTypeOK'
    BY <1>1, <1>3, <2>1 DEF Launch, ProcessTypeOK
  <2> QED BY <1>1, <1>3, <2>2, UntoldInv DEF Launch
<1>4. CASE Started
  BY <1>4, ToldInv DEF Started, ChildEvents, Ends
<1>5. CASE FailedToStart
  BY <1>5, ToldInv DEF FailedToStart, ChildEvents, Ends
<1>6. CASE Finished
  <2>1. PICK how \in Ends : SendEvent(how)
    BY <1>6 DEF Finished, Ends
  <2> QED BY <1>6, <2>1, ToldInv DEF Finished, ChildEvents, Ends
<1>7. CASE Kill
  <2>1. killed' \in BOOLEAN /\ late' \in BOOLEAN
    BY <1>1, <1>7 DEF Kill
  <2>2. ProcessTypeOK'
    BY <1>1, <1>7, <2>1 DEF Kill, ProcessTypeOK
  <2> QED BY <1>1, <1>2, <1>7, <2>2, UntoldInv DEF Kill
<1>8. CASE Destroy \/ WaitForFinished
  <2>1. /\ UNCHANGED <<proc, killed, events, starts, late>>
        /\ worker' \in {"doomed", "terminating"} /\ worker # "gone"
        /\ worker' = "doomed" => proc = "not_running" \/ late
    BY <1>8 DEF Destroy, WaitForFinished
  <2>2. killed' \in BOOLEAN /\ late' \in BOOLEAN
    BY <1>1, <2>1
  <2>3. ProcessTypeOK'
    BY <1>1, <2>1, <2>2 DEF ProcessTypeOK
  <2> QED BY <2>1, <2>3, UntoldInv
<1>9. CASE TerminateTimesOut
  <2>1. killed' \in BOOLEAN /\ late' \in BOOLEAN
    BY <1>1, <1>9 DEF TerminateTimesOut
  <2>2. ProcessTypeOK'
    BY <1>1, <1>9, <2>1 DEF TerminateTimesOut, ProcessTypeOK
  <2> QED BY <1>9, <2>2, UntoldInv DEF TerminateTimesOut
<1>10. CASE KillTimesOut
  <2>1. killed' \in BOOLEAN /\ late' \in BOOLEAN /\ late'
    BY <1>1, <1>10 DEF KillTimesOut
  <2>2. ProcessTypeOK'
    BY <1>1, <1>10, <2>1 DEF KillTimesOut, ProcessTypeOK
  <2> QED BY <1>10, <2>1, <2>2, UntoldInv DEF KillTimesOut
<1>11. CASE Deleted
  <2>1. killed' \in BOOLEAN /\ late' \in BOOLEAN
    BY <1>1, <1>11 DEF Deleted
  <2>2. ProcessTypeOK'
    BY <1>1, <1>11, <2>1 DEF Deleted, ProcessTypeOK
  <2> QED BY <1>11, <2>2, UntoldInv DEF Deleted
<1>12. CASE UNCHANGED processVars
  BY <1>12 DEF processVars, ProcessInv, ProcessTypeOK, ChildKnown, EndSeen
<1> QED BY <1>3, <1>4, <1>5, <1>6, <1>7, <1>8, <1>9, <1>10, <1>11, <1>12 DEF ProcessNext

\* A script that saw its child start sees it end before the worker is gone, and
\* never two starts in a row, however often the child is started, killed and
\* started again (process.cpp, Destroy()).
THEOREM ProcessEndSeen == ProcessSpec => []EndSeen
<1>1. ProcessInv => EndSeen
  BY DEF ProcessInv
<1> QED BY <1>1, ProcessInitInv, ProcessNextInv, PTL DEF ProcessSpec


-----------------------------------------------------------------------------
(* Tags: names.                                                            *)

Chars == STRING \cup {":"}

\* The characters of a tag's name: those of its worker, ':', the field.
LEMMA NameShape ==
  ASSUME NEW n \in Names, NEW f \in Fields
  PROVE  /\ n \in Seq(Chars) /\ Len(n) \in Nat
         /\ n \o <<":">> \in Seq(Chars) /\ Len(n \o <<":">>) = Len(n) + 1
         /\ (n \o <<":">>)[Len(n) + 1] = ":"
         /\ TagName(n, f) \in Seq(Chars) /\ Len(TagName(n, f)) = Len(n) + 2
         /\ TagName(n, f)[Len(n) + 1] = ":"
         /\ \A i \in 1..Len(n) : /\ n[i] # ":" /\ n[i] \in Chars
                                 /\ (n \o <<":">>)[i] = n[i] /\ TagName(n, f)[i] = n[i]
<1>1. n \in Seq(Chars) /\ f \in Chars /\ \A i \in 1..Len(n) : n[i] # ":"
  BY TagsAssumption DEF Chars
<1>2. <<":">> \in Seq(Chars) /\ <<":", f>> \in Seq(Chars)
  <2>1. ":" \in Chars
    BY DEF Chars
  <2> QED BY <1>1, <2>1
<1>3. /\ n \o <<":">> \in Seq(Chars) /\ Len(n \o <<":">>) = Len(n) + 1
      /\ \A i \in 1..(Len(n) + 1) : (n \o <<":">>)[i] =
           IF i <= Len(n) THEN n[i] ELSE <<":">>[i - Len(n)]
  BY <1>1, <1>2, ConcatProperties
<1>4. /\ TagName(n, f) \in Seq(Chars) /\ Len(TagName(n, f)) = Len(n) + 2
      /\ \A i \in 1..(Len(n) + 2) : TagName(n, f)[i] =
           IF i <= Len(n) THEN n[i] ELSE <<":", f>>[i - Len(n)]
  BY <1>1, <1>2, ConcatProperties DEF TagName
<1>5. Len(n) \in Nat /\ \A i \in 1..Len(n) : n[i] \in Chars
  BY <1>1
<1>6. /\ (n \o <<":">>)[Len(n) + 1] = ":" /\ TagName(n, f)[Len(n) + 1] = ":"
  BY <1>3, <1>4, <1>5
<1>7. \A i \in 1..Len(n) : (n \o <<":">>)[i] = n[i] /\ TagName(n, f)[i] = n[i]
  BY <1>3, <1>4, <1>5
<1> QED BY <1>1, <1>3, <1>4, <1>5, <1>6, <1>7

\* startsWith() on characters.
LEMMA PrefixShape ==
  ASSUME NEW p \in Seq(Chars), NEW t \in Seq(Chars)
  PROVE  IsPrefix(p, t) <=> Len(p) <= Len(t) /\ \A i \in 1..Len(p) : p[i] = t[i]
<1> DEFINE L == Len(p)
<1>1. L \in Nat /\ Len(t) \in Nat /\ \A i \in 1..L : p[i] \in Chars
  OBVIOUS
<1>2. ASSUME L <= Len(t)
      PROVE  SubSeq(p, 1, L) = SubSeq(t, 1, L) <=> \A i \in 1..L : p[i] = t[i]
  <2>1. \A i \in 1..L : t[i] \in Chars
    BY <1>1, <1>2
  <2> HIDE DEF L
  <2>2. /\ SubSeq(p, 1, L) \in Seq(Chars)
        /\ Len(SubSeq(p, 1, L)) = IF 1 <= L THEN L - 1 + 1 ELSE 0
        /\ \A i \in 1..(L - 1 + 1) : SubSeq(p, 1, L)[i] = p[1 + i - 1]
    BY <1>1, SubSeqProperties
  <2>3. /\ SubSeq(t, 1, L) \in Seq(Chars)
        /\ Len(SubSeq(t, 1, L)) = IF 1 <= L THEN L - 1 + 1 ELSE 0
        /\ \A i \in 1..(L - 1 + 1) : SubSeq(t, 1, L)[i] = t[1 + i - 1]
    BY <1>1, <2>1, SubSeqProperties
  <2>4. /\ Len(SubSeq(p, 1, L)) = L /\ Len(SubSeq(t, 1, L)) = L
        /\ \A i \in 1..L : SubSeq(p, 1, L)[i] = p[i] /\ SubSeq(t, 1, L)[i] = t[i]
    BY <1>1, <2>2, <2>3
  <2>5. ASSUME \A i \in 1..L : p[i] = t[i] PROVE SubSeq(p, 1, L) = SubSeq(t, 1, L)
    <3>1. \A i \in 1..L : SubSeq(p, 1, L)[i] = SubSeq(t, 1, L)[i]
      BY <2>4, <2>5
    <3> QED BY <2>2, <2>3, <2>4, <3>1, SeqEqual
  <2>6. ASSUME SubSeq(p, 1, L) = SubSeq(t, 1, L), NEW i \in 1..L PROVE p[i] = t[i]
    BY <2>4, <2>6
  <2> QED BY <2>5, <2>6
<1> QED BY <1>1, <1>2 DEF IsPrefix

\* "m:" is no beginning of a tag of "m2", nor "m2:" of one of "m": a worker
\* covers its own tags and no others, since no name has a ':' in it.
LEMMA CoversOwn ==
  ASSUME NEW n \in Names, NEW m \in Names, NEW f \in Fields
  PROVE  Covers(n, TagName(m, f)) <=> n = m
<1> DEFINE p == n \o <<":">>
           t == TagName(m, f)
<1>1. /\ n \in Seq(Chars) /\ Len(n) \in Nat
      /\ p \in Seq(Chars) /\ Len(p) = Len(n) + 1 /\ p[Len(n) + 1] = ":"
      /\ \A i \in 1..Len(n) : n[i] # ":" /\ p[i] = n[i]
  BY NameShape
<1>2. /\ m \in Seq(Chars) /\ Len(m) \in Nat
      /\ t \in Seq(Chars) /\ Len(t) = Len(m) + 2 /\ t[Len(m) + 1] = ":"
      /\ \A i \in 1..Len(m) : m[i] # ":" /\ t[i] = m[i]
  BY NameShape
<1>3. Covers(n, t) <=> IsPrefix(p, t)
  BY DEF Covers
<1> HIDE DEF p, t
<1>4. IsPrefix(p, t) <=> Len(p) <= Len(t) /\ \A i \in 1..Len(p) : p[i] = t[i]
  BY <1>1, <1>2, PrefixShape
<1>5. ASSUME n = m PROVE IsPrefix(p, t)
  <2>1. Len(p) <= Len(t)
    BY <1>1, <1>2, <1>5
  <2>2. \A i \in 1..Len(p) : i \in 1..Len(n) \/ i = Len(n) + 1
    BY <1>1
  <2>3. \A i \in 1..Len(p) : p[i] = t[i]
    BY <1>1, <1>2, <1>5, <2>2
  <2> QED BY <1>4, <2>1, <2>3
<1>6. ASSUME IsPrefix(p, t) PROVE n = m
  <2>1. /\ Len(n) <= Len(m) + 1
        /\ \A i \in 1..(Len(n) + 1) : p[i] = t[i]
    BY <1>1, <1>2, <1>4, <1>6
  <2>2. ~(Len(n) < Len(m))
    <3>1. SUFFICES ASSUME Len(n) < Len(m) PROVE FALSE
      OBVIOUS
    <3>2. Len(n) + 1 \in 1..Len(m) /\ Len(n) + 1 \in 1..(Len(n) + 1)
      BY <1>1, <1>2, <3>1
    <3> QED BY <1>1, <1>2, <2>1, <3>2
  <2>3. ~(Len(n) = Len(m) + 1)
    <3>1. SUFFICES ASSUME Len(n) = Len(m) + 1 PROVE FALSE
      OBVIOUS
    <3>2. Len(m) + 1 \in 1..Len(n) /\ Len(m) + 1 \in 1..(Len(n) + 1)
      BY <1>1, <1>2, <3>1
    <3> QED BY <1>1, <1>2, <2>1, <3>2
  <2>4. Len(n) = Len(m)
    BY <1>1, <1>2, <2>1, <2>2, <2>3
  <2>5. \A i \in 1..Len(n) : i \in 1..(Len(n) + 1) /\ i \in 1..Len(m)
    BY <1>1, <2>4
  <2>6. \A i \in 1..Len(n) : n[i] = m[i]
    BY <1>1, <1>2, <2>1, <2>5
  <2> QED BY <1>1, <1>2, <2>4, <2>6, SeqEqual
<1> QED BY <1>3, <1>5, <1>6 DEF t

\* The tags startsWith() finds for a worker are the worker's.
LEMMA CoversMeansOf ==
  ASSUME NEW n \in Names, NEW t \in AllTags
  PROVE  Covers(n, t) <=> t \in TagsOf(n, Fields)
<1>1. PICK m \in Names, f \in Fields : t = TagName(m, f)
  BY DEF AllTags, TagsOf
<1>2. ASSUME t \in TagsOf(n, Fields) PROVE n = m
  <2>1. PICK g \in Fields : t = TagName(n, g)
    BY <1>2 DEF TagsOf
  <2>2. Covers(m, TagName(m, f))
    BY CoversOwn
  <2>3. Covers(m, TagName(n, g))
    BY <1>1, <2>1, <2>2
  <2> QED BY <2>3, CoversOwn
<1>3. n = m => t \in TagsOf(n, Fields)
  BY <1>1 DEF TagsOf
<1> QED BY <1>1, <1>2, <1>3, CoversOwn

\* A name is not empty, and a worker's tags are tags.
LEMMA TagsOfNames ==
  ASSUME NEW n \in Names, NEW fields \in SUBSET Fields
  PROVE  /\ n # NoSource
         /\ TagsOf(n, fields) \subseteq TagsOf(n, Fields)
         /\ TagsOf(n, fields) \subseteq AllTags
BY TagsAssumption DEF TagsOf, AllTags, NoSource


-----------------------------------------------------------------------------
(* Tags: the registry.                                                     *)

TagRecord == [quality : {"comm_fail", "good"}, source : Names \cup {NoSource}]
LoopRecord == [job : {"message", "quality", "notify"}, worker : Names,
               quality : {"comm_fail", "good"}, todo : SUBSET AllTags]

\* What TagsTypeOK says, and of what.
LEMMA TagsTypes ==
  TagsTypeOK <=>
    /\ DOMAIN tags \subseteq AllTags /\ tags \in [DOMAIN tags -> TagRecord]
    /\ alive \subseteq Names /\ loops \in Seq(LoopRecord)
    /\ calls \in Nat /\ lost \subseteq DOMAIN tags
BY DEF TagsTypeOK, TagRecord, LoopRecord

\* A loop's fields.
LEMMA LoopShape ==
  ASSUME NEW j \in {"message", "quality", "notify"}, NEW n \in Names,
         NEW q \in {"comm_fail", "good"}, NEW d \in SUBSET AllTags
  PROVE  /\ Loop(j, n, q, d) \in LoopRecord
         /\ Loop(j, n, q, d).job = j /\ Loop(j, n, q, d).worker = n
         /\ Loop(j, n, q, d).quality = q /\ Loop(j, n, q, d).todo = d
BY DEF Loop, LoopRecord

\* The stack without its innermost loop.
LEMMA FrontOfLoops ==
  ASSUME NEW s \in Seq(LoopRecord), s # <<>>
  PROVE  /\ Front(s) \in Seq(LoopRecord) /\ Len(s) \in Nat \ {0}
         /\ Len(Front(s)) = Len(s) - 1 /\ Last(s) = s[Len(s)] /\ Last(s) \in LoopRecord
         /\ \A i \in 1..(Len(s) - 1) : Front(s)[i] = s[i]
<1> DEFINE n == Len(s) - 1
<1>1. n \in Nat /\ Len(s) \in Nat \ {0} /\ \A i \in 1..n : s[i] \in LoopRecord
  OBVIOUS
<1>2. Last(s) = s[Len(s)] /\ Last(s) \in LoopRecord
  BY <1>1 DEF Last
<1> HIDE DEF n
<1>3. /\ SubSeq(s, 1, n) \in Seq(LoopRecord)
      /\ Len(SubSeq(s, 1, n)) = IF 1 <= n THEN n - 1 + 1 ELSE 0
      /\ \A i \in 1..(n - 1 + 1) : SubSeq(s, 1, n)[i] = s[1 + i - 1]
  BY <1>1, SubSeqProperties
<1>4. /\ SubSeq(s, 1, n) \in Seq(LoopRecord) /\ Len(SubSeq(s, 1, n)) = n
      /\ \A i \in 1..n : SubSeq(s, 1, n)[i] = s[i]
  BY <1>1, <1>3
<1> QED BY <1>1, <1>2, <1>4 DEF n, Front

\* A loop on top of the others.
LEMMA Pushed ==
  ASSUME NEW s \in Seq(LoopRecord), NEW r \in LoopRecord
  PROVE  /\ Append(s, r) \in Seq(LoopRecord) /\ Len(s) \in Nat
         /\ Len(Append(s, r)) = Len(s) + 1 /\ Append(s, r)[Len(s) + 1] = r
         /\ \A i \in 1..Len(s) : Append(s, r)[i] = s[i]
OBVIOUS

\* The innermost loop one tag further on: nothing else on the stack changes.
LEMMA RestShape ==
  ASSUME loops \in Seq(LoopRecord), loops # <<>>, NEW t
  PROVE  /\ Len(loops) \in Nat \ {0}
         /\ Last(loops) = loops[Len(loops)] /\ Last(loops) \in LoopRecord
         /\ Rest(t) \in Seq(LoopRecord) /\ Len(Rest(t)) = Len(loops)
         /\ Rest(t)[Len(loops)].job = Last(loops).job
         /\ Rest(t)[Len(loops)].worker = Last(loops).worker
         /\ Rest(t)[Len(loops)].quality = Last(loops).quality
         /\ Rest(t)[Len(loops)].todo = Last(loops).todo \ {t}
         /\ \A i \in 1..(Len(loops) - 1) : Rest(t)[i] = loops[i]
<1> DEFINE top == Last(loops)
           r == Loop(top.job, top.worker, top.quality, top.todo \ {t})
<1>1. /\ Front(loops) \in Seq(LoopRecord) /\ Len(loops) \in Nat \ {0}
      /\ Len(Front(loops)) = Len(loops) - 1 /\ top = loops[Len(loops)] /\ top \in LoopRecord
      /\ \A i \in 1..(Len(loops) - 1) : Front(loops)[i] = loops[i]
  BY FrontOfLoops
<1>2. /\ top.job \in {"message", "quality", "notify"} /\ top.worker \in Names
      /\ top.quality \in {"comm_fail", "good"} /\ top.todo \ {t} \in SUBSET AllTags
  BY <1>1 DEF LoopRecord
<1>3. /\ r \in LoopRecord /\ r.job = top.job /\ r.worker = top.worker
      /\ r.quality = top.quality /\ r.todo = top.todo \ {t}
  BY <1>2, LoopShape
<1>4. Rest(t) = Append(Front(loops), r)
  BY DEF Rest
<1> HIDE DEF r, top
<1>5. /\ Rest(t) \in Seq(LoopRecord)
      /\ Len(Rest(t)) = Len(Front(loops)) + 1 /\ Rest(t)[Len(Front(loops)) + 1] = r
      /\ \A i \in 1..Len(Front(loops)) : Rest(t)[i] = Front(loops)[i]
  BY <1>1, <1>3, <1>4, Pushed
<1>6. Len(Rest(t)) = Len(loops) /\ Rest(t)[Len(loops)] = r
  BY <1>1, <1>5
<1>7. \A i \in 1..(Len(loops) - 1) : Rest(t)[i] = loops[i]
  BY <1>1, <1>5
<1> QED BY <1>1, <1>3, <1>5, <1>6, <1>7 DEF top

\* A listener is called: its notification is on top, below it the loop that found
\* the tag.
LEMMA NotifyShape ==
  ASSUME loops \in Seq(LoopRecord), loops # <<>>, NEW t, NotifyTag(t)
  PROVE  /\ loops' \in Seq(LoopRecord) /\ Len(loops') = Len(loops) + 1
         /\ loops'[Len(loops) + 1].job = "notify"
         /\ \A i \in 1..Len(loops) : loops'[i] = Rest(t)[i]
<1> DEFINE r == Loop("notify", Last(loops).worker, "good", {})
<1>1. /\ Last(loops) \in LoopRecord /\ Len(loops) \in Nat \ {0}
      /\ Rest(t) \in Seq(LoopRecord) /\ Len(Rest(t)) = Len(loops)
  BY RestShape
<1>2. Last(loops).worker \in Names
  BY <1>1 DEF LoopRecord
<1>3. r \in LoopRecord /\ r.job = "notify"
  BY <1>2, LoopShape
<1>4. loops' = Append(Rest(t), r)
  BY DEF NotifyTag
<1> HIDE DEF r
<1> QED BY <1>1, <1>3, <1>4, Pushed


\* A tag is inserted or replaced.
LEMMA WithTagShape ==
  ASSUME TagsTypeOK, NEW t \in AllTags, NEW r \in TagRecord, tags' = WithTag(t, r)
  PROVE  /\ DOMAIN tags' = DOMAIN tags \cup {t} /\ DOMAIN tags' \subseteq AllTags
         /\ tags' \in [DOMAIN tags' -> TagRecord]
         /\ tags'[t] = r /\ \A u \in DOMAIN tags \ {t} : tags'[u] = tags[u]
BY TagsTypes DEF WithTag

\* No loop, nothing to be shown; a loop more, and the others still come to it.
LEMMA EmptyShowsNone == \A t : ~ToBeShown(<<>>, t)
BY DEF ToBeShown

\* What a stack is about to show is shown by one that has the same loops, except
\* for a loop that is not about it.
LEMMA StackShows ==
  ASSUME NEW s \in Seq(LoopRecord), NEW z \in Seq(LoopRecord), NEW t, ToBeShown(s, t),
         \A i \in 1..Len(s) : Shows(s[i], t) => i <= Len(z) /\ Shows(z[i], t)
  PROVE  ToBeShown(z, t)
<1>1. PICK i \in 1..Len(s) : Shows(s[i], t) BY DEF ToBeShown
<1>2. i \in 1..Len(z) /\ Shows(z[i], t) BY <1>1
<1> QED BY <1>2 DEF ToBeShown

\* A step of a script that leaves the loops alone, makes workers at most, and
\* turns no lost tag good.
LEMMA SameLoops ==
  ASSUME TagsSound, TagsTypeOK', SourceOwnsTag', UNCHANGED <<loops, lost>>,
         \A n \in alive : n \in alive',
         \A t \in lost : tags[t].quality = "comm_fail" => tags'[t].quality = "comm_fail"
  PROVE  TagsSound'
<1>1. LoopsSound'
  BY DEF TagsSound, LoopsSound
<1>2. LossAnnounced'
  BY DEF TagsSound, LossAnnounced
<1>3. LostLinkShows'
  BY <1>2, EmptyShowsNone DEF LossAnnounced, LostLinkShows
<1> QED BY <1>1, <1>2, <1>3 DEF TagsSound

\* A step that leaves a loop on the stack, and every lost tag comm_fail or before
\* it a loop that will come to it.
LEMMA LossStays ==
  ASSUME LossAnnounced, loops' # <<>>,
         \A t \in lost' : t \in lost /\ tags'[t].quality = tags[t].quality,
         \A t \in lost' : ToBeShown(loops, t) => ToBeShown(loops', t)
  PROVE  LossAnnounced' /\ LostLinkShows'
<1>1. LossAnnounced'
  BY DEF LossAnnounced
<1>2. LostLinkShows'
  BY DEF LostLinkShows
<1> QED BY <1>1, <1>2

\* A worker is made: it gets the tags it covers, which are its own.
LEMMA CreateSound ==
  ASSUME TagsSound, NEW n \in Names, NEW fields \in SUBSET Fields, Create(n, fields)
  PROVE  TagsSound'
<1> DEFINE mine == TagsOf(n, fields)
           r == [quality |-> "comm_fail", source |-> n]
<1>1. /\ alive' = alive \cup {n} /\ UNCHANGED <<loops, lost>> /\ calls' = calls + 1
      /\ tags' = [t \in DOMAIN tags \cup mine |->
                    IF t \in mine THEN r
                    ELSE IF Covers(n, t) /\ tags[t].source = NoSource
                           THEN [quality |-> tags[t].quality, source |-> n]
                    ELSE tags[t]]
  BY DEF Create, Counted
<1>2. /\ DOMAIN tags \subseteq AllTags /\ tags \in [DOMAIN tags -> TagRecord]
      /\ alive \subseteq Names /\ loops \in Seq(LoopRecord)
      /\ calls \in Nat /\ lost \subseteq DOMAIN tags
  BY TagsTypes DEF TagsSound
<1>3. n # NoSource /\ mine \subseteq TagsOf(n, Fields) /\ mine \subseteq AllTags
  BY TagsOfNames
<1>4. r \in TagRecord /\ r.quality = "comm_fail" /\ r.source = n
  BY DEF TagRecord
<1> HIDE DEF mine, r
<1>5. DOMAIN tags' = DOMAIN tags \cup mine
  BY <1>1
<1>6. ASSUME NEW t \in DOMAIN tags'
      PROVE  /\ tags'[t] \in TagRecord
             /\ tags'[t].source = n \/ (t \in DOMAIN tags /\ tags'[t].source = tags[t].source)
             /\ tags'[t].source = n => t \in TagsOf(n, Fields)
                                       \/ (t \in DOMAIN tags /\ tags[t].source = n)
             /\ tags'[t].quality = "comm_fail"
                \/ (t \in DOMAIN tags /\ tags'[t].quality = tags[t].quality)
  <2>1. CASE t \in mine
    BY <1>1, <1>3, <1>4, <1>5, <2>1
  <2>2. CASE t \notin mine /\ Covers(n, t) /\ tags[t].source = NoSource
    <3>1. t \in DOMAIN tags /\ t \in AllTags /\ tags[t] \in TagRecord
      BY <1>2, <1>5, <2>2
    <3>2. tags'[t] = [quality |-> tags[t].quality, source |-> n]
      BY <1>1, <1>5, <2>2, <3>1
    <3>3. t \in TagsOf(n, Fields)
      BY <2>2, <3>1, CoversMeansOf
    <3> QED BY <3>1, <3>2, <3>3 DEF TagRecord
  <2>3. CASE t \notin mine /\ ~(Covers(n, t) /\ tags[t].source = NoSource)
    <3>1. t \in DOMAIN tags /\ tags[t] \in TagRecord
      BY <1>2, <1>5, <2>3
    <3>2. tags'[t] = tags[t]
      BY <1>1, <1>5, <2>3, <3>1
    <3> QED BY <3>1, <3>2
  <2> QED BY <2>1, <2>2, <2>3
<1>7. tags' \in [DOMAIN tags' -> TagRecord]
  <2>1. tags' = [t \in DOMAIN tags' |-> tags'[t]]
    BY <1>1
  <2> QED BY <1>6, <2>1
<1>8. DOMAIN tags' \subseteq AllTags /\ lost' \subseteq DOMAIN tags'
  BY <1>1, <1>2, <1>3, <1>5
<1>9. alive' \subseteq Names /\ calls' \in Nat /\ loops' \in Seq(LoopRecord)
  BY <1>1, <1>2
<1>10. TagsTypeOK'
  BY <1>7, <1>8, <1>9 DEF TagsTypeOK, TagRecord, LoopRecord
<1>11. ASSUME NEW t \in DOMAIN tags', tags'[t].source # NoSource
       PROVE  tags'[t].source \in alive' /\ t \in TagsOf(tags'[t].source, Fields)
  <2>1. ASSUME t \in DOMAIN tags, tags[t].source # NoSource
        PROVE  tags[t].source \in alive /\ t \in TagsOf(tags[t].source, Fields)
    BY <2>1 DEF TagsSound, SourceOwnsTag
  <2>2. CASE tags'[t].source = n
    <3>1. t \in TagsOf(n, Fields)
      BY <1>3, <1>6, <2>1, <2>2
    <3> QED BY <1>1, <2>2, <3>1
  <2>3. CASE tags'[t].source # n
    <3>1. t \in DOMAIN tags /\ tags'[t].source = tags[t].source
      BY <1>6, <2>3
    <3> QED BY <1>1, <1>11, <2>1, <3>1
  <2> QED BY <2>2, <2>3
<1>12. SourceOwnsTag'
  BY <1>11 DEF SourceOwnsTag
<1>13. \A t \in lost : tags[t].quality = "comm_fail" => tags'[t].quality = "comm_fail"
  BY <1>2, <1>5, <1>6
<1>14. \A k \in alive : k \in alive'
  BY <1>1
<1> QED BY <1>1, <1>10, <1>12, <1>13, <1>14, SameLoops

\* A worker is deleted: its tags keep their quality and have no source.
LEMMA DeleteSound ==
  ASSUME TagsSound, NEW n \in Names, Delete(n)
  PROVE  TagsSound'
<1>1. /\ loops = <<>> /\ calls' = calls + 1 /\ alive' = alive \ {n} /\ UNCHANGED <<loops, lost>>
      /\ tags' = [t \in DOMAIN tags |->
                    IF tags[t].source = n THEN [quality |-> tags[t].quality, source |-> NoSource]
                                          ELSE tags[t]]
  BY DEF Delete, Counted
<1>2. /\ DOMAIN tags \subseteq AllTags /\ tags \in [DOMAIN tags -> TagRecord]
      /\ alive \subseteq Names /\ loops \in Seq(LoopRecord)
      /\ calls \in Nat /\ lost \subseteq DOMAIN tags
  BY TagsTypes DEF TagsSound
<1>3. DOMAIN tags' = DOMAIN tags
  BY <1>1
<1>4. ASSUME NEW t \in DOMAIN tags
      PROVE  /\ tags'[t] \in TagRecord /\ tags'[t].quality = tags[t].quality
             /\ tags'[t].source # NoSource => tags'[t].source = tags[t].source
                                              /\ tags[t].source # n
  <2>1. tags[t] \in TagRecord
    BY <1>2
  <2>2. CASE tags[t].source = n
    <3>1. tags'[t] = [quality |-> tags[t].quality, source |-> NoSource]
      BY <1>1, <2>2
    <3> QED BY <2>1, <3>1 DEF TagRecord
  <2>3. CASE tags[t].source # n
    <3>1. tags'[t] = tags[t]
      BY <1>1, <2>3
    <3> QED BY <2>1, <2>3, <3>1
  <2> QED BY <2>2, <2>3
<1>5. tags' \in [DOMAIN tags' -> TagRecord]
  <2>1. tags' = [t \in DOMAIN tags' |-> tags'[t]]
    BY <1>1
  <2> QED BY <1>3, <1>4, <2>1
<1>6. TagsTypeOK'
  <2>1. alive' \subseteq Names /\ calls' \in Nat /\ loops' \in Seq(LoopRecord)
    BY <1>1, <1>2
  <2>2. DOMAIN tags' \subseteq AllTags /\ lost' \subseteq DOMAIN tags'
    BY <1>1, <1>2, <1>3
  <2> QED BY <1>5, <2>1, <2>2 DEF TagsTypeOK, TagRecord, LoopRecord
<1>7. SourceOwnsTag'
  <2>1. \A t \in DOMAIN tags : tags[t].source # NoSource =>
          tags[t].source \in alive /\ t \in TagsOf(tags[t].source, Fields)
    BY DEF TagsSound, SourceOwnsTag
  <2>2. ASSUME NEW t \in DOMAIN tags, tags'[t].source # NoSource
        PROVE  tags'[t].source \in alive' /\ t \in TagsOf(tags'[t].source, Fields)
    <3>1. tags'[t].source = tags[t].source /\ tags[t].source # n
      BY <1>4, <2>2
    <3> QED BY <1>1, <2>1, <2>2, <3>1
  <2> QED BY <1>3, <2>2 DEF SourceOwnsTag
<1>8. LoopsSound'
  BY <1>1 DEF LoopsSound
<1>9. \A t \in lost : tags[t].quality = "comm_fail"
  BY <1>1 DEF TagsSound, LostLinkShows
<1>10. \A t \in lost' : tags'[t].quality = "comm_fail"
  BY <1>1, <1>2, <1>4, <1>9
<1>11. LossAnnounced' /\ LostLinkShows'
  BY <1>1, <1>10 DEF LossAnnounced, LostLinkShows
<1> QED BY <1>6, <1>7, <1>8, <1>11 DEF TagsSound

\* A tag is subscribed to ahead of its worker.
LEMMA SubscribeSound ==
  ASSUME TagsSound, NEW t \in AllTags, Subscribe(t)
  PROVE  TagsSound'
<1>1. /\ calls' = calls + 1 /\ t \notin DOMAIN tags /\ tags' = WithTag(t, NewTag)
      /\ UNCHANGED <<alive, loops, lost>>
  BY DEF Subscribe, Counted, Has
<1>2. /\ DOMAIN tags \subseteq AllTags /\ tags \in [DOMAIN tags -> TagRecord]
      /\ alive \subseteq Names /\ loops \in Seq(LoopRecord)
      /\ calls \in Nat /\ lost \subseteq DOMAIN tags
  BY TagsTypes DEF TagsSound
<1>3. NewTag \in TagRecord /\ NewTag.source = NoSource
  BY DEF NewTag, TagRecord
<1>4. /\ DOMAIN tags' = DOMAIN tags \cup {t} /\ DOMAIN tags' \subseteq AllTags
      /\ tags' \in [DOMAIN tags' -> TagRecord]
      /\ tags'[t] = NewTag /\ \A u \in DOMAIN tags \ {t} : tags'[u] = tags[u]
  BY <1>1, <1>3, WithTagShape DEF TagsSound
<1>5. TagsTypeOK'
  BY <1>1, <1>2, <1>4 DEF TagsTypeOK, TagRecord, LoopRecord
<1>6. SourceOwnsTag'
  BY <1>1, <1>3, <1>4 DEF TagsSound, SourceOwnsTag
<1>7. \A u \in lost : tags[u].quality = "comm_fail" => tags'[u].quality = "comm_fail"
  BY <1>1, <1>2, <1>4
<1>8. \A k \in alive : k \in alive'
  BY <1>1
<1> QED BY <1>1, <1>5, <1>6, <1>7, <1>8, SameLoops


\* A message of a worker that exists, about its own tags.
LEMMA OnWorkerMsgSound ==
  ASSUME TagsSound, NEW n \in Names, NEW fields \in SUBSET Fields, OnWorkerMsg(n, fields)
  PROVE  TagsSound'
<1> DEFINE r == Loop("message", n, "good", TagsOf(n, fields))
<1>1. /\ loops' = Append(loops, r) /\ n \in alive /\ calls' = calls + 1
      /\ UNCHANGED <<tags, alive, lost>>
  BY DEF OnWorkerMsg, Counted
<1>2. /\ DOMAIN tags \subseteq AllTags /\ tags \in [DOMAIN tags -> TagRecord]
      /\ alive \subseteq Names /\ loops \in Seq(LoopRecord)
      /\ calls \in Nat /\ lost \subseteq DOMAIN tags
  BY TagsTypes DEF TagsSound
<1>3. TagsOf(n, fields) \subseteq TagsOf(n, Fields) /\ TagsOf(n, fields) \subseteq AllTags
  BY TagsOfNames
<1>4. r \in LoopRecord /\ r.job = "message" /\ r.worker = n /\ r.todo = TagsOf(n, fields)
  BY <1>3, LoopShape
<1> HIDE DEF r
<1>5. /\ loops' \in Seq(LoopRecord) /\ Len(loops) \in Nat
      /\ Len(loops') = Len(loops) + 1 /\ loops'[Len(loops) + 1] = r
      /\ \A i \in 1..Len(loops) : loops'[i] = loops[i]
  BY <1>1, <1>2, <1>4, Pushed
<1>6. TagsTypeOK'
  BY <1>1, <1>2, <1>5 DEF TagsTypeOK, TagRecord, LoopRecord
<1>7. SourceOwnsTag'
  BY <1>1 DEF TagsSound, SourceOwnsTag
<1>8. \A i \in 1..Len(loops') : i \in 1..Len(loops) \/ i = Len(loops) + 1
  BY <1>5
<1>10. LoopsSound'
  BY <1>1, <1>3, <1>4, <1>5, <1>8 DEF TagsSound, LoopsSound
<1>11. loops' # <<>>
  BY <1>1, <1>5
<1>12. ASSUME NEW t, ToBeShown(loops, t) PROVE ToBeShown(loops', t)
  <2>1. \A i \in 1..Len(loops) : i <= Len(loops') /\ loops'[i] = loops[i]
    BY <1>5
  <2> QED BY <1>2, <1>5, <1>12, <2>1, StackShows
<1>13. LossAnnounced' /\ LostLinkShows'
  <2>1. \A t \in lost' : t \in lost /\ tags'[t].quality = tags[t].quality
    BY <1>1
  <2> QED BY <1>11, <1>12, <2>1, LossStays DEF TagsSound
<1> QED BY <1>6, <1>7, <1>10, <1>13 DEF TagsSound

\* A tag of the message is updated and told: it is the sender's, good, and no
\* longer lost.
LEMMA UpdateTagSound ==
  ASSUME TagsSound, NEW t \in AllTags, UpdateTag(t)
  PROVE  TagsSound'
<1> DEFINE L == Len(loops)
           w == Last(loops).worker
           r == [quality |-> "good",
                 source |-> IF Tag(t).source = NoSource THEN w ELSE Tag(t).source]
<1>1. /\ loops # <<>> /\ Last(loops).job = "message" /\ t \in Last(loops).todo
      /\ tags' = WithTag(t, r) /\ lost' = lost \ {t} /\ NotifyTag(t)
      /\ UNCHANGED <<alive, calls>>
  BY DEF UpdateTag
<1>2. /\ DOMAIN tags \subseteq AllTags /\ tags \in [DOMAIN tags -> TagRecord]
      /\ alive \subseteq Names /\ loops \in Seq(LoopRecord)
      /\ calls \in Nat /\ lost \subseteq DOMAIN tags
  BY TagsTypes DEF TagsSound
<1>3. /\ L \in Nat \ {0} /\ Last(loops) = loops[L] /\ Last(loops) \in LoopRecord
      /\ Len(Rest(t)) = L
      /\ Rest(t)[L].job = "message" /\ Rest(t)[L].worker = w
      /\ Rest(t)[L].todo = Last(loops).todo \ {t}
      /\ \A i \in 1..(L - 1) : Rest(t)[i] = loops[i]
  BY <1>1, <1>2, RestShape
<1>4. /\ loops' \in Seq(LoopRecord) /\ Len(loops') = L + 1
      /\ loops'[L + 1].job = "notify"
      /\ \A i \in 1..L : loops'[i] = Rest(t)[i]
  BY <1>1, <1>2, NotifyShape
<1>5. w \in alive /\ Last(loops).todo \subseteq TagsOf(w, Fields) /\ w \in Names
  BY <1>1, <1>2, <1>3 DEF TagsSound, LoopsSound
<1>6. r.source # NoSource => r.source \in alive /\ t \in TagsOf(r.source, Fields)
  <2>1. CASE Tag(t).source = NoSource
    BY <1>1, <1>5, <2>1
  <2>2. CASE Tag(t).source # NoSource
    <3>1. Has(t) /\ Tag(t) = tags[t]
      BY <2>2 DEF Tag, NewTag
    <3> QED BY <2>2, <3>1 DEF TagsSound, SourceOwnsTag, Has
  <2> QED BY <2>1, <2>2
<1>7. r \in TagRecord
  BY <1>2, <1>6 DEF TagRecord
<1> HIDE DEF r, w, L
<1>8. /\ DOMAIN tags' = DOMAIN tags \cup {t} /\ DOMAIN tags' \subseteq AllTags
      /\ tags' \in [DOMAIN tags' -> TagRecord]
      /\ tags'[t] = r /\ \A u \in DOMAIN tags \ {t} : tags'[u] = tags[u]
  BY <1>1, <1>7, WithTagShape DEF TagsSound
<1>9. TagsTypeOK'
  BY <1>1, <1>2, <1>4, <1>8 DEF TagsTypeOK, TagRecord, LoopRecord
<1>10. SourceOwnsTag'
  BY <1>1, <1>6, <1>8 DEF TagsSound, SourceOwnsTag
<1>11. ASSUME NEW i \in 1..(L + 1), loops'[i].job = "message"
       PROVE  loops'[i].worker \in alive /\ loops'[i].todo \subseteq TagsOf(loops'[i].worker, Fields)
  <2>1. CASE i \in 1..(L - 1)
    <3>1. loops'[i] = loops[i] /\ i \in 1..L
      BY <1>3, <1>4, <2>1
    <3> QED BY <1>11, <3>1 DEF TagsSound, LoopsSound, L
  <2>2. CASE i = L
    BY <1>3, <1>4, <1>5, <2>2
  <2>3. CASE i = L + 1
    BY <1>4, <1>11, <2>3
  <2> QED BY <1>3, <2>1, <2>2, <2>3
<1>13. LoopsSound'
  BY <1>1, <1>4, <1>11 DEF LoopsSound
<1>14. loops' # <<>>
  BY <1>3, <1>4
<1>15. ASSUME NEW u, ToBeShown(loops, u) PROVE ToBeShown(loops', u)
  <2>1. ASSUME NEW i \in 1..Len(loops), Shows(loops[i], u)
        PROVE  i <= Len(loops') /\ Shows(loops'[i], u)
    <3>1. i # L BY <1>1, <1>3, <2>1 DEF Shows
    <3>2. i \in 1..(L - 1) /\ i \in 1..L BY <1>3, <3>1 DEF L
    <3> QED BY <1>3, <1>4, <2>1, <3>2
  <2> QED BY <1>2, <1>4, <1>15, <2>1, StackShows
<1>16. LossAnnounced' /\ LostLinkShows'
  <2>1. \A u \in lost' : u \in lost /\ tags'[u].quality = tags[u].quality
    BY <1>1, <1>2, <1>8
  <2> QED BY <1>14, <1>15, <2>1, LossStays DEF TagsSound
<1> QED BY <1>9, <1>10, <1>13, <1>16 DEF TagsSound

\* A link event, wherever it comes from: what is lost now is what the loop it
\* starts will come to, and the loops below it will still come to the rest.
LEMMA OnWorkerEventSound ==
  ASSUME TagsSound, NEW n \in Names, NEW ev \in Events, OnWorkerEvent(n, ev)
  PROVE  TagsSound'
<1> DEFINE mine == TagsOf(n, Fields)
           r == Loop("quality", n, LinkOf(ev), AllTags)
<1>1. /\ calls' = calls + 1
      /\ loops' = IF LinkOf(ev) = "none" THEN loops ELSE Append(loops, r)
      /\ lost' = IF Lost(ev) THEN lost \cup (mine \cap DOMAIN tags)
                 ELSE IF Back(ev) THEN lost \ mine ELSE lost
      /\ UNCHANGED <<tags, alive>>
  BY DEF OnWorkerEvent, Counted
<1>2. /\ DOMAIN tags \subseteq AllTags /\ tags \in [DOMAIN tags -> TagRecord]
      /\ alive \subseteq Names /\ loops \in Seq(LoopRecord)
      /\ calls \in Nat /\ lost \subseteq DOMAIN tags
  BY TagsTypes DEF TagsSound
<1>4. SourceOwnsTag'
  BY <1>1 DEF TagsSound, SourceOwnsTag
<1>5. lost' \subseteq DOMAIN tags'
  BY <1>1, <1>2
<1>6. CASE LinkOf(ev) = "none"
  <2>1. ~Lost(ev) /\ ~Back(ev)
    BY <1>6 DEF LinkOf
  <2>2. UNCHANGED <<tags, alive, loops, lost>>
    BY <1>1, <1>6, <2>1
  <2>3. TagsTypeOK'
    BY <1>1, <1>2, <2>2 DEF TagsTypeOK, TagRecord, LoopRecord
  <2>4. \A k \in alive : k \in alive'
    BY <2>2
  <2>5. \A t \in lost : tags[t].quality = "comm_fail" => tags'[t].quality = "comm_fail"
    BY <2>2
  <2> QED BY <1>4, <2>2, <2>3, <2>4, <2>5, SameLoops
<1>7. CASE LinkOf(ev) # "none"
  <2>1. LinkOf(ev) \in {"comm_fail", "good"} /\ (Lost(ev) => LinkOf(ev) = "comm_fail")
    BY <1>7 DEF LinkOf
  <2>2. /\ r \in LoopRecord /\ r.job = "quality" /\ r.worker = n
        /\ r.quality = LinkOf(ev) /\ r.todo = AllTags
    BY <2>1, LoopShape
  <2>10. loops' = Append(loops, r) BY <1>1, <1>7
  <2> HIDE DEF r, mine
  <2>3. /\ loops' \in Seq(LoopRecord) /\ Len(loops) \in Nat
        /\ Len(loops') = Len(loops) + 1 /\ loops'[Len(loops) + 1] = r
        /\ \A i \in 1..Len(loops) : loops'[i] = loops[i]
    BY <1>2, <2>2, <2>10, Pushed
  <2>11. loops' # <<>> BY <2>3
  <2>4. TagsTypeOK'
    BY <1>1, <1>2, <1>5, <2>3 DEF TagsTypeOK, TagRecord, LoopRecord
  <2>5. LoopsSound'
    <3>1. \A i \in 1..Len(loops') : i \in 1..Len(loops) \/ i = Len(loops) + 1
      BY <2>3
    <3> QED BY <1>1, <2>2, <2>3, <3>1 DEF TagsSound, LoopsSound
  <2>6. ASSUME NEW t \in lost' PROVE tags'[t].quality = "comm_fail" \/ ToBeShown(loops', t)
    <3>1. CASE t \in lost
      <4>1. CASE tags[t].quality = "comm_fail"
        BY <1>1, <4>1
      <4>2. CASE ToBeShown(loops, t)
        <5>1. \A i \in 1..Len(loops) : i <= Len(loops') /\ loops'[i] = loops[i]
          BY <2>3
        <5> QED BY <1>2, <2>3, <4>2, <5>1, StackShows
      <4> QED BY <3>1, <4>1, <4>2 DEF TagsSound, LossAnnounced
    <3>2. CASE t \notin lost
      <4>1. Lost(ev) /\ t \in mine /\ t \in AllTags
        BY <1>1, <1>2, <2>6, <3>2
      <4>2. Shows(r, t)
        BY <2>1, <2>2, <4>1 DEF Shows, mine
      <4>3. Len(loops) + 1 \in 1..Len(loops')
        BY <2>3
      <4> QED BY <2>3, <4>2, <4>3 DEF ToBeShown
    <3> QED BY <3>1, <3>2
  <2>8. LossAnnounced'
    BY <2>6 DEF LossAnnounced
  <2>9. LostLinkShows'
    BY <2>11 DEF LostLinkShows
  <2> QED BY <1>4, <2>4, <2>5, <2>8, <2>9 DEF TagsSound
<1> QED BY <1>6, <1>7


\* setWorkerQuality() comes to a tag: it touches its own worker's tags only, passes
\* no lost one by when it announces a loss, and one it makes good is not lost.
LEMMA SetWorkerQualitySound ==
  ASSUME TagsSound, NEW t \in AllTags, SetWorkerQuality(t)
  PROVE  TagsSound'
<1> DEFINE L == Len(loops)
           top == Last(loops)
           r == [quality |-> top.quality, source |-> tags[t].source]
           skip == ~Covers(top.worker, t) \/ tags[t].quality = top.quality
<1>1. /\ loops # <<>> /\ top.job = "quality" /\ t \in top.todo /\ t \in DOMAIN tags
      /\ UNCHANGED <<alive, calls>>
      /\ IF skip THEN loops' = Rest(t) /\ UNCHANGED <<tags, lost>>
                 ELSE /\ tags' = WithTag(t, r) /\ NotifyTag(t)
                      /\ lost' = IF top.quality = "good" THEN lost \ {t} ELSE lost
  BY DEF SetWorkerQuality, Has
<1>2. /\ DOMAIN tags \subseteq AllTags /\ tags \in [DOMAIN tags -> TagRecord]
      /\ alive \subseteq Names /\ loops \in Seq(LoopRecord)
      /\ calls \in Nat /\ lost \subseteq DOMAIN tags
  BY TagsTypes DEF TagsSound
<1>3. /\ L \in Nat \ {0} /\ top = loops[L] /\ top \in LoopRecord
      /\ Rest(t) \in Seq(LoopRecord) /\ Len(Rest(t)) = L
      /\ Rest(t)[L].job = top.job /\ Rest(t)[L].worker = top.worker
      /\ Rest(t)[L].quality = top.quality
      /\ Rest(t)[L].todo = top.todo \ {t}
      /\ \A i \in 1..(L - 1) : Rest(t)[i] = loops[i]
  BY <1>1, <1>2, RestShape
<1>5. top.worker \in Names /\ top.quality \in {"comm_fail", "good"}
  BY <1>3 DEF LoopRecord
<1>6. /\ r \in TagRecord /\ r.quality = top.quality /\ r.source = tags[t].source
  BY <1>1, <1>2, <1>5 DEF TagRecord
<1>7. Covers(top.worker, t) <=> t \in TagsOf(top.worker, Fields)
  BY <1>5, CoversMeansOf
<1> HIDE DEF top, r
<1>8. /\ loops' \in Seq(LoopRecord) /\ Len(loops') \in {L, L + 1}
      /\ \A i \in 1..L : loops'[i] = Rest(t)[i]
      /\ Len(loops') = L + 1 => loops'[L + 1].job = "notify"
  <2>1. CASE skip
    BY <1>1, <1>3, <2>1
  <2>2. CASE ~skip
    <3>1. /\ loops' \in Seq(LoopRecord) /\ Len(loops') = L + 1
          /\ loops'[L + 1].job = "notify"
          /\ \A i \in 1..L : loops'[i] = Rest(t)[i]
      BY <1>1, <1>2, <2>2, NotifyShape
    <3> QED BY <3>1
  <2> QED BY <2>1, <2>2
<1> HIDE DEF L
<1>9. loops' # <<>> BY <1>3, <1>8
<1>10. /\ DOMAIN tags' = DOMAIN tags /\ tags' \in [DOMAIN tags' -> TagRecord]
       /\ \A u \in DOMAIN tags : tags'[u].source = tags[u].source
       /\ \A u \in DOMAIN tags \ {t} : tags'[u].quality = tags[u].quality
       /\ tags'[t].quality = IF skip THEN tags[t].quality ELSE top.quality
  <2>1. CASE skip
    BY <1>1, <1>2, <2>1
  <2>2. CASE ~skip
    <3>1. /\ DOMAIN tags' = DOMAIN tags \cup {t}
          /\ tags' \in [DOMAIN tags' -> TagRecord]
          /\ tags'[t] = r /\ \A u \in DOMAIN tags \ {t} : tags'[u] = tags[u]
      BY <1>1, <1>6, <2>2, WithTagShape DEF TagsSound
    <3> QED BY <1>1, <1>6, <2>2, <3>1
  <2> QED BY <2>1, <2>2
<1>17. lost' \subseteq lost
  BY <1>1
<1>11. TagsTypeOK'
  BY <1>1, <1>2, <1>8, <1>10, <1>17 DEF TagsTypeOK, TagRecord, LoopRecord
<1>12. SourceOwnsTag'
  BY <1>1, <1>10 DEF TagsSound, SourceOwnsTag
<1>13. LoopsSound'
  <2>1. ASSUME NEW i \in 1..Len(loops'), loops'[i].job = "message"
        PROVE  i \in 1..Len(loops) /\ loops'[i] = loops[i]
    <3>1. i # L + 1 BY <1>8, <2>1
    <3>2. i # L BY <1>1, <1>3, <1>8, <2>1
    <3>3. i \in 1..(L - 1) /\ i \in 1..L BY <1>3, <1>8, <3>1, <3>2
    <3> QED BY <1>3, <1>8, <3>3 DEF L
  <2> QED BY <1>1, <2>1 DEF TagsSound, LoopsSound
<1>14. ASSUME NEW u, u # t, ToBeShown(loops, u) PROVE ToBeShown(loops', u)
  <2>1. ASSUME NEW i \in 1..Len(loops), Shows(loops[i], u)
        PROVE  i <= Len(loops') /\ Shows(loops'[i], u)
    <3>1. CASE i = L
      <4>1. L \in 1..L /\ loops'[L] = Rest(t)[L] BY <1>3, <1>8
      <4> QED BY <1>3, <1>8, <1>14, <2>1, <3>1, <4>1 DEF Shows
    <3>2. CASE i # L
      <4>1. i \in 1..(L - 1) /\ i \in 1..L BY <1>3, <3>2 DEF L
      <4> QED BY <1>3, <1>8, <2>1, <4>1
    <3> QED BY <3>1, <3>2
  <2> QED BY <1>2, <1>8, <1>14, <2>1, StackShows
<1>15. ASSUME skip, tags[t].quality # "comm_fail", ToBeShown(loops, t) PROVE ToBeShown(loops', t)
  <2>1. ASSUME NEW i \in 1..Len(loops), Shows(loops[i], t)
        PROVE  i <= Len(loops') /\ Shows(loops'[i], t)
    <3>1. i # L BY <1>3, <1>7, <1>15, <2>1 DEF Shows
    <3>2. i \in 1..(L - 1) /\ i \in 1..L BY <1>3, <3>1 DEF L
    <3> QED BY <1>3, <1>8, <2>1, <3>2
  <2> QED BY <1>2, <1>8, <1>15, <2>1, StackShows
<1>16. ASSUME NEW u \in lost' PROVE tags'[u].quality = "comm_fail" \/ ToBeShown(loops', u)
  <2>1. u \in lost /\ u \in DOMAIN tags /\ (tags[u].quality = "comm_fail" \/ ToBeShown(loops, u))
    BY <1>2, <1>16, <1>17 DEF TagsSound, LossAnnounced
  <2>2. CASE u # t
    <3>1. tags'[u].quality = tags[u].quality
      BY <1>10, <2>1, <2>2
    <3> QED BY <1>14, <2>1, <2>2, <3>1
  <2>3. CASE u = t /\ skip
    BY <1>10, <1>15, <2>1, <2>3
  <2>4. CASE u = t /\ ~skip
    <3>1. top.quality = "comm_fail"
      BY <1>1, <1>5, <1>16, <2>4
    <3> QED BY <1>10, <2>4, <3>1
  <2> QED BY <2>2, <2>3, <2>4
<1>18. LossAnnounced'
  BY <1>16 DEF LossAnnounced
<1>19. LostLinkShows'
  BY <1>9 DEF LostLinkShows
<1> QED BY <1>11, <1>12, <1>13, <1>18, <1>19 DEF TagsSound

\* A loop that is through has left no tag of its worker behind.
LEMMA ReturnSound ==
  ASSUME TagsSound, Return
  PROVE  TagsSound'
<1> DEFINE L == Len(loops)
<1>1. /\ loops # <<>> /\ loops' = Front(loops) /\ UNCHANGED <<tags, alive, calls, lost>>
      /\ Last(loops).job = "quality" => Last(loops).todo \cap DOMAIN tags = {}
  BY DEF Return
<1>2. /\ DOMAIN tags \subseteq AllTags /\ tags \in [DOMAIN tags -> TagRecord]
      /\ alive \subseteq Names /\ loops \in Seq(LoopRecord)
      /\ calls \in Nat /\ lost \subseteq DOMAIN tags
  BY TagsTypes DEF TagsSound
<1>3. /\ loops' \in Seq(LoopRecord) /\ L \in Nat \ {0}
      /\ Len(loops') = L - 1 /\ Last(loops) = loops[L]
      /\ \A i \in 1..(L - 1) : loops'[i] = loops[i]
  BY <1>1, <1>2, FrontOfLoops
<1> HIDE DEF L
<1>4. TagsTypeOK'
  BY <1>1, <1>2, <1>3 DEF TagsTypeOK, TagRecord, LoopRecord
<1>5. SourceOwnsTag'
  BY <1>1 DEF TagsSound, SourceOwnsTag
<1>6. LoopsSound'
  <2>1. \A i \in 1..(L - 1) : i \in 1..L
    BY <1>3
  <2> QED BY <1>1, <1>3, <2>1 DEF TagsSound, LoopsSound, L
<1>7. ASSUME NEW t \in lost, ToBeShown(loops, t) PROVE ToBeShown(loops', t)
  <2>1. ASSUME NEW i \in 1..Len(loops), Shows(loops[i], t)
        PROVE  i <= Len(loops') /\ Shows(loops'[i], t)
    <3>1. i # L BY <1>1, <1>2, <1>3, <2>1 DEF Shows
    <3>2. i \in 1..(L - 1) BY <1>3, <3>1 DEF L
    <3> QED BY <1>3, <2>1, <3>2
  <2> QED BY <1>2, <1>3, <1>7, <2>1, StackShows
<1>8. LossAnnounced'
  BY <1>1, <1>7 DEF TagsSound, LossAnnounced
<1>9. LostLinkShows'
  BY <1>8, EmptyShowsNone DEF LossAnnounced, LostLinkShows
<1> QED BY <1>4, <1>5, <1>6, <1>8, <1>9 DEF TagsSound

\* No tags, no workers.
LEMMA TagsInitSound == TagsInit => TagsSound
<1> SUFFICES ASSUME TagsInit PROVE TagsSound
  OBVIOUS
<1>1. tags = <<>> /\ alive = {} /\ loops = <<>> /\ calls = 0 /\ lost = {}
  BY DEF TagsInit
<1>2. DOMAIN tags = {}
  BY <1>1
<1>3. tags \in [DOMAIN tags -> TagRecord]
  <2>1. tags = [t \in {} |-> 0]
    BY <1>1
  <2> QED BY <1>2, <2>1
<1>4. TagsTypeOK
  BY <1>1, <1>2, <1>3 DEF TagsTypeOK, TagRecord
<1>5. SourceOwnsTag /\ LostLinkShows /\ LoopsSound /\ LossAnnounced
  BY <1>1, <1>2 DEF SourceOwnsTag, LostLinkShows, LoopsSound, LossAnnounced
<1> QED BY <1>4, <1>5 DEF TagsSound

\* Every step of workers, scripts and loops keeps the registry sound.
LEMMA TagsNextSound == TagsSound /\ [TagsNext]_tagsVars => TagsSound'
<1> SUFFICES ASSUME TagsSound, [TagsNext]_tagsVars PROVE TagsSound'
  OBVIOUS
<1>1. CASE UNCHANGED tagsVars
  BY <1>1 DEF tagsVars, TagsSound, TagsTypeOK, SourceOwnsTag, LostLinkShows, LoopsSound,
              LossAnnounced
<1>2. ASSUME NEW n \in Names, NEW fields \in SUBSET Fields,
             Create(n, fields) \/ OnWorkerMsg(n, fields)
      PROVE  TagsSound'
  BY <1>2, CreateSound, OnWorkerMsgSound
<1>3. ASSUME NEW n \in Names, Delete(n) \/ \E ev \in Events : OnWorkerEvent(n, ev)
      PROVE  TagsSound'
  BY <1>3, DeleteSound, OnWorkerEventSound
<1>4. ASSUME NEW t \in AllTags, Subscribe(t) \/ UpdateTag(t) \/ SetWorkerQuality(t)
      PROVE  TagsSound'
  BY <1>4, SubscribeSound, UpdateTagSound, SetWorkerQualitySound
<1>5. CASE Return
  BY <1>5, ReturnSound
<1> QED BY <1>1, <1>2, <1>3, <1>4, <1>5 DEF TagsNext

\* A tag's source is the worker whose field it is, and exists; and a tag whose
\* worker reported the loss of its link shows comm_fail once the registry is at
\* rest, unless a message or an announcement of a link came to it since; for any
\* names and fields, however deep the listeners nest and whatever they do, the
\* loss of the link included (tags.cpp).
THEOREM TagsInvariant == TagsSpec => []TagsSound
BY TagsInitSound, TagsNextSound, PTL DEF TagsSpec

-----------------------------------------------------------------------------
(* Induction                                                               *)

\* A set of numbers that is not empty has a least one.
LEMMA LeastNat ==
  ASSUME NEW T, T \subseteq Nat, T # {}
  PROVE  \E n \in T : \A m \in T : n <= m
<1>1. IsWellFoundedOn(OpToRel(<, Nat), Nat) BY NatLessThanWellFounded
<1>2. PICK n \in T : \A m \in T : ~(<<m, n>> \in OpToRel(<, Nat)) BY <1>1, WFMin
<1>3. \A m \in T : m \in Nat /\ n \in Nat /\ ~(m < n) BY <1>2 DEF OpToRel
<1> QED BY <1>3

\* Induction, over the set of numbers for which a fact holds.
LEMMA SetInduction ==
  ASSUME NEW S, 0 \in S, \A n \in Nat : n \in S => n + 1 \in S
  PROVE  Nat \subseteq S
<1> DEFINE T == Nat \ S
<1>1. SUFFICES ASSUME T # {} PROVE FALSE OBVIOUS
<1>2. PICK n \in T : \A m \in T : n <= m BY <1>1, LeastNat
<1>3. n # 0 /\ n \in Nat OBVIOUS
<1>4. n - 1 \in Nat /\ ~(n <= n - 1) BY <1>3
<1>5. n - 1 \in S BY <1>2, <1>4
<1> QED BY <1>3, <1>4, <1>5

-----------------------------------------------------------------------------
(* Messages                                                                *)

\* The tables on the first n levels of a path.
IsWalk(h, p, n, f) == f = [i \in 0..n |-> IF i = 0 THEN Root ELSE Lookup(h, f[i - 1], p[i])]

\* PushResolved() comes to an end on every path: there is such a walk.
LEMMA WalkExists ==
  ASSUME NEW h, NEW p, NEW n \in Nat
  PROVE  \E f : IsWalk(h, p, n, f)
<1> DEFINE S == {m \in Nat : \E f : IsWalk(h, p, m, f)}
<1>1. 0 \in S
  <2> DEFINE f == [i \in 0..0 |-> Root]
  <2>1. f = [i \in 0..0 |-> IF i = 0 THEN Root ELSE Lookup(h, f[i - 1], p[i])] OBVIOUS
  <2>2. IsWalk(h, p, 0, f) BY <2>1 DEF IsWalk
  <2> QED BY <2>2
<1>2. ASSUME NEW m \in Nat, m \in S PROVE m + 1 \in S
  <2>1. PICK f : IsWalk(h, p, m, f) BY <1>2
  <2> DEFINE g == [i \in 0..(m + 1) |-> IF i <= m THEN f[i] ELSE Lookup(h, f[m], p[m + 1])]
             r == [i \in 0..(m + 1) |-> IF i = 0 THEN Root ELSE Lookup(h, g[i - 1], p[i])]
  <2>2. f = [i \in 0..m |-> IF i = 0 THEN Root ELSE Lookup(h, f[i - 1], p[i])] BY <2>1 DEF IsWalk
  <2>3. ASSUME NEW i \in 0..(m + 1) PROVE g[i] = r[i]
    <3>1. CASE i = 0
      <4>1. g[0] = f[0] /\ r[0] = Root BY <3>1
      <4>2. f[0] = Root BY <2>2
      <4> QED BY <3>1, <4>1, <4>2
    <3>2. CASE i # 0 /\ i <= m
      <4>1. i \in 0..m /\ i - 1 \in 0..(m + 1) /\ i - 1 <= m BY <3>2
      <4>2. g[i] = f[i] /\ g[i - 1] = f[i - 1] /\ r[i] = Lookup(h, g[i - 1], p[i]) BY <3>2, <4>1
      <4>3. f[i] = Lookup(h, f[i - 1], p[i]) BY <2>2, <3>2, <4>1
      <4> QED BY <4>2, <4>3
    <3>3. CASE i = m + 1
      <4>1. m \in 0..(m + 1) /\ m <= m /\ ~(m + 1 <= m) /\ (m + 1) - 1 = m OBVIOUS
      <4>2. g[m + 1] = Lookup(h, f[m], p[m + 1]) /\ g[m] = f[m] BY <4>1
      <4>3. r[m + 1] = Lookup(h, g[m], p[m + 1]) BY <4>1
      <4> QED BY <3>3, <4>2, <4>3
    <3> QED BY <3>1, <3>2, <3>3
  <2>4. g = r BY <2>3
  <2>5. IsWalk(h, p, m + 1, g) BY <2>4 DEF IsWalk
  <2> QED BY <2>5
<1> HIDE DEF S
<1>3. Nat \subseteq S BY <1>1, <1>2, SetInduction
<1> QED BY <1>3 DEF S

\* What a walk does at its levels.
LEMMA WalkIs ==
  ASSUME NEW h, NEW p \in Seq(Key)
  PROVE  /\ Walked(h, p)[0] = Root
         /\ \A i \in 1..Len(p) : Walked(h, p)[i] = Lookup(h, Walked(h, p)[i - 1], p[i])
<1>0. Len(p) \in Nat OBVIOUS
<1> DEFINE w == Walked(h, p)
<1>1. w = CHOOSE f : IsWalk(h, p, Len(p), f) BY DEF Walked, IsWalk
<1>7. IsWalk(h, p, Len(p), w) BY Zenon, <1>0, <1>1, WalkExists
<1>2. w = [i \in 0..Len(p) |-> IF i = 0 THEN Root ELSE Lookup(h, w[i - 1], p[i])]
  BY <1>7 DEF IsWalk
<1>3. Len(p) \in Nat OBVIOUS
<1> HIDE DEF w
<1>4. 0 \in 0..Len(p) /\ \A i \in 1..Len(p) : i \in 0..Len(p) /\ i # 0 BY <1>3
<1>5. w[0] = Root BY <1>2, <1>4
<1>6. \A i \in 1..Len(p) : w[i] = Lookup(h, w[i - 1], p[i]) BY <1>2, <1>4
<1> QED BY <1>5, <1>6 DEF w

\* The message is at the end of the empty path.
LEMMA ResolvedRoot == ASSUME NEW h PROVE Resolved(h, <<>>) = Root
<1>1. <<>> \in Seq(Key) /\ Len(<<>>) = 0 OBVIOUS
<1>2. Walked(h, <<>>)[0] = Root BY <1>1, WalkIs
<1> QED BY <1>1, <1>2 DEF Resolved

\* On the path p the same is looked up in h and j, and p is the beginning of q.
SameLookups(h, j, p) ==
  \A i \in 1..Len(p) : Lookup(j, Walked(h, p)[i - 1], p[i]) = Lookup(h, Walked(h, p)[i - 1], p[i])
Begins(p, q) == Len(p) <= Len(q) /\ \A i \in 1..Len(p) : p[i] = q[i]

\* Two walks that look up the same things are one.
LEMMA SameWalk ==
  ASSUME NEW h, NEW j, NEW p \in Seq(Key), NEW q \in Seq(Key), Begins(p, q), SameLookups(h, j, p)
  PROVE  \A i \in 0..Len(p) : Walked(j, q)[i] = Walked(h, p)[i]
<1> DEFINE S == {n \in Nat : n <= Len(p) => Walked(j, q)[n] = Walked(h, p)[n]}
<1>0. Len(p) \in Nat /\ Len(q) \in Nat OBVIOUS
<1>1. 0 \in S BY WalkIs
<1>2. ASSUME NEW n \in Nat, n \in S PROVE n + 1 \in S
  <2> SUFFICES ASSUME n + 1 <= Len(p) PROVE Walked(j, q)[n + 1] = Walked(h, p)[n + 1] OBVIOUS
  <2>1. n <= Len(p) /\ n + 1 \in 1..Len(p) /\ n + 1 \in 1..Len(q) /\ (n + 1) - 1 = n
    BY <1>0 DEF Begins
  <2>2. Walked(j, q)[n] = Walked(h, p)[n] BY <1>2, <2>1
  <2>3. Walked(h, p)[n + 1] = Lookup(h, Walked(h, p)[n], p[n + 1])
    BY <2>1, WalkIs
  <2>4. Walked(j, q)[n + 1] = Lookup(j, Walked(j, q)[n], q[n + 1]) BY <2>1, WalkIs
  <2>5. Lookup(j, Walked(h, p)[n], p[n + 1]) = Lookup(h, Walked(h, p)[n], p[n + 1])
    BY <2>1 DEF SameLookups
  <2>6. p[n + 1] = q[n + 1] BY <2>1 DEF Begins
  <2> QED BY <2>2, <2>3, <2>4, <2>5, <2>6
<1> HIDE DEF S
<1>3. Nat \subseteq S BY <1>1, <1>2, SetInduction
<1> QED BY <1>0, <1>3 DEF S

\* A key more on a path is one look-up more.
LEMMA ResolvedAppend ==
  ASSUME NEW h, NEW p \in Seq(Key), NEW k \in Key
  PROVE  Resolved(h, Append(p, k)) = Lookup(h, Resolved(h, p), k)
<1> DEFINE q == Append(p, k)
<1>1. /\ q \in Seq(Key) /\ Len(q) = Len(p) + 1 /\ Len(p) \in Nat
      /\ \A i \in 1..Len(p) : p[i] = q[i]
      /\ q[Len(p) + 1] = k
  OBVIOUS
<1> HIDE DEF q
<1>2. \A i \in 0..Len(p) : Walked(h, q)[i] = Walked(h, p)[i]
  BY <1>1, SameWalk DEF SameLookups, Begins
<1>3. Len(p) + 1 \in 1..Len(q) /\ (Len(p) + 1) - 1 = Len(p) /\ Len(p) \in 0..Len(p) BY <1>1
<1>4. Walked(h, q)[Len(p) + 1] = Lookup(h, Walked(h, q)[Len(p)], k) BY <1>1, <1>3, WalkIs
<1> QED BY <1>1, <1>2, <1>3, <1>4 DEF Resolved, q

\* A message arrives as it was retained.
LEMMA LazyStarts == LazyInit => LazyInv
<1> SUFFICES ASSUME LazyInit PROVE LazyInv OBVIOUS
<1>0. materialized = FALSE /\ heap = PushedTree /\ captured = Nothing /\ path = <<>> /\ moved = FALSE
  BY DEF LazyInit
<1>1. LazyTypeOK
  <2>1. ASSUME NEW t \in Table, NEW k \in Key PROVE PushValue(Retained[t][k]) \in Value
    <3>1. Retained \in [Table -> [Key -> Value \cup {Null}]] BY LazyAssumption
    <3>2. Retained[t][k] \in Value \cup {Null} BY <3>1
    <3>3. Nil \in Value BY DEF Value
    <3> QED BY <3>2, <3>3 DEF PushValue
  <2>2. heap \in [Table -> [Key -> Value]] BY <1>0, <2>1 DEF PushedTree
  <2>3. path \in Seq(Key) /\ captured \in {Nothing, "view", "table"} BY <1>0
  <2> QED BY <1>0, <2>2, <2>3 DEF LazyTypeOK
<1>2. SameTables BY DEF LazyInit, SameTables
<1>3. Resolved(Retained, path) = Root /\ Resolved(heap, path) = Root BY <1>0, ResolvedRoot
<1>4. ViewsFollow BY <1>0, <1>3 DEF ViewsFollow, Nothing
<1>5. LoopInOrder BY DEF LazyInit, LoopInOrder, Nothing
<1> QED BY <1>1, <1>2, <1>4, <1>5 DEF LazyInv

\* Writing a field the path p does not go through leaves its end where it was.
LEMMA AssignedWalk ==
  ASSUME NEW h \in [Table -> [Key -> Value]], NEW p \in Seq(Key), NEW t, NEW k \in Key, NEW v,
         \A i \in 1..Len(p) : ~(Walked(h, p)[i - 1] = t /\ p[i] = k)
  PROVE  Resolved(Assigned(h, t, k, v), p) = Resolved(h, p)
<1> DEFINE after == Assigned(h, t, k, v)
<1>1. ASSUME NEW x, NEW j \in Key, ~(x = t /\ j = k) PROVE Lookup(after, x, j) = Lookup(h, x, j)
  BY <1>1 DEF Lookup, Assigned
<1> HIDE DEF after
<1>2. \A i \in 1..Len(p) : p[i] \in Key OBVIOUS
<1>3. SameLookups(h, after, p) BY <1>1, <1>2 DEF SameLookups
<1>4. Begins(p, p) BY DEF Begins
<1>5. \A i \in 0..Len(p) : Walked(after, p)[i] = Walked(h, p)[i] BY <1>3, <1>4, SameWalk
<1>6. Len(p) \in 0..Len(p) OBVIOUS
<1> QED BY <1>5, <1>6 DEF Resolved, after

\* NodeNewIndex() and set(): the write lands at its place in the message, and the
\* captured view is found where it was unless the write went over its path.
LEMMA AssignLazy ==
  ASSUME LazyInv, NEW t, NEW k \in Key, NEW v \in Datum \cup {Nil, Fresh},
         NodeNewIndex(t, t, k, v)
  PROVE  LazyInv'
<1>1. /\ materialized' = TRUE
      /\ heap' = Assigned(heap, t, k, v) /\ plain' = Assigned(plain, t, k, v)
      /\ captured' = captured /\ path' = path /\ table' = table
      /\ moved' = (moved \/ OnPath(t, k))
  BY DEF NodeNewIndex, MaterializeMessage
<1>2. heap \in [Table -> [Key -> Value]] /\ path \in Seq(Key) /\ moved \in BOOLEAN
  BY DEF LazyInv, LazyTypeOK
<1>3. v \in Value BY LazyAssumption DEF Value
<1>4. heap' \in [Table -> [Key -> Value]] BY <1>1, <1>2, <1>3 DEF Assigned
<1>13. moved' \in BOOLEAN BY <1>1, <1>2 DEF OnPath
<1>5. LazyTypeOK' BY <1>1, <1>4, <1>13 DEF LazyInv, LazyTypeOK
<1>6. SameTables' BY <1>1 DEF LazyInv, SameTables
<1>7. LoopInOrder' BY <1>1 DEF LoopInOrder
<1>8. ASSUME ~moved' PROVE ~moved /\ Resolved(heap', path) = Resolved(heap, path)
  <2>1. ~moved /\ ~OnPath(t, k) BY <1>1, <1>8
  <2>2. Resolved(Assigned(heap, t, k, v), path) = Resolved(heap, path)
    BY <1>2, <2>1, AssignedWalk DEF OnPath
  <2> QED BY <1>1, <2>1, <2>2
<1>12. ViewsFollow' BY <1>1, <1>8 DEF LazyInv, ViewsFollow
<1> QED BY <1>5, <1>6, <1>7, <1>12 DEF LazyInv

\* What the message and a captured view are indexed in.
LEMMA IndexedIs ==
  ASSUME LazyInv, NEW p \in {<<>>, path}, NEW k \in Key
  PROVE  PushIndexed(p, k) = Lookup(heap, Resolved(heap, p), k)
<1>1. CASE materialized BY <1>1 DEF PushIndexed
<1>2. CASE ~materialized
  <2>1. heap = PushedTree BY <1>2 DEF LazyInv, SameTables
  <2>2. Resolved(Retained, p) = Resolved(heap, p) BY <1>2, ResolvedRoot DEF LazyInv, ViewsFollow
  <2> DEFINE r == Resolved(heap, p)
  <2>3. PushIndexed(p, k) = PushValue(Lookup(Retained, r, k)) BY <1>2, <2>2 DEF PushIndexed
  <2> HIDE DEF r
  <2>4. PushValue(Lookup(Retained, r, k)) = Lookup(PushedTree, r, k)
    BY DEF Lookup, PushedTree, PushValue, Raised, Null
  <2> QED BY <2>1, <2>3, <2>4 DEF r
<1> QED BY <1>1, <1>2

\* NodeIndex() and NextPair() give the script a view that leads to what it read.
LEMMA KeepLazy ==
  ASSUME LazyInv, NEW k \in Key, Keep(k)
  PROVE  LazyInv'
<1> DEFINE v == Lookup(heap, Resolved(heap, path), k)
<1>1. v = PushIndexed(path, k) BY IndexedIs
<1> HIDE DEF v
<1>2. /\ UNCHANGED <<hashOrder, materialized, heap, plain, moved, loop, last, seen>> /\ v \in Table
      /\ captured' = (IF materialized THEN "table" ELSE "view")
      /\ path' = (IF materialized THEN <<>> ELSE Append(path, k))
      /\ table' = v
  BY <1>1 DEF Keep
<1>3. path \in Seq(Key) /\ materialized \in BOOLEAN BY DEF LazyInv, LazyTypeOK
<1>4. path' \in Seq(Key) /\ captured' \in {Nothing, "view", "table"} BY <1>2, <1>3
<1>5. LazyTypeOK' BY <1>2, <1>4 DEF LazyInv, LazyTypeOK
<1>6. SameTables' BY <1>2 DEF LazyInv, SameTables, PushedTree
<1>7. LoopInOrder' BY <1>2 DEF LazyInv, LoopInOrder, FieldsUpTo
<1>8. Resolved(heap, Append(path, k)) = v BY <1>3, ResolvedAppend DEF v
<1>10. ASSUME ~materialized PROVE ~moved /\ Resolved(Retained, Append(path, k)) = v
  <2>1. ~moved /\ Resolved(Retained, path) = Resolved(heap, path) BY <1>10 DEF LazyInv, ViewsFollow
  <2>2. Resolved(Retained, Append(path, k)) = Lookup(Retained, Resolved(Retained, path), k)
    BY <1>3, ResolvedAppend
  <2> DEFINE x == Lookup(Retained, Resolved(Retained, path), k)
  <2>3. v = PushValue(x) BY <1>1, <1>10 DEF PushIndexed
  <2> HIDE DEF x
  <2>4. v = x BY <1>2, <2>3, LazyAssumption DEF PushValue
  <2> QED BY <2>1, <2>2, <2>4 DEF x
<1>9. ViewsFollow' BY <1>2, <1>3, <1>8, <1>10 DEF ViewsFollow
<1> QED BY <1>5, <1>6, <1>7, <1>9 DEF LazyInv

\* NodeMaterialize() gives it the table itself.
LEMMA MaterializeLazy ==
  ASSUME LazyInv, NodeMaterialize
  PROVE  LazyInv'
<1>1. /\ UNCHANGED <<heap, plain, moved>> /\ materialized' = TRUE /\ captured' = "table"
      /\ path' = <<>> /\ table' \in Table
  BY DEF NodeMaterialize, MaterializeMessage
<1>2. LazyTypeOK' BY <1>1 DEF LazyInv, LazyTypeOK
<1>3. SameTables' BY <1>1 DEF LazyInv, SameTables
<1>4. ViewsFollow' BY <1>1 DEF ViewsFollow
<1>5. LoopInOrder' BY <1>1 DEF LoopInOrder
<1> QED BY <1>2, <1>3, <1>4, <1>5 DEF LazyInv

\* The part of the invariant a loop leaves alone.
LEMMA LoopKeeps ==
  ASSUME LazyInv, UNCHANGED <<materialized, heap, plain, captured, path, table, moved>>
  PROVE  LazyTypeOK' /\ SameTables' /\ ViewsFollow'
BY DEF LazyInv, LazyTypeOK, SameTables, ViewsFollow, PushedTree

\* NodePairs(): a loop starts before the first key.
LEMMA PairsLazy ==
  ASSUME LazyInv, NodePairs
  PROVE  LazyInv'
<1>1. UNCHANGED <<materialized, heap, plain, captured, path, table, moved, last, seen>> BY DEF NodePairs
<1>2. LazyTypeOK' /\ SameTables' /\ ViewsFollow' BY <1>1, LoopKeeps
<1>3. ASSUME ~materialized' PROVE LoopInOrder'
  <2>1. loop' = "view" /\ loop = Nothing /\ ~materialized BY <1>1, <1>3 DEF NodePairs
  <2>2. last = Nothing /\ seen = <<>> BY <2>1 DEF LazyInv, LoopInOrder
  <2>3. 0 \in 0..Len(MapOrder) BY LazyAssumption
  <2>4. FieldsUpTo(0) = {} BY DEF FieldsUpTo
  <2>5. Range(<<>>) = {} BY DEF Range
  <2>6. \E n \in 0..Len(MapOrder) :
          /\ last' = IF n = 0 THEN Nothing ELSE MapOrder[n]
          /\ Range(seen') = FieldsUpTo(n)
    BY <1>1, <2>2, <2>3, <2>4, <2>5
  <2> QED BY <1>1, <2>1, <2>2, <2>6 DEF LoopInOrder, Nothing, FieldsUpTo
<1>4. LoopInOrder' BY <1>3 DEF LoopInOrder
<1> QED BY <1>2, <1>4 DEF LazyInv

\* The key behind the n-th in the retained map is the next one with a field.
LEMMA FollowingIs ==
  ASSUME NEW n \in 0..Len(MapOrder)
  PROVE  LET k == Following(MapOrder, Retained[Root], IF n = 0 THEN Nothing ELSE MapOrder[n])
         IN \/ k = Nothing /\ FieldsUpTo(n) = FieldsUpTo(Len(MapOrder))
            \/ \E m \in 1..Len(MapOrder) : k = MapOrder[m] /\ FieldsUpTo(m) = FieldsUpTo(n) \cup {k}
<1> DEFINE N == Len(MapOrder)
           l == IF n = 0 THEN Nothing ELSE MapOrder[n]
           t == Retained[Root]
           from == IF l = Nothing THEN 0 ELSE CHOOSE i \in 1..N : MapOrder[i] = l
           left == {i \in (from + 1)..N : t[MapOrder[i]] # Nil}
           k == Following(MapOrder, t, l)
<1>1. N \in Nat /\ \A i \in 1..N : MapOrder[i] \in Key BY LazyAssumption
<1>2. from = n
  <2>1. CASE n = 0 BY <2>1
  <2>2. CASE n # 0
    <3>1. n \in 1..N BY <1>1, <2>2
    <3>2. l = MapOrder[n] /\ l # Nothing BY <1>1, <2>2, <3>1, LazyAssumption
    <3> HIDE DEF l
    <3>3. \E i \in 1..N : MapOrder[i] = l BY <3>1, <3>2
    <3> DEFINE c == CHOOSE i \in 1..N : MapOrder[i] = l
    <3>4. c \in 1..N /\ MapOrder[c] = l BY Zenon, <3>3
    <3>5. from = c BY <3>2
    <3> HIDE DEF c
    <3>6. c = n BY <3>1, <3>2, <3>4, LazyAssumption
    <3> QED BY <3>5, <3>6
  <2> QED BY <2>1, <2>2
<1>3. k = IF left = {} THEN Nothing ELSE MapOrder[CHOOSE i \in left : \A j \in left : i <= j]
  BY DEF Following
<1>4. left = {i \in (n + 1)..N : t[MapOrder[i]] # Nil} BY <1>2
<1> HIDE DEF k, from, l
<1>5. CASE left = {}
  <2>1. \A i \in (n + 1)..N : t[MapOrder[i]] = Nil BY <1>4, <1>5
  <2>2. {j \in 1..n : t[MapOrder[j]] # Nil} = {j \in 1..N : t[MapOrder[j]] # Nil} BY <1>1, <2>1
  <2>3. FieldsUpTo(n) = FieldsUpTo(N) BY <2>2 DEF FieldsUpTo
  <2> QED BY <1>3, <1>5, <2>3 DEF k, l
<1>6. CASE left # {}
  <2> DEFINE m == CHOOSE i \in left : \A j \in left : i <= j
  <2>1. left \subseteq Nat BY <1>1, <1>4
  <2>2. \E i \in left : \A j \in left : i <= j BY <1>6, <2>1, LeastNat
  <2>3. m \in left /\ \A j \in left : m <= j BY Zenon, <2>2
  <2>4. k = MapOrder[m] BY <1>3, <1>6
  <2> HIDE DEF m
  <2>5. m \in (n + 1)..N /\ t[MapOrder[m]] # Nil /\ \A j \in (n + 1)..N : t[MapOrder[j]] # Nil => m <= j
    BY <1>4, <2>3
  <2> HIDE DEF left, t
  <2>6. m \in 1..N /\ n < m BY <1>1, <2>5
  <2>7. \A j \in 1..m : t[MapOrder[j]] # Nil <=> (j = m \/ (j \in 1..n /\ t[MapOrder[j]] # Nil))
    BY <1>1, <2>5, <2>6
  <2>8. {j \in 1..m : t[MapOrder[j]] # Nil} = {j \in 1..n : t[MapOrder[j]] # Nil} \cup {m}
    BY <1>1, <2>5, <2>6, <2>7
  <2>9. FieldsUpTo(m) = FieldsUpTo(n) \cup {MapOrder[m]} BY <2>8 DEF FieldsUpTo, t
  <2> QED BY <2>4, <2>6, <2>9 DEF k, l, t
<1> QED BY <1>5, <1>6

\* A key is added to the ones a loop was given.
LEMMA RangeAppend ==
  ASSUME NEW q \in Seq(Key), NEW k \in Key
  PROVE  Append(q, k) \in Seq(Key) /\ Range(Append(q, k)) = Range(q) \cup {k}
<1> DEFINE r == Append(q, k)
<1>1. /\ r \in Seq(Key) /\ Len(r) = Len(q) + 1 /\ Len(q) \in Nat /\ r[Len(q) + 1] = k
      /\ \A i \in 1..Len(q) : r[i] = q[i]
  OBVIOUS
<1>2. DOMAIN r = 1..(Len(q) + 1) /\ DOMAIN q = 1..Len(q) OBVIOUS
<1> HIDE DEF r
<1>3. ASSUME NEW x \in Range(r) PROVE x \in Range(q) \cup {k}
  <2>1. PICK i \in 1..(Len(q) + 1) : x = r[i] BY <1>2 DEF Range
  <2>2. i = Len(q) + 1 \/ i \in 1..Len(q) BY <1>1
  <2> QED BY <1>1, <1>2, <2>1, <2>2 DEF Range
<1>4. ASSUME NEW x \in Range(q) \cup {k} PROVE x \in Range(r)
  <2>1. x = k \/ \E i \in 1..Len(q) : x = q[i] BY <1>2 DEF Range
  <2>2. \A i \in 1..Len(q) : i \in 1..(Len(q) + 1) BY <1>1
  <2>3. Len(q) + 1 \in 1..(Len(q) + 1) BY <1>1
  <2> QED BY <1>1, <1>2, <2>1, <2>2, <2>3 DEF Range
<1> QED BY <1>1, <1>3, <1>4 DEF r

\* NextPair() over the retained map goes on to the next field.
LEMMA NextPairLazy ==
  ASSUME LazyInv, NextPair
  PROVE  LazyInv'
<1>1. UNCHANGED <<materialized, heap, plain, captured, path, table, moved>> BY DEF NextPair
<1>2. LazyTypeOK' /\ SameTables' /\ ViewsFollow' BY <1>1, LoopKeeps
<1>3. ASSUME ~materialized PROVE LoopInOrder'
  <2> DEFINE k == Following(MapOrder, Retained[Root], last)
  <2>1. loop = "view" /\ seen \in Seq(Key) BY <1>3 DEF LazyInv, LoopInOrder, NextPair, Nothing
  <2>2. PICK n \in 0..Len(MapOrder) :
          /\ last = IF n = 0 THEN Nothing ELSE MapOrder[n]
          /\ Range(seen) = FieldsUpTo(n)
    BY <1>3, <2>1 DEF LazyInv, LoopInOrder
  <2>3. /\ last' = k
        /\ seen' = IF k = Nothing THEN seen ELSE Append(seen, k)
        /\ loop' = IF k = Nothing THEN "done" ELSE loop
    BY <1>3, <2>1 DEF NextPair
  <2>4. \/ k = Nothing /\ FieldsUpTo(n) = FieldsUpTo(Len(MapOrder))
        \/ \E m \in 1..Len(MapOrder) : k = MapOrder[m] /\ FieldsUpTo(m) = FieldsUpTo(n) \cup {k}
    BY <2>2, FollowingIs
  <2> HIDE DEF k
  <2>5. CASE k = Nothing /\ FieldsUpTo(n) = FieldsUpTo(Len(MapOrder))
    <3>1. loop' = "done" /\ seen' = seen BY <2>3, <2>5
    <3>2. Range(seen') = FieldsUpTo(Len(MapOrder)) BY <2>2, <2>5, <3>1
    <3> QED BY <1>1, <1>3, <2>1, <3>1, <3>2 DEF LoopInOrder, Nothing, FieldsUpTo
  <2>6. CASE \E m \in 1..Len(MapOrder) : k = MapOrder[m] /\ FieldsUpTo(m) = FieldsUpTo(n) \cup {k}
    <3>1. PICK m \in 1..Len(MapOrder) : k = MapOrder[m] /\ FieldsUpTo(m) = FieldsUpTo(n) \cup {k}
      BY <2>6
    <3>2. k \in Key /\ k # Nothing BY <3>1, LazyAssumption
    <3>3. loop' = "view" /\ last' = k /\ seen' = Append(seen, k) BY <2>1, <2>3, <3>2
    <3>4. seen' \in Seq(Key) /\ Range(seen') = FieldsUpTo(m) BY <2>1, <2>2, <3>1, <3>2, <3>3, RangeAppend
    <3>5. m \in 0..Len(MapOrder) /\ m # 0 BY LazyAssumption
    <3>6. \E i \in 0..Len(MapOrder) :
            /\ last' = IF i = 0 THEN Nothing ELSE MapOrder[i]
            /\ Range(seen') = FieldsUpTo(i)
      BY <3>1, <3>3, <3>4, <3>5
    <3> QED BY <1>1, <1>3, <3>3, <3>4, <3>6 DEF LoopInOrder, Nothing, FieldsUpTo
  <2> QED BY <2>4, <2>5, <2>6
<1>4. LoopInOrder' BY <1>1, <1>3 DEF LoopInOrder
<1> QED BY <1>2, <1>4 DEF LazyInv

\* A loop that ends by an error has been over a table.
LEMMA RaisesLazy ==
  ASSUME LazyInv, NextPairRaises
  PROVE  LazyInv'
<1>1. UNCHANGED <<materialized, heap, plain, captured, path, table, moved>> /\ materialized
  BY DEF NextPairRaises
<1>2. LoopInOrder' BY <1>1 DEF LoopInOrder
<1> QED BY <1>1, <1>2, LoopKeeps DEF LazyInv

\* Every step keeps it.
LEMMA LazyStep ==
  ASSUME LazyInv, [LazyNext]_lazyVars
  PROVE  LazyInv'
<1>1. CASE \E k \in Key : NodeIndex(k) BY <1>1, KeepLazy DEF NodeIndex
<1>2. CASE \E k \in Key, v \in Datum \cup {Nil, Fresh} : NodeNewIndex(Root, Root, k, v)
  BY <1>2, AssignLazy
<1>3. CASE \E k \in Key, v \in Datum \cup {Nil, Fresh} :
             captured # Nothing /\ NodeNewIndex(Target(heap), Target(plain), k, v)
  <2>1. Target(heap) = Target(plain) BY DEF LazyInv, SameTables
  <2> QED BY <1>3, <2>1, AssignLazy
<1>4. CASE NodeMaterialize BY <1>4, MaterializeLazy
<1>5. CASE NodePairs BY <1>5, PairsLazy
<1>6. CASE NextPair BY <1>6, NextPairLazy
<1>7. CASE UNCHANGED lazyVars
  <2>1. UNCHANGED <<materialized, heap, plain, captured, path, table, moved>> BY <1>7 DEF lazyVars
  <2>2. LoopInOrder' BY <1>7 DEF lazyVars, LazyInv, LoopInOrder, FieldsUpTo
  <2> QED BY <2>1, <2>2, LoopKeeps DEF LazyInv
<1>8. CASE PairValue
  <2>1. last \in Key
    <3>1. loop = "view" /\ ~materialized /\ last # Nothing BY <1>8 DEF PairValue
    <3>2. PICK n \in 0..Len(MapOrder) : last = IF n = 0 THEN Nothing ELSE MapOrder[n]
      BY <3>1 DEF LazyInv, LoopInOrder
    <3>3. n \in 1..Len(MapOrder) BY <3>1, <3>2, LazyAssumption
    <3> QED BY <3>2, <3>3, LazyAssumption
  <2> QED BY <1>8, <2>1, KeepLazy DEF PairValue
<1>9. CASE NextPairRaises BY <1>9, RaisesLazy
<1> QED BY <1>1, <1>2, <1>3, <1>4, <1>5, <1>6, <1>7, <1>8, <1>9 DEF LazyNext

\* What is read then is what the plain table holds.
LEMMA LazyReads ==
  ASSUME LazyInv
  PROVE  ReadsLikePlain
<1> SUFFICES ASSUME NEW k \in Key
             PROVE  /\ k # Materialize => NodeIndexed(<<>>, k) = plain[Root][k]
                    /\ captured = "view" /\ k # Materialize =>
                         /\ NodeIndexed(path, k) = Lookup(plain, Resolved(plain, path), k)
                         /\ ~moved => NodeIndexed(path, k) = plain[table][k]
                    /\ captured = "table" => heap[table][k] = plain[table][k]
                    /\ loop = "done" /\ ~materialized =>
                         (plain[Root][k] # Nil \/ Retained[Root][k] = Null <=> Contains(seen, k))
  BY DEF ReadsLikePlain
<1>1. heap = plain /\ Root \in Table BY LazyAssumption DEF LazyInv, SameTables
<1>2. ASSUME k # Materialize PROVE NodeIndexed(<<>>, k) = plain[Root][k]
  <2>1. PushIndexed(<<>>, k) = Lookup(heap, Root, k) BY IndexedIs, ResolvedRoot
  <2> QED BY <1>1, <1>2, <2>1 DEF Lookup, NodeIndexed
<1>3. ASSUME captured = "view", k # Materialize
      PROVE  /\ NodeIndexed(path, k) = Lookup(plain, Resolved(plain, path), k)
             /\ ~moved => NodeIndexed(path, k) = plain[table][k]
  <2>1. NodeIndexed(path, k) = Lookup(heap, Resolved(heap, path), k)
    BY <1>3, IndexedIs DEF NodeIndexed
  <2>2. ASSUME ~moved PROVE Lookup(heap, Resolved(heap, path), k) = plain[table][k]
    <3>1. Resolved(heap, path) = table /\ table \in Table BY <1>3, <2>2 DEF LazyInv, ViewsFollow, Nothing
    <3> QED BY <1>1, <3>1 DEF Lookup
  <2> QED BY <1>1, <2>1, <2>2
<1>4. ASSUME loop = "done", ~materialized
      PROVE  (plain[Root][k] # Nil \/ Retained[Root][k] = Null) <=> Contains(seen, k)
  <2>1. seen \in Seq(Key) /\ Range(seen) = FieldsUpTo(Len(MapOrder)) BY <1>4 DEF LazyInv, LoopInOrder
  <2>2. plain = PushedTree BY <1>4 DEF LazyInv, SameTables
  <2>5. (plain[Root][k] # Nil \/ Retained[Root][k] = Null) <=> Retained[Root][k] # Nil
    BY <1>1, <2>2 DEF PushedTree, PushValue, Nil, Null
  <2>3. k \in FieldsUpTo(Len(MapOrder)) <=> Retained[Root][k] # Nil BY LazyAssumption DEF FieldsUpTo
  <2>4. Contains(seen, k) <=> k \in Range(seen) BY <2>1 DEF Contains, Range
  <2> QED BY <2>1, <2>3, <2>4, <2>5
<1> QED BY <1>1, <1>2, <1>3, <1>4

(***************************************************************************)
(* A field read through the message or a captured view is the field the    *)
(* plain message has at the end of the same keys (lazy.cpp), and the one   *)
(* of the table that was captured as long as no table on the way to it is  *)
(* assigned over; for messages of any shape, null fields and a field named *)
(* like the method included, views at any depth and any number of writes   *)
(* through either.                                                         *)
(***************************************************************************)
THEOREM LazyReadsLikePlain == LazySpec => []ReadsLikePlain
<1>1. LazyInv /\ [LazyNext]_lazyVars => LazyInv' BY LazyStep
<1>2. LazyInv => ReadsLikePlain BY LazyReads
<1> QED BY <1>1, <1>2, LazyStarts, PTL DEF LazySpec

-----------------------------------------------------------------------------
(* Registers                                                               *)

\* A register has one word or two.
LEMMA SizeIs ==
  ASSUME NEW reg
  PROVE  /\ Words(reg) \in {1, 2}
         /\ Words(reg) = 1 => SizeOf(reg.type) = 2
         /\ Words(reg) = 2 => SizeOf(reg.type) = 4
<1>1. SizeOf(reg.type) \in {2, 4} BY DEF SizeOf
<1>2. 2 \div 2 = 1 /\ 4 \div 2 = 2 OBVIOUS
<1> QED BY <1>1, <1>2 DEF Words

\* The two words of a value.
Pair(v, i) == <<v[2 * i - 1], v[2 * i]>>

\* A word as its byte order has it.
Turned(reg, x) == IF reg.byte = "little" THEN x ELSE Swap(x)

\* What a value becomes in a register: as many bytes as that has.
LEMMA InRegisterBytes ==
  ASSUME NEW type, NEW v \in ScriptValues, InRegister(type, v) # <<>>
  PROVE  /\ InRegister(type, v) \in Seq(0..255) /\ Len(InRegister(type, v)) = SizeOf(type)
         /\ type = "bit" => InRegister(type, v) \in {<<0, 0>>, <<1, 0>>}
<1> DEFINE number == IF type = "float32" THEN ToFloat(v) ELSE ToUInt(v)
<1>1. number \in Seq(0..255) /\ Len(number) \in {0, 4} BY LoopbackAssumption
<1>2. CASE type = "bit"
  <2>1. InRegister(type, v) = <<IF ToBool(v) THEN 1 ELSE 0, 0>> BY <1>2 DEF InRegister
  <2>2. InRegister(type, v) \in {<<0, 0>>, <<1, 0>>} BY <2>1
  <2>3. SizeOf(type) = 2 BY <1>2 DEF SizeOf
  <2>4. <<0, 0>> \in Seq(0..255) /\ <<1, 0>> \in Seq(0..255) /\ Len(<<0, 0>>) = 2 /\ Len(<<1, 0>>) = 2
    OBVIOUS
  <2> QED BY <2>2, <2>3, <2>4
<1>3. CASE type # "bit"
  <2>1. number # <<>> /\ InRegister(type, v) = SubSeq(number, 1, SizeOf(type))
    BY <1>3 DEF InRegister
  <2> HIDE DEF number
  <2>2. Len(number) = 4 BY <1>1, <2>1
  <2>3. SizeOf(type) \in {2, 4} BY DEF SizeOf
  <2>6. \A i \in 1..4 : number[i] \in 0..255 BY <1>1, <2>2, ElementOfSeq
  <2>7. SizeOf(type) \in Nat /\ \A i \in 1..SizeOf(type) : i \in 1..4 BY <2>3
  <2>4. SizeOf(type) \in Nat /\ \A i \in 1..SizeOf(type) : number[i] \in 0..255 BY <2>6, <2>7
  <2>5. /\ SubSeq(number, 1, SizeOf(type)) \in Seq(0..255)
        /\ Len(SubSeq(number, 1, SizeOf(type))) =
             IF 1 <= SizeOf(type) THEN SizeOf(type) - 1 + 1 ELSE 0
    BY <2>4, SubSeqProperties
  <2> QED BY <1>3, <2>1, <2>3, <2>5
<1> QED BY <1>2, <1>3

\* A value that is encoded was converted before.
LEMMA EncodedIs ==
  ASSUME NEW reg, NEW v, EncodeRegister(reg, v) # <<>>
  PROVE  /\ InRegister(reg.type, v) # <<>>
         /\ EncodeRegister(reg, v) = EncodedBytes(reg, InRegister(reg.type, v))
BY DEF EncodeRegister

\* The packing orders words, and turns each.
LEMMA PackedWords ==
  ASSUME NEW reg, NEW words, Len(words) \in {1, 2}
  PROVE  /\ Len(ApplyPacking(words, reg)) = Len(words)
         /\ Len(words) = 1 \/ reg.word = "little" =>
              \A i \in 1..Len(words) : ApplyPacking(words, reg)[i] = Turned(reg, words[i])
         /\ Len(words) = 2 /\ reg.word # "little" =>
              /\ ApplyPacking(words, reg)[1] = Turned(reg, words[2])
              /\ ApplyPacking(words, reg)[2] = Turned(reg, words[1])
<1> DEFINE ordered == IF Len(words) = 2 /\ reg.word # "little" THEN Swap(words) ELSE words
<1>1. CASE Len(words) = 2 /\ reg.word # "little"
  <2> DEFINE swapped == <<words[2], words[1]>>
  <2>1. ordered = swapped BY <1>1 DEF Swap
  <2>2. Len(swapped) = 2 /\ swapped[1] = words[2] /\ swapped[2] = words[1] OBVIOUS
  <2> HIDE DEF swapped
  <2>3. ApplyPacking(words, reg) = [i \in 1..2 |-> Turned(reg, swapped[i])]
    BY <1>1, <2>1, <2>2 DEF ApplyPacking, Turned
  <2> QED BY <1>1, <2>2, <2>3
<1>2. CASE ~(Len(words) = 2 /\ reg.word # "little")
  <2>1. ApplyPacking(words, reg) = [i \in 1..Len(words) |-> Turned(reg, words[i])]
    BY <1>2 DEF ApplyPacking, Turned
  <2> QED BY <1>2, <2>1
<1> QED BY <1>1, <1>2

\* What encodeRegister() makes of a value in its register.
LEMMA EncodedWords ==
  ASSUME NEW reg, NEW b \in Seq(0..255), Len(b) = SizeOf(reg.type)
  PROVE  /\ Len(EncodedBytes(reg, b)) = Words(reg)
         /\ reg.type = "bit" => Words(reg) = 1 /\ EncodedBytes(reg, b)[1] = b
         /\ reg.type # "bit" /\ (Words(reg) = 1 \/ reg.word = "little") =>
              \A i \in 1..Words(reg) : EncodedBytes(reg, b)[i] = Turned(reg, Pair(b, i))
         /\ reg.type # "bit" /\ Words(reg) = 2 /\ reg.word # "little" =>
              /\ EncodedBytes(reg, b)[1] = Turned(reg, Pair(b, 2))
              /\ EncodedBytes(reg, b)[2] = Turned(reg, Pair(b, 1))
<1>2. Words(reg) \in {1, 2} BY SizeIs
<1>3. CASE reg.type = "bit"
  <2>1. SizeOf(reg.type) = 2 BY <1>3 DEF SizeOf
  <2>2. Words(reg) = 1 BY <2>1 DEF Words
  <2>3. EncodedBytes(reg, b) = <<b>> BY <1>3 DEF EncodedBytes
  <2> QED BY <1>3, <2>2, <2>3
<1>4. CASE reg.type # "bit"
  <2> DEFINE words == [i \in 1..Words(reg) |-> Pair(b, i)]
  <2>1. EncodedBytes(reg, b) = ApplyPacking(words, reg) BY <1>4 DEF EncodedBytes, Pair
  <2>2. Len(words) = Words(reg) /\ \A i \in 1..Words(reg) : words[i] = Pair(b, i) BY <1>2
  <2> HIDE DEF words
  <2>3. Words(reg) = 2 => words[1] = Pair(b, 1) /\ words[2] = Pair(b, 2) BY <2>2
  <2> DEFINE packed == ApplyPacking(words, reg)
  <2>4. /\ Len(packed) = Words(reg)
        /\ Words(reg) = 1 \/ reg.word = "little" =>
             \A i \in 1..Words(reg) : packed[i] = Turned(reg, words[i])
        /\ Words(reg) = 2 /\ reg.word # "little" =>
             packed[1] = Turned(reg, words[2]) /\ packed[2] = Turned(reg, words[1])
    <3>1. Len(words) \in {1, 2} BY <1>2, <2>2
    <3>2. /\ Len(packed) = Len(words)
          /\ Len(words) = 1 \/ reg.word = "little" =>
               \A i \in 1..Len(words) : packed[i] = Turned(reg, words[i])
          /\ Len(words) = 2 /\ reg.word # "little" =>
               packed[1] = Turned(reg, words[2]) /\ packed[2] = Turned(reg, words[1])
      BY <3>1, PackedWords
    <3> HIDE DEF packed
    <3> QED BY <2>2, <3>2
  <2> HIDE DEF packed
  <2>5. Words(reg) = 1 \/ reg.word = "little" =>
          \A i \in 1..Words(reg) : packed[i] = Turned(reg, Pair(b, i))
    BY <2>2, <2>4
  <2>6. Words(reg) = 2 /\ reg.word # "little" =>
          packed[1] = Turned(reg, Pair(b, 2)) /\ packed[2] = Turned(reg, Pair(b, 1))
    BY <2>3, <2>4
  <2> QED BY <1>4, <2>1, <2>4, <2>5, <2>6 DEF packed
<1> QED BY <1>3, <1>4

\* The bytes of one word, and of two.
TwoBytes(x) == [i \in 1..2 |-> IF i = 1 THEN x[1] ELSE x[2]]
FourBytes(x, y) ==
  [i \in 1..4 |-> IF i = 1 THEN x[1] ELSE IF i = 2 THEN x[2] ELSE IF i = 3 THEN y[1] ELSE y[2]]

\* The bytes of the words in their order.
Bytes(reg, x, y) ==
  LET ordered == IF reg.word # "little" THEN <<y, x>> ELSE <<x, y>>
  IN [i \in 1..SizeOf(reg.type) |-> ordered[(i + 1) \div 2][2 - (i % 2)]]

\* A word, and two of them in either order.
LEMMA BytesAre ==
  ASSUME NEW reg, NEW x, NEW y
  PROVE  /\ Words(reg) = 1 /\ reg.word = "little" => Bytes(reg, x, y) = TwoBytes(x)
         /\ Words(reg) = 2 /\ reg.word = "little" => Bytes(reg, x, y) = FourBytes(x, y)
         /\ Words(reg) = 2 /\ reg.word # "little" => Bytes(reg, x, y) = FourBytes(y, x)
<1> DEFINE ordered == IF reg.word # "little" THEN <<y, x>> ELSE <<x, y>>
           byte(i) == ordered[(i + 1) \div 2][2 - (i % 2)]
<1>1. reg.word # "little" => ordered[1] = y /\ ordered[2] = x OBVIOUS
<1>2. reg.word = "little" => ordered[1] = x /\ ordered[2] = y OBVIOUS
<1>3. Bytes(reg, x, y) = [i \in 1..SizeOf(reg.type) |-> byte(i)] BY DEF Bytes
<1>4. /\ byte(1) = ordered[1][1] /\ byte(2) = ordered[1][2]
      /\ byte(3) = ordered[2][1] /\ byte(4) = ordered[2][2]
  <2>1. /\ (1 + 1) \div 2 = 1 /\ (2 + 1) \div 2 = 1 /\ (3 + 1) \div 2 = 2 /\ (4 + 1) \div 2 = 2
        /\ 2 - (1 % 2) = 1 /\ 2 - (2 % 2) = 2 /\ 2 - (3 % 2) = 1 /\ 2 - (4 % 2) = 2
    OBVIOUS
  <2> QED BY <2>1
<1> HIDE DEF ordered, byte
<1>5. ASSUME Words(reg) = 1, reg.word = "little" PROVE Bytes(reg, x, y) = TwoBytes(x)
  <2>1. SizeOf(reg.type) = 2 BY <1>5, SizeIs
  <2>2. \A i \in 1..2 : byte(i) = IF i = 1 THEN x[1] ELSE x[2] BY <1>2, <1>4, <1>5
  <2> QED BY <1>3, <2>1, <2>2 DEF TwoBytes
<1>6. ASSUME Words(reg) = 2, reg.word = "little" PROVE Bytes(reg, x, y) = FourBytes(x, y)
  <2>1. SizeOf(reg.type) = 4 BY <1>6, SizeIs
  <2>2. \A i \in 1..4 : byte(i) = IF i = 1 THEN x[1] ELSE IF i = 2 THEN x[2] ELSE IF i = 3 THEN y[1] ELSE y[2]
    BY <1>2, <1>4, <1>6
  <2> QED BY <1>3, <2>1, <2>2 DEF FourBytes
<1>7. ASSUME Words(reg) = 2, reg.word # "little" PROVE Bytes(reg, x, y) = FourBytes(y, x)
  <2>1. SizeOf(reg.type) = 4 BY <1>7, SizeIs
  <2>2. \A i \in 1..4 : byte(i) = IF i = 1 THEN y[1] ELSE IF i = 2 THEN y[2] ELSE IF i = 3 THEN x[1] ELSE x[2]
    BY <1>1, <1>4, <1>7
  <2> QED BY <1>3, <2>1, <2>2 DEF FourBytes
<1> QED BY <1>5, <1>6, <1>7

\* The bytes of a word from its end.
LEMMA TwoReversed ==
  ASSUME NEW x
  PROVE  Reverse(TwoBytes(x)) = TwoBytes(Swap(x))
<1> DEFINE t == TwoBytes(x)
           u == <<x[2], x[1]>>
<1>1. Len(t) = 2 /\ t[1] = x[1] /\ t[2] = x[2] BY DEF TwoBytes
<1>2. Swap(x) = u /\ u[1] = x[2] /\ u[2] = x[1] BY DEF Swap
<1> HIDE DEF t, u
<1>3. Reverse(t) = [i \in 1..2 |-> t[(2 - i) + 1]] BY <1>1 DEF Reverse
<1>4. \A i \in 1..2 : t[(2 - i) + 1] = IF i = 1 THEN u[1] ELSE u[2] BY <1>1, <1>2
<1>5. Reverse(t) = TwoBytes(u) BY <1>3, <1>4 DEF TwoBytes
<1> QED BY <1>2, <1>5 DEF t

\* What decodeRegister() makes of its buffer with a packing that is sound: the bytes
\* of its words in their order; the second word does not matter to a register of one.
LEMMA DecodedBytes ==
  ASSUME NEW reg, Sound(reg), reg.byte \in {"big", "little"}, NEW x, NEW y
  PROVE  /\ reg.type = "bit" => DecodeRegister(reg, <<x, y>>) = Truth(x)
         /\ reg.type # "bit" /\ Words(reg) = 1 =>
              DecodeRegister(reg, <<x, y>>) = TwoBytes(Turned(reg, x))
         /\ reg.type # "bit" /\ Words(reg) = 2 /\ reg.word = "little" =>
              DecodeRegister(reg, <<x, y>>) = FourBytes(x, y)
         /\ reg.type # "bit" /\ Words(reg) = 2 /\ reg.word # "little" =>
              DecodeRegister(reg, <<x, y>>) = FourBytes(y, x)
<1> DEFINE b == <<x, y>>
           ordered == IF reg.word # "little" THEN <<y, x>> ELSE <<x, y>>
<1>1. b[1] = x /\ b[2] = y OBVIOUS
<1>2. (IF reg.word # "little" THEN Swap(b) ELSE b) = ordered BY <1>1 DEF Swap
<1>3. reg.type = "bit" => DecodeRegister(reg, b) = Truth(ordered[1]) BY <1>2 DEF DecodeRegister
<1>4. reg.type # "bit" => DecodeRegister(reg, b) = ParseWords(reg, Bytes(reg, x, y))
  BY <1>2 DEF DecodeRegister, Bytes
<1>5. reg.word = "little" => ordered[1] = x OBVIOUS
<1> HIDE DEF b, ordered
<1>6. reg.type = "bit" => Words(reg) = 1
  <2>1. reg.type = "bit" => SizeOf(reg.type) = 2 BY DEF SizeOf
  <2> QED BY <2>1 DEF Words
<1>7. Words(reg) = 1 => reg.word = "little" BY DEF Sound
<1>8. Words(reg) = 2 => reg.byte = "little" BY DEF Sound
<1>9. reg.type = "bit" => DecodeRegister(reg, b) = Truth(x) BY <1>3, <1>5, <1>6, <1>7
<1>10. ASSUME reg.type # "bit", Words(reg) = 1 PROVE DecodeRegister(reg, b) = TwoBytes(Turned(reg, x))
  <2>1. DecodeRegister(reg, b) = ParseWords(reg, TwoBytes(x)) BY <1>4, <1>7, <1>10, BytesAre
  <2>2. CASE reg.byte = "little" BY <2>1, <2>2 DEF ParseWords, Turned
  <2>3. CASE reg.byte = "big" BY <2>1, <2>3, TwoReversed DEF ParseWords, Turned
  <2> QED BY <2>2, <2>3
<1>11. reg.type # "bit" /\ Words(reg) = 2 => DecodeRegister(reg, b) = Bytes(reg, x, y)
  BY <1>4, <1>8 DEF ParseWords
<1> QED BY <1>9, <1>10, <1>11, BytesAre DEF b

\* Decoding takes back what encoding did.
LEMMA CodecInverse ==
  ASSUME NEW reg, Sound(reg), reg.byte \in {"big", "little"}, NEW b \in Seq(0..255),
         Len(b) = SizeOf(reg.type), reg.type = "bit" => b = Truth(b), NEW x, NEW y,
         x = EncodedBytes(reg, b)[1], Words(reg) = 2 => y = EncodedBytes(reg, b)[2]
  PROVE  DecodeRegister(reg, <<x, y>>) = b
<1>0. b = [i \in 1..Len(b) |-> b[i]] OBVIOUS
<1>1. CASE reg.type = "bit"
  <2>1. x = b BY <1>1, EncodedWords
  <2> QED BY <1>1, <2>1, DecodedBytes
<1>2. CASE reg.type # "bit" /\ Words(reg) = 1
  <2>1. reg.word = "little" /\ SizeOf(reg.type) = 2 BY <1>2, SizeIs DEF Sound
  <2>6. \A i \in 1..Words(reg) : EncodedBytes(reg, b)[i] = Turned(reg, Pair(b, i))
    BY <1>2, EncodedWords
  <2>7. 1 \in 1..Words(reg) BY <1>2
  <2>2. x = Turned(reg, Pair(b, 1)) BY <2>6, <2>7
  <2> DEFINE z == Turned(reg, x)
  <2>3. z[1] = b[1] /\ z[2] = b[2] BY <2>2 DEF Pair, Turned, Swap
  <2>4. DecodeRegister(reg, <<x, y>>) = TwoBytes(z) BY <1>2, DecodedBytes
  <2> HIDE DEF z
  <2>5. \A i \in 1..2 : b[i] = IF i = 1 THEN z[1] ELSE z[2] BY <2>3
  <2> QED BY <1>0, <2>1, <2>4, <2>5 DEF TwoBytes
<1>3. CASE reg.type # "bit" /\ Words(reg) = 2 /\ reg.word = "little"
  <2>1. SizeOf(reg.type) = 4 BY <1>3, SizeIs
  <2>2. x = Pair(b, 1) /\ y = Pair(b, 2) BY <1>3, EncodedWords DEF Sound, Turned
  <2>3. x[1] = b[1] /\ x[2] = b[2] /\ y[1] = b[3] /\ y[2] = b[4] BY <2>2 DEF Pair
  <2>4. DecodeRegister(reg, <<x, y>>) = FourBytes(x, y)
    BY <1>3, DecodedBytes
  <2>5. \A i \in 1..4 : b[i] = IF i = 1 THEN x[1] ELSE IF i = 2 THEN x[2] ELSE IF i = 3 THEN y[1] ELSE y[2]
    BY <2>3
  <2> QED BY <1>0, <2>1, <2>4, <2>5 DEF FourBytes
<1>4. CASE reg.type # "bit" /\ Words(reg) = 2 /\ reg.word # "little"
  <2>1. SizeOf(reg.type) = 4 BY <1>4, SizeIs
  <2>2. x = Pair(b, 2) /\ y = Pair(b, 1) BY <1>4, EncodedWords DEF Sound, Turned
  <2>3. y[1] = b[1] /\ y[2] = b[2] /\ x[1] = b[3] /\ x[2] = b[4] BY <2>2 DEF Pair
  <2>4. DecodeRegister(reg, <<x, y>>) = FourBytes(y, x)
    BY <1>4, DecodedBytes
  <2>5. \A i \in 1..4 : b[i] = IF i = 1 THEN y[1] ELSE IF i = 2 THEN y[2] ELSE IF i = 3 THEN x[1] ELSE x[2]
    BY <2>3
  <2> QED BY <1>0, <2>1, <2>4, <2>5 DEF FourBytes
<1>5. Words(reg) \in {1, 2} BY SizeIs
<1> QED BY <1>1, <1>2, <1>3, <1>4, <1>5

\* The steps of Sorted, of MergeSingle and of Inside, after n registers.
IsSorting(all, out, n, f) ==
  f = [i \in 0..n |-> IF i = 0 THEN Prepared(<<>>)
                      ELSE IF all[i].mode \in out THEN f[i - 1] ELSE Inserted(f[i - 1], all[i])]
IsMerging(all, n, f) == f = [i \in 0..n |-> IF i = 0 THEN <<>> ELSE Merged(f[i - 1], all[i])]
IsTaking(q, all, n, f) ==
  f = [i \in 0..n |-> IF i = 0 THEN <<>>
                      ELSE IF Within(q, all[i]) THEN Append(f[i - 1], all[i]) ELSE f[i - 1]]

\* One more step of the insertion.
SortStep(all, out, i, acc) == IF all[i].mode \in out THEN acc ELSE Inserted(acc, all[i])
TakeStep(q, all, i, acc) == IF Within(q, all[i]) THEN Append(acc, all[i]) ELSE acc

\* The loop of prepareReadableSorted() comes to its end: there are such steps.
LEMMA SortingExists ==
  ASSUME NEW all, NEW out, NEW n \in Nat
  PROVE  \E f : IsSorting(all, out, n, f)
<1> DEFINE S == {m \in Nat : \E f : IsSorting(all, out, m, f)}
<1>1. 0 \in S
  <2> DEFINE f == [i \in 0..0 |-> Prepared(<<>>)]
  <2>1. f = [i \in 0..0 |-> IF i = 0 THEN Prepared(<<>>) ELSE SortStep(all, out, i, f[i - 1])] OBVIOUS
  <2>2. IsSorting(all, out, 0, f) BY <2>1 DEF IsSorting, SortStep
  <2> QED BY <2>2
<1>2. ASSUME NEW m \in Nat, m \in S PROVE m + 1 \in S
  <2>1. PICK f : IsSorting(all, out, m, f) BY <1>2
  <2> DEFINE g == [i \in 0..(m + 1) |-> IF i <= m THEN f[i] ELSE SortStep(all, out, m + 1, f[m])]
             r == [i \in 0..(m + 1) |-> IF i = 0 THEN Prepared(<<>>) ELSE SortStep(all, out, i, g[i - 1])]
  <2>2. f = [i \in 0..m |-> IF i = 0 THEN Prepared(<<>>) ELSE SortStep(all, out, i, f[i - 1])] BY <2>1 DEF IsSorting, SortStep
  <2>3. ASSUME NEW i \in 0..(m + 1) PROVE g[i] = r[i]
    <3>1. CASE i = 0
      <4>1. g[0] = f[0] /\ r[0] = Prepared(<<>>) BY <3>1
      <4>2. f[0] = Prepared(<<>>) BY <2>2
      <4> QED BY <3>1, <4>1, <4>2
    <3>2. CASE i # 0 /\ i <= m
      <4>1. i \in 0..m /\ i - 1 \in 0..(m + 1) /\ i - 1 <= m BY <3>2
      <4>2. g[i] = f[i] /\ g[i - 1] = f[i - 1] /\ r[i] = SortStep(all, out, i, g[i - 1]) BY <3>2, <4>1
      <4>3. f[i] = SortStep(all, out, i, f[i - 1]) BY <2>2, <3>2, <4>1
      <4> QED BY <4>2, <4>3
    <3>3. CASE i = m + 1
      <4>1. m \in 0..(m + 1) /\ m <= m /\ ~(m + 1 <= m) /\ (m + 1) - 1 = m OBVIOUS
      <4>2. g[m + 1] = SortStep(all, out, m + 1, f[m]) /\ g[m] = f[m] BY <4>1
      <4>3. r[m + 1] = SortStep(all, out, m + 1, g[m]) BY <4>1
      <4> QED BY <3>3, <4>2, <4>3
    <3> QED BY <3>1, <3>2, <3>3
  <2>4. g = r BY <2>3
  <2>5. IsSorting(all, out, m + 1, g) BY <2>4 DEF IsSorting, SortStep
  <2> QED BY <2>5
<1> HIDE DEF S
<1>3. Nat \subseteq S BY <1>1, <1>2, SetInduction
<1> QED BY <1>3 DEF S

\* The loop of mergeSingle() comes to its end: there are such steps.
LEMMA MergingExists ==
  ASSUME NEW all, NEW n \in Nat
  PROVE  \E f : IsMerging(all, n, f)
<1> DEFINE S == {m \in Nat : \E f : IsMerging(all, m, f)}
<1>1. 0 \in S
  <2> DEFINE f == [i \in 0..0 |-> <<>>]
  <2>1. f = [i \in 0..0 |-> IF i = 0 THEN <<>> ELSE Merged(f[i - 1], all[i])] OBVIOUS
  <2>2. IsMerging(all, 0, f) BY <2>1 DEF IsMerging
  <2> QED BY <2>2
<1>2. ASSUME NEW m \in Nat, m \in S PROVE m + 1 \in S
  <2>1. PICK f : IsMerging(all, m, f) BY <1>2
  <2> DEFINE g == [i \in 0..(m + 1) |-> IF i <= m THEN f[i] ELSE Merged(f[m], all[m + 1])]
             r == [i \in 0..(m + 1) |-> IF i = 0 THEN <<>> ELSE Merged(g[i - 1], all[i])]
  <2>2. f = [i \in 0..m |-> IF i = 0 THEN <<>> ELSE Merged(f[i - 1], all[i])] BY <2>1 DEF IsMerging
  <2>3. ASSUME NEW i \in 0..(m + 1) PROVE g[i] = r[i]
    <3>1. CASE i = 0
      <4>1. g[0] = f[0] /\ r[0] = <<>> BY <3>1
      <4>2. f[0] = <<>> BY <2>2
      <4> QED BY <3>1, <4>1, <4>2
    <3>2. CASE i # 0 /\ i <= m
      <4>1. i \in 0..m /\ i - 1 \in 0..(m + 1) /\ i - 1 <= m BY <3>2
      <4>2. g[i] = f[i] /\ g[i - 1] = f[i - 1] /\ r[i] = Merged(g[i - 1], all[i]) BY <3>2, <4>1
      <4>3. f[i] = Merged(f[i - 1], all[i]) BY <2>2, <3>2, <4>1
      <4> QED BY <4>2, <4>3
    <3>3. CASE i = m + 1
      <4>1. m \in 0..(m + 1) /\ m <= m /\ ~(m + 1 <= m) /\ (m + 1) - 1 = m OBVIOUS
      <4>2. g[m + 1] = Merged(f[m], all[m + 1]) /\ g[m] = f[m] BY <4>1
      <4>3. r[m + 1] = Merged(g[m], all[m + 1]) BY <4>1
      <4> QED BY <3>3, <4>2, <4>3
    <3> QED BY <3>1, <3>2, <3>3
  <2>4. g = r BY <2>3
  <2>5. IsMerging(all, m + 1, g) BY <2>4 DEF IsMerging
  <2> QED BY <2>5
<1> HIDE DEF S
<1>3. Nat \subseteq S BY <1>1, <1>2, SetInduction
<1> QED BY <1>3 DEF S

\* The loop of prepareSingleManual() comes to its end: there are such steps.
LEMMA TakingExists ==
  ASSUME NEW all, NEW q, NEW n \in Nat
  PROVE  \E f : IsTaking(q, all, n, f)
<1> DEFINE S == {m \in Nat : \E f : IsTaking(q, all, m, f)}
<1>1. 0 \in S
  <2> DEFINE f == [i \in 0..0 |-> <<>>]
  <2>1. f = [i \in 0..0 |-> IF i = 0 THEN <<>> ELSE TakeStep(q, all, i, f[i - 1])] OBVIOUS
  <2>2. IsTaking(q, all, 0, f) BY <2>1 DEF IsTaking, TakeStep
  <2> QED BY <2>2
<1>2. ASSUME NEW m \in Nat, m \in S PROVE m + 1 \in S
  <2>1. PICK f : IsTaking(q, all, m, f) BY <1>2
  <2> DEFINE g == [i \in 0..(m + 1) |-> IF i <= m THEN f[i] ELSE TakeStep(q, all, m + 1, f[m])]
             r == [i \in 0..(m + 1) |-> IF i = 0 THEN <<>> ELSE TakeStep(q, all, i, g[i - 1])]
  <2>2. f = [i \in 0..m |-> IF i = 0 THEN <<>> ELSE TakeStep(q, all, i, f[i - 1])] BY <2>1 DEF IsTaking, TakeStep
  <2>3. ASSUME NEW i \in 0..(m + 1) PROVE g[i] = r[i]
    <3>1. CASE i = 0
      <4>1. g[0] = f[0] /\ r[0] = <<>> BY <3>1
      <4>2. f[0] = <<>> BY <2>2
      <4> QED BY <3>1, <4>1, <4>2
    <3>2. CASE i # 0 /\ i <= m
      <4>1. i \in 0..m /\ i - 1 \in 0..(m + 1) /\ i - 1 <= m BY <3>2
      <4>2. g[i] = f[i] /\ g[i - 1] = f[i - 1] /\ r[i] = TakeStep(q, all, i, g[i - 1]) BY <3>2, <4>1
      <4>3. f[i] = TakeStep(q, all, i, f[i - 1]) BY <2>2, <3>2, <4>1
      <4> QED BY <4>2, <4>3
    <3>3. CASE i = m + 1
      <4>1. m \in 0..(m + 1) /\ m <= m /\ ~(m + 1 <= m) /\ (m + 1) - 1 = m OBVIOUS
      <4>2. g[m + 1] = TakeStep(q, all, m + 1, f[m]) /\ g[m] = f[m] BY <4>1
      <4>3. r[m + 1] = TakeStep(q, all, m + 1, g[m]) BY <4>1
      <4> QED BY <3>3, <4>2, <4>3
    <3> QED BY <3>1, <3>2, <3>3
  <2>4. g = r BY <2>3
  <2>5. IsTaking(q, all, m + 1, g) BY <2>4 DEF IsTaking, TakeStep
  <2> QED BY <2>5
<1> HIDE DEF S
<1>3. Nat \subseteq S BY <1>1, <1>2, SetInduction
<1> QED BY <1>3 DEF S

\* A register with an address; what a list of some of them has in it.
Addressed(S) == \A r \in S : r.index \in Nat
Lists(S) == [ok : BOOLEAN, regs : Seq(S)]

\* An insertion puts the register among those that are there.
LEMMA InsertedAmong ==
  ASSUME NEW S, NEW acc \in Lists(S), NEW reg \in S
  PROVE  Inserted(acc, reg) \in Lists(S)
<1> DEFINE s == acc.regs
           place == LowerBound(s, reg)
           T == {i \in 1..Len(s) : s[i].index < reg.index}
<1>1. s \in Seq(S) /\ Len(s) \in Nat BY DEF Lists
<1>2. place \in Nat /\ place >= 1
  <2>1. IsFiniteSet(1..Len(s)) BY <1>1, FS_Interval
  <2>2. T \in SUBSET (1..Len(s)) OBVIOUS
  <2>3. IsFiniteSet(T) BY <2>1, <2>2, FS_Subset
  <2>4. Cardinality(T) \in Nat BY <2>3, FS_CardinalityType
  <2>5. place = 1 + Cardinality(T) BY DEF LowerBound
  <2> HIDE DEF T, place
  <2> QED BY <2>4, <2>5
<1> HIDE DEF place, s
<1>3. Append(s, reg) \in Seq(S) BY <1>1
<1>4. place <= Len(s) => InsertAt(s, place, reg) \in Seq(S)
  <2> SUFFICES ASSUME place <= Len(s) PROVE InsertAt(s, place, reg) \in Seq(S) OBVIOUS
  <2>1. SubSeq(s, 1, place - 1) \in Seq(S)
    <3>1. \A i \in 1..(place - 1) : s[i] \in S BY <1>1, <1>2
    <3> QED BY <1>1, <1>2, <3>1, SubSeqProperties
  <2>2. SubSeq(s, place, Len(s)) \in Seq(S)
    <3>1. \A i \in place..Len(s) : s[i] \in S BY <1>1, <1>2
    <3> QED BY <1>1, <1>2, <3>1, SubSeqProperties
  <2>3. <<reg>> \in Seq(S) OBVIOUS
  <2>4. SubSeq(s, 1, place - 1) \o <<reg>> \in Seq(S) BY <2>1, <2>3
  <2>5. (SubSeq(s, 1, place - 1) \o <<reg>>) \o SubSeq(s, place, Len(s)) \in Seq(S) BY <2>2, <2>4
  <2> QED BY <2>5 DEF InsertAt
<1>5. \A t \in Seq(S) : Prepared(t) \in Lists(S) BY DEF Prepared, Lists
<1>6. Refused \in Lists(S)
  <2>1. <<>> \in Seq(S) OBVIOUS
  <2> QED BY <2>1 DEF Refused, Lists
<1>7. \/ Inserted(acc, reg) = acc
      \/ Inserted(acc, reg) = Prepared(Append(s, reg))
      \/ Inserted(acc, reg) = Refused
      \/ place <= Len(s) /\ Inserted(acc, reg) = Prepared(InsertAt(s, place, reg))
  BY <1>1, <1>2 DEF Inserted, s, place
<1> QED BY <1>3, <1>4, <1>5, <1>6, <1>7

\* Sorting the registers of a map neither loses its type nor makes new ones.
LEMMA SortedAmong ==
  ASSUME NEW S, NEW all \in Seq(S), NEW out
  PROVE  Sorted(all, out) \in Lists(S)
<1>0. Len(all) \in Nat OBVIOUS
<1> DEFINE f == CHOOSE f : IsSorting(all, out, Len(all), f)
<1>1. IsSorting(all, out, Len(all), f) BY Zenon, <1>0, SortingExists
<1>2. Sorted(all, out) = f[Len(all)] BY DEF Sorted, IsSorting
<1> HIDE DEF f
<1> DEFINE G == {n \in Nat : n <= Len(all) => f[n] \in Lists(S)}
<1>3. 0 \in G
  <2>1. f[0] = Prepared(<<>>) BY <1>0, <1>1 DEF IsSorting
  <2>2. <<>> \in Seq(S) OBVIOUS
  <2>3. Prepared(<<>>) \in Lists(S) BY <2>2 DEF Prepared, Lists
  <2> QED BY <2>1, <2>3
<1>4. ASSUME NEW n \in Nat, n \in G PROVE n + 1 \in G
  <2> SUFFICES ASSUME n + 1 <= Len(all) PROVE f[n + 1] \in Lists(S) OBVIOUS
  <2>1. f[n] \in Lists(S) /\ n + 1 \in 1..Len(all) BY <1>0, <1>4
  <2>2. all[n + 1] \in S BY <2>1
  <2>3. f[n + 1] = IF all[n + 1].mode \in out THEN f[n] ELSE Inserted(f[n], all[n + 1])
    <3>1. n + 1 \in 0..Len(all) /\ n + 1 # 0 /\ (n + 1) - 1 = n BY <1>0
    <3> QED BY <1>1, <3>1 DEF IsSorting
  <2>4. Inserted(f[n], all[n + 1]) \in Lists(S) BY <2>1, <2>2, InsertedAmong
  <2> QED BY <2>1, <2>3, <2>4
<1> HIDE DEF G
<1>5. Nat \subseteq G BY <1>3, <1>4, SetInduction
<1> QED BY <1>0, <1>2, <1>5 DEF G

\* The requests that have all words of their registers, and end with the last one.
Holds(unit, reg) == unit.start <= reg.index /\ Behind(reg) <= unit.start + unit.count
EndsWithLast(unit) == unit.regs # <<>> /\ Behind(unit.regs[Len(unit.regs)]) = unit.start + unit.count
HoldsAll(unit) == \A j \in 1..Len(unit.regs) : Holds(unit, unit.regs[j])
Requests(S) == [start : Nat, count : Nat, regs : Seq(S)]
WholeRequests(S) == {u \in Requests(S) : EndsWithLast(u) /\ HoldsAll(u)}

\* A neighbour joins the request with the words it needs.
LEMMA MergeWhole ==
  ASSUME NEW S, Addressed(S), NEW u \in WholeRequests(S), NEW reg \in S,
         reg.index = Behind(u.regs[Len(u.regs)])
  PROVE  Merge(u, reg) \in WholeRequests(S)
<1> DEFINE rs == u.regs
           m == Merge(u, reg)
           t == Append(rs, reg)
<1>1. u \in Requests(S) /\ EndsWithLast(u) /\ HoldsAll(u) BY DEF WholeRequests
<1>2. u.start \in Nat /\ u.count \in Nat /\ rs \in Seq(S) /\ Len(rs) \in Nat BY <1>1 DEF Requests
<1>3. Words(reg) \in {1, 2} /\ reg.index \in Nat BY SizeIs DEF Addressed
<1>4. m = [start |-> u.start, count |-> u.count + Words(reg), regs |-> t] BY DEF Merge, Request
<1>5. m.start = u.start /\ m.count = u.count + Words(reg) /\ m.regs = t BY <1>4
<1>6. t \in Seq(S) /\ Len(t) = Len(rs) + 1 /\ t[Len(rs) + 1] = reg /\ t # <<>>
      /\ \A j \in 1..Len(rs) : t[j] = rs[j]
  <2> HIDE DEF rs
  <2>1. t \in Seq(S) /\ Len(t) = Len(rs) + 1 BY <1>2, AppendProperties
  <2>2. t[Len(rs) + 1] = reg /\ t # <<>> BY <1>2, AppendProperties
  <2>3. \A j \in 1..Len(rs) : t[j] = rs[j] BY <1>2, AppendProperties
  <2> QED BY <2>1, <2>2, <2>3
<1>7. u.count + Words(reg) \in Nat BY <1>2, <1>3
<1>8. m \in Requests(S) BY <1>2, <1>4, <1>6, <1>7 DEF Requests
<1>9. reg.index = u.start + u.count BY <1>1 DEF EndsWithLast
<1> HIDE DEF m, t, rs
<1>10. Behind(reg) = m.start + m.count BY <1>2, <1>3, <1>5, <1>9 DEF Behind
<1>11. EndsWithLast(m) BY <1>5, <1>6, <1>10 DEF EndsWithLast
<1>12. ASSUME NEW j \in 1..Len(t) PROVE Holds(m, t[j])
  <2>1. CASE j = Len(rs) + 1
    <3>1. t[j] = reg BY <1>6, <2>1
    <3> QED BY <1>2, <1>3, <1>5, <1>9, <1>10, <3>1 DEF Holds, Behind
  <2>2. CASE j \in 1..Len(rs)
    <3>1. t[j] = rs[j] /\ Holds(u, rs[j]) BY <1>1, <1>6, <2>2 DEF HoldsAll, rs
    <3>2. rs[j] \in S BY <1>2, <2>2
    <3>3. rs[j].index \in Nat /\ Words(rs[j]) \in {1, 2} BY <3>2, SizeIs DEF Addressed
    <3>4. u.start <= rs[j].index /\ Behind(rs[j]) <= u.start + u.count BY <3>1 DEF Holds
    <3>5. Behind(rs[j]) \in Nat BY <3>3 DEF Behind
    <3>6. m.start <= rs[j].index /\ Behind(rs[j]) <= m.start + m.count
      BY <1>2, <1>3, <1>5, <3>4, <3>5
    <3> QED BY <3>1, <3>6 DEF Holds
  <2> QED BY <1>2, <1>6, <2>1, <2>2
<1>13. HoldsAll(m) BY <1>5, <1>12 DEF HoldsAll
<1> QED BY <1>8, <1>11, <1>13 DEF WholeRequests, m

\* A request for one register.
LEMMA FirstWhole ==
  ASSUME NEW S, Addressed(S), NEW reg \in S
  PROVE  Request(reg.index, Words(reg), <<reg>>) \in WholeRequests(S)
<1> DEFINE m == Request(reg.index, Words(reg), <<reg>>)
           t == <<reg>>
<1>1. Words(reg) \in {1, 2} /\ Words(reg) \in Nat /\ reg.index \in Nat BY SizeIs DEF Addressed
<1>2. t \in Seq(S) /\ Len(t) = 1 /\ t[1] = reg /\ t # <<>> OBVIOUS
<1>3. m = [start |-> reg.index, count |-> Words(reg), regs |-> t] BY DEF Request
<1>4. m.start = reg.index /\ m.count = Words(reg) /\ m.regs = t BY <1>3
<1> HIDE DEF m, t
<1>5. m \in Requests(S) BY <1>1, <1>2, <1>3 DEF Requests
<1>6. EndsWithLast(m) BY <1>1, <1>2, <1>4 DEF EndsWithLast, Behind
<1>7. HoldsAll(m)
  <2>1. Holds(m, reg) BY <1>1, <1>4 DEF Holds, Behind
  <2>2. \A j \in 1..Len(m.regs) : m.regs[j] = reg BY <1>2, <1>4
  <2> QED BY <2>1, <2>2 DEF HoldsAll
<1> QED BY <1>5, <1>6, <1>7 DEF WholeRequests, m

\* One more register in the requests.
LEMMA MergedWhole ==
  ASSUME NEW S, Addressed(S), NEW units \in Seq(WholeRequests(S)), NEW reg \in S
  PROVE  Merged(units, reg) \in Seq(WholeRequests(S))
<1> DEFINE W == WholeRequests(S)
<1>0. Len(units) \in Nat OBVIOUS
<1>1. CASE units # <<>> /\ reg.index = Behind(Last(Last(units).regs))
  <2> DEFINE u == Last(units)
  <2>1. u = units[Len(units)] /\ Len(units) \in 1..Len(units) BY <1>1 DEF Last
  <2>2. u \in W BY <2>1
  <2>3. reg.index = Behind(u.regs[Len(u.regs)]) BY <1>1 DEF Last
  <2> HIDE DEF u
  <2>4. Merge(u, reg) \in W BY <2>2, <2>3, MergeWhole
  <2>5. Front(units) \in Seq(W)
    <3>1. \A i \in 1..(Len(units) - 1) : units[i] \in W BY <1>0
    <3> QED BY <1>0, <2>1, <3>1, SubSeqProperties DEF Front
  <2>6. Merged(units, reg) = Append(Front(units), Merge(u, reg)) BY <1>1 DEF Merged, u
  <2> HIDE DEF W
  <2> QED BY <2>4, <2>5, <2>6 DEF W
<1>2. CASE ~(units # <<>> /\ reg.index = Behind(Last(Last(units).regs)))
  <2>1. Merged(units, reg) = Append(units, Request(reg.index, Words(reg), <<reg>>)) BY <1>2 DEF Merged
  <2>2. Request(reg.index, Words(reg), <<reg>>) \in W BY FirstWhole
  <2> HIDE DEF W
  <2> QED BY <2>1, <2>2 DEF W
<1> QED BY <1>1, <1>2

\* The requests of mergeSingle() have all words of their registers.
LEMMA MergeSingleWhole ==
  ASSUME NEW S, Addressed(S), NEW all \in Seq(S)
  PROVE  MergeSingle(all) \in Seq(WholeRequests(S))
<1>0. Len(all) \in Nat OBVIOUS
<1> DEFINE f == CHOOSE f : IsMerging(all, Len(all), f)
           W == Seq(WholeRequests(S))
<1>1. IsMerging(all, Len(all), f) BY Zenon, <1>0, MergingExists
<1>2. MergeSingle(all) = f[Len(all)] BY DEF MergeSingle, IsMerging
<1> HIDE DEF f
<1> DEFINE G == {n \in Nat : n <= Len(all) => f[n] \in W}
<1>3. 0 \in G
  <2>1. f[0] = <<>> BY <1>0, <1>1 DEF IsMerging
  <2>2. <<>> \in W OBVIOUS
  <2> QED BY <2>1, <2>2
<1>4. ASSUME NEW n \in Nat, n \in G PROVE n + 1 \in G
  <2> SUFFICES ASSUME n + 1 <= Len(all) PROVE f[n + 1] \in W OBVIOUS
  <2>1. f[n] \in W /\ n + 1 \in 1..Len(all) BY <1>0, <1>4
  <2>2. all[n + 1] \in S BY <2>1
  <2>3. f[n + 1] = Merged(f[n], all[n + 1])
    <3>1. n + 1 \in 0..Len(all) /\ n + 1 # 0 /\ (n + 1) - 1 = n BY <1>0
    <3> QED BY <1>1, <3>1 DEF IsMerging
  <2>4. Merged(f[n], all[n + 1]) \in W BY <2>1, <2>2, MergedWhole
  <2> QED BY <2>3, <2>4
<1> HIDE DEF G
<1>5. Nat \subseteq G BY <1>3, <1>4, SetInduction
<1> QED BY <1>0, <1>2, <1>5 DEF G

\* The registers of a manual query start within it.
LEMMA InsideWithin ==
  ASSUME NEW S, NEW all \in Seq(S), NEW q
  PROVE  Inside(q, all) \in Seq({r \in S : Within(q, r)})
<1>0. Len(all) \in Nat OBVIOUS
<1> DEFINE f == CHOOSE f : IsTaking(q, all, Len(all), f)
           T == {r \in S : Within(q, r)}
<1>1. IsTaking(q, all, Len(all), f) BY Zenon, <1>0, TakingExists
<1>2. Inside(q, all) = f[Len(all)] BY DEF Inside, IsTaking
<1> HIDE DEF f
<1> DEFINE G == {n \in Nat : n <= Len(all) => f[n] \in Seq(T)}
<1>3. 0 \in G
  <2>1. f[0] = <<>> BY <1>0, <1>1 DEF IsTaking
  <2>2. <<>> \in Seq(T) OBVIOUS
  <2> QED BY <2>1, <2>2
<1>4. ASSUME NEW n \in Nat, n \in G PROVE n + 1 \in G
  <2> SUFFICES ASSUME n + 1 <= Len(all) PROVE f[n + 1] \in Seq(T) OBVIOUS
  <2>1. f[n] \in Seq(T) /\ n + 1 \in 1..Len(all) BY <1>0, <1>4
  <2>2. all[n + 1] \in S BY <2>1
  <2>3. f[n + 1] = IF Within(q, all[n + 1]) THEN Append(f[n], all[n + 1]) ELSE f[n]
    <3>1. n + 1 \in 0..Len(all) /\ n + 1 # 0 /\ (n + 1) - 1 = n BY <1>0
    <3> QED BY <1>1, <3>1 DEF IsTaking
  <2>4. CASE Within(q, all[n + 1])
    <3>1. all[n + 1] \in T BY <2>2, <2>4
    <3> HIDE DEF T
    <3> QED BY <2>1, <2>3, <2>4, <3>1
  <2>5. CASE ~Within(q, all[n + 1]) BY <2>1, <2>3, <2>5
  <2> QED BY <2>4, <2>5
<1> HIDE DEF G
<1>5. Nat \subseteq G BY <1>3, <1>4, SetInduction
<1> QED BY <1>0, <1>2, <1>5 DEF G

\* A manual query that was not refused has all words of its registers.
LEMMA ManualWhole ==
  ASSUME NEW S, Addressed(S), NEW all \in Seq(S), NEW q \in [index : Nat, count : Nat],
         Manual(q, all).ok
  PROVE  Manual(q, all).unit \in Requests(S) /\ HoldsAll(Manual(q, all).unit)
<1> DEFINE s == Inside(q, all)
           u == Manual(q, all).unit
<1>1. s \in Seq({r \in S : Within(q, r)}) BY InsideWithin
<1>2. q.index \in Nat /\ q.count \in Nat OBVIOUS
<1>3. u = [start |-> q.index, count |-> q.count, regs |-> s] BY DEF Manual, Request
<1>4. \A i \in 1..Len(s) : RegEnd(s[i]) <= q.index + q.count BY DEF Manual
<1> HIDE DEF s, u
<1>5. Len(s) \in Nat /\ \A i \in 1..Len(s) : s[i] \in S /\ Within(q, s[i]) BY <1>1
<1>6. s \in Seq(S) BY <1>1
<1>7. u \in Requests(S) /\ u.start = q.index /\ u.count = q.count /\ u.regs = s
  BY <1>2, <1>3, <1>6 DEF Requests
<1>8. ASSUME NEW j \in 1..Len(s) PROVE Holds(u, s[j])
  <2>1. s[j] \in S /\ Within(q, s[j]) /\ RegEnd(s[j]) <= q.index + q.count BY <1>4, <1>5
  <2>2. s[j].index \in Nat /\ Words(s[j]) \in {1, 2} BY <2>1, SizeIs DEF Addressed
  <2>3. SizeOf(s[j].type) \in {2, 4} /\ Words(s[j]) <= SizeOf(s[j].type) BY <2>2, SizeIs
  <2> QED BY <1>2, <1>7, <2>1, <2>2, <2>3 DEF Holds, Within, RegEnd, Behind
<1>9. HoldsAll(u) BY <1>7, <1>8 DEF HoldsAll
<1> QED BY <1>7, <1>9 DEF u

\* Validation keeps the key and the address of a register, and leaves it a byte order.
LEMMA ValidatedKeeps ==
  ASSUME NEW kind, NEW reg \in Register
  PROVE  /\ Validated(kind, reg).key = reg.key /\ Validated(kind, reg).index = reg.index
         /\ Validated(kind, reg).byte \in {"big", "little"}
BY DEF Validated, Register

\* Workers start with requests that have all words of their registers.
LEMMA LoopbackStarts ==
  ASSUME LoopbackInit
  PROVE  LoopbackInv
<1>1. PICK f \in Layouts, q \in Queries, kind \in Kinds :
        /\ regs = [k \in KeySet |-> Validated(kind, f[k])]
        /\ Disjoint(regs)
        /\ LET all == [i \in 1..Len(Keys) |-> regs[Keys[i]]]
               sorted == PrepareReadableSorted(all, FALSE) IN
           /\ q.count # 0 => Manual(q, sorted.regs).ok
           /\ reads = Prepare(sorted.regs, q)
  BY DEF LoopbackInit
<1>2. \A k \in KeySet : f[k] \in Register /\ f[k].key = k BY DEF Layouts
<1>3. \A k \in KeySet : /\ regs[k].key = k /\ regs[k].index \in 0..MaxIndex
                        /\ regs[k].byte \in {"big", "little"}
  <2> SUFFICES ASSUME NEW k \in KeySet
               PROVE  /\ regs[k].key = k /\ regs[k].index \in 0..MaxIndex
                      /\ regs[k].byte \in {"big", "little"}
    OBVIOUS
  <2>1. f[k] \in Register /\ f[k].key = k BY <1>2
  <2>2. regs[k] = Validated(kind, f[k]) BY <1>1
  <2>3. regs[k].key = k /\ regs[k].index = f[k].index /\ regs[k].byte \in {"big", "little"}
    BY <2>1, <2>2, ValidatedKeeps
  <2> QED BY <2>1, <2>3 DEF Register
<1>4. LoopbackTypeOK
  <2>1. DOMAIN data = 0..MaxIndex + 1 /\ fresh \subseteq KeySet BY DEF LoopbackInit
  <2>2. DOMAIN slaveState = KeySet /\ DOMAIN masterState = KeySet BY DEF LoopbackInit
  <2> QED BY <1>3, <2>1, <2>2 DEF LoopbackTypeOK
<1>5. SlaveHolds /\ MasterHolds BY DEF LoopbackInit, SlaveHolds, MasterHolds
<1>6. RequestsCover
  <2> DEFINE S == {regs[k] : k \in KeySet}
             all == [i \in 1..Len(Keys) |-> regs[Keys[i]]]
             sorted == PrepareReadableSorted(all, FALSE)
  <2>0. (q.count # 0 => Manual(q, sorted.regs).ok) /\ reads = Prepare(sorted.regs, q) BY <1>1
  <2>1. all \in Seq(S)
    <3>1. Len(Keys) \in Nat /\ \A i \in 1..Len(Keys) : Keys[i] \in KeySet BY LoopbackAssumption
    <3>2. \A i \in 1..Len(Keys) : all[i] \in S BY <3>1
    <3> QED BY <3>1, <3>2
  <2>2. Addressed(S)
    <3>1. \A r \in S : r.index \in 0..MaxIndex BY <1>3
    <3> QED BY <3>1, LoopbackAssumption DEF Addressed
  <2>3. \A r \in S : r.key \in KeySet /\ r = regs[r.key] BY <1>3
  <2> HIDE DEF S, all
  <2>4. sorted \in Lists(S) BY <2>1, SortedAmong DEF PrepareReadableSorted
  <2> HIDE DEF sorted
  <2>5. sorted.regs \in Seq(S) BY <2>4 DEF Lists
  <2>6. q \in [index : Nat, count : Nat] BY LoopbackAssumption
  <2>7. \A i \in 1..Len(reads) : reads[i] \in Requests(S) /\ HoldsAll(reads[i])
    <3>1. CASE q.count = 0
      <4>1. reads = MergeSingle(sorted.regs) BY <2>0, <3>1 DEF Prepare
      <4>2. reads \in Seq(WholeRequests(S)) BY <2>2, <2>5, <4>1, MergeSingleWhole
      <4>3. \A i \in 1..Len(reads) : reads[i] \in WholeRequests(S) BY <4>2
      <4> QED BY <4>3 DEF WholeRequests
    <3>2. CASE q.count # 0
      <4> DEFINE u == Manual(q, sorted.regs).unit
      <4>1. u \in Requests(S) /\ HoldsAll(u) BY <2>0, <2>2, <2>5, <2>6, <3>2, ManualWhole
      <4>2. reads = <<u>> BY <2>0, <3>2 DEF Prepare
      <4> HIDE DEF u
      <4>3. \A i \in 1..Len(reads) : reads[i] = u BY <4>2
      <4> QED BY <4>1, <4>3
    <3> QED BY <3>1, <3>2
  <2>8. ASSUME NEW i \in 1..Len(reads)
        PROVE  /\ reads[i].start \in Nat /\ reads[i].count \in Nat
               /\ \A j \in 1..Len(reads[i].regs) : Covered(reads[i], reads[i].regs[j])
    <3> DEFINE u == reads[i]
    <3>1. u \in Requests(S) /\ HoldsAll(u) BY <2>7
    <3> HIDE DEF u
    <3>2. u.start \in Nat /\ u.count \in Nat /\ u.regs \in Seq(S) BY <3>1 DEF Requests
    <3>3. ASSUME NEW j \in 1..Len(u.regs) PROVE Covered(u, u.regs[j])
      <4>1. u.regs[j] \in S BY <3>2
      <4>2. Holds(u, u.regs[j]) BY <3>1 DEF HoldsAll
      <4> QED BY <2>3, <4>1, <4>2 DEF Covered, Holds
    <3> QED BY <3>2, <3>3 DEF u
  <2> QED BY <2>8 DEF RequestsCover
<1> QED BY <1>1, <1>4, <1>5, <1>6 DEF LoopbackInv

\* The table d differs from the server's at most in size words from address on.
SameOutside(d, address, size) ==
  /\ DOMAIN d = DOMAIN data
  /\ \A a \in DOMAIN data : a < address \/ a >= address + size => d[a] = data[a]

\* A register that is not touched has the same meaning before and after.
LEMMA Untouched ==
  ASSUME LoopbackTypeOK, NEW k \in KeySet, NEW d, NEW address \in Nat, NEW size \in Nat,
         SameOutside(d, address, size), ~Touches(regs[k], address, size), NEW rest
  PROVE  Buffer(regs[k], d, rest) = Buffer(regs[k], data, rest)
<1> DEFINE r == regs[k]
<1>1. r.index \in 0..MaxIndex /\ Words(r) \in {1, 2} /\ MaxIndex \in Nat
  BY SizeIs, LoopbackAssumption DEF LoopbackTypeOK
<1>2. DOMAIN data = 0..MaxIndex + 1 BY DEF LoopbackTypeOK
<1>3. r.index + Words(r) <= address \/ r.index >= address + size
  BY <1>1 DEF Touches, Behind
<1> HIDE DEF r
<1>4. r.index \in DOMAIN data /\ r.index + 1 \in DOMAIN data BY <1>1, <1>2
<1>5. d[r.index] = data[r.index] BY <1>1, <1>3, <1>4 DEF SameOutside
<1>6. Words(r) = 2 => d[r.index + 1] = data[r.index + 1] BY <1>1, <1>3, <1>4 DEF SameOutside
<1>7. Buffer(r, d, rest) = Buffer(r, data, rest) BY <1>5, <1>6 DEF Buffer
<1> QED BY <1>7 DEF r

\* Storing the words of a register changes those words only.
LEMMA StoredOutside ==
  ASSUME LoopbackTypeOK, NEW k \in KeySet, NEW words, Len(words) \in Nat
  PROVE  SameOutside(WordsStored(regs[k], words, data), regs[k].index, Len(words))
<1> DEFINE r == regs[k]
<1>1. r.index \in Nat BY LoopbackAssumption DEF LoopbackTypeOK
<1>2. DOMAIN data = 0..MaxIndex + 1 BY DEF LoopbackTypeOK
<1> HIDE DEF r
<1>3. ASSUME NEW a \in DOMAIN data, a < r.index \/ a >= r.index + Len(words)
      PROVE  WordsStored(r, words, data)[a] = data[a]
  <2>1. a \in Nat BY <1>2, LoopbackAssumption
  <2>2. ~(a - r.index + 1 \in 1..Len(words)) BY <1>1, <1>3, <2>1
  <2> QED BY <2>2 DEF WordsStored
<1>4. DOMAIN WordsStored(r, words, data) = DOMAIN data BY DEF WordsStored
<1> QED BY <1>3, <1>4 DEF SameOutside, r

\* The words that were stored are there.
LEMMA StoredThere ==
  ASSUME LoopbackTypeOK, NEW k \in KeySet, NEW words, Len(words) = Words(regs[k])
  PROVE  /\ WordsStored(regs[k], words, data)[regs[k].index] = words[1]
         /\ Words(regs[k]) = 2 => WordsStored(regs[k], words, data)[regs[k].index + 1] = words[2]
<1> DEFINE r == regs[k]
<1>1. r.index \in 0..MaxIndex /\ Words(r) \in {1, 2} /\ MaxIndex \in Nat
  BY SizeIs, LoopbackAssumption DEF LoopbackTypeOK
<1>2. DOMAIN data = 0..MaxIndex + 1 BY DEF LoopbackTypeOK
<1>3. r.index \in DOMAIN data /\ r.index + 1 \in DOMAIN data BY <1>1, <1>2
<1>4. Len(words) = Words(r) OBVIOUS
<1> HIDE DEF r
<1>5. r.index - r.index + 1 = 1 /\ (r.index + 1) - r.index + 1 = 2 BY <1>1
<1>6. 1 \in 1..Len(words) /\ (Words(r) = 2 => 2 \in 1..Len(words)) BY <1>1, <1>4
<1>7. WordsStored(r, words, data)[r.index] = words[1] BY <1>3, <1>5, <1>6 DEF WordsStored
<1>8. Words(r) = 2 => WordsStored(r, words, data)[r.index + 1] = words[2]
  BY <1>3, <1>5, <1>6 DEF WordsStored
<1> QED BY <1>7, <1>8 DEF r

\* A word from another client changes that word only.
LEMMA RemoteOutside ==
  ASSUME LoopbackTypeOK, NEW a \in DOMAIN data, NEW word
  PROVE  SameOutside([data EXCEPT ![a] = word], a, 1) /\ a \in Nat
<1>1. DOMAIN data = 0..MaxIndex + 1 /\ MaxIndex \in Nat BY LoopbackAssumption DEF LoopbackTypeOK
<1>2. a \in Nat BY <1>1
<1>3. ASSUME NEW b \in DOMAIN data, b < a \/ b >= a + 1 PROVE [data EXCEPT ![a] = word][b] = data[b]
  <2>1. b \in Nat BY <1>1
  <2>2. b # a BY <1>2, <1>3, <2>1
  <2> QED BY <2>2
<1>4. DOMAIN [data EXCEPT ![a] = word] = DOMAIN data OBVIOUS
<1> QED BY <1>2, <1>3, <1>4 DEF SameOutside

\* The parts of the invariant that the register maps alone make up stay.
LEMMA MapsStay ==
  ASSUME LoopbackInv, regs' = regs, reads' = reads
  PROVE  Disjoint(regs)' /\ RequestsCover'
BY DEF LoopbackInv, Disjoint, RequestsCover, Covered, Words, Behind

\* What the slave has for a register: a value that was given, or that was decoded.
LEMMA SlaveValueIs ==
  ASSUME NEW k, NEW v, NEW b
  PROVE  /\ slaveState[k] = Given(v) => SlaveValue(k) = InRegister(regs[k].type, v)
         /\ slaveState[k] = Decoded(b) => SlaveValue(k) = b
         /\ (regs' = regs /\ slaveState'[k] = Given(v)) => SlaveValue(k)' = InRegister(regs[k].type, v)
         /\ slaveState'[k] = Decoded(b) => SlaveValue(k)' = b
         /\ (regs' = regs /\ slaveState'[k] = slaveState[k]) => SlaveValue(k)' = SlaveValue(k)
BY DEF SlaveValue, Given, Decoded

\* A write that the slave reports: touched registers are decoded, others mean the same.
LEMMA OnDataWrittenHolds ==
  ASSUME LoopbackInv, NEW d, NEW address \in Nat, NEW size \in Nat,
         SameOutside(d, address, size), OnDataWritten(d, address, size)
  PROVE  LoopbackInv'
<1>0. LoopbackTypeOK /\ SlaveHolds BY DEF LoopbackInv
<1>1. regs' = regs /\ reads' = reads /\ data' = d /\ fresh' = {} /\ masterState' = masterState
  BY DEF OnDataWritten
<1>2. slaveState' = [k \in KeySet |->
        IF Touches(regs[k], address, size)
          THEN Decoded(DecodeRegister(regs[k], Buffer(regs[k], d, <<0, 0>>)))
          ELSE slaveState[k]]
  BY DEF OnDataWritten
<1>3. LoopbackTypeOK' BY <1>0, <1>1, <1>2 DEF LoopbackTypeOK, SameOutside
<1>4. ASSUME NEW k \in KeySet, Sound(regs[k]), slaveState'[k] # Unknown PROVE SlaveValue(k)' = Held(k)'
  <2>1. Held(k)' = DecodeRegister(regs[k], Buffer(regs[k], d, <<0, 0>>)) BY <1>1 DEF Held
  <2>2. CASE Touches(regs[k], address, size)
    <3>1. slaveState'[k] = Decoded(Held(k)') BY <1>2, <2>1, <2>2
    <3> QED BY <3>1, SlaveValueIs
  <2>3. CASE ~Touches(regs[k], address, size)
    <3>1. slaveState'[k] = slaveState[k] BY <1>2, <2>3
    <3>2. SlaveValue(k)' = SlaveValue(k) /\ SlaveValue(k) = Held(k)
      BY <1>0, <1>1, <1>4, <3>1, SlaveValueIs DEF SlaveHolds
    <3>3. Buffer(regs[k], d, <<0, 0>>) = Buffer(regs[k], data, <<0, 0>>) BY <1>0, <2>3, Untouched
    <3> QED BY <2>1, <3>1, <3>2, <3>3 DEF Held
  <2> QED BY <2>2, <2>3
<1>5. SlaveHolds' BY <1>1, <1>4 DEF SlaveHolds
<1>6. MasterHolds' BY <1>1 DEF MasterHolds
<1> QED BY <1>1, <1>3, <1>5, <1>6, MapsStay DEF LoopbackInv

\* The words of a value a script writes.
LEMMA WrittenWords ==
  ASSUME LoopbackInv, NEW k \in KeySet, NEW v \in ScriptValues, EncodeRegister(regs[k], v) # <<>>
  PROVE  Len(EncodeRegister(regs[k], v)) = Words(regs[k]) /\ Words(regs[k]) \in Nat
<1> DEFINE b == InRegister(regs[k].type, v)
<1>1. b # <<>> /\ EncodeRegister(regs[k], v) = EncodedBytes(regs[k], b) BY EncodedIs
<1>2. Words(regs[k]) \in {1, 2} BY SizeIs
<1>3. b \in Seq(0..255) /\ Len(b) = SizeOf(regs[k].type) BY <1>1, InRegisterBytes
<1> HIDE DEF b
<1> QED BY <1>1, <1>2, <1>3, EncodedWords

\* The slave's script writes a register: it means the value, the others what they did.
LEMMA SlaveOnMsgHolds ==
  ASSUME LoopbackInv, NEW k \in KeySet, NEW v \in ScriptValues, SlaveOnMsg(k, v)
  PROVE  LoopbackInv'
<1> DEFINE words == EncodeRegister(regs[k], v)
           d == WordsStored(regs[k], words, data)
<1>0. LoopbackTypeOK /\ SlaveHolds /\ Disjoint(regs) BY DEF LoopbackInv
<1>1. /\ words # <<>> /\ data' = d /\ slaveState' = [slaveState EXCEPT ![k] = Given(v)]
      /\ regs' = regs /\ reads' = reads /\ fresh' = {} /\ masterState' = masterState
  BY DEF SlaveOnMsg
<1>2. Len(words) = Words(regs[k]) /\ Words(regs[k]) \in Nat BY <1>1, WrittenWords
<1>3. SameOutside(d, regs[k].index, Words(regs[k])) BY <1>0, <1>2, StoredOutside
<1>4. regs[k].index \in Nat BY <1>0, LoopbackAssumption DEF LoopbackTypeOK
<1>5. DOMAIN slaveState = KeySet BY <1>0 DEF LoopbackTypeOK
<1>6. LoopbackTypeOK' BY <1>0, <1>1, <1>3 DEF LoopbackTypeOK, SameOutside
<1>7. ASSUME NEW j \in KeySet, Sound(regs[j]), slaveState'[j] # Unknown PROVE SlaveValue(j)' = Held(j)'
  <2>1. Held(j)' = DecodeRegister(regs[j], Buffer(regs[j], d, <<0, 0>>)) BY <1>1 DEF Held
  <2>2. CASE j = k
    <3> DEFINE y == IF Words(regs[k]) = 2 THEN d[regs[k].index + 1] ELSE <<0, 0>>
           b == InRegister(regs[k].type, v)
    <3>1. slaveState'[j] = Given(v) BY <1>1, <1>5, <2>2
    <3>7. SlaveValue(j)' = b BY <1>1, <2>2, <3>1, SlaveValueIs
    <3>2. b # <<>> /\ words = EncodedBytes(regs[k], b) BY <1>1, EncodedIs
    <3>8. /\ b \in Seq(0..255) /\ Len(b) = SizeOf(regs[k].type)
          /\ regs[k].type = "bit" => b \in {<<0, 0>>, <<1, 0>>}
      BY <3>2, InRegisterBytes
    <3>3. d[regs[k].index] = words[1] /\ (Words(regs[k]) = 2 => y = words[2])
      BY <1>0, <1>2, StoredThere
    <3>4. Buffer(regs[k], d, <<0, 0>>) = <<d[regs[k].index], y>> BY DEF Buffer
    <3>9. Sound(regs[k]) /\ regs[k].byte \in {"big", "little"} BY <1>0, <1>7, <2>2 DEF LoopbackTypeOK
    <3> HIDE DEF d, y, b
    <3>5. regs[k].type = "bit" => b = Truth(b) BY <3>8 DEF Truth
    <3>6. DecodeRegister(regs[k], <<d[regs[k].index], y>>) = b
      BY <3>2, <3>3, <3>5, <3>8, <3>9, CodecInverse
    <3> QED BY <2>1, <2>2, <3>4, <3>6, <3>7
  <2>3. CASE j # k
    <3>1. slaveState'[j] = slaveState[j] BY <1>1, <1>5, <2>3
    <3>2. SlaveValue(j)' = SlaveValue(j) /\ SlaveValue(j) = Held(j)
      BY <1>0, <1>1, <1>7, <3>1, SlaveValueIs DEF SlaveHolds
    <3>3. Behind(regs[j]) <= regs[k].index \/ Behind(regs[k]) <= regs[j].index
      BY <1>0, <2>3 DEF Disjoint
    <3>4. regs[j].index \in Nat /\ Words(regs[j]) \in {1, 2}
      BY <1>0, LoopbackAssumption, SizeIs DEF LoopbackTypeOK
    <3>5. ~Touches(regs[j], regs[k].index, Words(regs[k]))
      BY <1>2, <1>4, <3>3, <3>4 DEF Touches, Behind
    <3> HIDE DEF d
    <3>6. Buffer(regs[j], d, <<0, 0>>) = Buffer(regs[j], data, <<0, 0>>)
      BY <1>0, <1>2, <1>3, <1>4, <3>5, Untouched
    <3> QED BY <2>1, <3>1, <3>2, <3>6 DEF Held
  <2> QED BY <2>2, <2>3
<1>8. SlaveHolds' BY <1>1, <1>7 DEF SlaveHolds
<1>9. MasterHolds' BY <1>1 DEF MasterHolds
<1> QED BY <1>1, <1>6, <1>8, <1>9, MapsStay DEF LoopbackInv

\* The master writes a register.
LEMMA MasterWriteHolds ==
  ASSUME LoopbackInv, NEW k \in KeySet, NEW v \in ScriptValues, MasterWrite(k, v)
  PROVE  LoopbackInv'
<1> DEFINE words == EncodeRegister(regs[k], v)
           d == WordsStored(regs[k], words, data)
<1>1. words # <<>> /\ OnDataWritten(d, regs[k].index, Len(words)) BY DEF MasterWrite
<1>2. Len(words) \in Nat BY <1>1, WrittenWords
<1>3. LoopbackTypeOK BY DEF LoopbackInv
<1>4. regs[k].index \in Nat BY <1>3, LoopbackAssumption DEF LoopbackTypeOK
<1>5. SameOutside(d, regs[k].index, Len(words)) BY <1>2, <1>3, StoredOutside
<1> HIDE DEF d, words
<1> QED BY <1>1, <1>2, <1>4, <1>5, OnDataWrittenHolds

\* Another client writes a word.
LEMMA RemoteWriteHolds ==
  ASSUME LoopbackInv, NEW a \in DOMAIN data, NEW word, RemoteWrite(a, word)
  PROVE  LoopbackInv'
<1> DEFINE d == [data EXCEPT ![a] = word]
<1>1. OnDataWritten(d, a, 1) BY DEF RemoteWrite
<1>2. LoopbackTypeOK BY DEF LoopbackInv
<1>3. SameOutside(d, a, 1) /\ a \in Nat BY <1>2, RemoteOutside
<1> HIDE DEF d
<1> QED BY <1>1, <1>3, OnDataWrittenHolds

\* What a register means does not depend on the rest of the buffer.
LEMMA RestIgnored ==
  ASSUME NEW reg, Sound(reg), reg.byte \in {"big", "little"}, NEW d, NEW rest
  PROVE  DecodeRegister(reg, Buffer(reg, d, rest)) = DecodeRegister(reg, Buffer(reg, d, <<0, 0>>))
<1> DEFINE x == d[reg.index]
           z == <<0, 0>>
<1>1. CASE Words(reg) = 2
  <2>1. Buffer(reg, d, rest) = Buffer(reg, d, z) BY <1>1 DEF Buffer
  <2> QED BY <2>1
<1>2. CASE Words(reg) # 2
  <2>1. Words(reg) = 1 BY <1>2, SizeIs
  <2>2. Buffer(reg, d, rest) = <<x, rest>> /\ Buffer(reg, d, z) = <<x, z>> BY <1>2 DEF Buffer
  <2> HIDE DEF x, z
  <2>3. CASE reg.type = "bit"
    <3>1. DecodeRegister(reg, <<x, rest>>) = Truth(x) /\ DecodeRegister(reg, <<x, z>>) = Truth(x)
      BY <2>3, DecodedBytes
    <3> QED BY <2>2, <3>1 DEF z
  <2>4. CASE reg.type # "bit"
    <3>1. /\ DecodeRegister(reg, <<x, rest>>) = TwoBytes(Turned(reg, x))
          /\ DecodeRegister(reg, <<x, z>>) = TwoBytes(Turned(reg, x))
      BY <2>1, <2>4, DecodedBytes
    <3> QED BY <2>2, <3>1 DEF z
  <2> QED BY <2>3, <2>4
<1> QED BY <1>1, <1>2

\* A poll decodes what the table means: the response has all words of each register.
LEMMA PollHolds ==
  ASSUME LoopbackInv, NEW i \in 1..Len(reads), NEW rest, Poll(reads[i], rest)
  PROVE  LoopbackInv'
<1> DEFINE u == reads[i]
           polled == {u.regs[n].key : n \in 1..Len(u.regs)}
           answer == [a \in DOMAIN data |-> IF a >= u.start THEN Response(u, a) ELSE <<0, 0>>]
<1>0. LoopbackTypeOK /\ RequestsCover /\ SlaveHolds /\ MasterHolds BY DEF LoopbackInv
<1>1. /\ regs' = regs /\ reads' = reads /\ data' = data /\ slaveState' = slaveState
      /\ fresh' = fresh \cup polled
      /\ masterState' = [k \in KeySet |->
           IF k \in polled THEN DecodeRegister(regs[k], Buffer(regs[k], answer, rest)) ELSE masterState[k]]
  BY DEF Poll
<1>2. u.start \in Nat /\ u.count \in Nat /\ \A j \in 1..Len(u.regs) : Covered(u, u.regs[j])
  BY <1>0 DEF RequestsCover
<1>3. \A k \in polled : k \in KeySet /\ Covered(u, regs[k]) BY <1>2 DEF Covered
<1>4. DOMAIN data = 0..MaxIndex + 1 /\ MaxIndex \in Nat BY <1>0, LoopbackAssumption DEF LoopbackTypeOK
<1>5. \A a \in DOMAIN data : a >= u.start /\ a < u.start + u.count => answer[a] = data[a]
  <2> SUFFICES ASSUME NEW a \in DOMAIN data, a >= u.start, a < u.start + u.count PROVE answer[a] = data[a]
    OBVIOUS
  <2>1. a \in Nat BY <1>4
  <2>2. a - u.start < u.count BY <1>2, <2>1
  <2>3. Response(u, a) = data[a] BY <2>2 DEF Response
  <2> QED BY <2>3
<1> HIDE DEF answer, polled, u
<1>6. LoopbackTypeOK'
  <2>1. fresh' \subseteq KeySet BY <1>0, <1>1, <1>3 DEF LoopbackTypeOK
  <2> QED BY <1>0, <1>1, <2>1 DEF LoopbackTypeOK
<1>7. SlaveHolds' BY <1>0, <1>1 DEF SlaveHolds, SlaveValue, Held
<1>8. ASSUME NEW k \in fresh', Sound(regs[k]) PROVE masterState'[k] = Held(k)'
  <2>1. Held(k)' = Held(k) BY <1>1 DEF Held
  <2>2. k \in KeySet BY <1>0, <1>1, <1>3 DEF LoopbackTypeOK
  <2>3. CASE k \in polled
    <3> DEFINE r == regs[k]
    <3>1. masterState'[k] = DecodeRegister(r, Buffer(r, answer, rest)) BY <1>1, <2>2, <2>3
    <3>2. u.start <= r.index /\ Behind(r) <= u.start + u.count BY <1>3, <2>3 DEF Covered
    <3>3. r.index \in 0..MaxIndex /\ Words(r) \in {1, 2} BY <1>0, <2>2, SizeIs DEF LoopbackTypeOK
    <3>4. Sound(r) /\ r.byte \in {"big", "little"} BY <1>0, <1>8, <2>2 DEF LoopbackTypeOK
    <3> HIDE DEF r
    <3>5. r.index \in DOMAIN data /\ r.index + 1 \in DOMAIN data BY <1>4, <3>3
    <3>10. r.index \in Nat /\ Behind(r) = r.index + Words(r) BY <1>4, <3>3 DEF Behind
    <3>11. r.index >= u.start /\ r.index < u.start + u.count
      BY <1>2, <3>2, <3>3, <3>10
    <3>12. Words(r) = 2 => r.index + 1 >= u.start /\ r.index + 1 < u.start + u.count
      BY <1>2, <3>2, <3>3, <3>10
    <3>6. answer[r.index] = data[r.index] BY <1>5, <3>5, <3>11
    <3>7. Words(r) = 2 => answer[r.index + 1] = data[r.index + 1] BY <1>5, <3>5, <3>12
    <3>8. Buffer(r, answer, <<0, 0>>) = Buffer(r, data, <<0, 0>>) BY <3>6, <3>7 DEF Buffer
    <3>9. DecodeRegister(r, Buffer(r, answer, rest)) = DecodeRegister(r, Buffer(r, answer, <<0, 0>>))
      BY <3>4, RestIgnored
    <3> QED BY <2>1, <3>1, <3>8, <3>9 DEF Held, r
  <2>4. CASE k \notin polled
    <3>1. k \in fresh /\ masterState'[k] = masterState[k] BY <1>1, <2>2, <2>4
    <3> QED BY <1>0, <1>8, <2>1, <3>1 DEF MasterHolds
  <2> QED BY <2>3, <2>4
<1>9. MasterHolds' BY <1>1, <1>8 DEF MasterHolds
<1> QED BY <1>1, <1>6, <1>7, <1>9, MapsStay DEF LoopbackInv

\* A step that leaves the table and the values alone.
LEMMA LoopbackStutters ==
  ASSUME LoopbackInv, regs' = regs, reads' = reads, data' = data, slaveState' = slaveState,
         masterState' = masterState, fresh' = fresh
  PROVE  LoopbackInv'
<1>1. LoopbackTypeOK' /\ SlaveHolds' /\ MasterHolds'
  BY DEF LoopbackInv, LoopbackTypeOK, SlaveHolds, MasterHolds, SlaveValue, Held
<1> QED BY <1>1, MapsStay DEF LoopbackInv

\* Every step keeps the meaning of the registers.
LEMMA LoopbackKeeps == LoopbackInv /\ [LoopbackNext]_loopbackVars => LoopbackInv'
<1> SUFFICES ASSUME LoopbackInv, [LoopbackNext]_loopbackVars PROVE LoopbackInv' OBVIOUS
<1>1. CASE \E k \in KeySet, v \in ScriptValues : SlaveOnMsg(k, v) \/ MasterWrite(k, v)
  BY <1>1, SlaveOnMsgHolds, MasterWriteHolds
<1>2. CASE \E a \in DOMAIN data, word \in Words16 : RemoteWrite(a, word)
  BY <1>2, RemoteWriteHolds
<1>3. CASE \E i \in 1..Len(reads), rest \in Words16 : Poll(reads[i], rest)
  BY <1>3, PollHolds
<1>4. CASE \E ok \in BOOLEAN : Listen(ok) BY <1>4, LoopbackStutters DEF Listen
<1>5. CASE Stopped BY <1>5, LoopbackStutters DEF Stopped
<1>6. CASE UNCHANGED loopbackVars BY <1>6, LoopbackStutters DEF loopbackVars
<1> QED BY <1>1, <1>2, <1>3, <1>4, <1>5, <1>6 DEF LoopbackNext

(***************************************************************************)
(* A register the master has polled since the last change has the value    *)
(* the slave holds for it, converted once to the register's type, for any  *)
(* map of registers that do not overlap, any types, addresses, values and  *)
(* conversions, merged requests or a manual query, and whoever writes.     *)
(* Registers with a packing encodeRegister() and decodeRegister() are not  *)
(* inverse for are there too, and disturb no other.                        *)
(***************************************************************************)
THEOREM LoopbackRoundTrip == LoopbackSpec => []LoopbackAgrees
<1>1. LoopbackInit => LoopbackInv BY LoopbackStarts
<1>2. LoopbackInv /\ [LoopbackNext]_loopbackVars => LoopbackInv' BY LoopbackKeeps
<1>3. LoopbackInv => LoopbackAgrees
  BY DEF LoopbackInv, LoopbackAgrees, LoopbackTypeOK, SlaveHolds, MasterHolds
<1> QED BY <1>1, <1>2, <1>3, PTL DEF LoopbackSpec
=============================================================================
