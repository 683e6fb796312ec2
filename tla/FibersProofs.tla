---------------------------- MODULE FibersProofs ----------------------------
(***************************************************************************)
(* Proofs about the fiber pool, for every set of fibers and entries and    *)
(* every pool size.                                                        *)
(***************************************************************************)
EXTENDS Fibers, FiniteSetTheorems, TLAPS

\* returnFiber parks a fiber only below the limit, so the bound on the parked
\* fibers is kept when one fiber more becomes parked.
LEMMA ParkOne ==
  ASSUME NEW S \in SUBSET Fiber, NEW f \in Fiber, Cardinality(S) < PoolSize
  PROVE  Cardinality(S \union {f}) <= PoolSize
<1>1. IsFiniteSet(S) BY FS_Subset, FibersAssumption
<1>2. Cardinality(S) \in Nat BY <1>1, FS_CardinalityType
<1>3. CASE f \in S
  <2>1. S \union {f} = S BY <1>3
  <2> QED BY <2>1, <1>2, FibersAssumption
<1>4. CASE f \notin S
  <2>1. Cardinality(S \union {f}) = Cardinality(S) + 1
    BY <1>1, <1>4, FS_AddElement
  <2> QED BY <2>1, <1>2, FibersAssumption
<1> QED BY <1>3, <1>4

\* Unparking fibers keeps the bound.
LEMMA ParkFewer ==
  ASSUME NEW S \in SUBSET Fiber, NEW T \in SUBSET S, Cardinality(S) <= PoolSize
  PROVE  Cardinality(T) <= PoolSize
<1>1. IsFiniteSet(S) BY FS_Subset, FibersAssumption
<1>2. Cardinality(T) <= Cardinality(S) /\ IsFiniteSet(T) BY <1>1, FS_Subset
<1>3. Cardinality(T) \in Nat /\ Cardinality(S) \in Nat
  BY <1>1, <1>2, FS_CardinalityType
<1> QED BY <1>2, <1>3, FibersAssumption

USE DEF CoroState, HolderState, EntryState, StopState

\* Initially there is no fiber at all.
LEMMA FibersInitInv == FibersInit => FibersInv
<1> SUFFICES ASSUME FibersInit PROVE FibersInv OBVIOUS
<1> USE FibersAssumption DEF FibersInit
<1>1. parked = {} BY DEF parked
<1>2. Cardinality(parked) = 0 BY <1>1, FS_EmptySet
<1>3. TypeOK
  BY <1>2 DEF TypeOK
<1>4. PoolKnowsBusy /\ CurrentIsExecuting /\ FiberConsistent
  BY DEF PoolKnowsBusy, CurrentIsExecuting, FiberConsistent
<1> QED BY <1>3, <1>4 DEF FibersInv

\* Steps after which no more fibers are parked than before keep the bound.
LEMMA ParkStill ==
  ASSUME TypeOK, \A f \in Fiber : holder'[f] = "pool" => holder[f] = "pool"
  PROVE  Cardinality(parked') <= PoolSize
<1>1. parked \in SUBSET Fiber /\ parked' \in SUBSET parked BY DEF parked
<1> QED BY <1>1, ParkFewer DEF TypeOK

\* Leaving entries of the current fiber keeps the types.
LEMMA LeaveType ==
  ASSUME TypeOK, current # None, NEW rest \in Seq(Entry), NEW how \in EntryState, Leave(rest, how)
  PROVE  TypeOK'
<1> USE FibersAssumption
<1>0. current \in Fiber /\ parked \in SUBSET Fiber BY DEF TypeOK, parked
<1>1. work' \in [Fiber -> Seq(Entry)] /\ entry' \in [Entry -> EntryState]
  BY <1>0 DEF TypeOK, Leave, EndAll
<1>2. CASE rest # <<>>
  <2>1. UNCHANGED <<coro, holder, flying, current, detached, stop, stragglers>>
    BY <1>2 DEF Leave
  <2>2. parked' = parked BY <2>1 DEF parked
  <2> QED BY <1>1, <2>1, <2>2 DEF TypeOK
<1>3. CASE rest = <<>>
  <2> DEFINE keep == Cardinality(parked) < PoolSize
  <2>1. /\ coro' = [coro EXCEPT ![current] = IF keep THEN "idle" ELSE "none"]
        /\ holder' = [holder EXCEPT ![current] = IF keep THEN "pool" ELSE "none"]
        /\ flying' = flying \ {current}
        /\ current' = None
        /\ UNCHANGED <<detached, stop, stragglers>>
    BY <1>3 DEF Leave, ReturnFiber
  <2>2. Cardinality(parked') <= PoolSize
    <3>1. CASE keep
      <4>1. parked' = parked \union {current} BY <1>0, <2>1, <3>1 DEF parked, TypeOK
      <4> QED BY <1>0, <3>1, <4>1, ParkOne
    <3>2. CASE ~keep
      <4>1. parked' \in SUBSET parked BY <1>0, <2>1, <3>2 DEF parked, TypeOK
      <4> QED BY <1>0, <4>1, ParkFewer DEF TypeOK
    <3> QED BY <3>1, <3>2
  <2> QED BY <1>0, <1>1, <2>1, <2>2 DEF TypeOK
<1> QED BY <1>2, <1>3

\* The rest of the entries after a return or after a ForcedShutdown.
LEMMA RestType ==
  ASSUME TypeOK, current # None
  PROVE  /\ SubSeq(work[current], 1, Len(work[current]) - 1) \in Seq(Entry)
         /\ \A d \in 1..Len(work[current]) : SubSeq(work[current], 1, d - 1) \in Seq(Entry)
<1>1. work[current] \in Seq(Entry) BY DEF TypeOK
<1> QED BY <1>1

\* FiberPool::Run, in each of its forms, and spawn() keep the types.
LEMMA RunType ==
  ASSUME TypeOK, NEW e \in Entry, RunFresh(e) \/ RunInline(e) \/ RunRefused(e) \/ Spawn(e)
  PROVE  TypeOK'
<1>1. CASE RunFresh(e)
  <2>1. PICK f \in Fiber :
          /\ coro' = [coro EXCEPT ![f] = "running"]
          /\ holder' = [holder EXCEPT ![f] = "frame"]
          /\ detached' = detached \ {f}
          /\ flying' = flying \union {f}
          /\ current' = f
          /\ work' = [work EXCEPT ![f] = <<e>>]
    BY <1>1 DEF RunFresh
  <2>2. entry' = [entry EXCEPT ![e] = "live"] /\ stop' = stop /\ stragglers' = stragglers
    BY <1>1 DEF RunFresh
  <2>3. Cardinality(parked') <= PoolSize BY <2>1, ParkStill DEF TypeOK
  <2> QED BY <2>1, <2>2, <2>3 DEF TypeOK
<1>2. CASE RunInline(e) \/ RunRefused(e) \/ Spawn(e)
  <2>1. UNCHANGED <<coro, holder, detached, flying, current, stop, stragglers>>
    BY <1>2 DEF RunInline, RunRefused, Spawn
  <2>2. parked' = parked BY <2>1 DEF parked
  <2>3. work' \in [Fiber -> Seq(Entry)] /\ entry' \in [Entry -> EntryState]
    <3>1. CASE RunInline(e)
      <4>1. current \in Fiber /\ work[current] \in Seq(Entry)
        BY <3>1 DEF RunInline, TypeOK
      <4>2. Append(work[current], e) \in Seq(Entry) BY <4>1
      <4> QED BY <3>1, <4>1, <4>2 DEF RunInline, TypeOK
    <3>2. CASE RunRefused(e) \/ Spawn(e)
      BY <3>2 DEF RunRefused, Spawn, TypeOK
    <3> QED BY <1>2, <3>1, <3>2
  <2> QED BY <2>1, <2>2, <2>3 DEF TypeOK
<1> QED BY <1>1, <1>2

\* So do the steps that end or suspend what runs on a fiber.
LEMMA YieldType ==
  ASSUME TypeOK, EndEntry \/ ThrowForcedShutdown \/ Await \/ UnwindEnd
  PROVE  TypeOK'
<1>1. CASE EndEntry \/ ThrowForcedShutdown
  BY <1>1, RestType, LeaveType DEF EndEntry, ThrowForcedShutdown
<1>2. CASE Await
  <2>1. PICK where \in {"promise", "event"} : AwaitOn(where) BY <1>2 DEF Await
  <2>2. /\ current \in Fiber
        /\ coro' = [coro EXCEPT ![current] = "suspended"]
        /\ holder' = [holder EXCEPT ![current] = where]
        /\ current' = None
        /\ UNCHANGED <<detached, flying, work, entry, stop, stragglers>>
    BY <2>1 DEF AwaitOn, TypeOK
  <2>3. Cardinality(parked') <= PoolSize BY <2>2, ParkStill DEF TypeOK
  <2> QED BY <2>2, <2>3 DEF TypeOK
<1>3. CASE UnwindEnd
  <2>1. current \in Fiber BY <1>3 DEF UnwindEnd, TypeOK
  <2>2. parked' = parked BY <1>3 DEF UnwindEnd, parked
  <2>3. work' \in [Fiber -> Seq(Entry)] /\ entry' \in [Entry -> EntryState]
    BY <1>3 DEF UnwindEnd, EndAll, TypeOK
  <2> QED BY <1>3, <2>1, <2>2, <2>3 DEF UnwindEnd, TypeOK
<1> QED BY <1>1, <1>2, <1>3

\* So do the steps of a suspended fiber, and Stop()'s.
LEMMA ServeType ==
  ASSUME TypeOK, NEW f \in Fiber, Settle(f) \/ Resume(f) \/ ResumeDetached(f) \/ UnwindBegin(f)
  PROVE  TypeOK'
<1>1. Cardinality(parked') <= PoolSize
  BY ParkStill DEF Settle, Resume, ResumeDetached, UnwindBegin, TypeOK
<1> QED BY <1>1 DEF Settle, Resume, ResumeDetached, UnwindBegin, TypeOK

\* See ServeType.
LEMMA StopType ==
  ASSUME TypeOK, StopBegin \/ StopCollect \/ StopEnd
  PROVE  TypeOK'
<1>1. parked' = parked BY DEF StopBegin, StopCollect, StopEnd, parked
<1> QED BY <1>1 DEF StopBegin, StopCollect, StopEnd, TypeOK

\* Leaving entries of the current fiber, by return or by ForcedShutdown.
LEMMA LeaveInv ==
  ASSUME FibersInv, current # None, coro[current] = "running",
         NEW rest \in Seq(Entry), NEW how \in EntryState, Leave(rest, how)
  PROVE  FibersInv'
<1> USE FibersAssumption DEF FibersInv
<1>0. current \in Fiber BY DEF TypeOK
<1>1. TypeOK' BY LeaveType
<1>2. CASE rest # <<>>
  <2>1. UNCHANGED <<coro, holder, flying, current, detached, stop, stragglers>>
    BY <1>2 DEF Leave
  <2> QED BY <1>1, <2>1 DEF PoolKnowsBusy, CurrentIsExecuting, FiberConsistent
<1>3. CASE rest = <<>>
  <2> DEFINE keep == Cardinality(parked) < PoolSize
  <2>1. /\ coro' = [coro EXCEPT ![current] = IF keep THEN "idle" ELSE "none"]
        /\ holder' = [holder EXCEPT ![current] = IF keep THEN "pool" ELSE "none"]
        /\ flying' = flying \ {current}
        /\ current' = None
        /\ UNCHANGED <<detached, stop, stragglers>>
    BY <1>3 DEF Leave, ReturnFiber
  <2>2. stop # "unwinding" /\ stragglers = {}
    BY <1>0 DEF FiberConsistent
  <2>3. PoolKnowsBusy' BY <1>0, <2>1, <2>2 DEF PoolKnowsBusy, TypeOK
  <2>4. CurrentIsExecuting' BY <1>0, <2>1 DEF CurrentIsExecuting, TypeOK
  <2>5. FiberConsistent' BY <1>0, <2>1, <2>2 DEF FiberConsistent, TypeOK
  <2> QED BY <1>1, <2>3, <2>4, <2>5
<1> QED BY <1>2, <1>3

\* Every step of the pool keeps the invariant.
LEMMA FibersNextInv == FibersInv /\ [FibersNext]_fiberVars => FibersInv'
<1> SUFFICES ASSUME FibersInv, [FibersNext]_fiberVars PROVE FibersInv' OBVIOUS
<1> USE FibersAssumption DEF FibersInv
<1>1. ASSUME NEW e \in Entry, AtLoop, RunFresh(e) PROVE FibersInv'
  <2>1. PICK f \in Fiber :
          /\ TakeFiber(f)
          /\ coro' = [coro EXCEPT ![f] = "running"]
          /\ holder' = [holder EXCEPT ![f] = "frame"]
          /\ detached' = detached \ {f}
          /\ flying' = flying \union {f}
          /\ current' = f
    BY <1>1 DEF RunFresh
  <2>2. current = None /\ stop' = stop /\ stragglers' = stragglers BY <1>1 DEF RunFresh
  <2>3. TypeOK' BY <1>1, RunType
  <2>4. coro[f] \in {"none", "idle"} BY <2>1 DEF TakeFiber, parked, FiberConsistent, TypeOK
  <2>5. stop # "unwinding" /\ stragglers = {} BY <1>1 DEF AtLoop, FiberConsistent
  <2>6. PoolKnowsBusy' BY <2>1, <2>2, <2>4, <2>5 DEF PoolKnowsBusy, TypeOK
  <2>7. CurrentIsExecuting' BY <2>1, <2>2, <2>4 DEF CurrentIsExecuting, TypeOK
  <2>8. FiberConsistent' BY <2>1, <2>2, <2>4, <2>5 DEF FiberConsistent, TypeOK
  <2> QED BY <2>3, <2>6, <2>7, <2>8
<1>2. ASSUME NEW e \in Entry, RunInline(e) \/ RunRefused(e) \/ Spawn(e) PROVE FibersInv'
  <2>1. UNCHANGED <<coro, holder, detached, flying, current, stop, stragglers>>
    BY <1>2 DEF RunInline, RunRefused, Spawn
  <2>2. TypeOK' BY <1>2, RunType
  <2> QED BY <2>1, <2>2 DEF PoolKnowsBusy, CurrentIsExecuting, FiberConsistent
<1>3. ASSUME EndEntry \/ ThrowForcedShutdown PROVE FibersInv'
  BY <1>3, RestType, LeaveInv DEF EndEntry, ThrowForcedShutdown
<1>5. ASSUME Await PROVE FibersInv'
  <2>1. PICK where \in {"promise", "event"} : AwaitOn(where) BY <1>5 DEF Await
  <2>2. /\ current \in Fiber /\ coro[current] = "running"
        /\ coro' = [coro EXCEPT ![current] = "suspended"]
        /\ holder' = [holder EXCEPT ![current] = where]
        /\ current' = None
        /\ UNCHANGED <<detached, flying, work, entry, stop, stragglers>>
    BY <2>1 DEF AwaitOn, TypeOK
  <2>3. TypeOK' BY <1>5, YieldType
  <2>4. PoolKnowsBusy' BY <2>2 DEF PoolKnowsBusy, TypeOK
  <2>5. CurrentIsExecuting' BY <2>2 DEF CurrentIsExecuting, TypeOK
  <2>6. FiberConsistent' BY <2>2 DEF FiberConsistent, TypeOK
  <2> QED BY <2>3, <2>4, <2>5, <2>6
<1>6. ASSUME NEW f \in Fiber, Settle(f) PROVE FibersInv'
  <2>1. TypeOK' BY <1>6, ServeType
  <2>2. PoolKnowsBusy' /\ CurrentIsExecuting'
    BY <1>6 DEF Settle, PoolKnowsBusy, CurrentIsExecuting
  <2>3. FiberConsistent' BY <1>6 DEF Settle, FiberConsistent, TypeOK
  <2> QED BY <2>1, <2>2, <2>3
<1>7. ASSUME NEW f \in Fiber, Resume(f) PROVE FibersInv'
  <2>1. TypeOK' BY <1>7, ServeType
  <2>2. coro[f] = "suspended" BY <1>7 DEF Resume, FiberConsistent, TypeOK
  <2>3. PoolKnowsBusy' BY <1>7, <2>2 DEF Resume, PoolKnowsBusy, TypeOK
  <2>4. CurrentIsExecuting' BY <1>7 DEF Resume, AtLoop, CurrentIsExecuting, TypeOK
  <2>5. FiberConsistent' BY <1>7, <2>2 DEF Resume, AtLoop, FiberConsistent, TypeOK
  <2> QED BY <2>1, <2>3, <2>4, <2>5
<1>8. ASSUME NEW f \in Fiber, ResumeDetached(f) PROVE FibersInv'
  <2>1. TypeOK' BY <1>8, ServeType
  <2>2. coro[f] = "unwound"
    BY <1>8 DEF ResumeDetached, AtLoop, FiberConsistent, TypeOK
  <2>3. PoolKnowsBusy' BY <1>8, <2>2 DEF ResumeDetached, PoolKnowsBusy, TypeOK
  <2>4. CurrentIsExecuting' BY <1>8, <2>2 DEF ResumeDetached, CurrentIsExecuting, TypeOK
  <2>5. FiberConsistent' BY <1>8, <2>2 DEF ResumeDetached, FiberConsistent, TypeOK
  <2> QED BY <2>1, <2>3, <2>4, <2>5
<1>9. ASSUME StopBegin \/ StopEnd PROVE FibersInv'
  <2>1. /\ UNCHANGED <<coro, holder, detached, flying, current, work, entry, stragglers>>
        /\ current = None
        /\ stop' \in StopState /\ stragglers = {}
    BY <1>9 DEF StopBegin, StopEnd, StopState, FiberConsistent
  <2>2. TypeOK' BY <1>9, StopType
  <2>3. FiberConsistent'
    BY <1>9, <2>1 DEF StopBegin, StopEnd, FiberConsistent, PoolKnowsBusy, CurrentIsExecuting
  <2> QED BY <2>1, <2>2, <2>3 DEF PoolKnowsBusy, CurrentIsExecuting
<1>10. ASSUME StopCollect PROVE FibersInv'
  <2>1. TypeOK' BY <1>10, StopType
  <2>2. stragglers = {} BY <1>10 DEF StopCollect, FiberConsistent
  <2>3. PoolKnowsBusy' /\ CurrentIsExecuting' /\ FiberConsistent'
    BY <1>10, <2>2 DEF StopCollect, PoolKnowsBusy, CurrentIsExecuting, FiberConsistent
  <2> QED BY <2>1, <2>3
<1>11. ASSUME NEW f \in Fiber, UnwindBegin(f) PROVE FibersInv'
  <2>1. TypeOK' BY <1>11, ServeType
  <2>2. coro[f] = "suspended"
    BY <1>11 DEF UnwindBegin, PoolKnowsBusy, CurrentIsExecuting
  <2>3. PoolKnowsBusy' BY <1>11, <2>2 DEF UnwindBegin, PoolKnowsBusy, FiberConsistent, TypeOK
  <2>4. CurrentIsExecuting' BY <1>11 DEF UnwindBegin, CurrentIsExecuting, TypeOK
  <2>5. FiberConsistent' BY <1>11, <2>2 DEF UnwindBegin, FiberConsistent, TypeOK
  <2> QED BY <2>1, <2>3, <2>4, <2>5
<1>12. ASSUME UnwindEnd PROVE FibersInv'
  <2>1. current \in Fiber BY <1>12 DEF UnwindEnd, TypeOK
  <2>2. TypeOK' BY <1>12, YieldType
  <2>3. PoolKnowsBusy' BY <1>12, <2>1 DEF UnwindEnd, PoolKnowsBusy, TypeOK
  <2>4. CurrentIsExecuting' BY <1>12, <2>1 DEF UnwindEnd, CurrentIsExecuting, TypeOK
  <2>5. FiberConsistent' BY <1>12, <2>1 DEF UnwindEnd, FiberConsistent, TypeOK
  <2> QED BY <2>2, <2>3, <2>4, <2>5
<1>13. CASE UNCHANGED fiberVars
  <2>1. parked' = parked BY <1>13 DEF fiberVars, parked
  <2> QED
    BY <1>13, <2>1 DEF fiberVars, TypeOK, PoolKnowsBusy, CurrentIsExecuting, FiberConsistent
<1> QED
  BY <1>1, <1>2, <1>3, <1>5, <1>6, <1>7, <1>8, <1>9, <1>10, <1>11, <1>12, <1>13
     DEF FibersNext, StopIdle, StopDeadline

\* FibersInv is an invariant of the pool.
THEOREM FibersInvariant == FibersSpec => []FibersInv
<1> QED BY FibersInitInv, FibersNextInv, PTL DEF FibersSpec

\* The types of the pool's state, and the bound on the fibers it keeps.
THEOREM FibersTypeOK == FibersSpec => []TypeOK
<1>1. FibersInv => TypeOK BY DEF FibersInv
<1> QED BY <1>1, FibersInvariant, PTL

\* No raw pointer in flying or in Stop's stragglers dangles.
THEOREM FibersNoDangling == FibersSpec => []NoDanglingFiber
<1>1. FibersInv => NoDanglingFiber
  BY DEF FibersInv, TypeOK, PoolKnowsBusy, FiberConsistent, NoDanglingFiber
<1> QED BY <1>1, FibersInvariant, PTL

\* A resume event never steps a coroutine that is not suspended.
THEOREM FibersResumeSafe == FibersSpec => []ResumeFindsSuspended
<1>1. FibersInv => ResumeFindsSuspended
  BY DEF FibersInv, TypeOK, FiberConsistent, ResumeFindsSuspended
<1> QED BY <1>1, FibersInvariant, PTL

\* Nothing starts while a fiber is unwound.
THEOREM FibersUnwindRunsNothing == FibersSpec => NoWorkWhileUnwinding
<1> DEFINE A == (\E f \in Fiber : coro[f] = "unwinding")
                  => \A e \in Entry : entry'[e] = "live" => entry[e] = "live"
<1>1. FibersInv /\ [FibersNext]_fiberVars => [A]_fiberVars
  <2> SUFFICES ASSUME FibersInv, FibersNext, NEW g \in Fiber, coro[g] = "unwinding",
                      NEW e \in Entry, entry'[e] = "live"
               PROVE  entry[e] = "live"
    OBVIOUS
  <2>1. current = g /\ g # None /\ stop = "unwinding"
    BY FibersAssumption DEF FibersInv, CurrentIsExecuting, FiberConsistent
  <2>2. ASSUME NEW d \in Entry, RunRefused(d) PROVE entry[e] = "live"
    BY <2>2 DEF RunRefused, FibersInv, TypeOK
  <2>3. ASSUME UnwindEnd PROVE entry[e] = "live"
    BY <2>3 DEF UnwindEnd, EndAll
  <2>4. ASSUME NEW f \in Fiber, Settle(f) PROVE entry[e] = "live"
    BY <2>4 DEF Settle
  <2> QED
    BY <2>1, <2>2, <2>3, <2>4
       DEF FibersNext, AtLoop, RunInline, Spawn, EndEntry, ThrowForcedShutdown, Await, AwaitOn,
           Resume, ResumeDetached, StopBegin, StopIdle, StopDeadline, StopCollect,
           UnwindBegin, StopEnd
<1> QED BY <1>1, FibersInvariant, PTL DEF FibersSpec, NoWorkWhileUnwinding

\* Leaving entries loses track of none that is still live: what is not in the
\* rest of the fiber's entries is over.
LEMMA LeaveFound ==
  ASSUME TypeOK, LiveEntriesFound, current # None, coro[current] = "running",
         NEW k \in Nat, k <= Len(work[current]),
         NEW how \in {"ended", "aborted"}, Leave(SubSeq(work[current], 1, k), how)
  PROVE  LiveEntriesFound'
<1> DEFINE s == work[current]
           rest == SubSeq(s, 1, k)
           gone == SubSeq(s, k + 1, Len(s))
<1>0. current \in Fiber /\ s \in Seq(Entry) BY DEF TypeOK
<1>1. /\ rest \in Seq(Entry) /\ Len(rest) = k
      /\ \A i \in 1..k : rest[i] = s[i]
  BY <1>0
<1>2. /\ Len(gone) = Len(s) - k
      /\ \A i \in 1..(Len(s) - k) : gone[i] = s[k + i]
  BY <1>0
<1>3. /\ work' = [work EXCEPT ![current] = rest]
      /\ entry' = EndAll(gone, how)
  BY <1>1 DEF Leave
<1>4. ASSUME NEW e \in Entry, entry'[e] = "live"
      PROVE  \E f \in Fiber : \E i \in 1..Len(work'[f]) : work'[f][i] = e
  <2> HIDE DEF rest, gone
  <2>1. entry[e] = "live" /\ ~ \E i \in 1..Len(gone) : gone[i] = e
    BY <1>3, <1>4 DEF EndAll
  <2>2a. PICK f \in Fiber : \E i \in 1..Len(work[f]) : work[f][i] = e
    BY <2>1 DEF LiveEntriesFound
  <2>2. PICK i \in 1..Len(work[f]) : work[f][i] = e BY <2>2a
  <2>3. CASE f # current
    BY <1>3, <2>2, <2>3 DEF TypeOK
  <2>4. CASE f = current
    <3>1. i \in Nat /\ i <= Len(s) /\ Len(s) \in Nat BY <1>0, <2>2, <2>4
    <3>2. CASE i <= k
      <4>1. i \in 1..k BY <2>2, <3>1, <3>2
      <4>2. work'[f] = rest BY <1>0, <1>3, <2>4 DEF TypeOK
      <4> QED BY <1>1, <2>2, <2>4, <4>1, <4>2
    <3>3. CASE i > k
      <4>1. i - k \in 1..(Len(s) - k) BY <3>1, <3>3
      <4>2. gone[i - k] = s[k + (i - k)] BY <1>2, <4>1
      <4>3. k + (i - k) = i BY <3>1
      <4> QED BY <1>2, <2>1, <2>2, <2>4, <4>1, <4>2, <4>3
    <3> QED BY <3>1, <3>2, <3>3
  <2> QED BY <2>3, <2>4
<1>5. ASSUME NEW f \in Fiber, coro'[f] \notin {"running", "suspended", "unwinding"}
      PROVE  work'[f] = <<>>
  <2> HIDE DEF rest, gone
  <2>1. CASE f # current
    <3>1. coro'[f] = coro[f] /\ work'[f] = work[f]
      BY <1>1, <1>3, <2>1 DEF Leave, ReturnFiber, TypeOK, rest
    <3> QED BY <1>5, <3>1 DEF LiveEntriesFound
  <2>2. CASE f = current
    <3>1. rest = <<>> BY <1>5, <2>2 DEF Leave, rest
    <3> QED BY <1>0, <1>3, <2>2, <3>1 DEF TypeOK
  <2> QED BY <2>1, <2>2
<1> QED BY <1>4, <1>5 DEF LiveEntriesFound

\* Run enters its entry on a fiber that had none.
LEMMA RunFreshFound ==
  ASSUME TypeOK, LiveEntriesFound, NEW d \in Entry, RunFresh(d),
         \A f \in Fiber : TakeFiber(f) => work[f] = <<>>
  PROVE  LiveEntriesFound'
<1>1. PICK f \in Fiber :
        /\ TakeFiber(f)
        /\ coro' = [coro EXCEPT ![f] = "running"]
        /\ work' = [work EXCEPT ![f] = <<d>>]
  BY DEF RunFresh
<1>2. entry' = [entry EXCEPT ![d] = "live"] BY DEF RunFresh
<1>4. work[f] = <<>> BY <1>1
<1>5. ASSUME NEW e \in Entry, entry'[e] = "live"
      PROVE  \E g \in Fiber : \E i \in 1..Len(work'[g]) : work'[g][i] = e
  <2>1. CASE e = d
    <3>1. work'[f] = <<d>> /\ Len(<<d>>) = 1 /\ <<d>>[1] = d
      BY <1>1 DEF TypeOK
    <3> QED BY <2>1, <3>1
  <2>2. CASE e # d
    <3>1. entry[e] = "live" BY <1>2, <1>5, <2>2 DEF TypeOK
    <3>2. PICK g \in Fiber : \E i \in 1..Len(work[g]) : work[g][i] = e
      BY <3>1 DEF LiveEntriesFound
    <3>3. g # f BY <1>4, <3>2
    <3>4. work'[g] = work[g] BY <1>1, <3>3 DEF TypeOK
    <3> QED BY <3>2, <3>4
  <2> QED BY <2>1, <2>2
<1>6. \A g \in Fiber : coro'[g] \notin {"running", "suspended", "unwinding"} => work'[g] = <<>>
  BY <1>1 DEF LiveEntriesFound, TypeOK
<1> QED BY <1>5, <1>6 DEF LiveEntriesFound

\* Run on a fiber puts the entry on top of that fiber's.
LEMMA RunInlineFound ==
  ASSUME TypeOK, LiveEntriesFound, NEW d \in Entry, RunInline(d)
  PROVE  LiveEntriesFound'
<1> DEFINE s == work[current]
<1>1. current \in Fiber /\ s \in Seq(Entry) BY DEF RunInline, TypeOK
<1>2. /\ Len(Append(s, d)) = Len(s) + 1 /\ Len(s) \in Nat
      /\ Append(s, d)[Len(s) + 1] = d
      /\ \A i \in 1..Len(s) : Append(s, d)[i] = s[i]
  BY <1>1
<1>3. /\ work' = [work EXCEPT ![current] = Append(s, d)]
      /\ entry' = [entry EXCEPT ![d] = "live"]
      /\ coro' = coro /\ coro[current] = "running"
  BY DEF RunInline
<1>4. work'[current] = Append(s, d) BY <1>1, <1>3 DEF TypeOK
<1>5. ASSUME NEW e \in Entry, entry'[e] = "live"
      PROVE  \E g \in Fiber : \E i \in 1..Len(work'[g]) : work'[g][i] = e
  <2>1. CASE e = d
    <3>1. Len(s) + 1 \in 1..Len(work'[current]) BY <1>2, <1>4
    <3> QED BY <1>1, <1>2, <1>4, <2>1, <3>1
  <2>2. CASE e # d
    <3>1. entry[e] = "live" BY <1>3, <1>5, <2>2 DEF TypeOK
    <3>2. PICK g \in Fiber : \E i \in 1..Len(work[g]) : work[g][i] = e
      BY <3>1 DEF LiveEntriesFound
    <3>3. PICK i \in 1..Len(work[g]) : work[g][i] = e BY <3>2
    <3>4. CASE g = current
      <4>1. i \in 1..Len(work'[g]) BY <1>2, <1>4, <3>3, <3>4
      <4> QED BY <1>2, <1>4, <3>3, <3>4, <4>1
    <3>5. CASE g # current
      <4>1. work'[g] = work[g] BY <1>3, <3>5 DEF TypeOK
      <4> QED BY <3>3, <4>1
    <3> QED BY <3>4, <3>5
  <2> QED BY <2>1, <2>2
<1>6. \A g \in Fiber : coro'[g] \notin {"running", "suspended", "unwinding"} => work'[g] = <<>>
  BY <1>3 DEF LiveEntriesFound, TypeOK
<1> QED BY <1>5, <1>6 DEF LiveEntriesFound

\* A refused or posted entry is not live.
LEMMA NotRunFound ==
  ASSUME TypeOK, LiveEntriesFound, NEW d \in Entry, RunRefused(d) \/ Spawn(d)
  PROVE  LiveEntriesFound'
<1>1. work' = work /\ coro' = coro BY DEF RunRefused, Spawn
<1>2. \A e \in Entry : entry'[e] = "live" => entry[e] = "live"
  <2>1. entry \in [Entry -> EntryState] BY DEF TypeOK
  <2>2. \E v \in {"dropped", "posted"} : entry' = [entry EXCEPT ![d] = v]
    BY DEF RunRefused, Spawn
  <2> QED BY <2>1, <2>2
<1> QED BY <1>1, <1>2 DEF LiveEntriesFound

\* A return leaves the entries below.
LEMMA EndEntryFound ==
  ASSUME TypeOK, LiveEntriesFound, EndEntry
  PROVE  LiveEntriesFound'
<1>1. current \in Fiber /\ coro[current] = "running" /\ current # None
  BY DEF EndEntry, TypeOK
<1>2. work[current] \in Seq(Entry) /\ Len(work[current]) \in Nat BY <1>1 DEF TypeOK
<1>3. CASE Len(work[current]) = 0
  <2>1. SubSeq(work[current], 1, Len(work[current]) - 1) = SubSeq(work[current], 1, 0)
    BY <1>2, <1>3
  <2>2. Leave(SubSeq(work[current], 1, 0), "ended") BY <2>1 DEF EndEntry
  <2>3. 0 \in Nat /\ 0 <= Len(work[current]) BY <1>2
  <2> QED BY <1>1, <2>2, <2>3, LeaveFound
<1>4. CASE Len(work[current]) # 0
  <2>1. Len(work[current]) - 1 \in Nat BY <1>2, <1>4
  <2>2. Leave(SubSeq(work[current], 1, Len(work[current]) - 1), "ended")
    BY DEF EndEntry
  <2>3. Len(work[current]) - 1 <= Len(work[current]) BY <1>2
  <2> QED BY <1>1, <2>1, <2>2, <2>3, LeaveFound
<1> QED BY <1>3, <1>4

\* A ForcedShutdown leaves the entries below the one that catches it.
LEMMA ThrowFound ==
  ASSUME TypeOK, LiveEntriesFound, ThrowForcedShutdown
  PROVE  LiveEntriesFound'
<1>1. current \in Fiber /\ coro[current] = "running" /\ current # None
  BY DEF ThrowForcedShutdown, TypeOK
<1>2. work[current] \in Seq(Entry) /\ Len(work[current]) \in Nat BY <1>1 DEF TypeOK
<1>3. PICK d \in 1..Len(work[current]) : Leave(SubSeq(work[current], 1, d - 1), "aborted")
  BY DEF ThrowForcedShutdown
<1>4. d - 1 \in Nat /\ d - 1 <= Len(work[current]) BY <1>2
<1> QED BY <1>1, <1>3, <1>4, LeaveFound

\* A suspended fiber keeps its entries.
LEMMA AwaitFound ==
  ASSUME TypeOK, LiveEntriesFound, Await
  PROVE  LiveEntriesFound'
<1>1. /\ current \in Fiber /\ coro[current] = "running"
      /\ coro' = [coro EXCEPT ![current] = "suspended"]
      /\ work' = work /\ entry' = entry
  BY DEF Await, AwaitOn, TypeOK
<1>2. \A g \in Fiber : coro'[g] \notin {"running", "suspended", "unwinding"} => work[g] = <<>>
  BY <1>1 DEF LiveEntriesFound, TypeOK
<1> QED BY <1>1, <1>2 DEF LiveEntriesFound

\* So does one that is resumed; one that is freed has none.
LEMMA ServeFound ==
  ASSUME TypeOK, LiveEntriesFound, NEW f \in Fiber, Settle(f) \/ Resume(f) \/ ResumeDetached(f),
         ResumeDetached(f) => work[f] = <<>>
  PROVE  LiveEntriesFound'
<1>1. work' = work /\ entry' = entry BY DEF Settle, Resume, ResumeDetached
<1>2. \A g \in Fiber : coro'[g] \notin {"running", "suspended", "unwinding"} => work[g] = <<>>
  <2>1. CASE Settle(f) BY <2>1 DEF Settle, LiveEntriesFound
  <2>2. CASE Resume(f)
    <3>1. coro' = [coro EXCEPT ![f] = "running"] BY <2>2 DEF Resume
    <3> QED BY <3>1 DEF LiveEntriesFound, TypeOK
  <2>3. CASE ResumeDetached(f)
    <3>1. coro' = [coro EXCEPT ![f] = "none"] /\ work[f] = <<>> BY <2>3 DEF ResumeDetached
    <3> QED BY <3>1 DEF LiveEntriesFound, TypeOK
  <2> QED BY <2>1, <2>2, <2>3
<1> QED BY <1>1, <1>2 DEF LiveEntriesFound

\* Unwinding a fiber ends the entries on it.
LEMMA UnwindEndFound ==
  ASSUME TypeOK, LiveEntriesFound, UnwindEnd
  PROVE  LiveEntriesFound'
<1>1. current \in Fiber BY DEF UnwindEnd, TypeOK
<1>2. ASSUME NEW e \in Entry, entry'[e] = "live"
      PROVE  \E g \in Fiber : \E i \in 1..Len(work'[g]) : work'[g][i] = e
  <2>1. entry[e] = "live" /\ ~ \E i \in 1..Len(work[current]) : work[current][i] = e
    BY <1>2 DEF UnwindEnd, EndAll
  <2>2. PICK g \in Fiber : \E i \in 1..Len(work[g]) : work[g][i] = e
    BY <2>1 DEF LiveEntriesFound
  <2>3. g # current BY <2>1, <2>2
  <2>4. work'[g] = work[g] BY <2>3 DEF UnwindEnd, TypeOK
  <2> QED BY <2>2, <2>4
<1>3. \A g \in Fiber : coro'[g] \notin {"running", "suspended", "unwinding"} => work'[g] = <<>>
  BY <1>1 DEF UnwindEnd, LiveEntriesFound, TypeOK
<1> QED BY <1>2, <1>3 DEF LiveEntriesFound

\* Every step keeps LiveEntriesFound.
LEMMA FoundNext == FibersInv /\ LiveEntriesFound /\ [FibersNext]_fiberVars => LiveEntriesFound'
<1> SUFFICES ASSUME FibersInv, LiveEntriesFound, [FibersNext]_fiberVars
             PROVE  LiveEntriesFound'
  OBVIOUS
<1>0. TypeOK BY DEF FibersInv
<1>1. \A f \in Fiber : TakeFiber(f) => work[f] = <<>>
  BY <1>0 DEF TakeFiber, parked, FibersInv, FiberConsistent, TypeOK, LiveEntriesFound
<1>2. \A f \in Fiber : ResumeDetached(f) => work[f] = <<>>
  BY <1>0 DEF ResumeDetached, AtLoop, FibersInv, FiberConsistent, LiveEntriesFound
<1>3. ASSUME StopBegin \/ StopCollect \/ StopEnd PROVE LiveEntriesFound'
  BY <1>3 DEF StopBegin, StopCollect, StopEnd, LiveEntriesFound
<1>4. ASSUME NEW f \in Fiber, UnwindBegin(f) PROVE LiveEntriesFound'
  BY <1>0, <1>4 DEF UnwindBegin, LiveEntriesFound, TypeOK
<1>5. CASE UNCHANGED fiberVars
  BY <1>5 DEF fiberVars, LiveEntriesFound
<1> QED
  BY <1>0, <1>1, <1>2, <1>3, <1>4, <1>5, RunFreshFound, RunInlineFound, NotRunFound,
     EndEntryFound, ThrowFound, AwaitFound, ServeFound, UnwindEndFound
     DEF FibersNext, StopIdle, StopDeadline

\* When Stop() returns, no entry is left suspended.
THEOREM FibersStopLeavesNothing == FibersSpec => StopLeavesNothing
<1> DEFINE A == stop = "unwinding" /\ stop' = "no" => \A e \in Entry : entry'[e] # "live"
<1>1. FibersInit => LiveEntriesFound BY DEF FibersInit, LiveEntriesFound
<1>2. FibersInv /\ LiveEntriesFound /\ [FibersNext]_fiberVars => [A]_fiberVars
  <2> SUFFICES ASSUME FibersInv, LiveEntriesFound, FibersNext,
                      stop = "unwinding", stop' = "no", NEW e \in Entry
               PROVE  entry'[e] # "live"
    OBVIOUS
  <2>1. StopEnd
    BY DEF FibersNext, AtLoop, RunFresh, RunInline, RunRefused, Spawn, EndEntry,
           ThrowForcedShutdown, Leave, Await, AwaitOn, Settle, Resume, ResumeDetached,
           StopBegin, StopIdle, StopDeadline, StopCollect, UnwindBegin, UnwindEnd
  <2>2. flying = {} /\ stragglers = {} /\ current = None /\ entry' = entry
    BY <2>1 DEF StopEnd, FibersInv, FiberConsistent
  <2>3. \A f \in Fiber : coro[f] \notin {"running", "suspended", "unwinding"}
    BY <2>2, FibersAssumption DEF FibersInv, PoolKnowsBusy, CurrentIsExecuting
  <2>4. \A f \in Fiber : work[f] = <<>> BY <2>3 DEF LiveEntriesFound
  <2>5. \A f \in Fiber : ~ \E i \in 1..Len(work[f]) : work[f][i] = e BY <2>4
  <2> QED BY <2>2, <2>5 DEF LiveEntriesFound
<1> QED
  BY <1>1, <1>2, FibersInvariant, FoundNext, PTL DEF FibersSpec, StopLeavesNothing

\* The two sides of a forced stop, as the run checks them: nothing is half way
\* when Stop() returns, and nothing starts while it unwinds.
THEOREM FibersStopIsClean == FibersSpec => StopIsClean
BY FibersStopLeavesNothing, FibersUnwindRunsNothing, PTL DEF StopIsClean


-----------------------------------------------------------------------------
(* Where the entries are                                                   *)

\* Ending the entries above k leaves the others live, each at its place.
LEMMA LeaveOnce ==
  ASSUME FibersInv, EntriesPlacedOnce, current # None, coro[current] = "running",
         NEW k \in Nat, k <= Len(work[current]),
         NEW how \in {"ended", "aborted"}, Leave(SubSeq(work[current], 1, k), how)
  PROVE  EntriesPlacedOnce'
<1> DEFINE s == work[current]
           rest == SubSeq(s, 1, k)
           gone == SubSeq(s, k + 1, Len(s))
<1>0. current \in Fiber /\ s \in Seq(Entry) /\ work \in [Fiber -> Seq(Entry)]
  BY DEF FibersInv, TypeOK
<1>1. /\ rest \in Seq(Entry) /\ Len(rest) = k
      /\ \A i \in 1..k : rest[i] = s[i]
  BY <1>0
<1>2. /\ Len(gone) = Len(s) - k
      /\ \A i \in 1..(Len(s) - k) : gone[i] = s[k + i]
  BY <1>0
<1>3. /\ work' = [work EXCEPT ![current] = rest]
      /\ entry' = EndAll(gone, how)
  BY <1>1 DEF Leave
<1> HIDE DEF rest, gone
<1>4. work'[current] = rest /\ \A f \in Fiber : f # current => work'[f] = work[f]
  BY <1>0, <1>3
<1>5. \A f \in Fiber : \A i \in 1..Len(work'[f]) :
        i \in 1..Len(work[f]) /\ work'[f][i] = work[f][i] /\ (f = current => i <= k)
  BY <1>0, <1>1, <1>4
<1>6. ASSUME NEW f \in Fiber, NEW i \in 1..Len(work'[f])
      PROVE  entry'[work'[f][i]] = "live"
  <2>1. i \in 1..Len(work[f]) /\ work'[f][i] = work[f][i] /\ (f = current => i <= k) BY <1>5
  <2>2. work[f][i] \in Entry /\ entry[work[f][i]] = "live"
    BY <1>0, <2>1 DEF EntriesPlacedOnce
  <2>3. ASSUME NEW j \in 1..Len(gone) PROVE gone[j] # work[f][i]
    <3>1. k + j \in 1..Len(s) /\ gone[j] = s[k + j] /\ k + j > k BY <1>0, <1>2
    <3>2. ~(f = current /\ i = k + j) BY <2>1, <3>1
    <3> QED BY <1>0, <2>1, <3>1, <3>2 DEF EntriesPlacedOnce
  <2> QED BY <1>3, <2>1, <2>2, <2>3 DEF EndAll
<1>7. ASSUME NEW f \in Fiber, coro'[f] \in {"running", "suspended", "unwinding"}
      PROVE  work'[f] # <<>>
  <2>1. CASE f # current
    <3>1. coro'[f] = coro[f] BY <2>1 DEF Leave, ReturnFiber, FibersInv, TypeOK
    <3> QED BY <1>4, <1>7, <2>1, <3>1 DEF EntriesPlacedOnce
  <2>2. CASE f = current /\ rest = <<>>
    <3>1. coro' = [coro EXCEPT ![current] = IF Cardinality(parked) < PoolSize THEN "idle" ELSE "none"]
      BY <2>2 DEF Leave, ReturnFiber, rest
    <3>2. coro'[f] \in {"idle", "none"} BY <1>0, <2>2, <3>1 DEF FibersInv, TypeOK
    <3> QED BY <1>7, <3>2
  <2>3. CASE f = current /\ rest # <<>> BY <1>4, <2>3
  <2> QED BY <2>1, <2>2, <2>3
<1>8. \A f, g \in Fiber : \A i \in 1..Len(work'[f]), j \in 1..Len(work'[g]) :
        work'[f][i] = work'[g][j] => f = g /\ i = j
  BY <1>5 DEF EntriesPlacedOnce
<1> QED BY <1>6, <1>7, <1>8 DEF EntriesPlacedOnce

\* Steps that move no entry need only mind the coroutines.
LEMMA OnceStill ==
  ASSUME EntriesPlacedOnce, work' = work, \A e \in Entry : entry[e] = "live" => entry'[e] = "live",
         work \in [Fiber -> Seq(Entry)],
         \A f \in Fiber : coro'[f] \in {"running", "suspended", "unwinding"}
                            => coro[f] \in {"running", "suspended", "unwinding"}
  PROVE  EntriesPlacedOnce'
<1>1. \A f \in Fiber : \A i \in 1..Len(work[f]) : work[f][i] \in Entry OBVIOUS
<1> QED BY <1>1 DEF EntriesPlacedOnce

\* Every step keeps EntriesPlacedOnce.
LEMMA OnceNext ==
  FibersInv /\ LiveEntriesFound /\ EntriesPlacedOnce /\ [FibersNext]_fiberVars => EntriesPlacedOnce'
<1> SUFFICES ASSUME FibersInv, LiveEntriesFound, EntriesPlacedOnce, [FibersNext]_fiberVars
             PROVE  EntriesPlacedOnce'
  OBVIOUS
<1> DEFINE Busy == {"running", "suspended", "unwinding"}
<1>0. /\ work \in [Fiber -> Seq(Entry)] /\ entry \in [Entry -> EntryState]
      /\ coro \in [Fiber -> CoroState] /\ current \in Fiber \union {None}
  BY DEF FibersInv, TypeOK
<1>a. ASSUME NEW e \in Entry, entry[e] # "live"
      PROVE  \A f \in Fiber : \A i \in 1..Len(work[f]) : work[f][i] # e
  BY <1>a DEF EntriesPlacedOnce
<1>1. ASSUME NEW d \in Entry, AtLoop, RunFresh(d) PROVE EntriesPlacedOnce'
  <2>1. PICK f \in Fiber :
          /\ TakeFiber(f)
          /\ coro' = [coro EXCEPT ![f] = "running"]
          /\ work' = [work EXCEPT ![f] = <<d>>]
    BY <1>1 DEF RunFresh
  <2>2. entry' = [entry EXCEPT ![d] = "live"] /\ entry[d] # "live" BY <1>1 DEF RunFresh
  <2>3. /\ work'[f] = <<d>> /\ Len(work'[f]) = 1 /\ work'[f][1] = d
        /\ \A g \in Fiber : g # f => work'[g] = work[g]
    BY <1>0, <2>1
  <2>4. ASSUME NEW g \in Fiber, NEW i \in 1..Len(work'[g])
        PROVE  /\ g = f => i = 1 /\ work'[g][i] = d
               /\ g # f => i \in 1..Len(work[g]) /\ work'[g][i] = work[g][i] /\ work[g][i] # d
    BY <1>a, <2>2, <2>3
  <2>5. ASSUME NEW g \in Fiber, NEW h \in Fiber, NEW i \in 1..Len(work'[g]),
               NEW j \in 1..Len(work'[h]), work'[g][i] = work'[h][j]
        PROVE  g = h /\ i = j
    BY <2>4, <2>5, SMTT(30) DEF EntriesPlacedOnce
  <2>6. ASSUME NEW g \in Fiber, NEW i \in 1..Len(work'[g]) PROVE entry'[work'[g][i]] = "live"
    <3>1. CASE g = f BY <1>0, <2>2, <2>4, <3>1
    <3>2. CASE g # f
      <4>1. i \in 1..Len(work[g]) /\ work'[g][i] = work[g][i] /\ work[g][i] # d BY <2>4, <3>2
      <4>2. work[g][i] \in Entry BY <1>0, <4>1
      <4> QED BY <1>0, <2>2, <4>1, <4>2 DEF EntriesPlacedOnce
    <3> QED BY <3>1, <3>2
  <2>7. \A g \in Fiber : coro'[g] \in Busy => work'[g] # <<>>
    BY <1>0, <2>1, <2>3 DEF EntriesPlacedOnce
  <2> QED BY <2>5, <2>6, <2>7 DEF EntriesPlacedOnce
<1>2. ASSUME NEW d \in Entry, RunInline(d) PROVE EntriesPlacedOnce'
  <2> DEFINE s == work[current]
  <2>1. current \in Fiber /\ s \in Seq(Entry) BY <1>0, <1>2 DEF RunInline
  <2>2. /\ Len(Append(s, d)) = Len(s) + 1 /\ Len(s) \in Nat
        /\ Append(s, d)[Len(s) + 1] = d
        /\ \A i \in 1..Len(s) : Append(s, d)[i] = s[i]
    BY <2>1
  <2>3. /\ work' = [work EXCEPT ![current] = Append(s, d)]
        /\ entry' = [entry EXCEPT ![d] = "live"] /\ entry[d] # "live"
        /\ coro' = coro /\ coro[current] = "running"
    BY <1>2 DEF RunInline
  <2>4. work'[current] = Append(s, d) /\ \A g \in Fiber : g # current => work'[g] = work[g]
    BY <1>0, <2>1, <2>3
  <2>5. ASSUME NEW g \in Fiber, NEW i \in 1..Len(work'[g])
        PROVE  \/ g = current /\ i = Len(s) + 1 /\ work'[g][i] = d
               \/ i \in 1..Len(work[g]) /\ work'[g][i] = work[g][i] /\ work[g][i] # d
    <3>1. CASE g # current BY <1>a, <2>3, <2>4, <3>1
    <3>2. CASE g = current /\ i = Len(s) + 1 BY <2>2, <2>4, <3>2
    <3>3. CASE g = current /\ i # Len(s) + 1
      <4>1. i \in 1..Len(s) BY <2>2, <2>4, <3>3
      <4> QED BY <1>a, <2>2, <2>3, <2>4, <3>3, <4>1
    <3> QED BY <3>1, <3>2, <3>3
  <2>6. ASSUME NEW g \in Fiber, NEW h \in Fiber, NEW i \in 1..Len(work'[g]),
               NEW j \in 1..Len(work'[h]), work'[g][i] = work'[h][j]
        PROVE  g = h /\ i = j
    BY <2>5, <2>6, SMTT(30) DEF EntriesPlacedOnce
  <2>7. ASSUME NEW g \in Fiber, NEW i \in 1..Len(work'[g]) PROVE entry'[work'[g][i]] = "live"
    <3>1. CASE work'[g][i] = d BY <1>0, <2>3, <3>1
    <3>2. CASE i \in 1..Len(work[g]) /\ work'[g][i] = work[g][i] /\ work[g][i] # d
      <4>1. work[g][i] \in Entry BY <1>0, <3>2
      <4> QED BY <1>0, <2>3, <3>2, <4>1 DEF EntriesPlacedOnce
    <3> QED BY <2>5, <3>1, <3>2
  <2>8. \A g \in Fiber : coro'[g] \in Busy => work'[g] # <<>>
    <3>0. Len(Append(s, d)) # 0 BY <2>2
    <3>1. Append(s, d) # <<>> BY <3>0
    <3> QED BY <2>3, <2>4, <3>1 DEF EntriesPlacedOnce
  <2> QED BY <2>6, <2>7, <2>8 DEF EntriesPlacedOnce
<1>3. ASSUME NEW d \in Entry, RunRefused(d) \/ Spawn(d) PROVE EntriesPlacedOnce'
  <2>1. work' = work /\ coro' = coro /\ entry[d] = "new" BY <1>3 DEF RunRefused, Spawn
  <2>2. \E v \in {"dropped", "posted"} : entry' = [entry EXCEPT ![d] = v]
    BY <1>3 DEF RunRefused, Spawn
  <2>3. \A e \in Entry : entry[e] = "live" => entry'[e] = "live" BY <1>0, <2>1, <2>2
  <2> QED BY <1>0, <2>1, <2>3, OnceStill
<1>4. ASSUME EndEntry PROVE EntriesPlacedOnce'
  <2>1. current \in Fiber /\ coro[current] = "running" /\ current # None
    BY <1>0, <1>4 DEF EndEntry
  <2>2. work[current] \in Seq(Entry) /\ Len(work[current]) \in Nat /\ work[current] # <<>>
    BY <1>0, <2>1 DEF EntriesPlacedOnce
  <2>3. Len(work[current]) - 1 \in Nat /\ Len(work[current]) - 1 <= Len(work[current]) BY <2>2
  <2>4. Leave(SubSeq(work[current], 1, Len(work[current]) - 1), "ended") BY <1>4 DEF EndEntry
  <2> QED BY <2>1, <2>3, <2>4, LeaveOnce
<1>5. ASSUME ThrowForcedShutdown PROVE EntriesPlacedOnce'
  <2>1. current \in Fiber /\ coro[current] = "running" /\ current # None
    BY <1>0, <1>5 DEF ThrowForcedShutdown
  <2>2. work[current] \in Seq(Entry) /\ Len(work[current]) \in Nat BY <1>0, <2>1
  <2>3. PICK d \in 1..Len(work[current]) : Leave(SubSeq(work[current], 1, d - 1), "aborted")
    BY <1>5 DEF ThrowForcedShutdown
  <2>4. d - 1 \in Nat /\ d - 1 <= Len(work[current]) BY <2>2
  <2> QED BY <2>1, <2>3, <2>4, LeaveOnce
<1>6. ASSUME Await PROVE EntriesPlacedOnce'
  <2>1. /\ current \in Fiber /\ coro[current] = "running"
        /\ coro' = [coro EXCEPT ![current] = "suspended"]
        /\ work' = work /\ entry' = entry
    BY <1>0, <1>6 DEF Await, AwaitOn
  <2>2. \A g \in Fiber : coro'[g] \in Busy => coro[g] \in Busy BY <1>0, <2>1
  <2> QED BY <1>0, <2>1, <2>2, OnceStill
<1>7. ASSUME NEW f \in Fiber, Settle(f) \/ Resume(f) \/ ResumeDetached(f) PROVE EntriesPlacedOnce'
  <2>1. work' = work /\ entry' = entry BY <1>7 DEF Settle, Resume, ResumeDetached
  <2>2. \A g \in Fiber : coro'[g] \in Busy => coro[g] \in Busy
    <3>1. CASE Settle(f) BY <3>1 DEF Settle
    <3>2. CASE Resume(f)
      <4>1. coro' = [coro EXCEPT ![f] = "running"] BY <3>2 DEF Resume
      <4>2. coro[f] = "suspended"
        <5>1. holder[f] = "event" /\ f \notin detached /\ AtLoop BY <3>2 DEF Resume
        <5> QED BY <1>0, <5>1 DEF AtLoop, FibersInv, FiberConsistent, CoroState
      <4> QED BY <1>0, <4>1, <4>2
    <3>3. CASE ResumeDetached(f)
      <4>1. coro' = [coro EXCEPT ![f] = "none"] BY <3>3 DEF ResumeDetached
      <4> QED BY <1>0, <4>1
    <3> QED BY <1>7, <3>1, <3>2, <3>3
  <2> QED BY <1>0, <2>1, <2>2, OnceStill
<1>8. ASSUME StopBegin \/ StopCollect \/ StopEnd PROVE EntriesPlacedOnce'
  <2>1. work' = work /\ entry' = entry /\ coro' = coro BY <1>8 DEF StopBegin, StopCollect, StopEnd
  <2> QED BY <1>0, <2>1, OnceStill
<1>9. ASSUME NEW f \in Fiber, UnwindBegin(f) PROVE EntriesPlacedOnce'
  <2>1. /\ work' = work /\ entry' = entry /\ coro' = [coro EXCEPT ![f] = "unwinding"]
        /\ f \in stragglers
    BY <1>9 DEF UnwindBegin
  <2>2. coro[f] \in Busy BY <2>1 DEF FibersInv, PoolKnowsBusy
  <2>3. \A g \in Fiber : coro'[g] \in Busy => coro[g] \in Busy BY <1>0, <2>1, <2>2
  <2> QED BY <1>0, <2>1, <2>3, OnceStill
<1>10. ASSUME UnwindEnd PROVE EntriesPlacedOnce'
  <2>1. /\ current \in Fiber /\ entry' = EndAll(work[current], "aborted")
        /\ work' = [work EXCEPT ![current] = <<>>]
        /\ coro' = [coro EXCEPT ![current] = "unwound"]
    BY <1>0, <1>10 DEF UnwindEnd
  <2>2. work'[current] = <<>> /\ \A g \in Fiber : g # current => work'[g] = work[g]
    BY <1>0, <2>1
  <2>3. \A g \in Fiber : \A i \in 1..Len(work'[g]) :
          g # current /\ i \in 1..Len(work[g]) /\ work'[g][i] = work[g][i]
    BY <2>2
  <2>4. ASSUME NEW g \in Fiber, NEW i \in 1..Len(work'[g]) PROVE entry'[work'[g][i]] = "live"
    <3>1. g # current /\ i \in 1..Len(work[g]) /\ work'[g][i] = work[g][i] BY <2>3
    <3>2. work[g][i] \in Entry /\ entry[work[g][i]] = "live" BY <1>0, <3>1 DEF EntriesPlacedOnce
    <3>3. \A j \in 1..Len(work[current]) : work[current][j] # work[g][i]
      BY <2>1, <3>1 DEF EntriesPlacedOnce
    <3> QED BY <2>1, <3>1, <3>2, <3>3 DEF EndAll
  <2>5. \A g \in Fiber : coro'[g] \in Busy => work'[g] # <<>>
    BY <1>0, <2>1, <2>2 DEF EntriesPlacedOnce
  <2>6. \A f, g \in Fiber : \A i \in 1..Len(work'[f]), j \in 1..Len(work'[g]) :
          work'[f][i] = work'[g][j] => f = g /\ i = j
    BY <2>3 DEF EntriesPlacedOnce
  <2> QED BY <2>4, <2>5, <2>6 DEF EntriesPlacedOnce
<1>11. CASE UNCHANGED fiberVars
  BY <1>0, <1>11, OnceStill DEF fiberVars
<1> QED
  BY <1>1, <1>2, <1>3, <1>4, <1>5, <1>6, <1>7, <1>8, <1>9, <1>10, <1>11
     DEF FibersNext, StopIdle, StopDeadline

\* The entries on the fibers are the live ones, each at exactly one place, with
\* any number of fibers and entries.
THEOREM FibersLiveEntriesPlaced == FibersSpec => []LiveEntriesPlaced
<1>1. FibersInit => LiveEntriesFound /\ EntriesPlacedOnce
  BY DEF FibersInit, LiveEntriesFound, EntriesPlacedOnce
<1>2. LiveEntriesFound /\ EntriesPlacedOnce => LiveEntriesPlaced BY DEF LiveEntriesPlaced
<1> QED BY <1>1, <1>2, FibersInvariant, FoundNext, OnceNext, PTL DEF FibersSpec
=============================================================================
