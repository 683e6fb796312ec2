-------------------------- MODULE LifecycleProofs --------------------------
(***************************************************************************)
(* Proofs about the end of an Instance, for every set of fibers, entries,  *)
(* workers and handlers: what holds while Shutdown(), the time budget, the *)
(* two calls of Stop() and ~Instance interleave with script code.          *)
(***************************************************************************)
EXTENDS Lifecycle, FibersProofs

USE DEF CoroState, HolderState, EntryState, StopState

-----------------------------------------------------------------------------
(* The steps of the pool, in an Instance                                   *)

\* A fiber that Run may take carries no entry.
LEMMA TakenIsEmpty ==
  ASSUME TypeOK, PoolSound, NEW f \in Fiber, TakeFiber(f)
  PROVE  coro[f] \in {"none", "idle"} /\ work[f] = <<>>
<1>1. coro[f] \in {"none", "idle"} BY DEF TakeFiber, parked, PoolSound, FibersSound
<1> QED BY <1>1 DEF PoolSound, LiveEntriesFound

\* Run from the event loop, from Shutdown() or from a destructor.
LEMMA RunFreshSound ==
  ASSUME TypeOK, PoolSound, NEW e \in Entry, RunFresh(e), stop # "unwinding", inst' = inst
  PROVE  TypeOK' /\ PoolSound'
<1>1. PICK f \in Fiber :
        /\ TakeFiber(f)
        /\ coro' = [coro EXCEPT ![f] = "running"]
        /\ holder' = [holder EXCEPT ![f] = "frame"]
        /\ detached' = detached \ {f}
        /\ flying' = flying \union {f}
        /\ current' = f
  BY DEF RunFresh
<1>2. current = None /\ stop' = stop /\ stragglers' = stragglers BY DEF RunFresh
<1>3. coro[f] \in {"none", "idle"} BY <1>1, TakenIsEmpty
<1>4. LiveEntriesFound' BY TakenIsEmpty, RunFreshFound DEF PoolSound
<1>5. FibersSound'
  BY <1>1, <1>2, FibersAssumption DEF PoolSound, FibersSound, TypeOK
<1> QED BY <1>2, <1>4, <1>5, RunType DEF PoolSound

\* Run and spawn() on a fiber.
LEMMA RunSound ==
  ASSUME TypeOK, PoolSound, NEW e \in Entry, RunInline(e) \/ RunRefused(e) \/ Spawn(e), inst' = inst
  PROVE  TypeOK' /\ PoolSound'
<1>1. UNCHANGED <<coro, holder, detached, flying, current, stop, stragglers>>
  BY DEF RunInline, RunRefused, Spawn
<1>2. LiveEntriesFound' BY RunInlineFound, NotRunFound DEF PoolSound
<1> QED BY <1>1, <1>2, RunType DEF PoolSound, FibersSound

\* The innermost entries of a fiber are over.
LEMMA LeaveSound ==
  ASSUME TypeOK, PoolSound, EndEntry \/ ThrowForcedShutdown, inst' = inst
  PROVE  TypeOK' /\ PoolSound'
<1>1. PICK rest, how : Leave(rest, how) BY DEF EndEntry, ThrowForcedShutdown
<1>2. current \in Fiber /\ coro[current] = "running"
  BY DEF EndEntry, ThrowForcedShutdown, TypeOK
<1>3. LiveEntriesFound' BY EndEntryFound, ThrowFound DEF PoolSound
<1>4. detached' = detached /\ stop' = stop /\ stragglers' = stragglers BY <1>1 DEF Leave
<1>5. stop # "unwinding" /\ stragglers = {} BY <1>2 DEF PoolSound, FibersSound
<1>6. CASE rest # <<>>
  <2>1. UNCHANGED <<coro, holder, flying, current>> BY <1>1, <1>6 DEF Leave
  <2> QED BY <1>3, <1>4, <2>1, YieldType DEF PoolSound, FibersSound
<1>7. CASE rest = <<>>
  <2> DEFINE keep == Cardinality(parked) < PoolSize
  <2>1. /\ coro' = [coro EXCEPT ![current] = IF keep THEN "idle" ELSE "none"]
        /\ holder' = [holder EXCEPT ![current] = IF keep THEN "pool" ELSE "none"]
        /\ flying' = flying \ {current}
        /\ current' = None
    BY <1>1, <1>7 DEF Leave, ReturnFiber
  <2> HIDE DEF keep
  <2>2. FibersSound'
    BY <1>2, <1>4, <1>5, <2>1, FibersAssumption DEF PoolSound, FibersSound, TypeOK
  <2> QED BY <1>3, <1>4, <1>5, <2>2, YieldType DEF PoolSound
<1> QED BY <1>6, <1>7

\* A fiber suspends.
LEMMA AwaitSound ==
  ASSUME TypeOK, PoolSound, Await, inst' = inst
  PROVE  TypeOK' /\ PoolSound'
<1>1. PICK where \in {"promise", "event"} : AwaitOn(where) BY DEF Await
<1>2. /\ current \in Fiber /\ coro[current] = "running"
      /\ coro' = [coro EXCEPT ![current] = "suspended"]
      /\ holder' = [holder EXCEPT ![current] = where]
      /\ current' = None
      /\ UNCHANGED <<detached, flying, work, entry, stop, stragglers>>
  BY <1>1 DEF AwaitOn, TypeOK
<1>3. FibersSound' BY <1>2, FibersAssumption DEF PoolSound, FibersSound, TypeOK
<1> QED BY <1>2, <1>3, AwaitFound, YieldType DEF PoolSound

\* A force-unwound stack is gone.
LEMMA UnwindEndSound ==
  ASSUME TypeOK, PoolSound, UnwindEnd, inst' = inst
  PROVE  TypeOK' /\ PoolSound'
<1>1. /\ current \in Fiber /\ coro[current] = "unwinding"
      /\ coro' = [coro EXCEPT ![current] = "unwound"]
      /\ current' = None
      /\ UNCHANGED <<holder, detached, flying, stop, stragglers>>
  BY DEF UnwindEnd, TypeOK
<1>2. FibersSound'
  <2>1. ASSUME NEW g \in Fiber, coro'[g] = "unwinding" PROVE inst \in {"dropping", "crashed"}
    BY <1>1, <2>1 DEF PoolSound, FibersSound, TypeOK
  <2> QED BY <1>1, <2>1, FibersAssumption DEF PoolSound, FibersSound, TypeOK
<1> QED BY <1>1, <1>2, UnwindEndFound, YieldType DEF PoolSound


\* A promise settles, and a queued resume is dispatched: on the thread of an
\* event loop no fiber is half unwound.
LEMMA ServeSound ==
  ASSUME TypeOK, PoolSound, NEW f \in Fiber, Settle(f) \/ Resume(f) \/ ResumeDetached(f),
         ResumeDetached(f) => inst \notin {"dropping", "crashed"}, inst' = inst
  PROVE  TypeOK' /\ PoolSound'
<1>1. ResumeDetached(f) => coro[f] = "unwound"
  BY FibersAssumption DEF ResumeDetached, AtLoop, PoolSound, FibersSound, TypeOK
<1>2. ResumeDetached(f) => work[f] = <<>> BY <1>1 DEF PoolSound, LiveEntriesFound
<1>3. LiveEntriesFound' BY <1>2, ServeFound DEF PoolSound
<1>4. flying' = flying /\ stop' = stop /\ stragglers' = stragglers
  BY DEF Settle, Resume, ResumeDetached
<1>5. CASE Settle(f)
  <2>1. FibersSound' BY <1>5 DEF Settle, PoolSound, FibersSound, TypeOK
  <2> QED BY <1>3, <1>4, <2>1, ServeType DEF PoolSound
<1>6. CASE Resume(f)
  <2>1. coro[f] = "suspended" BY <1>6 DEF Resume, PoolSound, FibersSound
  <2>2. FibersSound'
    BY <1>6, <2>1, FibersAssumption DEF Resume, AtLoop, PoolSound, FibersSound, TypeOK
  <2> QED BY <1>3, <1>4, <2>2, ServeType DEF PoolSound
<1>7. CASE ResumeDetached(f)
  <2>1. FibersSound'
    BY <1>1, <1>7 DEF ResumeDetached, PoolSound, FibersSound, TypeOK
  <2> QED BY <1>3, <1>4, <2>1, ServeType DEF PoolSound
<1> QED BY <1>5, <1>6, <1>7

\* Stop() begins, in emitDoneWhenIdle or in ~FiberPool.
LEMMA StopBeginSound ==
  ASSUME TypeOK, PoolSound, StopBegin, inst' = inst \/ \A f \in Fiber : coro[f] # "unwinding"
  PROVE  TypeOK' /\ PoolSound'
<1>1. /\ UNCHANGED <<coro, holder, detached, flying, current, work, entry, stragglers>>
      /\ current = None /\ stop = "no"
      /\ stop' = IF flying = {} THEN "unwinding" ELSE "waiting"
  BY DEF StopBegin
<1>2. FibersSound' BY <1>1, FibersAssumption DEF PoolSound, FibersSound, TypeOK
<1>3. LiveEntriesFound' BY <1>1 DEF PoolSound, LiveEntriesFound
<1> QED BY <1>1, <1>2, <1>3, StopType DEF PoolSound

\* Stop() takes the flying fibers over, and unwinds them one by one.
LEMMA StopStepSound ==
  ASSUME TypeOK, PoolSound, inst \notin {"dropping", "crashed"}, inst' = inst,
         StopCollect \/ \E f \in Fiber : holder[f] # "none" /\ UnwindBegin(f)
  PROVE  TypeOK' /\ PoolSound'
<1>1. CASE StopCollect
  <2>1. FibersSound'
    BY <1>1, FibersAssumption DEF StopCollect, PoolSound, FibersSound, TypeOK
  <2>2. LiveEntriesFound' BY <1>1 DEF StopCollect, PoolSound, LiveEntriesFound
  <2> QED BY <1>1, <2>1, <2>2, StopType DEF StopCollect, PoolSound
<1>2. ASSUME NEW f \in Fiber, holder[f] # "none", UnwindBegin(f) PROVE TypeOK' /\ PoolSound'
  <2>1. FibersSound'
    BY <1>2, FibersAssumption DEF UnwindBegin, PoolSound, FibersSound, TypeOK
  <2>2. LiveEntriesFound' BY <1>2 DEF UnwindBegin, PoolSound, LiveEntriesFound, TypeOK
  <2> QED BY <1>2, <2>1, <2>2, ServeType DEF UnwindBegin, PoolSound
<1> QED BY <1>1, <1>2

\* Where Stop() has returned, or returns, with nothing half unwound.
LEMMA StopEndSound ==
  ASSUME TypeOK, PoolSound, StopEnd, inst \notin {"dropping", "crashed"}, inst' # "dropping"
  PROVE  /\ TypeOK' /\ PoolSound'
         /\ \A f \in Fiber : coro[f] \in {"none", "idle", "unwound"}
         /\ \A e \in Entry : entry[e] # "live"
<1>1. /\ UNCHANGED <<coro, holder, detached, flying, current, work, entry, stragglers>>
      /\ current = None /\ stop = "unwinding" /\ stop' = "no" /\ stragglers = {} /\ flying = {}
  BY DEF StopEnd, PoolSound
<1>2. \A f \in Fiber : coro[f] \in {"none", "idle", "unwound"}
  BY <1>1, FibersAssumption DEF PoolSound, FibersSound, TypeOK
<1>3. \A f \in Fiber : work[f] = <<>> BY <1>2 DEF PoolSound, LiveEntriesFound
<1>4. \A e \in Entry : entry[e] # "live" BY <1>3 DEF PoolSound, LiveEntriesFound
<1>5. FibersSound' BY <1>1, <1>2 DEF PoolSound, FibersSound, TypeOK
<1>6. LiveEntriesFound' BY <1>1 DEF PoolSound, LiveEntriesFound
<1> QED BY <1>1, <1>2, <1>4, <1>5, <1>6, StopType DEF PoolSound

\* Nothing of the pool moves, and ~Instance does not begin.
LEMMA StillSound ==
  ASSUME TypeOK, PoolSound, UNCHANGED fiberVars,
         inst' = inst \/ inst' = "crashed" \/ (inst = "up" /\ inst' # "dropping")
  PROVE  TypeOK' /\ PoolSound'
<1>1. parked' = parked BY DEF fiberVars, parked
<1>2. TypeOK' BY <1>1 DEF fiberVars, TypeOK
<1>3. FibersSound' BY DEF fiberVars, PoolSound, FibersSound
<1> QED BY <1>2, <1>3 DEF fiberVars, PoolSound, LiveEntriesFound


\* ~Instance begins, possibly under a Stop() that waits.
LEMMA DtorBeginSound ==
  ASSUME TypeOK, PoolSound, DtorBegin, stop # "unwinding"
  PROVE  TypeOK' /\ PoolSound'
<1>1. /\ UNCHANGED <<coro, holder, detached, flying, current, work, entry, stragglers>>
      /\ current = None /\ stop' = "no" /\ inst \in {"doomed", "doomedInStop"}
  BY DEF DtorBegin
<1>2. parked' = parked BY <1>1 DEF parked
<1>3. TypeOK' BY <1>1, <1>2 DEF TypeOK
<1>4. FibersSound' BY <1>1, FibersAssumption DEF PoolSound, FibersSound, TypeOK
<1> QED BY <1>1, <1>3, <1>4 DEF PoolSound, LiveEntriesFound

\* A queued spawn is dropped, by the event loop after Shutdown() or by ~Instance.
LEMMA DropPostedSound ==
  ASSUME TypeOK, PoolSound, NEW e \in Entry, entry' = [entry EXCEPT ![e] = "dropped"],
         UNCHANGED <<coro, holder, detached, flying, current, work, stop, stragglers, inst>>
  PROVE  TypeOK' /\ PoolSound'
<1>1. parked' = parked BY DEF parked
<1>2. TypeOK' BY <1>1 DEF TypeOK
<1>3. FibersSound' BY DEF PoolSound, FibersSound
<1>4. \A d \in Entry : entry'[d] = "live" => entry[d] = "live" BY DEF TypeOK
<1> QED BY <1>2, <1>3, <1>4 DEF PoolSound, LiveEntriesFound

\* ~Instance drops a queued resume: the fiber is freed, or begins to unwind.
LEMMA DropResumeSound ==
  ASSUME TypeOK, PoolSound, NEW f \in Fiber, DropResume(f)
  PROVE  TypeOK' /\ PoolSound'
<1>1. /\ inst = "dropping" /\ inst' = inst /\ current = None
      /\ detached' = detached \ {f}
      /\ coro' = [coro EXCEPT ![f] = IF f \in detached THEN "none" ELSE "unwinding"]
      /\ holder' = [holder EXCEPT ![f] = IF f \in detached THEN "none" ELSE "frame"]
      /\ UNCHANGED <<flying, current, work, entry, stop, stragglers>>
  BY DEF DropResume, Forget
<1>2. f \in detached => coro[f] = "unwound" BY <1>1 DEF PoolSound, FibersSound
<1>3. Cardinality(parked') <= PoolSize BY <1>1, ParkStill DEF TypeOK
<1>4. TypeOK' BY <1>1, <1>3 DEF TypeOK
<1>5. FibersSound' BY <1>1, FibersAssumption DEF PoolSound, FibersSound, TypeOK
<1>6. \A g \in Fiber : coro'[g] \notin {"running", "suspended", "unwinding"} => work[g] = <<>>
  BY <1>1, <1>2 DEF PoolSound, LiveEntriesFound, TypeOK
<1> QED BY <1>1, <1>4, <1>5, <1>6 DEF PoolSound, LiveEntriesFound

\* That stack is gone.
LEMMA DropResumeEndSound ==
  ASSUME TypeOK, PoolSound, NEW f \in Fiber, DropResumeEnd(f)
  PROVE  TypeOK' /\ PoolSound'
<1>1. /\ inst = "dropping" /\ inst' = inst /\ current = None
      /\ coro[f] = "unwinding"
      /\ coro' = [coro EXCEPT ![f] = "none"]
      /\ holder' = [holder EXCEPT ![f] = "none"]
      /\ entry' = EndAll(work[f], "aborted")
      /\ work' = [work EXCEPT ![f] = <<>>]
      /\ UNCHANGED <<detached, flying, current, stop, stragglers>>
  BY DEF DropResumeEnd, lifeVars
<1>2. Cardinality(parked') <= PoolSize BY <1>1, ParkStill DEF TypeOK
<1>3. work' \in [Fiber -> Seq(Entry)] /\ entry' \in [Entry -> EntryState]
  BY <1>1 DEF EndAll, TypeOK
<1>4. TypeOK' BY <1>1, <1>2, <1>3 DEF TypeOK
<1>5. FibersSound' BY <1>1, FibersAssumption DEF PoolSound, FibersSound, TypeOK
<1>6. ASSUME NEW e \in Entry, entry'[e] = "live"
      PROVE  \E g \in Fiber : \E i \in 1..Len(work'[g]) : work'[g][i] = e
  <2>1. entry[e] = "live" /\ ~ \E i \in 1..Len(work[f]) : work[f][i] = e
    BY <1>1, <1>6 DEF EndAll
  <2>2. PICK g \in Fiber : \E i \in 1..Len(work[g]) : work[g][i] = e
    BY <2>1 DEF PoolSound, LiveEntriesFound
  <2>3. work'[g] = work[g] BY <1>1, <2>1, <2>2 DEF TypeOK
  <2> QED BY <2>2, <2>3
<1>7. \A g \in Fiber : coro'[g] \notin {"running", "suspended", "unwinding"} => work'[g] = <<>>
  BY <1>1 DEF PoolSound, LiveEntriesFound, TypeOK
<1>8. LiveEntriesFound' BY <1>6, <1>7 DEF LiveEntriesFound
<1> QED BY <1>1, <1>4, <1>5, <1>8 DEF PoolSound


-----------------------------------------------------------------------------
(* The stages of an Instance                                               *)

\* No code of an Instance runs once it is gone.
LEMMA NotDead ==
  ASSUME InstanceSound, InScript \/ InShutdown \/ Dispatching
  PROVE  inst # "dead"
BY DEF InstanceSound, StagesSound, InScript, InShutdown, Dispatching

\* Steps of the pool alone keep the invariant when they start no Stop(), leave no
\* handler in the event queue and are not taken by a dead Instance.
LEMMA PoolStepInv ==
  ASSUME InstanceSound, UNCHANGED lifeVars, TypeOK', PoolSound',
         stop' = stop \/ stop # "no", inst # "dead",
         \A e \in Entry : entry'[e] = "posted" => entry[e] = "posted" \/ ~IsHandler(e)
  PROVE  InstanceSound'
<1> USE DEF InstanceSound, lifeVars
<1>1. LifeTypeOK' BY DEF LifeTypeOK
<1>2. StagesSound' BY DEF StagesSound
<1>3. HandlersSound' BY DEF HandlersSound
<1>4. DoneOnce' /\ TeardownComplete' BY DEF DoneOnce, TeardownComplete
<1> QED BY <1>1, <1>2, <1>3, <1>4

\* Neither Run nor the end of entries puts an entry into the event queue.
LEMMA RunPosts ==
  ASSUME TypeOK, NEW d \in Entry, RunFresh(d) \/ RunInline(d) \/ RunRefused(d)
  PROVE  \A e \in Entry : entry'[e] = "posted" => entry[e] = "posted"
BY DEF RunFresh, RunInline, RunRefused, TypeOK

\* See RunPosts.
LEMMA YieldPosts ==
  ASSUME EndEntry \/ ThrowForcedShutdown \/ Await \/ UnwindEnd
  PROVE  \A e \in Entry : entry'[e] = "posted" => entry[e] = "posted"
<1>1. ASSUME NEW s, NEW how, how # "posted", entry' = EndAll(s, how)
      PROVE  \A e \in Entry : entry'[e] = "posted" => entry[e] = "posted"
  BY <1>1 DEF EndAll
<1>2. CASE EndEntry BY <1>1, <1>2 DEF EndEntry, Leave
<1>3. CASE ThrowForcedShutdown BY <1>1, <1>3 DEF ThrowForcedShutdown, Leave
<1>4. CASE UnwindEnd BY <1>1, <1>4 DEF UnwindEnd
<1>5. CASE Await BY <1>5 DEF Await, AwaitOn
<1> QED BY <1>2, <1>3, <1>4, <1>5

\* What scripts, the event loop and Stop() do to the pool.
LEMMA ScriptStartInv ==
  ASSUME InstanceSound, NEW e \in Entry, ScriptStart(e) PROVE InstanceSound'
<1>1. InScript /\ ~IsHandler(e) /\ UNCHANGED lifeVars BY DEF ScriptStart
<1>2. RunInline(e) \/ RunRefused(e) \/ Spawn(e) BY DEF ScriptStart
<1>3. TypeOK /\ PoolSound BY DEF InstanceSound, LifeTypeOK
<1>4. TypeOK' /\ PoolSound' BY <1>1, <1>2, <1>3, RunSound DEF lifeVars
<1>5. inst # "dead" /\ stop' = stop BY <1>1, <1>2, NotDead DEF RunInline, RunRefused, Spawn
<1>6. \A d \in Entry : entry'[d] = "posted" => entry[d] = "posted" \/ ~IsHandler(d)
  BY <1>1, <1>2, <1>3 DEF RunInline, RunRefused, Spawn, TypeOK
<1> QED BY <1>1, <1>4, <1>5, <1>6, PoolStepInv

\* Steps of script code: those of its entries alone, and the end of an unwind that
\* takes a Shutdown() with it.
QuietYield ==
  /\ InScript
  /\ \/ EndEntry
     \/ Await
     \/ ~Terminates(work[current]) /\ ThrowForcedShutdown
     \/ ~Terminates(work[current]) /\ ~(handling /\ sdFiber = current) /\ UnwindEnd
  /\ UNCHANGED lifeVars
UnwoundInShutdown ==
  /\ InScript
  /\ handling
  /\ sdFiber = current
  /\ ~Terminates(work[current])
  /\ UnwindEnd
  /\ todo' = <<>>
  /\ ShutdownRest

\* There are no others.
LEMMA YieldSplits == ScriptYield => QuietYield \/ UnwoundInShutdown
BY Zenon DEF ScriptYield, Unwound, QuietYield, UnwoundInShutdown

\* See ScriptStartInv.
LEMMA QuietYieldInv ==
  ASSUME InstanceSound, QuietYield PROVE InstanceSound'
<1>1. InScript /\ UNCHANGED lifeVars BY DEF QuietYield
<1>2. EndEntry \/ ThrowForcedShutdown \/ Await \/ UnwindEnd BY DEF QuietYield
<1>3. TypeOK /\ PoolSound BY DEF InstanceSound, LifeTypeOK
<1>4. TypeOK' /\ PoolSound' BY <1>1, <1>2, <1>3, LeaveSound, AwaitSound, UnwindEndSound DEF lifeVars
<1>5. inst # "dead" /\ stop' = stop
  BY <1>1, <1>2, NotDead DEF EndEntry, ThrowForcedShutdown, Leave, Await, AwaitOn, UnwindEnd
<1>6. \A d \in Entry : entry'[d] = "posted" => entry[d] = "posted"
  BY <1>2, YieldPosts
<1> QED BY <1>1, <1>4, <1>5, <1>6, PoolStepInv


\* The event loop, or a destructor, enters a script: a spawned one only before
\* Shutdown().
LEMMA EntryInv ==
  ASSUME InstanceSound, NEW e \in Entry, EventEntry(e) \/ DtorCallback(e) \/ SpawnDispatch(e)
  PROVE  InstanceSound'
<1>0. TypeOK /\ PoolSound BY DEF InstanceSound, LifeTypeOK
<1>1. UNCHANGED lifeVars /\ inst # "dead" /\ stop # "unwinding"
  BY NotDead DEF EventEntry, DtorCallback, SpawnDispatch, Dispatching, AtLoop, InstanceSound,
                 StagesSound
<1>2. CASE RunFresh(e)
  <2>1. TypeOK' /\ PoolSound' BY <1>0, <1>1, <1>2, RunFreshSound DEF lifeVars
  <2>2. stop' = stop BY <1>2 DEF RunFresh
  <2> QED BY <1>0, <1>1, <1>2, <2>1, <2>2, RunPosts, PoolStepInv
<1>3. CASE ~RunFresh(e)
  <2>1. /\ entry' = [entry EXCEPT ![e] = "dropped"]
        /\ UNCHANGED <<coro, holder, detached, flying, current, work, stop, stragglers>>
    BY <1>3 DEF EventEntry, DtorCallback, SpawnDispatch
  <2>2. TypeOK' /\ PoolSound' BY <1>0, <1>1, <2>1, DropPostedSound DEF lifeVars
  <2>3. \A d \in Entry : entry'[d] = "posted" => entry[d] = "posted" BY <1>0, <2>1 DEF TypeOK
  <2> QED BY <1>1, <2>1, <2>2, <2>3, PoolStepInv
<1> QED BY <1>2, <1>3

\* A promise settles or a queued resume is dispatched; Stop() takes its steps.
LEMMA ServeInv ==
  ASSUME InstanceSound, NEW f \in Fiber, ResumeDispatch(f) \/ SettleAnytime(f)
  PROVE  InstanceSound'
<1>0. TypeOK /\ PoolSound BY DEF InstanceSound, LifeTypeOK
<1>1. UNCHANGED lifeVars /\ inst # "dead"
  BY NotDead DEF ResumeDispatch, SettleAnytime
<1>2. Settle(f) \/ Resume(f) \/ ResumeDetached(f) BY DEF ResumeDispatch, SettleAnytime
<1>3. ResumeDetached(f) => inst \notin {"dropping", "crashed"}
  BY DEF ResumeDispatch, SettleAnytime, Dispatching, Settle, ResumeDetached
<1>4. TypeOK' /\ PoolSound' BY <1>0, <1>1, <1>2, <1>3, ServeSound DEF lifeVars
<1>5. stop' = stop /\ entry' = entry BY <1>2 DEF Settle, Resume, ResumeDetached
<1> QED BY <1>1, <1>4, <1>5, PoolStepInv

\* See ServeInv.
LEMMA StopStepInv ==
  ASSUME InstanceSound, StopStep PROVE InstanceSound'
<1>0. TypeOK /\ PoolSound BY DEF InstanceSound, LifeTypeOK
<1>1. UNCHANGED lifeVars /\ inst \notin {"dropping", "dead", "crashed"} BY DEF StopStep
<1>2. StopCollect \/ \E f \in Fiber : holder[f] # "none" /\ UnwindBegin(f)
  BY DEF StopStep, StopIdle, StopDeadline
<1>3. TypeOK' /\ PoolSound' BY <1>0, <1>1, <1>2, StopStepSound DEF lifeVars
<1>4. stop # "no" /\ entry' = entry BY <1>2 DEF StopCollect, UnwindBegin
<1> QED BY <1>1, <1>3, <1>4, PoolStepInv

\* What a step that leaves the pool alone has to keep.
LEMMA StillInv ==
  ASSUME InstanceSound, UNCHANGED fiberVars, inst # "dead", inst' # "dead",
         inst' = inst \/ inst' = "crashed" \/ (inst = "up" /\ inst' # "dropping"),
         LifeTypeOK => LifeTypeOK', StagesSound', todo' = todo
  PROVE  InstanceSound'
<1> USE DEF InstanceSound
<1>1. TypeOK' /\ PoolSound' BY StillSound DEF LifeTypeOK
<1>2. HandlersSound' BY DEF HandlersSound, fiberVars
<1>3. DoneOnce' BY DEF StagesSound, DoneOnce
<1> QED BY <1>1, <1>2, <1>3 DEF TeardownComplete

\* The types of the pool are those of its own variables.
LEMMA StillType ==
  ASSUME TypeOK, UNCHANGED fiberVars PROVE TypeOK'
<1>1. parked' = parked BY DEF fiberVars, parked
<1> QED BY <1>1 DEF fiberVars, TypeOK

\* Workers come and go.
LEMMA WorkerInv ==
  ASSUME InstanceSound, NEW w \in Worker, WorkerCreate(w) \/ WorkerLeave(w) \/ WorkerGone(w)
  PROVE  InstanceSound'
<1>1. UNCHANGED fiberVars /\ UNCHANGED <<shutdown, callVars, hardTimer, idleArmed, idleStop, doneVars>>
  BY DEF WorkerCreate, WorkerLeave, WorkerGone
<1>2. inst # "dead" BY NotDead DEF WorkerCreate, WorkerLeave, WorkerGone
<1>3. (idleDue' \in BOOLEAN /\ (idleDue' => idleDue \/ shutdown)) \/ idleDue' = idleDue
  BY DEF WorkerCreate, WorkerLeave, WorkerGone, InstanceSound, LifeTypeOK
<1>4. LifeTypeOK => LifeTypeOK'
  BY <1>1, <1>3, StillType
     DEF LifeTypeOK, WorkerCreate, WorkerLeave, WorkerGone, callVars, doneVars
<1>5. StagesSound'
  BY <1>1, <1>3 DEF InstanceSound, StagesSound, callVars, doneVars, fiberVars
<1> QED BY <1>1, <1>2, <1>4, <1>5, StillInv DEF callVars, doneVars

\* Shutdown() is called, by the event loop or on a fiber.
LEMMA ShutdownCallInv ==
  ASSUME InstanceSound, ShutdownCall PROVE InstanceSound'
<1> USE DEF InstanceSound
<1>0. TypeOK BY DEF LifeTypeOK
<1>1. /\ UNCHANGED fiberVars
      /\ UNCHANGED <<workers, unborn, leaving, todo, hardTimer, idleDue, idleArmed, idleStop, doneVars>>
      /\ ~shutdown /\ shutdown' = TRUE /\ handling' = TRUE /\ sdFiber' = current
      /\ sdDepth' = IF current = None THEN 0 ELSE Len(work[current])
      /\ Dispatching \/ InScript
  BY DEF ShutdownCall
<1>2. inst # "dead" BY <1>1, NotDead
<1>3. current \in Fiber \union {None} /\ sdDepth' \in Nat BY <1>0, <1>1 DEF TypeOK
<1>4. LifeTypeOK => LifeTypeOK' BY <1>1, <1>3, StillType DEF LifeTypeOK, doneVars
<1>5. StagesSound' BY <1>1, <1>2 DEF StagesSound, doneVars, fiberVars
<1> QED BY <1>1, <1>2, <1>4, <1>5, StillInv DEF doneVars

\* It tells the workers to go and arms the budget.
LEMMA ShutdownFinishInv ==
  ASSUME InstanceSound, ShutdownFinish PROVE InstanceSound'
<1> USE DEF InstanceSound
<1>1. /\ UNCHANGED fiberVars
      /\ UNCHANGED <<workers, unborn, shutdown, todo, idleArmed, idleStop, doneVars>>
      /\ InShutdown /\ handling /\ handling' = FALSE /\ sdFiber' = None /\ sdDepth' = 0
      /\ leaving' = workers /\ hardTimer' = "armed" /\ idleDue' = (idleDue \/ workers = {})
  BY DEF ShutdownFinish, ShutdownRest, InShutdown
<1>2. inst # "dead" BY <1>1, NotDead
<1>3. LifeTypeOK => LifeTypeOK' BY <1>1, StillType DEF LifeTypeOK, doneVars
<1>4. StagesSound' BY <1>1 DEF StagesSound, doneVars, fiberVars
<1> QED BY <1>1, <1>2, <1>3, <1>4, StillInv DEF doneVars

\* See ShutdownFinishInv: the fiber of the call is unwound.
LEMMA UnwoundInShutdownInv ==
  ASSUME InstanceSound, UnwoundInShutdown PROVE InstanceSound'
<1> USE DEF InstanceSound
<1>0. TypeOK /\ PoolSound BY DEF LifeTypeOK
<1>1. /\ InScript /\ UnwindEnd /\ handling /\ todo' = <<>>
      /\ UNCHANGED <<workers, unborn, shutdown, idleArmed, idleStop, done, emits, quit, removed, inst>>
      /\ handling' = FALSE /\ sdFiber' = None /\ sdDepth' = 0
      /\ leaving' = workers /\ hardTimer' = "armed" /\ idleDue' = (idleDue \/ workers = {})
  BY DEF UnwoundInShutdown, ShutdownRest, doneVars
<1>2. inst # "dead" /\ stop' = stop BY <1>1, NotDead DEF UnwindEnd
<1>3. TypeOK' /\ PoolSound' BY <1>0, <1>1, UnwindEndSound
<1>4. LifeTypeOK'
  <2>1. idleDue' \in BOOLEAN BY <1>1
  <2>2. todo' \in Seq(Entry) BY <1>1
  <2> QED BY <1>1, <1>3, <2>1, <2>2 DEF LifeTypeOK
<1>5. StagesSound' BY <1>1, <1>2 DEF StagesSound
<1>6. Len(todo') = 0 BY <1>1
<1>7. HandlersSound' BY <1>1, <1>6, YieldPosts DEF HandlersSound
<1>8. DoneOnce' /\ TeardownComplete' BY <1>1, <1>2 DEF DoneOnce, TeardownComplete
<1> QED BY <1>3, <1>4, <1>5, <1>7, <1>8

\* The process ends, in std::terminate or on a pointer that dangles.
LEMMA CrashInv ==
  ASSUME InstanceSound, Terminate \/ IdleInDtor \/ \E f \in Fiber : UnwindDangling(f)
  PROVE  InstanceSound'
<1> USE DEF InstanceSound
<1>1. /\ UNCHANGED fiberVars
      /\ UNCHANGED <<workers, unborn, leaving, shutdown, callVars, hardTimer, idleStop, done, emits>>
      /\ quit' = quit /\ inst' \in {inst, "crashed"}
      /\ idleDue' \in {idleDue, FALSE} /\ idleArmed' \in {idleArmed, TRUE}
  BY DEF Terminate, IdleInDtor, UnwindDangling
<1>2. inst # "dead"
  BY NotDead DEF Terminate, IdleInDtor, UnwindDangling
<1>3. LifeTypeOK => LifeTypeOK' BY <1>1, StillType DEF LifeTypeOK, callVars, InstState
<1>4. idleDue' => idleDue BY <1>1
<1>5. StagesSound' BY <1>1, <1>4, Zenon DEF StagesSound, callVars, fiberVars
<1> QED BY <1>1, <1>2, <1>3, <1>5, StillInv DEF callVars


\* A handler is started, on a fiber of its own or in place.
LEMMA HandlerCallInv ==
  ASSUME InstanceSound, HandlerCall PROVE InstanceSound'
<1> USE DEF InstanceSound
<1> DEFINE e == Head(todo)
<1>0. TypeOK /\ PoolSound /\ todo \in Seq(Entry) BY DEF LifeTypeOK
<1>1. /\ InShutdown /\ todo # <<>> /\ (RunFresh(e) \/ RunInline(e)) /\ todo' = Tail(todo)
      /\ UNCHANGED <<workers, unborn, leaving, shutdown, handling, sdFiber, sdDepth,
                     hardTimer, idleDue, idleArmed, idleStop, doneVars>>
  BY DEF HandlerCall
<1>2. /\ e \in Entry /\ todo' \in Seq(Entry)
      /\ \A i \in 1..Len(todo') : i + 1 \in 1..Len(todo) /\ todo'[i] = todo[i + 1]
  BY <1>0, <1>1
<1> HIDE DEF e
<1>3. inst # "dead" /\ inst' = inst BY <1>1, NotDead DEF doneVars
<1>4. stop' = stop BY <1>1 DEF RunFresh, RunInline
<1>5. RunFresh(e) => stop # "unwinding" BY <1>1 DEF RunFresh, InShutdown, StagesSound
<1>6. TypeOK' /\ PoolSound' BY <1>0, <1>1, <1>2, <1>3, <1>5, RunFreshSound, RunSound
<1>7. LifeTypeOK' BY <1>1, <1>2, <1>6 DEF LifeTypeOK, doneVars
<1>8. StagesSound' BY <1>1, <1>3, <1>4 DEF StagesSound, doneVars
<1>9. HandlersSound' BY <1>0, <1>1, <1>2, RunPosts DEF HandlersSound
<1>10. DoneOnce' /\ TeardownComplete' BY <1>1, <1>3 DEF DoneOnce, TeardownComplete, doneVars
<1> QED BY <1>6, <1>7, <1>8, <1>9, <1>10

\* What EmitDone does, the first time and later.
LEMMA EmitDoneFacts ==
  ASSUME InstanceSound, NEW inStop, EmitDone(inStop)
  PROVE  /\ done' = TRUE /\ quit' \in BOOLEAN /\ emits' \in {0, 1}
         /\ \/ done /\ UNCHANGED <<emits, inst>>
            \/ ~done /\ inst \in {"up", "crashed"} /\ inst' \in {"doomed", "doomedInStop"}
<1>1. CASE done
  BY <1>1, LifecycleAssumption DEF EmitDone, InstanceSound, LifeTypeOK, StagesSound
<1>2. CASE ~done
  <2>1. emits = 0 /\ inst \in {"up", "crashed"} BY <1>2 DEF InstanceSound, StagesSound
  <2>2. /\ done' = TRUE /\ emits' = emits + 1 /\ quit' \in {~r : r \in Reloading}
        /\ inst' \in {"doomed", "doomedInStop"}
    BY <1>2 DEF EmitDone
  <2>3. quit' \in BOOLEAN BY <2>2, LifecycleAssumption
  <2> QED BY <1>2, <2>1, <2>2, <2>3
<1> QED BY <1>1, <1>2

\* The time budget runs out.
LEMMA HardTimeoutInv ==
  ASSUME InstanceSound, HardTimeout PROVE InstanceSound'
<1> USE DEF InstanceSound
<1>1. /\ Dispatching /\ hardTimer = "armed" /\ hardTimer' = "fired" /\ EmitDone(stop = "waiting")
      /\ UNCHANGED fiberVars
      /\ UNCHANGED <<workers, unborn, leaving, shutdown, callVars, idleDue, idleArmed, idleStop>>
  BY DEF HardTimeout
<1>2. /\ done' = TRUE /\ quit' \in BOOLEAN /\ emits' \in {0, 1}
      /\ \/ done /\ UNCHANGED <<emits, inst>>
         \/ ~done /\ inst \in {"up", "crashed"} /\ inst' \in {"doomed", "doomedInStop"}
  BY <1>1, EmitDoneFacts
<1>3. inst \notin {"dead", "crashed"} BY <1>1 DEF Dispatching
<1>4. LifeTypeOK => LifeTypeOK' BY <1>1, <1>2, StillType DEF LifeTypeOK, callVars, InstState
<1>5. shutdown BY <1>1 DEF StagesSound
<1>6. ~(handling /\ sdFiber = None) BY <1>1, FibersAssumption DEF Dispatching, AtLoop, InShutdown
<1>7. StagesSound' BY <1>1, <1>2, <1>3, <1>5, <1>6 DEF StagesSound, callVars, fiberVars
<1> QED BY <1>1, <1>2, <1>3, <1>4, <1>7, StillInv DEF callVars

\* emitDoneWhenIdle, up to Stop() ...
LEMMA IdleDispatchInv ==
  ASSUME InstanceSound, IdleDispatch PROVE InstanceSound'
<1> USE DEF InstanceSound
<1>0. TypeOK /\ PoolSound BY DEF LifeTypeOK
<1>1. /\ Dispatching /\ inst # "stopping" /\ idleDue /\ idleDue' = FALSE /\ idleArmed' = TRUE
      /\ UNCHANGED <<workers, unborn, leaving, shutdown, callVars, hardTimer, doneVars>>
  BY DEF IdleDispatch
<1>2. inst \in {"up", "doomed", "doomedInStop"} /\ shutdown /\ ~(handling /\ sdFiber = None)
  BY <1>1, FibersAssumption
     DEF Dispatching, AtLoop, InShutdown, LifeTypeOK, InstState, StagesSound
<1>3. CASE idleArmed
  <2>1. UNCHANGED fiberVars /\ idleStop' = idleStop BY <1>3 DEF IdleDispatch
  <2>2. LifeTypeOK => LifeTypeOK' BY <1>1, <2>1, StillType DEF LifeTypeOK, callVars, doneVars
  <2>3. StagesSound' BY <1>1, <2>1 DEF StagesSound, callVars, doneVars, fiberVars
  <2> QED BY <1>1, <1>2, <2>1, <2>2, <2>3, StillInv DEF callVars, doneVars
<1>4. CASE ~idleArmed
  <2>1. StopBegin /\ idleStop' = TRUE BY <1>4 DEF IdleDispatch
  <2>2. inst' = inst /\ todo' = todo BY <1>1 DEF callVars, doneVars
  <2>3. TypeOK' /\ PoolSound' BY <1>0, <2>1, <2>2, StopBeginSound
  <2>4. LifeTypeOK' BY <1>1, <2>1, <2>3 DEF LifeTypeOK, callVars, doneVars
  <2>5. StagesSound' BY <1>1, <1>2, <2>1 DEF StagesSound, callVars, doneVars, StopBegin
  <2>6. HandlersSound' BY <2>1, <2>2 DEF HandlersSound, StopBegin
  <2>7. DoneOnce' /\ TeardownComplete' BY <1>1, <1>2, <2>2 DEF DoneOnce, TeardownComplete, doneVars
  <2> QED BY <2>3, <2>4, <2>5, <2>6, <2>7
<1> QED BY <1>3, <1>4

\* ... and after it.
LEMMA IdleStopEndInv ==
  ASSUME InstanceSound, IdleStopEnd PROVE InstanceSound'
<1> USE DEF InstanceSound
<1>0. TypeOK /\ PoolSound BY DEF LifeTypeOK
<1>1. /\ inst \in {"up", "doomed", "doomedInStop"} /\ idleStop /\ StopEnd /\ idleStop' = FALSE
      /\ EmitDone(FALSE)
      /\ UNCHANGED <<workers, unborn, leaving, shutdown, callVars, hardTimer, idleDue, idleArmed>>
  BY DEF IdleStopEnd
<1>2. /\ done' = TRUE /\ quit' \in BOOLEAN /\ emits' \in {0, 1}
      /\ \/ done /\ UNCHANGED <<emits, inst>>
         \/ ~done /\ inst \in {"up", "crashed"} /\ inst' \in {"doomed", "doomedInStop"}
  BY <1>1, EmitDoneFacts
<1>3. inst' \in {"up", "doomed", "doomedInStop"} BY <1>1, <1>2
<1>4. TypeOK' /\ PoolSound' BY <1>0, <1>1, <1>3, StopEndSound
<1>5. LifeTypeOK' BY <1>1, <1>2, <1>3, <1>4 DEF LifeTypeOK, callVars, InstState
<1>6. stop = "unwinding" /\ stop' = "no" /\ entry' = entry /\ shutdown
  BY <1>1 DEF StopEnd, StagesSound
<1>7. StagesSound' BY <1>1, <1>2, <1>3, <1>6 DEF StagesSound, callVars
<1>8. HandlersSound' BY <1>1, <1>6 DEF HandlersSound, callVars
<1>9. DoneOnce' /\ TeardownComplete' BY <1>2, <1>3 DEF DoneOnce, TeardownComplete
<1> QED BY <1>4, <1>5, <1>7, <1>8, <1>9


\* ~Instance begins, and drops what is queued.
LEMMA DtorBeginInv ==
  ASSUME InstanceSound, DtorBegin PROVE InstanceSound'
<1> USE DEF InstanceSound
<1>0. TypeOK /\ PoolSound BY DEF LifeTypeOK
<1>1. /\ current = None /\ ~InShutdown /\ inst \in {"doomed", "doomedInStop"}
      /\ idleStop => stop = "waiting"
      /\ inst' = "dropping" /\ quit' = FALSE /\ idleDue' = FALSE /\ stop' = "no"
      /\ UNCHANGED <<entry, current>>
      /\ UNCHANGED <<workers, unborn, leaving, shutdown, callVars, hardTimer, idleArmed, idleStop,
                     done, emits>>
  BY DEF DtorBegin, LifeTypeOK
<1>2. stop # "unwinding" BY <1>1 DEF StagesSound
<1>3. TypeOK' /\ PoolSound' BY <1>0, <1>2, DtorBeginSound
<1>4. LifeTypeOK' BY <1>1, <1>3 DEF LifeTypeOK, callVars, InstState
<1>5. ~(handling /\ sdFiber = None) BY <1>1, FibersAssumption DEF InShutdown
<1>6. StagesSound' BY <1>1, <1>5 DEF StagesSound, callVars
<1>7. HandlersSound' BY <1>1 DEF HandlersSound, callVars
<1>8. DoneOnce' /\ TeardownComplete' BY <1>1 DEF DoneOnce, TeardownComplete
<1> QED BY <1>3, <1>4, <1>6, <1>7, <1>8

\* See DtorBeginInv.
LEMMA DropInv ==
  ASSUME InstanceSound,
         \/ \E e \in Entry : DropPosted(e)
         \/ \E f \in Fiber : DropResume(f) \/ DropResumeEnd(f)
  PROVE  InstanceSound'
<1> USE DEF InstanceSound
<1>0. TypeOK /\ PoolSound BY DEF LifeTypeOK
<1>1. /\ inst = "dropping" /\ inst' = inst /\ todo' = todo /\ stop' = stop
      /\ UNCHANGED <<workers, unborn, leaving, shutdown, hardTimer, idleDue, idleArmed, idleStop,
                     done, emits, quit>>
      /\ UNCHANGED <<handling, sdFiber, sdDepth>>
  BY DEF DropPosted, DropResume, DropResumeEnd, Forget, callVars, lifeVars
<1>2. TypeOK' /\ PoolSound'
  <2>1. ASSUME NEW e \in Entry, DropPosted(e) PROVE TypeOK' /\ PoolSound'
    BY <1>0, <1>1, <2>1, DropPostedSound DEF DropPosted
  <2> QED BY <1>0, <2>1, DropResumeSound, DropResumeEndSound
<1>3. \A e \in Entry : entry'[e] = "posted" => entry[e] = "posted"
  <2>1. ASSUME NEW e \in Entry, DropPosted(e)
        PROVE  \A d \in Entry : entry'[d] = "posted" => entry[d] = "posted"
    BY <1>0, <2>1 DEF DropPosted, TypeOK
  <2>2. ASSUME NEW f \in Fiber, DropResume(f) \/ DropResumeEnd(f)
        PROVE  \A d \in Entry : entry'[d] = "posted" => entry[d] = "posted"
    BY <2>2 DEF DropResume, DropResumeEnd, EndAll
  <2> QED BY <2>1, <2>2
<1>4. LifeTypeOK' BY <1>1, <1>2 DEF LifeTypeOK
<1>5. StagesSound' BY <1>1 DEF StagesSound
<1>6. HandlersSound' BY <1>1, <1>3 DEF HandlersSound
<1>7. DoneOnce' /\ TeardownComplete' BY <1>1 DEF DoneOnce, TeardownComplete
<1> QED BY <1>2, <1>4, <1>5, <1>6, <1>7

\* ~FiberPool calls Stop() ...
LEMMA DtorStopInv ==
  ASSUME InstanceSound, DtorStop PROVE InstanceSound'
<1> USE DEF InstanceSound
<1>0. TypeOK /\ PoolSound BY DEF LifeTypeOK
<1>1. /\ inst = "dropping" /\ inst' = "stopping" /\ StopBegin
      /\ \A f \in Fiber : coro[f] # "unwinding"
      /\ workers' = {} /\ leaving' = {} /\ idleDue' = (workers # {} /\ shutdown)
      /\ UNCHANGED <<unborn, shutdown, callVars, hardTimer, idleArmed, idleStop,
                     done, emits, quit, removed>>
  BY DEF DtorStop
<1>2. TypeOK' /\ PoolSound' BY <1>0, <1>1, StopBeginSound
<1>3. LifeTypeOK' BY <1>1, <1>2 DEF LifeTypeOK, callVars, InstState
<1>4. StagesSound' BY <1>1 DEF StagesSound, callVars
<1>5. HandlersSound' BY <1>1 DEF HandlersSound, callVars, StopBegin
<1>6. DoneOnce' /\ TeardownComplete' BY <1>1 DEF DoneOnce, TeardownComplete
<1> QED BY <1>2, <1>3, <1>4, <1>5, <1>6

\* ... and the Lua state is closed when it returns.
LEMMA DtorEndInv ==
  ASSUME InstanceSound, DtorEnd PROVE InstanceSound'
<1> USE DEF InstanceSound
<1>0. TypeOK /\ PoolSound BY DEF LifeTypeOK
<1>1. /\ inst = "stopping" /\ StopEnd /\ inst' \in {"crashed", "dead"}
      /\ UNCHANGED <<workers, unborn, leaving, shutdown, callVars, hardTimer, idleDue, idleArmed,
                     idleStop, done, emits, quit, removed>>
  BY DEF DtorEnd
<1>2. /\ stop' = "no" /\ current' = None /\ entry' = entry /\ coro' = coro
  BY <1>1 DEF StopEnd
<1>3. /\ TypeOK' /\ PoolSound'
      /\ \A f \in Fiber : coro[f] \in {"none", "idle", "unwound"}
      /\ \A e \in Entry : entry[e] # "live"
  BY <1>0, <1>1, StopEndSound
<1>4. LifeTypeOK' BY <1>1, <1>3 DEF LifeTypeOK, callVars, InstState
<1>5. StagesSound' BY <1>1, <1>2 DEF StagesSound, callVars
<1>6. HandlersSound' BY <1>1, <1>2 DEF HandlersSound, callVars
<1>7. DoneOnce' /\ TeardownComplete' BY <1>1, <1>2, <1>3 DEF DoneOnce, TeardownComplete
<1> QED BY <1>3, <1>4, <1>5, <1>6, <1>7

\* Every step of an Instance keeps the invariant.
LEMMA LifeNextInv == InstanceSound /\ [LifeNext]_vars => InstanceSound'
<1> SUFFICES ASSUME InstanceSound, [LifeNext]_vars PROVE InstanceSound' OBVIOUS
<1>1. CASE UNCHANGED vars
  <2>1. UNCHANGED fiberVars /\ UNCHANGED lifeVars BY <1>1 DEF vars
  <2>2. LifeTypeOK' BY <2>1, StillType DEF lifeVars, InstanceSound, LifeTypeOK
  <2>3. PoolSound' BY <2>1, StillSound DEF lifeVars, InstanceSound, LifeTypeOK
  <2>4. StagesSound' /\ HandlersSound'
    BY <2>1 DEF fiberVars, lifeVars, InstanceSound, StagesSound, HandlersSound
  <2>5. DoneOnce' /\ TeardownComplete'
    BY <2>1 DEF fiberVars, lifeVars, InstanceSound, DoneOnce, TeardownComplete
  <2> QED BY <2>2, <2>3, <2>4, <2>5 DEF InstanceSound
<1>2. CASE \/ ScriptYield
           \/ \E e \in Entry : ScriptStart(e) \/ EventEntry(e) \/ SpawnDispatch(e) \/ DtorCallback(e)
           \/ \E f \in Fiber : ResumeDispatch(f) \/ SettleAnytime(f)
           \/ StopStep
  BY <1>2, YieldSplits, QuietYieldInv, UnwoundInShutdownInv, ScriptStartInv, EntryInv, ServeInv, StopStepInv
<1>3. CASE \/ Terminate \/ IdleInDtor \/ \E f \in Fiber : UnwindDangling(f)
  BY <1>3, CrashInv
<1>4. CASE \E w \in Worker : WorkerCreate(w) \/ WorkerLeave(w) \/ WorkerGone(w)
  BY <1>4, WorkerInv
<1>5. CASE ShutdownCall \/ HandlerCall \/ ShutdownFinish
  BY <1>5, ShutdownCallInv, HandlerCallInv, ShutdownFinishInv
<1>6. CASE HardTimeout \/ IdleDispatch \/ IdleStopEnd
  BY <1>6, HardTimeoutInv, IdleDispatchInv, IdleStopEndInv
<1>7. CASE \/ DtorBegin \/ DtorStop \/ DtorEnd
           \/ \E e \in Entry : DropPosted(e)
           \/ \E f \in Fiber : DropResume(f) \/ DropResumeEnd(f)
  BY <1>7, DtorBeginInv, DropInv, DtorStopInv, DtorEndInv
<1> QED BY <1>1, <1>2, <1>3, <1>4, <1>5, <1>6, <1>7 DEF LifeNext

\* In the first state too.
LEMMA LifeInitInv == LifeInit => InstanceSound
<1> SUFFICES ASSUME LifeInit PROVE InstanceSound OBVIOUS
<1> USE DEF LifeInit
<1>1. TypeOK BY FibersInitInv DEF FibersInv
<1>2. Handlers \in Seq(Entry) /\ Boundary \subseteq Entry
  BY LifecycleAssumption, FibersAssumption
<1>3. LifeTypeOK BY <1>1, <1>2 DEF LifeTypeOK, InstState
<1>4. PoolSound BY FibersAssumption DEF PoolSound, FibersSound, LiveEntriesFound, FibersInit
<1>5. StagesSound BY DEF StagesSound, FibersInit
<1>6. HandlersSound BY DEF HandlersSound, IsHandler, FibersInit
<1>7. DoneOnce /\ TeardownComplete BY DEF DoneOnce, TeardownComplete
<1> QED BY <1>3, <1>4, <1>5, <1>6, <1>7 DEF InstanceSound

-----------------------------------------------------------------------------
(* The Shutdown() call and the fiber it runs on                            *)

\* Run takes a fiber that carries nothing, or adds to the one that runs.
LEMMA RunLoaded ==
  ASSUME TypeOK, PoolSound, FibersLoaded, NEW e \in Entry,
         RunFresh(e) \/ RunInline(e) \/ RunRefused(e) \/ Spawn(e), UNCHANGED <<inst, removed>>
  PROVE  FibersLoaded'
<1>1. CASE RunFresh(e)
  <2>1. PICK f \in Fiber :
          /\ TakeFiber(f)
          /\ coro' = [coro EXCEPT ![f] = "running"]
          /\ detached' = detached \ {f}
          /\ work' = [work EXCEPT ![f] = <<e>>]
    BY <1>1 DEF RunFresh
  <2>2. coro[f] \in {"none", "idle"} BY <2>1, TakenIsEmpty
  <2>3. f \notin removed BY <2>2 DEF PoolSound, FibersSound, FibersLoaded
  <2>4. <<e>> # <<>> OBVIOUS
  <2> QED BY <2>1, <2>2, <2>3, <2>4 DEF FibersLoaded, TypeOK
<1>2. CASE RunInline(e)
  <2>1. /\ work' = [work EXCEPT ![current] = Append(work[current], e)]
        /\ UNCHANGED <<coro, detached>> /\ current \in Fiber
    BY <1>2 DEF RunInline, TypeOK
  <2>2. Append(work[current], e) # <<>> BY <2>1 DEF TypeOK
  <2>3. \A f \in Fiber : work'[f] = work[f] \/ work'[f] # <<>> BY <2>1, <2>2 DEF TypeOK
  <2> QED BY <2>1, <2>3 DEF FibersLoaded
<1>3. CASE RunRefused(e) \/ Spawn(e)
  BY <1>3 DEF RunRefused, Spawn, FibersLoaded
<1> QED BY <1>1, <1>2, <1>3

\* A fiber that ends an entry keeps others, or is given back; one that is resumed
\* or suspended keeps them all.
LEMMA YieldLoaded ==
  ASSUME TypeOK, PoolSound, FibersLoaded,
         \/ EndEntry \/ ThrowForcedShutdown \/ Await \/ UnwindEnd
         \/ \E f \in Fiber : Settle(f) \/ (removed = {} /\ (Resume(f) \/ ResumeDetached(f))),
         UNCHANGED <<inst, removed>>
  PROVE  FibersLoaded'
<1>1. CASE EndEntry \/ ThrowForcedShutdown
  <2>1. PICK rest, how : Leave(rest, how) BY <1>1 DEF EndEntry, ThrowForcedShutdown
  <2>2. current \in Fiber /\ coro[current] = "running"
    BY <1>1 DEF EndEntry, ThrowForcedShutdown, TypeOK
  <2>3. work' = [work EXCEPT ![current] = rest] /\ detached' = detached BY <2>1 DEF Leave
  <2>4. CASE rest # <<>>
    <3>1. coro' = coro BY <2>1, <2>4 DEF Leave
    <3> QED BY <2>2, <2>3, <2>4, <3>1 DEF FibersLoaded, TypeOK
  <2>5. CASE rest = <<>>
    <3>1. PICK c \in {"idle", "none"} : coro' = [coro EXCEPT ![current] = c]
      BY <2>1, <2>5 DEF Leave, ReturnFiber
    <3>2. current \notin removed BY <2>2 DEF PoolSound, FibersSound, FibersLoaded
    <3> QED BY <2>2, <2>3, <3>1, <3>2 DEF FibersLoaded, TypeOK
  <2> QED BY <2>4, <2>5
<1>2. CASE Await
  <2>1. /\ current \in Fiber /\ coro[current] = "running"
        /\ coro' = [coro EXCEPT ![current] = "suspended"]
        /\ UNCHANGED <<detached, work>>
    BY <1>2 DEF Await, AwaitOn, TypeOK
  <2> QED BY <2>1 DEF FibersLoaded, TypeOK
<1>3. CASE UnwindEnd
  <2>1. /\ current \in Fiber /\ coro[current] = "unwinding"
        /\ coro' = [coro EXCEPT ![current] = "unwound"]
        /\ work' = [work EXCEPT ![current] = <<>>]
        /\ detached' = detached
    BY <1>3 DEF UnwindEnd, TypeOK
  <2> QED BY <2>1 DEF FibersLoaded, TypeOK
<1>4. ASSUME NEW f \in Fiber, Settle(f) PROVE FibersLoaded'
  BY <1>4 DEF Settle, FibersLoaded
<1>5. ASSUME NEW f \in Fiber, Resume(f), removed = {} PROVE FibersLoaded'
  <2>1. coro[f] = "suspended" BY <1>5 DEF Resume, PoolSound, FibersSound
  <2> QED BY <1>5, <2>1 DEF Resume, FibersLoaded, TypeOK
<1>6. ASSUME NEW f \in Fiber, ResumeDetached(f), removed = {} PROVE FibersLoaded'
  BY <1>6 DEF ResumeDetached, FibersLoaded, TypeOK
<1> QED BY <1>1, <1>2, <1>3, <1>4, <1>5, <1>6

\* Stop() unwinds fibers that carry entries.
LEMMA StopLoaded ==
  ASSUME TypeOK, PoolSound, FibersLoaded,
         \/ StopBegin \/ StopCollect \/ StopEnd
         \/ \E f \in Fiber : holder[f] # "none" /\ UnwindBegin(f),
         removed = {}, removed' = {}
  PROVE  FibersLoaded'
<1>1. CASE StopBegin \/ StopCollect \/ StopEnd
  BY <1>1 DEF StopBegin, StopCollect, StopEnd, FibersLoaded
<1>2. ASSUME NEW f \in Fiber, holder[f] # "none", UnwindBegin(f) PROVE FibersLoaded'
  <2>1. f \in stragglers /\ coro' = [coro EXCEPT ![f] = "unwinding"] /\ work' = work
    BY <1>2 DEF UnwindBegin
  <2>2. coro[f] \in {"running", "suspended", "unwinding"}
    BY <1>2, <2>1 DEF PoolSound, FibersSound, TypeOK
  <2> QED BY <2>1, <2>2 DEF FibersLoaded, TypeOK
<1> QED BY <1>1, <1>2

\* ~Instance unwinds fibers that carry entries.
LEMMA DropLoaded ==
  ASSUME InstanceSound, FibersLoaded,
         \/ DtorBegin \/ \E e \in Entry : DropPosted(e)
         \/ \E f \in Fiber : DropResume(f) \/ DropResumeEnd(f)
  PROVE  FibersLoaded'
<1>0. TypeOK /\ PoolSound BY DEF InstanceSound, LifeTypeOK
<1>1. CASE DtorBegin
  <2>1. /\ removed' = {e \in Entry : entry[e] = "posted"} \union {f \in Fiber : holder[f] = "event"}
        /\ UNCHANGED <<coro, work, detached>> /\ inst' = "dropping"
    BY <1>1 DEF DtorBegin
  <2>2. \A f \in Fiber : f \in removed' => holder[f] = "event" BY <2>1, LifecycleAssumption
  <2> QED BY <1>0, <2>1, <2>2 DEF FibersLoaded, PoolSound, FibersSound
<1>2. ASSUME NEW e \in Entry, DropPosted(e) PROVE FibersLoaded'
  BY <1>2 DEF DropPosted, Forget, FibersLoaded
<1>3. ASSUME NEW f \in Fiber, DropResume(f) PROVE FibersLoaded'
  <2>1. /\ inst = "dropping" /\ inst' = inst /\ removed' = removed \ {f} /\ f \in removed
        /\ detached' = detached \ {f} /\ work' = work
        /\ coro' = [coro EXCEPT ![f] = IF f \in detached THEN "none" ELSE "unwinding"]
    BY <1>3 DEF DropResume, Forget
  <2>2. f \in detached \/ coro[f] = "suspended" BY <2>1 DEF FibersLoaded
  <2> QED BY <1>0, <2>1, <2>2 DEF FibersLoaded, TypeOK
<1>4. ASSUME NEW f \in Fiber, DropResumeEnd(f) PROVE FibersLoaded'
  <2>1. /\ inst = "dropping" /\ UNCHANGED <<inst, removed, detached>> /\ coro[f] = "unwinding"
        /\ coro' = [coro EXCEPT ![f] = "none"] /\ work' = [work EXCEPT ![f] = <<>>]
    BY <1>4 DEF DropResumeEnd, lifeVars
  <2> QED BY <1>0, <2>1 DEF FibersLoaded, TypeOK
<1> QED BY <1>1, <1>2, <1>3, <1>4

\* Every step keeps FibersLoaded.
LEMMA LoadedNext == InstanceSound /\ FibersLoaded /\ [LifeNext]_vars => FibersLoaded'
<1> SUFFICES ASSUME InstanceSound, FibersLoaded, [LifeNext]_vars PROVE FibersLoaded' OBVIOUS
<1>0. TypeOK /\ PoolSound BY DEF InstanceSound, LifeTypeOK
<1>1. ASSUME UNCHANGED fiberVars, removed' = removed,
             inst' \in {inst, "crashed"} \/ inst \notin {"dropping", "crashed"}
      PROVE  FibersLoaded'
  BY <1>1 DEF fiberVars, FibersLoaded
<1>2. CASE UNCHANGED vars BY <1>1, <1>2 DEF vars, lifeVars
<1>3. CASE Terminate \/ IdleInDtor \/ \E f \in Fiber : UnwindDangling(f)
  BY <1>1, <1>3 DEF Terminate, IdleInDtor, UnwindDangling
<1>4. CASE \/ \E w \in Worker : WorkerCreate(w) \/ WorkerLeave(w) \/ WorkerGone(w)
           \/ ShutdownCall \/ ShutdownFinish
  BY <1>1, <1>4 DEF WorkerCreate, WorkerLeave, WorkerGone, ShutdownCall, ShutdownFinish, ShutdownRest,
     doneVars
<1>5. CASE HardTimeout
  BY <1>1, <1>5 DEF HardTimeout, Dispatching, EmitDone
<1>6. CASE QuietYield
  <2>1. UNCHANGED lifeVars /\ (EndEntry \/ ThrowForcedShutdown \/ Await \/ UnwindEnd)
    BY <1>6 DEF QuietYield
  <2> QED BY <1>0, <2>1, YieldLoaded DEF lifeVars
<1>7. CASE UnwoundInShutdown
  BY <1>0, <1>7, YieldLoaded DEF UnwoundInShutdown, ShutdownRest, doneVars
<1>8. ASSUME NEW e \in Entry, ScriptStart(e) \/ EventEntry(e) \/ SpawnDispatch(e) \/ DtorCallback(e)
      PROVE  FibersLoaded'
  <2>1. UNCHANGED lifeVars BY <1>8 DEF ScriptStart, EventEntry, SpawnDispatch, DtorCallback
  <2>2. \/ RunFresh(e) \/ RunInline(e) \/ RunRefused(e) \/ Spawn(e)
        \/ UNCHANGED <<coro, detached, work>>
    BY <1>8 DEF ScriptStart, EventEntry, SpawnDispatch, DtorCallback
  <2>3. CASE UNCHANGED <<coro, detached, work>> BY <2>1, <2>3 DEF lifeVars, FibersLoaded
  <2> QED BY <1>0, <2>1, <2>2, <2>3, RunLoaded DEF lifeVars
<1>9. ASSUME NEW f \in Fiber, ResumeDispatch(f) \/ SettleAnytime(f) PROVE FibersLoaded'
  <2>1. UNCHANGED lifeVars BY <1>9 DEF ResumeDispatch, SettleAnytime
  <2>2. Settle(f) \/ (removed = {} /\ (Resume(f) \/ ResumeDetached(f)))
    BY <1>9 DEF ResumeDispatch, SettleAnytime, Dispatching, FibersLoaded
  <2> QED BY <1>0, <2>1, <2>2, YieldLoaded DEF lifeVars
<1>10. CASE StopStep \/ IdleStopEnd \/ DtorStop \/ DtorEnd
  <2>1. removed = {} /\ removed' = {}
    BY <1>10 DEF StopStep, IdleStopEnd, EmitDone, DtorStop, DtorEnd, FibersLoaded, lifeVars
  <2>2. \/ StopBegin \/ StopCollect \/ StopEnd
        \/ \E f \in Fiber : holder[f] # "none" /\ UnwindBegin(f)
    BY <1>10 DEF StopStep, StopIdle, StopDeadline, IdleStopEnd, DtorStop, DtorEnd
  <2> QED BY <1>0, <2>1, <2>2, StopLoaded
<1>11. CASE IdleDispatch
  <2>1. removed = {} /\ removed' = {} /\ inst' = inst
    BY <1>11 DEF IdleDispatch, Dispatching, FibersLoaded, doneVars
  <2>2. UNCHANGED fiberVars \/ StopBegin BY <1>11 DEF IdleDispatch
  <2> QED BY <1>0, <1>1, <2>1, <2>2, StopLoaded
<1>12. CASE HandlerCall
  <2>1. Head(todo) \in Entry BY <1>12 DEF HandlerCall, InstanceSound, LifeTypeOK
  <2>2. UNCHANGED <<inst, removed>> /\ (RunFresh(Head(todo)) \/ RunInline(Head(todo)))
    BY <1>12 DEF HandlerCall, doneVars
  <2> QED BY <1>0, <2>1, <2>2, RunLoaded
<1>13. CASE \/ DtorBegin \/ \E e \in Entry : DropPosted(e)
            \/ \E f \in Fiber : DropResume(f) \/ DropResumeEnd(f)
  BY <1>13, DropLoaded
<1> QED
  BY YieldSplits, <1>2, <1>3, <1>4, <1>5, <1>6, <1>7, <1>8, <1>9, <1>10, <1>11, <1>12, <1>13 DEF LifeNext

\* The call is as it was when its fiber keeps its entries and its stack.
LEMMA CallKept ==
  ASSUME CallSound, UNCHANGED <<handling, sdFiber, sdDepth, done, hardTimer>>,
         handling /\ sdFiber # None =>
           /\ work'[sdFiber] = work[sdFiber]
           /\ coro'[sdFiber] \in {"running", "suspended", "unwinding"}
  PROVE  CallSound'
BY DEF CallSound

\* What is entered on the fiber of the call is a handler, or nested in one.
LEMMA CallRun ==
  ASSUME InstanceSound, CallSound, UNCHANGED <<handling, sdFiber, sdDepth, done, hardTimer>>,
         NEW e \in Entry, RunFresh(e) \/ RunInline(e) \/ RunRefused(e) \/ Spawn(e),
         ~InShutdown \/ e \in Boundary
  PROVE  CallSound'
<1>0. TypeOK /\ PoolSound /\ sdFiber \in Fiber \union {None} /\ sdDepth \in Nat
  BY DEF InstanceSound, LifeTypeOK
<1>1. CASE RunFresh(e)
  <2>1. PICK f \in Fiber :
          /\ TakeFiber(f)
          /\ coro' = [coro EXCEPT ![f] = "running"]
          /\ work' = [work EXCEPT ![f] = <<e>>]
    BY <1>1 DEF RunFresh
  <2>2. coro[f] \in {"none", "idle"} BY <1>0, <2>1, TakenIsEmpty
  <2>3. handling /\ sdFiber # None => sdFiber # f /\ sdFiber \in Fiber
    BY <1>0, <2>2 DEF CallSound
  <2> QED BY <1>0, <2>1, <2>3, CallKept DEF CallSound, TypeOK
<1>2. CASE RunInline(e)
  <2>1. /\ work' = [work EXCEPT ![current] = Append(work[current], e)]
        /\ coro' = coro /\ current' = current /\ current \in Fiber /\ current # None
    BY <1>0, <1>2 DEF RunInline, TypeOK
  <2>2. CASE handling /\ sdFiber = current
    <3> DEFINE s == work[current]
    <3>1. /\ s \in Seq(Entry) /\ sdDepth \in 1..Len(s)
          /\ Len(s) > sdDepth => s[sdDepth + 1] \in Boundary
      BY <1>0, <2>1, <2>2 DEF CallSound, TypeOK
    <3>2. Len(s) = sdDepth => e \in Boundary BY <2>1, <2>2 DEF InShutdown
    <3>3. work'[sdFiber] = Append(s, e) BY <1>0, <2>1, <2>2 DEF TypeOK
    <3> HIDE DEF s
    <3>4. /\ sdDepth \in 1..Len(Append(s, e))
          /\ Append(s, e)[sdDepth + 1] \in Boundary
      BY <3>1, <3>2
    <3> QED BY <2>1, <2>2, <3>3, <3>4 DEF CallSound
  <2>3. CASE ~(handling /\ sdFiber = current)
    <3>1. handling /\ sdFiber # None => work'[sdFiber] = work[sdFiber]
      BY <1>0, <2>1, <2>3 DEF TypeOK
    <3> QED BY <2>1, <3>1, CallKept DEF CallSound
  <2> QED BY <2>2, <2>3
<1>3. CASE RunRefused(e) \/ Spawn(e)
  BY <1>3, CallKept DEF RunRefused, Spawn, CallSound
<1> QED BY <1>1, <1>2, <1>3

\* Neither a return nor a throw ends an entry the call was made from.
LEMMA CallYield ==
  ASSUME InstanceSound, CallSound, UNCHANGED <<handling, sdFiber, sdDepth, done, hardTimer>>,
         InScript,
         \/ EndEntry \/ ThrowForcedShutdown \/ Await
         \/ UnwindEnd /\ ~(handling /\ sdFiber = current)
  PROVE  CallSound'
<1>0. /\ TypeOK /\ PoolSound /\ sdFiber \in Fiber \union {None} /\ sdDepth \in Nat
      /\ current \in Fiber /\ work[current] \in Seq(Entry)
  BY DEF InstanceSound, LifeTypeOK, InScript, TypeOK
<1>1. CASE Await
  BY <1>0, <1>1, CallKept DEF Await, AwaitOn, CallSound, TypeOK
<1>2. CASE EndEntry \/ ThrowForcedShutdown
  <2> DEFINE s == work[current]
  <2>1. PICK n, how :
          /\ Leave(SubSeq(s, 1, n), how)
          /\ \/ n = Len(s) - 1
             \/ n + 1 \in 1..Len(s) /\ n \in Int /\ \A j \in (n + 2)..Len(s) : s[j] \notin Boundary
    <3>1. CASE EndEntry BY <3>1 DEF EndEntry
    <3>2. CASE ThrowForcedShutdown
      <4>1. PICK d \in 1..Len(s) : CatchesAt(s, d) /\ Leave(SubSeq(s, 1, d - 1), "aborted")
        BY <3>2 DEF ThrowForcedShutdown
      <4>2. /\ d - 1 \in Int /\ (d - 1) + 1 = d /\ (d - 1) + 2 = d + 1
        BY <1>0, <4>1
      <4> QED BY <4>1, <4>2 DEF CatchesAt
    <3> QED BY <1>2, <3>1, <3>2
  <2>2. work' = [work EXCEPT ![current] = SubSeq(s, 1, n)] BY <2>1 DEF Leave
  <2>3. \A g \in Fiber : g # current => coro'[g] = coro[g] /\ work'[g] = work[g]
    BY <1>0, <2>1, <2>2 DEF Leave, ReturnFiber, TypeOK
  <2>4. CASE ~(handling /\ sdFiber = current)
    BY <1>0, <2>3, <2>4, CallKept DEF CallSound
  <2>5. CASE handling /\ sdFiber = current
    <3>1. /\ sdDepth \in 1..Len(s) /\ Len(s) # sdDepth /\ coro[current] = "running"
      BY <1>0, <1>2, <2>5, FibersAssumption
         DEF CallSound, InScript, InShutdown, EndEntry, ThrowForcedShutdown
    <3>2. s \in Seq(Entry) /\ Len(s) \in Nat /\ sdDepth + 1 \in 1..Len(s) BY <1>0, <3>1
    <3>3. s[sdDepth + 1] \in Boundary BY <1>0, <2>5, <3>1, <3>2, FibersAssumption DEF CallSound
    <3> HIDE DEF s
    <3>5. n \in Nat /\ sdDepth <= n /\ n <= Len(s) BY <1>0, <2>1, <3>1, <3>2, <3>3
    <3>6. /\ Len(SubSeq(s, 1, n)) = n
          /\ \A i \in 1..n : SubSeq(s, 1, n)[i] = s[i]
      BY <3>2, <3>5
    <3>7. SubSeq(s, 1, n) # <<>> BY <3>1, <3>5, <3>6
    <3>8. coro' = coro BY <2>1, <3>7 DEF Leave
    <3>9. work'[sdFiber] = SubSeq(s, 1, n) BY <1>0, <2>2, <2>5 DEF TypeOK
    <3>10. sdDepth \in 1..n /\ (n > sdDepth => SubSeq(s, 1, n)[sdDepth + 1] = s[sdDepth + 1])
      BY <3>1, <3>2, <3>5, <3>6
    <3> QED BY <1>0, <2>5, <3>3, <3>6, <3>8, <3>9, <3>10 DEF CallSound
  <2> QED BY <2>4, <2>5
<1>3. CASE UnwindEnd /\ ~(handling /\ sdFiber = current)
  BY <1>0, <1>3, CallKept DEF UnwindEnd, CallSound, TypeOK
<1> QED BY <1>1, <1>2, <1>3

\* The event loop and Stop() keep the stack of the call until it is unwound.
LEMMA CallServe ==
  ASSUME InstanceSound, CallSound, UNCHANGED <<handling, sdFiber, sdDepth, done, hardTimer>>,
         \/ StopBegin \/ StopCollect
         \/ \E f \in Fiber : Settle(f) \/ UnwindBegin(f) \/ (Dispatching /\ (Resume(f) \/ ResumeDetached(f)))
  PROVE  CallSound'
<1>0. TypeOK /\ PoolSound /\ sdFiber \in Fiber \union {None} BY DEF InstanceSound, LifeTypeOK
<1>1. CASE StopBegin \/ StopCollect
  BY <1>1, CallKept DEF StopBegin, StopCollect, CallSound
<1>2. ASSUME NEW f \in Fiber, Settle(f) \/ UnwindBegin(f) \/ Resume(f) PROVE CallSound'
  BY <1>0, <1>2, CallKept DEF Settle, UnwindBegin, Resume, CallSound, TypeOK
<1>3. ASSUME NEW f \in Fiber, Dispatching, ResumeDetached(f) PROVE CallSound'
  <2>1. coro[f] = "unwound"
    BY <1>0, <1>3, FibersAssumption DEF Dispatching, ResumeDetached, AtLoop, PoolSound, FibersSound, TypeOK
  <2> QED BY <1>0, <1>3, <2>1, CallKept DEF ResumeDetached, CallSound, TypeOK
<1> QED BY <1>1, <1>2, <1>3

\* Every step keeps CallSound.
LEMMA CallNext ==
  InstanceSound /\ FibersLoaded /\ CallSound /\ [LifeNext]_vars => CallSound'
<1> SUFFICES ASSUME InstanceSound, FibersLoaded, CallSound, [LifeNext]_vars PROVE CallSound' OBVIOUS
<1>0. TypeOK /\ PoolSound BY DEF InstanceSound, LifeTypeOK
<1>1. ASSUME UNCHANGED fiberVars, UNCHANGED <<handling, sdFiber, sdDepth, done, hardTimer>>
      PROVE  CallSound'
  BY <1>1, CallKept DEF fiberVars, CallSound
<1>2. CASE UNCHANGED vars BY <1>1, <1>2 DEF vars, lifeVars
<1>3. CASE \/ Terminate \/ IdleInDtor \/ \E f \in Fiber : UnwindDangling(f)
           \/ \E w \in Worker : WorkerCreate(w) \/ WorkerLeave(w) \/ WorkerGone(w)
  BY <1>1, <1>3 DEF Terminate, IdleInDtor, UnwindDangling, WorkerCreate, WorkerLeave, WorkerGone,
     callVars, doneVars
<1>4. CASE ShutdownFinish \/ UnwoundInShutdown
  BY <1>4 DEF ShutdownFinish, UnwoundInShutdown, ShutdownRest, CallSound
<1>5. CASE ShutdownCall
  <2>1. /\ ~shutdown /\ UNCHANGED <<coro, work, current, done, hardTimer>> /\ sdFiber' = current
        /\ sdDepth' = IF current = None THEN 0 ELSE Len(work[current])
        /\ current # None => current \in Fiber /\ coro[current] = "running"
    BY <1>0, <1>5 DEF ShutdownCall, fiberVars, doneVars, TypeOK, Dispatching, AtLoop
  <2>2. ~done /\ hardTimer = "off" BY <2>1 DEF InstanceSound, StagesSound
  <2>3. CASE current = None BY <2>1, <2>2, <2>3 DEF CallSound
  <2>4. CASE current # None
    <3>1. work[current] \in Seq(Entry) /\ work[current] # <<>>
      BY <1>0, <2>1, <2>4 DEF FibersLoaded, TypeOK
    <3>2. Len(work[current]) \in 1..Len(work[current]) BY <3>1
    <3> QED BY <2>1, <2>2, <2>4, <3>1, <3>2 DEF CallSound
  <2> QED BY <2>3, <2>4
<1>6. CASE HardTimeout
  <2>1. ~handling' BY <1>6 DEF HardTimeout, callVars, CallSound
  <2> QED BY <2>1 DEF CallSound
<1>7. CASE QuietYield
  BY <1>7, CallYield DEF QuietYield, lifeVars
<1>8. ASSUME NEW e \in Entry, ScriptStart(e) \/ EventEntry(e) \/ SpawnDispatch(e)
      PROVE  CallSound'
  <2>1. UNCHANGED lifeVars /\ ~InShutdown
    BY <1>8 DEF ScriptStart, EventEntry, SpawnDispatch, Dispatching, InScript
  <2>2. \/ RunFresh(e) \/ RunInline(e) \/ RunRefused(e) \/ Spawn(e)
        \/ UNCHANGED <<coro, work>>
    BY <1>8 DEF ScriptStart, EventEntry, SpawnDispatch
  <2>3. CASE UNCHANGED <<coro, work>> BY <2>1, <2>3, CallKept DEF lifeVars, CallSound
  <2> QED BY <2>1, <2>2, <2>3, CallRun DEF lifeVars
<1>9. CASE HandlerCall
  <2>1. Head(todo) \in Entry /\ todo[1] = Head(todo) /\ 1 \in 1..Len(todo)
    BY <1>9 DEF HandlerCall, InstanceSound, LifeTypeOK
  <2>2. Head(todo) \in Boundary
    BY <2>1, LifecycleAssumption DEF InstanceSound, HandlersSound, IsHandler
  <2>3. /\ UNCHANGED <<handling, sdFiber, sdDepth, done, hardTimer>>
        /\ RunFresh(Head(todo)) \/ RunInline(Head(todo))
    BY <1>9 DEF HandlerCall, doneVars
  <2> QED BY <2>1, <2>2, <2>3, CallRun
<1>10. CASE StopStep \/ IdleDispatch \/ \E f \in Fiber : ResumeDispatch(f) \/ SettleAnytime(f)
  <2>1. UNCHANGED <<handling, sdFiber, sdDepth, done, hardTimer>>
    BY <1>10 DEF StopStep, IdleDispatch, ResumeDispatch, SettleAnytime, lifeVars, callVars, doneVars
  <2>2. \/ UNCHANGED fiberVars \/ StopBegin \/ StopCollect
        \/ \E f \in Fiber : Settle(f) \/ UnwindBegin(f) \/ (Dispatching /\ (Resume(f) \/ ResumeDetached(f)))
    BY <1>10 DEF StopStep, StopIdle, StopDeadline, IdleDispatch, ResumeDispatch, SettleAnytime
  <2> QED BY <1>1, <2>1, <2>2, CallServe
<1>11. CASE IdleStopEnd
  <2>1. /\ StopEnd /\ inst \in {"up", "doomed", "doomedInStop"} /\ inst' # "dropping"
        /\ handling' = handling
    BY <1>11, EmitDoneFacts DEF IdleStopEnd, callVars
  <2>2. \A f \in Fiber : coro[f] \in {"none", "idle", "unwound"} BY <1>0, <2>1, StopEndSound
  <2>3. sdFiber \in Fiber \union {None} /\ stop = "unwinding"
    BY <2>1 DEF StopEnd, InstanceSound, LifeTypeOK
  <2>4. ~handling BY <2>2, <2>3 DEF CallSound, InstanceSound, StagesSound
  <2> QED BY <2>1, <2>4 DEF CallSound
<1>12. ASSUME inst \notin {"up", "crashed"}, handling' = handling PROVE CallSound'
  BY <1>12 DEF CallSound, InstanceSound, StagesSound
<1>13. CASE \/ DtorBegin \/ DtorStop \/ DtorEnd
            \/ \E e \in Entry : DropPosted(e) \/ DtorCallback(e)
            \/ \E f \in Fiber : DropResume(f) \/ DropResumeEnd(f)
  BY <1>12, <1>13 DEF DtorBegin, DtorStop, DtorEnd, DropPosted, DtorCallback, DropResume,
     DropResumeEnd, Forget, callVars, lifeVars
<1> QED
  BY YieldSplits, <1>2, <1>3, <1>4, <1>5, <1>6, <1>7, <1>8, <1>9, <1>10, <1>11, <1>13 DEF LifeNext

\* Whatever interleaves with the end of an Instance: Shutdown() does its rest,
\* ShutdownDone is told at most once and after it, and no fiber has a stack and no
\* entry is half way when ~Instance closes the Lua state.
THEOREM LifecycleInvariant == LifeSpec => []LifecycleInv
<1>1. LifeInit => LifecycleInv
  <2>1. LifeInit => FibersLoaded /\ CallSound
    BY DEF LifeInit, FibersInit, FibersLoaded, CallSound
  <2> QED BY <2>1, LifeInitInv DEF LifecycleInv
<1>2. LifecycleInv /\ [LifeNext]_vars => LifecycleInv'
  BY LifeNextInv, LoadedNext, CallNext DEF LifecycleInv
<1> QED BY <1>1, <1>2, PTL DEF LifeSpec

\* ShutdownDone is emitted by emitDoneWhenIdle, after Stop(), or by the budget.
LEMMA QuietStep ==
  ASSUME InstanceSound, LifeNext, emits' > emits, hardTimer' # "fired"
  PROVE  \A e \in Entry : entry'[e] # "live"
<1>1. emits \in {0, 1} BY DEF InstanceSound, StagesSound
<1>2. emits' # emits BY <1>1
<1>3. IdleStopEnd
  BY <1>2 DEF LifeNext, ScriptYield, Unwound, Terminate, ScriptStart, EventEntry, SpawnDispatch,
     DropPosted, DtorCallback, ResumeDispatch, SettleAnytime, DropResume, DropResumeEnd, UnwindDangling,
     WorkerCreate, WorkerLeave, WorkerGone, ShutdownCall, HandlerCall, ShutdownFinish, ShutdownRest, HardTimeout,
     IdleDispatch, StopStep, DtorBegin, DtorStop, IdleInDtor, DtorEnd, lifeVars, doneVars, Forget
<1>4. StopEnd /\ inst \in {"up", "doomed", "doomedInStop"} BY <1>3 DEF IdleStopEnd
<1>5. inst' # "dropping" BY <1>3, <1>4, EmitDoneFacts DEF IdleStopEnd
<1>6. TypeOK /\ PoolSound BY DEF InstanceSound, LifeTypeOK
<1>7. \A e \in Entry : entry[e] # "live" BY <1>4, <1>5, <1>6, StopEndSound
<1> QED BY <1>4, <1>7 DEF StopEnd

\* After Shutdown() began, only new entries and the handlers are started.
LEMMA NoLateStep ==
  ASSUME InstanceSound, LifeNext, shutdown, NEW e \in Entry, entry[e] = "posted"
  PROVE  entry'[e] # "live"
<1>0. entry \in [Entry -> EntryState] BY DEF InstanceSound, LifeTypeOK, TypeOK
<1>1. ASSUME NEW d \in Entry, RunFresh(d) \/ RunInline(d), d # e PROVE entry'[e] # "live"
  BY <1>0, <1>1 DEF RunFresh, RunInline
<1>2. ASSUME NEW d \in Entry, RunInline(d) \/ RunRefused(d) \/ Spawn(d) PROVE entry'[e] # "live"
  BY <1>0, <1>2 DEF RunInline, RunRefused, Spawn
<1>3. ASSUME NEW d \in Entry, ScriptStart(d) \/ DropPosted(d) PROVE entry'[e] # "live"
  BY <1>0, <1>2, <1>3 DEF ScriptStart, DropPosted
<1>4. ASSUME NEW d \in Entry, EventEntry(d) \/ DtorCallback(d) PROVE entry'[e] # "live"
  BY <1>1, <1>4 DEF EventEntry, DtorCallback
<1>5. ASSUME NEW d \in Entry, SpawnDispatch(d) PROVE entry'[e] # "live"
  BY <1>0, <1>5 DEF SpawnDispatch
<1>6. ASSUME HandlerCall PROVE entry'[e] # "live"
  <2>1. todo \in Seq(Entry) /\ todo # <<>> /\ (RunFresh(Head(todo)) \/ RunInline(Head(todo)))
    BY <1>6 DEF HandlerCall, InstanceSound, LifeTypeOK
  <2>2. Head(todo) = todo[1] /\ 1 \in 1..Len(todo) /\ Head(todo) \in Entry BY <2>1
  <2>3. IsHandler(Head(todo)) BY <2>2 DEF InstanceSound, HandlersSound
  <2>4. Head(todo) # e BY <2>2, <2>3 DEF InstanceSound, HandlersSound
  <2> QED BY <1>1, <2>1, <2>2, <2>4
<1>7. ASSUME ScriptYield PROVE entry'[e] # "live"
  <2>1. ASSUME NEW s, NEW how \in {"ended", "aborted"}, entry' = EndAll(s, how)
        PROVE  entry'[e] # "live"
    BY <2>1 DEF EndAll
  <2>2. CASE EndEntry BY <2>1, <2>2 DEF EndEntry, Leave
  <2>3. CASE ThrowForcedShutdown BY <2>1, <2>3 DEF ThrowForcedShutdown, Leave
  <2>4. CASE UnwindEnd BY <2>1, <2>4 DEF UnwindEnd
  <2>5. CASE Await BY <2>5 DEF Await, AwaitOn
  <2> QED BY <1>7, <2>2, <2>3, <2>4, <2>5 DEF ScriptYield, Unwound
<1>8. ASSUME NEW f \in Fiber, DropResumeEnd(f) PROVE entry'[e] # "live"
  BY <1>8 DEF DropResumeEnd, EndAll
<1>9. CASE entry' = entry BY <1>9
<1>10. \/ entry' = entry \/ ScriptYield \/ HandlerCall
       \/ \E d \in Entry : ScriptStart(d) \/ EventEntry(d) \/ SpawnDispatch(d) \/ DropPosted(d)
                             \/ DtorCallback(d)
       \/ \E f \in Fiber : DropResumeEnd(f)
  BY DEF LifeNext, Terminate, ResumeDispatch, SettleAnytime, DropResume, UnwindDangling,
     WorkerCreate, WorkerLeave, WorkerGone, ShutdownCall, ShutdownFinish, HardTimeout,
     IdleDispatch, StopStep, IdleStopEnd, DtorBegin, DtorStop, IdleInDtor, DtorEnd, fiberVars,
     Resume, ResumeDetached, Settle, StopBegin, StopIdle, StopDeadline, StopCollect, UnwindBegin, StopEnd
<1> QED BY <1>3, <1>4, <1>5, <1>6, <1>7, <1>8, <1>9, <1>10

\* What Shutdown() found in the queue does not start, and what it found running has
\* ended when emitDoneWhenIdle announces ShutdownDone.
THEOREM LifecycleShutdownIsQuiet == LifeSpec => ShutdownIsQuiet
<1> DEFINE A == emits' > emits /\ hardTimer' # "fired" => \A e \in Entry : entry'[e] # "live"
           B == shutdown => \A e \in Entry : entry[e] = "posted" => entry'[e] # "live"
<1>1. LifecycleInv /\ [LifeNext]_vars => [A]_vars /\ [B]_vars
  BY QuietStep, NoLateStep DEF LifecycleInv
<1> QED
  BY <1>1, LifecycleInvariant, PTL DEF LifeSpec, ShutdownIsQuiet, GracefulDoneIsQuiet, NoLateSpawn
=============================================================================
