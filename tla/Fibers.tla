------------------------------- MODULE Fibers -------------------------------
(***************************************************************************)
(* The fiber pool of src/src/fibers.cpp.                                   *)
(*                                                                         *)
(* Every Lua entry point of radapter (a script chunk, a timer, a pipe      *)
(* listener, a spawned function...) is a closure handed to FiberPool::Run. *)
(* The pool executes it on a stackful coroutine, so it may suspend in      *)
(* Await and be continued later from a queued Qt event.  All of this       *)
(* happens on the event-loop thread; only a promise may be settled from    *)
(* another thread.                                                         *)
(*                                                                         *)
(* A suspended fiber is kept alive by ONE strong reference, which sits in  *)
(* the callback of the promise it awaits and later in the queued event     *)
(* that will resume it.  The pool itself remembers flying fibers only by   *)
(* raw pointer.  Most of what can go wrong is about these two facts.       *)
(***************************************************************************)
EXTENDS Naturals, FiniteSets, Sequences

CONSTANTS
  Fiber,      \* fiber objects (addresses); an address is reused after free
  Entry,      \* closures passed to Run, each at most once
  Boundary,   \* entries whose starter stops a ForcedShutdown from spreading
  PoolSize,   \* pooledFibers: how many finished fibers are kept for reuse
  None        \* no fiber

ASSUME FibersAssumption ==
  /\ None \notin Fiber
  /\ IsFiniteSet(Fiber)
  /\ Boundary \subseteq Entry
  /\ PoolSize \in Nat

VARIABLES
  coro,       \* what each fiber's coroutine is doing
  holder,     \* who holds the strong reference of each fiber
  detached,   \* fibers whose back pointer to the pool was cleared by Stop
  flying,     \* FiberPool::Impl::flying, a set of raw pointers
  current,    \* t_current
  work,       \* the entries nested on each fiber, outermost first
  entry,      \* the fate of each entry
  stop,       \* where Stop() is
  stragglers  \* the fibers Stop() moved out of flying and has still to unwind

fiberVars == <<coro, holder, detached, flying, current, work, entry, stop, stragglers>>

CoroState   == {"none", "idle", "running", "suspended", "unwinding", "unwound"}
HolderState == {"none", "pool", "frame", "promise", "event"}
EntryState  == {"new", "posted", "live", "ended", "aborted", "dropped"}
StopState   == {"no", "waiting", "unwinding"}

parked == {f \in Fiber : holder[f] = "pool"}

\* The event loop (the main one or the one nested in Stop) may dispatch.
AtLoop == current = None /\ stop # "unwinding"

FibersInit ==
  /\ coro = [f \in Fiber |-> "none"]
  /\ holder = [f \in Fiber |-> "none"]
  /\ detached = {}
  /\ flying = {}
  /\ current = None
  /\ work = [f \in Fiber |-> <<>>]
  /\ entry = [e \in Entry |-> "new"]
  /\ stop = "no"
  /\ stragglers = {}

-----------------------------------------------------------------------------
(* FiberPool::Run                                                          *)

\* The fiber Run uses: a parked one, or a new one when none is parked.
TakeFiber(f) == IF parked = {} THEN holder[f] = "none" ELSE f \in parked

\* Mutant of RunFresh: only a new fiber is entered into flying.
ReusedNotFlying(e) ==
  /\ current = None
  /\ entry[e] \in {"new", "posted"}
  /\ \E f \in Fiber :
       /\ TakeFiber(f)
       /\ coro' = [coro EXCEPT ![f] = "running"]
       /\ holder' = [holder EXCEPT ![f] = "frame"]
       /\ detached' = detached \ {f}
       /\ flying' = IF f \in parked THEN flying ELSE flying \union {f}
       /\ current' = f
       /\ work' = [work EXCEPT ![f] = <<e>>]
  /\ entry' = [entry EXCEPT ![e] = "live"]
  /\ UNCHANGED <<stop, stragglers>>

\* Run outside of a fiber, from an event handler or from the queued event of a
\* spawn(): the entry is the first one of its fiber, which is stepped at once.
RunFresh(e) ==
  /\ current = None
  /\ entry[e] \in {"new", "posted"}
  /\ \E f \in Fiber :
       /\ TakeFiber(f)
       /\ coro' = [coro EXCEPT ![f] = "running"]
       /\ holder' = [holder EXCEPT ![f] = "frame"]
       /\ detached' = detached \ {f}
       /\ flying' = flying \union {f}
       /\ current' = f
       /\ work' = [work EXCEPT ![f] = <<e>>]
  /\ entry' = [entry EXCEPT ![e] = "live"]
  /\ UNCHANGED <<stop, stragglers>>

\* Mutant of RunInline: Unwinding() is not asked.
RunInlineAlways(e) ==
  /\ current # None
  /\ entry[e] = "new"
  /\ work' = [work EXCEPT ![current] = Append(@, e)]
  /\ entry' = [entry EXCEPT ![e] = "live"]
  /\ UNCHANGED <<coro, holder, detached, flying, current, stop, stragglers>>

\* Run on a fiber: the closure is called in place.
RunInline(e) ==
  /\ current # None
  /\ coro[current] = "running"
  /\ entry[e] = "new"
  /\ work' = [work EXCEPT ![current] = Append(@, e)]
  /\ entry' = [entry EXCEPT ![e] = "live"]
  /\ UNCHANGED <<coro, holder, detached, flying, current, stop, stragglers>>

\* Run on a fiber that is being unwound: the closure is destroyed unrun.
RunRefused(e) ==
  /\ current # None
  /\ coro[current] = "unwinding"
  /\ entry[e] = "new"
  /\ entry' = [entry EXCEPT ![e] = "dropped"]
  /\ UNCHANGED <<coro, holder, detached, flying, current, work, stop, stragglers>>

\* SpawnNative: the function is posted to the event loop, not started here.
Spawn(e) ==
  /\ current # None
  /\ coro[current] = "running"
  /\ entry[e] = "new"
  /\ entry' = [entry EXCEPT ![e] = "posted"]
  /\ UNCHANGED <<coro, holder, detached, flying, current, work, stop, stragglers>>

\* The entries of s end with outcome how.
EndAll(s, how) ==
  [e \in Entry |-> IF \E i \in 1..Len(s) : s[i] = e THEN how ELSE entry[e]]

\* The coroutine body reached its loop again: afterStep() and returnFiber().
\* A fiber the pool does not keep is freed with the frame that stepped it.
ReturnFiber(f) ==
  LET keep == Cardinality(parked) < PoolSize IN
  /\ coro' = [coro EXCEPT ![f] = IF keep THEN "idle" ELSE "none"]
  /\ holder' = [holder EXCEPT ![f] = IF keep THEN "pool" ELSE "none"]
  /\ flying' = flying \ {f}
  /\ current' = None

\* The entries [Len(rest)+1 .. ] of the current fiber are over.
Leave(rest, how) ==
  LET f == current
      gone == SubSeq(work[f], Len(rest) + 1, Len(work[f]))
  IN
  /\ work' = [work EXCEPT ![f] = rest]
  /\ entry' = EndAll(gone, how)
  /\ IF rest = <<>> THEN ReturnFiber(f)
                    ELSE UNCHANGED <<coro, holder, flying, current>>
  /\ UNCHANGED <<detached, stop, stragglers>>

\* The innermost entry returns (or its own handler reports its error).
EndEntry ==
  /\ current # None
  /\ coro[current] = "running"
  /\ Leave(SubSeq(work[current], 1, Len(work[current]) - 1), "ended")

\* A ForcedShutdown thrown by the innermost entry of s stops at entry d: the
\* innermost one whose starter catches it, or the first, in the coroutine body.
CatchesAt(s, d) ==
  /\ s[d] \in Boundary \/ d = 1
  /\ \A j \in (d + 1)..Len(s) : s[j] \notin Boundary

\* os.exit() or an interrupted sleep(): the exit marker unwinds the entries.
ThrowForcedShutdown ==
  /\ current # None
  /\ coro[current] = "running"
  /\ \E d \in 1..Len(work[current]) :
       /\ CatchesAt(work[current], d)
       /\ Leave(SubSeq(work[current], 1, d - 1), "aborted")

-----------------------------------------------------------------------------
(* Await and resume                                                        *)

\* Fiber::Impl::await: the strong reference moves into the promise callback;
\* a promise that is already settled posts the resume event at once.
AwaitOn(where) ==
  /\ current # None
  /\ coro[current] = "running"
  /\ coro' = [coro EXCEPT ![current] = "suspended"]
  /\ holder' = [holder EXCEPT ![current] = where]
  /\ current' = None
  /\ UNCHANGED <<detached, flying, work, entry, stop, stragglers>>

Await == AwaitOn("promise") \/ AwaitOn("event")

\* The awaited promise settles, at any time and from any thread: its callback
\* posts the resume event, which now holds the fiber.
Settle(f) ==
  /\ holder[f] = "promise"
  /\ holder' = [holder EXCEPT ![f] = "event"]
  /\ UNCHANGED <<coro, detached, flying, current, work, entry, stop, stragglers>>

\* The queued event: it steps the fiber, unless Stop() detached it meanwhile.
Resume(f) ==
  /\ AtLoop
  /\ holder[f] = "event"
  /\ f \notin detached
  /\ coro' = [coro EXCEPT ![f] = "running"]
  /\ holder' = [holder EXCEPT ![f] = "frame"]
  /\ current' = f
  /\ UNCHANGED <<detached, flying, work, entry, stop, stragglers>>

\* Mutant of ResumeDetached: the event of a detached fiber posts itself again.
RepostDetached(f) ==
  /\ AtLoop
  /\ holder[f] = "event"
  /\ f \in detached
  /\ UNCHANGED fiberVars

\* ... in which case the event only drops the last reference to it.
ResumeDetached(f) ==
  /\ AtLoop
  /\ holder[f] = "event"
  /\ f \in detached
  /\ coro' = [coro EXCEPT ![f] = "none"]
  /\ holder' = [holder EXCEPT ![f] = "none"]
  /\ detached' = detached \ {f}
  /\ UNCHANGED <<flying, current, work, entry, stop, stragglers>>

-----------------------------------------------------------------------------
(* FiberPool::Stop                                                         *)

\* With no fiber flying there is nothing to wait for: no nested loop runs.
StopBegin ==
  /\ current = None
  /\ stop = "no"
  /\ stop' = IF flying = {} THEN "unwinding" ELSE "waiting"
  /\ UNCHANGED <<coro, holder, detached, flying, current, work, entry, stragglers>>

\* Mutant of StopCollect: Stop() waits for idle() without a deadline.
CollectIdleOnly ==
  /\ current = None
  /\ stop = "waiting"
  /\ flying = {}
  /\ stop' = "unwinding"
  /\ stragglers' = flying
  /\ UNCHANGED <<coro, holder, detached, flying, current, work, entry>>

\* The nested loop is left, idle or past the deadline: flying is moved out.
StopCollect ==
  /\ current = None
  /\ stop = "waiting"
  /\ stop' = "unwinding"
  /\ stragglers' = flying
  /\ flying' = {}
  /\ UNCHANGED <<coro, holder, detached, current, work, entry>>

\* idle() was emitted: the last flying fiber returned in the nested loop.
StopIdle == flying = {} /\ StopCollect

\* The deadline expired with fibers still flying.
StopDeadline == flying # {} /\ StopCollect

\* step.reset() under a StepGuard: the coroutine's stack is force-unwound.
UnwindBegin(f) ==
  /\ stop = "unwinding"
  /\ current = None
  /\ f \in stragglers
  /\ stragglers' = stragglers \ {f}
  /\ detached' = detached \union {f}
  /\ current' = f
  /\ coro' = [coro EXCEPT ![f] = "unwinding"]
  /\ UNCHANGED <<holder, flying, work, entry, stop>>

\* Mutant of UnwindEnd: the promises of the unwound entries are not broken.
UnwindSilently ==
  /\ current # None
  /\ coro[current] = "unwinding"
  /\ coro' = [coro EXCEPT ![current] = "unwound"]
  /\ work' = [work EXCEPT ![current] = <<>>]
  /\ current' = None
  /\ UNCHANGED <<holder, detached, flying, entry, stop, stragglers>>

\* The stack is gone, with all entries on it.
UnwindEnd ==
  /\ current # None
  /\ coro[current] = "unwinding"
  /\ coro' = [coro EXCEPT ![current] = "unwound"]
  /\ entry' = EndAll(work[current], "aborted")
  /\ work' = [work EXCEPT ![current] = <<>>]
  /\ current' = None
  /\ UNCHANGED <<holder, detached, flying, stop, stragglers>>

\* Stop() returns after the last straggler.
StopEnd ==
  /\ stop = "unwinding"
  /\ current = None
  /\ stragglers = {}
  /\ stop' = "no"
  /\ UNCHANGED <<coro, holder, detached, flying, current, work, entry, stragglers>>

-----------------------------------------------------------------------------
FibersNext ==
  \/ \E e \in Entry : AtLoop /\ RunFresh(e)
  \/ \E e \in Entry : RunInline(e) \/ RunRefused(e) \/ Spawn(e)
  \/ EndEntry
  \/ ThrowForcedShutdown
  \/ Await
  \/ \E f \in Fiber : Settle(f) \/ Resume(f) \/ ResumeDetached(f)
  \/ StopBegin \/ StopIdle \/ StopDeadline
  \/ \E f \in Fiber : UnwindBegin(f)
  \/ UnwindEnd
  \/ StopEnd

\* Script code that runs eventually returns or suspends, the event loop serves
\* queued events and expired timers whatever else keeps it busy, and Stop()
\* itself is straight-line code.  Settling a promise is never promised.
FibersFairness ==
  /\ WF_fiberVars(EndEntry \/ ThrowForcedShutdown \/ Await)
  /\ \A f \in Fiber : SF_fiberVars(Resume(f) \/ ResumeDetached(f))
  /\ SF_fiberVars(StopIdle \/ StopDeadline)
  /\ WF_fiberVars((\E f \in Fiber : UnwindBegin(f)) \/ UnwindEnd \/ StopEnd)

FibersSpec == FibersInit /\ [][FibersNext]_fiberVars

FairFibersSpec == FibersSpec /\ FibersFairness

-----------------------------------------------------------------------------
(* Properties                                                              *)

\* The state has its types, and the pool never keeps more finished fibers
\* than it was configured for (returnFiber checks before it parks).
TypeOK ==
  /\ coro \in [Fiber -> CoroState]
  /\ holder \in [Fiber -> HolderState]
  /\ detached \subseteq Fiber
  /\ flying \subseteq Fiber
  /\ current \in Fiber \union {None}
  /\ work \in [Fiber -> Seq(Entry)]
  /\ entry \in [Entry -> EntryState]
  /\ stop \in StopState
  /\ stragglers \subseteq Fiber
  /\ Cardinality(parked) <= PoolSize

\* flying and Stop's stragglers hold raw pointers.  Every one of them points
\* to an existing fiber: a fiber with unfinished work is always referenced by
\* the frame that steps it, by the promise it awaits or by its resume event.
NoDanglingFiber ==
  \A f \in flying \union stragglers : holder[f] \in {"frame", "promise", "event"}

\* The pool knows every fiber that carries unfinished work, and no other: this
\* is what lets Stop() reach all of them and idle() mean what it says.
PoolKnowsBusy ==
  /\ flying \union stragglers = {f \in Fiber : coro[f] \in {"running", "suspended"}}
  /\ flying \intersect stragglers = {}

\* A resume event that finds its fiber attached finds it suspended, so step()
\* is never called on a coroutine that is running, idle or already unwound.
ResumeFindsSuspended ==
  \A f \in Fiber : holder[f] = "event" /\ f \notin detached => coro[f] = "suspended"

\* t_current names the one fiber whose code is executing, also while Stop()
\* unwinds it: Run, Await and Unwinding() all ask t_current.
CurrentIsExecuting ==
  \A f \in Fiber : coro[f] \in {"running", "unwinding"} <=> current = f

\* How a fiber's coroutine, the holder of its reference, its back pointer and
\* Stop()'s progress go together: with TypeOK, PoolKnowsBusy and
\* CurrentIsExecuting, an inductive strengthening of the properties above.
FiberConsistent ==
  /\ \A f \in Fiber :
       /\ coro[f] = "none" <=> holder[f] = "none"
       /\ coro[f] = "idle" <=> holder[f] = "pool"
       /\ coro[f] = "running" <=> holder[f] = "frame"
       /\ f \in detached <=> coro[f] \in {"unwinding", "unwound"}
       /\ coro[f] = "unwinding" => stop = "unwinding"
       /\ coro[f] = "running" => stop # "unwinding"
  /\ stop = "unwinding" => flying = {}
  /\ stop # "unwinding" => stragglers = {}

FibersInv == TypeOK /\ PoolKnowsBusy /\ CurrentIsExecuting /\ FiberConsistent

\* Every live entry is on a fiber, and a fiber without unfinished work has none.
LiveEntriesFound ==
  /\ \A e \in Entry :
       entry[e] = "live" => \E f \in Fiber : \E i \in 1..Len(work[f]) : work[f][i] = e
  /\ \A f \in Fiber : coro[f] \notin {"running", "suspended", "unwinding"} => work[f] = <<>>

\* No entry is at two places, none that is over is still on a fiber, and a fiber
\* with unfinished work has an entry.
EntriesPlacedOnce ==
  /\ \A f, g \in Fiber : \A i \in 1..Len(work[f]), j \in 1..Len(work[g]) :
       work[f][i] = work[g][j] => f = g /\ i = j
  /\ \A f \in Fiber : \A i \in 1..Len(work[f]) : entry[work[f][i]] = "live"
  /\ \A f \in Fiber : coro[f] \in {"running", "suspended", "unwinding"} => work[f] # <<>>

\* The entries on the fibers are the live ones, each at one place, however
\* nested entries end, are aborted several at once, or are unwound.
LiveEntriesPlaced == LiveEntriesFound /\ EntriesPlacedOnce

\* When Stop() returns, no entry is left half way: it ran to its end, or it
\* was unwound.
StopLeavesNothing ==
  [][stop = "unwinding" /\ stop' = "no" => \A e \in Entry : entry'[e] # "live"]_fiberVars

\* No entry starts while a fiber is being unwound: the rejections and
\* destructors that run during the teardown can start no script code.
NoWorkWhileUnwinding ==
  [][(\E f \in Fiber : coro[f] = "unwinding")
       => \A e \in Entry : entry'[e] = "live" => entry[e] = "live"]_fiberVars

\* Both together: Stop() leaves no work behind and lets none begin while it
\* unwinds.
StopIsClean == StopLeavesNothing /\ NoWorkWhileUnwinding

\* Stop() always returns, whatever the fibers wait for.
StopReturns == stop # "no" ~> stop = "no"

\* A fiber whose promise settled is not forgotten: its resume event is served.
ResumeServed == \A f \in Fiber : holder[f] = "event" ~> holder[f] # "event"
=============================================================================
