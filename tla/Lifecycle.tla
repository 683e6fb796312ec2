----------------------------- MODULE Lifecycle -----------------------------
(***************************************************************************)
(* The end of an Instance (src/src/instance.cpp, src/src/worker.cpp): how  *)
(* Shutdown() runs the on_shutdown handlers, asks the workers to go, waits *)
(* for the fiber pool and announces ShutdownDone, against its own time     *)
(* budget; and how the host (src/app/main.cpp) then destroys the Instance  *)
(* with whatever is still suspended or queued.  Composed with Fibers: the  *)
(* handlers and all script code are entries of that pool.                  *)
(***************************************************************************)
EXTENDS Fibers

CONSTANTS
  Worker,     \* worker objects, each created at most once
  Callback,   \* entries started by a settled promise (ResolveLuaCallback)
  Handlers,   \* the on_shutdown handlers, in registration order
  Reloading,  \* values of g_reloading at ShutdownDone: a hot reload, or an exit
  FromScript  \* scripts may call shutdown() (Shutdown runs on their fiber)

ASSUME LifecycleAssumption ==
  /\ Handlers \in Seq(Boundary)
  /\ Callback \subseteq Entry \ Boundary
  /\ Fiber \intersect Entry = {}
  /\ Reloading \subseteq BOOLEAN /\ Reloading # {}
  /\ FromScript \in BOOLEAN

VARIABLES
  workers,    \* Instance::Impl::workers
  unborn,     \* workers not created yet
  leaving,    \* workers whose deleteLater is pending
  shutdown,   \* Impl::shutdown
  handling,   \* a Shutdown() call is between its guard and its end
  sdFiber,    \* the fiber that call runs on, None when the event loop made it
  sdDepth,    \* how many entries were on that fiber when it was made
  todo,       \* handlers not yet called
  hardTimer,  \* the singleShot(timeout) of Shutdown()
  idleDue,    \* a deferred emitDoneWhenIdle is queued
  idleArmed,  \* Impl::shutdownIdleArmed
  idleStop,   \* emitDoneWhenIdle's call of Stop() is on the C++ stack
  done,       \* Impl::shutdownDone
  emits,      \* how often ShutdownDone was emitted (history)
  quit,       \* qApp->exit() was called and the main loop has not returned
  removed,    \* spawns and resumes taken off the queue by removePostedEvents
  inst        \* the Instance object as the host sees it

lifeVars == <<workers, unborn, leaving, shutdown, handling, sdFiber, sdDepth, todo,
              hardTimer, idleDue, idleArmed, idleStop, done, emits, quit, removed, inst>>
callVars == <<handling, sdFiber, sdDepth, todo>>
doneVars == <<done, emits, quit, removed, inst>>
vars == <<fiberVars, lifeVars>>

\* "doomed": AppState::deleteLater is pending, posted from the main loop, or
\* ("doomedInStop") from the loop nested in Stop().  "dropping" and "stopping"
\* are the two parts of ~Instance in which other code runs.
InstState == {"up", "doomed", "doomedInStop", "dropping", "stopping", "dead", "crashed"}

LifeInit ==
  /\ FibersInit
  /\ workers = {}
  /\ unborn = Worker
  /\ leaving = {}
  /\ shutdown = FALSE
  /\ handling = FALSE
  /\ sdFiber = None
  /\ sdDepth = 0
  /\ todo = Handlers
  /\ hardTimer = "off"
  /\ idleDue = FALSE
  /\ idleArmed = FALSE
  /\ idleStop = FALSE
  /\ done = FALSE
  /\ emits = 0
  /\ quit = FALSE
  /\ removed = {}
  /\ inst = "up"

\* The C++ stack is in Shutdown() itself: nothing else executes.
InShutdown ==
  /\ handling
  /\ current = sdFiber
  /\ sdFiber # None => Len(work[sdFiber]) = sdDepth

\* Script code executes on a fiber.
InScript == current # None /\ ~InShutdown /\ inst # "crashed"

\* Some event loop dispatches: the main one, or one nested in Stop().  After
\* qApp->exit() the loop that dispatched it may finish its round of events, but
\* a Stop() called from then on gets no loop any more; inside ~Instance only
\* the loop of ~FiberPool's Stop(1) runs, and only if a fiber is flying.
Dispatching ==
  /\ AtLoop
  /\ ~InShutdown
  /\ quit /\ stop # "no" => inst \in {"doomedInStop", "stopping"}
  /\ inst = "stopping" => stop = "waiting"
  /\ inst \notin {"dropping", "dead", "crashed"}

-----------------------------------------------------------------------------
(* Script code and fibers                                                  *)

IsHandler(e) == \E i \in 1..Len(Handlers) : Handlers[i] = e

ScriptStart(e) ==
  /\ InScript
  /\ ~IsHandler(e)
  /\ RunInline(e) \/ RunRefused(e) \/ Spawn(e)
  /\ UNCHANGED lifeVars

\* A ForcedShutdown thrown on this stack of entries leaves through the noexcept
\* callback of ResolveLuaCallback: an entry nested in the code that settled the
\* promise, with no catching starter further in.
Terminates(s) ==
  \E i \in 2..Len(s) : s[i] \in Callback /\ \A j \in i..Len(s) : s[j] \notin Boundary

\* Once an inner starter caught the throw of a forced unwind, the code of the
\* callback continues, and throws again when it awaits.
MayTerminate(f) ==
  \/ Terminates(work[f])
  \/ coro[f] = "unwinding" /\ \E i \in 2..Len(work[f]) : work[f][i] \in Callback

\* What Shutdown() does after the handlers: every worker is told to go, the
\* budget is armed.
ShutdownRest ==
  /\ handling' = FALSE
  /\ sdFiber' = None
  /\ sdDepth' = 0
  /\ leaving' = workers
  /\ hardTimer' = "armed"
  /\ idleDue' = (idleDue \/ workers = {})
  /\ UNCHANGED <<workers, unborn, shutdown, idleArmed, idleStop, doneVars>>

\* The fiber is unwound.  A Shutdown() on it, called by one of the entries and
\* suspended in a handler, catches the exception, Run refuses the handlers left,
\* and the call still does its rest.
Unwound ==
  /\ ~Terminates(work[current])
  /\ UnwindEnd
  /\ IF handling /\ sdFiber = current
       THEN todo' = <<>> /\ ShutdownRest
       ELSE UNCHANGED lifeVars

ScriptYield ==
  /\ InScript
  /\ \/ EndEntry /\ UNCHANGED lifeVars
     \/ Await /\ UNCHANGED lifeVars
     \/ ~Terminates(work[current]) /\ ThrowForcedShutdown /\ UNCHANGED lifeVars
     \/ Unwound

\* os.exit(), an interrupted sleep() or a forced unwind ends in std::terminate,
\* the unwind of a fiber that ~Instance frees too.
Terminate ==
  /\ \/ InScript /\ MayTerminate(current)
     \/ inst = "dropping" /\ current = None /\ \E f \in Fiber : coro[f] = "unwinding" /\ Terminates(work[f])
  /\ inst' = "crashed"
  /\ UNCHANGED fiberVars
  /\ UNCHANGED <<workers, unborn, leaving, shutdown, callVars, hardTimer, idleDue, idleArmed,
                 idleStop, done, emits, quit, removed>>

\* An event handler (a socket, a timer, a worker's message) enters a script.
EventEntry(e) ==
  /\ Dispatching
  /\ entry[e] = "new"
  /\ ~IsHandler(e)
  /\ RunFresh(e)
  /\ UNCHANGED lifeVars

\* The queued half of SpawnNative: after Shutdown() the function is not run,
\* its promise is broken.
SpawnDispatch(e) ==
  /\ Dispatching
  /\ entry[e] = "posted"
  /\ IF shutdown
       THEN /\ entry' = [entry EXCEPT ![e] = "dropped"]
            /\ UNCHANGED <<coro, holder, detached, flying, current, work, stop, stragglers>>
       ELSE RunFresh(e)
  /\ UNCHANGED lifeVars

ResumeDispatch(f) ==
  /\ Dispatching
  /\ Resume(f) \/ ResumeDetached(f)
  /\ UNCHANGED lifeVars

SettleAnytime(f) ==
  /\ inst \notin {"dead", "crashed"}
  /\ Settle(f)
  /\ UNCHANGED lifeVars

-----------------------------------------------------------------------------
(* Workers                                                                 *)

\* create_worker(), also while or after Shutdown() runs.
WorkerCreate(w) ==
  /\ InScript
  /\ coro[current] = "running"
  /\ w \in unborn
  /\ unborn' = unborn \ {w}
  /\ workers' = workers \union {w}
  /\ UNCHANGED fiberVars
  /\ UNCHANGED <<leaving, shutdown, callVars, hardTimer, idleDue, idleArmed, idleStop, doneVars>>

\* worker:destroy() or worker:shutdown() from a script.
WorkerLeave(w) ==
  /\ InScript
  /\ coro[current] = "running"
  /\ w \in workers \ leaving
  /\ leaving' = leaving \union {w}
  /\ UNCHANGED fiberVars
  /\ UNCHANGED <<workers, unborn, shutdown, callVars, hardTimer, idleDue, idleArmed, idleStop, doneVars>>

\* The deferred delete of a worker and its destroyed() handler.
WorkerGone(w) ==
  /\ Dispatching
  /\ w \in leaving
  /\ workers' = workers \ {w}
  /\ leaving' = leaving \ {w}
  /\ idleDue' = (idleDue \/ (workers' = {} /\ shutdown))
  /\ UNCHANGED fiberVars
  /\ UNCHANGED <<unborn, shutdown, callVars, hardTimer, idleArmed, idleStop, doneVars>>

-----------------------------------------------------------------------------
(* Instance::Shutdown                                                      *)

\* Called by the event loop (a signal, a queued os.exit, a reload) or by a
\* script on its fiber; a second call returns at once.
ShutdownCall ==
  /\ \/ Dispatching
     \/ FromScript /\ InScript /\ coro[current] = "running"
  /\ ~shutdown
  /\ shutdown' = TRUE
  /\ handling' = TRUE
  /\ sdFiber' = current
  /\ sdDepth' = IF current = None THEN 0 ELSE Len(work[current])
  /\ UNCHANGED fiberVars
  /\ UNCHANGED <<workers, unborn, leaving, todo, hardTimer, idleDue, idleArmed, idleStop, doneVars>>

\* CallNoWait of the next handler: on a fiber of its own when the event loop
\* called, in place when a script did.
HandlerCall ==
  /\ InShutdown
  /\ todo # <<>>
  /\ RunFresh(Head(todo)) \/ RunInline(Head(todo))
  /\ todo' = Tail(todo)
  /\ UNCHANGED <<workers, unborn, leaving, shutdown, handling, sdFiber, sdDepth,
                 hardTimer, idleDue, idleArmed, idleStop, doneVars>>

\* Mutant of ShutdownFinish: without workers there seems to be nothing to do.
FinishForWorkersOnly ==
  /\ InShutdown
  /\ todo = <<>>
  /\ handling' = FALSE
  /\ sdFiber' = None
  /\ sdDepth' = 0
  /\ leaving' = workers
  /\ hardTimer' = IF workers = {} THEN hardTimer ELSE "armed"
  /\ UNCHANGED fiberVars
  /\ UNCHANGED <<workers, unborn, shutdown, todo, idleDue, idleArmed, idleStop, doneVars>>

ShutdownFinish ==
  /\ InShutdown
  /\ todo = <<>>
  /\ UNCHANGED <<fiberVars, todo>>
  /\ ShutdownRest

-----------------------------------------------------------------------------
(* ShutdownDone                                                            *)

\* emit ShutdownDone, unless it was: AppState::deleteLater, and qApp->exit()
\* when the host is not reloading.
EmitDone(inStop) ==
  /\ done' = TRUE
  /\ IF done
       THEN UNCHANGED <<emits, quit, inst>>
       ELSE /\ emits' = emits + 1
            /\ quit' \in {~r : r \in Reloading}
            /\ inst' = IF inStop THEN "doomedInStop" ELSE "doomed"
  /\ UNCHANGED removed

\* The time budget ran out.
HardTimeout ==
  /\ Dispatching
  /\ hardTimer = "armed"
  /\ hardTimer' = "fired"
  /\ EmitDone(stop = "waiting")
  /\ UNCHANGED fiberVars
  /\ UNCHANGED <<workers, unborn, leaving, shutdown, callVars, idleDue, idleArmed, idleStop>>

\* Mutant of IdleDispatch: ShutdownDone is emitted without stopping the pool.
IdleWithoutStop ==
  /\ Dispatching
  /\ inst # "stopping"
  /\ idleDue
  /\ idleDue' = FALSE
  /\ idleArmed' = TRUE
  /\ EmitDone(stop = "waiting")
  /\ UNCHANGED fiberVars
  /\ UNCHANGED <<workers, unborn, leaving, shutdown, callVars, hardTimer, idleStop>>

\* emitDoneWhenIdle up to its call of FiberPool::Stop.
IdleDispatch ==
  /\ Dispatching
  /\ inst # "stopping"
  /\ idleDue
  /\ idleDue' = FALSE
  /\ idleArmed' = TRUE
  /\ IF idleArmed
       THEN UNCHANGED fiberVars /\ UNCHANGED idleStop
       ELSE StopBegin /\ idleStop' = TRUE
  /\ UNCHANGED <<workers, unborn, leaving, shutdown, callVars, hardTimer, doneVars>>

\* Stop()'s own steps, in either of its two calls.
StopStep ==
  /\ inst \notin {"dropping", "dead", "crashed"}
  /\ ~InShutdown
  /\ \/ StopIdle \/ StopDeadline
     \/ \E f \in Fiber : holder[f] # "none" /\ UnwindBegin(f)
  /\ UNCHANGED lifeVars

\* emitDoneWhenIdle after Stop().
IdleStopEnd ==
  /\ inst \in {"up", "doomed", "doomedInStop"}
  /\ idleStop
  /\ StopEnd
  /\ idleStop' = FALSE
  /\ EmitDone(FALSE)
  /\ UNCHANGED <<workers, unborn, leaving, shutdown, callVars, hardTimer, idleDue, idleArmed>>

-----------------------------------------------------------------------------
(* ~Instance                                                               *)

\* The deferred delete of AppState is dispatched by the loop it was posted
\* from, or by main() after exec() returned.  Should Stop() be on the stack,
\* its pool is destroyed under it.
DtorBegin ==
  /\ current = None
  /\ ~InShutdown
  /\ \/ inst = "doomed" /\ ~idleStop
     \/ inst = "doomedInStop" /\ ~idleStop
     \/ inst = "doomedInStop" /\ ~quit /\ stop = "waiting"
  /\ inst' = "dropping"
  /\ quit' = FALSE
  /\ idleDue' = FALSE
  /\ removed' = {e \in Entry : entry[e] = "posted"} \union {f \in Fiber : holder[f] = "event"}
  /\ stop' = "no"
  /\ UNCHANGED <<coro, holder, detached, flying, current, work, entry, stragglers>>
  /\ UNCHANGED <<workers, unborn, leaving, shutdown, callVars, hardTimer, idleArmed, idleStop,
                 done, emits>>

Forget(x) ==
  /\ removed' = removed \ {x}
  /\ UNCHANGED <<workers, unborn, leaving, shutdown, callVars, hardTimer, idleDue, idleArmed,
                 idleStop, done, emits, quit, inst>>

\* removePostedEvents(this): a queued spawn is dropped...
DropPosted(e) ==
  /\ inst = "dropping"
  /\ current = None
  /\ e \in removed
  /\ entry' = [entry EXCEPT ![e] = "dropped"]
  /\ UNCHANGED <<coro, holder, detached, flying, current, work, stop, stragglers>>
  /\ Forget(e)

\* ... and so is a queued resume.  It held the last reference: an unwound
\* fiber is freed, a suspended one is unwound by ~Fiber with no StepGuard.
DropResume(f) ==
  /\ inst = "dropping"
  /\ current = None
  /\ f \in removed
  /\ detached' = detached \ {f}
  /\ coro' = [coro EXCEPT ![f] = IF f \in detached THEN "none" ELSE "unwinding"]
  /\ holder' = [holder EXCEPT ![f] = IF f \in detached THEN "none" ELSE "frame"]
  /\ UNCHANGED <<flying, current, work, entry, stop, stragglers>>
  /\ Forget(f)

\* The stack of that fiber is gone, and the fiber is freed.
DropResumeEnd(f) ==
  /\ inst = "dropping"
  /\ current = None
  /\ coro[f] = "unwinding"
  /\ ~Terminates(work[f])
  /\ coro' = [coro EXCEPT ![f] = "none"]
  /\ holder' = [holder EXCEPT ![f] = "none"]
  /\ entry' = EndAll(work[f], "aborted")
  /\ work' = [work EXCEPT ![f] = <<>>]
  /\ UNCHANGED <<detached, flying, current, stop, stragglers>>
  /\ UNCHANGED lifeVars

\* Broken promises and worker destructors call back into scripts.
DtorCallback(e) ==
  /\ inst = "dropping"
  /\ \/ workers # {}
     \/ \E x \in Entry : entry[x] = "dropped"
     \/ \E f \in Fiber : coro[f] = "unwinding"
  /\ entry[e] = "new"
  /\ ~IsHandler(e)
  /\ RunFresh(e)
  /\ UNCHANGED lifeVars

\* qDeleteAll(workers), then fibers.reset(): ~FiberPool calls Stop(1).
DtorStop ==
  /\ inst = "dropping"
  /\ current = None
  /\ removed = {}
  /\ \A f \in Fiber : coro[f] # "unwinding"
  /\ inst' = "stopping"
  /\ StopBegin
  /\ workers' = {}
  /\ leaving' = {}
  /\ idleDue' = (workers # {} /\ shutdown)
  /\ UNCHANGED <<unborn, shutdown, callVars, hardTimer, idleArmed, idleStop,
                 done, emits, quit, removed>>

\* The last worker's deferred emitDoneWhenIdle is dispatched by the loop of
\* Stop(1), after fibers.reset() cleared the pointer it is going to use.
IdleInDtor ==
  /\ Dispatching
  /\ inst = "stopping"
  /\ stop = "waiting"
  /\ flying # {}
  /\ idleDue
  /\ idleDue' = FALSE
  /\ idleArmed' = TRUE
  /\ inst' = IF idleArmed THEN inst ELSE "crashed"
  /\ UNCHANGED fiberVars
  /\ UNCHANGED <<workers, unborn, leaving, shutdown, callVars, hardTimer, idleStop, done, emits, quit, removed>>

\* Stop() dereferences a fiber that was freed.
UnwindDangling(f) ==
  /\ inst = "stopping"
  /\ stop = "unwinding"
  /\ current = None
  /\ f \in stragglers
  /\ holder[f] = "none"
  /\ inst' = "crashed"
  /\ UNCHANGED fiberVars
  /\ UNCHANGED <<workers, unborn, leaving, shutdown, callVars, hardTimer, idleDue, idleArmed,
                 idleStop, done, emits, quit, removed>>

\* Mutant of DtorEnd: lua_close() does not wait for the pool.
CloseBeforeStop ==
  /\ inst = "stopping"
  /\ current = None
  /\ stop' = "no"
  /\ inst' = IF idleStop THEN "crashed" ELSE "dead"
  /\ UNCHANGED <<coro, holder, detached, flying, current, work, entry, stragglers>>
  /\ UNCHANGED <<workers, unborn, leaving, shutdown, callVars, hardTimer, idleDue, idleArmed,
                 idleStop, done, emits, quit, removed>>

\* ~FiberPool and ~Instance are over; a Stop() still on the stack continues
\* on a freed pool.
DtorEnd ==
  /\ inst = "stopping"
  /\ StopEnd
  /\ inst' = IF idleStop THEN "crashed" ELSE "dead"
  /\ UNCHANGED <<workers, unborn, leaving, shutdown, callVars, hardTimer, idleDue, idleArmed,
                 idleStop, done, emits, quit, removed>>

-----------------------------------------------------------------------------
LifeNext ==
  \/ ScriptYield \/ Terminate
  \/ \E e \in Entry : ScriptStart(e) \/ EventEntry(e) \/ SpawnDispatch(e) \/ DropPosted(e) \/ DtorCallback(e)
  \/ \E f \in Fiber : ResumeDispatch(f) \/ SettleAnytime(f)
  \/ \E f \in Fiber : DropResume(f) \/ DropResumeEnd(f) \/ UnwindDangling(f)
  \/ \E w \in Worker : WorkerCreate(w) \/ WorkerLeave(w) \/ WorkerGone(w)
  \/ ShutdownCall \/ HandlerCall \/ ShutdownFinish
  \/ HardTimeout \/ IdleDispatch \/ StopStep \/ IdleStopEnd
  \/ DtorBegin \/ DtorStop \/ IdleInDtor \/ DtorEnd

LifeSpec == LifeInit /\ [][LifeNext]_vars

\* As for the pool: script code yields, the event loop serves each queued
\* event and expired timer, straight-line code runs to its end.
LifeFairness ==
  /\ WF_vars(ScriptYield \/ Terminate)
  /\ WF_vars(HandlerCall \/ ShutdownFinish)
  /\ \A f \in Fiber : SF_vars(ResumeDispatch(f))
  /\ \A w \in Worker : SF_vars(WorkerGone(w))
  /\ SF_vars(HardTimeout)
  /\ SF_vars(IdleDispatch)
  /\ SF_vars(StopStep)
  /\ SF_vars(DtorBegin)
  /\ WF_vars(IdleStopEnd \/ DtorStop \/ DtorEnd)
  /\ WF_vars(\E e \in Entry : DropPosted(e))
  /\ WF_vars(\E f \in Fiber : DropResume(f) \/ DropResumeEnd(f) \/ UnwindDangling(f))

FairLifeSpec == LifeSpec /\ LifeFairness

-----------------------------------------------------------------------------
(* Properties                                                              *)

\* The state has its types; only workers that exist have a pending deletion.
LifeTypeOK ==
  /\ TypeOK
  /\ workers \subseteq Worker /\ unborn \subseteq Worker \ workers
  /\ leaving \subseteq workers
  /\ sdFiber \in Fiber \union {None} /\ sdDepth \in Nat
  /\ todo \in Seq(Entry)
  /\ hardTimer \in {"off", "armed", "fired"}
  /\ {shutdown, handling, idleDue, idleArmed, idleStop, done, quit} \subseteq BOOLEAN
  /\ inst \in InstState

\* The time budget and the idle path race for ShutdownDone; the host sees it
\* at most once (it deletes the AppState on it).
DoneOnce == emits <= 1

\* ShutdownDone without the budget running out means that every script entry
\* has ended: emitDoneWhenIdle stops the pool before it emits.
GracefulDoneIsQuiet ==
  [][emits' > emits /\ hardTimer' # "fired" => \A e \in Entry : entry'[e] # "live"]_vars

\* A spawn() that is still queued when Shutdown() begins never starts.
NoLateSpawn ==
  [][shutdown => \A e \in Entry : entry[e] = "posted" => entry'[e] # "live"]_vars

\* Both together: what Shutdown() found queued does not start, and what it
\* found running has ended when ShutdownDone says so.
ShutdownIsQuiet == GracefulDoneIsQuiet /\ NoLateSpawn

\* When ~Instance reaches lua_close, no fiber has a stack left that refers to
\* the Lua state, and no entry is half way.
TeardownComplete ==
  inst = "dead" =>
    /\ \A f \in Fiber : coro[f] \in {"none", "idle", "unwound"}
    /\ \A e \in Entry : entry[e] # "live"

\* The fibers while an Instance lives and ends: as FiberConsistent, but for those
\* that are unwound with no StepGuard, and pointers that dangle, once ~Instance
\* drops the queued events.
FibersSound ==
  \A f \in Fiber :
    /\ coro[f] = "running" => current = f /\ stop # "unwinding"
    /\ coro[f] \in {"running", "suspended"} => f \in flying \union stragglers
    /\ coro[f] = "idle" => f \notin flying \union stragglers
    /\ coro[f] = "unwinding" => current = f \/ inst \in {"dropping", "crashed"}
    /\ coro[f] = "unwinding" => f \in detached \/ holder[f] = "frame"
    /\ coro[f] = "unwinding" /\ inst = "dropping" => f \notin detached
    /\ coro[f] = "unwound" \/ (coro[f] = "unwinding" /\ current = f) => f \in detached
    /\ f \in detached => coro[f] \in {"unwinding", "unwound"} /\ f \notin flying \union stragglers
    /\ holder[f] = "none" <=> coro[f] = "none"
    /\ holder[f] = "pool" => coro[f] = "idle"
    /\ holder[f] \in {"promise", "event"} /\ f \notin detached => coro[f] = "suspended"

\* ... what Stop() leaves in its two sets, and where the live entries are.
PoolSound ==
  /\ FibersSound
  /\ stop = "unwinding" => flying = {}
  /\ stop # "unwinding" => stragglers = {}
  /\ LiveEntriesFound

\* How the stages of an Instance, its Shutdown() and the two calls of Stop() go
\* together.
StagesSound ==
  /\ ~shutdown => stop = "no" /\ hardTimer = "off" /\ inst \in {"up", "crashed"}
  /\ idleDue \/ idleStop \/ handling => shutdown
  /\ handling /\ sdFiber = None => stop = "no" /\ inst \in {"up", "crashed"}
  /\ inst \in {"up", "doomed", "doomedInStop"} /\ ~idleStop => stop = "no"
  /\ inst = "dropping" => stop = "no"
  /\ inst = "dead" => current = None
  /\ inst \notin {"up", "crashed"} => done
  /\ done => shutdown
  /\ emits \in {0, 1} /\ (emits = 1 => done)

\* The handlers are Shutdown()'s own to start.
HandlersSound ==
  /\ \A i \in 1..Len(todo) : IsHandler(todo[i])
  /\ \A e \in Entry : IsHandler(e) => entry[e] # "posted"

\* ShutdownDone is told once, and nothing is half way when the Lua state is
\* closed; and what these two rest on.
InstanceSound ==
  /\ LifeTypeOK /\ DoneOnce /\ TeardownComplete
  /\ PoolSound /\ StagesSound /\ HandlersSound

\* A fiber with unfinished work carries an entry, also one whose queued resume
\* ~Instance has taken off the queue.
FibersLoaded ==
  /\ \A f \in Fiber : coro[f] \in {"running", "suspended", "unwinding"} => work[f] # <<>>
  /\ inst \notin {"dropping", "crashed"} => removed = {}
  /\ \A f \in Fiber : f \in removed => f \in detached \/ coro[f] = "suspended"

\* Shutdown() does its rest before ShutdownDone is emitted, whatever becomes of
\* the fiber it runs on: that fiber keeps the entries the call was made from,
\* and what is nested further in begins with a handler, past which no throw gets.
CallSound ==
  handling =>
    /\ ~done /\ hardTimer = "off"
    /\ sdFiber # None =>
         /\ coro[sdFiber] \in {"running", "suspended", "unwinding"}
         /\ sdDepth \in 1..Len(work[sdFiber])
         /\ Len(work[sdFiber]) > sdDepth => work[sdFiber][sdDepth + 1] \in Boundary

\* The invariants together.
LifecycleInv == InstanceSound /\ FibersLoaded /\ CallSound

\* A Shutdown() always ends in ShutdownDone, unless a noexcept callback ends the
\* process before (Terminate).
ShutdownCompletes == shutdown ~> done \/ inst = "crashed"

\* ShutdownDone is followed by the destruction of the Instance.
InstanceDestroyed == done ~> inst \notin {"up", "doomed", "doomedInStop"}

\* Both together: a Shutdown() called from the event loop ends in ShutdownDone
\* and in the destruction of the Instance.
ShutdownEnds == ShutdownCompletes /\ InstanceDestroyed
=============================================================================
