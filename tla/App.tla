-------------------------------- MODULE App --------------------------------
(***************************************************************************)
(* The host process of src/app/main.cpp: one AppState owning one Instance, *)
(* replaced by hot reloads (a watched file, a script's reload()) and ended *)
(* by signals, os.exit() or shutdown().  The Instance is reduced to what   *)
(* module Lifecycle shows of it: Shutdown() ends in one ShutdownDone.      *)
(***************************************************************************)
EXTENDS Naturals

CONSTANTS
  Sources,    \* which inputs occur: a subset of AllSources
  MaxBuilds   \* bound on the AppStates built in one behaviour

AllSources == {"signal", "script", "watch", "reload"}

ASSUME AppAssumption == Sources \subseteq AllSources /\ MaxBuilds \in Nat \ {0}

VARIABLES
  app,        \* the AppState: running, in Shutdown(), deleteLater posted, or none
  queued,     \* calls a script has queued on the Instance
  hooks,      \* reload handlers connected to the Instance's destroyed()
  reloading,  \* g_reloading
  release,    \* the singleShot that clears g_reloading is pending
  exited,     \* qApp->exit() was called
  over,       \* main() has returned
  builds,     \* AppStates built so far
  wanted,     \* history: somebody asked for the process to end
  failed      \* history: a reload could not build the new AppState

appVars == <<app, queued, hooks, reloading, release, exited, over, builds, wanted, failed>>

AppInit ==
  /\ app = "up"
  /\ queued = {}
  /\ hooks = 0
  /\ reloading = FALSE
  /\ release = FALSE
  /\ exited = FALSE
  /\ over = FALSE
  /\ builds = 1
  /\ wanted = FALSE
  /\ failed = FALSE

Alive == app # "none" /\ ~over

\* Instance::Shutdown: only the first call does anything.
ShutdownInstance == app' = IF app = "up" THEN "closing" ELSE app

\* SIGINT, SIGTERM or the last window closed.
Signal ==
  /\ "signal" \in Sources
  /\ Alive
  /\ wanted' = TRUE
  /\ ShutdownInstance
  /\ UNCHANGED <<queued, hooks, reloading, release, exited, over, builds, failed>>

\* os.exit(): the code is set and Shutdown() is queued.
ScriptExit ==
  /\ "script" \in Sources
  /\ Alive
  /\ queued' = queued \union {"exit"}
  /\ wanted' = TRUE
  /\ UNCHANGED <<app, hooks, reloading, release, exited, over, builds, failed>>

ExitDispatch ==
  /\ Alive
  /\ "exit" \in queued
  /\ queued' = queued \ {"exit"}
  /\ ShutdownInstance
  /\ UNCHANGED <<hooks, reloading, release, exited, over, builds, wanted, failed>>

\* A script's reload(): RequestReload defers the request.
ScriptReload ==
  /\ "reload" \in Sources
  /\ Alive
  /\ queued' = queued \union {"reload"}
  /\ UNCHANGED <<app, hooks, reloading, release, exited, over, builds, wanted, failed>>

\* Mutant of TryReload: g_reloading is not asked.
ReloadUnguarded ==
  \/ UNCHANGED <<app, hooks, reloading>>
  \/ /\ builds < MaxBuilds
     /\ reloading' = TRUE
     /\ hooks' = hooks + 1
     /\ ShutdownInstance

\* The handler of FileChanged and ReloadRequest: refused while a reload is in
\* flight; otherwise the pre-reload command fails, or the old Instance is shut
\* down with the rebuild hooked to its destruction.
TryReload ==
  \/ /\ reloading
     /\ UNCHANGED <<app, hooks, reloading>>
  \/ /\ ~reloading
     /\ UNCHANGED <<app, hooks, reloading>>
  \/ /\ ~reloading
     /\ builds < MaxBuilds
     /\ reloading' = TRUE
     /\ hooks' = hooks + 1
     /\ ShutdownInstance

ReloadDispatch ==
  /\ Alive
  /\ "reload" \in queued
  /\ queued' = queued \ {"reload"}
  /\ TryReload
  /\ UNCHANGED <<release, exited, over, builds, wanted, failed>>

\* The watcher's queued FileChanged reaches the AppState.
FileChange ==
  /\ "watch" \in Sources
  /\ Alive
  /\ TryReload
  /\ UNCHANGED <<queued, release, exited, over, builds, wanted, failed>>

\* ShutdownDone: the AppState is doomed; the process exits unless reloading.
ShutdownDone ==
  /\ Alive
  /\ app = "closing"
  /\ app' = "done"
  /\ exited' = (exited \/ ~reloading)
  /\ UNCHANGED <<queued, hooks, reloading, release, over, builds, wanted, failed>>

\* ~AppState, with the Instance's queued calls, and destroyed().
Destroyed ==
  /\ Alive
  /\ app = "done"
  /\ queued' = {}
  /\ hooks' = 0
  /\ IF hooks = 0
       THEN app' = "none" /\ UNCHANGED <<release, exited, builds, failed>>
       ELSE /\ release' = TRUE
            /\ \/ /\ app' = "up"
                  /\ builds' = builds + hooks
                  /\ UNCHANGED <<exited, failed>>
               \/ /\ app' = "none"
                  /\ exited' = TRUE
                  /\ failed' = TRUE
                  /\ UNCHANGED builds
  /\ UNCHANGED <<reloading, over, wanted>>

\* Mutant of Release: the guard is not cleared.
ReleaseNothing ==
  /\ release
  /\ ~over
  /\ release' = FALSE
  /\ UNCHANGED <<app, queued, hooks, reloading, exited, over, builds, wanted, failed>>

\* The reload guard is released one loop turn after the rebuild.
Release ==
  /\ release
  /\ ~over
  /\ release' = FALSE
  /\ reloading' = FALSE
  /\ UNCHANGED <<app, queued, hooks, exited, over, builds, wanted, failed>>

\* exec() returned and the last deferred delete was flushed.
MainReturn ==
  /\ exited
  /\ ~over
  /\ app # "done"
  /\ over' = TRUE
  /\ UNCHANGED <<app, queued, hooks, reloading, release, exited, builds, wanted, failed>>

AppNext ==
  \/ Signal \/ ScriptExit \/ ExitDispatch
  \/ ScriptReload \/ ReloadDispatch \/ FileChange
  \/ ShutdownDone \/ Destroyed \/ Release \/ MainReturn

AppSpec == AppInit /\ [][AppNext]_appVars

\* The event loop serves what is queued; Shutdown() ends (ShutdownCompletes of
\* module Lifecycle).
AppFairness ==
  /\ WF_appVars(ExitDispatch)
  /\ WF_appVars(ReloadDispatch)
  /\ WF_appVars(ShutdownDone)
  /\ WF_appVars(Destroyed)
  /\ WF_appVars(Release)
  /\ WF_appVars(MainReturn)

FairAppSpec == AppSpec /\ AppFairness

-----------------------------------------------------------------------------
(* Properties                                                              *)

\* The state has its types, and the bound on the builds holds: one reload
\* builds one AppState.
AppTypeOK ==
  /\ app \in {"up", "closing", "done", "none"}
  /\ queued \subseteq {"exit", "reload"}
  /\ hooks \in Nat
  /\ builds \in 1..MaxBuilds
  /\ reloading \in BOOLEAN /\ release \in BOOLEAN
  /\ exited \in BOOLEAN /\ over \in BOOLEAN
  /\ wanted \in BOOLEAN /\ failed \in BOOLEAN

\* One reload at a time: while a rebuild is hooked to the old Instance the
\* guard is held, so no second hook is connected and one destroyed() never
\* builds two AppStates side by side.
OneReload == hooks > 0 => hooks = 1 /\ reloading /\ app \in {"closing", "done"}

\* A hot reload never ends the process by itself: it exits only on request or
\* because the new script failed to load.
ExitHasReason == exited => wanted \/ failed

\* Why those two hold: who shut the Instance down, and when the guard may be
\* released.
ReloadConsistent ==
  /\ release => reloading /\ hooks = 0
  /\ hooks > 0 => builds < MaxBuilds
  /\ app \in {"closing", "done"} /\ hooks = 0 => wanted
  /\ "exit" \in queued => wanted

AppInv == AppTypeOK /\ OneReload /\ ExitHasReason /\ ReloadConsistent

\* The guard is not leaked: every reload lets the next one through, unless the
\* process ends first.
ReloadSettles == reloading ~> (~reloading \/ over)

\* After the old Instance was told to go for a reload, a new one comes up, or
\* the process ends because it could not be built.
ReloadComesBack == hooks > 0 ~> (app = "up" \/ over)

\* Both together: a reload ends, with the guard released and an Instance up.
ReloadEnds == ReloadSettles /\ ReloadComesBack

\* Once the end of the process was requested, no reload starts a new Instance
\* in its place.
NoRebuildAfterExit == [][wanted => builds' = builds]_appVars
=============================================================================
