----------------------------- MODULE MCScripts -----------------------------
(***************************************************************************)
(* What scripts are run with, in one model: the host process, Lua promises *)
(* and make_service().  The initial state says which of the three a        *)
(* behaviour is about; the others stay in their initial states, in which   *)
(* no action with fairness is enabled.                                     *)
(***************************************************************************)
EXTENDS App, Service, Promise

CONSTANTS
  p1, p2, g, s1, s2,    \* promises and callbacks
  r1, r2, r3, t1, t2    \* requests and timer callbacks

VARIABLE part   \* the part this behaviour is about

\* One of the two inputs of gather() is in its list twice.
TwiceInList == <<p1, p2, p1>>

scriptsVars == <<part, appVars, serviceVars, promiseVars>>

ScriptsInit ==
  /\ part \in {"host", "service", "promises"}
  /\ AppInit /\ ServiceInit /\ PromiseInit

ScriptsNext ==
  \/ part = "host" /\ AppNext /\ UNCHANGED <<part, serviceVars, promiseVars>>
  \/ part = "service" /\ ServiceNext /\ UNCHANGED <<part, appVars, promiseVars>>
  \/ part = "promises" /\ PromiseNext /\ UNCHANGED <<part, appVars, serviceVars>>

ScriptsSpec ==
  /\ ScriptsInit /\ [][ScriptsNext]_scriptsVars
  /\ AppFairness /\ ServiceFairness /\ PromiseFairness
=============================================================================
