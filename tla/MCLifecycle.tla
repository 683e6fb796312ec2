---------------------------- MODULE MCLifecycle ----------------------------
(* Model values for the lifecycle of an Instance.                          *)
EXTENDS Lifecycle, TLC

CONSTANTS f1, f2, f3, h, c, s, w1

MCFiber == {f1, f2, f3}
MCEntry == {h, c, s}
MCFiber2 == {f1, f2}
MCEntry2 == {h, c}
MCBoundary == {h, s}
MCBoundary2 == {h}
MCWorker == {w1}
MCHandlers == <<h>>
FiberSymmetry == Permutations(MCFiber)
=============================================================================
