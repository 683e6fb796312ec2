------------------------------ MODULE MCFibers ------------------------------
(* Model values for the fiber pool.                                        *)
EXTENDS Fibers

CONSTANTS f1, f2, e1, e2, e3, e4

MCFiber == {f1, f2}
MCEntry == {e1, e2, e3, e4}
MCBoundary == {e2}
=============================================================================
