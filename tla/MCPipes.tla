------------------------------ MODULE MCPipes ------------------------------
(* Model values for a pipe source: two plain listeners, two match_msg().   *)
EXTENDS Pipes

CONSTANTS a, b, x, y, m1, m2

MCMatchAll(l) == {m1, m2}
=============================================================================
