------------------------------ MODULE OneShot ------------------------------
(***************************************************************************)
(* What a promise promises: a cell that takes one value, once, and gives   *)
(* that value at most once to everyone who subscribed.                     *)
(***************************************************************************)
CONSTANTS Cell, Reader, Value

VARIABLES
  val,    \* the value of each cell, "pending" before it has one
  at,     \* the cell each reader subscribed to, "nowhere" before that
  got     \* what each reader was given, "nothing" before that

oneShotVars == <<val, at, got>>

OneShotInit ==
  /\ val = [c \in Cell |-> "pending"]
  /\ at = [r \in Reader |-> "nowhere"]
  /\ got = [r \in Reader |-> "nothing"]

Put(c, v) ==
  /\ val[c] = "pending"
  /\ val' = [val EXCEPT ![c] = v]
  /\ UNCHANGED at

\* A reader may subscribe to a cell that has its value, and is served at once.
Join(r, c) ==
  /\ at[r] = "nowhere"
  /\ at' = [at EXCEPT ![r] = c]
  /\ got' = [got EXCEPT ![r] = IF val[c] = "pending" THEN @ ELSE val[c]]
  /\ UNCHANGED val

Give(r) ==
  /\ at[r] \in Cell
  /\ val[at[r]] # "pending"
  /\ got[r] = "nothing"
  /\ got' = [got EXCEPT ![r] = val[at[r]]]

OneShotNext ==
  \/ \E c \in Cell, v \in Value : Put(c, v) /\ UNCHANGED got
  \/ \E r \in Reader, c \in Cell : Join(r, c)
  \/ \E r \in Reader : Give(r) /\ UNCHANGED <<val, at>>

OneShotSpec == OneShotInit /\ [][OneShotNext]_oneShotVars
=============================================================================
