------------------------------ MODULE MCCyphal ------------------------------
(***************************************************************************)
(* The Cyphal node in one model: its transmit queue over a CAN worker, and *)
(* its requests.  A behaviour is about one of the two; nothing happens in  *)
(* the other.                                                              *)
(***************************************************************************)
EXTENDS Cyphal, CyphalRequests

VARIABLE part   \* what this behaviour is about

NodeInit ==
  /\ part \in {"queue", "requests"}
  /\ CyphalInit /\ (part # "queue" => ~sync)
  /\ ReqInit /\ (part # "requests" => ~info)

NodeNext ==
  \/ part = "queue" /\ Next /\ UNCHANGED <<part, reqvars>>
  \/ part = "requests" /\ ReqNext /\ UNCHANGED <<part, vars>>

NodeSpec == NodeInit /\ [][NodeNext]_<<part, vars, reqvars>> /\ Fairness /\ ReqFairness
=============================================================================
