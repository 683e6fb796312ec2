---------------------------- MODULE MCTransports ----------------------------
(***************************************************************************)
(* The workers that wait for another process, in one model: the socket     *)
(* servers and clients (extended), and the workers that answer requests.   *)
(* A behaviour is about one of the two; nothing of the other is            *)
(* constructed.                                                            *)
(***************************************************************************)
EXTENDS Sockets, Requests

VARIABLE part   \* the workers this behaviour is about

ASSUME SocketsAssumption

TransportsInit ==
  /\ part \in {"sockets", "requests"}
  /\ Init
  /\ part # "sockets" => transport = "local" /\ perClient
  /\ RequestsInit

TransportsNext ==
  \/ part = "sockets" /\ Next /\ UNCHANGED <<part, requestsVars>>
  \/ part = "requests" /\ RequestsNext /\ UNCHANGED <<part, vars>>

TransportsSpec ==
  /\ TransportsInit /\ [][TransportsNext]_<<part, vars, requestsVars>>
  /\ Fairness /\ RequestsFairness
=============================================================================
