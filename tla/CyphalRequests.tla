--------------------------- MODULE CyphalRequests ---------------------------
(***************************************************************************)
(* Request() of the Cyphal node (cyphalworker.cpp) and its table of calls  *)
(* in flight on one service port.  The transmit queue is that of Cyphal: a *)
(* request that was pushed is written once, later or not at all.  The key  *)
(* of a call in the table has 8 bits, of which libcanard (external)        *)
(* carries 5 on the wire and back.                                         *)
(***************************************************************************)
EXTENDS Naturals, FiniteSets

CONSTANTS Reqs,          \* calls of Request() a script makes
          Odd,           \* the ones that may name another service type
          TableMod,      \* values of CanardTransferID, a uint8_t: keys of the table
          TidMod,        \* transfer ids on the wire (CANARD_TRANSFER_ID_MAX + 1)
          Ticks,         \* timeout of a call, in periods of checkReqTimeouts
          InfoPorts      \* set of BOOLEAN: TRUE when the port is that of GetInfo

Nobody == "nobody"

ASSUME RequestsAssumption ==
  /\ TableMod \in Nat \ {0} /\ TidMod \in Nat \ {0} /\ Ticks \in Nat \ {0}
  /\ Nobody \notin Reqs

VARIABLES
  info,                  \* the port is the fixed port of GetInfo
  port,                  \* reqs[port]: NoPort, or its RequestsPort
  subscribed,            \* canard's subscription for the responses
  state,                 \* [Reqs -> what became of the call]
  queued,                \* requests not yet written: set of [req, tid]
  answers,               \* responses on their way: set of [req, tid]
  crashed                \* undefined behaviour was reached

reqvars == <<info, port, subscribed, state, queued, answers, crashed>>

Port(tid, type, in_flight) == [tid |-> tid, type |-> type, in_flight |-> in_flight]
NoPort == Port(0, "none", {})
Transfer(r, tid) == [req |-> r, tid |-> tid]

ReqInit ==
  /\ info \in InfoPorts /\ port = NoPort /\ subscribed = FALSE
  /\ state = [r \in Reqs |-> "none"] /\ queued = {} /\ answers = {} /\ crashed = FALSE

-----------------------------------------------------------------------------
(* Mutant: an answer goes to some call on the port. *)
HandlerOfPort(tid) == IF port.in_flight = {} THEN {} ELSE {CHOOSE e \in port.in_flight : TRUE}

(* in_flight.find(transfer_id) *)
Handler(tid) == {e \in port.in_flight : e.tid = tid}

InFlight(r, tid, left) == [req |-> r, tid |-> tid, left |-> left]

(* CyphalWorker::Request.  The transfer id and the entry of the table are  *)
(* taken before pushMsg() can raise, and stay.                             *)
RequestRaises(r, p) ==
  /\ state' = [state EXCEPT ![r] = "raised"] /\ port' = p
  /\ UNCHANGED queued

RequestSent(r, p, tid) ==
  /\ state' = [state EXCEPT ![r] = "waiting"] /\ port' = p
  /\ queued' = queued \cup {Transfer(r, tid)}

Request(r, type) ==
  LET tid == port.tid
      next == (tid + 1) % TableMod
      its == IF port.type = "none" THEN type ELSE port.type
      refused == its # type \/ \E e \in port.in_flight : e.tid = tid
      Started(who) == Port(next, its, port.in_flight \cup {InFlight(who, tid, Ticks)})
  IN
  /\ ~crashed /\ state[r] = "none" /\ (type = "other" => r \in Odd)
  /\ \/ /\ refused /\ RequestRaises(r, Port(next, its, port.in_flight))
        /\ UNCHANGED subscribed
     \/ /\ ~refused /\ subscribed' = TRUE
        /\ RequestRaises(r, Started(Nobody)) \/ RequestSent(r, Started(r), tid)
  /\ UNCHANGED <<info, answers, crashed>>

(* The frame of a request is written, and reaches the server, which may    *)
(* answer it.  A frame that expires in the queue is one never written.     *)
RequestWritten(q) ==
  /\ ~crashed /\ q \in queued /\ queued' = queued \ {q}
  /\ answers' = answers \cup {Transfer(q.req, q.tid % TidMod)}
  /\ UNCHANGED <<info, port, subscribed, state, crashed>>

(* on_frame() with a response (which may as well be lost, or late).  On    *)
(* the port of GetInfo it is taken for a request of GetInfo, and the null  *)
(* user_reference of the port is dereferenced.  An answer whose transfer   *)
(* id is not in the table is logged, and then the end of the table is      *)
(* dereferenced.                                                           *)
Unsubscribes(in_flight) == IF in_flight = {} THEN FALSE ELSE subscribed

OnResponse(a) ==
  LET mine == IF info THEN {} ELSE Handler(a.tid) IN
  /\ ~crashed /\ a \in answers
  /\ answers' = answers \ {a}
  /\ \/ ~subscribed /\ UNCHANGED <<port, subscribed, state, crashed>>
     \/ /\ subscribed /\ mine = {}
        /\ crashed' = TRUE /\ UNCHANGED <<port, subscribed, state>>
     \/ /\ subscribed /\ mine # {}
        /\ port' = Port(port.tid, port.type, port.in_flight \ mine)
        /\ subscribed' = Unsubscribes(port.in_flight \ mine)
        /\ state' = [r \in Reqs |-> IF \E e \in mine : e.req = r
                                      THEN IF r = a.req THEN "answered" ELSE "mistaken"
                                      ELSE state[r]]
        /\ UNCHANGED crashed
  /\ UNCHANGED <<info, queued>>

(* Mutant: the time left is compared but not reduced. *)
ElapsedNot(e) == e

Elapsed(e) == InFlight(e.req, e.tid, e.left - 1)

(* checkReqTimeouts(): an entry is erased, which drops its promise, when   *)
(* less than a period is left; a port without entries is erased with its   *)
(* transfer ids.  The frame of the request may still be queued, and its    *)
(* answer under way.                                                       *)
CheckReqTimeouts ==
  LET gone == {e \in port.in_flight : e.left = 1}
      rest == {Elapsed(e) : e \in port.in_flight \ gone}
  IN
  /\ ~crashed /\ port # NoPort
  /\ port' = IF rest = {} THEN NoPort ELSE Port(port.tid, port.type, rest)
  /\ subscribed' = Unsubscribes(rest)
  /\ state' = [r \in Reqs |-> IF \E e \in gone : e.req = r THEN "timeout" ELSE state[r]]
  /\ UNCHANGED <<info, queued, answers, crashed>>

ReqNext ==
  \/ \E r \in Reqs, type \in {"usual", "other"} : Request(r, type)
  \/ \E q \in queued : RequestWritten(q)
  \/ \E a \in answers : OnResponse(a)
  \/ CheckReqTimeouts

(* The timer of checkReqTimeouts() keeps firing; servers may be silent.    *)
ReqFairness == WF_reqvars(CheckReqTimeouts)

ReqSpec == ReqInit /\ [][ReqNext]_reqvars /\ ReqFairness

-----------------------------------------------------------------------------
(***************************************************************************)
(* An answer under way whose call is in the table finds the entry of that  *)
(* call and no other, over any reuse of the port, of its transfer ids and  *)
(* of the table's keys, and beside late answers and full tables; only an   *)
(* entry whose key the wire cannot carry is not found.  An answer that     *)
(* comes when the port has no entry left is not delivered at all.          *)
(***************************************************************************)
OwnAnswer ==
  /\ \A a \in answers, e \in port.in_flight :
       e.req = a.req /\ e.tid < TidMod => Handler(a.tid) = {e}
  /\ subscribed => port.in_flight # {}

(***************************************************************************)
(* Every request ends: with its answer or with its timeout, whether or not *)
(* its frame is ever written, or the node crashes.                         *)
(***************************************************************************)
EveryRequestEnds ==
  \A r \in Reqs : state[r] = "waiting" ~> (state[r] # "waiting" \/ crashed)

-----------------------------------------------------------------------------
(* What OwnAnswer rests on                                                 *)

Keys == 0..(TableMod - 1)
Entries == [req : Reqs \cup {Nobody}, tid : Keys, left : 1..Ticks]
States == {"none", "waiting", "answered", "mistaken", "timeout", "raised"}

TableTypeOK ==
  /\ port \in [tid : Keys, type : {"none", "usual", "other"}, in_flight : SUBSET Entries]
  /\ queued \subseteq [req : Reqs, tid : Keys]
  /\ answers \subseteq [req : Reqs, tid : Nat]
  /\ state \in [Reqs -> States]

(* The entries have keys and calls of their own, and the calls wait.       *)
TableInv ==
  /\ \A e \in port.in_flight : e.req \in Reqs => state[e.req] = "waiting"
  /\ \A e, f \in port.in_flight : e.tid = f.tid => e = f
  /\ \A e, f \in port.in_flight : e.req = f.req /\ e.req \in Reqs => e = f
  /\ subscribed <=> port.in_flight # {}

(* A frame and an answer of a call that is in the table carry the key of   *)
(* its entry, the answer as much of it as the wire does.                   *)
TransfersInv ==
  /\ \A q \in queued : /\ state[q.req] # "none"
                       /\ \A e \in port.in_flight : e.req = q.req => e.tid = q.tid
  /\ \A a \in answers : /\ state[a.req] # "none"
                        /\ \A e \in port.in_flight : e.req = a.req => a.tid = e.tid % TidMod

TablesInv == TableTypeOK /\ TableInv /\ TransfersInv
=============================================================================
