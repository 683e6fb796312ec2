------------------------------ MODULE Service ------------------------------
(***************************************************************************)
(* make_service() of src/src/scripts/builtins.lua: request/response        *)
(* correlation with a timeout.  Each request waits in reqs for a response  *)
(* with its id; a timer counts the waiting requests down and answers the   *)
(* expired ones itself.  The callbacks are script code that may suspend or *)
(* raise, so a tick may still be in its loop when responses and further    *)
(* ticks come in.                                                          *)
(***************************************************************************)
EXTENDS Naturals, FiniteSets

CONSTANTS
  Req,        \* requests, which are their own ids (next_id() counts to 2^32)
  Raising,    \* the requests whose callback raises an error
  Timeout,    \* timeout in units of check_delta
  Tick        \* fibers the timer callback can be on at the same time

ASSUME ServiceAssumption ==
  /\ Raising \subseteq Req
  /\ Timeout \in Nat \ {0}

VARIABLES
  sent,       \* requests made so far
  reqs,       \* reqs: the requests that wait
  timeout,    \* the timeout field of each of them
  toRemove,   \* what each running tick has still to answer
  answer,     \* what each callback was called with
  answers,    \* how often it was called
  age         \* ticks since the request, counted up to Timeout

serviceVars == <<sent, reqs, timeout, toRemove, answer, answers, age>>

ServiceInit ==
  /\ sent = {}
  /\ reqs = {}
  /\ timeout = [r \in Req |-> 0]
  /\ toRemove = [t \in Tick |-> {}]
  /\ answer = [r \in Req |-> "none"]
  /\ answers = [r \in Req |-> 0]
  /\ age = [r \in Req |-> 0]

\* A script calls the service.
Request(r) ==
  /\ r \notin sent
  /\ sent' = sent \union {r}
  /\ reqs' = reqs \union {r}
  /\ timeout' = [timeout EXCEPT ![r] = Timeout]
  /\ UNCHANGED <<toRemove, answer, answers, age>>

\* The request leaves reqs, then its callback is called.
Answer(r, how) ==
  /\ reqs' = reqs \ {r}
  /\ answer' = [answer EXCEPT ![r] = how]
  /\ answers' = [answers EXCEPT ![r] = @ + 1]

\* A response comes in, possibly late or a second time.
Response(r) ==
  /\ r \in sent
  /\ r \in reqs
  /\ Answer(r, "response")
  /\ UNCHANGED <<sent, timeout, toRemove, age>>

\* Mutant of TimerTick: only a request that expires right now is collected, so
\* one that an error kept from being answered is not collected again.
TickOnce(t) ==
  LET expired == {r \in reqs : timeout[r] <= 1} IN
  /\ toRemove[t] = {}
  /\ toRemove' = [toRemove EXCEPT ![t] = {r \in expired : age[r] < Timeout}]
  /\ timeout' = [r \in Req |-> IF r \in reqs \ expired THEN timeout[r] - 1 ELSE timeout[r]]
  /\ age' = [r \in Req |-> IF r \in reqs /\ age[r] < Timeout THEN age[r] + 1 ELSE age[r]]
  /\ UNCHANGED <<sent, reqs, answer, answers>>

\* The timer fires: the expired requests are collected (in the order of
\* pairs()), the others counted down.
TimerTick(t) ==
  LET expired == {r \in reqs : timeout[r] <= 1} IN
  /\ toRemove[t] = {}
  /\ toRemove' = [toRemove EXCEPT ![t] = expired]
  /\ timeout' = [r \in Req |-> IF r \in reqs \ expired THEN timeout[r] - 1 ELSE timeout[r]]
  /\ age' = [r \in Req |-> IF r \in reqs /\ age[r] < Timeout THEN age[r] + 1 ELSE age[r]]
  /\ UNCHANGED <<sent, reqs, answer, answers>>

\* Mutant of Expire: a request that is gone by now is answered nevertheless.
ExpireAnyway(t, r) ==
  /\ r \in toRemove[t]
  /\ Answer(r, "timeout")
  /\ toRemove' = [toRemove EXCEPT ![t] = @ \ {r}]
  /\ UNCHANGED <<sent, timeout, age>>

\* The tick answers its next request.  If that one is gone by now, or if its
\* callback raises, the error ends the loop; the rest waits for the next tick.
Expire(t, r) ==
  /\ r \in toRemove[t]
  /\ IF r \in reqs THEN Answer(r, "timeout") ELSE UNCHANGED <<reqs, answer, answers>>
  /\ toRemove' = [toRemove EXCEPT ![t] = IF r \in reqs \ Raising THEN @ \ {r} ELSE {}]
  /\ UNCHANGED <<sent, timeout, age>>

ServiceNext ==
  \/ \E r \in Req : Request(r) \/ Response(r)
  \/ \E t \in Tick : TimerTick(t) \/ \E r \in Req : Expire(t, r)

ServiceSpec == ServiceInit /\ [][ServiceNext]_serviceVars

\* The timer keeps firing and a callback that suspends is resumed in the end;
\* nobody has to respond.
ServiceFairness ==
  \A t \in Tick :
    /\ WF_serviceVars(TimerTick(t))
    /\ WF_serviceVars(\E r \in Req : Expire(t, r))

FairServiceSpec == ServiceSpec /\ ServiceFairness

-----------------------------------------------------------------------------
(* Properties                                                              *)

\* The state has its types; nothing waits that was not sent, and no countdown
\* leaves its range.
ServiceTypeOK ==
  /\ sent \subseteq Req /\ reqs \subseteq sent
  /\ timeout \in [Req -> 0..Timeout] /\ age \in [Req -> 0..Timeout]
  /\ toRemove \in [Tick -> SUBSET Req]
  /\ answer \in [Req -> {"none", "response", "timeout"}]
  /\ answers \in [Req -> Nat]

\* A late or repeated response and overlapping ticks never call a callback a
\* second time.
AnsweredOnce == \A r \in Req : answers[r] <= 1

\* A request that waits has not been answered, and one that was made and does
\* not wait has: reqs is the exact list of open requests.
WaitingUnanswered == \A r \in sent : r \in reqs <=> answers[r] = 0

\* A waiting request is given its full number of ticks.
NoEarlyTimeout == \A r \in Req : answer[r] = "timeout" => age[r] = Timeout

\* Every request is answered, by a response or by the timeout, even if other
\* callbacks fail or a tick runs into a request that is gone.
EveryRequestAnswered == \A r \in Req : r \in sent ~> answers[r] > 0

\* The countdown of a waiting request and the ticks it has seen add up: with
\* WaitingUnanswered, an inductive strengthening of the safety properties.
Countdown ==
  /\ \A r \in reqs : timeout[r] > 0
  /\ \A r \in reqs : timeout[r] + age[r] = Timeout \/ (timeout[r] = 1 /\ age[r] = Timeout)
  /\ \A t \in Tick : \A r \in toRemove[t] : r \in sent /\ age[r] = Timeout
  /\ \A r \in Req \ sent : answers[r] = 0 /\ age[r] = 0 /\ answer[r] = "none"

ServiceInv == ServiceTypeOK /\ AnsweredOnce /\ WaitingUnanswered /\ NoEarlyTimeout /\ Countdown
=============================================================================
