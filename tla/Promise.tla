------------------------------ MODULE Promise ------------------------------
(***************************************************************************)
(* The Lua promises of src/src/scripts/async.lua: make_state() with its    *)
(* subscribers and its check for unhandled rejections, and gather() built  *)
(* on it.  done() calls the subscribers in a loop of its own; each of them *)
(* is script code on a fiber and may suspend, so anything may happen       *)
(* between two of its calls.                                               *)
(***************************************************************************)
EXTENDS Integers, Sequences, FiniteSets

CONSTANTS
  Prom,       \* promises
  Sub,        \* callbacks of scripts, each subscribed at most once
  Throwing,   \* the callbacks that raise an error when called
  Gather,     \* the promise gather() returns
  Inputs      \* the list it is given; a promise may occur twice

ASSUME PromiseAssumption ==
  /\ Gather \in Prom
  /\ Throwing \subseteq Sub
  /\ Inputs \in Seq(Prom \ {Gather})
  /\ Sub \intersect Nat = {}
  /\ "nowhere" \notin Prom

VARIABLES
  outcome,    \* settled, res and err
  subs,       \* subs: callbacks, and the indices of gather's own callbacks
  hadSub,     \* had_sub
  cursor,     \* the next subscriber done()'s loop calls, 0 when it is not running
  check,      \* promises whose after(0) check for a subscriber is pending
  reported,   \* promises whose rejection was reported as unhandled
  of,         \* the promise each callback subscribed to
  seen,       \* the result each callback was called with
  calls,      \* how often it was called
  gathered,   \* gather() was called
  left,       \* gather's count of missing results
  results,    \* the indices gather has results for
  under       \* the promise whose loop called gather's done, "nowhere" if none

promiseVars == <<outcome, subs, hadSub, cursor, check, reported, of, seen, calls,
                 gathered, left, results, under>>
gatherVars == <<gathered, left, results, under>>

Index == 1..Len(Inputs)

PromiseInit ==
  /\ outcome = [p \in Prom |-> "pending"]
  /\ subs = [p \in Prom |-> <<>>]
  /\ hadSub = [p \in Prom |-> FALSE]
  /\ cursor = [p \in Prom |-> 0]
  /\ check = {}
  /\ reported = {}
  /\ of = [s \in Sub |-> "nowhere"]
  /\ seen = [s \in Sub |-> "nothing"]
  /\ calls = [s \in Sub |-> 0]
  /\ gathered = FALSE
  /\ left = 0
  /\ results = {}
  /\ under = "nowhere"

Exists(p) == p # Gather \/ gathered

-----------------------------------------------------------------------------
(* make_state                                                              *)

\* subscribe(cb): called at once on a settled promise, remembered otherwise.
Subscribe(s, p) ==
  /\ Exists(p)
  /\ of[s] = "nowhere"
  /\ of' = [of EXCEPT ![s] = p]
  /\ hadSub' = [hadSub EXCEPT ![p] = TRUE]
  /\ IF outcome[p] # "pending"
       THEN /\ seen' = [seen EXCEPT ![s] = outcome[p]]
            /\ calls' = [calls EXCEPT ![s] = @ + 1]
            /\ UNCHANGED subs
       ELSE /\ subs' = [subs EXCEPT ![p] = Append(@, s)]
            /\ UNCHANGED <<seen, calls>>
  /\ UNCHANGED <<outcome, cursor, check, reported, gatherVars>>

\* Mutant of Settle: settled is not asked.
SettleAgain(p, o) ==
  /\ outcome' = [outcome EXCEPT ![p] = o]
  /\ check' = IF subs[p] = <<>> /\ o = "err" THEN check \union {p} ELSE check

\* Mutant of Settle: the check for a subscriber is not scheduled.
SettleUnchecked(p, o) ==
  /\ outcome[p] = "pending"
  /\ outcome' = [outcome EXCEPT ![p] = o]
  /\ UNCHANGED check

\* done(r, e) as far as its loop: nothing if settled; an error nobody
\* subscribed to is checked again one turn of the event loop later.
Settle(p, o) ==
  /\ outcome[p] = "pending"
  /\ outcome' = [outcome EXCEPT ![p] = o]
  /\ check' = IF subs[p] = <<>> /\ o = "err" THEN check \union {p} ELSE check

\* done() called by the promise's executor, or whoever it gave done() to.
Done(p, o) ==
  /\ p # Gather
  /\ Settle(p, o)
  /\ cursor' = [cursor EXCEPT ![p] = IF subs[p] = <<>> THEN 0 ELSE 1]
  /\ UNCHANGED <<subs, hadSub, reported, of, seen, calls, gatherVars>>

\* Where done()'s loop goes next.
Advance(p) == IF cursor[p] < Len(subs[p]) THEN cursor[p] + 1 ELSE 0

Calling(p) ==
  /\ cursor[p] > 0
  /\ ~(under = p /\ cursor[Gather] > 0)

\* done()'s loop calls a script's callback; an error leaves the loop, and the
\* loop that called into it.
CallSub(p) ==
  LET s == subs[p][cursor[p]]
      aborted == IF s \notin Throwing THEN {}
                 ELSE IF p = Gather THEN {p, under} ELSE {p}
  IN
  /\ Calling(p)
  /\ s \in Sub
  /\ seen' = [seen EXCEPT ![s] = outcome[p]]
  /\ calls' = [calls EXCEPT ![s] = @ + 1]
  /\ cursor' = [q \in Prom |-> IF q \in aborted THEN 0
                               ELSE IF q = p THEN Advance(p) ELSE cursor[q]]
  /\ UNCHANGED <<outcome, subs, hadSub, check, reported, of, gatherVars>>

\* after(0): reported if there is still no subscriber.
Report(p) ==
  /\ p \in check
  /\ check' = check \ {p}
  /\ reported' = IF hadSub[p] THEN reported ELSE reported \union {p}
  /\ UNCHANGED <<outcome, subs, hadSub, cursor, of, seen, calls, gatherVars>>

-----------------------------------------------------------------------------
(* gather                                                                  *)

\* gather()'s own callbacks on p, in the order they are subscribed: the indices
\* of its list at which p is.
OwnCallbacks(p) ==
  {own \in UNION {[1..n -> Index] : n \in 0..Len(Inputs)} :
     /\ {own[k] : k \in DOMAIN own} = {i \in Index : Inputs[i] = p}
     /\ \A j, k \in DOMAIN own : j < k => own[j] < own[k]}

\* The executor subscribes to every input; those already settled call back at
\* once, in order, while nobody can have subscribed to gather's own promise.
GatherCall ==
  LET Settled(o) == {i \in Index : outcome[Inputs[i]] = o}
      missing == Len(Inputs) - Cardinality(Settled("ok"))
  IN
  /\ ~gathered
  /\ gathered' = TRUE
  /\ results' = Settled("ok")
  /\ left' = missing
  /\ \E own \in [Prom -> UNION {OwnCallbacks(p) : p \in Prom}] :
       /\ \A p \in Prom : own[p] \in OwnCallbacks(p)
       /\ subs' = [p \in Prom |-> IF outcome[p] = "pending" THEN subs[p] \o own[p] ELSE subs[p]]
  /\ hadSub' = [p \in Prom |-> hadSub[p] \/ \E i \in Index : Inputs[i] = p]
  /\ \/ Settled("err") # {} /\ Settle(Gather, "err")
     \/ Settled("err") = {} /\ missing = 0 /\ Settle(Gather, "ok")
     \/ Settled("err") = {} /\ missing > 0 /\ UNCHANGED <<outcome, check>>
  /\ UNCHANGED <<cursor, reported, of, seen, calls, under>>

\* Mutant of GatherStep: an input that was rejected counts as a result.
GatherCountsErrors(p) ==
  LET i == subs[p][cursor[p]] IN
  /\ Calling(p)
  /\ i \in Index
  /\ left' = left - 1
  /\ results' = IF outcome[p] = "ok" THEN results \union {i} ELSE results
  /\ IF left = 1 /\ outcome[Gather] = "pending"
       THEN /\ Settle(Gather, "ok")
            /\ under' = p
            /\ cursor' = [cursor EXCEPT ![p] = Advance(p),
                                        ![Gather] = IF subs[Gather] = <<>> THEN 0 ELSE 1]
       ELSE /\ cursor' = [cursor EXCEPT ![p] = Advance(p)]
            /\ UNCHANGED <<outcome, check, under>>
  /\ UNCHANGED <<subs, hadSub, reported, of, seen, calls, gathered>>

\* Mutant of GatherStep: an error is not passed on.
GatherIgnoresErrors(p) ==
  LET i == subs[p][cursor[p]]
      ok == outcome[p] = "ok"
  IN
  /\ Calling(p)
  /\ i \in Index
  /\ left' = IF ok THEN left - 1 ELSE left
  /\ results' = IF ok THEN results \union {i} ELSE results
  /\ IF ok /\ left = 1 /\ outcome[Gather] = "pending"
       THEN /\ Settle(Gather, "ok")
            /\ under' = p
            /\ cursor' = [cursor EXCEPT ![p] = Advance(p),
                                        ![Gather] = IF subs[Gather] = <<>> THEN 0 ELSE 1]
       ELSE /\ cursor' = [cursor EXCEPT ![p] = Advance(p)]
            /\ UNCHANGED <<outcome, check, under>>
  /\ UNCHANGED <<subs, hadSub, reported, of, seen, calls, gathered>>

\* done()'s loop calls gather's own callback for index subs[p][cursor[p]].
GatherStep(p) ==
  LET i == subs[p][cursor[p]]
      ok == outcome[p] = "ok"
      last == ok /\ left = 1
  IN
  /\ Calling(p)
  /\ i \in Index
  /\ left' = IF ok THEN left - 1 ELSE left
  /\ results' = IF ok THEN results \union {i} ELSE results
  /\ IF (last \/ ~ok) /\ outcome[Gather] = "pending"
       THEN /\ Settle(Gather, outcome[p])
            /\ under' = p
            /\ cursor' = [cursor EXCEPT ![p] = Advance(p),
                                        ![Gather] = IF subs[Gather] = <<>> THEN 0 ELSE 1]
       ELSE /\ cursor' = [cursor EXCEPT ![p] = Advance(p)]
            /\ UNCHANGED <<outcome, check, under>>
  /\ UNCHANGED <<subs, hadSub, reported, of, seen, calls, gathered>>

-----------------------------------------------------------------------------
PromiseNext ==
  \/ \E s \in Sub, p \in Prom : Subscribe(s, p)
  \/ \E p \in Prom, o \in {"ok", "err"} : Done(p, o)
  \/ \E p \in Prom : CallSub(p) \/ GatherStep(p) \/ Report(p)
  \/ GatherCall

PromiseSpec == PromiseInit /\ [][PromiseNext]_promiseVars

\* Callbacks return in the end, and the event loop fires the zero timer.
\* Nobody is obliged to settle a promise.
PromiseFairness ==
  \A p \in Prom : WF_promiseVars(CallSub(p) \/ GatherStep(p)) /\ WF_promiseVars(Report(p))

FairPromiseSpec == PromiseSpec /\ PromiseFairness

-----------------------------------------------------------------------------
(* Properties                                                              *)

\* A callback is called at most once, however subscribing, settling and the
\* loop of done() interleave.
CalledOnce == \A s \in Sub : calls[s] <= 1

\* gather() resolves only with every result in its place, rejects only if some
\* input did, and its countdown agrees with the results it has.
GatherSound ==
  /\ outcome[Gather] = "ok" => results = Index /\ \A i \in Index : outcome[Inputs[i]] = "ok"
  /\ outcome[Gather] = "err" => \E i \in Index : outcome[Inputs[i]] = "err"
  /\ gathered => left + Cardinality(results) = Len(Inputs)

\* The types of the variables.
PromiseTypeOK ==
  /\ outcome \in [Prom -> {"pending", "ok", "err"}]
  /\ subs \in [Prom -> Seq(Sub \union Index)]
  /\ hadSub \in [Prom -> BOOLEAN]
  /\ cursor \in [Prom -> Nat] /\ \A p \in Prom : cursor[p] <= Len(subs[p])
  /\ check \subseteq Prom /\ reported \subseteq Prom
  /\ of \in [Sub -> Prom \union {"nowhere"}]
  /\ seen \in [Sub -> {"nothing", "ok", "err"}]
  /\ calls \in [Sub -> Nat]
  /\ gathered \in BOOLEAN
  /\ left \in Int
  /\ results \subseteq Index
  /\ under \in Prom \union {"nowhere"}

\* A callback is in the list of the promise it subscribed to, at one place; the
\* list of gather's own promise holds none of gather's.
ListsSound ==
  \A p \in Prom :
    /\ \A k \in 1..Len(subs[p]) :
         /\ subs[p][k] \in Sub => of[subs[p][k]] = p
         /\ subs[p][k] \in Index => gathered /\ Inputs[subs[p][k]] = p
    /\ \A j, k \in 1..Len(subs[p]) : subs[p][j] = subs[p][k] => j = k

\* The callbacks of p that done() has still to call: all of them before it is
\* settled, then those its loop has not come to.
ToCome(p, k) == outcome[p] = "pending" \/ (cursor[p] > 0 /\ cursor[p] <= k)

\* Nobody the loop has still to come to was called before, and whoever was
\* called was given the one outcome of its promise.
LoopSound ==
  /\ \A p \in Prom : outcome[p] = "pending" => cursor[p] = 0
  /\ \A p \in Prom : \A k \in 1..Len(subs[p]) :
       ToCome(p, k) => /\ subs[p][k] \in Sub => calls[subs[p][k]] = 0
                       /\ subs[p][k] \in Index => subs[p][k] \notin results
  /\ \A s \in Sub : of[s] = "nowhere" => calls[s] = 0
  /\ \A s \in Sub : calls[s] = 0 => seen[s] = "nothing"
  /\ \A s \in Sub : calls[s] > 0 => of[s] \in Prom /\ seen[s] = outcome[of[s]]
  /\ \A i \in results : outcome[Inputs[i]] = "ok"
  /\ ~gathered => results = {} /\ outcome[Gather] = "pending"

\* All together: nobody is called twice, gather() does not make results up, and
\* what both rest on.
PromiseInv == PromiseTypeOK /\ CalledOnce /\ GatherSound /\ ListsSound /\ LoopSound

\* A callback of p raised, which ends the loop over p's subscribers.
Raised(p) == \E s \in Throwing : of[s] = p /\ calls[s] > 0

\* Whoever subscribes to a promise that settles is called, unless a callback
\* called before it, of that promise or of the gather() settled under it, raised.
SubscriberServed ==
  \A s \in Sub :
    (of[s] \in Prom /\ outcome[of[s]] # "pending")
    ~> (seen[s] # "nothing" \/ Raised(of[s]) \/ Raised(Gather))

\* gather() settles as soon as one input is rejected or all are resolved, unless
\* a callback subscribed to one of its inputs raised.
GatherSettles ==
  (/\ gathered
   /\ \/ \E i \in Index : outcome[Inputs[i]] = "err"
      \/ \A i \in Index : outcome[Inputs[i]] = "ok")
  ~> (outcome[Gather] # "pending" \/ \E i \in Index : Raised(Inputs[i]))

\* No rejection is swallowed: somebody subscribes, or it is reported.
NoSilentFailure ==
  \A p \in Prom : outcome[p] = "err" ~> (hadSub[p] \/ p \in reported)

\* Both together: nobody who waits on a promise that settled waits for ever.
WaitersServed == SubscriberServed /\ GatherSettles

\* make_state() implements the one-shot cell.
Cells == INSTANCE OneShot WITH
  Cell <- Prom, Reader <- Sub, Value <- {"ok", "err"},
  val <- outcome, at <- of, got <- seen
IsOneShot == Cells!OneShotSpec
=============================================================================
