--------------------------- MODULE ScriptsProofs ----------------------------
(***************************************************************************)
(* Proofs about what scripts are run with: App for any inputs and any      *)
(* number of reloads, Service for any requests, ticks and timeout, Promise *)
(* for any promises, callbacks and lists given to gather().                *)
(***************************************************************************)
EXTENDS App, Service, Promise, FiniteSetTheorems, TLAPS

-----------------------------------------------------------------------------
(* App                                                                     *)

\* The process starts with one AppState and no reload under way.
LEMMA AppInitInv == AppInit => AppInv
<1> SUFFICES ASSUME AppInit PROVE AppInv
  OBVIOUS
<1>1. /\ ~release /\ ~exited
      /\ reloading \in BOOLEAN /\ release \in BOOLEAN /\ exited \in BOOLEAN
      /\ over \in BOOLEAN /\ wanted \in BOOLEAN /\ failed \in BOOLEAN
  BY Zenon DEF AppInit
<1>2. AppTypeOK
  BY AppAssumption, <1>1 DEF AppInit, AppTypeOK
<1>3. OneReload /\ ExitHasReason /\ ReloadConsistent
  BY <1>1 DEF AppInit, OneReload, ExitHasReason, ReloadConsistent
<1> QED BY <1>2, <1>3 DEF AppInv

\* Every input and every event of main.cpp keeps the invariant.
LEMMA AppNextInv == AppInv /\ [AppNext]_appVars => AppInv'
<1> SUFFICES ASSUME AppInv, [AppNext]_appVars PROVE AppInv'
  OBVIOUS
<1> USE AppAssumption DEF AppInv, AppTypeOK, OneReload, ExitHasReason, ReloadConsistent
<1>1. CASE Signal
  BY <1>1 DEF Signal, Alive, ShutdownInstance
<1>2. CASE ScriptExit
  BY <1>2 DEF ScriptExit, Alive
<1>3. CASE ExitDispatch
  BY <1>3 DEF ExitDispatch, Alive, ShutdownInstance
<1>4. CASE ScriptReload
  BY <1>4 DEF ScriptReload, Alive
<1>5. ASSUME TryReload, Alive, queued' \subseteq queued,
             UNCHANGED <<release, exited, over, builds, wanted, failed>>
      PROVE  AppInv'
  <2>1. CASE UNCHANGED <<app, hooks, reloading>>
    BY <1>5, <2>1
  <2>2. CASE /\ ~reloading
             /\ builds < MaxBuilds
             /\ reloading' = TRUE
             /\ hooks' = hooks + 1
             /\ ShutdownInstance
    <3>1. hooks = 0 /\ ~release
      BY <2>2
    <3>2. app' \in {"closing", "done"}
      BY <1>5, <2>2 DEF Alive, ShutdownInstance
    <3> QED BY <1>5, <2>2, <3>1, <3>2
  <2> QED BY <1>5, <2>1, <2>2 DEF TryReload
<1>6. CASE ReloadDispatch
  BY <1>5, <1>6 DEF ReloadDispatch
<1>7. CASE FileChange
  BY <1>5, <1>7 DEF FileChange
<1>8. CASE ShutdownDone
  BY <1>8 DEF ShutdownDone, Alive
<1>9. CASE Destroyed
  <2>1. CASE hooks = 0
    BY <1>9, <2>1 DEF Destroyed, Alive
  <2>2. CASE hooks # 0
    <3>1. hooks = 1 /\ reloading /\ builds < MaxBuilds
      BY <2>2
    <3>2. release' \in BOOLEAN
      BY <1>9, <2>2, Zenon DEF Destroyed
    <3>3. CASE app' = "up" /\ builds' = builds + hooks /\ UNCHANGED <<exited, failed>>
      BY <1>9, <3>1, <3>2, <3>3 DEF Destroyed
    <3>4. CASE app' = "none" /\ exited' = TRUE /\ failed' = TRUE /\ UNCHANGED builds
      <4>1. exited' \in BOOLEAN /\ failed' \in BOOLEAN /\ failed'
        BY <3>4, Zenon
      <4> QED BY <1>9, <3>1, <3>2, <3>4, <4>1 DEF Destroyed
    <3> QED BY <1>9, <2>2, <3>3, <3>4 DEF Destroyed
  <2> QED BY <2>1, <2>2
<1>10. CASE Release
  <2>1. ~release' /\ release' \in BOOLEAN /\ reloading' \in BOOLEAN
    BY <1>10, Zenon DEF Release
  <2>2. hooks = 0
    BY <1>10 DEF Release
  <2> QED BY <1>10, <2>1, <2>2 DEF Release
<1>11. CASE MainReturn
  BY <1>11 DEF MainReturn
<1>12. CASE UNCHANGED appVars
  BY <1>12 DEF appVars
<1> QED
  BY <1>1, <1>2, <1>3, <1>4, <1>6, <1>7, <1>8, <1>9, <1>10, <1>11, <1>12 DEF AppNext

\* AppInv holds throughout.
THEOREM AppInvariant == AppSpec => []AppInv
BY AppInitInv, AppNextInv, PTL DEF AppSpec

\* g_reloading guards the reload: a rebuild is hooked to at most one destroyed()
\* at a time, and always with the guard held.
THEOREM AppOneReload == AppSpec => []OneReload
<1>1. AppInv => OneReload BY DEF AppInv
<1> QED BY <1>1, AppInvariant, PTL

\* qApp->exit() is called only for a requested exit or a failed rebuild, never
\* by a reload that goes well.
THEOREM AppExitHasReason == AppSpec => []ExitHasReason
<1>1. AppInv => ExitHasReason BY DEF AppInv
<1> QED BY <1>1, AppInvariant, PTL

-----------------------------------------------------------------------------
(* Service                                                                 *)

\* A request is answered when it waits and, for a timeout, when it has seen all
\* its ticks: the one step that all of ServiceInv depends on.
LEMMA AnswerInv ==
  ASSUME ServiceInv, NEW r \in Req, r \in reqs, NEW how \in {"response", "timeout"},
         how = "timeout" => age[r] = Timeout,
         Answer(r, how), UNCHANGED <<sent, timeout, age>>,
         toRemove' \in [Tick -> SUBSET Req],
         \A t \in Tick : toRemove'[t] \subseteq toRemove[t]
  PROVE  ServiceInv'
<1> USE ServiceAssumption
<1>1. answers[r] = 0 /\ r \in sent
  BY DEF ServiceInv, ServiceTypeOK, WaitingUnanswered
<1>2. ServiceTypeOK'
  BY <1>1 DEF ServiceInv, ServiceTypeOK, Answer
<1>3. AnsweredOnce'
  BY <1>1 DEF ServiceInv, ServiceTypeOK, AnsweredOnce, Answer
<1>4. WaitingUnanswered'
  BY <1>1 DEF ServiceInv, ServiceTypeOK, WaitingUnanswered, Answer
<1>5. NoEarlyTimeout'
  BY <1>1 DEF ServiceInv, ServiceTypeOK, NoEarlyTimeout, Answer
<1>6. Countdown'
  BY <1>1 DEF ServiceInv, ServiceTypeOK, Countdown, Answer
<1> QED BY <1>2, <1>3, <1>4, <1>5, <1>6 DEF ServiceInv

\* make_service() starts with no request.
LEMMA ServiceInitInv == ServiceInit => ServiceInv
BY ServiceAssumption DEF ServiceInit, ServiceInv, ServiceTypeOK, AnsweredOnce,
   WaitingUnanswered, NoEarlyTimeout, Countdown

\* Requests, responses, ticks and the answers of a tick keep the invariant.
LEMMA ServiceNextInv == ServiceInv /\ [ServiceNext]_serviceVars => ServiceInv'
<1> SUFFICES ASSUME ServiceInv, [ServiceNext]_serviceVars PROVE ServiceInv'
  OBVIOUS
<1> USE ServiceAssumption
<1>1. ASSUME NEW r \in Req, Request(r) PROVE ServiceInv'
  <2>1. answers[r] = 0 /\ age[r] = 0 /\ answer[r] = "none" /\ r \notin reqs
    BY <1>1 DEF Request, ServiceInv, ServiceTypeOK, Countdown
  <2>2. ServiceTypeOK'
    BY <1>1 DEF Request, ServiceInv, ServiceTypeOK
  <2>3. AnsweredOnce' /\ WaitingUnanswered' /\ NoEarlyTimeout'
    BY <1>1, <2>1 DEF Request, ServiceInv, AnsweredOnce, WaitingUnanswered, NoEarlyTimeout
  <2>4. Countdown'
    BY <1>1, <2>1 DEF Request, ServiceInv, ServiceTypeOK, Countdown
  <2> QED BY <2>2, <2>3, <2>4 DEF ServiceInv
<1>2. ASSUME NEW r \in Req, Response(r) PROVE ServiceInv'
  BY <1>2, AnswerInv DEF Response, ServiceInv, ServiceTypeOK
<1>3. ASSUME NEW t \in Tick, TimerTick(t) PROVE ServiceInv'
  <2>1. ServiceTypeOK'
    BY <1>3 DEF TimerTick, ServiceInv, ServiceTypeOK, Countdown
  <2>2. AnsweredOnce' /\ WaitingUnanswered'
    BY <1>3 DEF TimerTick, ServiceInv, AnsweredOnce, WaitingUnanswered
  <2>3. NoEarlyTimeout'
    BY <1>3 DEF TimerTick, ServiceInv, ServiceTypeOK, NoEarlyTimeout
  <2>4. Countdown'
    <3>1. \A r \in reqs' : timeout'[r] > 0
      BY <1>3 DEF TimerTick, ServiceInv, ServiceTypeOK, Countdown
    <3>2. \A r \in reqs' : \/ timeout'[r] + age'[r] = Timeout
                           \/ timeout'[r] = 1 /\ age'[r] = Timeout
      BY <1>3 DEF TimerTick, ServiceInv, ServiceTypeOK, Countdown
    <3>3. \A u \in Tick : \A r \in toRemove'[u] : r \in sent' /\ age'[r] = Timeout
      BY <1>3 DEF TimerTick, ServiceInv, ServiceTypeOK, Countdown
    <3>4. \A r \in Req \ sent' : answers'[r] = 0 /\ age'[r] = 0 /\ answer'[r] = "none"
      BY <1>3 DEF TimerTick, ServiceInv, ServiceTypeOK, Countdown
    <3> QED BY <3>1, <3>2, <3>3, <3>4 DEF Countdown
  <2> QED BY <2>1, <2>2, <2>3, <2>4 DEF ServiceInv
<1>4. ASSUME NEW t \in Tick, NEW r \in Req, Expire(t, r) PROVE ServiceInv'
  <2>1. /\ toRemove' \in [Tick -> SUBSET Req]
        /\ \A u \in Tick : toRemove'[u] \subseteq toRemove[u]
    BY <1>4 DEF Expire, ServiceInv, ServiceTypeOK
  <2>2. CASE r \in reqs
    <3>1. age[r] = Timeout
      BY <1>4 DEF Expire, ServiceInv, Countdown
    <3> QED BY <1>4, <2>1, <2>2, <3>1, AnswerInv DEF Expire
  <2>3. CASE r \notin reqs
    BY <1>4, <2>1, <2>3
    DEF Expire, ServiceInv, ServiceTypeOK, AnsweredOnce, WaitingUnanswered, NoEarlyTimeout, Countdown
  <2> QED BY <2>2, <2>3
<1>5. CASE UNCHANGED serviceVars
  BY <1>5 DEF serviceVars, ServiceInv, ServiceTypeOK, AnsweredOnce, WaitingUnanswered,
     NoEarlyTimeout, Countdown
<1> QED BY <1>1, <1>2, <1>3, <1>4, <1>5 DEF ServiceNext

\* ServiceInv holds throughout.
THEOREM ServiceInvariant == ServiceSpec => []ServiceInv
BY ServiceInitInv, ServiceNextInv, PTL DEF ServiceSpec

\* No late or repeated response and no overlapping tick calls a callback of
\* make_service() twice.
THEOREM ServiceAnsweredOnce == ServiceSpec => []AnsweredOnce
<1>1. ServiceInv => AnsweredOnce BY DEF ServiceInv
<1> QED BY <1>1, ServiceInvariant, PTL

\* reqs is exactly the set of requests that were made and not answered.
THEOREM ServiceWaitingUnanswered == ServiceSpec => []WaitingUnanswered
<1>1. ServiceInv => WaitingUnanswered BY DEF ServiceInv
<1> QED BY <1>1, ServiceInvariant, PTL

\* A request only times out after the number of ticks its timeout stands for.
THEOREM ServiceNoEarlyTimeout == ServiceSpec => []NoEarlyTimeout
<1>1. ServiceInv => NoEarlyTimeout BY DEF ServiceInv
<1> QED BY <1>1, ServiceInvariant, PTL

-----------------------------------------------------------------------------
(* Promise                                                                 *)

\* Counting the results gather() has: a set of indices as large as the list is
\* all of them, and another index makes it larger by one.
LEMMA ResultCount ==
  ASSUME NEW R \in SUBSET Index
  PROVE  /\ Cardinality(R) \in Nat
         /\ Cardinality(R) = Len(Inputs) => R = Index
         /\ \A i \in Index \ R : Cardinality(R \union {i}) = Cardinality(R) + 1
<1>1. Len(Inputs) \in Nat
  BY PromiseAssumption
<1>2. IsFiniteSet(Index) /\ Cardinality(Index) = Len(Inputs)
  BY <1>1, FS_Interval DEF Index
<1>3. IsFiniteSet(R)
  BY <1>2, FS_Subset
<1>4. Cardinality(R) \in Nat
  BY <1>3, FS_CardinalityType
<1>5. Cardinality(R) = Len(Inputs) => R = Index
  BY <1>2, FS_Subset
<1>6. \A i \in Index \ R : Cardinality(R \union {i}) = Cardinality(R) + 1
  BY <1>3, FS_AddElement
<1> QED BY <1>4, <1>5, <1>6

\* Callbacks and indices are told apart, and the inputs are promises.
LEMMA Apart ==
  /\ Sub \intersect Index = {}
  /\ Index \subseteq Nat
  /\ Gather \in Prom
  /\ "nowhere" \notin Prom
  /\ \A i \in Index : Inputs[i] \in Prom /\ Inputs[i] # Gather
BY PromiseAssumption DEF Index

\* Nothing has happened yet.
LEMMA PromiseInitInv == PromiseInit => PromiseInv
<1> SUFFICES ASSUME PromiseInit PROVE PromiseInv
  OBVIOUS
<1> USE Apart
<1>1. gathered = FALSE
  BY DEF PromiseInit
<1>2. hadSub \in [Prom -> BOOLEAN] /\ gathered \in BOOLEAN
  BY <1>1, Zenon DEF PromiseInit
<1>3. subs \in [Prom -> Seq(Sub \union Index)] /\ \A p \in Prom : cursor[p] <= Len(subs[p])
  BY DEF PromiseInit
<1>4. PromiseTypeOK
  BY <1>2, <1>3 DEF PromiseInit, PromiseTypeOK
<1>5. CalledOnce /\ GatherSound /\ ListsSound /\ LoopSound
  BY <1>1 DEF PromiseInit, CalledOnce, GatherSound, ListsSound, LoopSound, ToCome
<1> QED BY <1>4, <1>5 DEF PromiseInv

\* Whoever was called subscribed to a promise that had been settled, and has its
\* outcome.
LEMMA CalledSettled ==
  ASSUME PromiseInv, NEW s \in Sub, calls[s] > 0
  PROVE  of[s] \in Prom /\ seen[s] = outcome[of[s]] /\ outcome[of[s]] # "pending"
<1>1. of[s] \in Prom /\ seen[s] = outcome[of[s]]
  BY DEF PromiseInv, LoopSound
<1>2. seen[s] \in {"nothing", "ok", "err"}
  BY DEF PromiseInv, PromiseTypeOK
<1> QED BY <1>1, <1>2

\* subscribe(cb): a callback that subscribes for the first time is in no list.
LEMMA SubscribeInv ==
  ASSUME PromiseInv, NEW s \in Sub, NEW p \in Prom, Subscribe(s, p)
  PROVE  PromiseInv'
<1> USE Apart DEF PromiseInv
<1>1. /\ of' = [of EXCEPT ![s] = p] /\ of[s] = "nowhere"
      /\ UNCHANGED <<outcome, cursor, check, reported, gathered, left, results, under>>
      /\ hadSub' = [hadSub EXCEPT ![p] = TRUE]
  BY DEF Subscribe, gatherVars
<1>2. \A q \in Prom : \A k \in 1..Len(subs[q]) : subs[q][k] # s
  BY <1>1 DEF PromiseTypeOK, ListsSound
<1>3. calls[s] = 0 /\ seen[s] = "nothing"
  BY <1>1 DEF LoopSound
<1>4. CASE outcome[p] # "pending"
  <2>1. /\ seen' = [seen EXCEPT ![s] = outcome[p]]
        /\ calls' = [calls EXCEPT ![s] = @ + 1]
        /\ subs' = subs
    BY <1>4 DEF Subscribe
  <2>2. PromiseTypeOK'
    BY <1>1, <1>4, <2>1, SMTT(30) DEF PromiseTypeOK
  <2>3. CalledOnce'
    BY <1>3, <2>1 DEF PromiseTypeOK, CalledOnce
  <2>4. GatherSound'
    BY <1>1 DEF GatherSound
  <2>5. ListsSound'
    BY <1>1, <1>2, <2>1 DEF ListsSound, PromiseTypeOK
  <2>6. LoopSound'
    BY <1>1, <1>2, <1>3, <1>4, <2>1 DEF LoopSound, PromiseTypeOK, ToCome
  <2> QED BY <2>2, <2>3, <2>4, <2>5, <2>6
<1>5. CASE outcome[p] = "pending"
  <2>1. /\ subs' = [subs EXCEPT ![p] = Append(@, s)]
        /\ UNCHANGED <<seen, calls>>
    BY <1>5 DEF Subscribe
  <2>2. subs'[p] = Append(subs[p], s) /\ \A q \in Prom \ {p} : subs'[q] = subs[q]
    BY <2>1 DEF PromiseTypeOK
  <2>3. /\ Len(subs'[p]) = Len(subs[p]) + 1
        /\ subs'[p][Len(subs[p]) + 1] = s
        /\ \A k \in 1..Len(subs[p]) : subs'[p][k] = subs[p][k]
        /\ Len(subs[p]) \in Nat
    BY <2>2 DEF PromiseTypeOK
  <2>4. PromiseTypeOK'
    BY <1>1, <2>1, <2>2, <2>3 DEF PromiseTypeOK
  <2>5. CalledOnce' /\ GatherSound'
    BY <1>1, <2>1 DEF CalledOnce, GatherSound
  <2>6. ListsSound'
    <3> SUFFICES ASSUME NEW q \in Prom
                 PROVE  /\ \A k \in 1..Len(subs'[q]) :
                             /\ subs'[q][k] \in Sub => of'[subs'[q][k]] = q
                             /\ subs'[q][k] \in Index => gathered' /\ Inputs[subs'[q][k]] = q
                        /\ \A j, k \in 1..Len(subs'[q]) : subs'[q][j] = subs'[q][k] => j = k
      BY DEF ListsSound
    <3>1. /\ \A k \in 1..Len(subs[q]) :
               /\ subs[q][k] \in Sub => of'[subs[q][k]] = q
               /\ subs[q][k] \in Index => gathered' /\ Inputs[subs[q][k]] = q
          /\ \A j, k \in 1..Len(subs[q]) : subs[q][j] = subs[q][k] => j = k
      BY <1>1, <1>2 DEF ListsSound, PromiseTypeOK
    <3>2. CASE q # p
      BY <2>2, <3>1, <3>2
    <3>3. CASE q = p
      <4>1. of'[s] = p
        BY <1>1 DEF PromiseTypeOK
      <4>2. \A k \in 1..Len(subs'[p]) : k \in 1..Len(subs[p]) \/ k = Len(subs[p]) + 1
        BY <2>3
      <4>3. \A k \in 1..Len(subs'[p]) :
              /\ subs'[p][k] \in Sub => of'[subs'[p][k]] = p
              /\ subs'[p][k] \in Index => gathered' /\ Inputs[subs'[p][k]] = p
        BY <2>3, <3>1, <3>3, <4>1, <4>2
      <4>4. ASSUME NEW j \in 1..Len(subs'[p]), NEW k \in 1..Len(subs'[p]),
                   subs'[p][j] = subs'[p][k]
            PROVE  j = k
        <5>1. CASE j \in 1..Len(subs[p]) /\ k \in 1..Len(subs[p])
          BY <2>3, <3>1, <3>3, <4>4, <5>1
        <5>2. CASE j = Len(subs[p]) + 1 \/ k = Len(subs[p]) + 1
          BY <1>2, <2>3, <4>2, <4>4, <5>2
        <5> QED BY <4>2, <5>1, <5>2
      <4> QED BY <3>3, <4>3, <4>4
    <3> QED BY <3>2, <3>3
  <2>7. LoopSound'
    BY <1>1, <1>2, <1>3, <1>5, <2>1, <2>2, <2>3 DEF LoopSound, PromiseTypeOK, ToCome
  <2> QED BY <2>4, <2>5, <2>6, <2>7
<1> QED BY <1>4, <1>5

\* done() up to its loop, for a promise that is no gather(): before it settled
\* every subscriber was still to come, afterwards the loop has all before it.
LEMMA DoneInv ==
  ASSUME PromiseInv, NEW p \in Prom, NEW o \in {"ok", "err"}, Done(p, o)
  PROVE  PromiseInv'
<1> USE Apart DEF PromiseInv
<1>1. /\ p # Gather /\ outcome[p] = "pending"
      /\ outcome' = [outcome EXCEPT ![p] = o]
      /\ check' \in {check, check \union {p}}
      /\ cursor' = [cursor EXCEPT ![p] = IF subs[p] = <<>> THEN 0 ELSE 1]
      /\ UNCHANGED <<subs, hadSub, reported, of, seen, calls, gathered, left, results, under>>
  BY DEF Done, Settle, gatherVars
<1>2. cursor'[p] \in {0, 1} /\ (cursor'[p] = 1 => Len(subs[p]) >= 1)
  BY <1>1 DEF PromiseTypeOK
<1>3. PromiseTypeOK'
  BY <1>1, <1>2 DEF PromiseTypeOK
<1>4. CalledOnce' /\ ListsSound'
  BY <1>1 DEF CalledOnce, ListsSound
<1>5. GatherSound'
  BY <1>1 DEF GatherSound, PromiseTypeOK
<1>6. \A q \in Prom, k \in Nat : k >= 1 /\ ToCome(q, k)' => ToCome(q, k)
  BY <1>1, <1>2 DEF PromiseTypeOK, ToCome
<1>7. \A q \in Prom : outcome'[q] = "pending" => cursor'[q] = 0
  BY <1>1 DEF PromiseTypeOK, LoopSound
<1>8. ASSUME NEW s \in Sub, calls[s] > 0
      PROVE  of[s] \in Prom /\ seen[s] = outcome'[of[s]]
  BY <1>1, <1>8, CalledSettled DEF PromiseTypeOK
<1>9. \A i \in results : outcome'[Inputs[i]] = "ok"
  BY <1>1 DEF PromiseTypeOK, LoopSound
<1>10. ~gathered => results = {} /\ outcome'[Gather] = "pending"
  BY <1>1 DEF PromiseTypeOK, LoopSound
<1>11. \A q \in Prom : \A k \in 1..Len(subs[q]) :
         ToCome(q, k)' => /\ subs[q][k] \in Sub => calls[subs[q][k]] = 0
                          /\ subs[q][k] \in Index => subs[q][k] \notin results
  BY <1>6 DEF PromiseTypeOK, LoopSound
<1>12. LoopSound'
  BY <1>1, <1>7, <1>8, <1>9, <1>10, <1>11 DEF LoopSound
<1> QED BY <1>3, <1>4, <1>5, <1>12


\* The loop of done() calls a script's callback: it was still to come, and is in
\* no other place of any list.
LEMMA CallSubInv ==
  ASSUME PromiseInv, NEW p \in Prom, CallSub(p)
  PROVE  PromiseInv'
<1> USE Apart DEF PromiseInv
<1> DEFINE s == subs[p][cursor[p]]
<1>1. /\ cursor[p] \in 1..Len(subs[p]) /\ s \in Sub
      /\ seen' = [seen EXCEPT ![s] = outcome[p]]
      /\ calls' = [calls EXCEPT ![s] = @ + 1]
      /\ UNCHANGED <<outcome, subs, hadSub, check, reported, of, gathered, left, results, under>>
  BY DEF CallSub, Calling, PromiseTypeOK, gatherVars
<1>2. /\ cursor' \in [Prom -> Nat]
      /\ cursor'[p] \in {0, cursor[p] + 1}
      /\ cursor'[p] <= Len(subs[p])
      /\ \A q \in Prom \ {p} : cursor'[q] \in {0, cursor[q]}
  BY <1>1 DEF CallSub, Advance, PromiseTypeOK
<1>3. outcome[p] # "pending" /\ ToCome(p, cursor[p])
  BY <1>1 DEF LoopSound, ToCome, PromiseTypeOK
<1>4. of[s] = p /\ calls[s] = 0
  BY <1>1, <1>3 DEF ListsSound, LoopSound
<1>5. \A q \in Prom : \A k \in 1..Len(subs[q]) : subs[q][k] = s => q = p /\ k = cursor[p]
  BY <1>1, <1>4 DEF ListsSound
<1> HIDE DEF s
<1>6. PromiseTypeOK'
  <2>1. outcome[p] \in {"ok", "err"}
    BY <1>3 DEF PromiseTypeOK
  <2>2. seen' \in [Sub -> {"nothing", "ok", "err"}] /\ calls' \in [Sub -> Nat]
    BY <1>1, <2>1 DEF PromiseTypeOK
  <2>3. ASSUME NEW q \in Prom PROVE cursor'[q] <= Len(subs[q])
    <3>1. Len(subs[q]) \in Nat /\ cursor[q] <= Len(subs[q])
      BY DEF PromiseTypeOK
    <3> QED BY <1>2, <3>1
  <2> QED BY <1>1, <1>2, <2>2, <2>3 DEF PromiseTypeOK
<1>7. CalledOnce'
  BY <1>1, <1>4 DEF CalledOnce, PromiseTypeOK
<1>8. GatherSound' /\ ListsSound'
  BY <1>1 DEF GatherSound, ListsSound
<1>9. ASSUME NEW q \in Prom, NEW k \in Nat, ToCome(q, k)'
      PROVE  ToCome(q, k) /\ ~(q = p /\ k = cursor[p])
  <2>1. cursor[q] \in Nat /\ cursor'[q] \in Nat /\ outcome'[q] = outcome[q]
    BY <1>1, <1>2 DEF PromiseTypeOK
  <2>2. CASE q = p
    BY <1>2, <1>3, <1>9, <2>1, <2>2 DEF ToCome
  <2>3. CASE q # p
    BY <1>2, <1>9, <2>1, <2>3 DEF ToCome
  <2> QED BY <2>2, <2>3
<1>10. \A q \in Prom : \A k \in 1..Len(subs[q]) :
         ToCome(q, k)' => /\ subs[q][k] \in Sub => calls'[subs[q][k]] = 0
                          /\ subs[q][k] \in Index => subs[q][k] \notin results
  BY <1>1, <1>5, <1>9 DEF PromiseTypeOK, LoopSound
<1>11. \A q \in Prom : outcome[q] = "pending" => cursor'[q] = 0
  BY <1>2, <1>3 DEF LoopSound
<1>12. LoopSound'
  BY <1>1, <1>3, <1>4, <1>10, <1>11 DEF LoopSound, PromiseTypeOK
<1> QED BY <1>6, <1>7, <1>8, <1>12

\* after(0) changes nothing that anybody waits for.
LEMMA ReportInv ==
  ASSUME PromiseInv, NEW p \in Prom, Report(p)
  PROVE  PromiseInv'
<1>1. /\ UNCHANGED <<outcome, subs, hadSub, cursor, of, seen, calls, gathered, left, results, under>>
      /\ check' \subseteq Prom /\ reported' \subseteq Prom
  BY DEF Report, gatherVars, PromiseInv, PromiseTypeOK
<1>2. PromiseTypeOK'
  BY <1>1 DEF PromiseInv, PromiseTypeOK
<1> QED
  BY <1>1, <1>2 DEF PromiseInv, CalledOnce, GatherSound, ListsSound, LoopSound, ToCome

\* The loop of done() calls gather's callback: its index has no result yet, and
\* the last missing result makes all of them.
LEMMA GatherStepInv ==
  ASSUME PromiseInv, NEW p \in Prom, GatherStep(p)
  PROVE  PromiseInv'
<1> USE Apart DEF PromiseInv
<1> DEFINE i == subs[p][cursor[p]]
           ok == outcome[p] = "ok"
<1>1. /\ cursor[p] \in 1..Len(subs[p]) /\ i \in Index
      /\ left' = IF ok THEN left - 1 ELSE left
      /\ results' = IF ok THEN results \union {i} ELSE results
      /\ UNCHANGED <<subs, hadSub, reported, of, seen, calls, gathered>>
  BY DEF GatherStep, Calling, PromiseTypeOK
<1>2. outcome[p] \in {"ok", "err"} /\ ToCome(p, cursor[p])
  BY <1>1 DEF LoopSound, ToCome, PromiseTypeOK
<1>3. Inputs[i] = p /\ gathered /\ i \notin results /\ p # Gather
  <2>1. Inputs[i] = p /\ gathered
    BY <1>1 DEF ListsSound
  <2>2. i \notin results
    BY <1>1, <1>2 DEF LoopSound
  <2> QED BY <1>1, <2>1, <2>2
<1>4. \A q \in Prom : \A k \in 1..Len(subs[q]) : subs[q][k] = i => q = p /\ k = cursor[p]
  BY <1>1, <1>3 DEF ListsSound
<1>5. Advance(p) \in {0, cursor[p] + 1} /\ Advance(p) <= Len(subs[p]) /\ Advance(p) \in Nat
  BY <1>1 DEF Advance, PromiseTypeOK
<1>6. \/ /\ outcome[Gather] = "pending"
         /\ ok => left = 1
         /\ outcome' = [outcome EXCEPT ![Gather] = outcome[p]]
         /\ check' \in {check, check \union {Gather}}
         /\ under' = p
         /\ cursor' = [cursor EXCEPT ![p] = Advance(p),
                                     ![Gather] = IF subs[Gather] = <<>> THEN 0 ELSE 1]
      \/ /\ cursor' = [cursor EXCEPT ![p] = Advance(p)]
         /\ UNCHANGED <<outcome, check, under>>
  BY DEF GatherStep, Settle
<1> HIDE DEF i, ok
<1>7. /\ outcome' \in [Prom -> {"pending", "ok", "err"}]
      /\ \A q \in Prom \ {Gather} : outcome'[q] = outcome[q]
      /\ outcome'[Gather] # outcome[Gather] =>
           /\ outcome[Gather] = "pending" /\ outcome'[Gather] = outcome[p]
           /\ ok => left = 1
      /\ check' \subseteq Prom /\ under' \in Prom \union {"nowhere"}
  BY <1>2, <1>6, ZenonT(60) DEF PromiseTypeOK
<1>8. /\ cursor' \in [Prom -> Nat]
      /\ cursor'[p] \in {0, cursor[p] + 1}
      /\ \A q \in Prom : cursor'[q] <= Len(subs[q])
      /\ \A q \in Prom \ {p, Gather} : cursor'[q] = cursor[q]
      /\ \/ cursor'[Gather] = cursor[Gather] /\ outcome'[Gather] = outcome[Gather]
         \/ cursor'[Gather] \in {0, 1} /\ outcome[Gather] = "pending" /\ outcome'[Gather] # "pending"
  <2>1. CASE cursor' = [cursor EXCEPT ![p] = Advance(p)] /\ UNCHANGED outcome
    BY <1>3, <1>5, <2>1 DEF PromiseTypeOK
  <2>2. CASE /\ cursor' = [cursor EXCEPT ![p] = Advance(p),
                                        ![Gather] = IF subs[Gather] = <<>> THEN 0 ELSE 1]
             /\ outcome[Gather] = "pending"
             /\ outcome' = [outcome EXCEPT ![Gather] = outcome[p]]
    <3>1. /\ cursor' \in [Prom -> Nat]
          /\ cursor'[p] = Advance(p)
          /\ \A q \in Prom \ {p, Gather} : cursor'[q] = cursor[q]
          /\ cursor'[Gather] = IF subs[Gather] = <<>> THEN 0 ELSE 1
      BY <1>3, <1>5, <2>2 DEF PromiseTypeOK
    <3>2. cursor'[Gather] \in {0, 1} /\ cursor'[Gather] <= Len(subs[Gather])
      BY <3>1 DEF PromiseTypeOK
    <3>3. outcome'[Gather] = outcome[p]
      BY <2>2 DEF PromiseTypeOK
    <3> QED BY <1>2, <1>5, <2>2, <3>1, <3>2, <3>3, ZenonT(60) DEF PromiseTypeOK
  <2> QED BY <1>6, <2>1, <2>2
<1>9. PromiseTypeOK'
  BY <1>1, <1>7, <1>8, SMTT(30) DEF PromiseTypeOK
<1>10. CalledOnce' /\ ListsSound'
  BY <1>1 DEF CalledOnce, ListsSound
<1>11. \A q \in Prom, k \in Nat :
         k >= 1 /\ ToCome(q, k)' => ToCome(q, k) /\ ~(q = p /\ k = cursor[p])
  BY <1>1, <1>2, <1>3, <1>7, <1>8 DEF PromiseTypeOK, ToCome
<1>12. \A q \in Prom : \A k \in 1..Len(subs[q]) :
         ToCome(q, k)' => /\ subs[q][k] \in Sub => calls[subs[q][k]] = 0
                          /\ subs[q][k] \in Index => subs[q][k] \notin results'
  BY <1>1, <1>4, <1>11 DEF PromiseTypeOK, LoopSound
<1>13. ASSUME NEW q \in Prom, outcome'[q] = "pending" PROVE cursor'[q] = 0
  <2>1. q # p
    BY <1>2, <1>3, <1>7, <1>13
  <2>2. outcome[q] = "pending"
    BY <1>2, <1>7, <1>13
  <2>3. cursor[q] = 0
    BY <2>2 DEF LoopSound
  <2>4. CASE q = Gather
    BY <1>8, <1>13, <2>3, <2>4
  <2> QED BY <1>8, <2>1, <2>3, <2>4
<1>14. ASSUME NEW s \in Sub, calls[s] > 0
       PROVE  of[s] \in Prom /\ seen[s] = outcome'[of[s]]
  BY <1>7, <1>14, CalledSettled DEF PromiseTypeOK
<1>15. \A j \in results' : outcome'[Inputs[j]] = "ok"
  BY <1>1, <1>3, <1>7 DEF LoopSound, PromiseTypeOK, ok
<1>16. LoopSound'
  BY <1>1, <1>3, <1>12, <1>13, <1>14, <1>15 DEF LoopSound
<1>17. left' + Cardinality(results') = Len(Inputs) /\ gathered'
  <2>1. left + Cardinality(results) = Len(Inputs) /\ gathered' /\ left \in Int
    BY <1>1, <1>3 DEF GatherSound, PromiseTypeOK
  <2>2. /\ Cardinality(results) \in Nat
        /\ Cardinality(results \union {i}) = Cardinality(results) + 1
    BY <1>1, <1>3, ResultCount DEF PromiseTypeOK
  <2>3. CASE ok
    BY <1>1, <2>1, <2>2, <2>3
  <2>4. CASE ~ok
    BY <1>1, <2>1, <2>4
  <2> QED BY <2>3, <2>4
<1>18. ASSUME outcome'[Gather] = outcome[Gather] PROVE GatherSound'
  <2>1. outcome[Gather] # "ok"
    BY <1>1, <1>3 DEF GatherSound
  <2>2. outcome[Gather] = "err" => \E j \in Index : outcome'[Inputs[j]] = "err"
    BY <1>7 DEF GatherSound
  <2>3. outcome'[Gather] # "ok"
    BY <1>18, <2>1
  <2>4. outcome'[Gather] = "err" => \E j \in Index : outcome'[Inputs[j]] = "err"
    BY <1>18, <2>2
  <2>5. left' + Cardinality(results') = Len(Inputs)
    BY <1>17
  <2> QED BY <2>3, <2>4, <2>5 DEF GatherSound
<1>19. ASSUME outcome'[Gather] # outcome[Gather] PROVE GatherSound'
  <2>1. outcome[Gather] = "pending" /\ outcome'[Gather] = outcome[p] /\ (ok => left = 1)
    BY <1>7, <1>19
  <2>2. outcome'[Inputs[i]] = outcome[p]
    BY <1>3, <1>7
  <2>3. CASE ok
    <3>1. left' = 0
      BY <1>1, <2>1, <2>3
    <3>2. results' \in SUBSET Index /\ Cardinality(results') = Len(Inputs)
      BY <1>9, <1>17, <3>1, ResultCount, PromiseAssumption, SMTT(30) DEF PromiseTypeOK
    <3>3. results' = Index
      BY <3>2, ResultCount
    <3>4. outcome'[Gather] = "ok"
      BY <2>1, <2>3 DEF ok
    <3>5. \A j \in Index : outcome'[Inputs[j]] = "ok"
      BY <1>15, <3>3
    <3>6. left' + Cardinality(results') = Len(Inputs)
      BY <1>17
    <3> QED BY <3>3, <3>4, <3>5, <3>6 DEF GatherSound
  <2>4. CASE ~ok
    <3>1. outcome[p] = "err"
      BY <1>2, <2>4 DEF ok
    <3>2. left' + Cardinality(results') = Len(Inputs)
      BY <1>17
    <3> QED BY <1>1, <2>1, <2>2, <3>1, <3>2 DEF GatherSound
  <2> QED BY <2>3, <2>4
<1> QED BY <1>9, <1>10, <1>16, <1>18, <1>19


\* gather()'s own callbacks on a promise: each index of it, once.
LEMMA OwnShape ==
  ASSUME NEW p \in Prom, NEW own \in OwnCallbacks(p)
  PROVE  /\ own \in Seq(Index) /\ Len(own) \in Nat
         /\ \A k \in 1..Len(own) : own[k] \in Index /\ Inputs[own[k]] = p
         /\ \A j, k \in 1..Len(own) : own[j] = own[k] => j = k
<1>1. PICK n \in 0..Len(Inputs) : own \in [1..n -> Index]
  BY DEF OwnCallbacks
<1>2. n \in Nat /\ DOMAIN own = 1..n
  BY <1>1, PromiseAssumption
<1>3. own \in Seq(Index) /\ Len(own) = n
  BY <1>1, <1>2
<1>4. \A k \in 1..n : own[k] \in {i \in Index : Inputs[i] = p}
  BY <1>2 DEF OwnCallbacks
<1>5. \A j, k \in 1..n : j < k => own[j] < own[k]
  BY <1>2 DEF OwnCallbacks
<1>6. \A j, k \in 1..n : own[j] = own[k] => j = k
  <2> SUFFICES ASSUME NEW j \in 1..n, NEW k \in 1..n, own[j] = own[k], j # k
               PROVE  FALSE
    OBVIOUS
  <2>1. own[j] \in Nat /\ own[k] \in Nat
    BY <1>4, Apart
  <2>2. j < k \/ k < j
    BY <1>2
  <2> QED BY <1>5, <2>1, <2>2
<1> QED BY <1>2, <1>3, <1>4, <1>6

\* The lists gather() leaves: what was there, and on the promises that are not
\* settled its own callbacks behind it.
LEMMA GatherLists ==
  ASSUME PromiseInv, GatherCall, NEW p \in Prom
  PROVE  /\ subs'[p] \in Seq(Sub \union Index)
         /\ Len(subs'[p]) \in Nat /\ Len(subs[p]) \in Nat /\ Len(subs[p]) <= Len(subs'[p])
         /\ \A k \in 1..Len(subs[p]) : subs'[p][k] = subs[p][k] /\ subs[p][k] \in Sub
         /\ \A k \in 1..Len(subs'[p]) : k > Len(subs[p]) =>
              /\ subs'[p][k] \in Index /\ Inputs[subs'[p][k]] = p
              /\ outcome[p] = "pending"
         /\ \A j, k \in 1..Len(subs'[p]) : subs'[p][j] = subs'[p][k] => j = k
<1> USE Apart
<1>1. PICK own \in [Prom -> UNION {OwnCallbacks(q) : q \in Prom}] :
        /\ \A q \in Prom : own[q] \in OwnCallbacks(q)
        /\ subs' = [q \in Prom |-> IF outcome[q] = "pending" THEN subs[q] \o own[q] ELSE subs[q]]
  BY DEF GatherCall
<1>2. /\ subs[p] \in Seq(Sub \union Index) /\ Len(subs[p]) \in Nat
      /\ \A k \in 1..Len(subs[p]) : subs[p][k] \in Sub
      /\ \A j, k \in 1..Len(subs[p]) : subs[p][j] = subs[p][k] => j = k
  <2>1. ~gathered
    BY DEF GatherCall
  <2>2. subs[p] \in Seq(Sub \union Index)
    BY DEF PromiseInv, PromiseTypeOK
  <2>3. \A k \in 1..Len(subs[p]) : subs[p][k] \in Sub \union Index
    BY <2>2
  <2> QED BY <2>1, <2>2, <2>3 DEF PromiseInv, ListsSound
<1>3. CASE outcome[p] # "pending"
  <2>1. subs'[p] = subs[p]
    BY <1>1, <1>3
  <2> QED BY <1>2, <2>1
<1>4. CASE outcome[p] = "pending"
  <2> DEFINE new == own[p]
             old == subs[p]
  <2>1. /\ new \in Seq(Index) /\ Len(new) \in Nat
        /\ \A k \in 1..Len(new) : new[k] \in Index /\ Inputs[new[k]] = p
        /\ \A j, k \in 1..Len(new) : new[j] = new[k] => j = k
    BY <1>1, OwnShape
  <2>2. subs'[p] = old \o new
    BY <1>1, <1>4
  <2>3. old \in Seq(Sub \union Index) /\ Len(old) \in Nat
    BY <1>2
  <2> HIDE DEF new
  <2>4. /\ Len(old \o new) = Len(old) + Len(new)
        /\ \A k \in 1..Len(old) : (old \o new)[k] = old[k]
        /\ \A k \in 1..(Len(old) + Len(new)) : k > Len(old) => (old \o new)[k] = new[k - Len(old)]
        /\ old \o new \in Seq(Sub \union Index)
    BY <2>1, <2>3
  <2>5. ASSUME NEW k \in 1..Len(subs'[p]), k > Len(old)
        PROVE  /\ subs'[p][k] = new[k - Len(old)] /\ k - Len(old) \in 1..Len(new)
               /\ subs'[p][k] \in Index /\ Inputs[subs'[p][k]] = p
    <3>1. subs'[p][k] = new[k - Len(old)] /\ k - Len(old) \in 1..Len(new)
      BY <2>1, <2>2, <2>3, <2>4, <2>5
    <3> QED BY <2>1, <3>1
  <2>6. ASSUME NEW j \in 1..Len(subs'[p]), NEW k \in 1..Len(subs'[p]), subs'[p][j] = subs'[p][k]
        PROVE  j = k
    <3>1. CASE j > Len(old) /\ k > Len(old)
      <4>1. /\ new[j - Len(old)] = new[k - Len(old)]
            /\ j - Len(old) \in 1..Len(new) /\ k - Len(old) \in 1..Len(new)
        BY <2>5, <2>6, <3>1
      <4>2. j - Len(old) = k - Len(old)
        BY <2>1, <4>1
      <4>3. j \in Int /\ k \in Int
        OBVIOUS
      <4> HIDE DEF old
      <4> QED BY <2>3, <4>2, <4>3
    <3>2. CASE j <= Len(old) /\ k <= Len(old)
      BY <1>2, <2>2, <2>4, <2>6, <3>2
    <3>3. CASE j > Len(old) /\ k <= Len(old)
      BY <1>2, <2>2, <2>4, <2>5, <2>6, <3>3
    <3>4. CASE j <= Len(old) /\ k > Len(old)
      BY <1>2, <2>2, <2>4, <2>5, <2>6, <3>4
    <3> QED BY <2>3, <3>1, <3>2, <3>3, <3>4
  <2>7. Len(old) <= Len(subs'[p]) /\ Len(subs'[p]) \in Nat
    BY <2>1, <2>2, <2>3, <2>4
  <2>8. \A k \in 1..Len(old) : subs'[p][k] = old[k] /\ old[k] \in Sub
    BY <1>2, <2>2, <2>4
  <2> QED BY <1>4, <2>2, <2>3, <2>4, <2>5, <2>6, <2>7, <2>8
<1> QED BY <1>3, <1>4

\* gather(): its list begins with the results there are, and settles its promise
\* at once only with all of them or with an error.
LEMMA GatherCallInv ==
  ASSUME PromiseInv, GatherCall
  PROVE  PromiseInv'
<1> USE Apart DEF PromiseInv
<1> DEFINE ok == {i \in Index : outcome[Inputs[i]] = "ok"}
           err == {i \in Index : outcome[Inputs[i]] = "err"}
           missing == Len(Inputs) - Cardinality(ok)
<1>1. /\ ~gathered /\ gathered' = TRUE /\ results' = ok /\ left' = missing
      /\ subs' \in [Prom -> Seq(Sub \union Index)]
      /\ hadSub' \in [Prom -> BOOLEAN]
      /\ UNCHANGED <<cursor, reported, of, seen, calls, under>>
  <2>1. hadSub' \in [Prom -> BOOLEAN]
    BY Zenon DEF GatherCall
  <2>2. subs' = [p \in Prom |-> subs'[p]]
    BY DEF GatherCall
  <2>3. subs' \in [Prom -> Seq(Sub \union Index)]
    BY <2>2, GatherLists
  <2> QED BY <2>1, <2>3 DEF GatherCall
<1>2. \/ err # {} /\ Settle(Gather, "err")
      \/ err = {} /\ missing = 0 /\ Settle(Gather, "ok")
      \/ err = {} /\ missing > 0 /\ UNCHANGED <<outcome, check>>
  BY DEF GatherCall
<1>3. ok \in SUBSET Index /\ Cardinality(ok) \in Nat /\ (Cardinality(ok) = Len(Inputs) => ok = Index)
  BY ResultCount
<1>4. missing \in Int /\ missing + Cardinality(ok) = Len(Inputs) /\ (missing = 0 => ok = Index)
  BY <1>3, PromiseAssumption
<1>5. outcome[Gather] = "pending"
  BY <1>1 DEF LoopSound
<1>6. /\ \A i \in ok : outcome[Inputs[i]] = "ok" /\ i \in Index
      /\ \A i \in err : outcome[Inputs[i]] = "err" /\ i \in Index
  OBVIOUS
<1> HIDE DEF ok, err, missing
<1>7. /\ outcome' \in [Prom -> {"pending", "ok", "err"}]
      /\ \A q \in Prom \ {Gather} : outcome'[q] = outcome[q]
      /\ outcome'[Gather] = "ok" => ok = Index
      /\ outcome'[Gather] = "err" => err # {}
      /\ check' \subseteq Prom
  BY <1>2, <1>4, <1>5 DEF Settle, PromiseTypeOK
<1>8. \A i \in Index : outcome'[Inputs[i]] = outcome[Inputs[i]]
  BY <1>7
<1>9. PromiseTypeOK'
  <2>1. ASSUME NEW p \in Prom PROVE cursor'[p] <= Len(subs'[p])
    BY <1>1, GatherLists, SMTT(30) DEF PromiseTypeOK
  <2>2. gathered' \in BOOLEAN
    BY <1>1
  <2> QED BY <1>1, <1>3, <1>4, <1>7, <2>1, <2>2 DEF PromiseTypeOK
<1>10. CalledOnce'
  BY <1>1 DEF CalledOnce
<1>11. GatherSound'
  <2>1. outcome'[Gather] = "ok" => results' = Index /\ \A i \in Index : outcome'[Inputs[i]] = "ok"
    BY <1>1, <1>6, <1>7, <1>8
  <2>2. ASSUME outcome'[Gather] = "err" PROVE \E i \in Index : outcome'[Inputs[i]] = "err"
    <3>1. PICK i \in err : TRUE
      BY <1>7, <2>2
    <3> QED BY <1>6, <1>8, <3>1
  <2>3. left' + Cardinality(results') = Len(Inputs)
    BY <1>1, <1>4
  <2> QED BY <2>1, <2>2, <2>3 DEF GatherSound
<1>12. ListsSound'
  <2> SUFFICES ASSUME NEW q \in Prom
               PROVE  /\ \A k \in 1..Len(subs'[q]) :
                           /\ subs'[q][k] \in Sub => of'[subs'[q][k]] = q
                           /\ subs'[q][k] \in Index => gathered' /\ Inputs[subs'[q][k]] = q
                      /\ \A j, k \in 1..Len(subs'[q]) : subs'[q][j] = subs'[q][k] => j = k
    BY DEF ListsSound
  <2>1. ASSUME NEW k \in 1..Len(subs'[q])
        PROVE  /\ subs'[q][k] \in Sub => of'[subs'[q][k]] = q
               /\ subs'[q][k] \in Index => gathered' /\ Inputs[subs'[q][k]] = q
    <3>1. CASE k > Len(subs[q])
      BY <1>1, <3>1, GatherLists
    <3>2. CASE k \in 1..Len(subs[q])
      <4>1. subs'[q][k] = subs[q][k] /\ subs[q][k] \in Sub
        BY <3>2, GatherLists
      <4>2. of[subs[q][k]] = q
        BY <3>2, <4>1 DEF ListsSound
      <4> QED BY <1>1, <4>1, <4>2
    <3> QED BY <3>1, <3>2, GatherLists
  <2> QED BY <2>1, GatherLists
<1>13. LoopSound'
  <2>1. ASSUME NEW q \in Prom, outcome'[q] = "pending" PROVE outcome[q] = "pending" /\ cursor'[q] = 0
    BY <1>1, <1>5, <1>7, <2>1 DEF LoopSound
  <2>2. ASSUME NEW q \in Prom, NEW k \in 1..Len(subs'[q]), ToCome(q, k)'
        PROVE  /\ subs'[q][k] \in Sub => calls'[subs'[q][k]] = 0
               /\ subs'[q][k] \in Index => subs'[q][k] \notin results'
    <3>1. CASE k > Len(subs[q])
      <4>1. subs'[q][k] \in Index /\ outcome[Inputs[subs'[q][k]]] = "pending"
        BY <3>1, GatherLists
      <4> QED BY <1>1, <1>6, <4>1
    <3>2. CASE k \in 1..Len(subs[q])
      <4>1. subs'[q][k] = subs[q][k] /\ subs[q][k] \in Sub
        BY <3>2, GatherLists
      <4>2. ToCome(q, k)
        BY <1>1, <2>1, <2>2 DEF ToCome
      <4>3. calls[subs[q][k]] = 0
        BY <3>2, <4>1, <4>2 DEF LoopSound
      <4> QED BY <1>1, <4>1, <4>3
    <3> QED BY <3>1, <3>2, GatherLists
  <2>3. ASSUME NEW s \in Sub, calls[s] > 0
        PROVE  of[s] \in Prom /\ seen[s] = outcome'[of[s]]
    BY <1>5, <1>7, <2>3, CalledSettled
  <2>4. \A i \in results' : outcome'[Inputs[i]] = "ok"
    BY <1>1, <1>6, <1>8
  <2>5. \A s \in Sub : /\ of[s] = "nowhere" => calls[s] = 0
                       /\ calls[s] = 0 => seen[s] = "nothing"
    BY DEF LoopSound
  <2> QED BY <1>1, <2>1, <2>2, <2>3, <2>4, <2>5 DEF LoopSound
<1> QED BY <1>9, <1>10, <1>11, <1>12, <1>13

\* Every step of promises and gather() keeps the invariant.
LEMMA PromiseNextInv == PromiseInv /\ [PromiseNext]_promiseVars => PromiseInv'
<1> SUFFICES ASSUME PromiseInv, [PromiseNext]_promiseVars PROVE PromiseInv'
  OBVIOUS
<1>1. CASE UNCHANGED promiseVars
  BY <1>1 DEF promiseVars, PromiseInv, PromiseTypeOK, CalledOnce, GatherSound, ListsSound,
              LoopSound, ToCome
<1> QED
  BY <1>1, SubscribeInv, DoneInv, CallSubInv, GatherStepInv, ReportInv, GatherCallInv DEF PromiseNext

\* However subscribing, settling, the loops of done() and gather() interleave:
\* no callback of a promise is called twice, each is given the outcome of its
\* promise, and gather() resolves with every result in its place or rejects with
\* the error of an input (async.lua, make_state() and gather()).
THEOREM PromiseInvariant == PromiseSpec => []PromiseInv
BY PromiseInitInv, PromiseNextInv, PTL DEF PromiseSpec


-----------------------------------------------------------------------------
(* The refinement                                                          *)

\* A promise that settles is a cell that takes its value.
LEMMA SettlePuts ==
  ASSUME NEW p \in Prom, NEW o \in {"ok", "err"}, Settle(p, o), UNCHANGED <<of, seen>>
  PROVE  Cells!OneShotNext
<1>1. Cells!Put(p, o) /\ UNCHANGED seen
  BY DEF Settle, Cells!Put
<1> QED BY <1>1 DEF Cells!OneShotNext

\* A callback that subscribes joins the cell.
LEMMA SubscribeJoins ==
  ASSUME PromiseInv, NEW s \in Sub, NEW p \in Prom, Subscribe(s, p)
  PROVE  Cells!OneShotNext
<1>1. /\ of[s] = "nowhere" /\ of' = [of EXCEPT ![s] = p]
      /\ UNCHANGED outcome
  BY DEF Subscribe
<1>2. seen \in [Sub -> {"nothing", "ok", "err"}]
  BY DEF PromiseInv, PromiseTypeOK
<1>3. seen' = [seen EXCEPT ![s] = IF outcome[p] = "pending" THEN seen[s] ELSE outcome[p]]
  BY <1>2 DEF Subscribe
<1>4. Cells!Join(s, p)
  BY <1>1, <1>3 DEF Cells!Join
<1> QED BY <1>4 DEF Cells!OneShotNext

\* A callback the loop calls is given the value of its cell.
LEMMA CallGives ==
  ASSUME PromiseInv, NEW p \in Prom, CallSub(p)
  PROVE  Cells!OneShotNext
<1> DEFINE s == subs[p][cursor[p]]
<1>1. /\ cursor[p] \in 1..Len(subs[p]) /\ s \in Sub
      /\ seen' = [seen EXCEPT ![s] = outcome[p]]
      /\ UNCHANGED <<outcome, of>>
  BY DEF CallSub, Calling, PromiseInv, PromiseTypeOK
<1>2. outcome[p] # "pending" /\ ToCome(p, cursor[p])
  BY <1>1 DEF PromiseInv, LoopSound, ToCome, PromiseTypeOK
<1>3. of[s] = p /\ calls[s] = 0
  BY <1>1, <1>2 DEF PromiseInv, ListsSound, LoopSound
<1>4. seen[s] = "nothing"
  BY <1>1, <1>3 DEF PromiseInv, LoopSound
<1> HIDE DEF s
<1>5. Cells!Give(s) /\ UNCHANGED <<outcome, of>>
  BY <1>1, <1>2, <1>3, <1>4 DEF Cells!Give
<1> QED BY <1>1, <1>5 DEF Cells!OneShotNext

\* Every step of a promise is a step of its cell or changes nothing of it.
LEMMA PromiseStepMaps ==
  PromiseInv /\ [PromiseNext]_promiseVars => [Cells!OneShotNext]_Cells!oneShotVars
<1> SUFFICES ASSUME PromiseInv, [PromiseNext]_promiseVars, ~UNCHANGED <<outcome, of, seen>>
             PROVE  Cells!OneShotNext
  BY DEF Cells!oneShotVars
<1> USE Apart
<1>1. ASSUME NEW s \in Sub, NEW p \in Prom, Subscribe(s, p) PROVE Cells!OneShotNext
  BY <1>1, SubscribeJoins
<1>2. ASSUME NEW p \in Prom, NEW o \in {"ok", "err"}, Done(p, o) PROVE Cells!OneShotNext
  BY <1>2, SettlePuts DEF Done
<1>3. ASSUME NEW p \in Prom, CallSub(p) PROVE Cells!OneShotNext
  BY <1>3, CallGives
<1>4. ASSUME NEW p \in Prom, GatherStep(p) PROVE Cells!OneShotNext
  <2>1. cursor[p] > 0
    BY <1>4 DEF GatherStep, Calling
  <2>2. outcome[p] \in {"ok", "err"}
    BY <2>1 DEF PromiseInv, PromiseTypeOK, LoopSound
  <2>3. Settle(Gather, outcome[p]) /\ UNCHANGED <<of, seen>>
    BY <1>4 DEF GatherStep
  <2> QED BY <2>2, <2>3, SettlePuts
<1>5. ASSUME NEW p \in Prom, Report(p) PROVE FALSE
  BY <1>5 DEF Report
<1>6. CASE GatherCall
  <2>1. (Settle(Gather, "err") \/ Settle(Gather, "ok")) /\ UNCHANGED <<of, seen>>
    BY <1>6 DEF GatherCall
  <2> QED BY <2>1, SettlePuts
<1>7. ~UNCHANGED promiseVars
  BY DEF promiseVars
<1> QED BY <1>1, <1>2, <1>3, <1>4, <1>5, <1>6, <1>7 DEF PromiseNext

\* A promise of make_state() implements the one-shot cell: it takes one value,
\* once, and gives it to each subscriber at most once.
THEOREM PromiseIsOneShot == PromiseSpec => IsOneShot
<1>1. PromiseInit => Cells!OneShotInit
  BY DEF PromiseInit, Cells!OneShotInit
<1> QED
  BY <1>1, PromiseStepMaps, PromiseInvariant, PTL DEF PromiseSpec, IsOneShot, Cells!OneShotSpec
=============================================================================
