------------------------------ MODULE Process -------------------------------
(***************************************************************************)
(* The Process worker: a child behind a QProcess, its events, the signals  *)
(* a script sends it, and the stop that asks, waits, and kills             *)
(* (process.cpp).  While Destroy() waits, the child's end is reported from *)
(* inside waitForFinished(), and a listener may start it again.            *)
(***************************************************************************)
EXTENDS Naturals, Sequences

CONSTANT MaxStarts        \* bound: starts of the child

ASSUME ProcessAssumption == MaxStarts \in Nat

VARIABLES worker,         \* "alive", "terminating", "killing" (in Destroy()), "doomed", "gone"
          proc,           \* QProcess::state()
          killed,         \* SIGKILL is under way to the child
          events,         \* lifecycle events a script has seen
          starts,
          late            \* a child started in Destroy(), or one that outlived its kill

processVars == <<worker, proc, killed, events, starts, late>>

ProcessInit ==
  /\ worker = "alive"
  /\ proc \in {"not_running", "starting"}        \* autostart
  /\ starts = IF proc = "starting" THEN 1 ELSE 0
  /\ killed = FALSE
  /\ events = <<>>
  /\ late = FALSE

SendEvent(e) == events' = Append(events, e)

(* launch(): nothing while a child is there. *)
Launch ==
  /\ worker # "gone" /\ starts < MaxStarts
  /\ proc = "not_running"
  /\ proc' = "starting"
  /\ killed' = FALSE
  /\ starts' = starts + 1
  /\ late' = (late \/ worker # "alive")
  /\ UNCHANGED <<worker, events>>

Started ==
  /\ worker # "gone" /\ proc = "starting"
  /\ proc' = "running"
  /\ SendEvent("started")
  /\ UNCHANGED <<worker, killed, starts, late>>

FailedToStart ==
  /\ worker # "gone" /\ proc = "starting"
  /\ proc' = "not_running"
  /\ SendEvent("error")
  /\ UNCHANGED <<worker, killed, starts, late>>

(* The child ends, of itself or by a signal; "finished" says which. *)
Finished ==
  /\ worker # "gone" /\ proc = "running"
  /\ proc' = "not_running"
  /\ \E how \in (IF killed THEN {"signal"} ELSE {"signal", "exit_code"}) : SendEvent(how)
  /\ UNCHANGED <<worker, killed, starts, late>>

(* Kill(), or Signal() with SIGKILL: the child's end is a matter of time.  *)
(* Any other signal a child may survive, and changes nothing here; without *)
(* a process id Signal() raises.                                           *)
Kill ==
  /\ worker \in {"alive", "doomed"} /\ proc # "not_running"
  /\ killed' = TRUE
  /\ UNCHANGED <<worker, proc, events, starts, late>>

-----------------------------------------------------------------------------
(* Mutant: the stop does not wait for the child it has asked to end. *)
DestroyAtOnce ==
  /\ worker = "alive"
  /\ worker' = "doomed"
  /\ UNCHANGED <<proc, killed, events, starts, late>>

(* Destroy(): terminate() and waitForFinished(500) if there is a child. *)
Destroy ==
  /\ worker = "alive"
  /\ worker' = IF proc = "not_running" THEN "doomed" ELSE "terminating"
  /\ UNCHANGED <<proc, killed, events, starts, late>>

WaitForFinished ==
  /\ worker \in {"terminating", "killing"} /\ (proc = "not_running" \/ late)
  /\ worker' = "doomed"
  /\ UNCHANGED <<proc, killed, events, starts, late>>

TerminateTimesOut ==
  /\ worker = "terminating" /\ proc # "not_running"
  /\ worker' = "killing"
  /\ killed' = TRUE
  /\ UNCHANGED <<proc, events, starts, late>>

KillTimesOut ==
  /\ worker = "killing" /\ proc # "not_running"
  /\ worker' = "doomed"
  /\ late' = TRUE
  /\ UNCHANGED <<proc, killed, events, starts>>

(* The worker is deleted, and ~QProcess() kills what is left unheard. *)
Deleted ==
  /\ worker = "doomed"
  /\ worker' = "gone"
  /\ proc' = "not_running"
  /\ UNCHANGED <<killed, events, starts, late>>

ProcessNext == \/ Launch \/ Started \/ FailedToStart \/ Finished \/ Kill
               \/ Destroy \/ WaitForFinished \/ TerminateTimesOut \/ KillTimesOut \/ Deleted

ProcessSpec == ProcessInit /\ [][ProcessNext]_processVars

-----------------------------------------------------------------------------
Ends == {"signal", "exit_code"}

(* After n of the events s there is a child whose start was told and whose *)
(* end was not.                                                            *)
Open(s, n) ==
  \E i \in 1..n : s[i] = "started" /\ \A k \in (i + 1)..n : s[k] \notin Ends

(* A script that has seen its child start sees it end before the worker is *)
(* gone, whatever signals and restarts came between, and never two starts  *)
(* without an end (process.cpp, Destroy()); excepted are a child started   *)
(* again while Destroy() waits and one that outlives its kill by 200 ms.   *)
EndSeen ==
  /\ \A n \in 1..Len(events) : events[n] = "started" => ~Open(events, n - 1)
  /\ \A n \in 1..Len(events) : events[n] \in Ends => Open(events, n - 1)
  /\ worker = "gone" /\ ~late => ~Open(events, Len(events))

(* The types of the variables.                                             *)
ProcessTypeOK ==
  /\ worker \in {"alive", "terminating", "killing", "doomed", "gone"}
  /\ proc \in {"not_running", "starting", "running"}
  /\ killed \in BOOLEAN /\ late \in BOOLEAN
  /\ events \in Seq(Ends \cup {"started", "error"})
  /\ starts \in Nat

(* A script knows of a child exactly while one runs, and Destroy() leaves  *)
(* one behind only in the two excepted cases.                              *)
ChildKnown ==
  /\ worker # "gone" => (proc = "running" <=> Open(events, Len(events)))
  /\ worker = "doomed" /\ ~late => proc = "not_running"

(* What EndSeen rests on, with it.                                         *)
ProcessInv == ProcessTypeOK /\ ChildKnown /\ EndSeen
=============================================================================
