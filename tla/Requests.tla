------------------------------ MODULE Requests ------------------------------
(***************************************************************************)
(* The workers that answer a script's request through a promise: Http,     *)
(* whose reply races a timer that aborts it, and Sql, whose statements run *)
(* on a thread of the worker's own and come back through the worker's      *)
(* event queue (http.cpp, sql.cpp).  A promise dropped unset rejects its   *)
(* future; a request is settled when its future has been, once or more.    *)
(***************************************************************************)
EXTENDS Naturals, Sequences

CONSTANTS Http, Sql,      \* workers of either kind
          Reqs            \* requests a script makes

None == "none"
Workers == Http \cup Sql

ASSUME RequestsAssumption ==
  /\ Http \cap Sql = {}
  /\ None \notin Workers /\ None \notin Reqs

VARIABLES worker,         \* Workers -> "new", "alive", "doomed" (deleteLater), "joining", "gone"
          connection,     \* the Sql worker that opened the default connection last
          aborted,        \* the process has ended in qFatal()
          owner,          \* Reqs -> the worker the request was made to
          reply,          \* Reqs -> its QNetworkReply
          timer,          \* Reqs -> the timer that aborts the reply runs
          bounded,        \* Reqs -> the request has a timeout, or is a statement
          answers,        \* Reqs -> what the request's future was settled with
          posted,         \* Sql -> statements posted to the thread
          running,        \* Sql -> the statement doExec() works on
          thread,         \* Sql -> "run" or "exited"
          inbox           \* Sql -> answers posted to the worker

reqVars == <<owner, reply, timer, bounded, answers>>
sqlVars == <<connection, posted, running, thread, inbox>>
requestsVars == <<worker, aborted, reqVars, sqlVars>>

RequestsInit ==
  /\ worker = [w \in Workers |-> "new"]
  /\ connection = None
  /\ aborted = FALSE
  /\ owner = [r \in Reqs |-> None]
  /\ reply = [r \in Reqs |-> None]
  /\ timer = [r \in Reqs |-> FALSE]
  /\ bounded = [r \in Reqs |-> FALSE]
  /\ answers = [r \in Reqs |-> <<>>]
  /\ posted = [w \in Sql |-> <<>>]
  /\ running = [w \in Sql |-> None]
  /\ thread = [w \in Sql |-> "exited"]
  /\ inbox = [w \in Sql |-> <<>>]

(* The main thread runs no event while it waits in ~SqlWorker(). *)
MainFree == ~aborted /\ \A w \in Workers : worker[w] # "joining"

\* The promise is set: what its future is settled with.
Answer(r, a) == answers' = [answers EXCEPT ![r] = Append(@, a)]

-----------------------------------------------------------------------------
CreateHttp(w) ==
  /\ MainFree
  /\ worker[w] = "new"
  /\ worker' = [worker EXCEPT ![w] = "alive"]
  /\ UNCHANGED <<aborted, reqVars, sqlVars>>

(* The constructor waits for its thread to open the database.  The         *)
(* connection has the default name: it takes over from another worker's.   *)
CreateSql(w) ==
  /\ MainFree
  /\ worker[w] = "new"
  /\ worker' = [worker EXCEPT ![w] = "alive"]
  /\ connection' = w
  /\ thread' = [thread EXCEPT ![w] = "run"]
  /\ UNCHANGED <<aborted, reqVars, posted, running, inbox>>

(* The database cannot be opened: the exception leaves the constructor,    *)
(* ~SqlWorker() does not run, and ~QObject() deletes a running QThread.    *)
CreateSqlRaises(w) ==
  /\ MainFree
  /\ worker[w] = "new"
  /\ aborted' = TRUE
  /\ UNCHANGED <<worker, reqVars, sqlVars>>

-----------------------------------------------------------------------------
(* Mutant: the timer is never started. *)
ArmedNot(timeout) == FALSE

(* if (timeout) QTimer::singleShot(timeout, reply, abort). *)
Armed(timeout) == timeout

(* Http.  request() sends, arms the timer unless the timeout is 0, and     *)
(* hands the promise to the reply's finished handler.                      *)
Request(r, w, timeout) ==
  /\ MainFree
  /\ worker[w] \in {"alive", "doomed"}
  /\ owner[r] = None
  /\ owner' = [owner EXCEPT ![r] = w]
  /\ reply' = [reply EXCEPT ![r] = "sent"]
  /\ timer' = [timer EXCEPT ![r] = Armed(timeout)]
  /\ bounded' = [bounded EXCEPT ![r] = timeout]
  /\ UNCHANGED <<worker, aborted, answers, sqlVars>>

(* The finished handler: deleteLater(), then the promise is set from the   *)
(* error, the decoded body, or the exception the decoding raised.          *)
Finished(r, a) ==
  /\ reply' = [reply EXCEPT ![r] = "finished"]
  /\ Answer(r, a)

NetworkAnswers(r) ==
  /\ MainFree
  /\ reply[r] = "sent"
  /\ \E a \in {"body", "undecodable", "error"} : Finished(r, a)
  /\ UNCHANGED <<worker, aborted, owner, timer, bounded, sqlVars>>

(* The timer's abort() finishes a running reply, and only a running one    *)
(* (QNetworkReply::abort() leaves a finished reply alone).                 *)
Abort(r) ==
  /\ MainFree
  /\ timer[r]
  /\ timer' = [timer EXCEPT ![r] = FALSE]
  /\ \/ reply[r] = "sent" /\ Finished(r, "error")
     \/ reply[r] = "finished" /\ UNCHANGED <<reply, answers>>
  /\ UNCHANGED <<worker, aborted, owner, bounded, sqlVars>>

ReplyDeleted(r) ==
  /\ MainFree
  /\ reply[r] = "finished"
  /\ reply' = [reply EXCEPT ![r] = "deleted"]
  /\ timer' = [timer EXCEPT ![r] = FALSE]
  /\ UNCHANGED <<worker, aborted, owner, bounded, answers, sqlVars>>

-----------------------------------------------------------------------------
(* Sql.  Exec() posts the statement to the context of the worker's thread. *)
Exec(r, w) ==
  /\ MainFree
  /\ worker[w] \in {"alive", "doomed"}
  /\ owner[r] = None
  /\ owner' = [owner EXCEPT ![r] = w]
  /\ bounded' = [bounded EXCEPT ![r] = TRUE]
  /\ posted' = [posted EXCEPT ![w] = Append(@, r)]
  /\ UNCHANGED <<worker, aborted, reply, timer, answers, connection, running, thread, inbox>>

(* The thread takes the next statement, while the worker may be joining it.*)
DoExec(w) ==
  /\ ~aborted
  /\ thread[w] = "run" /\ running[w] = None /\ posted[w] # <<>>
  /\ running' = [running EXCEPT ![w] = Head(posted[w])]
  /\ posted' = [posted EXCEPT ![w] = Tail(@)]
  /\ UNCHANGED <<worker, aborted, reqVars, connection, thread, inbox>>

(* The statement ends and its answer is posted to the worker: the rows, or *)
(* the exception; a connection taken over by another worker fails it.      *)
DoExecEnds(w) ==
  /\ ~aborted
  /\ running[w] # None
  /\ \E a \in (IF connection = w THEN {"rows", "error"} ELSE {"error"}) :
       inbox' = [inbox EXCEPT ![w] = Append(@, <<running[w], a>>)]
  /\ running' = [running EXCEPT ![w] = None]
  /\ UNCHANGED <<worker, aborted, reqVars, connection, posted, thread>>

Deliver(w) ==
  /\ MainFree
  /\ worker[w] \in {"alive", "doomed"} /\ inbox[w] # <<>>
  /\ Answer(Head(inbox[w])[1], Head(inbox[w])[2])
  /\ inbox' = [inbox EXCEPT ![w] = Tail(@)]
  /\ UNCHANGED <<worker, aborted, owner, reply, timer, bounded, connection, posted, running, thread>>

-----------------------------------------------------------------------------
(* worker:destroy(): Destroy() and deleteLater(). *)
Destroy(w) ==
  /\ MainFree
  /\ worker[w] = "alive"
  /\ worker' = [worker EXCEPT ![w] = "doomed"]
  /\ UNCHANGED <<aborted, reqVars, sqlVars>>

(* What ~QObject() drops with the connections and the events of a worker.  *)
Drop(rs) ==
  /\ reply' = [r \in Reqs |-> IF r \in rs THEN "deleted" ELSE reply[r]]
  /\ timer' = [r \in Reqs |-> timer[r] /\ r \notin rs]
  /\ answers' = [r \in Reqs |-> IF r \in rs THEN Append(answers[r], "dropped") ELSE answers[r]]
  /\ UNCHANGED <<owner, bounded>>

HttpGone(w) ==
  /\ MainFree
  /\ worker[w] = "doomed"
  /\ worker' = [worker EXCEPT ![w] = "gone"]
  /\ Drop({r \in Reqs : owner[r] = w /\ reply[r] = "sent"})
  /\ UNCHANGED <<aborted, sqlVars>>

(* ~SqlWorker(): quit() the thread and wait() for it.  The thread leaves   *)
(* its loop between two statements, with what is posted to it undone.      *)
SqlDtor(w) ==
  /\ MainFree
  /\ worker[w] = "doomed"
  /\ worker' = [worker EXCEPT ![w] = "joining"]
  /\ UNCHANGED <<aborted, reqVars, sqlVars>>

ThreadExits(w) ==
  /\ ~aborted
  /\ worker[w] = "joining" /\ thread[w] = "run" /\ running[w] = None
  /\ thread' = [thread EXCEPT ![w] = "exited"]
  /\ UNCHANGED <<worker, aborted, reqVars, connection, posted, running, inbox>>

(* Mutant: the destructor does not wait for the thread. *)
JoinedNot(w) == TRUE

(* thread->wait() has returned. *)
Joined(w) == thread[w] = "exited"

(* The statements posted to the thread, and those whose answer is posted   *)
(* to the worker.                                                          *)
Posted(w) == {posted[w][k] : k \in 1..Len(posted[w])}
Inbox(w) == {inbox[w][k][1] : k \in 1..Len(inbox[w])}

SqlGone(w) ==
  /\ ~aborted
  /\ worker[w] = "joining" /\ Joined(w)
  /\ worker' = [worker EXCEPT ![w] = "gone"]
  /\ Drop(Posted(w) \cup Inbox(w))
  /\ posted' = [posted EXCEPT ![w] = <<>>]
  /\ inbox' = [inbox EXCEPT ![w] = <<>>]
  /\ UNCHANGED <<aborted, connection, running, thread>>

RequestsNext ==
  \/ \E w \in Http : CreateHttp(w) \/ Destroy(w) \/ HttpGone(w)
  \/ \E w \in Sql : CreateSql(w) \/ CreateSqlRaises(w) \/ Destroy(w) \/ SqlDtor(w) \/ SqlGone(w)
  \/ \E w \in Sql : DoExec(w) \/ DoExecEnds(w) \/ Deliver(w) \/ ThreadExits(w)
  \/ \E r \in Reqs : NetworkAnswers(r) \/ Abort(r) \/ ReplyDeleted(r)
  \/ \E r \in Reqs, w \in Http, timeout \in BOOLEAN : Request(r, w, timeout)
  \/ \E r \in Reqs, w \in Sql : Exec(r, w)

(* Timers and posted events are served by the event loop, a statement ends *)
(* and a thread leaves its loop once told to; the network may be silent.   *)
RequestsFairness ==
  /\ \A r \in Reqs : WF_requestsVars(Abort(r))
  /\ \A w \in Http : WF_requestsVars(HttpGone(w))
  /\ \A w \in Sql : /\ WF_requestsVars(DoExec(w)) /\ WF_requestsVars(DoExecEnds(w)) /\ WF_requestsVars(Deliver(w))
                    /\ WF_requestsVars(SqlDtor(w)) /\ WF_requestsVars(ThreadExits(w)) /\ WF_requestsVars(SqlGone(w))

RequestsSpec == RequestsInit /\ [][RequestsNext]_requestsVars /\ RequestsFairness

-----------------------------------------------------------------------------
(* No request is settled twice, however its reply, its timer and the end   *)
(* of its worker fall together; a worker that is gone leaves no request of *)
(* its own open, and its thread has ended before it: what doExec() posts   *)
(* back never finds the worker freed.                                      *)
SettledOnce ==
  /\ \A r \in Reqs : Len(answers[r]) <= 1
  /\ \A w \in Workers : worker[w] = "gone" =>
       \A r \in Reqs : owner[r] = w => Len(answers[r]) = 1
  /\ \A w \in Sql : worker[w] = "gone" => running[w] = None

(* The types of the variables.                                             *)
RequestsTypeOK ==
  /\ worker \in [Workers -> {"new", "alive", "doomed", "joining", "gone"}]
  /\ connection \in Sql \cup {None}
  /\ aborted \in BOOLEAN
  /\ owner \in [Reqs -> Workers \cup {None}]
  /\ reply \in [Reqs -> {None, "sent", "finished", "deleted"}]
  /\ timer \in [Reqs -> BOOLEAN]
  /\ bounded \in [Reqs -> BOOLEAN]
  /\ answers \in [Reqs -> Seq({"body", "undecodable", "error", "rows", "dropped"})]
  /\ posted \in [Sql -> Seq(Reqs)]
  /\ running \in [Sql -> Reqs \cup {None}]
  /\ thread \in [Sql -> {"run", "exited"}]
  /\ inbox \in [Sql -> Seq(Reqs \X {"rows", "error"})]

(* The statements of a worker that are under way.                          *)
UnderWay(w) == Posted(w) \cup Inbox(w) \cup ({running[w]} \ {None})

(* A statement that is under way waits at one place of the worker it was   *)
(* given to.                                                               *)
StatementsPlaced ==
  /\ \A w \in Sql : \A j, k \in 1..Len(posted[w]) : posted[w][j] = posted[w][k] => j = k
  /\ \A w \in Sql : \A j, k \in 1..Len(inbox[w]) : inbox[w][j][1] = inbox[w][k][1] => j = k
  /\ \A w \in Sql : /\ Posted(w) \cap Inbox(w) = {}
                     /\ running[w] \notin Posted(w) \cup Inbox(w)
  /\ \A w \in Sql : \A r \in UnderWay(w) : owner[r] = w

(* What is under way is unanswered, and what is not has its one answer.    *)
OpenUnanswered ==
  /\ \A r \in Reqs : owner[r] = None => reply[r] = None /\ answers[r] = <<>>
  /\ \A r \in Reqs : owner[r] \in Http =>
       Len(answers[r]) = (IF reply[r] = "sent" THEN 0 ELSE 1)
  /\ \A r \in Reqs : owner[r] \in Sql =>
       /\ reply[r] \notin {"sent", "finished"}
       /\ Len(answers[r]) = (IF r \in UnderWay(owner[r]) THEN 0 ELSE 1)

(* A worker that is gone has nothing under way, and its thread has ended.  *)
GoneIsDone ==
  /\ \A w \in Sql : thread[w] = "exited" => running[w] = None
  /\ \A w \in Sql : worker[w] = "gone" => thread[w] = "exited" /\ Posted(w) \cup Inbox(w) = {}
  /\ \A r \in Reqs : reply[r] = "sent" => worker[owner[r]] # "gone"

(* All together: nothing is settled twice, and why.                        *)
RequestsInv ==
  RequestsTypeOK /\ SettledOnce /\ StatementsPlaced /\ OpenUnanswered /\ GoneIsDone

(* A request with a timeout, and every statement, is answered in the end   *)
(* (Http::request(), SqlWorker::Exec()): with the answer, or with the      *)
(* error of the timeout, of the statement or of the dropped promise.       *)
EveryRequestSettles ==
  \A r \in Reqs : bounded[r] ~> answers[r] # <<>> \/ aborted
=============================================================================
