---------------------------- MODULE RedisClient ----------------------------
(***************************************************************************)
(* redis::Client (src/src/workers/redis): one hiredis context per client,  *)
(* a pipeline of commands whose replies come back in order, SELECT once    *)
(* connected, and a reconnect timer.  Execute() only asks for a context:   *)
(* a command given while the connection is being made is sent before the   *)
(* SELECT.  The socket notifiers of QtRedisAdapter move bytes for hiredis  *)
(* and are not visible here.                                               *)
(***************************************************************************)
EXTENDS Integers, Sequences

CONSTANTS
  Client,     \* the clients of one worker
  Db,         \* config.db; a connection starts in database 0
  MaxDrops    \* bound on connections lost and commands the server refuses

\* What is assumed of them.
ClientAssumption == Db \in 0..1 /\ MaxDrops \in Nat

VARIABLES
  ctx,        \* "none": no context; "connecting"; "selecting"; "up": ok
  recon,      \* reconPending: the timer of ReconnectLater() runs
  pipe,       \* commands on the context, oldest first
  db,         \* the database the server has selected for the connection
  drops       \* connections lost and commands refused so far

clientVars == <<ctx, recon, pipe, db, drops>>

\* A reply: what kind it is and the numbers (ids, versions) it carries.
Reply(kind, vals) == [kind |-> kind, vals |-> vals]
OK == Reply("ok", {})
Nil == Reply("nil", {})
Err == Reply("error", {})
NoReply == Reply("none", {})

\* A command, before the server executes it.
Cmd(op, arg) == [op |-> op, arg |-> arg, reply |-> NoReply]

\* Before the worker is constructed.
ClientInit ==
  /\ ctx = [c \in Client |-> "none"]
  /\ recon = [c \in Client |-> FALSE]
  /\ pipe = [c \in Client |-> <<>>]
  /\ db = [c \in Client |-> 0]
  /\ drops = 0

\* The worker exists: a client without a context waits for its timer.
Created == \E c \in Client : ctx[c] # "none" \/ recon[c]

\* The constructors of a worker's clients, each of which connects.
Create ==
  /\ ~Created
  /\ ctx' = [c \in Client |-> "connecting"]
  /\ UNCHANGED <<recon, pipe, db, drops>>

IsConnected(c) == ctx[c] = "up"

\* Client::Execute on the pipelines p: without a context the command is
\* rejected, and whoever gave it is told at once.
Rejected(c) == ctx[c] = "none"
Execute(p, c, cmd) == IF Rejected(c) THEN p ELSE [p EXCEPT ![c] = Append(@, cmd)]

\* connectCallback with REDIS_OK.
Connected(c) ==
  /\ ctx[c] = "connecting"
  /\ ctx' = [ctx EXCEPT ![c] = "selecting"]
  /\ pipe' = [pipe EXCEPT ![c] = Append(@, Cmd("SELECT", Db))]
  /\ UNCHANGED <<recon, db, drops>>

\* The first command without a reply is executed; Result(cmd) is what the
\* server answers.
Unanswered(c) == {i \in 1..Len(pipe[c]) : pipe[c][i].reply = NoReply}
Next1(c) == CHOOSE i \in Unanswered(c) : \A j \in Unanswered(c) : i <= j
ServerTurn(c) == ctx[c] \in {"selecting", "up"} /\ Unanswered(c) # {}
Answer(c, reply) ==
  LET cmd == pipe[c][Next1(c)] IN
  /\ pipe' = [pipe EXCEPT ![c][Next1(c)].reply = reply]
  /\ db' = IF cmd.op = "SELECT" /\ reply = OK THEN [db EXCEPT ![c] = cmd.arg] ELSE db
  /\ UNCHANGED <<ctx, recon>>

\* The reply at the head of the pipeline has arrived.
Arrived(c, op) ==
  /\ pipe[c] # <<>>
  /\ Head(pipe[c]).op = op
  /\ Head(pipe[c]).reply # NoReply
Pop(c) == [pipe EXCEPT ![c] = Tail(@)]

\* dbCallback: SELECT succeeded, ConnectedChanged(true) follows; or it failed,
\* and the context stays until the timer.
Selected(c) ==
  /\ Arrived(c, "SELECT")
  /\ Head(pipe[c]).reply = OK
  /\ ctx' = [ctx EXCEPT ![c] = "up"]
SelectRefused(c) ==
  /\ Arrived(c, "SELECT")
  /\ Head(pipe[c]).reply = Err
  /\ recon' = [recon EXCEPT ![c] = TRUE]
  /\ pipe' = Pop(c)
  /\ UNCHANGED <<ctx, db, drops>>

\* The context goes: a refused connection, or an error on it (disconnectCallback
\* emits ConnectedChanged(false)).  Every command on it is answered by a null
\* reply, and the reconnect timer started.
Lost(c) ==
  /\ ctx[c] # "none"
  /\ drops < MaxDrops
  /\ drops' = drops + 1
  /\ ctx' = [ctx EXCEPT ![c] = "none"]
  /\ db' = [db EXCEPT ![c] = 0]

\* doConnect, when the reconnect timer fires: a context that is still there is
\* freed, with null replies for its commands, and a new one connects.
Dial(c) ==
  /\ recon[c]
  /\ ctx' = [ctx EXCEPT ![c] = "connecting"]
  /\ db' = [db EXCEPT ![c] = 0]
  /\ UNCHANGED drops
=============================================================================
