---------------------------- MODULE RedisStream ----------------------------
(***************************************************************************)
(* RedisStream: a chain of blocking XREADs on the read client, each started *)
(* by the reply of the one before, from the id that is kept in memory and  *)
(* saved under a key through the other client.  The server gives ids by    *)
(* its clock ("*"), so that they grow over all its databases: entry n has  *)
(* id n and is in the stream of database log[n]; id 0 is "0-0".  The       *)
(* process may crash and start again.                                      *)
(***************************************************************************)
EXTENDS RedisClient, FiniteSets

CONSTANTS
  Starts,      \* values of start_from
  MaxEntries,  \* bound on the entries of all databases
  PerRead,     \* entries_per_read
  MaxCrashes   \* bound on restarts

\* What is assumed of them.
StreamAssumption ==
  /\ Client = {"main", "read"}
  /\ Starts \subseteq {"persistent_id", "start", "top"}
  /\ MaxEntries \in Nat /\ PerRead \in Nat \ {0} /\ MaxCrashes \in Nat

VARIABLES
  startFrom,   \* config.start_from
  log,         \* the database of each entry, oldest first
  lastId,      \* Stream::lastId, Empty, Top or an id
  saved,       \* per database, the value of lastIdKey
  delivered,   \* ids of the entries that were sent as messages (history)
  failed,      \* an XREAD was refused since the last connection (history)
  crashes

streamVars == <<startFrom, log, lastId, saved, delivered, failed, crashes>>
vars == <<clientVars, streamVars>>

main == "main"
read == "read"
Empty == -1     \* no id yet
Top == -2       \* "$", the end of the stream

StreamInit ==
  /\ ClientInit
  /\ startFrom \in Starts
  /\ log = <<>>
  /\ lastId = Empty
  /\ saved = [d \in 0..Db |-> Empty]
  /\ delivered = {}
  /\ failed = FALSE
  /\ crashes = 0

\* nextRead() on the pipelines p.
NextRead(p, id) == Execute(p, read, Cmd("XREAD", id))

OrZero(id) == IF id = Empty THEN 0 ELSE id

\* ConnectedChanged(true) of the read client; p is the pipelines so far.
StartReading(p) ==
  CASE startFrom = "persistent_id" /\ ~Rejected(main) ->
         pipe' = Execute(p, main, Cmd("GET", 0)) /\ UNCHANGED lastId
    [] startFrom = "persistent_id" /\ Rejected(main) ->
         lastId' = OrZero(lastId) /\ pipe' = NextRead(p, lastId')
    [] startFrom = "start" -> lastId' = 0 /\ pipe' = NextRead(p, 0)
    [] startFrom = "top"   -> lastId' = Top /\ pipe' = NextRead(p, Top)

SelectReply(c) ==
  /\ Selected(c)
  /\ IF c = read THEN StartReading(Pop(c)) /\ failed' = FALSE
                 ELSE pipe' = Pop(c) /\ UNCHANGED <<lastId, failed>>
  /\ UNCHANGED <<recon, db, drops, log, saved, delivered, crashes, startFrom>>

\* Mutant of GetReply: the worker goes on at the end of the stream.
GetReplyKeepsNothing ==
  /\ Arrived(main, "GET")
  /\ lastId' = Len(log)
  /\ pipe' = NextRead(Pop(main), lastId')
  /\ UNCHANGED <<ctx, recon, db, drops, log, saved, delivered, failed, crashes, startFrom>>

\* loadIdAndRead's continuation: a missing key reads from the beginning.
GetReply ==
  /\ Arrived(main, "GET")
  /\ \E id \in Head(pipe[main]).reply.vals : lastId' = OrZero(id)
  /\ pipe' = NextRead(Pop(main), lastId')
  /\ UNCHANGED <<ctx, recon, db, drops, log, saved, delivered, failed, crashes, startFrom>>

SetReply ==
  /\ Arrived(main, "SET") \/ Arrived(main, "XADD")
  /\ pipe' = Pop(main)
  /\ UNCHANGED <<ctx, recon, db, drops, streamVars>>

\* parseReply of a list of entries: each is sent, then the last id is saved and
\* the next XREAD given.
EntriesReply ==
  LET r == Head(pipe[read]).reply.vals IN
  /\ Arrived(read, "XREAD")
  /\ r # {}
  /\ delivered' = delivered \union r
  /\ lastId' \in {n \in r : \A m \in r : m <= n}
  /\ pipe' = NextRead(Execute(Pop(read), main, Cmd("SET", lastId')), lastId')
  /\ UNCHANGED <<ctx, recon, db, drops, log, saved, failed, crashes, startFrom>>

\* Mutant of NilReply: the chain ends at a BLOCK that timed out.
NilReplyEnds ==
  /\ Arrived(read, "XREAD")
  /\ Head(pipe[read]).reply = Nil
  /\ pipe' = Pop(read)
  /\ UNCHANGED <<ctx, recon, db, drops, streamVars>>

\* BLOCK timed out: the next XREAD, from the same id.
NilReply ==
  /\ Arrived(read, "XREAD")
  /\ Head(pipe[read]).reply = Nil
  /\ pipe' = NextRead(Pop(read), lastId)
  /\ UNCHANGED <<ctx, recon, db, drops, streamVars>>

\* An error reply ends the chain.
ErrorReply ==
  /\ Arrived(read, "XREAD")
  /\ Head(pipe[read]).reply = Err
  /\ pipe' = Pop(read)
  /\ failed' = TRUE
  /\ UNCHANGED <<ctx, recon, db, drops, log, lastId, saved, delivered, crashes, startFrom>>

\* The stream of database d: its entries after an id, and the COUNT oldest of
\* them, which XREAD returns.
Newer(d, id) == {n \in 1..Len(log) : log[n] = d /\ n > id}
Batch(d, id) ==
  {n \in Newer(d, id) : Cardinality({m \in Newer(d, id) : m < n}) < PerRead}
Newest(d, id) == Newer(d, id) = {} /\ (id = 0 \/ id \in Newer(d, 0))

\* XADD of an entry to the stream of database d.
Add(d) == log' = IF Len(log) < MaxEntries THEN Append(log, d) ELSE log

\* XREAD in the connection's database.  "$" becomes the newest id when the
\* command starts to block; a BLOCK ends with entries, or with nil.  A refusal
\* ends the chain, so that it needs no bound.
ServeRead(c, id) ==
  \/ /\ id = Top
     /\ \E top \in 0..Len(log) :
          Newest(db[c], top) /\ pipe' = [pipe EXCEPT ![c][Next1(c)].arg = top]
     /\ UNCHANGED <<ctx, recon, db, drops>>
  \/ /\ id # Top /\ Newer(db[c], id) # {}
     /\ Answer(c, Reply("list", Batch(db[c], id)))
     /\ UNCHANGED drops
  \/ id # Top /\ Answer(c, Nil) /\ UNCHANGED drops
  \/ Answer(c, Err) /\ UNCHANGED drops

\* The server executes the next command of a connection, in the database that
\* is selected there.
Serve(c) ==
  LET cmd == pipe[c][Next1(c)] IN
  /\ ServerTurn(c)
  /\ \/ cmd.op = "SELECT" /\ Answer(c, OK) /\ UNCHANGED <<drops, log, saved>>
     \/ /\ cmd.op = "SELECT" /\ drops < MaxDrops
        /\ drops' = drops + 1
        /\ Answer(c, Err) /\ UNCHANGED <<log, saved>>
     \/ cmd.op = "GET" /\ Answer(c, Reply("id", {saved[db[c]]})) /\ UNCHANGED <<drops, log, saved>>
     \/ /\ cmd.op = "SET"
        /\ saved' = [saved EXCEPT ![db[c]] = cmd.arg]
        /\ Answer(c, OK) /\ UNCHANGED <<drops, log>>
     \/ /\ cmd.op = "XADD"
        /\ Add(db[c])
        /\ Answer(c, OK) /\ UNCHANGED <<drops, saved>>
     \/ cmd.op = "XREAD" /\ ServeRead(c, cmd.arg) /\ UNCHANGED <<log, saved>>
  /\ UNCHANGED <<lastId, delivered, failed, crashes, startFrom>>

\* Other producers, in any database.
Append1 ==
  /\ Len(log) < MaxEntries
  /\ \E d \in 0..Db : Add(d)
  /\ UNCHANGED <<clientVars, lastId, saved, delivered, failed, crashes, startFrom>>

\* Stream::OnMsg: XADD, one at a time.
OnMsg ==
  /\ Len(log) < MaxEntries
  /\ \A i \in 1..Len(pipe[main]) : pipe[main][i].op # "XADD"
  /\ ~Rejected(main)
  /\ pipe' = Execute(pipe, main, Cmd("XADD", 0))
  /\ UNCHANGED <<ctx, recon, db, drops, streamVars>>

\* The null replies of a lost context: a pending GET starts a read anyway,
\* every other command is given up.
NullReplies(c) ==
  LET gone == [pipe EXCEPT ![c] = <<>>]
      get == \E i \in 1..Len(pipe[c]) : pipe[c][i].op = "GET"
  IN
  /\ lastId' = IF get THEN OrZero(lastId) ELSE lastId
  /\ pipe' = IF get THEN NextRead(gone, lastId') ELSE gone
  /\ UNCHANGED <<log, saved, delivered, failed, crashes, startFrom>>

LoseContext(c) ==
  /\ Lost(c)
  /\ recon' = [recon EXCEPT ![c] = TRUE]
  /\ NullReplies(c)

Construct == Create /\ UNCHANGED streamVars
Connect(c) == Connected(c) /\ UNCHANGED streamVars
SelectError(c) == SelectRefused(c) /\ UNCHANGED streamVars
Redial(c) == Dial(c) /\ recon' = [recon EXCEPT ![c] = FALSE] /\ NullReplies(c)

\* The process dies and starts again.
Crash ==
  /\ Created
  /\ crashes < MaxCrashes
  /\ crashes' = crashes + 1
  /\ ctx' = [c \in Client |-> "connecting"]
  /\ recon' = [c \in Client |-> FALSE]
  /\ pipe' = [c \in Client |-> <<>>]
  /\ db' = [c \in Client |-> 0]
  /\ lastId' = Empty
  /\ failed' = FALSE
  /\ UNCHANGED <<drops, log, saved, delivered, startFrom>>

StreamNext ==
  \/ \E c \in Client :
       Connect(c) \/ Redial(c) \/ Serve(c) \/ SelectReply(c) \/ SelectError(c) \/ LoseContext(c)
  \/ GetReply \/ SetReply \/ EntriesReply \/ NilReply \/ ErrorReply
  \/ Construct \/ Append1 \/ OnMsg \/ Crash

\* A connection attempt ends, the server answers what it was sent, replies are
\* read and timers fire.  An XREAD that has entries to return is answered with
\* them again and again, not only with nil.
StreamFairness ==
  /\ \A c \in Client : WF_vars(Connect(c)) /\ WF_vars(Redial(c))
                       /\ WF_vars(Serve(c)) /\ WF_vars(SelectReply(c) \/ SelectError(c))
  /\ SF_vars(Serve(read) /\ pipe'[read][Next1(read)].reply.kind = "list")
  /\ WF_vars(GetReply) /\ WF_vars(SetReply)
  /\ WF_vars(EntriesReply \/ NilReply \/ ErrorReply)

StreamSpec == StreamInit /\ [][StreamNext]_vars /\ StreamFairness

-----------------------------------------------------------------------------
(* Properties                                                              *)

\* At least once, over reconnects and restarts: the id the worker reads from
\* and the id it saved never pass an entry that was not sent as a message, but
\* for one way, of nextRead() giving XREAD to a connection that has not selected
\* its database: an entry of database 0 that is newer was sent in its place.
Covered(l, n, done) == n \in done \/ \E m \in done : l[m] # Db /\ n < m
Passed(l, id, done) == \A n \in 1..Len(l) : l[n] = Db /\ n <= id => Covered(l, n, done)
NoSkip ==
  startFrom # "top" =>
    /\ Passed(log, lastId, delivered)
    /\ \A d \in DOMAIN saved : Passed(log, saved[d], delivered)

\* What makes it so: every id that is kept, saved or on its way in a command or
\* a reply has all entries up to it behind it, or, in the reply of an XREAD, in
\* the reply itself; and no id is ahead of the server's.
Ops == {"SELECT", "GET", "SET", "XADD", "XREAD"}
Replies == [kind : {"none", "ok", "nil", "error", "id", "list"}, vals : SUBSET Int]
Command == [op : Ops, arg : Int, reply : Replies]
Kept(l, id, done) == id \in Empty..Len(l) /\ Passed(l, id, done)
Read(l, vals, done) ==
  vals \subseteq 1..Len(l) /\ \A n \in vals : Passed(l, n, done \union vals)
Backed(l, done) ==
  {cmd \in Command :
     /\ cmd.op = "SELECT" => cmd.arg = Db
     /\ cmd.op \in {"SET", "XREAD"} => Kept(l, cmd.arg, done)
     /\ cmd.op = "GET" => \A id \in cmd.reply.vals : Kept(l, id, done)
     /\ cmd.op = "XREAD" => Read(l, cmd.reply.vals, done)}
StreamInv ==
  startFrom # "top" =>
    /\ startFrom \in {"persistent_id", "start"}
    /\ log \in Seq(0..Db)
    /\ delivered \subseteq 1..Len(log)
    /\ Kept(log, lastId, delivered)
    /\ db \in [Client -> 0..Db]
    /\ saved \in [0..Db -> Int]
    /\ \A d \in 0..Db : Kept(log, saved[d], delivered)
    /\ pipe \in [Client -> Seq(Backed(log, delivered))]

\* Once there is a worker every entry is sent in the end, however often the
\* connections are lost and the process restarts.  An XREAD the server refuses
\* ends the chain (the catch of nextRead()) until the client connects again, which
\* must repair it.
EveryEntryRead ==
  \A n \in 1..MaxEntries :
    (Created /\ n \in Newer(Db, 0) /\ startFrom # "top" /\ ~failed)
      ~> (Covered(log, n, delivered) \/ failed)
=============================================================================
