------------------------- MODULE RedisStreamProofs -------------------------
(***************************************************************************)
(* NoSkip of the stream reader, for a stream of any length, any number of  *)
(* entries per read, lost connections, refusals and crashes.               *)
(***************************************************************************)
EXTENDS RedisStream, FiniteSetTheorems, WellFoundedInduction, TLAPS

\* A command is given to a client's pipeline, or rejected.
LEMMA ExecuteBacked ==
  ASSUME NEW l, NEW done, NEW p \in [Client -> Seq(Backed(l, done))], NEW c \in Client,
         NEW cmd \in Backed(l, done)
  PROVE  Execute(p, c, cmd) \in [Client -> Seq(Backed(l, done))]
BY DEF Execute

\* A reply is taken from the head of a pipeline.
LEMMA PopBacked ==
  ASSUME NEW l, NEW done, pipe \in [Client -> Seq(Backed(l, done))], NEW c \in Client,
         pipe[c] # <<>>
  PROVE  /\ Head(pipe[c]) \in Backed(l, done)
         /\ Pop(c) \in [Client -> Seq(Backed(l, done))]
<1>1. pipe[c] \in Seq(Backed(l, done))
  OBVIOUS
<1>2. Head(pipe[c]) \in Backed(l, done) /\ Tail(pipe[c]) \in Seq(Backed(l, done))
  BY <1>1
<1> QED
  BY <1>2 DEF Pop

\* The stream of m goes on where that of l ends.
Extends(l, m) ==
  /\ Len(l) \in Nat /\ Len(m) \in Nat /\ Len(l) <= Len(m)
  /\ \A i \in 1..Len(l) : m[i] = l[i]

\* More entries, in the stream or sent: what had its entries behind it still has.
LEMMA PassedGrows ==
  ASSUME NEW l, NEW m, Extends(l, m), NEW done, NEW more, done \subseteq more,
         done \subseteq 1..Len(l), NEW id \in Int, id <= Len(l), Passed(l, id, done)
  PROVE  Passed(m, id, more)
<1> SUFFICES ASSUME NEW n \in 1..Len(m), m[n] = Db, n <= id
             PROVE  Covered(m, n, more)
  BY DEF Passed
<1>1. n \in 1..Len(l) /\ l[n] = Db
  BY DEF Extends
<1>2. Covered(l, n, done)
  BY <1>1 DEF Passed
<1> QED
  BY <1>2 DEF Covered, Extends

\* The same of an id that is kept and of the reply of an XREAD.
LEMMA KeptGrows ==
  ASSUME NEW l, NEW m, Extends(l, m), NEW done, NEW more, done \subseteq more,
         done \subseteq 1..Len(l)
  PROVE  /\ \A id : Kept(l, id, done) => Kept(m, id, more)
         /\ \A vals : Read(l, vals, done) => Read(m, vals, more)
<1>1. ASSUME NEW id, Kept(l, id, done)
      PROVE  Kept(m, id, more)
  <2>1. id \in Int /\ id <= Len(l) /\ id \in Empty..Len(m) /\ Passed(l, id, done)
    BY <1>1 DEF Kept, Extends, Empty
  <2>2. Passed(m, id, more)
    BY <2>1, PassedGrows
  <2> QED
    BY <2>1, <2>2 DEF Kept
<1>2. ASSUME NEW vals, Read(l, vals, done)
      PROVE  Read(m, vals, more)
  <2>1. vals \subseteq 1..Len(l) /\ vals \subseteq 1..Len(m)
    BY <1>2 DEF Read, Extends
  <2>2. ASSUME NEW n \in vals
        PROVE  Passed(m, n, more \union vals)
    <3>1. n \in Int /\ n <= Len(l)
      BY <2>1, <2>2 DEF Extends
    <3>2. Passed(l, n, done \union vals)
      BY <1>2, <2>2 DEF Read
    <3>3. /\ (done \union vals) \subseteq (more \union vals)
          /\ (done \union vals) \subseteq 1..Len(l)
      BY <2>1
    <3> QED
      BY <3>1, <3>2, <3>3, PassedGrows
  <2> QED
    BY <2>1, <2>2 DEF Read
<1> QED
  BY <1>1, <1>2

\* And of the commands of the pipelines.
LEMMA BackedGrows ==
  ASSUME NEW l, NEW m, Extends(l, m), NEW done, NEW more, done \subseteq more,
         done \subseteq 1..Len(l)
  PROVE  Backed(l, done) \subseteq Backed(m, more)
<1>1. /\ \A id : Kept(l, id, done) => Kept(m, id, more)
      /\ \A vals : Read(l, vals, done) => Read(m, vals, more)
  BY KeptGrows
<1> QED
  BY <1>1 DEF Backed

\* A command before it has a reply.
LEMMA CmdParts ==
  ASSUME NEW op \in Ops, NEW arg \in Int
  PROVE  /\ Cmd(op, arg) \in Command
         /\ Cmd(op, arg).op = op /\ Cmd(op, arg).arg = arg
         /\ Cmd(op, arg).reply.vals = {}
<1>1. {} \in SUBSET Int
  OBVIOUS
<1>2. NoReply = [kind |-> "none", vals |-> {}]
  BY DEF NoReply, Reply
<1>3. NoReply \in Replies /\ NoReply.vals = {}
  BY <1>1, <1>2, Zenon DEF Replies
<1> QED
  BY <1>3, Zenon DEF Cmd, Command

\* The commands a stream gives.
LEMMA NewCommands ==
  ASSUME NEW l, NEW done, NEW id, Kept(l, id, done), Db \in Int
  PROVE  /\ Cmd("XREAD", id) \in Backed(l, done)
         /\ Cmd("SET", id) \in Backed(l, done)
         /\ Cmd("GET", 0) \in Backed(l, done)
         /\ Cmd("XADD", 0) \in Backed(l, done)
         /\ Cmd("SELECT", Db) \in Backed(l, done)
<1>1. Read(l, {}, done)
  BY DEF Read
<1>2. id \in Int /\ 0 \in Int
  BY DEF Kept, Empty
<1>3. ASSUME NEW op \in Ops, NEW arg \in Int,
             op \in {"XREAD", "SET"} => arg = id,
             op = "SELECT" => arg = Db
      PROVE  Cmd(op, arg) \in Backed(l, done)
  <2> DEFINE cmd == Cmd(op, arg)
  <2>2. cmd \in Command /\ cmd.op = op /\ cmd.arg = arg /\ cmd.reply.vals = {}
    BY CmdParts
  <2> HIDE DEF cmd
  <2>3. cmd \in Backed(l, done)
    BY <1>1, <1>3, <2>2 DEF Backed
  <2> QED
    BY <2>3 DEF cmd
<1> QED
  BY <1>2, <1>3 DEF Ops

\* A command keeps its place and its parts when the server answers it.
LEMMA AnswerParts ==
  ASSUME NEW cmd \in Command, NEW reply \in Replies
  PROVE  /\ [cmd EXCEPT !.reply = reply] \in Command
         /\ [cmd EXCEPT !.reply = reply].op = cmd.op
         /\ [cmd EXCEPT !.reply = reply].arg = cmd.arg
         /\ [cmd EXCEPT !.reply = reply].reply = reply
BY Zenon DEF Command

\* The server's replies.
LEMMA ReplyParts ==
  /\ \A v \in SUBSET Int : Reply("list", v) \in Replies /\ Reply("list", v).vals = v
  /\ \A v \in SUBSET Int : Reply("id", v) \in Replies /\ Reply("id", v).vals = v
  /\ OK \in Replies /\ OK.vals = {}
  /\ Nil \in Replies /\ Nil.vals = {}
  /\ Err \in Replies /\ Err.vals = {}
<1>1. {} \in SUBSET Int
  OBVIOUS
<1> QED
  BY <1>1, Zenon DEF Reply, Replies, OK, Nil, Err

\* One command of a pipeline is replaced by its answered form.
LEMMA PlaceBacked ==
  ASSUME NEW l, NEW done, NEW p \in [Client -> Seq(Backed(l, done))], NEW c \in Client,
         NEW i \in 1..Len(p[c]), NEW reply, [p[c][i] EXCEPT !.reply = reply] \in Backed(l, done)
  PROVE  [p EXCEPT ![c][i].reply = reply] \in [Client -> Seq(Backed(l, done))]
<1> DEFINE s == p[c]  e == [p[c][i] EXCEPT !.reply = reply]
<1>1. s \in Seq(Backed(l, done)) /\ e \in Backed(l, done) /\ i \in 1..Len(s)
  OBVIOUS
<1> HIDE DEF s, e
<1>2. [s EXCEPT ![i] = e] \in Seq(Backed(l, done))
  BY <1>1
<1>3. [p EXCEPT ![c][i].reply = reply] = [p EXCEPT ![c] = [s EXCEPT ![i] = e]]
  BY Zenon DEF s, e
<1> QED
  BY <1>2, <1>3

\* The first id to read from, when none is known.
LEMMA ZeroPassed ==
  ASSUME NEW l, Len(l) \in Nat, NEW done, NEW id, Kept(l, id, done)
  PROVE  Kept(l, OrZero(id), done) /\ Kept(l, 0, done)
<1>1. 0 \in Empty..Len(l)
  BY DEF Kept, Empty
<1> QED
  BY <1>1 DEF OrZero, Kept, Empty, Passed

\* nextRead() from an id that has its entries behind it.
LEMMA NextReadBacked ==
  ASSUME StreamAssumption, ClientAssumption,
         NEW l, NEW done, NEW p \in [Client -> Seq(Backed(l, done))], NEW id, Kept(l, id, done)
  PROVE  NextRead(p, id) \in [Client -> Seq(Backed(l, done))]
<1>1. Cmd("XREAD", id) \in Backed(l, done) /\ read \in Client
  BY NewCommands DEF StreamAssumption, ClientAssumption, read
<1> QED
  BY <1>1, ExecuteBacked DEF NextRead

\* The null replies of a context that goes.
LEMMA NullRepliesInv ==
  ASSUME StreamAssumption, ClientAssumption, StreamInv, startFrom # "top",
         NEW c \in Client, NullReplies(c)
  PROVE  /\ Kept(log', lastId', delivered')
         /\ pipe' \in [Client -> Seq(Backed(log', delivered'))]
         /\ UNCHANGED <<log, saved, delivered, startFrom>>
<1>1. /\ Kept(log, lastId, delivered)
      /\ pipe \in [Client -> Seq(Backed(log, delivered))]
  BY DEF StreamInv
<1> DEFINE gone == [pipe EXCEPT ![c] = <<>>]
<1>2. gone \in [Client -> Seq(Backed(log, delivered))]
  BY <1>1
<1>3. /\ lastId' = lastId \/ lastId' = OrZero(lastId)
      /\ pipe' = gone \/ pipe' = NextRead(gone, lastId')
      /\ UNCHANGED <<log, saved, delivered, startFrom>>
  BY DEF NullReplies
<1> HIDE DEF gone
<1>4. Kept(log, lastId', delivered)
  <2>1. Len(log) \in Nat
    BY DEF StreamInv
  <2>2. Kept(log, OrZero(lastId), delivered)
    BY <1>1, <2>1, ZeroPassed
  <2> QED
    BY <1>1, <1>3, <2>2
<1>5. NextRead(gone, lastId') \in [Client -> Seq(Backed(log, delivered))]
  BY <1>2, <1>4, NextReadBacked
<1> QED
  BY <1>2, <1>3, <1>4, <1>5

\* The command the server executes next is in the pipeline.
LEMMA Next1InPipe ==
  ASSUME NEW c, Len(pipe[c]) \in Nat, Unanswered(c) # {}
  PROVE  Next1(c) \in 1..Len(pipe[c])
<1>1. Unanswered(c) \subseteq 1..Len(pipe[c]) /\ Unanswered(c) \subseteq Nat
  BY DEF Unanswered
<1>2. \E k \in Unanswered(c) : \A j \in Unanswered(c) : ~(<<j, k>> \in OpToRel(<, Nat))
  BY <1>1, WFMin, NatLessThanWellFounded
<1>3. \A j, k \in Nat : ~(<<j, k>> \in OpToRel(<, Nat)) => ~(j < k)
  BY Zenon DEF OpToRel
<1>4. \E k \in Unanswered(c) : \A j \in Unanswered(c) : ~(j < k)
  BY <1>1, <1>2, <1>3, Zenon
<1>5. \E k \in Unanswered(c) : \A j \in Unanswered(c) : k <= j
  BY <1>1, <1>4
<1> QED
  BY <1>1, <1>5 DEF Next1

\* An answer keeps the pipelines and the selected databases sound.
LEMMA AnswerInv ==
  ASSUME ClientAssumption, StreamInv, startFrom # "top",
         NEW c \in Client, Next1(c) \in 1..Len(pipe[c]),
         NEW reply \in Replies, Answer(c, reply),
         pipe[c][Next1(c)].op = "GET" =>
           \A id \in reply.vals : Kept(log, id, delivered),
         pipe[c][Next1(c)].op = "XREAD" =>
           Read(log, reply.vals, delivered)
  PROVE  /\ pipe' \in [Client -> Seq(Backed(log, delivered))]
         /\ db' \in [Client -> 0..Db]
<1> DEFINE i == Next1(c)  cmd == pipe[c][i]  after == [cmd EXCEPT !.reply = reply]
<1>1. /\ db \in [Client -> 0..Db]
      /\ pipe \in [Client -> Seq(Backed(log, delivered))]
      /\ Db \in 0..1
  BY DEF StreamInv, ClientAssumption
<1>2. cmd \in Backed(log, delivered) /\ cmd \in Command
  <2>1. cmd \in Backed(log, delivered)
    BY <1>1
  <2> QED
    BY <2>1 DEF Backed
<1>3. after \in Command /\ after.op = cmd.op /\ after.arg = cmd.arg /\ after.reply = reply
  BY <1>2, AnswerParts
<1>4. /\ pipe' = [pipe EXCEPT ![c][i].reply = reply]
      /\ db' = db \/ (cmd.op = "SELECT" /\ db' = [db EXCEPT ![c] = cmd.arg])
  BY DEF Answer
<1>5. cmd.op = "SELECT" => cmd.arg = Db
  BY <1>2 DEF Backed
<1>6. db' \in [Client -> 0..Db]
  <2>1. CASE db' = db
    BY <1>1, <2>1, Zenon
  <2>2. CASE db' # db
    <3>1. db' = [db EXCEPT ![c] = Db]
      BY <1>4, <1>5, <2>2, Zenon
    <3>2. Db \in 0..Db
      BY <1>1
    <3>3. db \in [Client -> 0..Db]
      BY <1>1
    <3> HIDE DEF cmd, i
    <3> QED
      BY ONLY <3>1, <3>2, <3>3, c \in Client
  <2> QED
    BY <2>1, <2>2
<1>7. /\ cmd.op = "GET" => \A id \in reply.vals : Kept(log, id, delivered)
      /\ cmd.op = "XREAD" => Read(log, reply.vals, delivered)
  OBVIOUS
<1>8. after \in Backed(log, delivered)
  <2> HIDE DEF after, cmd
  <2> QED
    BY <1>2, <1>3, <1>7 DEF Backed
<1>9. [pipe EXCEPT ![c][i].reply = reply] \in [Client -> Seq(Backed(log, delivered))]
  BY <1>1, <1>8, PlaceBacked
<1> QED
  BY <1>4, <1>6, <1>9

\* A step that leaves the commands and the saved ids backed by the entries there
\* were, while the stream goes on.
LEMMA GrownInv ==
  ASSUME startFrom' \in {"persistent_id", "start"},
         log' \in Seq(0..Db), Extends(log, log'),
         delivered \subseteq 1..Len(log), UNCHANGED delivered,
         Kept(log, lastId', delivered),
         db' \in [Client -> 0..Db], saved' \in [0..Db -> Int],
         \A d \in 0..Db : Kept(log, saved'[d], delivered),
         pipe' \in [Client -> Seq(Backed(log, delivered))]
  PROVE  StreamInv'
<1>1. \A id : Kept(log, id, delivered) => Kept(log', id, delivered)
  BY KeptGrows
<1>2. Backed(log, delivered) \subseteq Backed(log', delivered)
  BY BackedGrows
<1>3. pipe' \in [Client -> Seq(Backed(log', delivered'))]
  BY <1>2
<1>4. delivered' \subseteq 1..Len(log')
  BY DEF Extends
<1> QED
  BY <1>1, <1>3, <1>4 DEF StreamInv

\* An entry more, or none.
LEMMA AddExtends ==
  ASSUME log \in Seq(0..Db), NEW d \in 0..Db, Add(d) \/ UNCHANGED log
  PROVE  log' \in Seq(0..Db) /\ Extends(log, log')
<1>1. Len(log) \in Nat
  OBVIOUS
<1>2. CASE UNCHANGED log
  BY <1>1, <1>2 DEF Extends
<1>3. CASE log' = Append(log, d)
  <2>1. log' \in Seq(0..Db) /\ Len(log') = Len(log) + 1
    BY <1>3
  <2>2. \A i \in 1..Len(log) : log'[i] = log[i]
    BY <1>1, <1>3
  <2> QED
    BY <1>1, <2>1, <2>2 DEF Extends
<1> QED
  BY <1>2, <1>3 DEF Add

\* An XREAD returns the entries after an id in their order, and leaves out none.
LEMMA BatchInOrder ==
  ASSUME StreamAssumption, log \in Seq(0..Db), NEW d, NEW id \in Int,
         NEW n \in Batch(d, id), NEW k \in Newer(d, id), k <= n
  PROVE  k \in Batch(d, id)
<1> DEFINE Below(i) == {m \in Newer(d, id) : m < i}
<1>1. /\ Newer(d, id) \subseteq 1..Len(log) /\ Len(log) \in Nat
      /\ n \in Newer(d, id) /\ Cardinality(Below(n)) < PerRead
  BY DEF Newer, Batch
<1>2. IsFiniteSet(1..Len(log)) /\ Below(n) \subseteq 1..Len(log) /\ Below(k) \subseteq Below(n)
  <2>1. IsFiniteSet(1..Len(log))
    BY <1>1, FS_Interval
  <2>2. \A m \in Newer(d, id) : m \in Int
    BY <1>1
  <2> QED
    BY <1>1, <2>1, <2>2
<1>3. IsFiniteSet(Below(n))
  BY <1>2, FS_Subset
<1>4. Cardinality(Below(k)) <= Cardinality(Below(n)) /\ IsFiniteSet(Below(k))
  BY <1>2, <1>3, FS_Subset
<1>5. Cardinality(Below(k)) \in Nat /\ Cardinality(Below(n)) \in Nat /\ PerRead \in Nat
  BY <1>3, <1>4, FS_CardinalityType DEF StreamAssumption
<1>6. Cardinality(Below(k)) < PerRead
  <2> HIDE DEF Below
  <2> QED
    BY <1>1, <1>4, <1>5
<1> QED
  BY <1>6 DEF Batch

\* What an XREAD returns leaves nothing of the configured stream behind: it is the
\* next part of it, or it is of database 0 and the last of it is newer.
LEMMA BatchRead ==
  ASSUME StreamAssumption, log \in Seq(0..Db), NEW d, NEW done, NEW id,
         Kept(log, id, done)
  PROVE  Read(log, Batch(d, id), done)
<1>1. id \in Int /\ Passed(log, id, done) /\ Batch(d, id) \subseteq 1..Len(log)
  BY DEF Kept, Empty, Batch, Newer
<1>2. ASSUME NEW n \in Batch(d, id), NEW k \in 1..Len(log), log[k] = Db, k <= n
      PROVE  Covered(log, k, done \union Batch(d, id))
  <2>1. log[n] = d /\ n \in Int /\ k \in Int
    BY <1>2 DEF Batch, Newer
  <2>2. CASE k <= id
    BY <1>1, <1>2, <2>2 DEF Passed, Covered
  <2>3. CASE k > id /\ d = Db
    <3>1. k \in Newer(d, id)
      BY <1>2, <2>3 DEF Newer
    <3>2. k \in Batch(d, id)
      BY <1>1, <1>2, <3>1, BatchInOrder
    <3> QED
      BY <3>2 DEF Covered
  <2>4. CASE d # Db
    <3>1. k < n
      BY <1>2, <2>1, <2>4
    <3> QED
      BY <1>2, <2>1, <2>4, <3>1 DEF Covered
  <2> QED
    BY <1>1, <2>1, <2>2, <2>3, <2>4
<1> QED
  BY <1>1, <1>2 DEF Read, Passed

\* The server executes a command: what it answers, saves and selects.
LEMMA ServeInv ==
  ASSUME StreamAssumption, ClientAssumption, StreamInv, startFrom # "top",
         NEW c \in Client, Serve(c)
  PROVE  StreamInv'
<1> DEFINE cmd == pipe[c][Next1(c)]
<1>1. /\ startFrom \in {"persistent_id", "start"} /\ log \in Seq(0..Db) /\ delivered \subseteq 1..Len(log)
      /\ Kept(log, lastId, delivered)
      /\ db \in [Client -> 0..Db] /\ saved \in [0..Db -> Int]
      /\ \A d \in 0..Db : Kept(log, saved[d], delivered)
      /\ pipe \in [Client -> Seq(Backed(log, delivered))]
  BY DEF StreamInv
<1>2. Next1(c) \in 1..Len(pipe[c])
  <2>1. pipe[c] \in Seq(Backed(log, delivered))
    BY <1>1
  <2>2. Len(pipe[c]) \in Nat
    BY <2>1
  <2>3. Unanswered(c) # {}
    BY DEF Serve, ServerTurn
  <2> QED
    BY <2>2, <2>3, Next1InPipe
<1>3. cmd \in Backed(log, delivered)
  BY <1>1, <1>2
<1>4. UNCHANGED <<lastId, delivered, startFrom>>
  BY DEF Serve
<1>5. ASSUME pipe' \in [Client -> Seq(Backed(log, delivered))],
             db' \in [Client -> 0..Db],
             Add(db[c]) \/ UNCHANGED log,
             saved' \in [0..Db -> Int],
             \A d \in 0..Db : Kept(log, saved'[d], delivered)
      PROVE  StreamInv'
  <2>1. db[c] \in 0..Db
    BY <1>1
  <2>2. log' \in Seq(0..Db) /\ Extends(log, log')
    BY <1>1, <1>5, <2>1, AddExtends
  <2> QED
    BY <1>1, <1>4, <1>5, <2>2, GrownInv
<1>6. CASE /\ cmd.op \in {"SELECT", "SET", "XADD"}
           /\ Answer(c, OK) \/ Answer(c, Err)
           /\ Add(db[c]) \/ UNCHANGED log
           /\ saved' = saved \/ (cmd.op = "SET" /\ saved' = [saved EXCEPT ![db[c]] = cmd.arg])
  <2>1. /\ pipe' \in [Client -> Seq(Backed(log, delivered))]
        /\ db' \in [Client -> 0..Db]
    BY <1>2, <1>6, ReplyParts, AnswerInv
  <2>2. cmd.op = "SET" => Kept(log, cmd.arg, delivered) /\ cmd.arg \in Int
    BY <1>3 DEF Backed, Kept, Empty
  <2>3. /\ saved' \in [0..Db -> Int]
        /\ \A d \in 0..Db : Kept(log, saved'[d], delivered)
    <3> HIDE DEF cmd
    <3> QED
      BY <1>1, <1>6, <2>2
  <2> QED
    BY <1>5, <1>6, <2>1, <2>3
<1>7. CASE cmd.op = "GET" /\ Answer(c, Reply("id", {saved[db[c]]})) /\ UNCHANGED <<log, saved>>
  <2>1. Kept(log, saved[db[c]], delivered)
    BY <1>1
  <2>2. {saved[db[c]]} \in SUBSET Int
    BY <1>1
  <2>3. /\ Reply("id", {saved[db[c]]}) \in Replies
        /\ Reply("id", {saved[db[c]]}).vals = {saved[db[c]]}
    BY <2>2, ReplyParts
  <2>4. /\ pipe' \in [Client -> Seq(Backed(log, delivered))]
        /\ db' \in [Client -> 0..Db]
    BY <1>2, <1>7, <2>1, <2>3, AnswerInv
  <2> QED
    BY <1>1, <1>5, <1>7, <2>4
<1>8. CASE /\ cmd.op = "XREAD" /\ UNCHANGED <<log, saved>>
           /\ Answer(c, Nil) \/ Answer(c, Err)
  <2>1. Read(log, {}, delivered)
    BY DEF Read
  <2>2. /\ pipe' \in [Client -> Seq(Backed(log, delivered))]
        /\ db' \in [Client -> 0..Db]
    BY <1>2, <1>8, <2>1, ReplyParts, AnswerInv
  <2> QED
    BY <1>1, <1>5, <1>8, <2>2
<1>9. CASE /\ cmd.op = "XREAD" /\ UNCHANGED <<log, saved>>
           /\ Answer(c, Reply("list", Batch(db[c], cmd.arg)))
  <2>1. Kept(log, cmd.arg, delivered)
    BY <1>3, <1>9 DEF Backed
  <2> DEFINE vals == Batch(db[c], cmd.arg)
  <2>2. Read(log, vals, delivered) /\ Answer(c, Reply("list", vals))
    BY <1>1, <1>9, <2>1, BatchRead
  <2> HIDE DEF vals
  <2>3. vals \in SUBSET Int
    BY <2>2 DEF Read
  <2>4. Reply("list", vals) \in Replies /\ Reply("list", vals).vals = vals
    BY <2>3, ReplyParts
  <2>5. /\ pipe' \in [Client -> Seq(Backed(log, delivered))]
        /\ db' \in [Client -> 0..Db]
    BY <1>2, <1>9, <2>2, <2>4, AnswerInv
  <2> QED
    BY <1>1, <1>5, <1>9, <2>5
<1>10. CASE cmd.op = "XREAD" /\ ServeRead(c, cmd.arg) /\ UNCHANGED <<log, saved>>
  <2>1. cmd.arg # Top
    BY <1>3, <1>10 DEF Backed, Kept, Empty, Top
  <2> QED
    BY <1>8, <1>9, <1>10, <2>1 DEF ServeRead
<1> QED
  BY <1>1, <1>6, <1>7, <1>10 DEF Serve

\* No connection, no id, nothing saved.
LEMMA StreamInitInv ==
  ASSUME StreamAssumption, ClientAssumption, StreamInit
  PROVE  StreamInv
<1>1. pipe \in [Client -> Seq(Backed(log, delivered))] /\ db \in [Client -> 0..Db]
  BY DEF StreamInit, ClientInit, ClientAssumption
<1>2. Kept(log, Empty, delivered) /\ Empty \in Int /\ log \in Seq(0..Db)
  BY DEF StreamInit, Kept, Empty, Passed
<1> QED
  BY <1>1, <1>2 DEF StreamInit, StreamInv, StreamAssumption

\* The replies that are taken from the read client's pipeline.
LEMMA ReadRepliesInv ==
  ASSUME StreamAssumption, ClientAssumption, StreamInv, startFrom # "top",
         EntriesReply \/ NilReply \/ ErrorReply
  PROVE  StreamInv'
<1> DEFINE r == Head(pipe[read]).reply.vals
<1>1. /\ startFrom \in {"persistent_id", "start"} /\ log \in Seq(0..Db) /\ delivered \subseteq 1..Len(log)
      /\ Kept(log, lastId, delivered)
      /\ db \in [Client -> 0..Db] /\ saved \in [0..Db -> Int]
      /\ \A d \in 0..Db : Kept(log, saved[d], delivered)
      /\ pipe \in [Client -> Seq(Backed(log, delivered))]
      /\ main \in Client /\ read \in Client /\ Db \in Int
  BY DEF StreamInv, StreamAssumption, ClientAssumption, main, read
<1>2. /\ Head(pipe[read]) \in Backed(log, delivered)
      /\ Pop(read) \in [Client -> Seq(Backed(log, delivered))]
      /\ Head(pipe[read]).op = "XREAD"
  <2>1. pipe[read] # <<>> /\ Head(pipe[read]).op = "XREAD"
    BY DEF EntriesReply, NilReply, ErrorReply, Arrived
  <2> QED
    BY <1>1, <2>1, PopBacked
<1>3. CASE NilReply
  <2>1. /\ pipe' = NextRead(Pop(read), lastId)
        /\ UNCHANGED <<db, log, lastId, saved, delivered, startFrom>>
    BY <1>3 DEF NilReply, streamVars
  <2>2. pipe' \in [Client -> Seq(Backed(log, delivered))]
    BY <1>1, <1>2, <2>1, NextReadBacked
  <2> QED
    BY <1>1, <2>1, <2>2 DEF StreamInv
<1>4. CASE ErrorReply
  BY <1>1, <1>2, <1>4 DEF ErrorReply, StreamInv
<1>5. CASE EntriesReply
  <2>1. /\ r # {} /\ delivered' = delivered \union r
        /\ lastId' \in {n \in r : \A m \in r : m <= n}
        /\ pipe' = NextRead(Execute(Pop(read), main, Cmd("SET", lastId')), lastId')
        /\ UNCHANGED <<db, log, saved, startFrom>>
    BY <1>5 DEF EntriesReply
  <2>2. Read(log, r, delivered)
    BY <1>2 DEF Backed
  <2> HIDE DEF r
  <2>3. lastId' \in r /\ r \subseteq 1..Len(log) /\ Len(log) \in Nat
    BY <1>1, <2>1, <2>2 DEF Read
  <2>4. Extends(log, log)
    BY <2>3 DEF Extends
  <2>5. Kept(log', lastId', delivered')
    <3>1. Passed(log, lastId', delivered \union r)
      BY <2>2, <2>3 DEF Read
    <3>2. lastId' \in Empty..Len(log)
      BY <2>3 DEF Empty
    <3> QED
      BY <2>1, <3>1, <3>2 DEF Kept
  <2>6. Backed(log, delivered) \subseteq Backed(log', delivered')
    BY <1>1, <2>1, <2>4, BackedGrows
  <2>7. Pop(read) \in [Client -> Seq(Backed(log', delivered'))]
    BY <1>2, <2>6
  <2>8. Execute(Pop(read), main, Cmd("SET", lastId')) \in [Client -> Seq(Backed(log', delivered'))]
    <3>1. Cmd("SET", lastId') \in Backed(log', delivered')
      BY <1>1, <2>5, NewCommands
    <3> QED
      BY <1>1, <2>7, <3>1, ExecuteBacked
  <2>9. pipe' \in [Client -> Seq(Backed(log', delivered'))]
    BY <2>1, <2>5, <2>8, NextReadBacked
  <2>10. \A d \in 0..Db : Kept(log', saved[d], delivered')
    BY <1>1, <2>1, <2>4, KeptGrows
  <2> QED
    BY <1>1, <2>1, <2>3, <2>5, <2>9, <2>10 DEF StreamInv
<1> QED
  BY <1>3, <1>4, <1>5

\* The replies that are taken from any pipeline or the main client's.
LEMMA OtherRepliesInv ==
  ASSUME StreamAssumption, ClientAssumption, StreamInv, startFrom # "top",
         (\E c \in Client : SelectReply(c) \/ SelectError(c)) \/ GetReply \/ SetReply
  PROVE  StreamInv'
<1>1. /\ startFrom \in {"persistent_id", "start"} /\ log \in Seq(0..Db) /\ delivered \subseteq 1..Len(log)
      /\ Kept(log, lastId, delivered)
      /\ db \in [Client -> 0..Db] /\ saved \in [0..Db -> Int]
      /\ \A d \in 0..Db : Kept(log, saved[d], delivered)
      /\ pipe \in [Client -> Seq(Backed(log, delivered))]
      /\ main \in Client /\ read \in Client /\ Db \in Int
  BY DEF StreamInv, StreamAssumption, ClientAssumption, main, read
<1>2. Kept(log, 0, delivered) /\ Kept(log, OrZero(lastId), delivered) /\ Len(log) \in Nat
  BY <1>1, ZeroPassed
<1>3. ASSUME NEW c \in Client, SelectReply(c)
      PROVE  StreamInv'
  <2>1. Pop(c) \in [Client -> Seq(Backed(log, delivered))]
    BY <1>1, <1>3, PopBacked DEF SelectReply, Selected, Arrived
  <2>2. UNCHANGED <<db, log, saved, delivered, startFrom>>
    BY <1>3 DEF SelectReply
  <2>3. CASE c # read
    BY <1>1, <1>3, <2>1, <2>2, <2>3 DEF SelectReply, StreamInv
  <2>4. CASE c = read
    <3>1. StartReading(Pop(c))
      BY <1>3, <2>4 DEF SelectReply
    <3>2. CASE pipe' = Execute(Pop(c), main, Cmd("GET", 0)) /\ UNCHANGED lastId
      <4>1. Cmd("GET", 0) \in Backed(log, delivered)
        BY <1>1, NewCommands
      <4>2. pipe' \in [Client -> Seq(Backed(log, delivered))]
        BY <1>1, <2>1, <3>2, <4>1, ExecuteBacked
      <4> QED
        BY <1>1, <2>2, <3>2, <4>2 DEF StreamInv
    <3>3. CASE lastId' \in {OrZero(lastId), 0} /\ pipe' = NextRead(Pop(c), lastId')
      <4>1. Kept(log, lastId', delivered)
        BY <1>2, <3>3
      <4>2. pipe' \in [Client -> Seq(Backed(log, delivered))]
        BY <2>1, <3>3, <4>1, NextReadBacked
      <4> QED
        BY <1>1, <2>2, <4>1, <4>2 DEF StreamInv
    <3>4. startFrom \in {"persistent_id", "start"}
      BY DEF StreamInv
    <3> QED
      BY <3>1, <3>2, <3>3, <3>4 DEF StartReading
  <2> QED
    BY <2>3, <2>4
<1>4. ASSUME NEW c \in Client, SelectError(c)
      PROVE  StreamInv'
  <2>1. Pop(c) \in [Client -> Seq(Backed(log, delivered))]
    BY <1>1, <1>4, PopBacked DEF SelectError, SelectRefused, Arrived
  <2> QED
    BY <1>1, <1>4, <2>1 DEF SelectError, SelectRefused, streamVars, StreamInv
<1>5. CASE GetReply
  <2>1. /\ Head(pipe[main]) \in Backed(log, delivered) /\ Head(pipe[main]).op = "GET"
        /\ Pop(main) \in [Client -> Seq(Backed(log, delivered))]
    BY <1>1, <1>5, PopBacked DEF GetReply, Arrived
  <2>2. PICK id \in Head(pipe[main]).reply.vals : lastId' = OrZero(id)
    BY <1>5 DEF GetReply
  <2>3. Kept(log, id, delivered)
    BY <2>1, <2>2 DEF Backed
  <2>4. Kept(log, lastId', delivered)
    BY <2>2, <2>3, ZeroPassed
  <2>5. pipe' = NextRead(Pop(main), lastId') /\ UNCHANGED <<db, log, saved, delivered, startFrom>>
    BY <1>5 DEF GetReply
  <2>6. pipe' \in [Client -> Seq(Backed(log, delivered))]
    BY <2>1, <2>4, <2>5, NextReadBacked
  <2> QED
    BY <1>1, <2>4, <2>5, <2>6 DEF StreamInv
<1>6. CASE SetReply
  <2>1. Pop(main) \in [Client -> Seq(Backed(log, delivered))]
    BY <1>1, <1>6, PopBacked DEF SetReply, Arrived
  <2> QED
    BY <1>1, <1>6, <2>1 DEF SetReply, streamVars, StreamInv
<1> QED
  BY <1>3, <1>4, <1>5, <1>6

\* Every step keeps StreamInv.
LEMMA StreamNextInv ==
  ASSUME StreamAssumption, ClientAssumption, StreamInv, [StreamNext]_vars
  PROVE  StreamInv'
<1>1. CASE startFrom = "top"
  <2>1. startFrom' = startFrom
    <3>1. ASSUME NEW c \in Client,
                 Connect(c) \/ Redial(c) \/ Serve(c) \/ SelectReply(c) \/ SelectError(c) \/ LoseContext(c)
          PROVE  startFrom' = startFrom
      BY <3>1 DEF Connect, Redial, NullReplies, Serve, SelectReply, SelectError, LoseContext, streamVars
    <3>2. CASE GetReply \/ SetReply \/ EntriesReply \/ NilReply \/ ErrorReply
      BY <3>2 DEF GetReply, SetReply, EntriesReply, NilReply, ErrorReply, streamVars
    <3>3. CASE Construct \/ Append1 \/ OnMsg \/ Crash
      BY <3>3 DEF Construct, Append1, OnMsg, Crash, streamVars
    <3>4. CASE UNCHANGED vars
      BY <3>4 DEF vars, streamVars
    <3> QED
      BY <3>1, <3>2, <3>3, <3>4 DEF StreamNext
  <2> QED
    BY <1>1, <2>1 DEF StreamInv
<1>2. CASE startFrom # "top"
  <2>1. /\ startFrom \in {"persistent_id", "start"} /\ log \in Seq(0..Db) /\ delivered \subseteq 1..Len(log)
        /\ Kept(log, lastId, delivered)
        /\ db \in [Client -> 0..Db] /\ saved \in [0..Db -> Int]
        /\ \A d \in 0..Db : Kept(log, saved[d], delivered)
        /\ pipe \in [Client -> Seq(Backed(log, delivered))]
        /\ main \in Client /\ Db \in 0..1
    BY <1>2 DEF StreamInv, StreamAssumption, ClientAssumption, main
  <2>2. ASSUME NEW c \in Client, Connect(c)
        PROVE  StreamInv'
    <3>1. Cmd("SELECT", Db) \in Backed(log, delivered)
      BY <2>1, NewCommands
    <3>2. pipe' \in [Client -> Seq(Backed(log, delivered))]
      BY <2>1, <2>2, <3>1 DEF Connect, Connected
    <3> QED
      BY <2>1, <2>2, <3>2 DEF Connect, Connected, streamVars, StreamInv
  <2>3. ASSUME NEW c \in Client, Redial(c) \/ LoseContext(c)
        PROVE  StreamInv'
    <3>1. NullReplies(c) /\ db' = [db EXCEPT ![c] = 0]
      BY <2>3 DEF Redial, LoseContext, Dial, Lost
    <3>2. db' \in [Client -> 0..Db]
      BY <2>1, <3>1
    <3> QED
      BY <1>2, <2>1, <3>1, <3>2, NullRepliesInv DEF StreamInv
  <2>4. ASSUME NEW c \in Client, Serve(c)
        PROVE  StreamInv'
    BY <1>2, <2>4, ServeInv
  <2>5. CASE EntriesReply \/ NilReply \/ ErrorReply
    BY <1>2, <2>5, ReadRepliesInv
  <2>6. CASE (\E c \in Client : SelectReply(c) \/ SelectError(c)) \/ GetReply \/ SetReply
    BY <1>2, <2>6, OtherRepliesInv
  <2>7. CASE Construct
    BY <2>1, <2>7 DEF Construct, Create, streamVars, StreamInv
  <2>11. CASE Append1
    <3>1. PICK d \in 0..Db : Add(d)
      BY <2>11 DEF Append1
    <3>2. log' \in Seq(0..Db) /\ Extends(log, log')
      BY <2>1, <3>1, AddExtends
    <3>3. UNCHANGED <<pipe, db, lastId, saved, delivered, startFrom>>
      BY <2>11 DEF Append1, clientVars
    <3> QED
      BY <2>1, <3>2, <3>3, GrownInv
  <2>8. CASE OnMsg
    <3>1. Cmd("XADD", 0) \in Backed(log, delivered)
      BY <2>1, NewCommands
    <3>2. pipe' \in [Client -> Seq(Backed(log, delivered))]
      BY <2>1, <2>8, <3>1, ExecuteBacked DEF OnMsg
    <3> QED
      BY <2>1, <2>8, <3>2 DEF OnMsg, streamVars, StreamInv
  <2>9. CASE Crash
    <3>1. pipe' \in [Client -> Seq(Backed(log, delivered))] /\ db' \in [Client -> 0..Db]
      BY <2>1, <2>9 DEF Crash
    <3>2. Kept(log, lastId', delivered)
      BY <2>1, <2>9 DEF Crash, Kept, Empty, Passed
    <3> QED
      BY <2>1, <2>9, <3>1, <3>2 DEF Crash, StreamInv
  <2>10. CASE UNCHANGED vars
    BY <2>1, <2>10 DEF vars, clientVars, streamVars, StreamInv
  <2> QED
    BY <2>2, <2>3, <2>4, <2>5, <2>6, <2>7, <2>8, <2>9, <2>10, <2>11 DEF StreamNext
<1> QED
  BY <1>1, <1>2

\* StreamInv holds in every reachable state, for any stream, any number of entries
\* per read, lost connections, refused commands and crashes (class Stream).
THEOREM StreamInvariant ==
  ASSUME StreamAssumption, ClientAssumption
  PROVE  StreamSpec => []StreamInv
<1>1. StreamInit => StreamInv
  BY StreamInitInv
<1>2. StreamInv /\ [StreamNext]_vars => StreamInv'
  BY StreamNextInv
<1> QED
  BY <1>1, <1>2, PTL DEF StreamSpec

\* At least once: neither the id in memory nor the saved one passes an entry that
\* was not sent as a message (parseReply() and saveLastId() of redis.cpp).
THEOREM StreamNoSkip ==
  ASSUME StreamAssumption, ClientAssumption
  PROVE  StreamSpec => []NoSkip
<1>1. StreamInv => NoSkip
  BY DEF StreamInv, NoSkip, Kept
<1> QED
  BY <1>1, StreamInvariant, PTL
=============================================================================
