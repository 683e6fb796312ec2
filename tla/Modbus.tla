------------------------------- MODULE Modbus -------------------------------
(***************************************************************************)
(* Modbus masters that share one MasterDevice (modbus.cpp and              *)
(* modbus_device.cpp): bounded read and write queues drained one request   *)
(* at a time by the frame-gap timer, polling while the device is           *)
(* connected, and writes that are retried from one inFlight record per     *)
(* register.  A callback runs inside the call that fails the request, so   *)
(* Execute() is entered again from its own overflow handling: `stack`      *)
(* holds the calls of Execute() that are under way.                        *)
(***************************************************************************)
EXTENDS Naturals, Sequences, FiniteSets

CONSTANTS
  Master,      \* the masters on the device, each with one merged read
  Reg,         \* the writable registers of all of them
  MaxWrites,   \* max_write_queue
  MaxReads,    \* max_read_queue
  Overflow,    \* on_write_overflow and on_read_overflow
  Retries,     \* write_retries
  MaxValues    \* bound on the values written to one register

ASSUME ModbusAssumption ==
  /\ MaxWrites \in Nat \ {0} /\ MaxReads \in Nat \ {0}
  /\ Overflow \in {"pop_first", "pop_last"}
  /\ Retries \in Nat /\ MaxValues \in Nat
  /\ IsFiniteSet(Reg)

VARIABLES
  created,     \* masters that exist
  polling,     \* masters whose poll timer runs
  link,        \* the state of the QModbusClient
  reads,       \* MasterDevice::reads, the masters that asked
  writes,      \* MasterDevice::writes
  sent,        \* the request that waits for its reply, <<>> if not busy
  inFlight,    \* Master::inFlight
  stack,       \* calls of Execute(op_write), outermost first
  nextId,      \* request identities, for the properties
  newest,      \* the value last asked for, per register
  lastSent,    \* the value last sent to the device
  tries,       \* how often the newest value was handed to the device
  untold       \* history: overflow removed a request without calling it back

modbusVars == <<created, polling, link, reads, writes, sent, inFlight, stack, nextId, newest,
                lastSent, tries, untold>>
historyVars == <<newest, lastSent, tries>>
linkVars == <<created, polling, link>>

NoRecord == [on |-> FALSE, unit |-> 0, left |-> 0]

ModbusInit ==
  /\ created = {}
  /\ polling = {}
  /\ link = "down"
  /\ reads = <<>>
  /\ writes = <<>>
  /\ sent = <<>>
  /\ inFlight = [r \in Reg |-> NoRecord]
  /\ stack = <<>>
  /\ nextId = 1
  /\ newest = [r \in Reg |-> 0]
  /\ lastSent = [r \in Reg |-> 0]
  /\ tries = [r \in Reg |-> 0]
  /\ untold = FALSE

AtLoop == stack = <<>>

-----------------------------------------------------------------------------
(* Connection and polling                                                  *)

\* A ModbusMaster is created; the first one starts the device.
Create(m) ==
  /\ AtLoop
  /\ m \notin created
  /\ created' = created \union {m}
  /\ UNCHANGED <<polling, link, reads, writes, sent, inFlight, stack, nextId, historyVars, untold>>

\* stateChanged(ConnectedState): every master that listens starts its poller.
Connect ==
  /\ AtLoop
  /\ created # {}
  /\ link = "down"
  /\ link' = "up"
  /\ polling' = created
  /\ UNCHANGED <<created, reads, writes, sent, inFlight, stack, nextId, historyVars, untold>>

\* stateChanged(UnconnectedState); the queues and the open reply stay.
Disconnect ==
  /\ AtLoop
  /\ link = "up"
  /\ link' = "down"
  /\ polling' = {}
  /\ UNCHANGED <<created, reads, writes, sent, inFlight, stack, nextId, historyVars, untold>>

\* q with x pushed by Execute(): at the limit one request is removed first.
Pushed(q, x, max) ==
  IF Len(q) < max THEN Append(q, x)
  ELSE IF Overflow = "pop_first" THEN Append(Tail(q), x)
  ELSE Append(SubSeq(q, 1, Len(q) - 1), x)

\* Master::poll; a read that is removed only logs an error.
Poll(m) ==
  /\ AtLoop
  /\ m \in polling
  /\ reads' = Pushed(reads, m, MaxReads)
  /\ UNCHANGED <<linkVars, writes, sent, inFlight, stack, nextId, historyVars, untold>>

-----------------------------------------------------------------------------
(* Writes                                                                  *)

\* A call of Execute() for one write: the request, and the one its overflow
\* handling has called back (0 before that).
Frame(id, r, unit) == [req |-> [id |-> id, reg |-> r, unit |-> unit], victim |-> 0]

\* Mutant of OnMsg: the record of a write under way keeps its old unit.
OnMsgKeepsRecord(r) ==
  /\ AtLoop
  /\ created # {}
  /\ newest[r] < MaxValues
  /\ newest' = [newest EXCEPT ![r] = @ + 1]
  /\ tries' = [tries EXCEPT ![r] = 0]
  /\ inFlight' = IF inFlight[r].on THEN inFlight
                 ELSE [inFlight EXCEPT ![r] = [on |-> TRUE, unit |-> newest'[r], left |-> Retries]]
  /\ stack' = <<Frame(nextId, r, newest'[r])>>
  /\ nextId' = nextId + 1
  /\ UNCHANGED <<linkVars, reads, writes, sent, lastSent, untold>>

\* Master::OnMsg for one register: a new record, and a write of it.
OnMsg(r) ==
  /\ AtLoop
  /\ created # {}
  /\ newest[r] < MaxValues
  /\ newest' = [newest EXCEPT ![r] = @ + 1]
  /\ tries' = [tries EXCEPT ![r] = 0]
  /\ inFlight' = [inFlight EXCEPT ![r] = [on |-> TRUE, unit |-> newest'[r], left |-> Retries]]
  /\ stack' = <<Frame(nextId, r, newest'[r])>>
  /\ nextId' = nextId + 1
  /\ UNCHANGED <<linkVars, reads, writes, sent, lastSent, untold>>

\* Master::retry, called by a failed write's callback from within `calls`.
Retry(r, calls) ==
  LET rec == inFlight[r] IN
  /\ IF rec.on /\ rec.left > 0
       THEN /\ inFlight' = [inFlight EXCEPT ![r] = [on |-> TRUE, unit |-> rec.unit,
                                                     left |-> rec.left - 1]]
            /\ stack' = Append(calls, Frame(nextId, r, rec.unit))
            /\ nextId' = nextId + 1
       ELSE /\ stack' = calls
            /\ UNCHANGED <<inFlight, nextId>>

\* The request the overflow is going to remove.
Victim == IF Overflow = "pop_first" THEN Head(writes) ELSE writes[Len(writes)]

\* Mutant of OverflowCall: the removed request is queued again uncounted.
OverflowRequeue ==
  LET top == stack[Len(stack)] IN
  /\ stack # <<>>
  /\ top.victim = 0
  /\ Len(writes) >= MaxWrites
  /\ stack' = Append([stack EXCEPT ![Len(stack)].victim = Victim.id],
                     Frame(nextId, Victim.reg, Victim.unit))
  /\ nextId' = nextId + 1
  /\ UNCHANGED <<linkVars, reads, writes, sent, inFlight, historyVars, untold>>

\* Execute() finds the queue full: the callback of the request to be removed is
\* called while that request is still in the queue.
OverflowCall ==
  LET top == stack[Len(stack)] IN
  /\ stack # <<>>
  /\ top.victim = 0
  /\ Len(writes) >= MaxWrites
  /\ UNCHANGED <<linkVars, reads, writes, sent, historyVars, untold>>
  /\ Retry(Victim.reg,
           [stack EXCEPT ![Len(stack)] = [req |-> top.req, victim |-> Victim.id]])

Ids(q) == {q[i].id : i \in 1..Len(q)}

\* The rest of Execute(): whatever is at that end of the queue by now is
\* removed, and the request is appended.
ExecuteEnd ==
  LET top == stack[Len(stack)] IN
  /\ stack # <<>>
  /\ top.victim # 0 \/ Len(writes) < MaxWrites
  /\ IF top.victim = 0
       THEN writes' = Append(writes, top.req) /\ UNCHANGED untold
       ELSE /\ writes' = Pushed(writes, top.req, Len(writes))
            /\ untold' = (untold \/ Ids(writes) \ Ids(writes') # {top.victim})
  /\ stack' = SubSeq(stack, 1, Len(stack) - 1)
  /\ UNCHANGED <<linkVars, reads, sent, inFlight, nextId, historyVars>>

-----------------------------------------------------------------------------
(* The device                                                              *)

\* The request counts as an attempt to write its value, if that is the newest.
Tried(req) ==
  IF req.unit = newest[req.reg] THEN [tries EXCEPT ![req.reg] = @ + 1] ELSE tries

\* nextReq takes a write if there is one, and the device accepts it.
SendWrite ==
  LET req == Head(writes) IN
  /\ AtLoop
  /\ link = "up" /\ sent = <<>>
  /\ writes # <<>>
  /\ writes' = Tail(writes)
  /\ sent' = <<req>>
  /\ lastSent' = [lastSent EXCEPT ![req.reg] = req.unit]
  /\ tries' = Tried(req)
  /\ UNCHANGED <<linkVars, reads, inFlight, stack, nextId, newest, untold>>

\* ... or the device refuses it: the callback is called at once.
SendRefused ==
  LET req == Head(writes) IN
  /\ AtLoop
  /\ link = "up" /\ sent = <<>>
  /\ writes # <<>>
  /\ writes' = Tail(writes)
  /\ tries' = Tried(req)
  /\ Retry(req.reg, <<>>)
  /\ UNCHANGED <<linkVars, reads, sent, newest, lastSent, untold>>

\* nextReq takes a read when no write waits; the device may refuse it, which
\* is only logged.
SendRead ==
  /\ AtLoop
  /\ link = "up" /\ sent = <<>>
  /\ writes = <<>> /\ reads # <<>>
  /\ reads' = Tail(reads)
  /\ sent' \in {<<Head(reads)>>, <<>>}
  /\ UNCHANGED <<linkVars, writes, inFlight, stack, nextId, historyVars, untold>>

\* Mutant of ReadReply: busy is not reset.
ReadReplyStaysBusy ==
  /\ AtLoop
  /\ sent # <<>> /\ sent[1] \in Master
  /\ UNCHANGED modbusVars

\* The reply to a read, or its failure: no effect on requests or records.
ReadReply ==
  /\ AtLoop
  /\ sent # <<>> /\ sent[1] \in Master
  /\ sent' = <<>>
  /\ UNCHANGED <<linkVars, reads, writes, inFlight, stack, nextId, historyVars, untold>>

\* Master::ok: the register's record is erased.
WriteOk ==
  /\ AtLoop
  /\ sent # <<>> /\ sent[1] \notin Master
  /\ sent' = <<>>
  /\ inFlight' = [inFlight EXCEPT ![sent[1].reg] = NoRecord]
  /\ UNCHANGED <<linkVars, reads, writes, stack, nextId, historyVars, untold>>

\* An error reply, a timeout, or the connection lost under the request.
WriteFailed ==
  /\ AtLoop
  /\ sent # <<>> /\ sent[1] \notin Master
  /\ sent' = <<>>
  /\ UNCHANGED <<linkVars, reads, writes, historyVars, untold>>
  /\ Retry(sent[1].reg, <<>>)

-----------------------------------------------------------------------------
ModbusNext ==
  \/ \E m \in Master : Create(m) \/ Poll(m)
  \/ Connect \/ Disconnect
  \/ \E r \in Reg : OnMsg(r)
  \/ OverflowCall \/ ExecuteEnd
  \/ SendWrite \/ SendRefused \/ SendRead
  \/ ReadReply \/ WriteOk \/ WriteFailed

ModbusSpec == ModbusInit /\ [][ModbusNext]_modbusVars

\* The reconnect timer keeps trying and succeeds in the end, the frame-gap
\* timer keeps firing while connected, every request gets a reply or a timeout,
\* and Execute() runs to its end.  The device need not accept anything.
ModbusFairness ==
  /\ WF_modbusVars(OverflowCall \/ ExecuteEnd)
  /\ WF_modbusVars(Connect)
  /\ SF_modbusVars(SendWrite \/ SendRefused)
  /\ WF_modbusVars(ReadReply \/ WriteOk \/ WriteFailed)

FairModbusSpec == ModbusSpec /\ ModbusFairness

-----------------------------------------------------------------------------
(* Properties                                                              *)

Request == [id : Nat \ {0}, reg : Reg, unit : 1..MaxValues]
Call == [req : Request, victim : Nat]

\* The state has its types; retriesLeft is an unsigned that never wraps.
ModbusTypeOK ==
  /\ created \subseteq Master /\ polling \subseteq created
  /\ link \in {"down", "up"}
  /\ reads \in Seq(Master) /\ writes \in Seq(Request)
  /\ sent \in Seq(Master \union Request) /\ Len(sent) <= 1
  /\ inFlight \in [Reg -> [on : BOOLEAN, unit : 0..MaxValues, left : 0..Retries]]
  /\ stack \in Seq(Call)
  /\ nextId \in Nat \ {0}
  /\ newest \in [Reg -> 0..MaxValues] /\ lastSent \in [Reg -> 0..MaxValues]
  /\ tries \in [Reg -> Nat]

\* The queues never outgrow their limits, not even between the nested calls of
\* Execute().
QueuesBounded == Len(writes) <= MaxWrites /\ Len(reads) <= MaxReads

\* Execute() calls itself at most once per retry the records have left.
RecursionBounded == Len(stack) <= Cardinality(Reg) * Retries + 1

\* An old value is never sent after a newer one of the same register, however
\* retries, overflows and new messages interleave.
NoStaleWrite == [][\A r \in Reg : lastSent'[r] >= lastSent[r]]_modbusVars

\* A value is handed to the device at most write_retries + 1 times, also when a
\* newer value shares the record with an older request that fails.
TriesBounded == \A r \in Reg : tries[r] <= Retries + 1

\* A request the overflow removes is the one whose callback was told so, and
\* no other write disappears with it.
RemovedIsTold == ~untold

\* Once messages stop, the write queue drains, over any number of reconnects.
WritesDrain == writes # <<>> ~> writes = <<>>

-----------------------------------------------------------------------------
(* What the properties above rest on                                       *)

\* A record holds the newest value of its register, and so does every request
\* Execute() is working on: no message comes in while it runs.
NewestUnderWay ==
  /\ \A r \in Reg : inFlight[r].on => inFlight[r].unit = newest[r] /\ newest[r] > 0
  /\ \A i \in 1..Len(stack) : stack[i].req.unit = newest[stack[i].req.reg]

\* The requests of one register are queued in the order of their values, none
\* older than the one that was sent and none newer than the newest.
WritesInOrder ==
  /\ \A i, j \in 1..Len(writes) :
       i < j /\ writes[i].reg = writes[j].reg => writes[i].unit <= writes[j].unit
  /\ \A i \in 1..Len(writes) : writes[i].unit \in lastSent[writes[i].reg]..newest[writes[i].reg]
  /\ \A r \in Reg : lastSent[r] <= newest[r]

\* No two requests under way are the same one.
IdsDistinct ==
  /\ \A i \in 1..Len(writes) : writes[i].id < nextId
  /\ \A i \in 1..Len(stack) : stack[i].req.id < nextId
  /\ \A i, j \in 1..Len(writes) : writes[i].id = writes[j].id => i = j
  /\ \A i, j \in 1..Len(stack) : stack[i].req.id = stack[j].req.id => i = j
  /\ \A i \in 1..Len(writes), j \in 1..Len(stack) : writes[i].id # stack[j].req.id

\* Once a call of Execute() has called a victim back the queue stays full, so
\* that what it removes afterwards exists.
FullWhileRemoving == \A i \in 1..Len(stack) : stack[i].victim # 0 => Len(writes) = MaxWrites

\* The requests under way that carry the newest value of a register.
Carries(q, r) == q.reg = r /\ q.unit = newest[r]
Open(r) ==
  {n \in 1..nextId : \/ \E i \in 1..Len(writes) : writes[i].id = n /\ Carries(writes[i], r)
                     \/ \E i \in 1..Len(stack) : stack[i].req.id = n /\ Carries(stack[i].req, r)}

\* Tries, requests under way and retries left share the budget of a value.
TriesPaid == \A r \in Reg : tries[r] + inFlight[r].left + Cardinality(Open(r)) <= Retries + 1

\* Every nested call of Execute() has taken one of the retries the records had.
Credits == {c \in Reg \X (1..Retries) : c[2] <= inFlight[c[1]].left}
NestingPaid == Len(stack) + Cardinality(Credits) <= Cardinality(Reg) * Retries + 1

\* The invariants together: the queues, the nesting of Execute() and the tries of
\* a write keep their limits.
ModbusInv ==
  /\ ModbusTypeOK /\ QueuesBounded /\ RecursionBounded /\ TriesBounded
  /\ NewestUnderWay /\ WritesInOrder /\ IdsDistinct /\ FullWhileRemoving
  /\ TriesPaid /\ NestingPaid
=============================================================================
