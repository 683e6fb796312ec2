------------------------------- MODULE Cyphal -------------------------------
(***************************************************************************)
(* The Cyphal node (cyphalworker.cpp) on the device of a CAN worker: the   *)
(* transmit queue of libcanard and processTx(), publications, heartbeat,   *)
(* local services and the frames of requests.  A transfer is one frame,    *)
(* known by its number.  libcanard (external) orders its queue by CAN id.  *)
(* What becomes of a request is in CyphalRequests.                         *)
(***************************************************************************)
EXTENDS Can, FiniteSets

CONSTANTS TxCap,         \* tx_cap, in frames
          MaxItems       \* bound: frames put in the queue

ASSUME CyphalAssumption == TxCap \in Nat /\ MaxItems \in Nat

VARIABLES
  can,                   \* the QPointer to the CAN worker is not null
  tx,                    \* canard's queue: sequence of [n, id, old]
  in_process_tx,
  pushed,                \* frames put in the queue so far; numbers them
  sent,                  \* [1..MaxItems -> how often the frame was written]
  dropped,               \* frames dropped as expired
  jobs,                  \* local service calls whose handler has not ended
  broken                 \* undefined behaviour was reached

vars == <<canvars, can, tx, in_process_tx, pushed, sent, dropped, jobs, broken>>

devicevars == <<sync, device, framesToWrite, pendingSinceFlush>>
queuevars == <<can, dropped, jobs, broken>>

CyphalInit ==
  /\ CanInit /\ can = TRUE /\ tx = <<>> /\ in_process_tx = FALSE
  /\ pushed = 0 /\ sent = [n \in 1..MaxItems |-> 0] /\ dropped = {}
  /\ jobs = 0 /\ broken = FALSE

-----------------------------------------------------------------------------
(* Messages have lower CAN ids than service transfers; canardTxPush keeps  *)
(* the queue in the order of the ids, and frames of one id in their order. *)
Message == 1
HeartbeatMsg == 2
ServiceTransfer == 3

Item(n, id, old) == [n |-> n, id |-> id, old |-> old]

NotAfter(id) == {i \in 1..Len(tx) : tx[i].id <= id}

Enqueued(id) == InsertAt(tx, Cardinality(NotAfter(id)) + 1, Item(pushed + 1, id, FALSE))

Room == Len(tx) < TxCap

(* Mutant: processTx() may be entered while it is running. *)
EntersAlways == TRUE

(* processTx() is entered unless it is already below us on the stack: its  *)
(* first act is the exchange of in_process_tx.                             *)
Enters == ~in_process_tx

ProcessTx ==
  IF Enters /\ can
    THEN /\ calls' = Append(calls, Call("tx", "peek", 0))
         /\ in_process_tx' = TRUE
    ELSE UNCHANGED <<calls, in_process_tx>>

ProcessTxOnly == ProcessTx /\ UNCHANGED <<devicevars, tx, pushed, sent>>

(* pushMsg() and the processTx() behind it; without room pushMsg raises.   *)
PushMsg(id) ==
  /\ pushed < MaxItems /\ pushed' = pushed + 1
  /\ tx' = Enqueued(id)
  /\ ProcessTx
  /\ UNCHANGED <<devicevars, sent>>

Running == ~broken

OnMsgPublish ==
  /\ Running /\ Given
  /\ IF Room THEN PushMsg(Message) ELSE ProcessTxOnly
  /\ UNCHANGED queuevars

(* A tick of the heartbeat timer: also the retry of a queue that is stuck. *)
Heartbeat ==
  /\ Running /\ AtLoop
  /\ IF Room /\ pushed < MaxItems THEN PushMsg(HeartbeatMsg) ELSE ProcessTxOnly
  /\ UNCHANGED <<given, queuevars>>

(* Request() as far as the queue goes: without room it raises. *)
RequestPush ==
  /\ Running /\ Given
  /\ IF Room THEN PushMsg(ServiceTransfer)
             ELSE UNCHANGED <<devicevars, calls, tx, in_process_tx, pushed, sent>>
  /\ UNCHANGED queuevars

-----------------------------------------------------------------------------
(* The loop of processTx(), on top of the stack.                           *)
InTx == calls # <<>> /\ Top.op = "tx" /\ Top.at = "peek"

Leave == calls' = Front(calls) /\ in_process_tx' = FALSE

TxDone ==
  /\ InTx /\ tx = <<>> /\ Leave
  /\ UNCHANGED <<devicevars, given, tx, pushed, sent, queuevars>>

TxExpired ==
  /\ InTx /\ tx # <<>> /\ Head(tx).old
  /\ tx' = Tail(tx) /\ dropped' = dropped \cup {Head(tx).n}
  /\ UNCHANGED <<canvars, in_process_tx, pushed, sent, can, jobs, broken>>

Written == sent' = [sent EXCEPT ![Head(tx).n] = @ + 1]

TxWrite ==
  /\ InTx /\ tx # <<>> /\ ~Head(tx).old /\ device = "connected" /\ Written
  /\ IF sync
       THEN /\ calls' = Append(Front(calls), Call("tx", "event", Head(tx).n))
            /\ UNCHANGED <<tx, framesToWrite>>
       ELSE /\ tx' = Tail(tx) /\ framesToWrite' = framesToWrite + 1
            /\ UNCHANGED calls
  /\ UNCHANGED <<sync, device, pendingSinceFlush, given, in_process_tx, pushed, queuevars>>

(* canardTxPop() of the item that was peeked, after the listeners of       *)
(* framesWritten returned.                                                 *)
TxPop ==
  LET n == Top.item IN
  /\ SlotDone({"tx"})
  /\ IF \E i \in 1..Len(tx) : tx[i].n = n
       THEN /\ \E i \in 1..Len(tx) : tx[i].n = n /\ tx' = RemoveAt(tx, i)
            /\ UNCHANGED broken
       ELSE broken' = TRUE /\ UNCHANGED tx
  /\ calls' = Append(Front(calls), Call("tx", "peek", 0))
  /\ UNCHANGED <<devicevars, given, in_process_tx, pushed, sent, can, dropped, jobs>>

(* writeFrame() refuses or fails: the item stays queued for the next       *)
(* processTx().  A connected device reports the failure to its listeners   *)
(* before writeFrame() returns.                                            *)
TxRefused ==
  /\ InTx /\ tx # <<>> /\ ~Head(tx).old /\ device = "unconnected" /\ Leave
  /\ UNCHANGED <<devicevars, given, tx, pushed, sent, queuevars>>

TxFails ==
  /\ InTx /\ tx # <<>> /\ ~Head(tx).old /\ device = "connected"
  /\ calls' = Append(Front(calls), Call("txfail", "event", 0))
  /\ UNCHANGED <<devicevars, given, tx, in_process_tx, pushed, sent, queuevars>>

TxFailed ==
  /\ SlotDone({"txfail"}) /\ Leave
  /\ UNCHANGED <<devicevars, given, tx, pushed, sent, queuevars>>

-----------------------------------------------------------------------------
(* A request of another node: GetInfo is answered at once, a local service *)
(* when its handler's future is settled; an error is only logged.          *)
OnGetInfo ==
  /\ Running /\ AtLoop
  /\ IF Room THEN PushMsg(ServiceTransfer) /\ UNCHANGED given
             ELSE UNCHANGED <<canvars, tx, in_process_tx, pushed, sent>>
  /\ UNCHANGED queuevars

OnRequest ==
  /\ Running /\ AtLoop /\ jobs = 0 /\ jobs' = 1
  /\ UNCHANGED <<canvars, tx, in_process_tx, pushed, sent, can, dropped, broken>>

HandleLocalResp ==
  /\ Running /\ InScript /\ jobs = 1 /\ jobs' = 0
  /\ \/ Room /\ PushMsg(ServiceTransfer) /\ UNCHANGED given
     \/ UNCHANGED <<canvars, tx, in_process_tx, pushed, sent>>
  /\ UNCHANGED <<can, dropped, broken>>

(* Time passes: the deadlines of the queued frames with it. *)
Expired == [i \in 1..Len(tx) |-> Item(tx[i].n, tx[i].id, TRUE)]

Age ==
  /\ Running /\ AtLoop /\ \E i \in 1..Len(tx) : ~tx[i].old
  /\ tx' = Expired
  /\ UNCHANGED <<canvars, in_process_tx, pushed, sent, queuevars>>

(* The CAN worker, destroyed before, is deleted. *)
CanDeleted ==
  /\ Running /\ AtLoop /\ device = "unconnected" /\ can /\ can' = FALSE
  /\ UNCHANGED <<canvars, tx, in_process_tx, pushed, sent, dropped, jobs, broken>>

TxStep == TxDone \/ TxExpired \/ TxWrite \/ TxPop \/ TxRefused \/ TxFails \/ TxFailed

CyphalStep ==
  \/ OnMsgPublish \/ Heartbeat \/ RequestPush \/ OnGetInfo \/ OnRequest \/ HandleLocalResp
  \/ TxStep \/ Age \/ CanDeleted

CanStep ==
  /\ Running /\ can /\ CanNext
  /\ UNCHANGED <<tx, in_process_tx, pushed, sent, queuevars>>

Next == CyphalStep \/ CanStep

(* C++ functions and listeners return; the event loop keeps serving the    *)
(* device, however often it is busy with other events in between.          *)
Fairness ==
  /\ WF_vars(TxStep \/ (CanStep /\ CanReturns))
  /\ SF_vars(CanStep /\ DeviceTakes)

Spec == CyphalInit /\ [][Next]_vars /\ Fairness

-----------------------------------------------------------------------------
(* The frames in the queue, and the one a listener of framesWritten runs   *)
(* for while processTx() has still to take it out of the queue.            *)
Queued == {tx[i].n : i \in 1..Len(tx)}
WritingAt(i) == calls[i].op = "tx" /\ calls[i].at # "peek"
Writing == {calls[i].item : i \in {j \in 1..Len(calls) : WritingAt(j)}}

(***************************************************************************)
(* processTx() takes every frame out of the queue exactly once: a frame is *)
(* queued, written or expired, it is never written twice nor written and   *)
(* expired, and the item that is popped is still there, although listeners *)
(* of framesWritten push frames of lower CAN ids while it is written and a *)
(* write that failed is tried again.                                       *)
(***************************************************************************)
EachFrameOnce ==
  /\ Writing \subseteq Queued
  /\ \A n \in 1..pushed :
       /\ sent[n] \in {0, 1}
       /\ n \in Queued => n \notin dropped /\ (sent[n] = 1 <=> n \in Writing)
       /\ n \notin Queued => (sent[n] = 1 <=> n \notin dropped)

-----------------------------------------------------------------------------
(* What EachFrameOnce rests on                                             *)

Items == [n : 1..MaxItems, id : 1..3, old : BOOLEAN]
Frame == [op : {"tx", "txfail", "can", "canfail", "device", "state"},
          at : {"peek", "event", "flushed", "counted"}, item : Nat]

QueueTypeOK ==
  /\ calls \in Seq(Frame) /\ tx \in Seq(Items) /\ in_process_tx \in BOOLEAN
  /\ pushed \in 0..MaxItems /\ sent \in [1..MaxItems -> Nat] /\ dropped \subseteq 1..MaxItems

(* One processTx() at most is on the stack, and it has set its flag.       *)
InProcessTx(f) == f.op \in {"tx", "txfail"}
OneProcessTx ==
  /\ \A i \in 1..Len(calls) : InProcessTx(calls[i]) => in_process_tx
  /\ \A i, j \in 1..Len(calls) : InProcessTx(calls[i]) /\ InProcessTx(calls[j]) => i = j

(* The queued frames are distinct and have been numbered.                  *)
QueueDistinct ==
  /\ \A i \in 1..Len(tx) : tx[i].n <= pushed
  /\ \A i, j \in 1..Len(tx) : tx[i].n = tx[j].n => i = j
  /\ \A n \in 1..MaxItems : n > pushed => sent[n] = 0 /\ n \notin dropped

QueueInv == QueueTypeOK /\ OneProcessTx /\ QueueDistinct /\ EachFrameOnce
=============================================================================
