-------------------------------- MODULE Can --------------------------------
(***************************************************************************)
(* The CAN worker (canworker.cpp) and the Qt device below it.  A frame is  *)
(* counted, never looked into.  A device either writes inside writeFrame() *)
(* and emits framesWritten from there (virtualcan, socketcan: Sync) or     *)
(* queues the frame and writes it from the event loop.  Listeners of every *)
(* event are Lua code that may call a worker again, so the C++ functions   *)
(* below a running listener are kept on the stack calls: what was called,  *)
(* and where in it the listeners run.                                      *)
(***************************************************************************)
EXTENDS Naturals, Sequences, SequencesExt

CONSTANTS Devices,       \* set of BOOLEAN: TRUE for a Sync device
          MaxMsgs        \* bound: messages scripts give to the workers

VARIABLES
  sync,                  \* the device writes inside writeFrame()
  device,                \* "connected" or "unconnected"
  framesToWrite,         \* frames the device accepted and has not written
  pendingSinceFlush,     \* CanWorker::pendingSinceFlush
  calls,                 \* C++ functions below a running listener, innermost last
  given                  \* messages given to the workers so far

canvars == <<sync, device, framesToWrite, pendingSinceFlush, calls, given>>

CanInit ==
  /\ sync \in Devices
  /\ device = "connected" /\ framesToWrite = 0
  /\ pendingSinceFlush = 0 /\ calls = <<>> /\ given = 0

(* What is on the stack: "device" and "state" are slots the event loop or  *)
(* Destroy() reached, "can" and "canfail" OnMsg inside a writeFrame() that *)
(* will return true or false, "tx" and "txfail" the same of processTx().   *)
(* In it run the listeners of "written", "error" or "state" (event), those *)
(* of "flushed" (flushed), or those of OnMsg's own "flushed" (counted).    *)
Call(op, at, item) == [op |-> op, at |-> at, item |-> item]
Emits(op) == Append(calls, Call(op, "event", 0))
Top == Last(calls)
At(at) == Append(Front(calls), Call(Top.op, at, Top.item))

AtLoop == calls = <<>>

(* Lua code runs: from the event loop, or as a listener. *)
InScript == calls # <<>> => Top.at # "peek"

(* The condition of emitFlushedIfDrained(). *)
Drained(force) == pendingSinceFlush > 0 /\ (force \/ framesToWrite = 0)

(* The listeners of an event have returned: on_framesWritten(),            *)
(* on_errorOccurred() or on_stateChanged() emits "flushed" or is done.     *)
Flush ==
  /\ calls # <<>> /\ Top.at = "event" /\ Drained(Top.op = "state")
  /\ pendingSinceFlush' = 0 /\ calls' = At("flushed")
  /\ UNCHANGED <<sync, device, framesToWrite, given>>

SlotDone(ops) ==
  /\ calls # <<>> /\ Top.op \in ops
  /\ Top.at = "flushed" \/ (Top.at = "event" /\ ~Drained(Top.op = "state"))

SlotReturns ==
  /\ SlotDone({"device", "state", "canfail"})
  /\ calls' = Front(calls)
  /\ UNCHANGED <<sync, device, framesToWrite, pendingSinceFlush, given>>

-----------------------------------------------------------------------------
(* CanWorker::OnMsg up to writeFrame(): a frame it or the device refuses   *)
(* raises; one the device fails to write raises after errorOccurred; a     *)
(* Sync device writes it, and its listeners run before it is counted.      *)
Given == InScript /\ given < MaxMsgs /\ given' = given + 1

OnMsgRefused ==
  Given /\ UNCHANGED <<sync, device, framesToWrite, pendingSinceFlush, calls>>

OnMsg ==
  /\ Given /\ device = "connected"
  /\ \/ /\ sync /\ calls' = Emits("can")
        /\ UNCHANGED <<framesToWrite, pendingSinceFlush>>
     \/ /\ ~sync /\ framesToWrite' = framesToWrite + 1
        /\ pendingSinceFlush' = pendingSinceFlush + 1
        /\ UNCHANGED calls
     \/ /\ calls' = Emits("canfail")
        /\ UNCHANGED <<framesToWrite, pendingSinceFlush>>
  /\ UNCHANGED <<sync, device>>

(* Mutant: OnMsg counts the frame and leaves the event to the device. *)
CountedOnly == FALSE

(* OnMsg looks at the device once more when it has counted the frame.      *)
CountedDrains == framesToWrite = 0

OnMsgCounts ==
  /\ SlotDone({"can"})
  /\ IF CountedDrains THEN pendingSinceFlush' = 0 /\ calls' = At("counted")
                      ELSE pendingSinceFlush' = pendingSinceFlush + 1 /\ calls' = Front(calls)
  /\ UNCHANGED <<sync, device, framesToWrite, given>>

OnMsgReturns ==
  /\ calls # <<>> /\ Top.op = "can" /\ Top.at = "counted"
  /\ calls' = Front(calls)
  /\ UNCHANGED <<sync, device, framesToWrite, pendingSinceFlush, given>>

-----------------------------------------------------------------------------
(* A queueing device writes a frame (framesWritten) or gives it up with an *)
(* error (errorOccurred).                                                  *)
DeviceTakes ==
  /\ AtLoop /\ device = "connected" /\ framesToWrite > 0
  /\ framesToWrite' = framesToWrite - 1 /\ calls' = Emits("device")
  /\ UNCHANGED <<sync, device, pendingSinceFlush, given>>

(* The device goes down; it may keep or lose what it has not written.      *)
Unconnected ==
  /\ device = "connected" /\ device' = "unconnected"
  /\ framesToWrite' \in {0, framesToWrite} /\ calls' = Emits("state")
  /\ UNCHANGED <<sync, pendingSinceFlush, given>>

StateChanged == AtLoop /\ Unconnected

(* destroy() from Lua: disconnectDevice() emits the state inside the call; *)
(* the worker is deleted when the event loop is reached.                   *)
Destroy == InScript /\ Unconnected

CanCalls == OnMsg \/ OnMsgRefused \/ Destroy
CanReturns == Flush \/ SlotReturns \/ OnMsgCounts \/ OnMsgReturns
CanNext == CanCalls \/ CanReturns \/ DeviceTakes \/ StateChanged

(***************************************************************************)
(* A script that counts a batch of frames is told "flushed" for it: no     *)
(* frame stays counted for ever, whichever way the device writes or fails, *)
(* when the interface goes down with frames in its queue, and whatever the *)
(* listeners of "written", "error" and "flushed" send meanwhile            *)
(* (emitFlushedIfDrained at every place the queue can become empty).       *)
(***************************************************************************)
FlushFollows == pendingSinceFlush > 0 ~> pendingSinceFlush = 0
=============================================================================
