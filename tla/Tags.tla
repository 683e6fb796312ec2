-------------------------------- MODULE Tags --------------------------------
(***************************************************************************)
(* The tag registry (tags.cpp): one tag per field of a worker, named       *)
(* "worker:field", with a quality that follows the worker's messages and   *)
(* its link events.  Listeners run inside notifyTag() and may make workers *)
(* publish or lose their link, so the loops of onWorkerMsg() and           *)
(* setWorkerQuality() that are below a listener are kept on the stack      *)
(* loops.  A name is a sequence of characters, since tags are found by the *)
(* prefix of their name; values and time stamps are left out.              *)
(***************************************************************************)
EXTENDS Naturals, Sequences, SequencesExt, FiniteSets

CONSTANTS Names,         \* names of workers (no ':' in them, worker.cpp)
          Fields,        \* fields of their messages, after Flatten()
          Depth,         \* bound: nesting of messages and events
          MaxCalls       \* bound: messages, events, workers and subscriptions

ASSUME TagsAssumption ==
  /\ \A n \in Names : n \in Seq(STRING) /\ n # <<>> /\ \A i \in 1..Len(n) : n[i] # ":"
  /\ Fields \subseteq STRING
  /\ Depth \in Nat /\ MaxCalls \in Nat

VARIABLES
  tags,                  \* _tags: name -> [quality, source], for the tags there are
  alive,                 \* names of the workers that exist
  loops,                 \* loops and notifications below, innermost last
  calls,                 \* what happened so far, counted
  lost                   \* tags nothing made good since their worker lost its link

tagsVars == <<tags, alive, loops, calls, lost>>

NoSource == <<>>
TagName(n, f) == n \o <<":", f>>
TagsOf(n, fields) == {TagName(n, f) : f \in fields}
AllTags == UNION {TagsOf(n, Fields) : n \in Names}
NewTag == [quality |-> "comm_fail", source |-> NoSource]

TagsInit ==
  tags = <<>> /\ alive = {} /\ loops = <<>> /\ calls = 0 /\ lost = {}

(* Lua code runs: from the event loop or inside a notification. *)
LuaRuns == loops # <<>> => Last(loops).job = "notify"

Counted == calls < MaxCalls /\ calls' = calls + 1

Has(t) == t \in DOMAIN tags

WithTag(t, tag) == [u \in DOMAIN tags \cup {t} |-> IF u = t THEN tag ELSE tags[u]]

(* _tags[name]: the tag, inserted when there is none. *)
Tag(t) == IF Has(t) THEN tags[t] ELSE NewTag

(* it.key().startsWith(wname + ":") *)
Covers(n, t) == IsPrefix(n \o <<":">>, t)

(* Worker::Worker() refuses a name another worker has.                     *)
Taken(n) == n \in alive

(* A worker is made, and onWorkerCreated() adopts its tags that have no    *)
(* source.  Modbus and Cyphal workers Advertise() their fields, from the   *)
(* constructor and so before that.                                         *)
Create(n, fields) ==
  /\ LuaRuns /\ Counted /\ ~Taken(n)
  /\ alive' = alive \cup {n}
  /\ tags' = [t \in DOMAIN tags \cup TagsOf(n, fields) |->
                IF t \in TagsOf(n, fields) THEN [quality |-> "comm_fail", source |-> n]
                ELSE IF Covers(n, t) /\ tags[t].source = NoSource
                       THEN [quality |-> tags[t].quality, source |-> n]
                ELSE tags[t]]
  /\ UNCHANGED <<loops, lost>>

(* The QObject is deleted, from the event loop: the QPointers to it become *)
(* null and its tags keep their quality.                                   *)
Delete(n) ==
  /\ loops = <<>> /\ Counted /\ n \in alive
  /\ alive' = alive \ {n}
  /\ tags' = [t \in DOMAIN tags |->
                IF tags[t].source = n THEN [quality |-> tags[t].quality, source |-> NoSource]
                                      ELSE tags[t]]
  /\ UNCHANGED <<loops, lost>>

Subscribe(t) ==
  /\ LuaRuns /\ Counted /\ ~Has(t)
  /\ tags' = WithTag(t, NewTag)
  /\ UNCHANGED <<alive, loops, lost>>

-----------------------------------------------------------------------------
Nested == LuaRuns /\ Len(loops) < 2 * Depth

Loop(job, n, quality, todo) ==
  [job |-> job, worker |-> n, quality |-> quality, todo |-> todo]

(* worker_notify() hands a message to onWorkerMsg() before the listeners.  *)
OnWorkerMsg(n, fields) ==
  /\ Nested /\ Counted /\ n \in alive
  /\ loops' = Append(loops, Loop("message", n, "good", TagsOf(n, fields)))
  /\ UNCHANGED <<tags, alive, lost>>

(* What is left of the innermost loop once t has been looked at, and       *)
(* notifyTag() on top of it.                                               *)
Rest(t) ==
  LET top == Last(loops)
  IN Append(Front(loops), Loop(top.job, top.worker, top.quality, top.todo \ {t}))
NotifyTag(t) == loops' = Append(Rest(t), Loop("notify", Last(loops).worker, "good", {}))

UpdateTag(t) ==
  /\ loops # <<>> /\ Last(loops).job = "message" /\ t \in Last(loops).todo
  /\ tags' = WithTag(t, [quality |-> "good",
                         source |-> IF Tag(t).source = NoSource THEN Last(loops).worker
                                                                ELSE Tag(t).source])
  /\ lost' = lost \ {t}
  /\ NotifyTag(t)
  /\ UNCHANGED <<alive, calls>>

Lost(ev) == ev \in {"state disconnected", "disconnected", "both"}
Back(ev) == ev \in {"state connected", "connected"}
Events == {"state disconnected", "state connected", "disconnected", "connected", "both",
           "other"}

(* Mutant: only the "state" field of an event is looked at. *)
LinkOfState(ev) ==
  IF ev = "state disconnected" THEN "comm_fail"
  ELSE IF ev = "state connected" THEN "good" ELSE "none"

(* What onWorkerEvent() reads in an event: the state names of sockets and  *)
(* devices, or a "disconnected" or "connected" field; disconnected wins.   *)
LinkOf(ev) ==
  IF Lost(ev) THEN "comm_fail" ELSE IF Back(ev) THEN "good" ELSE "none"

(* A link event comes from a socket or a device, or from a listener:       *)
(* SendEvent is a direct connection, and destroy() of a CAN worker         *)
(* disconnects its device on the spot.                                     *)
OnWorkerEvent(n, ev) ==
  /\ Nested /\ Counted /\ n \in alive
  /\ loops' = IF LinkOf(ev) = "none" THEN loops
              ELSE Append(loops, Loop("quality", n, LinkOf(ev), AllTags))
  /\ lost' = IF Lost(ev) THEN lost \cup (TagsOf(n, Fields) \cap DOMAIN tags)
             ELSE IF Back(ev) THEN lost \ TagsOf(n, Fields) ELSE lost
  /\ UNCHANGED <<tags, alive>>

(* setWorkerQuality(): the loop over _tags, which listeners may extend.    *)
(* One that announces a link goes on when the link is lost below it.       *)
SetWorkerQuality(t) ==
  /\ loops # <<>> /\ Last(loops).job = "quality" /\ t \in Last(loops).todo /\ Has(t)
  /\ IF ~Covers(Last(loops).worker, t) \/ tags[t].quality = Last(loops).quality
       THEN loops' = Rest(t) /\ UNCHANGED <<tags, lost>>
       ELSE /\ tags' = WithTag(t, [quality |-> Last(loops).quality, source |-> tags[t].source])
            /\ lost' = IF Last(loops).quality = "good" THEN lost \ {t} ELSE lost
            /\ NotifyTag(t)
  /\ UNCHANGED <<alive, calls>>

(* A loop is through, or the listeners of a notification have returned.    *)
Return ==
  /\ loops # <<>>
  /\ Last(loops).todo \cap (IF Last(loops).job = "quality" THEN DOMAIN tags ELSE AllTags) = {}
  /\ loops' = Front(loops)
  /\ UNCHANGED <<tags, alive, calls, lost>>

TagsNext ==
  \/ \E n \in Names : \/ \E fields \in SUBSET Fields : Create(n, fields)
                      \/ Delete(n)
                      \/ \E fields \in SUBSET Fields \ {{}} : OnWorkerMsg(n, fields)
                      \/ \E ev \in Events : OnWorkerEvent(n, ev)
  \/ \E t \in AllTags : Subscribe(t) \/ UpdateTag(t) \/ SetWorkerQuality(t)
  \/ Return

TagsSpec == TagsInit /\ [][TagsNext]_tagsVars

-----------------------------------------------------------------------------
(***************************************************************************)
(* The worker a tag names as its source is the one whose field it is, and  *)
(* exists: names that are prefixes of each other, workers deleted and made *)
(* again, and subscriptions ahead of the worker do not mix them up.        *)
(***************************************************************************)
SourceOwnsTag ==
  \A t \in DOMAIN tags :
    tags[t].source # NoSource =>
      tags[t].source \in alive /\ t \in TagsOf(tags[t].source, Fields)

(***************************************************************************)
(* Once the registry is at rest, a tag whose worker reported the loss of   *)
(* its link shows comm_fail, whatever the listeners did while the loss was *)
(* being announced, unless a message or an announcement of a link came to  *)
(* it since: a later one, or one whose loop was below the listener that    *)
(* made the worker lose its link.                                          *)
(***************************************************************************)
LostLinkShows ==
  loops = <<>> => \A t \in lost : tags[t].quality = "comm_fail"

(* The types of the variables.                                             *)
TagsTypeOK ==
  /\ DOMAIN tags \subseteq AllTags
  /\ tags \in [DOMAIN tags -> [quality : {"comm_fail", "good"}, source : Names \cup {NoSource}]]
  /\ alive \subseteq Names
  /\ loops \in Seq([job : {"message", "quality", "notify"}, worker : Names,
                    quality : {"comm_fail", "good"}, todo : SUBSET AllTags])
  /\ calls \in Nat /\ lost \subseteq DOMAIN tags

(* A message's loop is its own worker's, which exists.                     *)
LoopsSound ==
  \A i \in 1..Len(loops) : loops[i].job = "message" =>
    loops[i].worker \in alive /\ loops[i].todo \subseteq TagsOf(loops[i].worker, Fields)

(* A lost tag that is still shown as good is one a loop on the stack that  *)
(* announces the loss is about to come to.                                 *)
Shows(f, t) ==
  /\ f.job = "quality" /\ f.quality = "comm_fail"
  /\ t \in f.todo /\ t \in TagsOf(f.worker, Fields)
ToBeShown(stack, t) == \E i \in 1..Len(stack) : Shows(stack[i], t)
LossAnnounced == \A t \in lost : tags[t].quality = "comm_fail" \/ ToBeShown(loops, t)

(* Both together: who owns a tag, and whether its quality can be trusted,  *)
(* and what that rests on.                                                 *)
TagsSound == TagsTypeOK /\ SourceOwnsTag /\ LostLinkShows /\ LoopsSound /\ LossAnnounced
=============================================================================
