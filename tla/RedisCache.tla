----------------------------- MODULE RedisCache -----------------------------
(***************************************************************************)
(* RedisCache: a hash of the server mirrored through two clients.  When    *)
(* both are up, keyevent notifications are enabled and the hash is read    *)
(* (HGETALL on one client) and watched (PSUBSCRIBE on the other); an event *)
(* reads it again.  The content of the hash is its version.                *)
(***************************************************************************)
EXTENDS RedisClient

CONSTANTS
  EnableKeyevents,  \* config.enable_keyevents
  MaxUpdates        \* bound on changes of the hash

\* What is assumed of them.
CacheAssumption == EnableKeyevents \in BOOLEAN /\ MaxUpdates \in Nat

VARIABLES
  version,     \* of the hash, in database Db
  notify,      \* the server sends keyevents
  subscribed,  \* the server has the pattern of sub's connection
  watched,     \* versions written while it was and while events were on (history)
  state,       \* version of Cache::state
  failed       \* the server refused an HGETALL (history)

cacheVars == <<version, notify, subscribed, watched, state, failed>>
vars == <<clientVars, cacheVars>>

client == "client"
sub == "sub"

CacheInit ==
  /\ ClientInit
  /\ version = 0
  /\ notify = FALSE
  /\ subscribed = FALSE
  /\ watched = {}
  /\ state = 0
  /\ failed = FALSE

\* poll() on the pipelines p: a failure is only logged.
Poll(p) == Execute(p, client, Cmd("HGETALL", 0))

\* Mutant of ReconnectBoth: the error is only logged.
ReconnectNever == UNCHANGED recon

\* CatchSync of subscribeToHash: both clients reconnect, whatever their state.
ReconnectBoth == recon' = [c \in Client |-> TRUE]

\* Mutant of SelectReply: only client's ConnectedChanged is connected.
SelectReplyClientOnly(c) ==
  /\ Selected(c)
  /\ pipe' = IF c = client /\ \A d \in Client \ {c} : IsConnected(d)
             THEN Execute(Pop(c), client, Cmd("CONFIG GET", 0))
             ELSE Pop(c)
  /\ UNCHANGED <<recon, db, drops, cacheVars>>

\* onConnected: subscribeToHash() once both clients are connected.
SelectReply(c) ==
  /\ Selected(c)
  /\ pipe' = IF \A d \in Client \ {c} : IsConnected(d)
             THEN Execute(Pop(c), client, Cmd("CONFIG GET", 0))
             ELSE Pop(c)
  /\ UNCHANGED <<recon, db, drops, cacheVars>>

\* The second continuation of subscribeToHash: poll(), then PSubscribe, which
\* throws without a context.
ReadAndWatch(p) ==
  IF Rejected(sub) THEN pipe' = Poll(p) /\ ReconnectBoth
  ELSE pipe' = Execute(Poll(p), sub, Cmd("PSUBSCRIBE", 0)) /\ UNCHANGED recon

\* CONFIG GET answers a list, in which toString() finds no mode: they are
\* always missing.
ConfigGetReply ==
  /\ Arrived(client, "CONFIG GET")
  /\ CASE Head(pipe[client]).reply = Err -> ReconnectBoth /\ pipe' = Pop(client)
       [] Head(pipe[client]).reply # Err /\ EnableKeyevents ->
            pipe' = Execute(Pop(client), client, Cmd("CONFIG SET", 0)) /\ UNCHANGED recon
       [] Head(pipe[client]).reply # Err /\ ~EnableKeyevents -> ReadAndWatch(Pop(client))
  /\ UNCHANGED <<ctx, db, drops, cacheVars>>

ConfigSetReply ==
  /\ Arrived(client, "CONFIG SET")
  /\ IF Head(pipe[client]).reply = OK THEN ReadAndWatch(Pop(client))
     ELSE ReconnectBoth /\ pipe' = Pop(client)
  /\ UNCHANGED <<ctx, db, drops, cacheVars>>

\* The continuation of poll(): the flat hash is unflattened and merged into
\* state; a hash that is not there is an empty list and changes nothing.
PollReply ==
  /\ Arrived(client, "HGETALL")
  /\ pipe' = Pop(client)
  /\ LET r == Head(pipe[client]).reply IN
     /\ failed' = (failed \/ r = Err)
     /\ state' = IF r.vals = {} THEN state ELSE CHOOSE v \in r.vals : TRUE
  /\ UNCHANGED <<ctx, recon, db, drops, version, notify, subscribed, watched>>

\* OnMsg: HMSET of the flattened message.  Exec() gives a command of the script
\* in the same way, with its future handed to Lua.
OnMsg ==
  /\ version < MaxUpdates
  /\ \A i \in 1..Len(pipe[client]) : pipe[client][i].op # "HMSET"
  /\ ~Rejected(client)
  /\ pipe' = Execute(pipe, client, Cmd("HMSET", 0))
  /\ UNCHANGED <<ctx, recon, db, drops, cacheVars>>

\* Replies that are only looked at for an error to log.
LoggedReply(c, op) ==
  /\ op \in {"HMSET", "PSUBSCRIBE"}
  /\ Arrived(c, op)
  /\ pipe' = Pop(c)
  /\ UNCHANGED <<ctx, recon, db, drops, cacheVars>>

\* subCallback with a pmessage about hash_key.
Event ==
  /\ Arrived(sub, "pmessage")
  /\ pipe' = Poll(Pop(sub))
  /\ UNCHANGED <<ctx, recon, db, drops, cacheVars>>

\* The server changes the hash on the pipelines p and tells the subscriber.
Update(p) ==
  LET told == notify /\ subscribed IN
  /\ version' = version + 1
  /\ watched' = IF told THEN watched \union {version + 1} ELSE watched
  /\ pipe' = IF told THEN [p EXCEPT ![sub] = Append(@, [Cmd("pmessage", 0) EXCEPT !.reply = OK])]
             ELSE p

OtherWriter ==
  /\ version < MaxUpdates
  /\ Update(pipe)
  /\ UNCHANGED <<ctx, recon, db, drops, notify, subscribed, state, failed>>

\* The server executes the next command of a connection; one that serves a
\* subscriber refuses SELECT.
Serve(c) ==
  LET cmd == pipe[c][Next1(c)]
      answered(r) == [pipe EXCEPT ![c][Next1(c)].reply = r]
  IN
  /\ ServerTurn(c)
  /\ \/ /\ cmd.op = "SELECT"
        /\ Answer(c, IF c = sub /\ subscribed THEN Err ELSE OK)
        /\ UNCHANGED <<drops, version, notify, subscribed, watched>>
     \/ /\ cmd.op \in {"CONFIG GET", "CONFIG SET"} /\ drops < MaxDrops
        /\ drops' = drops + 1
        /\ Answer(c, Err)
        /\ UNCHANGED <<version, notify, subscribed, watched>>
     \/ /\ cmd.op \in {"CONFIG GET", "CONFIG SET", "PSUBSCRIBE"}
        /\ notify' = (notify \/ cmd.op = "CONFIG SET")
        /\ subscribed' = (subscribed \/ cmd.op = "PSUBSCRIBE")
        /\ Answer(c, OK)
        /\ UNCHANGED <<drops, version, watched>>
     \/ /\ cmd.op = "HGETALL"
        /\ \/ Answer(c, Reply("list", IF db[c] = Db THEN {version} ELSE {})) /\ UNCHANGED drops
           \/ drops < MaxDrops /\ drops' = drops + 1 /\ Answer(c, Err)
        /\ UNCHANGED <<version, notify, subscribed, watched>>
     \/ /\ cmd.op = "HMSET"
        /\ IF db[c] = Db /\ version < MaxUpdates
           THEN Update(answered(OK)) ELSE pipe' = answered(OK) /\ UNCHANGED <<version, watched>>
        /\ UNCHANGED <<ctx, recon, db, drops, notify, subscribed>>
  /\ UNCHANGED <<state, failed>>

\* The null replies of a lost context: those of subscribeToHash() make both
\* clients reconnect; subCallback forgets the subscription.
NullReplies(c, timers) ==
  /\ recon' = IF \E i \in 1..Len(pipe[c]) : pipe[c][i].op \in {"CONFIG GET", "CONFIG SET"}
              THEN [timers EXCEPT ![CHOOSE d \in Client \ {c} : TRUE] = TRUE] ELSE timers
  /\ pipe' = [pipe EXCEPT ![c] = <<>>]
  /\ subscribed' = (subscribed /\ c # sub)
  /\ UNCHANGED <<version, notify, watched, state, failed>>

LoseContext(c) == Lost(c) /\ NullReplies(c, [recon EXCEPT ![c] = TRUE])

\* The timer of a client whose null replies ask for a reconnect is still
\* pending while they run.
Redial(c) == Dial(c) /\ NullReplies(c, [recon EXCEPT ![c] = FALSE])

Construct == Create /\ UNCHANGED cacheVars
Connect(c) == Connected(c) /\ UNCHANGED cacheVars
SelectError(c) == SelectRefused(c) /\ UNCHANGED cacheVars

Replies(c) ==
  \/ SelectReply(c) \/ SelectError(c)
  \/ \E op \in {"HMSET", "PSUBSCRIBE"} : LoggedReply(c, op)
  \/ c = client /\ (ConfigGetReply \/ ConfigSetReply \/ PollReply)
  \/ c = sub /\ Event

CacheNext ==
  \/ \E c \in Client : Connect(c) \/ Redial(c) \/ Serve(c) \/ LoseContext(c) \/ Replies(c)
  \/ Construct \/ OnMsg \/ OtherWriter

\* A connection attempt ends, the server answers what it was sent, replies are
\* read and timers fire.
CacheFairness ==
  \A c \in Client : /\ WF_vars(Connect(c)) /\ WF_vars(Redial(c))
                    /\ WF_vars(Serve(c)) /\ WF_vars(Replies(c))

CacheSpec == CacheInit /\ [][CacheNext]_vars /\ CacheFairness

-----------------------------------------------------------------------------
(* Properties                                                              *)

\* A change of the hash that the server saw while it watched the key for this
\* worker is read in the end: through its event, or, when a connection went
\* with the event or the read, by the poll of the next subscribeToHash().
WatchedSync == \A v \in 1..MaxUpdates : v \in watched ~> (state >= v \/ failed)

\* However the two connections are lost and the subscription is refused, once
\* that stops the worker ends up watching the hash with both clients connected.
SyncRestored ==
  <>[](Created => subscribed /\ \A c \in Client : IsConnected(c) /\ ~recon[c])
=============================================================================
