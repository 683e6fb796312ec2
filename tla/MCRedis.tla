------------------------------ MODULE MCRedis ------------------------------
(***************************************************************************)
(* The two Redis workers in one model: a behaviour is about the stream     *)
(* (extended) or the cache, and the other is never constructed.            *)
(***************************************************************************)
EXTENDS RedisStream

CONSTANTS CacheDrops, EnableKeyevents, MaxUpdates

VARIABLES
  part,   \* the worker this behaviour is about
  cctx, crecon, cpipe, cdb, cdrops,
  version, notify, subscribed, watched, state, refused

Cache == INSTANCE RedisCache WITH
  Client <- {"client", "sub"}, MaxDrops <- CacheDrops, failed <- refused,
  ctx <- cctx, recon <- crecon, pipe <- cpipe, db <- cdb, drops <- cdrops

ASSUME ClientAssumption /\ StreamAssumption
ASSUME Cache!ClientAssumption /\ Cache!CacheAssumption

ofCache == <<cctx, crecon, cpipe, cdb, cdrops,
             version, notify, subscribed, watched, state, refused>>

RedisInit ==
  /\ part \in {"stream", "cache"}
  /\ StreamInit
  /\ part = "cache" => startFrom = "top"
  /\ Cache!CacheInit

RedisNext ==
  \/ part = "stream" /\ StreamNext /\ UNCHANGED <<part, ofCache>>
  \/ part = "cache" /\ Cache!CacheNext /\ UNCHANGED <<part, vars>>

RedisSpec ==
  /\ RedisInit /\ [][RedisNext]_<<part, vars, ofCache>>
  /\ StreamFairness /\ Cache!CacheFairness

\* RedisCache: a change of the hash made while it was watched is read in the end.
WatchedSync == Cache!WatchedSync

\* RedisCache: however connections are lost, the worker ends up watching the hash.
SyncRestored == Cache!SyncRestored
=============================================================================
