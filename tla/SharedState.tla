----------------------------- MODULE SharedState -----------------------------
(***************************************************************************)
(* The state layer of the VN.PY engine (vnpy_local/shared_state.py): a     *)
(* cache in the memory of the process, Redis behind it, and a backup file  *)
(* of the cache that is written every minute.                              *)
(*                                                                         *)
(* Of everything that is stored, two keys matter to the control of the     *)
(* engine: the position of the symbol it trades and the status of the      *)
(* engine.  The status is followed in the cache only: a new process may    *)
(* find any status an earlier one left in the backup or in Redis, and sets *)
(* its own before long.  A position is a Python dict: the engine, the      *)
(* cache and a thread in the middle of an order may all hold the same one, *)
(* so the model keeps references into a heap.  json.dumps and json.loads   *)
(* are the points where a copy is made.                                    *)
(***************************************************************************)
EXTENDS Integers

CONSTANTS Refs,      \* the dicts that can be alive at the same time
          Absent,    \* no entry
          MaxSize    \* bound on the position, in orders

ASSUME SharedStateAssumption ==
    MaxSize \in Nat /\ Refs # {} /\ Absent \notin Refs \cup (-MaxSize..MaxSize)

Sizes  == -MaxSize..MaxSize
Left   == {"unknown", "running", "stopped"}

VARIABLES
    redisUp,   \* Redis answers
    redis,     \* the position it stores (appendonly: it survives its restart)
    up,        \* the process is alive
    client,    \* self.redis_client is not None
    heap,      \* the size in each position dict
    cache,     \* self._local_cache: a reference, and a status
    disk,      \* the complete backup, and whether a newer one is torn
    backing    \* _save_state_backup has opened its file

stores == <<redisUp, redis, up, client, heap, cache, disk, backing>>

SizeOf(r) == IF r = Absent THEN 0 ELSE heap[r]
Stored    == IF redis = Absent THEN 0 ELSE redis

StoresInit ==
    /\ redisUp \in BOOLEAN
    /\ redis = Absent
    /\ up = FALSE /\ client = FALSE /\ backing = FALSE
    /\ heap = [r \in Refs |-> 0]
    /\ cache = [position |-> Absent, status |-> "unknown"]
    /\ disk = [backup |-> Absent, torn |-> FALSE]
-----------------------------------------------------------------------------
(***************************************************************************)
(* A new process: connect, then take the latest backup for the whole       *)
(* cache.  A torn backup is the latest one by name, fails to parse and     *)
(* leaves the cache empty, although an older complete one may lie beside   *)
(* it.  _restore_from_redis looks for keys nobody writes and finds none.   *)
(***************************************************************************)
Connect(r) ==
    LET found == IF disk.torn THEN Absent ELSE disk.backup
    IN  /\ up' = TRUE
        /\ client' = redisUp
        /\ heap' = [s \in Refs |-> IF s = r /\ found # Absent THEN found ELSE 0]
        /\ \E s \in Left :
              cache' = [position |-> IF found = Absent THEN Absent ELSE r, status |-> s]
        /\ UNCHANGED <<redisUp, redis, disk, backing>>

\* The process ends: its memory is gone, a backup being written stays torn.
Forget ==
    /\ up' = FALSE /\ client' = FALSE /\ backing' = FALSE
    /\ heap' = [r \in Refs |-> 0]
    /\ cache' = [position |-> Absent, status |-> "unknown"]
    /\ UNCHANGED <<redisUp, redis, disk>>

\* Mutant of SetPosition: what is cached already is not sent again.
SetPositionOnce(r, dumped) ==
    /\ redis' = IF client /\ redisUp /\ cache.position = Absent THEN dumped ELSE redis
    /\ cache' = [cache EXCEPT !.position = r]

(***************************************************************************)
(* _redis_set.  A failing Redis is logged and otherwise ignored; the cache *)
(* takes the value in any case.                                            *)
(***************************************************************************)
SetPosition(r, dumped) ==
    /\ redis' = IF client /\ redisUp THEN dumped ELSE redis
    /\ cache' = [cache EXCEPT !.position = r]

SetSystemStatus(s) == cache' = [cache EXCEPT !.status = s]

\* Mutant of GetAllPositions: the keys come from the cache as well.
GetCachedPositions(r) == IF ~client \/ redis = Absent THEN Absent ELSE cache.position

(***************************************************************************)
(* get_all_positions: the keys come from Redis, the values from the cache  *)
(* if it has them.  Without a client there are no positions; with one and  *)
(* Redis down the call raises.                                             *)
(***************************************************************************)
PositionsUnreadable == client /\ ~redisUp

GetAllPositions(r) ==
    IF ~client \/ redis = Absent THEN Absent
    ELSE IF cache.position # Absent THEN cache.position ELSE r

\* _redis_get parses a value it does not have into a new dict and caches it.
Fetch(r) ==
    IF GetAllPositions(r) # Absent /\ cache.position = Absent
    THEN /\ heap' = [heap EXCEPT ![r] = redis]
         /\ cache' = [cache EXCEPT !.position = r]
    ELSE UNCHANGED <<heap, cache>>
-----------------------------------------------------------------------------
RedisFails   == redisUp /\ redisUp' = FALSE
                /\ UNCHANGED <<redis, up, client, heap, cache, disk, backing>>
RedisReturns == ~redisUp /\ redisUp' = TRUE
                /\ UNCHANGED <<redis, up, client, heap, cache, disk, backing>>

\* _reconnect_loop only runs while there is no client at all.
Reconnect ==
    /\ up /\ ~client /\ redisUp
    /\ client' = TRUE
    /\ UNCHANGED <<redisUp, redis, up, heap, cache, disk, backing>>

\* _save_state_backup opens the new file before it has the contents.
OpenBackup ==
    /\ up /\ ~backing
    /\ backing' = TRUE
    /\ disk' = [disk EXCEPT !.torn = TRUE]
    /\ UNCHANGED <<redisUp, redis, up, client, heap, cache>>

\* The dump is complete; the older files are deleted.
CompleteBackup ==
    /\ up /\ backing
    /\ backing' = FALSE
    /\ disk' = [backup |-> IF cache.position = Absent THEN Absent
                           ELSE heap[cache.position],
                torn |-> FALSE]
    /\ UNCHANGED <<redisUp, redis, up, client, heap, cache>>

\* json.dump raises when another thread adds a key to the cache meanwhile: the
\* file stays as it is, and so do the older ones.
AbandonBackup ==
    /\ up /\ backing
    /\ backing' = FALSE
    /\ UNCHANGED <<redisUp, redis, up, client, heap, cache, disk>>

StoreStep == RedisFails \/ RedisReturns \/ Reconnect
             \/ OpenBackup \/ CompleteBackup \/ AbandonBackup
=============================================================================
