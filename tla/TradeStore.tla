----------------------------- MODULE TradeStore -----------------------------
(***************************************************************************)
(* layer9_memory/postgres_manager.py behind interfaces/memory_layer.py:    *)
(* one trade, or one symbol's position, in PostgreSQL and in the Redis     *)
(* cache, and the pool of connections that the clients share.              *)
(*                                                                         *)
(* A write commits and then sets or deletes the cached copy; a read that   *)
(* misses sets it.  Clients are threads, and each statement and each cache *)
(* request is a step of its own, which may fail.                           *)
(***************************************************************************)
EXTENDS Integers, Sequences, FiniteSets

CONSTANTS Clients,
          MaxConn,   \* maxconn of the pool
          MaxWrites, \* bound: versions written
          MaxPools   \* bound: calls of connect

Kinds == {"trade", "position"}

\* The operations on one row, and those on the tables nobody caches: decisions,
\* metrics, events, health and regimes are only appended, lists only read.
TradeOperations == {"save", "update", "get", "close"}
PositionOperations == {"save", "update", "get", "remove"}
OtherRecords == {"record"}
Lists == {"list"}
Operations(k) ==
  OtherRecords \cup Lists \cup (IF k = "trade" THEN TradeOperations ELSE PositionOperations)

VARIABLES
  kind,
  rows,     \* the versions of the rows of this trade or symbol
  cached,   \* the version in Redis, 0 without one
  pool,     \* self.pool: the number of this pool, its free connections, and whether it is open
  client,   \* each client: what it does, where it is, the version it carries, the pool of its connection
  written,  \* versions made so far
  excused   \* history: an old copy was left by a lost delete or set after a later commit

vars == <<kind, rows, cached, pool, client, written, excused>>
database == <<rows, written>>
cache == <<cached, excused>>

Idle == [op |-> "none", at |-> "idle", version |-> 0, from |-> 0]

Init ==
  /\ kind \in Kinds
  /\ rows = <<>> /\ cached = 0 /\ written = 0
  /\ pool = [id |-> 1, free |-> MaxConn, open |-> TRUE]
  /\ client = [c \in Clients |-> Idle]
  /\ excused = FALSE

At(c, step) == client[c].at = step
Goes(c, step) == client' = [client EXCEPT ![c].at = step]
Stored == {rows[i] : i \in 1..Len(rows)}
Old(version) == version # 0 /\ version \notin Stored

-----------------------------------------------------------------------------
\* The reads of one row begin with the cache; the others with a connection.
Call(c, op) ==
  /\ At(c, "idle") /\ op \in Operations(kind)
  /\ client' = [client EXCEPT ![c] = [Idle EXCEPT !.op = op, !.at = IF op \in {"get", "close"} THEN "lookup" ELSE "take"]]
  /\ UNCHANGED <<kind, database, cache, pool>>

\* cache_get: a hit is the answer of get; close goes on with it to the update,
\* which writes nothing of what it found.
Lookup(c) ==
  /\ At(c, "lookup")
  /\ \/ cached # 0 /\ IF client[c].op = "get" THEN client' = [client EXCEPT ![c] = Idle]
                                             ELSE client' = [client EXCEPT ![c].op = "update", ![c].at = "take"]
     \/ Goes(c, "take")
  /\ UNCHANGED <<kind, database, cache, pool>>

\* get_connection, up to the yield: without a pool, or with all of it in use, it
\* raises, and every operation answers with None or False.
Take(c) ==
  /\ At(c, "take")
  /\ IF pool.open /\ pool.free > 0
     THEN /\ client' = [client EXCEPT ![c].at = "statement", ![c].from = pool.id]
          /\ pool' = [pool EXCEPT !.free = @ - 1]
     ELSE client' = [client EXCEPT ![c] = Idle] /\ UNCHANGED pool
  /\ UNCHANGED <<kind, database, cache>>

Statement(c, op) == At(c, "statement") /\ client[c].op = op

\* A version of the row that nobody wrote before.
Fresh == written < MaxWrites /\ written' = written + 1

\* INSERT and commit; trade_id is unique, the symbol of a position is not.
Insert(c) ==
  /\ Statement(c, "save")
  /\ IF kind = "trade" /\ rows # <<>>
     THEN Goes(c, "conflict") /\ UNCHANGED database
     ELSE /\ Fresh
          /\ rows' = Append(rows, written')
          /\ client' = [client EXCEPT ![c].version = written', ![c].at = "set"]
  /\ UNCHANGED <<kind, cache, pool>>

\* UPDATE and commit: it succeeds whether or not there is a row.
Update(c) ==
  /\ Statement(c, "update")
  /\ Fresh
  /\ rows' = [i \in 1..Len(rows) |-> written']
  /\ client' = [client EXCEPT ![c].at = "delete"]
  /\ UNCHANGED <<kind, cache, pool>>

\* DELETE FROM positions and commit.
Remove(c) ==
  /\ Statement(c, "remove")
  /\ rows' = <<>>
  /\ client' = [client EXCEPT ![c].at = "delete"]
  /\ UNCHANGED <<kind, written, cache, pool>>

\* SELECT one row.
Select(c) ==
  /\ Statement(c, "get") \/ Statement(c, "close")
  /\ \/ \E v \in Stored : client' = [client EXCEPT ![c].version = v, ![c].at = "put"]
     \/ rows = <<>> /\ Goes(c, "put")
  /\ UNCHANGED <<kind, database, cache, pool>>

\* Statements on the tables and lists that no cache knows of.
Other(c) ==
  /\ At(c, "statement") /\ client[c].op \in OtherRecords \cup Lists
  /\ Goes(c, "put")
  /\ UNCHANGED <<kind, database, cache, pool>>

\* The statement or its commit raises; what was not committed is rolled back.
StatementFails(c) ==
  /\ At(c, "statement")
  /\ Goes(c, "put")
  /\ UNCHANGED <<kind, database, cache, pool>>

-----------------------------------------------------------------------------
\* cache_set, of what was committed or read: the request may be lost.
CacheSet(c) ==
  /\ At(c, "set")
  /\ \/ cached' = client[c].version /\ excused' = Old(cached')
     \/ UNCHANGED cache
  /\ client' = [client EXCEPT ![c] =
       CASE client[c].op = "get" -> Idle
         [] client[c].op = "close" -> [@ EXCEPT !.op = "update", !.at = "take"]
         [] client[c].op = "save" -> [@ EXCEPT !.at = "put"]]
  /\ UNCHANGED <<kind, database, pool>>

\* Mutant of CacheDelete: the cached copy is not invalidated.
CacheDeleteNot(c) ==
  /\ At(c, "delete")
  /\ Goes(c, "put")
  /\ UNCHANGED <<kind, database, cache, pool>>

\* cache_delete, which may be lost as well.
CacheDelete(c) ==
  /\ At(c, "delete")
  /\ \/ cached' = 0 /\ excused' = FALSE
     \/ excused' = (excused \/ Old(cached)) /\ UNCHANGED cached
  /\ Goes(c, "put")
  /\ UNCHANGED <<kind, database, pool>>

\* setex: every copy has its time.
Expire ==
  /\ cached # 0
  /\ cached' = 0 /\ excused' = FALSE
  /\ UNCHANGED <<kind, database, pool, client>>

-----------------------------------------------------------------------------
Returned(c) == [pool EXCEPT !.free = @ + 1]

\* putconn raises for a pool that was closed, or another one than it was taken
\* from, and the operation fails although it may have been committed.
Taken(c) == pool.open /\ client[c].from = pool.id

\* The end of get_connection and what follows it: an insert that conflicts goes on
\* as an update, and a row that was read goes to the cache.
Put(c) ==
  /\ At(c, "put") \/ At(c, "conflict")
  /\ pool' = IF Taken(c) THEN Returned(c) ELSE pool
  /\ client' = [client EXCEPT ![c] =
       IF ~Taken(c) THEN Idle
       ELSE IF At(c, "conflict") THEN [@ EXCEPT !.op = "update", !.at = "take", !.from = 0]
       ELSE IF client[c].op \in {"get", "close"} /\ client[c].version # 0 THEN [@ EXCEPT !.at = "set", !.from = 0]
       ELSE Idle]
  /\ UNCHANGED <<kind, database, cache>>

\* disconnect: closeall.
Disconnect ==
  /\ pool.open
  /\ pool' = [pool EXCEPT !.open = FALSE]
  /\ UNCHANGED <<kind, database, cache, client>>

\* connect makes another pool whether or not there is one.
Connect ==
  /\ pool.id < MaxPools
  /\ pool' = [id |-> pool.id + 1, free |-> MaxConn, open |-> TRUE]
  /\ UNCHANGED <<kind, database, cache, client>>

\* The process with its clients ends, and another one connects.
Restart ==
  /\ pool.id < MaxPools
  /\ pool' = [id |-> pool.id + 1, free |-> MaxConn, open |-> TRUE]
  /\ client' = [c \in Clients |-> Idle]
  /\ excused' = (excused \/ Old(cached))
  /\ UNCHANGED <<kind, database, cached>>

-----------------------------------------------------------------------------
Step(c) ==
  \/ Lookup(c) \/ Take(c) \/ Insert(c) \/ Update(c) \/ Remove(c) \/ Select(c) \/ Other(c) \/ StatementFails(c)
  \/ CacheSet(c) \/ CacheDelete(c) \/ Put(c)

Next ==
  \/ \E c \in Clients : (\E op \in Operations(kind) : Call(c, op)) \/ Step(c)
  \/ Expire \/ Disconnect \/ Connect \/ Restart

-----------------------------------------------------------------------------
\* A copy that differs from what is stored is one that its writer is about to
\* delete, or else it was left behind by a request that was lost, by a process
\* that ended, or by a client that set it after a later commit.
StaleIsExplained == Old(cached) => excused \/ \E c \in Clients : At(c, "delete")

\* Every connection of the open pool is free or in the hands of one client: none
\* is lost with a statement that fails, and no client takes a second one.
PoolIsWhole == pool.open => pool.free + Cardinality({c \in Clients : client[c].from = pool.id}) = MaxConn

\* What the cache comes back to, whatever requests were lost and however clients
\* overtook each other: it holds what is stored.
CacheIsCurrent == ~Old(cached)
=============================================================================
