-------------------------- MODULE VnpyEngineProofs --------------------------
(***************************************************************************)
(* Theorems about the VN.PY engine on its state layer, for every number of *)
(* feeds, every bound on the position, every set of targets and every      *)
(* number of failures before a restart.                                    *)
(***************************************************************************)
EXTENDS VnpyEngine, TLAPS

-----------------------------------------------------------------------------
Places == {"off", "idle", "chosen", "read", "written", "dumped", "stopping", "reporting",
           "starting", "claiming", "loading", "announcing", "restarting", "sleeping"}
Dicts  == Refs \cup {Absent}
Amount == Sizes \cup {Absent}
Jobs   == [action : {"policy", "save", "buy", "sell", "close"}, ref : Dicts, number : Sizes]

StoreType ==
  /\ redis \in Amount
  /\ heap \in [Refs -> Sizes]
  /\ cache \in [position : Dicts, status : Left \cup {"restarting"}]
  /\ disk \in [backup : Amount, torn : BOOLEAN]
  /\ client \in BOOLEAN /\ redisUp \in BOOLEAN /\ up \in BOOLEAN /\ backing \in BOOLEAN

EngineType ==
  /\ held \in Dicts
  /\ armed \in BOOLEAN /\ running \in BOOLEAN /\ feeding \in BOOLEAN
  /\ failures \in Nat /\ blamed \in Nat
  /\ net \in Int /\ doubt \in BOOLEAN

\* Where a thread is between the reading of a position and its arrival in Redis.
Ordering == {"read", "written", "dumped"}

JobType ==
  /\ pc \in [Threads -> Places]
  /\ job \in [Threads -> Jobs]
  /\ \A t \in Threads : pc[t] \in Ordering => job[t].ref \in Refs
  /\ \A t \in Threads : pc[t] = "read" => After(job[t].action, job[t].number) \in Sizes

TypeInv == StoreType /\ EngineType /\ JobType

\* Without a process there is no engine.
DownInv == ~up => held = Absent /\ ~armed /\ \A t \in Threads : pc[t] = "off"

\* Every order on its way is about the dict of the engine, and only an engine that has
\* loaded its positions reads them.
OrderInv ==
  \A t \in Threads :
    /\ pc[t] \in Ordering => job[t].ref = held
    /\ pc[t] = "read" => armed

\* The engine's dict is right from the moment it was loaded.
HeldInv == armed \/ held # Absent \/ (\E t \in Threads : pc[t] = "announcing") => SizeOf(held) = net

Certain == ~doubt => OrderInv /\ HeldInv /\ StoredIsNet

IInv == TypeInv /\ DownInv /\ Certain

-----------------------------------------------------------------------------
\* The constants of the state layer: no size is mistaken for a missing entry.
LEMMA SizesAreNumbers == Sizes \subseteq Int /\ 0 \in Sizes /\ Absent \notin Sizes /\ Absent \notin Refs
BY SharedStateAssumption DEF Sizes

\* The size of a dict is a size.
LEMMA SizeIsNumber ==
    ASSUME StoreType, NEW r \in Dicts
    PROVE  SizeOf(r) \in Sizes
BY SizesAreNumbers DEF StoreType, SizeOf, Dicts

\* Once in doubt, always in doubt; and without it, what Follow was told of has not happened.
LEMMA FollowIsSure ==
    ASSUME NEW sum, NEW why, Follow(sum, why), ~doubt'
    PROVE  ~doubt /\ ~why /\ net' = sum
BY DEF Follow

\* Adding a fill to the net keeps its type.
LEMMA FollowType ==
    ASSUME EngineType, NEW sum \in Int, NEW why \in BOOLEAN, Follow(sum, why)
    PROVE  net' \in Int /\ doubt' \in BOOLEAN
<1>1. doubt' \in BOOLEAN
  BY DEF EngineType, Follow
<1>2. net' \in Int
  BY DEF Follow
<1> QED BY <1>1, <1>2

-----------------------------------------------------------------------------
(***************************************************************************)
(* Steps that move a thread and touch no position.                         *)
(***************************************************************************)

\* A thread goes on outside of an order; nothing that is stored is touched.
Moves ==
  /\ up' = up /\ armed' = armed /\ held' = held /\ heap' = heap /\ redis' = redis
  /\ net' = net /\ doubt' = doubt
  /\ pc' = pc \/ \E t \in Threads : pc[t] # "off"
  /\ \A t \in Threads :
       \/ pc'[t] = pc[t] /\ job'[t] = job[t]
       \/ {pc[t], pc'[t]} \cap (Ordering \cup {"announcing"}) = {}

\* The types of what such a step changes.
MovesType ==
  /\ StoreType'
  /\ running' \in BOOLEAN /\ feeding' \in BOOLEAN /\ failures' \in Nat /\ blamed' \in Nat
  /\ pc' \in [Threads -> Places] /\ job' \in [Threads -> Jobs]

\* It keeps the invariant.
LEMMA MovesKeeps ==
    ASSUME IInv, Moves, MovesType
    PROVE  IInv'
<1> USE DEF IInv
<1>1. EngineType'
  BY DEF Moves, MovesType, TypeInv, EngineType
<1>2. JobType'
  BY DEF Moves, MovesType, TypeInv, JobType, Ordering
<1>3. DownInv'
  <2>1. CASE up
    BY <2>1 DEF Moves, DownInv
  <2>2. CASE ~up
    <3>1. pc' = pc
      BY <2>2 DEF Moves, DownInv
    <3> QED BY <2>2, <3>1 DEF Moves, DownInv
  <2> QED BY <2>1, <2>2
<1>4. Certain'
  <2> SUFFICES ASSUME ~doubt' PROVE OrderInv' /\ HeldInv' /\ StoredIsNet'
    BY DEF Certain
  <2>1. ~doubt /\ OrderInv /\ HeldInv /\ StoredIsNet
    BY DEF Moves, Certain
  <2>2. OrderInv'
    BY <2>1 DEF Moves, OrderInv, Ordering
  <2>3. HeldInv'
    BY <2>1 DEF Moves, HeldInv, SizeOf
  <2>4. StoredIsNet'
    BY <2>1 DEF Moves, StoredIsNet, Stored, Ordering
  <2> QED BY <2>2, <2>3, <2>4
<1> QED BY <1>1, <1>2, <1>3, <1>4 DEF MovesType, TypeInv

\* What a step that changes the place of one thread leaves of its types.
LEMMA GotoType ==
    ASSUME JobType, NEW t \in Threads, NEW step \in Places, Goto(t, step)
    PROVE  pc' \in [Threads -> Places] /\ pc'[t] = step /\ \A u \in Threads \ {t} : pc'[u] = pc[u]
BY DEF JobType, Goto

\* Reporting a status writes the cached copy only.
LEMMA StatusType ==
    ASSUME StoreType, NEW s \in Left \cup {"restarting"}, SetSystemStatus(s),
           UNCHANGED <<redisUp, redis, up, client, heap, disk, backing>>
    PROVE  StoreType'
<1>1. cache' \in [position : Dicts, status : Left \cup {"restarting"}]
  BY DEF StoreType, SetSystemStatus
<1> QED BY <1>1 DEF StoreType

\* The API, the watchdog and the feeds are threads.
LEMMA ThreadsAre == {Api, Dog} \subseteq Threads /\ Feeds \subseteq Threads
BY DEF Threads

\* Market data and requests that choose an order.
LEMMA ChooseKeeps ==
    ASSUME IInv, NEW t \in Threads, ProcessMarketData(t) \/ SetPositionTarget
    PROVE  IInv'
<1>1. PICK u \in Threads, a \in {"policy", "buy", "sell"} :
        /\ pc[u] = "idle" /\ Goto(u, "chosen") /\ job' = [job EXCEPT ![u].action = a]
        /\ UNCHANGED <<stores, engine, failures, ghosts>>
  <2>1. CASE ProcessMarketData(t)
    BY <2>1 DEF ProcessMarketData
  <2>2. CASE SetPositionTarget
    BY <2>2, ThreadsAre DEF SetPositionTarget
  <2> QED BY <2>1, <2>2
<1>2. pc' \in [Threads -> Places] /\ pc'[u] = "chosen" /\ \A v \in Threads \ {u} : pc'[v] = pc[v]
  BY <1>1, GotoType DEF IInv, TypeInv, Places
<1>3. job' \in [Threads -> Jobs] /\ \A v \in Threads \ {u} : job'[v] = job[v]
  BY <1>1 DEF IInv, TypeInv, JobType, Jobs
<1>4. MovesType
  BY <1>1, <1>2, <1>3 DEF MovesType, stores, engine, ghosts, IInv, TypeInv, StoreType, EngineType
<1>5. Moves
  BY <1>1, <1>2, <1>3 DEF Moves, stores, engine, ghosts, Ordering
<1> QED BY <1>4, <1>5, MovesKeeps

\* A thread that only goes on to another place.
LEMMA WalkKeeps ==
    ASSUME IInv, NEW t \in Threads, NEW step \in Places \ (Ordering \cup {"announcing"}),
           pc[t] \notin Ordering \cup {"announcing", "off"}, Goto(t, step),
           UNCHANGED <<redis, up, armed, held, heap, net, doubt, job>>,
           StoreType', running' \in BOOLEAN, feeding' \in BOOLEAN,
           failures' \in Nat, blamed' \in Nat
    PROVE  IInv'
<1>1. pc' \in [Threads -> Places] /\ pc'[t] = step /\ \A u \in Threads \ {t} : pc'[u] = pc[u]
  BY GotoType DEF IInv, TypeInv
<1>2. MovesType
  BY <1>1 DEF MovesType, IInv, TypeInv, JobType
<1>3. Moves
  BY <1>1 DEF Moves
<1> QED BY <1>2, <1>3, MovesKeeps

\* The feed ends, the API is told to stop, the watchdog wakes up or a load raises.
LEMMA IdleKeeps ==
    ASSUME IInv, NEW t \in Threads, FeedEnds(t) \/ Shutdown \/ WakeUp \/ LoadRaises(t)
    PROVE  IInv'
<1> USE DEF IInv, TypeInv, Places, Ordering, stores, engine, ghosts, EngineType
<1>1. CASE FeedEnds(t)
  BY <1>1, WalkKeeps DEF FeedEnds, StoreType
<1>2. CASE Shutdown
  BY <1>2, WalkKeeps, ThreadsAre DEF Shutdown, StoreType
<1>3. CASE WakeUp
  BY <1>3, WalkKeeps, ThreadsAre DEF WakeUp, StoreType
<1>4. CASE LoadRaises(t)
  BY <1>4, WalkKeeps DEF LoadRaises, StoreType
<1> QED BY <1>1, <1>2, <1>3, <1>4

\* The watchdog counts a failure, or restarts.
LEMMA WatchKeeps ==
    ASSUME IInv, HealthCheck \/ CheckRaises \/ RestartEngine
    PROVE  IInv'
<1> USE DEF IInv, TypeInv, Places, Ordering, stores, engine, EngineType
<1>1. CASE HealthCheck \/ CheckRaises
  <2>1. pc[Dog] = "idle" /\ HandleFailure
    BY <1>1 DEF HealthCheck, CheckRaises
  <2>2. failures' \in Nat /\ blamed' \in Nat
    BY <2>1 DEF HandleFailure
  <2> QED BY <2>1, <2>2, WalkKeeps, ThreadsAre DEF HandleFailure, StoreType
<1>2. CASE RestartEngine
  <2>1. StoreType'
    BY <1>2, StatusType DEF RestartEngine
  <2> QED BY <1>2, <2>1, WalkKeeps, ThreadsAre DEF RestartEngine
<1> QED BY <1>1, <1>2

\* The status "stopped" is reported.
LEMMA ReportKeeps ==
    ASSUME IInv, NEW t \in Threads, ReportStopped(t)
    PROVE  IInv'
<1> USE DEF IInv, TypeInv, Places, Ordering, engine, ghosts, EngineType
<1>1. StoreType'
  BY StatusType DEF ReportStopped, Left
<1> QED BY <1>1, WalkKeeps DEF ReportStopped

\* A start that looks whether the engine runs, and one that starts the feed.
LEMMA StartKeeps ==
    ASSUME IInv, NEW t \in Threads, StartEngine(t) \/ StartFeed(t)
    PROVE  IInv'
<1> USE DEF IInv, TypeInv, Places, Ordering, stores, engine, ghosts, EngineType
<1>1. CASE StartEngine(t)
  BY <1>1, WalkKeeps DEF StartEngine, StoreType
<1>2. CASE StartFeed(t) /\ feeding
  BY <1>2, WalkKeeps DEF StartFeed, StoreType
<1>3. CASE StartFeed(t) /\ ~feeding
  <2>1. PICK f \in Feeds : pc[f] = "off" /\ pc' = [pc EXCEPT ![t] = "loading", ![f] = "idle"]
    BY <1>3 DEF StartFeed
  <2>2. /\ pc[t] = "claiming" /\ running' = TRUE /\ feeding' = TRUE
        /\ UNCHANGED <<stores, armed, held, failures, job, ghosts>>
    BY <1>3 DEF StartFeed
  <2>3. MovesType
    BY <2>1, <2>2 DEF MovesType, JobType, StoreType
  <2>4. Moves
    BY <2>1, <2>2, ThreadsAre DEF Moves, JobType
  <2> QED BY <2>3, <2>4, MovesKeeps
<1> QED BY <1>1, <1>2, <1>3

\* Redis fails, returns, is found again; a backup is written.
LEMMA StoreKeeps ==
    ASSUME IInv, Store
    PROVE  IInv'
<1> USE DEF IInv, TypeInv, engine, ghosts
<1>1. StoreStep /\ UNCHANGED <<engine, failures, pc, job, ghosts>>
  BY DEF Store
<1>2. UNCHANGED <<redis, up, heap, cache>>
  BY <1>1 DEF StoreStep, RedisFails, RedisReturns, Reconnect, OpenBackup, CompleteBackup,
       AbandonBackup
<1>3. client' \in BOOLEAN /\ redisUp' \in BOOLEAN /\ backing' \in BOOLEAN
  BY <1>1 DEF StoreStep, RedisFails, RedisReturns, Reconnect, OpenBackup, CompleteBackup,
       AbandonBackup,
              StoreType
<1>4. disk' \in [backup : Amount, torn : BOOLEAN]
  <2>1. CASE CompleteBackup
    <3>1. cache.position \in Dicts
      BY DEF StoreType
    <3>2. (IF cache.position = Absent THEN Absent ELSE heap[cache.position]) \in Amount
      BY <3>1 DEF StoreType, Dicts, Amount
    <3> QED BY <2>1, <3>2 DEF CompleteBackup
  <2>2. CASE ~CompleteBackup
    BY <1>1, <2>2 DEF StoreStep, RedisFails, RedisReturns, Reconnect, OpenBackup, AbandonBackup,
         StoreType
  <2> QED BY <2>1, <2>2
<1>5. MovesType
  BY <1>1, <1>2, <1>3, <1>4 DEF MovesType, StoreType, EngineType, JobType
<1>6. Moves
  BY <1>1, <1>2 DEF Moves
<1> QED BY <1>5, <1>6, MovesKeeps

-----------------------------------------------------------------------------
(***************************************************************************)
(* Orders.                                                                 *)
(***************************************************************************)

\* The position is read, or made.
LEMMA ReadKeeps ==
    ASSUME IInv, NEW t \in Threads, NEW r \in Refs, ReadPosition(t, r)
    PROVE  IInv'
<1> USE DEF IInv, TypeInv
<1> DEFINE ref == IF held = Absent THEN r ELSE held
<1>1. /\ pc[t] = "chosen" /\ (held = Absent => Fresh(r))
      /\ held' = ref
      /\ heap' = IF held = Absent THEN [heap EXCEPT ![r] = 0] ELSE heap
      /\ Goto(t, "read")
      /\ Follow(net, ~armed)
      /\ UNCHANGED <<redisUp, redis, up, client, cache, disk, backing, running, armed,
                     feeding, failures, blamed>>
  BY DEF ReadPosition
<1>2. PICK a \in {"buy", "sell", "close"} :
        /\ After(a, SizeOf(held)) \in Sizes
        /\ job' = [job EXCEPT ![t] = [action |-> a, ref |-> ref, number |-> SizeOf(held)]]
  BY DEF ReadPosition
<1> DEFINE j == [action |-> a, ref |-> ref, number |-> SizeOf(held)]
<1>3. ref \in Refs /\ SizeOf(held) \in Sizes
  BY SizeIsNumber DEF EngineType, Dicts
<1>4. j \in Jobs /\ j.ref = ref /\ After(j.action, j.number) \in Sizes
  BY <1>2, <1>3 DEF Jobs, Dicts
<1>5. /\ pc' \in [Threads -> Places] /\ pc'[t] = "read"
      /\ \A u \in Threads \ {t} : pc'[u] = pc[u]
  BY <1>1, GotoType DEF Places
<1>6. job' \in [Threads -> Jobs] /\ job'[t] = j /\ \A u \in Threads \ {t} : job'[u] = job[u]
  BY <1>2, <1>4 DEF JobType
<1>7. heap' \in [Refs -> Sizes]
  BY <1>1, SizesAreNumbers DEF StoreType
<1>8. TypeInv'
  <2>1. StoreType'
    BY <1>1, <1>7 DEF StoreType
  <2>2. net' \in Int /\ doubt' \in BOOLEAN
    BY <1>1, FollowType DEF EngineType
  <2>3. EngineType'
    BY <1>1, <1>3, <2>2 DEF EngineType, Dicts
  <2>4. JobType'
    <3> HIDE DEF j
    <3> QED BY <1>3, <1>4, <1>5, <1>6 DEF JobType
  <2> QED BY <2>1, <2>3, <2>4
<1>9. DownInv'
  BY <1>1 DEF DownInv
<1>10. Certain'
  <2> SUFFICES ASSUME ~doubt' PROVE OrderInv' /\ HeldInv' /\ StoredIsNet'
    BY DEF Certain
  <2>1. ~doubt /\ armed /\ net' = net
    BY <1>1, FollowIsSure DEF EngineType
  <2>2. OrderInv /\ HeldInv /\ StoredIsNet
    BY <2>1 DEF Certain
  <2>3. \A u \in Threads : pc[u] \in Ordering => job[u].ref = held /\ held # Absent
    BY <2>2, SizesAreNumbers DEF OrderInv, JobType
  <2>4. OrderInv'
    BY <1>1, <1>4, <1>5, <1>6, <2>1, <2>2, <2>3 DEF OrderInv, Ordering
  <2>5. SizeOf(held) = net
    BY <2>1, <2>2 DEF HeldInv
  <2>6. SizeOf(held)' = SizeOf(held)
    BY <1>1, <1>3, SizesAreNumbers DEF SizeOf, StoreType
  <2>7. HeldInv'
    BY <2>1, <2>5, <2>6 DEF HeldInv
  <2>8. StoredIsNet'
    BY <1>1, <1>5, <2>1, <2>2 DEF StoredIsNet, Stored
  <2> QED BY <2>4, <2>7, <2>8
<1> QED BY <1>8, <1>9, <1>10

\* The new size is written.
LEMMA WriteKeeps ==
    ASSUME IInv, NEW t \in Threads, WritePosition(t)
    PROVE  IInv'
<1> USE DEF IInv, TypeInv
<1> DEFINE ref == job[t].ref
<1> DEFINE n == After(job[t].action, job[t].number)
<1>1. /\ pc[t] = "read"
      /\ heap' = [heap EXCEPT ![ref] = n] /\ held' = ref /\ Goto(t, "written")
      /\ Follow(After(job[t].action, net), heap[ref] # job[t].number \/ held # ref)
      /\ UNCHANGED <<redisUp, redis, up, client, cache, disk, backing, running, armed,
                     feeding, failures, job, blamed>>
  BY DEF WritePosition
<1>2. ref \in Refs /\ n \in Sizes
  BY <1>1 DEF JobType, Ordering
<1>3. /\ pc' \in [Threads -> Places] /\ pc'[t] = "written"
      /\ \A u \in Threads \ {t} : pc'[u] = pc[u]
  BY <1>1, GotoType DEF Places
<1>4. TypeInv'
  <2>1. StoreType'
    BY <1>1, <1>2 DEF StoreType
  <2>2. net' \in Int /\ doubt' \in BOOLEAN
    <3>1. After(job[t].action, net) \in Int
      BY DEF EngineType, After
    <3>2. (heap[ref] # job[t].number \/ held # ref) \in BOOLEAN
      OBVIOUS
    <3> QED BY <1>1, <3>1, <3>2, FollowType
  <2>3. EngineType'
    BY <1>1, <1>2, <2>2 DEF EngineType, Dicts
  <2>4. JobType'
    BY <1>1, <1>2, <1>3 DEF JobType, Ordering
  <2> QED BY <2>1, <2>3, <2>4
<1>5. DownInv'
  BY <1>1 DEF DownInv
<1>6. Certain'
  <2> SUFFICES ASSUME ~doubt' PROVE OrderInv' /\ HeldInv' /\ StoredIsNet'
    BY DEF Certain
  <2>1. ~doubt /\ heap[ref] = job[t].number /\ held = ref /\ net' = After(job[t].action, net)
    BY <1>1, FollowIsSure
  <2>2. OrderInv /\ HeldInv
    BY <2>1 DEF Certain
  <2>3. SizeOf(held) = net /\ held # Absent
    BY <1>2, <2>1, <2>2, SizesAreNumbers DEF HeldInv
  <2>4. job[t].number = net
    BY <2>1, <2>3 DEF SizeOf
  <2>5. SizeOf(held)' = net'
    BY <1>1, <1>2, <2>1, <2>4, SizesAreNumbers DEF SizeOf, StoreType
  <2>6. OrderInv'
    BY <1>1, <1>3, <2>1, <2>2 DEF OrderInv, Ordering
  <2>7. HeldInv'
    BY <2>5 DEF HeldInv
  <2>8. StoredIsNet'
    BY <1>3 DEF StoredIsNet
  <2> QED BY <2>6, <2>7, <2>8
<1> QED BY <1>4, <1>5, <1>6

\* The position is serialised.
LEMMA DumpKeeps ==
    ASSUME IInv, NEW t \in Threads, DumpPosition(t)
    PROVE  IInv'
<1> USE DEF IInv, TypeInv
<1> DEFINE j == [job[t] EXCEPT !.number = heap[job[t].ref]]
<1>1. /\ pc[t] = "written" /\ job' = [job EXCEPT ![t] = j] /\ Goto(t, "dumped")
      /\ UNCHANGED <<stores, engine, failures, ghosts>>
  BY DEF DumpPosition
<1>2. job[t] \in Jobs /\ job[t].ref \in Refs
  BY <1>1 DEF JobType, Ordering
<1>3. j \in Jobs /\ j.ref = job[t].ref
  BY <1>2 DEF Jobs, StoreType
<1>4. /\ pc' \in [Threads -> Places] /\ pc'[t] = "dumped"
      /\ \A u \in Threads \ {t} : pc'[u] = pc[u]
  BY <1>1, GotoType DEF Places
<1> HIDE DEF j
<1>5. job' \in [Threads -> Jobs] /\ job'[t] = j /\ \A u \in Threads \ {t} : job'[u] = job[u]
  BY <1>1, <1>3 DEF JobType
<1>6. TypeInv'
  <2>1. StoreType' /\ EngineType'
    BY <1>1 DEF StoreType, EngineType, stores, engine, ghosts
  <2>2. JobType'
    BY <1>2, <1>3, <1>4, <1>5 DEF JobType
  <2> QED BY <2>1, <2>2
<1>7. DownInv'
  BY <1>1 DEF DownInv, stores, engine
<1>8. Certain'
  <2> SUFFICES ASSUME ~doubt' PROVE OrderInv' /\ HeldInv' /\ StoredIsNet'
    BY DEF Certain
  <2>1. ~doubt /\ OrderInv /\ HeldInv
    BY <1>1 DEF Certain, ghosts
  <2>2. OrderInv'
    BY <1>1, <1>3, <1>4, <1>5, <2>1 DEF OrderInv, Ordering, engine
  <2>3. HeldInv'
    BY <1>1, <1>4, <2>1 DEF HeldInv, SizeOf, stores, engine, ghosts
  <2>4. StoredIsNet'
    BY <1>4 DEF StoredIsNet
  <2> QED BY <2>2, <2>3, <2>4
<1> QED BY <1>6, <1>7, <1>8

\* It is sent: what Redis takes without a doubt is the size of the engine's dict.
LEMMA SendKeeps ==
    ASSUME IInv, NEW t \in Threads, SendPosition(t)
    PROVE  IInv'
<1> USE DEF IInv, TypeInv
<1> DEFINE ref == job[t].ref
<1> DEFINE next == IF job[t].action = "save" THEN "reporting" ELSE "idle"
<1>1. /\ pc[t] = "dumped" /\ SetPosition(ref, job[t].number) /\ Goto(t, next)
      /\ job' = [job EXCEPT ![t] = NoJob]
      /\ Follow(net, ~client \/ ~redisUp \/ job[t].number # heap[ref])
      /\ UNCHANGED <<redisUp, up, client, heap, disk, backing, engine, failures, blamed>>
  BY DEF SendPosition
<1>2. job[t] \in Jobs /\ ref \in Refs
  BY <1>1 DEF JobType, Ordering
<1>3. next \in Places /\ next \notin Ordering /\ next # "announcing"
  BY DEF Places, Ordering
<1>4. /\ pc' \in [Threads -> Places] /\ pc'[t] = next
      /\ \A u \in Threads \ {t} : pc'[u] = pc[u]
  <2> HIDE DEF next
  <2> QED BY <1>1, <1>3, GotoType
<1>5. NoJob \in Jobs
  BY SizesAreNumbers DEF NoJob, Jobs, Dicts
<1>6. job' \in [Threads -> Jobs] /\ \A u \in Threads \ {t} : job'[u] = job[u]
  BY <1>1, <1>5 DEF JobType
<1>7. redis' \in Amount
  BY <1>1, <1>2 DEF SetPosition, StoreType, Amount, Jobs
<1>8. cache' \in [position : Dicts, status : Left \cup {"restarting"}]
  BY <1>1, <1>2 DEF SetPosition, StoreType, Dicts
<1>9. TypeInv'
  <2>1. StoreType'
    BY <1>1, <1>7, <1>8 DEF StoreType
  <2>2. net' \in Int /\ doubt' \in BOOLEAN
    <3>1. (~client \/ ~redisUp \/ job[t].number # heap[ref]) \in BOOLEAN
      OBVIOUS
    <3> QED BY <1>1, <3>1, FollowType DEF EngineType
  <2>3. EngineType'
    BY <1>1, <2>2 DEF EngineType, engine
  <2>4. JobType'
    <3> HIDE DEF next
    <3> QED BY <1>3, <1>4, <1>6 DEF JobType, Ordering
  <2> QED BY <2>1, <2>3, <2>4
<1>10. DownInv'
  BY <1>1 DEF DownInv
<1>11. Certain'
  <2> SUFFICES ASSUME ~doubt' PROVE OrderInv' /\ HeldInv' /\ StoredIsNet'
    BY DEF Certain
  <2>1. ~doubt /\ client /\ redisUp /\ job[t].number = heap[ref] /\ net' = net
    BY <1>1, FollowIsSure
  <2>2. OrderInv /\ HeldInv
    BY <2>1 DEF Certain
  <2>3. ref = held /\ SizeOf(held) = net /\ held # Absent
    BY <1>1, <1>2, <2>2, SizesAreNumbers DEF OrderInv, HeldInv, Ordering
  <2>4. redis' = net /\ redis' # Absent
    BY <1>1, <1>2, <2>1, <2>3, SizesAreNumbers DEF SetPosition, SizeOf, StoreType
  <2> HIDE DEF next
  <2>5. OrderInv'
    BY <1>1, <1>3, <1>4, <1>6, <2>2 DEF OrderInv, Ordering, engine
  <2>6. HeldInv'
    BY <1>1, <2>1, <2>3 DEF HeldInv, SizeOf, engine
  <2>7. StoredIsNet'
    BY <2>1, <2>4 DEF StoredIsNet, Stored
  <2> QED BY <2>5, <2>6, <2>7
<1> QED BY <1>9, <1>10, <1>11

-----------------------------------------------------------------------------
(***************************************************************************)
(* Stopping, loading, starting.                                            *)
(***************************************************************************)

\* A stop saves the engine's own dict, if there is one.
LEMMA StopKeeps ==
    ASSUME IInv, NEW t \in Threads, StopEngine(t)
    PROVE  IInv'
<1> USE DEF IInv, TypeInv
<1>1. /\ pc[t] = "stopping" /\ running' = FALSE /\ feeding' = FALSE
      /\ UNCHANGED <<stores, armed, held, failures, ghosts>>
  BY DEF StopEngine
<1>2. StoreType' /\ EngineType' /\ DownInv'
  <2>1. StoreType' /\ EngineType'
    BY <1>1 DEF StoreType, EngineType, stores, ghosts
  <2>2. up' = up /\ up
    BY <1>1 DEF DownInv, stores
  <2> QED BY <2>1, <2>2 DEF DownInv
<1>3. CASE held = Absent
  BY <1>1, <1>2, <1>3, WalkKeeps DEF StopEngine, Places, Ordering, stores, ghosts, EngineType
<1>4. CASE held # Absent
  <2> DEFINE j == [NoJob EXCEPT !.ref = held]
  <2>1. Goto(t, "written") /\ job' = [job EXCEPT ![t] = j]
    BY <1>4 DEF StopEngine
  <2>2. j \in Jobs /\ j.ref = held /\ held \in Refs
    BY <1>4, SizesAreNumbers DEF NoJob, Jobs, EngineType, Dicts
  <2>3. /\ pc' \in [Threads -> Places] /\ pc'[t] = "written"
        /\ \A u \in Threads \ {t} : pc'[u] = pc[u]
    BY <2>1, GotoType DEF Places
  <2> HIDE DEF j
  <2>4. job' \in [Threads -> Jobs] /\ job'[t] = j /\ \A u \in Threads \ {t} : job'[u] = job[u]
    BY <2>1, <2>2 DEF JobType
  <2>5. JobType'
    BY <2>2, <2>3, <2>4 DEF JobType
  <2>6. Certain'
    <3> SUFFICES ASSUME ~doubt' PROVE OrderInv' /\ HeldInv' /\ StoredIsNet'
      BY DEF Certain
    <3>1. ~doubt /\ OrderInv /\ HeldInv
      BY <1>1 DEF Certain, ghosts
    <3>2. OrderInv'
      BY <1>1, <2>2, <2>3, <2>4, <3>1 DEF OrderInv, Ordering
    <3>3. HeldInv'
      BY <1>1, <1>4, <3>1 DEF HeldInv, SizeOf, stores, ghosts
    <3>4. StoredIsNet'
      BY <2>3 DEF StoredIsNet
    <3> QED BY <3>2, <3>3, <3>4
  <2> QED BY <1>2, <2>5, <2>6
<1> QED BY <1>3, <1>4

\* The engine loads its positions.  Without a doubt it keeps the dict it has, or takes
\* one of the size that Redis holds while no order is on its way.
LEMMA LoadKeeps ==
    ASSUME IInv, NEW t \in Threads, NEW r \in Refs, LoadPositions(t, r)
    PROVE  IInv'
<1> USE DEF IInv, TypeInv
<1> DEFINE why == \/ ~client
                  \/ cache.position # Absent /\ SizeOf(cache.position) # Stored
                  \/ held # Absent /\ held' # held
<1>1. /\ pc[t] = "loading" /\ (cache.position = Absent => Fresh(r))
      /\ held' = GetAllPositions(r) /\ Fetch(r) /\ Goto(t, "announcing") /\ Follow(net, why)
      /\ UNCHANGED <<redisUp, redis, up, client, disk, backing, running, armed, feeding,
                     failures, job, blamed>>
  BY DEF LoadPositions
<1>2. cache.position \in Dicts /\ held' \in Dicts
  BY <1>1 DEF StoreType, GetAllPositions, Dicts
<1>3. heap' \in [Refs -> Sizes] /\ cache' \in [position : Dicts, status : Left \cup {"restarting"}]
  <2>1. CASE GetAllPositions(r) # Absent /\ cache.position = Absent
    <3>1. redis \in Sizes /\ heap' = [heap EXCEPT ![r] = redis]
          /\ cache' = [cache EXCEPT !.position = r]
      BY <1>1, <2>1 DEF Fetch, GetAllPositions, StoreType, Amount
    <3>2. heap' \in [Refs -> Sizes]
      BY <3>1 DEF StoreType
    <3>3. cache' \in [position : Dicts, status : Left \cup {"restarting"}]
      BY <3>1 DEF StoreType, Dicts
    <3> QED BY <3>2, <3>3
  <2>2. CASE ~(GetAllPositions(r) # Absent /\ cache.position = Absent)
    BY <1>1, <2>2 DEF Fetch, StoreType
  <2> QED BY <2>1, <2>2
<1>4. /\ pc' \in [Threads -> Places] /\ pc'[t] = "announcing"
      /\ \A u \in Threads \ {t} : pc'[u] = pc[u]
  BY <1>1, GotoType DEF Places
<1>5. TypeInv'
  <2>1. StoreType'
    BY <1>1, <1>3 DEF StoreType
  <2>2. net' \in Int /\ doubt' \in BOOLEAN
    <3>1. why \in BOOLEAN
      OBVIOUS
    <3> HIDE DEF why
    <3> QED BY <1>1, <3>1, FollowType DEF EngineType
  <2>3. EngineType'
    BY <1>1, <1>2, <2>2 DEF EngineType
  <2>4. JobType'
    BY <1>1, <1>4 DEF JobType, Ordering
  <2> QED BY <2>1, <2>3, <2>4
<1>6. DownInv'
  BY <1>1 DEF DownInv
<1>7. Certain'
  <2> SUFFICES ASSUME ~doubt' PROVE OrderInv' /\ HeldInv' /\ StoredIsNet'
    BY DEF Certain
  <2>1. ~doubt /\ ~why /\ net' = net
    <3> HIDE DEF why
    <3> QED BY <1>1, FollowIsSure
  <2>2. OrderInv /\ HeldInv /\ StoredIsNet
    BY <2>1 DEF Certain
  <2>3. StoredIsNet'
    BY <1>1, <1>4, <2>1, <2>2 DEF StoredIsNet, Stored, Ordering
  <2>4. CASE held # Absent
    <3>1. held' = held /\ held \in Refs
      BY <2>1, <2>4 DEF EngineType, Dicts
    <3>2. heap' = heap
      BY <1>1, <2>4, <3>1 DEF Fetch, GetAllPositions, Fresh
    <3>3. SizeOf(held) = net
      BY <2>2, <2>4 DEF HeldInv
    <3>4. HeldInv'
      BY <2>1, <3>1, <3>2, <3>3 DEF HeldInv, SizeOf
    <3>5. OrderInv'
      BY <1>1, <1>4, <2>2, <3>1 DEF OrderInv, Ordering
    <3> QED BY <2>3, <3>4, <3>5
  <2>5. CASE held = Absent
    <3>1. \A u \in Threads : pc[u] \notin Ordering
      BY <2>2, <2>5, SizesAreNumbers DEF OrderInv, JobType
    <3>2. Stored = net
      BY <2>1, <2>2, <3>1 DEF StoredIsNet, Ordering
    <3>3. SizeOf(held)' = Stored
      <4>1. CASE redis = Absent
        BY <1>1, <2>1, <4>1 DEF GetAllPositions, SizeOf, Stored
      <4>2. CASE redis # Absent /\ cache.position # Absent
        <5>1. held' = cache.position /\ heap' = heap
          BY <1>1, <2>1, <4>2 DEF GetAllPositions, Fetch
        <5> QED BY <2>1, <4>2, <5>1 DEF SizeOf
      <4>3. CASE redis # Absent /\ cache.position = Absent
        <5>1. held' = r /\ r # Absent
          BY <1>1, <2>1, <4>3, SizesAreNumbers DEF GetAllPositions
        <5>2. heap' = [heap EXCEPT ![r] = redis]
          BY <1>1, <4>3, <5>1 DEF Fetch
        <5> QED BY <4>3, <5>1, <5>2 DEF SizeOf, Stored, StoreType
      <4> QED BY <4>1, <4>2, <4>3
    <3>4. HeldInv'
      BY <2>1, <3>2, <3>3 DEF HeldInv
    <3>5. OrderInv'
      BY <1>4, <3>1 DEF OrderInv, Ordering
    <3> QED BY <2>3, <3>4, <3>5
  <2> QED BY <2>4, <2>5
<1> QED BY <1>5, <1>6, <1>7

\* Its strategies are started: from here on it answers market data.
LEMMA AnnounceKeeps ==
    ASSUME IInv, NEW t \in Threads, AnnounceRunning(t)
    PROVE  IInv'
<1> USE DEF IInv, TypeInv
<1>1. /\ pc[t] = "announcing" /\ armed' = TRUE /\ SetSystemStatus("running") /\ Goto(t, "idle")
      /\ failures' = (IF t = Dog THEN 0 ELSE failures)
      /\ UNCHANGED <<redisUp, redis, up, client, heap, disk, backing, running, held,
                     feeding, job, ghosts>>
  BY DEF AnnounceRunning
<1>2. /\ pc' \in [Threads -> Places] /\ pc'[t] = "idle"
      /\ \A u \in Threads \ {t} : pc'[u] = pc[u]
  BY <1>1, GotoType DEF Places
<1>3. StoreType'
  BY <1>1, StatusType DEF Left
<1>4. EngineType'
  BY <1>1 DEF EngineType, ghosts
<1>5. JobType'
  BY <1>1, <1>2 DEF JobType, Ordering
<1>6. DownInv'
  BY <1>1 DEF DownInv
<1>7. Certain'
  <2> SUFFICES ASSUME ~doubt' PROVE OrderInv' /\ HeldInv' /\ StoredIsNet'
    BY DEF Certain
  <2>1. OrderInv /\ HeldInv /\ StoredIsNet
    BY <1>1 DEF Certain, ghosts
  <2>2. OrderInv'
    BY <1>1, <1>2, <2>1 DEF OrderInv, Ordering
  <2>3. HeldInv'
    BY <1>1, <2>1 DEF HeldInv, SizeOf, ghosts
  <2>4. StoredIsNet'
    BY <1>1, <1>2, <2>1 DEF StoredIsNet, Stored, ghosts
  <2> QED BY <2>2, <2>3, <2>4
<1> QED BY <1>3, <1>4, <1>5, <1>6, <1>7

-----------------------------------------------------------------------------
(***************************************************************************)
(* The process.                                                            *)
(***************************************************************************)

\* A new process has no engine yet, and Redis is what the last one left.
LEMMA BootKeeps ==
    ASSUME IInv, NEW r \in Refs, Boot(r)
    PROVE  IInv'
<1> USE DEF IInv, TypeInv
<1> DEFINE found == IF disk.torn THEN Absent ELSE disk.backup
<1>1. ~up /\ Connect(r) /\ UNCHANGED <<engine, failures, job, ghosts>>
  BY DEF Boot
<1>2. pc' = [t \in Threads |-> CASE t = Api -> "starting" [] t = Dog -> "idle" [] OTHER -> "off"]
  BY DEF Boot
<1>3. \A t \in Threads : pc'[t] \in {"starting", "idle", "off"}
  BY <1>2
<1>4. found \in Amount
  BY DEF StoreType, Amount
<1>5. StoreType'
  <2>1. heap' \in [Refs -> Sizes]
    BY <1>1, <1>4, SizesAreNumbers DEF Connect, Amount
  <2>2. cache' \in [position : Dicts, status : Left \cup {"restarting"}]
    BY <1>1 DEF Connect, Dicts
  <2> QED BY <1>1, <2>1, <2>2 DEF StoreType, Connect
<1>6. EngineType'
  BY <1>1 DEF EngineType, engine, ghosts
<1>7. JobType'
  <2>1. pc' \in [Threads -> Places]
    BY <1>2, <1>3 DEF Places
  <2>2. job' = job
    BY <1>1
  <2> QED BY <1>3, <2>1, <2>2 DEF JobType, Ordering
<1>8. DownInv'
  BY <1>1 DEF DownInv, Connect
<1>9. held = Absent /\ ~armed /\ \A t \in Threads : pc[t] = "off"
  BY <1>1 DEF DownInv
<1>10. Certain'
  <2> SUFFICES ASSUME ~doubt' PROVE OrderInv' /\ HeldInv' /\ StoredIsNet'
    BY DEF Certain
  <2>1. ~doubt /\ StoredIsNet /\ UNCHANGED <<redis, net, held, armed>>
    BY <1>1 DEF Certain, ghosts, engine, Connect
  <2>2. Stored' = net'
    BY <1>9, <2>1 DEF StoredIsNet, Stored
  <2>3. OrderInv'
    BY <1>3 DEF OrderInv, Ordering
  <2>4. HeldInv'
    BY <1>3, <1>9, <2>1 DEF HeldInv
  <2>5. StoredIsNet'
    BY <2>2 DEF StoredIsNet
  <2> QED BY <2>3, <2>4, <2>5
<1> QED BY <1>5, <1>6, <1>7, <1>8, <1>10

\* A process that ends with no order between the engine and Redis leaves no doubt.
LEMMA DownKeeps ==
    ASSUME IInv, Down
    PROVE  IInv'
<1> USE DEF IInv, TypeInv
<1> DEFINE why == \E t \in Threads : pc[t] \in {"written", "dumped"}
<1>1. /\ Forget /\ Follow(net, why)
      /\ running' = FALSE /\ armed' = FALSE /\ held' = Absent /\ feeding' = FALSE
      /\ failures' = 0 /\ blamed' = 0
      /\ pc' = [t \in Threads |-> "off"] /\ job' = [t \in Threads |-> NoJob]
  BY DEF Down
<1>2. StoreType'
  BY <1>1, SizesAreNumbers DEF StoreType, Forget, Dicts, Left
<1>3. EngineType'
  <2>1. why \in BOOLEAN
    OBVIOUS
  <2>2. net' \in Int /\ doubt' \in BOOLEAN
    <3> HIDE DEF why
    <3> QED BY <1>1, <2>1, FollowType DEF EngineType
  <2> QED BY <1>1, <2>2 DEF EngineType, Dicts
<1>4. JobType'
  <2>1. NoJob \in Jobs
    BY SizesAreNumbers DEF NoJob, Jobs, Dicts
  <2>2. pc' \in [Threads -> Places] /\ job' \in [Threads -> Jobs]
    BY <1>1, <2>1 DEF Places
  <2> QED BY <1>1, <2>2 DEF JobType, Ordering
<1>5. DownInv'
  BY <1>1 DEF DownInv
<1>6. Certain'
  <2> SUFFICES ASSUME ~doubt' PROVE OrderInv' /\ HeldInv' /\ StoredIsNet'
    BY DEF Certain
  <2>1. ~doubt /\ ~why /\ net' = net
    <3> HIDE DEF why
    <3> QED BY <1>1, FollowIsSure
  <2>2. Stored' = net'
    BY <1>1, <2>1 DEF Certain, StoredIsNet, Stored, Forget
  <2>3. OrderInv'
    BY <1>1 DEF OrderInv, Ordering
  <2>4. HeldInv'
    BY <1>1 DEF HeldInv
  <2>5. StoredIsNet'
    BY <2>2 DEF StoredIsNet
  <2> QED BY <2>3, <2>4, <2>5
<1> QED BY <1>2, <1>3, <1>4, <1>5, <1>6

-----------------------------------------------------------------------------
\* Initially there is no process and no position.
LEMMA InitHolds == Init => IInv
<1> SUFFICES ASSUME Init PROVE IInv
  OBVIOUS
<1> USE SizesAreNumbers DEF Init, StoresInit
<1>1. StoreType
  BY DEF StoreType, Amount, Dicts, Left
<1>2. EngineType
  BY DEF EngineType, Dicts
<1>3. JobType
  <2>1. NoJob \in Jobs
    BY DEF NoJob, Jobs, Dicts
  <2> QED BY <2>1 DEF JobType, Places, Ordering
<1>4. DownInv
  BY DEF DownInv
<1>5. Certain
  BY DEF Certain, OrderInv, HeldInv, StoredIsNet, Stored, Ordering
<1> QED BY <1>1, <1>2, <1>3, <1>4, <1>5 DEF IInv, TypeInv

\* Every step keeps the invariant.
LEMMA NextKeeps == IInv /\ [Next]_vars => IInv'
<1> SUFFICES ASSUME IInv, [Next]_vars PROVE IInv'
  OBVIOUS
<1>1. CASE \E r \in Refs : Boot(r)
  BY <1>1, BootKeeps
<1>2. CASE Down
  BY <1>2, DownKeeps
<1>3. CASE Store
  BY <1>3, StoreKeeps
<1>4. ASSUME NEW t \in Threads, Order(t) PROVE IInv'
  BY <1>4, ChooseKeeps, ReadKeeps, WriteKeeps, DumpKeeps, SendKeeps DEF Order
<1>5. ASSUME NEW t \in Threads, StartStop(t) PROVE IInv'
  BY <1>5, StopKeeps, ReportKeeps, StartKeeps, IdleKeeps, LoadKeeps, AnnounceKeeps DEF StartStop
<1>6. ASSUME NEW t \in Threads, FeedEnds(t) PROVE IInv'
  BY <1>6, IdleKeeps
<1>7. CASE SetPositionTarget \/ Shutdown
  BY <1>7, ChooseKeeps, IdleKeeps, ThreadsAre
<1>8. CASE Watch
  BY <1>8, WatchKeeps, IdleKeeps, ThreadsAre DEF Watch
<1>9. CASE UNCHANGED vars
  <2>1. StoreType' /\ EngineType' /\ JobType' /\ DownInv'
    BY <1>9 DEF IInv, TypeInv, vars, stores, engine, ghosts, StoreType, EngineType, JobType, DownInv
  <2>2. Certain'
    BY <1>9 DEF IInv, vars, stores, engine, ghosts, Certain, OrderInv, HeldInv, StoredIsNet, Stored,
                SizeOf
  <2> QED BY <2>1, <2>2 DEF IInv, TypeInv
<1> QED BY <1>1, <1>2, <1>3, <1>4, <1>5, <1>6, <1>7, <1>8, <1>9 DEF Next

\* The inductive invariant holds in every state of the engine.
THEOREM Invariance == Spec => []IInv
BY InitHolds, NextKeeps, PTL DEF Spec

\* The engine, its threads and the stores keep their types; an order that is on its way
\* has a dict, and one that was read leads to a size the bound allows.
THEOREM TypeCorrect == Spec => []TypeInv
<1>1. IInv => TypeInv
  BY DEF IInv
<1> QED BY <1>1, Invariance, PTL

\* Without a doubt, and while no order is between the engine and Redis, Redis holds what
\* the orders add up to: through crashes, restarts, failing Redis, torn and stale backups.
THEOREM StoredIsTheNet == Spec => []StoredIsNet
<1>1. IInv => StoredIsNet
  BY DEF IInv, Certain, StoredIsNet
<1> QED BY <1>1, Invariance, PTL

\* Without a doubt, an engine that has loaded its positions holds what the orders add up to.
THEOREM HeldIsTheNet == Spec => []HeldIsNet
<1>1. IInv => HeldIsNet
  BY DEF IInv, Certain, HeldInv, HeldIsNet
<1> QED BY <1>1, Invariance, PTL

-----------------------------------------------------------------------------
(***************************************************************************)
(* The watchdog.  Its failure count never runs ahead of the failures that  *)
(* came since the last restart, except on the way from the decision to     *)
(* restart to the reset of the count; and what it saves is saved by a      *)
(* stop, so that it does not get back to its checks by way of an order.    *)
(***************************************************************************)
CountInv ==
  /\ pc[Dog] \in {"off", "idle"} => failures <= blamed
  /\ pc[Dog] \notin {"chosen", "read"}
  /\ pc[Dog] \in {"written", "dumped"} => job[Dog].action = "save"

\* What one step owes the watchdog: the invariant, and a restart that is earned.
Earned ==
  /\ CountInv'
  /\ pc[Dog] # "restarting" /\ pc'[Dog] = "restarting" => blamed' >= MaxFailures

\* A step in which the watchdog has no part.
Aside ==
  pc'[Dog] = pc[Dog] /\ job'[Dog] = job[Dog] /\ failures' = failures /\ blamed' = blamed

\* It owes the watchdog nothing.
LEMMA AsideEarns ==
    ASSUME CountInv, Aside
    PROVE  Earned
BY DEF CountInv, Aside, Earned

\* The watchdog and the API are threads of their own, and the watchdog does not trade.
LEMMA DogIsApart == Dog \in Threads /\ Dog # Api /\ Dog \notin Feeds /\ Dog \notin Traders
BY VnpyAssumption DEF Threads

\* A thread other than the watchdog is moved, and with it at most its own job.
LEMMA OthersAreAside ==
    ASSUME TypeInv, CountInv, NEW t \in Threads \ {Dog}, NEW step \in Places, Goto(t, step),
           job'[Dog] = job[Dog], failures' = failures, blamed' = blamed
    PROVE  Earned
<1>1. pc'[Dog] = pc[Dog]
  BY DogIsApart, GotoType DEF TypeInv
<1> QED BY <1>1, AsideEarns DEF Aside

\* Orders: the watchdog's only ones are those that save the position when it stops the engine.
LEMMA OrderEarns ==
    ASSUME TypeInv, CountInv, NEW t \in Threads, Order(t) \/ FeedEnds(t)
    PROVE  Earned
<1> USE DEF TypeInv, JobType, Places
<1>1. CASE t # Dog
  <2>1. failures' = failures /\ blamed' = blamed
    BY DEF Order, FeedEnds, ProcessMarketData, ReadPosition, WritePosition, DumpPosition,
           SendPosition, ghosts
  <2>2. job'[Dog] = job[Dog]
    BY <1>1, DogIsApart DEF Order, FeedEnds, ProcessMarketData, ReadPosition, WritePosition,
           DumpPosition, SendPosition
  <2>3. PICK step \in Places : Goto(t, step)
    <3>1. CASE ProcessMarketData(t) \/ WritePosition(t) \/ DumpPosition(t) \/ FeedEnds(t)
      BY <3>1 DEF FeedEnds, ProcessMarketData, WritePosition, DumpPosition
    <3>2. CASE \E r \in Refs : ReadPosition(t, r)
      BY <3>2 DEF ReadPosition
    <3>3. CASE SendPosition(t)
      BY <3>3 DEF SendPosition
    <3> QED BY <3>1, <3>2, <3>3 DEF Order
  <2> QED BY <1>1, <2>1, <2>2, <2>3, OthersAreAside
<1>2. CASE t = Dog
  <2>1. DumpPosition(Dog) \/ SendPosition(Dog)
    BY <1>2, DogIsApart DEF Order, FeedEnds, ProcessMarketData, ReadPosition, WritePosition,
         CountInv
  <2>2. CASE DumpPosition(Dog)
    <3>1. pc[Dog] = "written" /\ pc'[Dog] = "dumped"
      BY <2>2, DogIsApart, GotoType DEF DumpPosition
    <3>2. job'[Dog].action = job[Dog].action
      BY <2>2, DogIsApart DEF DumpPosition, Jobs
    <3> QED BY <3>1, <3>2 DEF CountInv, Earned
  <2>3. CASE SendPosition(Dog)
    <3>1. pc[Dog] = "dumped" /\ Goto(Dog, "reporting")
      BY <2>3 DEF SendPosition, CountInv
    <3>2. pc'[Dog] = "reporting"
      BY <3>1, DogIsApart, GotoType
    <3> QED BY <3>2 DEF CountInv, Earned
  <2> QED BY <2>1, <2>2, <2>3
<1> QED BY <1>1, <1>2

\* Stops and starts: the watchdog is back at its checks only with a count of zero.
LEMMA StartStopEarns ==
    ASSUME TypeInv, CountInv, NEW t \in Threads, StartStop(t)
    PROVE  Earned
<1> USE DEF TypeInv, JobType, Places
<1> USE DogIsApart
<1>1. CASE StopEngine(t)
  <2>1. failures' = failures /\ blamed' = blamed
    BY <1>1 DEF StopEngine, ghosts
  <2>2. CASE t # Dog
    BY <1>1, <2>1, <2>2, OthersAreAside DEF StopEngine
  <2>3. CASE t = Dog /\ held = Absent
    <3>1. pc'[Dog] = "reporting"
      BY <1>1, <2>3, GotoType DEF StopEngine
    <3> QED BY <3>1 DEF CountInv, Earned
  <2>4. CASE t = Dog /\ held # Absent
    <3>1. pc'[Dog] = "written"
      BY <1>1, <2>4, GotoType DEF StopEngine
    <3>2. job'[Dog].action = "save"
      BY <1>1, <2>4 DEF StopEngine, NoJob
    <3> QED BY <3>1, <3>2 DEF CountInv, Earned
  <2> QED BY <2>2, <2>3, <2>4
<1>2. CASE ReportStopped(t)
  <2>1. failures' = failures /\ blamed' = blamed /\ job' = job
    BY <1>2 DEF ReportStopped, ghosts
  <2>2. CASE t # Dog
    BY <1>2, <2>1, <2>2, OthersAreAside DEF ReportStopped
  <2>3. CASE t = Dog
    <3>1. pc'[Dog] = "sleeping"
      BY <1>2, <2>3, GotoType DEF ReportStopped
    <3> QED BY <3>1 DEF CountInv, Earned
  <2> QED BY <2>2, <2>3
<1>3. CASE StartEngine(t)
  <2>1. job' = job /\ blamed' = blamed
    BY <1>3 DEF StartEngine, ghosts
  <2>2. CASE t # Dog
    <3>1. failures' = failures /\ (Goto(t, "idle") \/ Goto(t, "claiming"))
      BY <1>3, <2>2 DEF StartEngine
    <3> QED BY <2>1, <2>2, <3>1, OthersAreAside
  <2>3. CASE t = Dog /\ running
    <3>1. pc'[Dog] = "idle" /\ failures' = 0 /\ blamed' \in Nat
      BY <1>3, <2>1, <2>3, GotoType DEF StartEngine, EngineType
    <3> QED BY <3>1 DEF CountInv, Earned
  <2>4. CASE t = Dog /\ ~running
    <3>1. pc'[Dog] = "claiming"
      BY <1>3, <2>4, GotoType DEF StartEngine
    <3> QED BY <3>1 DEF CountInv, Earned
  <2> QED BY <2>2, <2>3, <2>4
<1>4. CASE StartFeed(t)
  <2>1. job' = job /\ blamed' = blamed /\ failures' = failures /\ pc[t] = "claiming"
    BY <1>4 DEF StartFeed, ghosts
  <2>2. CASE t # Dog
    <3>1. pc'[Dog] = pc[Dog]
      BY <1>4, <2>2, GotoType DEF StartFeed
    <3> QED BY <2>1, <3>1 DEF CountInv, Earned
  <2>3. CASE t = Dog
    <3>1. pc'[Dog] = "loading"
      BY <1>4, <2>3, GotoType DEF StartFeed
    <3> QED BY <3>1 DEF CountInv, Earned
  <2> QED BY <2>2, <2>3
<1>5. CASE LoadRaises(t) \/ AnnounceRunning(t)
  <2>1. job' = job /\ blamed' = blamed /\ failures' = IF t = Dog THEN 0 ELSE failures
    BY <1>5 DEF LoadRaises, AnnounceRunning, ghosts
  <2>2. CASE t # Dog
    BY <1>5, <2>1, <2>2, OthersAreAside DEF LoadRaises, AnnounceRunning
  <2>3. CASE t = Dog
    <3>1. pc'[Dog] = "idle" /\ failures' = 0 /\ blamed' \in Nat
      BY <1>5, <2>1, <2>3, GotoType DEF EngineType, LoadRaises, AnnounceRunning
    <3> QED BY <3>1 DEF CountInv, Earned
  <2> QED BY <2>2, <2>3
<1>6. CASE \E r \in Refs : LoadPositions(t, r)
  <2>1. job' = job /\ blamed' = blamed /\ failures' = failures /\ Goto(t, "announcing")
    BY <1>6 DEF LoadPositions
  <2>2. CASE t # Dog
    BY <2>1, <2>2, OthersAreAside
  <2>3. CASE t = Dog
    <3>1. pc'[Dog] = "announcing"
      BY <2>1, <2>3, GotoType
    <3> QED BY <3>1 DEF CountInv, Earned
  <2> QED BY <2>2, <2>3
<1> QED BY <1>1, <1>2, <1>3, <1>4, <1>5, <1>6 DEF StartStop

\* A failure is counted on both sides, and the decision to restart clears one of them.
LEMMA WatchEarns ==
    ASSUME TypeInv, CountInv, Watch
    PROVE  Earned
<1> USE DEF TypeInv, JobType, Places
<1> USE DogIsApart
<1>1. CASE HealthCheck \/ CheckRaises
  <2>1. pc[Dog] = "idle" /\ HandleFailure
    BY <1>1 DEF HealthCheck, CheckRaises
  <2>2. failures \in Nat /\ blamed \in Nat /\ failures <= blamed
    BY <2>1 DEF CountInv, EngineType
  <2>3. /\ failures' = failures + 1
        /\ blamed' = IF blamed < MaxFailures THEN blamed + 1 ELSE blamed
        /\ pc'[Dog] = IF failures' >= MaxFailures THEN "restarting" ELSE "idle"
    BY <2>1, GotoType DEF HandleFailure
  <2>4. failures' >= MaxFailures => blamed' >= MaxFailures
    BY <2>2, <2>3, VnpyAssumption
  <2>5. failures' < MaxFailures => failures' <= blamed'
    BY <2>2, <2>3, VnpyAssumption
  <2> QED BY <2>2, <2>3, <2>4, <2>5, VnpyAssumption DEF CountInv, Earned
<1>2. CASE RestartEngine
  <2>1. pc'[Dog] = "stopping"
    BY <1>2, GotoType DEF RestartEngine
  <2> QED BY <2>1 DEF CountInv, Earned
<1>3. CASE WakeUp
  <2>1. pc'[Dog] = "starting"
    BY <1>3, GotoType DEF WakeUp
  <2> QED BY <2>1 DEF CountInv, Earned
<1> QED BY <1>1, <1>2, <1>3 DEF Watch

\* Every step does what it owes the watchdog.
LEMMA NextEarns ==
    ASSUME IInv, CountInv, [Next]_vars
    PROVE  Earned
<1> USE DEF IInv
<1>1. CASE \E r \in Refs : Boot(r)
  <2>1. pc[Dog] = "off" /\ failures' = failures /\ blamed' = blamed
    BY <1>1, DogIsApart DEF Boot, DownInv, ghosts
  <2>2. pc'[Dog] = "idle"
    BY <1>1, DogIsApart DEF Boot
  <2> QED BY <2>1, <2>2 DEF CountInv, Earned
<1>2. CASE Down
  <2>1. pc'[Dog] = "off" /\ failures' = 0 /\ blamed' = 0
    BY <1>2, DogIsApart DEF Down
  <2> QED BY <2>1 DEF CountInv, Earned
<1>3. CASE Store
  BY <1>3, AsideEarns DEF Store, Aside, ghosts
<1>4. ASSUME NEW t \in Threads, Order(t) \/ FeedEnds(t) PROVE Earned
  BY <1>4, OrderEarns
<1>5. ASSUME NEW t \in Threads, StartStop(t) PROVE Earned
  BY <1>5, StartStopEarns
<1>6. CASE SetPositionTarget \/ Shutdown
  <2>1. failures' = failures /\ blamed' = blamed /\ job'[Dog] = job[Dog]
    BY <1>6, DogIsApart DEF SetPositionTarget, Shutdown, ghosts, TypeInv, JobType
  <2>2. PICK step \in Places : Goto(Api, step)
    BY <1>6 DEF SetPositionTarget, Shutdown, Places
  <2> QED BY <2>1, <2>2, DogIsApart, ThreadsAre, OthersAreAside
<1>7. CASE Watch
  BY <1>7, WatchEarns
<1>8. CASE UNCHANGED vars
  BY <1>8, AsideEarns DEF vars, ghosts, Aside
<1> QED BY <1>1, <1>2, <1>3, <1>4, <1>5, <1>6, <1>7, <1>8 DEF Next

\* The watchdog restarts the engine only after MaxFailures failures that came after the
\* last restart: neither the API's start and stop nor a crash of the process hands it an
\* old count.
THEOREM RestartsAreEarned == Spec => RestartIsEarned
<1>1. Init => CountInv
  BY DogIsApart DEF Init, CountInv
<1>2. IInv /\ CountInv /\ [Next]_vars => CountInv'
  BY NextEarns DEF Earned
<1>3. IInv /\ CountInv /\ [Next]_vars
        => [pc[Dog] # "restarting" /\ pc'[Dog] = "restarting" => blamed' >= MaxFailures]_vars
  BY NextEarns DEF Earned
<1> QED BY <1>1, <1>2, <1>3, Invariance, PTL DEF Spec, RestartIsEarned
=============================================================================
