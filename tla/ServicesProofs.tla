--------------------------- MODULE ServicesProofs ---------------------------
(***************************************************************************)
(* What MCServices promises of each of the services, for all numbers of    *)
(* threads, of connections, of components and of tasks: an inductive       *)
(* invariant for every service, and that it stands still while another     *)
(* service moves.                                                          *)
(***************************************************************************)
EXTENDS MCServices, FiniteSetTheorems, SequenceTheorems, TLAPS
-----------------------------------------------------------------------------
(* The store: rows, copies and connections.                                *)

ClientPlaces ==
  [op : {"none", "save", "update", "get", "close", "remove", "record", "list"},
   at : {"idle", "lookup", "take", "statement", "conflict", "set", "delete", "put"},
   version : Nat, from : Nat]

StoreType ==
  /\ rows \in Seq(Nat) /\ written \in Nat /\ cached \in Nat /\ excused \in BOOLEAN
  /\ pool \in [id : Nat \ {0}, free : Int, open : BOOLEAN]
  /\ client \in [Loops -> ClientPlaces]

\* A client has no connection before it takes one and while it caches what it read, and
\* the one it has is of this pool or of a former one.
Placed(w) ==
  /\ w.from <= pool.id
  /\ w.at \in {"idle", "lookup", "take"} => w.from = 0
  /\ w.at = "set" => w.op = "save" \/ (w.op \in {"get", "close"} /\ w.from = 0)

Connected == {c \in Loops : client[c].from = pool.id}

StoreInv ==
  /\ StoreType
  /\ \A c \in Loops : Placed(client[c])
  /\ Store!StaleIsExplained
  /\ pool.open => pool.free + Cardinality(Connected) = MaxConn

\* Where a client is.
LEMMA ClientIs ==
    ASSUME StoreType, NEW c \in Loops
    PROVE  /\ client[c] \in ClientPlaces /\ client[c].version \in Nat /\ client[c].from \in Nat
           /\ client[c].op \in {"none", "save", "update", "get", "close", "remove", "record", "list"}
<1>1. client[c] \in ClientPlaces
  BY DEF StoreType
<1> QED BY <1>1, Zenon DEF ClientPlaces

\* The number, the free connections and the state of the pool.
LEMMA PoolIs == StoreType => pool.id \in Nat \ {0} /\ pool.free \in Int /\ pool.open \in BOOLEAN
BY Zenon DEF StoreType

\* A client that is done.
LEMMA IdleIs ==
    ASSUME StoreType
    PROVE  /\ Store!Idle \in ClientPlaces /\ Store!Idle.at = "idle" /\ Store!Idle.from = 0
           /\ Placed(Store!Idle)
<1>1. pool.id \in Nat
  BY PoolIs
<1>2. 0 \in Nat
  OBVIOUS
<1>3. Store!Idle \in ClientPlaces
  BY <1>2, Zenon DEF Store!Idle, ClientPlaces
<1>4. Store!Idle.at = "idle" /\ Store!Idle.from = 0
  BY DEF Store!Idle
<1> QED BY <1>1, <1>3, <1>4 DEF Placed

\* The clients with a connection can be counted.
LEMMA ConnectedCount ==
    /\ IsFiniteSet(Connected) /\ Cardinality(Connected) \in Nat
    /\ IsFiniteSet(Connected') /\ Cardinality(Connected') \in Nat
BY ServicesAssumption, FS_Subset, FS_CardinalityType DEF Connected

\* A client goes on, and neither the rows nor the copy change.
LEMMA StaleStays ==
    ASSUME StoreInv, NEW c \in Loops, NEW w, client' = [client EXCEPT ![c] = w],
           client[c].at # "delete", UNCHANGED <<rows, cached, excused>>
    PROVE  Store!StaleIsExplained'
<1>1. \A d \in Loops \ {c} : client'[d] = client[d]
  BY DEF StoreInv, StoreType
<1> QED BY <1>1 DEF StoreInv, Store!StaleIsExplained, Store!At, Store!Old, Store!Stored

\* A client goes on, and the pool stays: it keeps its connection, or has none of this pool.
LEMMA ClientMoves ==
    ASSUME StoreInv, NEW c \in Loops, NEW w \in ClientPlaces,
           client' = [client EXCEPT ![c] = w], UNCHANGED pool, Placed(w),
           w.from = client[c].from \/ (w.from = 0 /\ (pool.open => client[c].from # pool.id)),
           rows' \in Seq(Nat), written' \in Nat, cached' \in Nat, excused' \in BOOLEAN,
           Store!StaleIsExplained'
    PROVE  StoreInv'
<1>1. /\ client' \in [Loops -> ClientPlaces] /\ client'[c] = w
      /\ \A d \in Loops \ {c} : client'[d] = client[d]
  BY DEF StoreInv, StoreType
<1>2. StoreType'
  BY <1>1 DEF StoreInv, StoreType
<1>3. \A d \in Loops : Placed(client[d])'
  BY <1>1 DEF StoreInv, Placed
<1>4. pool.id # 0
  BY PoolIs DEF StoreInv
<1>5. ASSUME pool.open PROVE Connected' = Connected
  BY <1>1, <1>4, <1>5 DEF Connected
<1> QED BY <1>2, <1>3, <1>5 DEF StoreInv

\* No client has a connection, and all of the pool is free.
LEMMA StoreInit == Store!Init => StoreInv
<1> SUFFICES ASSUME Store!Init PROVE StoreInv
  OBVIOUS
<1>1. /\ Store!Idle \in ClientPlaces
      /\ pool.id = 1 /\ pool.free = MaxConn /\ pool.open
      /\ pool \in [id : Nat \ {0}, free : Int, open : BOOLEAN]
  BY ServicesAssumption DEF Store!Init, Store!Idle, ClientPlaces
<1>0. <<>> \in Seq(Nat) /\ 0 \in Nat
  OBVIOUS
<1>2. StoreType
  BY <1>0, <1>1, Zenon DEF Store!Init, StoreType
<1>3. \A c \in Loops : client[c] = Store!Idle
  BY DEF Store!Init
<1>4. Connected = {}
  BY <1>1, <1>2, <1>3, IdleIs DEF Connected
<1>5. Cardinality(Connected) = 0
  BY <1>4, FS_EmptySet
<1>6. Store!StaleIsExplained
  BY DEF Store!Init, Store!StaleIsExplained, Store!Old
<1>7. \A c \in Loops : Placed(client[c])
  BY <1>2, <1>3, IdleIs
<1> QED BY <1>1, <1>2, <1>5, <1>6, <1>7, ServicesAssumption DEF StoreInv

\* The steps of a client that is called, or looks into the cache.
LEMMA StoreReads ==
    ASSUME StoreInv, NEW c \in Loops,
           (\E op \in Store!Operations(kind) : Store!Call(c, op)) \/ Store!Lookup(c)
    PROVE  StoreInv'
<1>0. /\ StoreType /\ client[c] \in ClientPlaces /\ Placed(client[c])
      /\ UNCHANGED <<rows, written, cached, excused, pool>>
      /\ client[c].at \in {"idle", "lookup"} /\ client[c].from = 0
  BY ClientIs DEF StoreInv, Placed, Store!Call, Store!Lookup, Store!At, Store!database, Store!cache
<1>1. /\ rows' \in Seq(Nat) /\ written' \in Nat /\ cached' \in Nat /\ excused' \in BOOLEAN
  BY <1>0 DEF StoreType
<1>2. Store!Idle \in ClientPlaces /\ Store!Idle.from = 0 /\ Placed(Store!Idle) /\ pool.id \in Nat
  BY <1>0, IdleIs, PoolIs
\* A client without a connection that goes to take one, or is done.
<1>3. ASSUME NEW w \in ClientPlaces, client' = [client EXCEPT ![c] = w], w.from = 0, w.at # "set"
      PROVE  StoreInv'
  <2>1. Placed(w)
    BY <1>2, <1>3 DEF Placed
  <2>2. Store!StaleIsExplained'
    BY <1>0, <1>3, StaleStays
  <2> QED BY <1>0, <1>1, <1>3, <2>1, <2>2, ClientMoves
<1>4. CASE \E op \in Store!Operations(kind) : Store!Call(c, op)
  <2>1. PICK op \in Store!Operations(kind) : Store!Call(c, op)
    BY <1>4
  <2>2. op \in {"none", "save", "update", "get", "close", "remove", "record", "list"}
    BY DEF Store!Operations, Store!OtherRecords, Store!Lists, Store!TradeOperations, Store!PositionOperations
  <2> DEFINE place == IF op \in {"get", "close"} THEN "lookup" ELSE "take"
             w == [Store!Idle EXCEPT !.op = op, !.at = place]
  <2>3. place \in {"lookup", "take"}
    OBVIOUS
  <2>4. client' = [client EXCEPT ![c] = w]
    BY <2>1 DEF Store!Call
  <2> HIDE DEF place
  <2>5. w \in ClientPlaces
    BY <1>2, <2>2, <2>3 DEF ClientPlaces
  <2>6. w.from = 0 /\ w.at # "set"
    BY <2>3 DEF Store!Idle
  <2> HIDE DEF w
  <2> QED BY <1>3, <2>4, <2>5, <2>6
<1>5. CASE Store!Lookup(c)
  <2> DEFINE v == [client[c] EXCEPT !.op = "update", !.at = "take"]
             w == [client[c] EXCEPT !.at = "take"]
  <2>1. \/ client' = [client EXCEPT ![c] = Store!Idle]
        \/ client' = [client EXCEPT ![c] = v]
        \/ client' = [client EXCEPT ![c] = w]
    BY <1>0, <1>5 DEF Store!Lookup, Store!Goes, StoreType
  <2>2. v \in ClientPlaces /\ w \in ClientPlaces
    BY <1>0 DEF ClientPlaces
  <2>3. v.from = 0 /\ v.at = "take" /\ w.from = 0 /\ w.at = "take"
    BY <1>0 DEF ClientPlaces
  <2>4. Store!Idle.at # "set"
    BY DEF Store!Idle
  <2> HIDE DEF v, w
  <2> QED BY <1>2, <1>3, <2>1, <2>2, <2>3, <2>4
<1> QED BY <1>4, <1>5

\* The statements, which keep their connection.
LEMMA StoreStatements ==
    ASSUME StoreInv, NEW c \in Loops,
           \/ Store!Insert(c) \/ Store!Update(c) \/ Store!Remove(c) \/ Store!Select(c)
           \/ Store!Other(c) \/ Store!StatementFails(c) \/ Store!CacheDelete(c)
    PROVE  StoreInv'
<1>0. /\ StoreType /\ client[c] \in ClientPlaces /\ Placed(client[c])
      /\ UNCHANGED pool /\ client[c].at \in {"statement", "delete"}
      /\ rows \in Seq(Nat) /\ written \in Nat /\ cached \in Nat /\ excused \in BOOLEAN
  BY ClientIs DEF StoreInv, StoreType, Store!Insert, Store!Update, Store!Remove, Store!Select,
       Store!Other, Store!StatementFails, Store!CacheDelete, Store!Statement, Store!At
\* A client goes on to another place with its connection.
<1>1. ASSUME NEW w \in ClientPlaces, client' = [client EXCEPT ![c] = w], w.from = client[c].from,
             w.at \in {"conflict", "set", "delete", "put"}, w.at = "set" => w.op = "save",
             rows' \in Seq(Nat), written' \in Nat, cached' \in Nat, excused' \in BOOLEAN,
             Store!StaleIsExplained'
      PROVE  StoreInv'
  <2>1. Placed(w)
    BY <1>0, <1>1 DEF Placed
  <2> QED BY <1>1, <1>0, <2>1, ClientMoves
<1>2. ASSUME NEW place \in {"conflict", "set", "delete", "put"}
      PROVE  /\ [client[c] EXCEPT !.at = place] \in ClientPlaces
             /\ [client[c] EXCEPT !.at = place].from = client[c].from
             /\ [client[c] EXCEPT !.at = place].op = client[c].op
             /\ [client[c] EXCEPT !.at = place].at = place
  BY <1>0 DEF ClientPlaces
\* A client goes on, and neither the rows nor the copy change.
<1>3. ASSUME NEW place \in {"conflict", "put"}, Store!Goes(c, place), client[c].at = "statement",
             UNCHANGED <<rows, written, cached, excused>>
      PROVE  StoreInv'
  <2> DEFINE w == [client[c] EXCEPT !.at = place]
  <2>1. client' = [client EXCEPT ![c] = w]
    BY <1>0, <1>3 DEF Store!Goes, StoreType
  <2>2. w \in ClientPlaces /\ w.from = client[c].from /\ w.at = place
    BY <1>2, <1>3
  <2> HIDE DEF w
  <2>3. Store!StaleIsExplained'
    BY <1>3, <2>1, StaleStays
  <2> QED BY <1>0, <1>1, <1>3, <2>1, <2>2, <2>3
<1>4. CASE Store!Other(c) \/ Store!StatementFails(c)
  BY <1>3, <1>4 DEF Store!Other, Store!StatementFails, Store!At, Store!database, Store!cache
<1>5. CASE Store!Select(c)
  <2>1. CASE rows = <<>> /\ Store!Goes(c, "put")
    BY <1>3, <1>5, <2>1 DEF Store!Select, Store!Statement, Store!At, Store!database, Store!cache
  <2>2. ASSUME NEW x \in Store!Stored, client' = [client EXCEPT ![c].version = x, ![c].at = "put"]
        PROVE  StoreInv'
    <3> DEFINE w == [client[c] EXCEPT !.version = x, !.at = "put"]
    <3>1. client' = [client EXCEPT ![c] = w]
      BY <1>0, <2>2 DEF StoreType
    <3>2. x \in Nat
      BY <1>0 DEF Store!Stored
    <3>3. w \in ClientPlaces /\ w.from = client[c].from /\ w.at = "put"
      BY <1>0, <3>2 DEF ClientPlaces
    <3>4. UNCHANGED <<rows, written, cached, excused>> /\ client[c].at = "statement"
      BY <1>5 DEF Store!Select, Store!Statement, Store!At, Store!database, Store!cache
    <3> HIDE DEF w
    <3>5. Store!StaleIsExplained'
      BY <3>1, <3>4, StaleStays
    <3> QED BY <1>0, <1>1, <3>1, <3>3, <3>4, <3>5
  <2> QED BY <1>5, <2>1, <2>2 DEF Store!Select
<1>6. CASE Store!Insert(c)
  <2>0. client[c].at = "statement" /\ client[c].op = "save" /\ UNCHANGED <<cached, excused>>
    BY <1>6 DEF Store!Insert, Store!Statement, Store!At, Store!cache
  <2>1. CASE Store!Goes(c, "conflict") /\ UNCHANGED <<rows, written>>
    BY <1>3, <2>0, <2>1
  <2>2. CASE /\ written' = written + 1 /\ rows' = Append(rows, written')
             /\ client' = [client EXCEPT ![c].version = written', ![c].at = "set"]
    <3> DEFINE w == [client[c] EXCEPT !.version = written', !.at = "set"]
    <3>1. client' = [client EXCEPT ![c] = w]
      BY <1>0, <2>2 DEF StoreType
    <3>2. written' \in Nat /\ rows' \in Seq(Nat)
      BY <1>0, <2>2
    <3>3. w \in ClientPlaces /\ w.from = client[c].from /\ w.at = "set" /\ w.op = "save"
      BY <1>0, <2>0, <3>2 DEF ClientPlaces
    <3> HIDE DEF w
    <3>4. Store!Stored \subseteq Store!Stored'
      BY <1>0, <2>2, <3>2 DEF Store!Stored
    <3>5. Store!StaleIsExplained'
      <4>1. \A d \in Loops \ {c} : client'[d] = client[d]
        BY <1>0, <3>1 DEF StoreType
      <4> QED BY <2>0, <3>4, <4>1 DEF StoreInv, Store!StaleIsExplained, Store!Old, Store!At
    <3> QED BY <1>0, <1>1, <2>0, <3>1, <3>2, <3>3, <3>5
  <2> QED BY <1>6, <2>1, <2>2 DEF Store!Insert, Store!Fresh, Store!database
<1>7. CASE Store!Update(c) \/ Store!Remove(c)
  <2> DEFINE w == [client[c] EXCEPT !.at = "delete"]
  <2>1. client' = [client EXCEPT ![c] = w]
    BY <1>0, <1>7 DEF Store!Update, Store!Remove, Store!Goes, StoreType
  <2>2. w \in ClientPlaces /\ w.from = client[c].from /\ w.at = "delete"
    BY <1>2
  <2>3. written' \in Nat /\ UNCHANGED <<cached, excused>>
    BY <1>0, <1>7 DEF Store!Update, Store!Remove, Store!Fresh, Store!cache
  <2>4. rows' \in Seq(Nat)
    <3>1. Len(rows) \in Nat
      BY <1>0
    <3>2. [i \in 1..Len(rows) |-> written'] \in Seq(Nat)
      BY <2>3, <3>1
    <3>3. <<>> \in Seq(Nat)
      OBVIOUS
    <3> QED BY <1>7, <3>2, <3>3 DEF Store!Update, Store!Remove
  <2> HIDE DEF w
  <2>5. client'[c] = w
    BY <1>0, <2>1 DEF StoreType
  <2>6. Store!StaleIsExplained'
    BY <2>2, <2>5 DEF Store!StaleIsExplained, Store!At
  <2> QED BY <1>0, <1>1, <2>1, <2>2, <2>3, <2>6, <2>4
<1>8. CASE Store!CacheDelete(c)
  <2> DEFINE w == [client[c] EXCEPT !.at = "put"]
  <2>1. client' = [client EXCEPT ![c] = w]
    BY <1>0, <1>8 DEF Store!CacheDelete, Store!Goes, StoreType
  <2>2. w \in ClientPlaces /\ w.from = client[c].from /\ w.at = "put"
    BY <1>2
  <2>3. UNCHANGED <<rows, written>> /\ cached' \in Nat
    BY <1>0, <1>8 DEF Store!CacheDelete, Store!database
  <2>4. excused' \in BOOLEAN
    BY <1>0, <1>8, Zenon DEF Store!CacheDelete, Store!Old
  <2>5. Store!StaleIsExplained'
    BY <1>8, <2>3 DEF Store!CacheDelete, Store!StaleIsExplained, Store!Old, Store!Stored
  <2> HIDE DEF w
  <2> QED BY <1>0, <1>1, <2>1, <2>2, <2>3, <2>5, <2>4
<1> QED BY <1>4, <1>5, <1>6, <1>7, <1>8


\* What a client has read or written goes to the cache.
LEMMA StoreCaches == ASSUME StoreInv, NEW c \in Loops, Store!CacheSet(c) PROVE StoreInv'
<1>0. /\ StoreType /\ client[c] \in ClientPlaces /\ Placed(client[c])
      /\ UNCHANGED pool /\ client[c].at = "set"
      /\ UNCHANGED <<rows, written>> /\ client[c].version \in Nat
  BY ClientIs DEF StoreInv, Store!CacheSet, Store!At, Store!database
<1>1. rows' \in Seq(Nat) /\ written' \in Nat /\ cached' \in Nat
  BY <1>0 DEF Store!CacheSet, Store!cache, StoreType
<1>2. excused' \in BOOLEAN
  BY <1>0, Zenon DEF Store!CacheSet, Store!cache, StoreType, Store!Old
<1>3. Store!Idle \in ClientPlaces /\ Store!Idle.from = 0 /\ Placed(Store!Idle) /\ pool.id \in Nat
  BY <1>0, IdleIs, PoolIs
<1>4. ASSUME NEW w \in ClientPlaces, client' = [client EXCEPT ![c] = w], w.from = client[c].from, Placed(w)
      PROVE  StoreInv'
  <2>1. CASE UNCHANGED <<cached, excused>>
    <3>1. Store!StaleIsExplained'
      BY <1>0, <1>4, <2>1, StaleStays
    <3> QED BY <1>0, <1>1, <1>2, <1>4, <3>1, ClientMoves
  <2>2. CASE excused' = Store!Old(cached')
    <3>1. Store!StaleIsExplained'
      BY <1>0, <2>2 DEF Store!StaleIsExplained, Store!Old, Store!Stored
    <3> QED BY <1>0, <1>1, <1>2, <1>4, <3>1, ClientMoves
  <2> QED BY <2>1, <2>2 DEF Store!CacheSet, Store!cache
<1> DEFINE v == [client[c] EXCEPT !.op = "update", !.at = "take"]
           w == [client[c] EXCEPT !.at = "put"]
<1>5. v \in ClientPlaces /\ w \in ClientPlaces
  BY <1>0 DEF ClientPlaces
<1>6. v.from = client[c].from /\ v.at = "take" /\ w.from = client[c].from /\ w.at = "put"
  BY <1>0 DEF ClientPlaces
<1>7. \/ client[c].op = "get" /\ client' = [client EXCEPT ![c] = Store!Idle] /\ client[c].from = 0
      \/ client[c].op = "close" /\ client' = [client EXCEPT ![c] = v] /\ client[c].from = 0
      \/ client[c].op = "save" /\ client' = [client EXCEPT ![c] = w]
  BY <1>0 DEF Store!CacheSet, Placed
<1> HIDE DEF v, w
<1>8. client[c].from = 0 => Placed(v)
  BY <1>3, <1>6 DEF Placed
<1>9. Placed(w)
  BY <1>0, <1>6 DEF Placed
<1> QED BY <1>3, <1>4, <1>5, <1>6, <1>7, <1>8, <1>9

\* A connection is taken.
LEMMA StoreTakes == ASSUME StoreInv, NEW c \in Loops, Store!Take(c) PROVE StoreInv'
<1>0. /\ StoreType /\ client[c] \in ClientPlaces /\ client[c].at = "take" /\ client[c].from = 0
      /\ UNCHANGED <<rows, written, cached, excused>>
      /\ pool \in [id : Nat \ {0}, free : Int, open : BOOLEAN]
      /\ pool.id \in Nat \ {0} /\ pool.free \in Int /\ pool.open \in BOOLEAN
  BY ClientIs, PoolIs
     DEF StoreInv, StoreType, Placed, Store!Take, Store!At, Store!database, Store!cache
<1>1. CASE ~(pool.open /\ pool.free > 0)
  <2>1. client' = [client EXCEPT ![c] = Store!Idle] /\ UNCHANGED pool
    BY <1>1 DEF Store!Take
  <2>2. Store!Idle \in ClientPlaces /\ Store!Idle.from = 0 /\ Placed(Store!Idle)
    BY <1>0, IdleIs
  <2>3. Store!StaleIsExplained'
    BY <1>0, <2>1, StaleStays
  <2>4. rows' \in Seq(Nat) /\ written' \in Nat /\ cached' \in Nat /\ excused' \in BOOLEAN
    BY <1>0 DEF StoreType
  <2> QED BY <1>0, <2>1, <2>2, <2>3, <2>4, ClientMoves
<1>2. CASE pool.open /\ pool.free > 0
  <2> DEFINE w == [client[c] EXCEPT !.at = "statement", !.from = pool.id]
  <2>1. client' = [client EXCEPT ![c] = w] /\ pool' = [pool EXCEPT !.free = pool.free - 1]
    BY <1>0, <1>2 DEF Store!Take, StoreType
  <2>2. w \in ClientPlaces /\ w.from = pool.id /\ w.at = "statement"
    BY <1>0 DEF ClientPlaces
  <2>3. /\ pool'.id = pool.id /\ pool'.free = pool.free - 1 /\ pool'.open = pool.open
        /\ pool' \in [id : Nat \ {0}, free : Int, open : BOOLEAN]
    BY <1>0, <2>1
  <2> HIDE DEF w
  <2>4. /\ client' \in [Loops -> ClientPlaces] /\ client'[c] = w
        /\ \A d \in Loops \ {c} : client'[d] = client[d]
    BY <1>0, <2>1, <2>2 DEF StoreType
  <2>5. StoreType'
    BY <1>0, <2>3, <2>4 DEF StoreType
  <2>6. \A d \in Loops : Placed(client[d])'
    BY <1>0, <2>2, <2>3, <2>4 DEF StoreInv, Placed
  <2>7. Store!StaleIsExplained'
    BY <1>0, <2>1, StaleStays
  <2>8. Connected' = Connected \cup {c} /\ c \notin Connected
    BY <1>0, <2>2, <2>3, <2>4 DEF Connected
  <2>9. Cardinality(Connected') = Cardinality(Connected) + 1
    BY <2>8, ConnectedCount, FS_AddElement
  <2>10. pool'.free + Cardinality(Connected') = MaxConn
    BY <1>0, <1>2, <2>3, <2>9, ConnectedCount DEF StoreInv
  <2> QED BY <2>5, <2>6, <2>7, <2>10 DEF StoreInv
<1> QED BY <1>1, <1>2

\* A connection is given back.
LEMMA StorePuts == ASSUME StoreInv, NEW c \in Loops, Store!Put(c) PROVE StoreInv'
<1>0. /\ StoreType /\ client[c] \in ClientPlaces /\ client[c].at \in {"put", "conflict"}
      /\ client[c].from \in Nat /\ UNCHANGED <<rows, written, cached, excused>>
      /\ pool \in [id : Nat \ {0}, free : Int, open : BOOLEAN]
      /\ pool.id \in Nat \ {0} /\ pool.free \in Int /\ pool.open \in BOOLEAN
  BY ClientIs, PoolIs DEF StoreInv, StoreType, Store!Put, Store!At, Store!database, Store!cache
<1> DEFINE v == [client[c] EXCEPT !.op = "update", !.at = "take", !.from = 0]
           s == [client[c] EXCEPT !.at = "set", !.from = 0]
<1>1. \/ client' = [client EXCEPT ![c] = Store!Idle]
      \/ client' = [client EXCEPT ![c] = v]
      \/ client' = [client EXCEPT ![c] = s] /\ client[c].op \in {"get", "close"}
  BY <1>0 DEF Store!Put, Store!At
<1>2. v \in ClientPlaces /\ s \in ClientPlaces
  BY <1>0 DEF ClientPlaces
<1>3. /\ v.from = 0 /\ v.at = "take"
      /\ s.from = 0 /\ s.at = "set" /\ s.op = client[c].op
  BY <1>0 DEF ClientPlaces
<1>4. Store!Idle \in ClientPlaces /\ Store!Idle.from = 0 /\ Placed(Store!Idle)
  BY <1>0, IdleIs
<1>5. Placed(v) /\ (client[c].op \in {"get", "close"} => Placed(s))
  BY <1>0, <1>3 DEF Placed
<1> HIDE DEF v, s
\* The client goes on without the connection.
<1>6. ASSUME NEW w \in ClientPlaces, client' = [client EXCEPT ![c] = w], w.from = 0, Placed(w)
      PROVE  StoreInv'
  <2>1. Store!StaleIsExplained'
    BY <1>0, <1>6, StaleStays
  <2>2. rows' \in Seq(Nat) /\ written' \in Nat /\ cached' \in Nat /\ excused' \in BOOLEAN
    BY <1>0 DEF StoreType
  <2>3. CASE ~Store!Taken(c)
    <3>1. UNCHANGED pool /\ (pool.open => client[c].from # pool.id)
      BY <2>3 DEF Store!Put, Store!Taken
    <3> QED BY <1>6, <2>1, <2>2, <3>1, ClientMoves
  <2>4. CASE Store!Taken(c)
    <3> DEFINE p == [pool EXCEPT !.free = pool.free + 1]
    <3>1. pool' = p /\ pool.open /\ client[c].from = pool.id
      BY <2>4 DEF Store!Put, Store!Taken, Store!Returned
    <3>2. p \in [id : Nat \ {0}, free : Int, open : BOOLEAN]
      BY <1>0
    <3>3. p.id = pool.id /\ p.free = pool.free + 1 /\ p.open = pool.open
      BY <1>0
    <3> HIDE DEF p
    <3>4. /\ client' \in [Loops -> ClientPlaces] /\ client'[c] = w
          /\ \A d \in Loops \ {c} : client'[d] = client[d]
      BY <1>0, <1>6 DEF StoreType
    <3>5. StoreType'
      BY <2>2, <3>1, <3>2, <3>4 DEF StoreType
    <3>6. \A d \in Loops : Placed(client[d])'
      BY <1>6, <3>1, <3>3, <3>4 DEF StoreInv, Placed
    <3>7. Connected' = Connected \ {c} /\ c \in Connected
      BY <1>0, <1>6, <3>1, <3>3, <3>4 DEF Connected
    <3>8. Cardinality(Connected') = Cardinality(Connected) - 1
      BY <3>7, ConnectedCount, FS_RemoveElement
    <3>9. pool'.free + Cardinality(Connected') = MaxConn
      BY <1>0, <3>1, <3>3, <3>8, ConnectedCount DEF StoreInv
    <3> QED BY <2>1, <3>5, <3>6, <3>9 DEF StoreInv
  <2> QED BY <2>3, <2>4
<1> QED BY <1>1, <1>2, <1>3, <1>4, <1>5, <1>6

\* The steps of the pool and of the cache.
LEMMA StorePool ==
    ASSUME StoreInv, Store!Expire \/ Store!Disconnect \/ Store!Connect \/ Store!Restart
    PROVE  StoreInv'
<1>0. /\ StoreType /\ pool \in [id : Nat \ {0}, free : Int, open : BOOLEAN]
      /\ pool.id \in Nat \ {0} /\ pool.free \in Int /\ pool.open \in BOOLEAN
      /\ rows \in Seq(Nat) /\ written \in Nat /\ cached \in Nat /\ excused \in BOOLEAN
  BY PoolIs DEF StoreInv, StoreType
<1>1. CASE Store!Expire
  <2>1. /\ UNCHANGED <<pool, client, rows, written>> /\ cached' = 0 /\ excused' = FALSE
    BY <1>1 DEF Store!Expire, Store!database
  <2>2. StoreType' /\ Connected' = Connected
    BY <1>0, <2>1 DEF StoreType, Connected
  <2>3. Store!StaleIsExplained'
    BY <2>1 DEF Store!StaleIsExplained, Store!Old
  <2> QED BY <2>1, <2>2, <2>3 DEF StoreInv, Placed
<1>2. CASE Store!Disconnect
  <2>1. /\ pool'.id = pool.id /\ ~pool'.open
        /\ pool' \in [id : Nat \ {0}, free : Int, open : BOOLEAN]
        /\ UNCHANGED <<client, rows, written, cached, excused>>
    BY <1>0, <1>2 DEF Store!Disconnect, Store!database, Store!cache
  <2>2. StoreType'
    BY <1>0, <2>1 DEF StoreType
  <2>3. Store!StaleIsExplained'
    BY <2>1 DEF StoreInv, Store!StaleIsExplained, Store!Old, Store!Stored, Store!At
  <2> QED BY <2>1, <2>2, <2>3 DEF StoreInv, Placed
\* Another pool, of which nobody has a connection.
<1>3. ASSUME pool' = [id |-> pool.id + 1, free |-> MaxConn, open |-> TRUE],
             client' \in [Loops -> ClientPlaces], UNCHANGED <<rows, written, cached>>, excused' \in BOOLEAN,
             \A d \in Loops : client'[d] = client[d] \/ client'[d] = Store!Idle,
             Store!StaleIsExplained'
      PROVE  StoreInv'
  <2>1. /\ pool'.id = pool.id + 1 /\ pool'.free = MaxConn /\ pool'.open
        /\ pool' \in [id : Nat \ {0}, free : Int, open : BOOLEAN] /\ MaxConn \in Nat
    BY <1>0, <1>3, ServicesAssumption
  <2>2. StoreType'
    BY <1>0, <1>3, <2>1 DEF StoreType
  <2>3. \A d \in Loops : client'[d].from \in Nat /\ client'[d].from <= pool.id /\ Placed(client[d])'
    BY <1>0, <1>3, <2>1, ClientIs, IdleIs DEF StoreInv, Placed
  <2>4. Connected' = {}
    BY <1>0, <2>1, <2>3 DEF Connected
  <2>5. Cardinality(Connected') = 0
    BY <2>4, FS_EmptySet
  <2> QED BY <1>3, <2>1, <2>2, <2>3, <2>5 DEF StoreInv
<1>4. CASE Store!Connect
  <2>1. Store!StaleIsExplained'
    BY <1>4 DEF StoreInv, Store!Connect, Store!StaleIsExplained, Store!Old, Store!Stored, Store!At,
                Store!database, Store!cache
  <2> QED BY <1>0, <1>3, <1>4, <2>1 DEF Store!Connect, Store!database, Store!cache, StoreType
<1>5. CASE Store!Restart
  <2>1. UNCHANGED <<rows, written, cached>> /\ excused' = (excused \/ Store!Old(cached))
    BY <1>5 DEF Store!Restart, Store!database
  <2>2. Store!StaleIsExplained'
    BY <2>1 DEF Store!StaleIsExplained, Store!Old, Store!Stored
  <2>3. excused' \in BOOLEAN
    BY <1>0, <2>1, Zenon DEF Store!Old
  <2>4. client' = [d \in Loops |-> Store!Idle] /\ Store!Idle \in ClientPlaces
    BY <1>0, <1>5, IdleIs DEF Store!Restart
  <2> QED BY <1>3, <1>5, <2>1, <2>2, <2>3, <2>4 DEF Store!Restart
<1> QED BY <1>1, <1>2, <1>4, <1>5

\* The store keeps its invariant.
LEMMA StoreStep == StoreInv /\ Store!Next => StoreInv'
BY StoreReads, StoreStatements, StoreCaches, StoreTakes, StorePuts, StorePool
   DEF Store!Next, Store!Step

\* The size of a set in the store is its size here.
LEMMA StoreCount == ASSUME NEW S PROVE Store!Cardinality(S) = Cardinality(S)
BY Zenon DEF Store!Cardinality, Cardinality

\* What the store promises of copies and of connections.
LEMMA StoreHolds == StoreInv => Store!StaleIsExplained /\ Store!PoolIsWhole
BY StoreCount DEF StoreInv, Store!PoolIsWhole, Connected

\* Where the store stands still, nothing changes for it.
LEMMA StoreStays == StoreInv /\ UNCHANGED storeVars => StoreInv'
BY DEF StoreInv, StoreType, Placed, Connected, storeVars,
        Store!StaleIsExplained, Store!Old, Store!Stored, Store!At
-----------------------------------------------------------------------------
(* The configuration: reloads that do not overlap.                         *)

WatcherPlaces ==
  [at : {"out", "loop", "read", "assign", "stat", "callbacks"}, read : Int, old : Int]

ConfigType ==
  /\ watcher \in [Config!Threads -> WatcherPlaces]
  /\ config \in Int /\ configFile.content \in Int /\ configFile.version \in Int
  /\ reloads \in BOOLEAN /\ overlooked \in BOOLEAN

\* No time is taken before the file has it.
Times == last_modified \in Int /\ configFile.time \in Int /\ last_modified <= configFile.time

\* A thread that has replaced the configuration and not told the components.
Late(w) == w.at \in {"stat", "callbacks"}

\* One reload at a time: the components hold the former configuration until they are
\* told of the one that was read.
OneReload ==
  /\ \A t \in Config!Threads :
       Late(watcher[t]) => config = watcher[t].read /\ applied = watcher[t].old
  /\ \A t, u \in Config!Threads : Late(watcher[t]) /\ Late(watcher[u]) => t = u
  /\ (\A t \in Config!Threads : ~Late(watcher[t])) => applied = config

\* What was read is what the file holds, or will be read.
FileIsSeen ==
  \/ overlooked
  \/ configFile.time > last_modified
  \/ config = configFile.content
  \/ \E t \in Config!Threads : watcher[t].at = "stat"

ConfigInv == ConfigType /\ Times /\ (reloads \/ (OneReload /\ FileIsSeen))

\* What a thread is ready for.
LEMMA ReadyFor ==
    ASSUME NEW step \in {"out", "loop", "read", "assign", "stat", "callbacks"}
    PROVE  Config!Ready(step) \in WatcherPlaces /\ Config!Ready(step).at = step
<1>1. 0 \in Int
  OBVIOUS
<1> QED BY <1>1, Zenon DEF Config!Ready, Config!None, WatcherPlaces

\* The components hold the configuration that was read first.
LEMMA ConfigInit == Config!Init => ConfigInv
<1> SUFFICES ASSUME Config!Init PROVE ConfigInv
  OBVIOUS
<1>1. watcher = [t \in Config!Threads |-> Config!Ready("out")]
  BY DEF Config!Init
<1>2. ConfigType
  <2>1. watcher \in [Config!Threads -> WatcherPlaces]
    BY <1>1, ReadyFor
  <2>2. config \in Int /\ configFile.content \in Int /\ configFile.version \in Int
    BY DEF Config!Init
  <2> QED BY <2>1, <2>2 DEF Config!Init, ConfigType
<1>3. \A t \in Config!Threads : ~Late(watcher[t])
  BY <1>1, ReadyFor DEF Late
<1>4. Times /\ FileIsSeen
  BY DEF Config!Init, Times, FileIsSeen
<1> QED BY <1>2, <1>3, <1>4 DEF Config!Init, ConfigInv, OneReload

\* A thread goes on with no configuration in its hands.
LEMMA ConfigMoves ==
    ASSUME ConfigInv, NEW t \in Config!Threads, NEW w \in WatcherPlaces,
           watcher' = [watcher EXCEPT ![t] = w], ~Late(watcher[t]), ~Late(w),
           UNCHANGED <<configFile, config, last_modified, applied, reloads, overlooked>>
    PROVE  ConfigInv'
<1>1. /\ watcher' \in [Config!Threads -> WatcherPlaces] /\ watcher'[t] = w
      /\ \A u \in Config!Threads \ {t} : watcher'[u] = watcher[u]
  BY DEF ConfigInv, ConfigType
<1>2. ConfigType'
  BY <1>1 DEF ConfigInv, ConfigType
<1>3. \A u \in Config!Threads :
        /\ Late(watcher'[u]) <=> Late(watcher[u])
        /\ Late(watcher[u]) => watcher'[u] = watcher[u]
  BY <1>1
<1>4. OneReload => OneReload'
  BY <1>3 DEF OneReload
<1>5. \A u \in Config!Threads : watcher[u].at = "stat" => watcher'[u].at = "stat"
  BY <1>3 DEF Late
<1>6. FileIsSeen => FileIsSeen'
  BY <1>5 DEF FileIsSeen
<1> QED BY <1>2, <1>4, <1>6 DEF ConfigInv, Times

\* Only the assignment and the callbacks touch what the configuration and the
\* components hold.
LEMMA ConfigStep == ConfigInv /\ Config!Next => ConfigInv'
<1> SUFFICES ASSUME ConfigInv, Config!Next PROVE ConfigInv'
  OBVIOUS
<1>0. /\ ConfigType /\ watcher \in [Config!Threads -> WatcherPlaces]
      /\ \A t \in Config!Threads : watcher[t] \in WatcherPlaces
  BY DEF ConfigInv, ConfigType
<1>1. CASE Config!Write
  <2>1. UNCHANGED <<watcher, config, last_modified, applied, reloads>>
    BY <1>1 DEF Config!Write
  <2>2. PICK content \in {Config!None, Config!Torn, configFile.version + 1}, late \in {0, 1} :
          /\ configFile' = [content |-> content, time |-> configFile.time + late,
                         version |-> IF content > 0 THEN content ELSE configFile.version]
          /\ overlooked' = (overlooked \/ late = 0)
    BY <1>1 DEF Config!Write
  <2>3. content \in Int
    BY <1>0, <2>2 DEF ConfigType, Config!None, Config!Torn
  <2>4. configFile'.content \in Int /\ configFile'.version \in Int
    BY <1>0, <2>2, <2>3 DEF ConfigType
  <2>5. ConfigType' /\ (OneReload => OneReload')
    BY <1>0, <2>1, <2>2, <2>4 DEF ConfigType, OneReload
  <2>6. configFile'.time = configFile.time + late
    BY <2>2
  <2>7. Times'
    BY <2>1, <2>6 DEF ConfigInv, Times
  <2>8. FileIsSeen'
    <3>1. CASE late = 0
      BY <2>2, <3>1 DEF FileIsSeen
    <3>2. CASE late = 1
      BY <2>1, <2>6, <3>2 DEF ConfigInv, Times, FileIsSeen
    <3> QED BY <3>1, <3>2
  <2> QED BY <2>1, <2>5, <2>7, <2>8 DEF ConfigInv
<1>2. CASE Config!Start
  <2>1. PICK t \in Loops : Config!At(t, "out") /\ Config!Goes(t, "loop")
    BY <1>2 DEF Config!Start
  <2>2. t \in Config!Threads
    BY DEF Config!Threads
  <2> QED BY <1>0, <1>2, <2>1, <2>2, ReadyFor, ConfigMoves
          DEF Config!Start, Config!loaded, Config!At, Config!Goes, Late, ConfigType
<1>3. CASE Config!Stop
  BY <1>3 DEF Config!Stop, Config!loaded, ConfigInv, ConfigType, Times, OneReload, FileIsSeen
<1>4. ASSUME NEW t \in Config!Threads, Config!Call(t) \/ Config!Wake(t) PROVE ConfigInv'
  <2>1. PICK step \in {"out", "read"} : Config!Goes(t, step)
    BY <1>4 DEF Config!Call, Config!Wake
  <2>2. ~Late(watcher[t]) /\ UNCHANGED <<configFile, config, last_modified, applied, reloads, overlooked>>
    BY <1>4 DEF Config!Call, Config!Wake, Config!At, Config!loaded, Late
  <2> QED BY <1>0, <2>1, <2>2, ReadyFor, ConfigMoves DEF Config!Goes, Late, ConfigType
<1>5. ASSUME NEW t \in Config!Threads, Config!Read(t) PROVE ConfigInv'
  <2>1. ~Late(watcher[t]) /\ UNCHANGED <<configFile, config, last_modified, applied, reloads, overlooked>>
    BY <1>5 DEF Config!Read, Config!At, Config!loaded, Late
  <2>2. CASE configFile.content = Config!Torn
    <3>1. PICK step \in {"out", "loop"} : Config!Goes(t, step)
      BY <1>5, <2>2 DEF Config!Read, Config!Failed, Config!Rests
    <3> QED BY <1>0, <2>1, <3>1, ReadyFor, ConfigMoves DEF Config!Goes, Late, ConfigType
  <2>3. CASE configFile.content # Config!Torn
    <3> DEFINE w == [watcher[t] EXCEPT !.read = configFile.content, !.at = "assign"]
    <3>1. watcher' = [watcher EXCEPT ![t] = w]
      BY <1>5, <2>3 DEF Config!Read
    <3>2. w \in WatcherPlaces
      BY <1>0 DEF WatcherPlaces, ConfigType
    <3>3. ~Late(w)
      BY <1>0 DEF WatcherPlaces, Late
    <3> HIDE DEF w
    <3> QED BY <1>0, <2>1, <3>1, <3>2, <3>3, ConfigMoves DEF ConfigType
  <2> QED BY <2>2, <2>3
<1>6. ASSUME NEW t \in Config!Threads, Config!Assign(t) PROVE ConfigInv'
  <2>1. CASE config = Config!None
    <3>1. PICK step \in {"out", "loop"} : Config!Goes(t, step)
      BY <1>6, <2>1 DEF Config!Assign, Config!Failed, Config!Rests
    <3>2. ~Late(watcher[t]) /\ UNCHANGED <<configFile, config, last_modified, applied, reloads, overlooked>>
      BY <1>6, <2>1 DEF Config!Assign, Config!At, Late
    <3> QED BY <1>0, <3>1, <3>2, ReadyFor, ConfigMoves DEF Config!Goes, Late, ConfigType
  <2>2. CASE config # Config!None
    <3> DEFINE w == [watcher[t] EXCEPT !.old = config, !.at = "stat"]
    <3>1. /\ watcher' = [watcher EXCEPT ![t] = w] /\ config' = watcher[t].read
          /\ UNCHANGED <<configFile, last_modified, applied, overlooked>>
      BY <1>6, <2>2 DEF Config!Assign
    <3>2. reloads' = (reloads \/ \E u \in Config!Threads \ {t} : Config!Reloading(u))
      BY <1>6, <2>2 DEF Config!Assign
    <3>3. w \in WatcherPlaces
      BY <1>0 DEF WatcherPlaces, ConfigType
    <3>4. w.old = config /\ w.read = watcher[t].read /\ Late(w)
      BY <1>0 DEF WatcherPlaces, Late
    <3>5. watcher[t].read \in Int
      BY <1>0, Zenon DEF WatcherPlaces
    <3> HIDE DEF w
    <3>6. /\ watcher' \in [Config!Threads -> WatcherPlaces] /\ watcher'[t] = w
          /\ \A u \in Config!Threads \ {t} : watcher'[u] = watcher[u]
      BY <1>0, <3>1, <3>3
    <3>7. ConfigType'
      BY <1>0, <3>1, <3>2, <3>5, <3>6 DEF ConfigType
    <3>8. ASSUME ~reloads' PROVE OneReload'
      <4>1. ~reloads /\ \A u \in Config!Threads \ {t} : ~Late(watcher[u])
        BY <3>2, <3>8 DEF Config!Reloading, Late
      <4>2. ~Late(watcher[t])
        BY <1>6 DEF Config!Assign, Config!At, Late
      <4>3. applied = config
        BY <4>1, <4>2 DEF ConfigInv, OneReload
      <4>4. \A u \in Config!Threads : Late(watcher'[u]) <=> u = t
        BY <3>4, <3>6, <4>1
      <4> QED BY <3>1, <3>4, <3>6, <4>3, <4>4 DEF OneReload
    <3>9. FileIsSeen'
      <4>1. watcher'[t].at = "stat"
        BY <1>0, <3>6 DEF WatcherPlaces, w
      <4> QED BY <4>1 DEF FileIsSeen
    <3> QED BY <3>1, <3>7, <3>8, <3>9 DEF ConfigInv, Times
  <2> QED BY <2>1, <2>2
<1>7. ASSUME NEW t \in Config!Threads, Config!Stat(t) PROVE ConfigInv'
  <2> DEFINE w == [watcher[t] EXCEPT !.at = "callbacks"]
  <2>1. /\ watcher' = [watcher EXCEPT ![t] = w] /\ UNCHANGED <<configFile, config, applied, reloads>>
        /\ last_modified' = configFile.time /\ overlooked' = (watcher[t].read # configFile.content)
    BY <1>7 DEF Config!Stat, Config!Stamp
  <2>2. w \in WatcherPlaces
    BY <1>0 DEF WatcherPlaces
  <2>3. w.read = watcher[t].read /\ w.old = watcher[t].old /\ Late(w) /\ Late(watcher[t])
    BY <1>0, <1>7 DEF Config!Stat, Config!At, WatcherPlaces, Late
  <2> HIDE DEF w
  <2>4. /\ watcher' \in [Config!Threads -> WatcherPlaces] /\ watcher'[t] = w
        /\ \A u \in Config!Threads \ {t} : watcher'[u] = watcher[u]
    BY <1>0, <2>1, <2>2
  <2>5. \A u \in Config!Threads :
          /\ Late(watcher'[u]) <=> Late(watcher[u])
          /\ watcher'[u].read = watcher[u].read /\ watcher'[u].old = watcher[u].old
    BY <2>3, <2>4
  <2>6. OneReload => OneReload'
    BY <2>1, <2>5 DEF OneReload
  <2>7. OneReload => FileIsSeen'
    BY <2>1, <2>3 DEF OneReload, FileIsSeen
  <2>8. ConfigType' /\ Times'
    BY <1>0, <2>1, <2>4 DEF ConfigInv, ConfigType, Times
  <2> QED BY <2>1, <2>6, <2>7, <2>8 DEF ConfigInv
<1>8. ASSUME NEW t \in Config!Threads, Config!Callbacks(t) PROVE ConfigInv'
  <2>1. PICK step \in {"out", "loop"} : Config!Goes(t, step)
    BY <1>8 DEF Config!Callbacks, Config!Rests
  <2>2. UNCHANGED <<configFile, config, last_modified, reloads, overlooked>>
    BY <1>8 DEF Config!Callbacks
  <2>3. /\ watcher' \in [Config!Threads -> WatcherPlaces] /\ ~Late(watcher'[t])
        /\ \A u \in Config!Threads \ {t} : watcher'[u] = watcher[u]
    BY <1>0, <2>1, ReadyFor DEF Config!Goes, Late
  <2>4. ConfigType'
    BY <2>2, <2>3 DEF ConfigInv, ConfigType
  <2>5. ASSUME OneReload PROVE OneReload'
    <3>1. Late(watcher[t])
      BY <1>8 DEF Config!Callbacks, Config!At, Late
    <3>2. config = watcher[t].read /\ applied = watcher[t].old
      BY <2>5, <3>1 DEF OneReload
    <3>3. \A u \in Config!Threads \ {t} : ~Late(watcher[u])
      BY <2>5, <3>1 DEF OneReload
    <3>4. applied' = config
      BY <1>8, <3>2 DEF Config!Callbacks
    <3>5. \A u \in Config!Threads : ~Late(watcher'[u])
      BY <2>3, <3>3
    <3> QED BY <2>2, <3>4, <3>5 DEF OneReload
  <2>6. FileIsSeen => FileIsSeen'
    <3>1. watcher[t].at # "stat"
      BY <1>8 DEF Config!Callbacks, Config!At
    <3> QED BY <2>2, <2>3, <3>1 DEF FileIsSeen
  <2> QED BY <2>2, <2>4, <2>5, <2>6 DEF ConfigInv, Times
<1> QED BY <1>1, <1>2, <1>3, <1>4, <1>5, <1>6, <1>7, <1>8 DEF Config!Next, Config!Step

\* What the reload promises of the components.
LEMMA ConfigHolds == ConfigInv => Config!AppliedIsConfig /\ Config!ConfigIsFile
BY DEF ConfigInv, OneReload, FileIsSeen, Config!AppliedIsConfig, Config!ConfigIsFile,
       Config!Reloading, Config!At, Late

\* Where the reload stands still, nothing changes for it.
LEMMA ConfigStays == ConfigInv /\ UNCHANGED configVars => ConfigInv'
BY DEF ConfigInv, ConfigType, Times, OneReload, FileIsSeen, Late, configVars
-----------------------------------------------------------------------------
(* The healing: restarts that were allowed and are not yet counted.        *)

HealerPlaces ==
  [at : {"out", "sleep", "check", "failure", "delay", "count", "write"},
   component : Monitored \cup {Healing!Caller}, left : SUBSET Monitored, count : Nat]

\* A thread that was allowed to restart a component and has not counted it.
Pending(h, c) == h.at \in {"delay", "count", "write"} /\ h.component = c

HealingType ==
  /\ restart_counts \in [Monitored -> Nat]
  /\ healer \in [Healing!Threads -> HealerPlaces]
  /\ \A t \in Healing!Threads :
       healer[t].at \in {"failure", "delay", "count", "write"} => healer[t].component \in Monitored
  /\ overtaken \in BOOLEAN

Allowed(c) == {t \in Healing!Threads : Pending(healer[t], c)}

\* What a thread read is not above the count, and the restarts that were allowed are
\* too few to raise it above the bound.
Budget(c) ==
  /\ \A t \in Healing!Threads :
       healer[t].at = "write" /\ healer[t].component = c => healer[t].count <= restart_counts[c]
  /\ restart_counts[c] + Cardinality(Allowed(c)) <= max_restarts + Cardinality(Healing!Threads) - 1

HealingInv == HealingType /\ (overtaken \/ \A c \in Monitored : Budget(c))

\* There are threads, and finitely many.
LEMMA ThreadsCount ==
    /\ IsFiniteSet(Healing!Threads) /\ Cardinality(Healing!Threads) \in Nat
    /\ Cardinality(Healing!Threads) >= 1 /\ max_restarts \in Nat
    /\ \A S \in SUBSET Healing!Threads :
         IsFiniteSet(S) /\ Cardinality(S) \in Nat /\ Cardinality(S) <= Cardinality(Healing!Threads)
<1>1. IsFiniteSet(Healing!Threads)
  BY ServicesAssumption, FS_Union DEF Healing!Threads
<1>2. Cardinality(Healing!Threads) \in Nat
  BY <1>1, FS_CardinalityType
<1>3. \A S \in SUBSET Healing!Threads :
        IsFiniteSet(S) /\ Cardinality(S) \in Nat /\ Cardinality(S) <= Cardinality(Healing!Threads)
  BY <1>1, FS_Subset, FS_CardinalityType
<1>4. Healing!Threads # {}
  BY ServicesAssumption DEF Healing!Threads
<1>5. Cardinality(Healing!Threads) # 0
  BY <1>1, <1>4, FS_EmptySet
<1> QED BY <1>1, <1>2, <1>3, <1>5, ServicesAssumption

\* Where a thread is.
LEMMA HealerIs ==
    ASSUME HealingType, NEW t \in Healing!Threads
    PROVE  /\ healer[t] \in HealerPlaces /\ healer[t].left \in SUBSET Monitored
           /\ healer[t].count \in Nat /\ healer[t].count + 1 \in Nat
<1>1. healer[t] \in HealerPlaces
  BY DEF HealingType
<1>2. healer[t].left \in SUBSET Monitored /\ healer[t].count \in Nat
  BY <1>1, Zenon DEF HealerPlaces
<1> QED BY <1>1, <1>2

\* What a thread goes on with when it is done with a component.
LEMMA ContinuedIs ==
    ASSUME NEW t, NEW left \in SUBSET Monitored
    PROVE  /\ Healing!Continued(t, left) \in HealerPlaces
           /\ Healing!Continued(t, left).at \in {"out", "sleep", "check"}
<1>1. Healing!Out \in HealerPlaces
  BY DEF Healing!Out, HealerPlaces
<1> QED BY <1>1 DEF Healing!Continued, HealerPlaces

\* A thread goes on, the counts stay: it does not become one that may restart, or only
\* after it saw a count below the maximum.
LEMMA HealerMoves ==
    ASSUME HealingInv, NEW t \in Healing!Threads, NEW h \in HealerPlaces,
           healer' = [healer EXCEPT ![t] = h], UNCHANGED <<restart_counts, overtaken>>,
           h.at \in {"failure", "delay", "count", "write"} => h.component \in Monitored,
           h.at = "write" => h.count = restart_counts[h.component],
           \A c \in Monitored : Pending(h, c) => Pending(healer[t], c) \/ restart_counts[c] < max_restarts
    PROVE  HealingInv'
<1>1. /\ healer' \in [Healing!Threads -> HealerPlaces] /\ healer'[t] = h
      /\ \A u \in Healing!Threads \ {t} : healer'[u] = healer[u]
  BY DEF HealingInv, HealingType
<1>2. HealingType'
  BY <1>1 DEF HealingInv, HealingType
<1>3. ASSUME NEW c \in Monitored, Budget(c) PROVE Budget(c)'
  <2>1. \A u \in Healing!Threads :
          healer'[u].at = "write" /\ healer'[u].component = c => healer'[u].count <= restart_counts[c]
    <3>1. restart_counts[c] \in Nat
      BY DEF HealingInv, HealingType
    <3> QED BY <1>1, <1>3, <3>1 DEF Budget
  <2>2. restart_counts[c] + Cardinality(Allowed(c)') <= max_restarts + Cardinality(Healing!Threads) - 1
    <3>1. restart_counts[c] \in Nat
      BY DEF HealingInv, HealingType
    <3>2. CASE restart_counts[c] < max_restarts
      <4>1. Allowed(c)' \in SUBSET Healing!Threads
        BY DEF Allowed
      <4> QED BY <3>1, <3>2, <4>1, ThreadsCount
    <3>3. CASE ~(restart_counts[c] < max_restarts)
      <4>1. Allowed(c)' \subseteq Allowed(c)
        BY <1>1, <3>3 DEF Allowed
      <4>2. IsFiniteSet(Allowed(c)) /\ Cardinality(Allowed(c)) \in Nat
        BY ThreadsCount DEF Allowed
      <4>3. Cardinality(Allowed(c)') \in Nat /\ Cardinality(Allowed(c)') <= Cardinality(Allowed(c))
        BY <4>1, <4>2, FS_Subset, FS_CardinalityType
      <4> QED BY <1>3, <3>1, <4>2, <4>3, ThreadsCount DEF Budget
    <3> QED BY <3>2, <3>3
  <2> QED BY <2>1, <2>2 DEF Budget
<1> QED BY <1>2, <1>3 DEF HealingInv

\* A count is set: back to 0 by a thread that restarts nothing, or to one more than what
\* the thread has read.
LEMMA CountMoves ==
    ASSUME HealingInv, NEW t \in Healing!Threads, NEW c \in Monitored, NEW n \in Nat,
           Healing!SetCount(c, n), NEW h \in HealerPlaces, healer' = [healer EXCEPT ![t] = h],
           h.at \in {"out", "sleep", "check", "failure"},
           h.at = "failure" => h.component \in Monitored,
           \/ n = 0 /\ healer[t].at = "out"
           \/ n = healer[t].count + 1 /\ healer[t].at = "write" /\ healer[t].component = c
    PROVE  HealingInv'
<1>1. /\ healer' \in [Healing!Threads -> HealerPlaces] /\ healer'[t] = h
      /\ \A u \in Healing!Threads \ {t} : healer'[u] = healer[u]
  BY DEF HealingInv, HealingType
<1>2. /\ restart_counts' \in [Monitored -> Nat] /\ restart_counts'[c] = n
      /\ \A d \in Monitored \ {c} : restart_counts'[d] = restart_counts[d]
  BY DEF HealingInv, HealingType, Healing!SetCount
<1>3. overtaken' = (overtaken \/ \E u \in Healing!Threads :
                       healer[u].at = "write" /\ healer[u].component = c /\ healer[u].count > n)
  BY DEF Healing!SetCount, Healing!At, Healing!Of
<1>4. HealingType'
  BY <1>1, <1>2, <1>3 DEF HealingInv, HealingType
<1>5. ~Pending(h, c) /\ \A d \in Monitored : ~Pending(h, d)
  BY DEF Pending
<1>6. ASSUME ~overtaken', NEW d \in Monitored PROVE Budget(d)'
  <2>1. Budget(d) /\ restart_counts[d] \in Nat
    BY <1>3, <1>6 DEF HealingInv, HealingType
  <2>2. /\ IsFiniteSet(Allowed(d)) /\ Cardinality(Allowed(d)) \in Nat
        /\ Allowed(d)' \in SUBSET (Allowed(d) \ {t})
    BY <1>1, <1>5, ThreadsCount DEF Allowed
  <2>3. CASE d # c
    <3>1. Cardinality(Allowed(d)') \in Nat /\ Cardinality(Allowed(d)') <= Cardinality(Allowed(d))
      BY <2>2, FS_Subset, FS_CardinalityType
    <3>2. restart_counts[d] + Cardinality(Allowed(d)') <= max_restarts + Cardinality(Healing!Threads) - 1
      BY <2>1, <2>2, <3>1, ThreadsCount DEF Budget
    <3> QED BY <1>1, <1>2, <2>1, <2>3, <3>2 DEF Budget
  <2>4. CASE d = c
    <3>1. \A u \in Healing!Threads :
            healer'[u].at = "write" /\ healer'[u].component = c => healer'[u].count <= n
      <4>1. ASSUME NEW u \in Healing!Threads, healer'[u].at = "write", healer'[u].component = c
            PROVE  healer'[u].count <= n
        <5>1. healer'[u] = healer[u] /\ healer[u].count \in Nat
          BY <1>1, <4>1, HealerIs DEF HealingInv
        <5>2. ~(healer[u].count > n)
          BY <1>3, <1>6, <4>1, <5>1, Zenon
        <5> QED BY <5>1, <5>2
      <4> QED BY <4>1
    <3>2. n + Cardinality(Allowed(c)') <= max_restarts + Cardinality(Healing!Threads) - 1
      <4>1. CASE n = 0 /\ healer[t].at = "out"
        <5>1. Allowed(c)' \in SUBSET (Healing!Threads \ {t})
          BY <2>2, <2>4 DEF Allowed
        <5>2. /\ IsFiniteSet(Healing!Threads \ {t})
              /\ Cardinality(Healing!Threads \ {t}) = Cardinality(Healing!Threads) - 1
          BY ThreadsCount, FS_RemoveElement
        <5>3. /\ Cardinality(Allowed(c)') \in Nat
              /\ Cardinality(Allowed(c)') <= Cardinality(Healing!Threads \ {t})
          BY <5>1, <5>2, FS_Subset, FS_CardinalityType
        <5> QED BY <4>1, <5>2, <5>3, ThreadsCount
      <4>2. CASE n = healer[t].count + 1 /\ healer[t].at = "write" /\ healer[t].component = c
        <5>1. t \in Allowed(c)
          BY <4>2 DEF Allowed, Pending
        <5>2. IsFiniteSet(Allowed(c) \ {t}) /\ Cardinality(Allowed(c) \ {t}) = Cardinality(Allowed(c)) - 1
          BY <2>2, <2>4, <5>1, FS_RemoveElement
        <5>3. /\ Cardinality(Allowed(c)') \in Nat
              /\ Cardinality(Allowed(c)') <= Cardinality(Allowed(c) \ {t})
          BY <2>2, <2>4, <5>2, FS_Subset, FS_CardinalityType
        <5>4. healer[t].count <= restart_counts[c] /\ healer[t].count \in Nat
          BY <2>1, <2>4, <4>2, HealerIs DEF Budget, HealingInv
        <5>5. restart_counts[c] + Cardinality(Allowed(c)) <= max_restarts + Cardinality(Healing!Threads) - 1
          BY <2>1, <2>4 DEF Budget
        <5> QED BY <2>1, <2>2, <2>4, <4>2, <5>2, <5>3, <5>4, <5>5, ThreadsCount
      <4> QED BY <4>1, <4>2
    <3> QED BY <1>2, <2>4, <3>1, <3>2 DEF Budget
  <2> QED BY <2>3, <2>4
<1> QED BY <1>4, <1>6 DEF HealingInv

\* Nobody restarts anything yet.
LEMMA HealingInit == Healing!Init => HealingInv
<1> SUFFICES ASSUME Healing!Init PROVE HealingInv
  OBVIOUS
<1>1. Healing!Out \in HealerPlaces /\ Healing!Out.at = "out"
  BY DEF Healing!Out, HealerPlaces
<1>2. HealingType /\ \A t \in Healing!Threads : healer[t].at = "out"
  BY <1>1 DEF Healing!Init, HealingType
<1>3. ASSUME NEW c \in Monitored PROVE Budget(c)
  <2>1. Allowed(c) = {}
    BY <1>2 DEF Allowed, Pending
  <2>2. Cardinality(Allowed(c)) = 0 /\ restart_counts[c] = 0
    BY <2>1, FS_EmptySet DEF Healing!Init
  <2> QED BY <1>2, <2>2, ThreadsCount DEF Budget
<1> QED BY <1>2, <1>3 DEF HealingInv

\* The steps that set a count.
LEMMA HealingCounts ==
    ASSUME HealingInv, NEW t \in Healing!Threads,
           Healing!WriteCount(t) \/ Healing!Heal(t) \/ Healing!RestartComponent(t)
    PROVE  HealingInv'
<1>0. HealingType
  BY DEF HealingInv
<1>1. Healing!Out \in HealerPlaces
  BY DEF Healing!Out, HealerPlaces
<1>2. ASSUME NEW c \in Monitored
      PROVE  /\ [Healing!Out EXCEPT !.at = "failure", !.component = c] \in HealerPlaces
             /\ [Healing!Out EXCEPT !.at = "failure", !.component = c].at = "failure"
             /\ [Healing!Out EXCEPT !.at = "failure", !.component = c].component = c
  BY <1>1 DEF HealerPlaces
<1>3. CASE Healing!WriteCount(t)
  <2> DEFINE c == healer[t].component
  <2>1. c \in Monitored /\ healer[t].at = "write"
    BY <1>0, <1>3 DEF Healing!WriteCount, Healing!At, HealingType
  <2>2. Healing!SetCount(c, healer[t].count + 1)
    BY <1>3 DEF Healing!WriteCount, Healing!Of
  <2>3. healer' = [healer EXCEPT ![t] = Healing!Continued(t, healer[t].left)]
    BY <1>3 DEF Healing!WriteCount, Healing!Continues, Healing!Continue
  <2> HIDE DEF c
  <2> QED BY <1>0, <2>1, <2>2, <2>3, HealerIs, ContinuedIs, CountMoves DEF c
<1>4. CASE Healing!Heal(t)
  <2>1. PICK c \in Monitored :
          \/ Healing!Reset(c) /\ UNCHANGED healer
          \/ /\ healer' = [healer EXCEPT ![t] = [Healing!Out EXCEPT !.at = "failure", !.component = c]]
             /\ UNCHANGED <<restart_counts, overtaken>>
    BY <1>4 DEF Healing!Heal
  <2>2. healer[t].at = "out" /\ healer[t] \in HealerPlaces
    BY <1>0, <1>4, HealerIs DEF Healing!Heal, Healing!At
  <2>3. CASE Healing!Reset(c) /\ UNCHANGED healer
    <3>1. healer' = [healer EXCEPT ![t] = healer[t]]
      BY <1>0, <2>3 DEF HealingType
    <3> QED BY <2>2, <2>3, <3>1, CountMoves DEF Healing!Reset
  <2>4. CASE /\ healer' = [healer EXCEPT ![t] = [Healing!Out EXCEPT !.at = "failure", !.component = c]]
             /\ UNCHANGED <<restart_counts, overtaken>>
    <3> DEFINE h == [Healing!Out EXCEPT !.at = "failure", !.component = c]
    <3>1. h \in HealerPlaces /\ h.at = "failure" /\ h.component = c
      BY <1>2
    <3>2. \A d \in Monitored : ~Pending(h, d)
      BY <3>1 DEF Pending
    <3>3. healer' = [healer EXCEPT ![t] = h]
      BY <2>4
    <3> HIDE DEF h
    <3> QED BY <2>4, <3>1, <3>2, <3>3, HealerMoves
  <2> QED BY <2>1, <2>3, <2>4
<1>5. CASE Healing!RestartComponent(t)
  <2>1. PICK c \in Monitored :
          /\ Healing!Reset(c)
          /\ healer' = [healer EXCEPT ![t] = [Healing!Out EXCEPT !.at = "failure", !.component = c]]
    BY <1>5 DEF Healing!RestartComponent
  <2>2. healer[t].at = "out"
    BY <1>5 DEF Healing!RestartComponent, Healing!At
  <2> DEFINE h == [Healing!Out EXCEPT !.at = "failure", !.component = c]
  <2>3. h \in HealerPlaces /\ h.at = "failure" /\ h.component = c
    BY <1>2
  <2>4. healer' = [healer EXCEPT ![t] = h]
    BY <2>1
  <2> HIDE DEF h
  <2> QED BY <2>1, <2>2, <2>3, <2>4, CountMoves DEF Healing!Reset
<1> QED BY <1>3, <1>4, <1>5

\* The steps that go on.
LEMMA HealingGoes ==
    ASSUME HealingInv, NEW t \in Healing!Threads,
           \/ Healing!Begin(t) \/ Healing!End(t) \/ Healing!Check(t) \/ Healing!HandleFailure(t)
           \/ Healing!Restart(t) \/ Healing!ReadCount(t)
    PROVE  HealingInv'
<1>0. HealingType /\ healer[t] \in HealerPlaces /\ UNCHANGED <<restart_counts, overtaken>>
  BY HealerIs DEF HealingInv, Healing!Begin, Healing!End, Healing!Check, Healing!HandleFailure,
                  Healing!Restart, Healing!ReadCount, Healing!counters
<1>1. Healing!Out \in HealerPlaces /\ Healing!Out.at = "out"
  BY DEF Healing!Out, HealerPlaces
\* A thread goes to a place where it restarts nothing.
<1>2. ASSUME NEW h \in HealerPlaces, healer' = [healer EXCEPT ![t] = h],
             h.at \in {"out", "sleep", "check", "failure"}, h.at = "failure" => h.component \in Monitored
      PROVE  HealingInv'
  <2>1. \A c \in Monitored : ~Pending(h, c)
    BY <1>2 DEF Pending
  <2> QED BY <1>0, <1>2, <2>1, HealerMoves
<1>3. ASSUME healer' = [healer EXCEPT ![t] = Healing!Continue(t)] PROVE HealingInv'
  BY <1>0, <1>2, <1>3, HealerIs, ContinuedIs DEF Healing!Continue
<1>4. CASE Healing!Begin(t)
  <2> DEFINE h == [Healing!Out EXCEPT !.at = "check", !.left = Monitored]
  <2>1. h \in HealerPlaces /\ h.at = "check"
    BY <1>1 DEF HealerPlaces
  <2> QED BY <1>2, <1>4, <2>1 DEF Healing!Begin
<1>5. CASE Healing!End(t)
  BY <1>1, <1>2, <1>5 DEF Healing!End
<1>6. CASE Healing!Check(t)
  <2>1. PICK c \in healer[t].left :
          LET left == healer[t].left \ {c}
          IN  \/ healer' = [healer EXCEPT ![t] =
                              [healer[t] EXCEPT !.left = left, !.component = c, !.at = "failure"]]
              \/ healer' = [healer EXCEPT ![t] = Healing!Continued(t, left)]
    BY <1>6 DEF Healing!Check
  <2>2. c \in Monitored /\ healer[t].left \ {c} \in SUBSET Monitored
    BY <1>0, HealerIs
  <2> DEFINE h == [healer[t] EXCEPT !.left = healer[t].left \ {c}, !.component = c, !.at = "failure"]
  <2>3. h \in HealerPlaces
    BY <1>0, <2>2 DEF HealerPlaces
  <2>4. h.at = "failure" /\ h.component = c
    BY <1>0 DEF HealerPlaces
  <2> QED BY <1>2, <2>1, <2>2, <2>3, <2>4, ContinuedIs
<1>7. CASE Healing!HandleFailure(t)
  <2>1. CASE Healing!MayRestart(Healing!Of(t))
    <3> DEFINE h == [healer[t] EXCEPT !.at = "delay"]
    <3>1. healer' = [healer EXCEPT ![t] = h]
      BY <1>0, <1>7, <2>1 DEF Healing!HandleFailure, HealingType
    <3>2. h \in HealerPlaces /\ h.at = "delay" /\ h.component = healer[t].component
      BY <1>0 DEF HealerPlaces
    <3>3. healer[t].component \in Monitored /\ restart_counts[healer[t].component] < max_restarts
      BY <1>0, <1>7, <2>1
         DEF Healing!HandleFailure, Healing!MayRestart, Healing!At, Healing!Of, HealingType
    <3> HIDE DEF h
    <3>4. \A c \in Monitored : Pending(h, c) => restart_counts[c] < max_restarts
      BY <3>2, <3>3 DEF Pending
    <3> QED BY <1>0, <3>1, <3>2, <3>3, <3>4, HealerMoves
  <2>2. CASE ~Healing!MayRestart(Healing!Of(t))
    BY <1>3, <1>7, <2>2 DEF Healing!HandleFailure, Healing!Continues
  <2> QED BY <2>1, <2>2
<1>8. CASE Healing!Restart(t)
  <2> DEFINE h == [healer[t] EXCEPT !.at = "count"]
  <2>1. healer' = [healer EXCEPT ![t] = h] \/ healer' = [healer EXCEPT ![t] = Healing!Continue(t)]
    BY <1>0, <1>8 DEF Healing!Restart, HealingType
  <2>2. h \in HealerPlaces /\ h.at = "count" /\ h.component = healer[t].component
    BY <1>0 DEF HealerPlaces
  <2>3. healer[t].component \in Monitored /\ healer[t].at = "delay"
    BY <1>0, <1>8 DEF Healing!Restart, Healing!At, HealingType
  <2> HIDE DEF h
  <2>4. \A c \in Monitored : Pending(h, c) => Pending(healer[t], c)
    BY <2>2, <2>3 DEF Pending
  <2>5. CASE healer' = [healer EXCEPT ![t] = h]
    BY <1>0, <2>2, <2>3, <2>4, <2>5, HealerMoves
  <2> QED BY <1>3, <2>1, <2>5
<1>9. CASE Healing!ReadCount(t)
  <2> DEFINE h == [healer[t] EXCEPT !.at = "write", !.count = restart_counts[healer[t].component]]
  <2>1. healer' = [healer EXCEPT ![t] = h]
    BY <1>0, <1>9 DEF Healing!ReadCount, Healing!Of, HealingType
  <2>2. healer[t].component \in Monitored /\ healer[t].at = "count"
    BY <1>0, <1>9 DEF Healing!ReadCount, Healing!At, HealingType
  <2>3. restart_counts[healer[t].component] \in Nat
    BY <1>0, <2>2 DEF HealingType
  <2>4. h \in HealerPlaces
    BY <1>0, <2>3 DEF HealerPlaces
  <2>5. h.at = "write" /\ h.component = healer[t].component /\ h.count = restart_counts[healer[t].component]
    BY <1>0 DEF HealerPlaces
  <2> HIDE DEF h
  <2>6. \A c \in Monitored : Pending(h, c) => Pending(healer[t], c)
    BY <2>2, <2>5 DEF Pending
  <2> QED BY <1>0, <2>1, <2>2, <2>4, <2>5, <2>6, HealerMoves
<1> QED BY <1>4, <1>5, <1>6, <1>7, <1>8, <1>9

\* The healing keeps its invariant.
LEMMA HealingStep == HealingInv /\ Healing!Next => HealingInv'
<1> SUFFICES ASSUME HealingInv, Healing!Next PROVE HealingInv'
  OBVIOUS
<1>1. ASSUME UNCHANGED <<healer, restart_counts, overtaken>> PROVE HealingInv'
  BY <1>1 DEF HealingInv, HealingType, Budget, Allowed, Pending
<1>2. CASE (\E c \in Monitored : Healing!Fault(c)) \/ Healing!Stop
  BY <1>1, <1>2 DEF Healing!Fault, Healing!Stop, Healing!counters
<1>3. CASE Healing!Start
  <2>1. PICK t \in Loops : healer' = [healer EXCEPT ![t] = [Healing!Out EXCEPT !.at = "sleep"]]
    BY <1>3 DEF Healing!Start
  <2> DEFINE h == [Healing!Out EXCEPT !.at = "sleep"]
  <2>2. h \in HealerPlaces /\ h.at = "sleep"
    BY DEF Healing!Out, HealerPlaces
  <2>3. t \in Healing!Threads
    BY DEF Healing!Threads
  <2>4. healer' = [healer EXCEPT ![t] = h]
    BY <2>1
  <2> HIDE DEF h
  <2>5. \A c \in Monitored : ~Pending(h, c)
    BY <2>2 DEF Pending
  <2> QED BY <1>3, <2>2, <2>3, <2>4, <2>5, HealerMoves DEF Healing!Start, Healing!counters
<1> QED BY <1>2, <1>3, HealingCounts, HealingGoes DEF Healing!Next, Healing!Step

\* The size of a set in the healing is its size here.
LEMMA HealingCount == ASSUME NEW S PROVE Healing!Cardinality(S) = Cardinality(S)
BY Zenon DEF Healing!Cardinality, Cardinality

\* What the healing promises of the number of restarts.
LEMMA HealingHolds == HealingInv => Healing!RestartsAreBounded
<1> SUFFICES ASSUME HealingInv, ~overtaken, NEW c \in Monitored
             PROVE  restart_counts[c] <= max_restarts + Cardinality(Healing!Threads) - 1
  BY HealingCount DEF Healing!RestartsAreBounded
<1>1. Budget(c) /\ restart_counts[c] \in Nat /\ Allowed(c) \in SUBSET Healing!Threads
  BY DEF HealingInv, HealingType, Allowed
<1>2. Cardinality(Allowed(c)) \in Nat
  BY <1>1, ThreadsCount
<1> QED BY <1>1, <1>2, ThreadsCount DEF Budget

\* Where the healing stands still, nothing changes for it.
LEMMA HealingStays == HealingInv /\ UNCHANGED healingVars => HealingInv'
<1> SUFFICES ASSUME HealingInv, UNCHANGED <<healer, restart_counts, overtaken>> PROVE HealingInv'
  BY DEF healingVars
<1> QED BY DEF HealingInv, HealingType, Budget, Allowed, Pending
-----------------------------------------------------------------------------
(* The alerts: the order of the log, and what of it was read.              *)

HalfLines == [line : Nat \ {0}, end : BOOLEAN]
ReadPieces == [line : Nat, whole : BOOLEAN]

AlertType ==
  /\ log \in Seq(HalfLines) /\ lines \in Nat
  /\ position \in Nat /\ errors \in Nat
  /\ unread \in Seq(ReadPieces)
  /\ twice \in BOOLEAN /\ cut \in BOOLEAN
  /\ admins \in SUBSET Admins
  /\ telling \in [Alerts!Threads -> [left : SUBSET Admins, size : Nat]]

\* A half of a line that comes before another one.
Before(h, k) == h.line < k.line \/ (h.line = k.line /\ ~h.end /\ k.end)

\* Lines are written one after the other, the first half before the second.
LogInOrder ==
  /\ \A i, j \in 1..Len(log) : i < j => Before(log[i], log[j])
  /\ \A i \in 1..Len(log) : log[i].line <= lines
  /\ log # <<>> => log[Len(log)].line = lines

Waiting == {unread[j].line : j \in 1..Len(unread)}

\* Without an error, what was read is not beyond what lies before the position ...
ReadOnce ==
  /\ \A l \in passed \cup Waiting : l \in Nat /\ \E i \in 1..Len(log) : i <= position /\ l <= log[i].line
  \* ... and a line that waits in whole was not processed before.
  /\ \A j \in 1..Len(unread) :
       /\ unread[j].whole => unread[j].line \notin passed
       /\ \A k \in 1..Len(unread) : j < k => unread[j].line < unread[k].line
  /\ ~twice

LinesInv ==
  /\ LogInOrder
  /\ cut \/ \A i \in 1..Len(log) : i <= position => log[i].line \in passed \cup Waiting
  /\ ~cut => position <= Len(log)
  /\ errors = 0 => ~cut /\ ReadOnce

AlertInv == AlertType /\ LinesInv /\ Alerts!ThrottledIsTold

\* The fields of the halves of the log.
LEMMA LogIs ==
    ASSUME AlertType
    PROVE  /\ Len(log) \in Nat
           /\ \A i \in 1..Len(log) :
                log[i] \in HalfLines /\ log[i].line \in Nat \ {0} /\ log[i].end \in BOOLEAN
<1>1. Len(log) \in Nat /\ \A i \in 1..Len(log) : log[i] \in HalfLines
  BY DEF AlertType
<1>2. \A h \in HalfLines : h.line \in Nat \ {0} /\ h.end \in BOOLEAN
  BY Zenon DEF HalfLines
<1> QED BY <1>1, <1>2

\* Those of the pieces that wait.
LEMMA UnreadIs ==
    ASSUME AlertType
    PROVE  /\ Len(unread) \in Nat
           /\ \A j \in 1..Len(unread) : unread[j] \in ReadPieces /\ unread[j].line \in Nat
<1>1. Len(unread) \in Nat /\ \A j \in 1..Len(unread) : unread[j] \in ReadPieces
  BY DEF AlertType
<1>2. \A h \in ReadPieces : h.line \in Nat
  BY Zenon DEF ReadPieces
<1> QED BY <1>1, <1>2

\* readlines returns every line once and in order, and a whole one has its first half.
LEMMA PiecesAre ==
    ASSUME NEW halves, halves \in Seq(HalfLines), halves # <<>>,
           \A i, j \in 1..Len(halves) : i < j => Before(halves[i], halves[j])
    PROVE  /\ Alerts!Pieces(halves) \in Seq(ReadPieces)
           /\ \A i \in 1..Len(halves) : \E j \in 1..Len(Alerts!Pieces(halves)) :
                Alerts!Pieces(halves)[j].line = halves[i].line
           /\ \A j \in 1..Len(Alerts!Pieces(halves)) :
                LET piece == Alerts!Pieces(halves)[j]
                IN  /\ piece.line <= halves[Len(halves)].line
                    /\ piece.whole => \E i \in 1..Len(halves) : halves[i].line = piece.line /\ ~halves[i].end
                    /\ \A k \in 1..Len(Alerts!Pieces(halves)) :
                         j < k => piece.line < Alerts!Pieces(halves)[k].line
<1> DEFINE n == Len(halves)
           before == halves[1].line - 1
           m == halves[n].line - before
           pieces == [k \in 1..m |-> Alerts!Piece(before + k, halves)]
<1>1. n \in Nat /\ n >= 1 /\ \A i \in 1..n : halves[i] \in HalfLines
  OBVIOUS
<1>2. \A h \in HalfLines : h.line \in Nat \ {0} /\ h.end \in BOOLEAN
  BY Zenon DEF HalfLines
<1>3. \A i \in 1..n : halves[i].line \in Nat \ {0}
  BY <1>1, <1>2
<1>4. \A i, j \in 1..n : i < j => halves[i].line <= halves[j].line
  <2> SUFFICES ASSUME NEW i \in 1..n, NEW j \in 1..n, i < j PROVE halves[i].line <= halves[j].line
    OBVIOUS
  <2>1. Before(halves[i], halves[j]) /\ halves[i].line \in Nat /\ halves[j].line \in Nat
    BY <1>3
  <2> QED BY <2>1 DEF Before
<1>5. \A i \in 1..n : halves[1].line <= halves[i].line /\ halves[i].line <= halves[n].line
  <2> SUFFICES ASSUME NEW i \in 1..n
               PROVE  halves[1].line <= halves[i].line /\ halves[i].line <= halves[n].line
    OBVIOUS
  <2>1. 1 \in 1..n /\ n \in 1..n
    BY <1>1
  <2>2. i = 1 \/ 1 < i
    BY <1>1
  <2>3. i = n \/ i < n
    BY <1>1
  <2> QED BY <1>3, <1>4, <2>1, <2>2, <2>3
<1>6. before \in Nat /\ m \in Nat /\ m >= 1
  BY <1>1, <1>3, <1>5
<1>7. Alerts!Pieces(halves) = pieces
  <2>1. Alerts!Last(halves) = halves[n] /\ Head(halves) = halves[1]
    BY <1>1 DEF Alerts!Last
  <2> QED BY <2>1 DEF Alerts!Pieces
<1> HIDE DEF n, before, m
<1>8. \A k \in 1..m :
        /\ Alerts!Piece(before + k, halves) \in ReadPieces
        /\ Alerts!Piece(before + k, halves).line = before + k
        /\ Alerts!Piece(before + k, halves).whole
             => [line |-> before + k, end |-> FALSE] \in {halves[i] : i \in 1..n}
  <2> SUFFICES ASSUME NEW k \in 1..m
               PROVE  /\ Alerts!Piece(before + k, halves) \in ReadPieces
                      /\ Alerts!Piece(before + k, halves).line = before + k
                      /\ Alerts!Piece(before + k, halves).whole
                           => [line |-> before + k, end |-> FALSE] \in {halves[i] : i \in 1..n}
    OBVIOUS
  <2>1. before + k \in Nat
    BY <1>6
  <2>2. Alerts!Piece(before + k, halves) =
          [line |-> before + k,
           whole |-> {[line |-> before + k, end |-> FALSE], [line |-> before + k, end |-> TRUE]}
                       \subseteq Alerts!ToSet(halves)]
    BY DEF Alerts!Piece, Alerts!Half
  <2>3. Alerts!ToSet(halves) = {halves[i] : i \in 1..n}
    BY <1>1 DEF Alerts!ToSet, n
  <2> DEFINE whole == {[line |-> before + k, end |-> FALSE], [line |-> before + k, end |-> TRUE]}
                        \subseteq Alerts!ToSet(halves)
             piece == Alerts!Piece(before + k, halves)
  <2>4. piece = [line |-> before + k, whole |-> whole]
    BY <2>2
  <2>5. whole \in BOOLEAN /\ (whole => [line |-> before + k, end |-> FALSE] \in {halves[i] : i \in 1..n})
    BY <2>3, Zenon
  <2> HIDE DEF whole, piece
  <2>6. piece \in ReadPieces
    BY <2>1, <2>4, <2>5, Zenon DEF ReadPieces
  <2>7. piece.line = before + k /\ piece.whole = whole
    BY <2>4
  <2> QED BY <2>5, <2>6, <2>7, Zenon DEF piece
<1>9. \A k \in 1..m : pieces[k] = Alerts!Piece(before + k, halves)
  OBVIOUS
<1>10. \A k \in 1..m : pieces[k] \in ReadPieces /\ pieces[k].line = before + k
  BY <1>8, <1>9
<1>11. Len(pieces) = m /\ pieces \in Seq(ReadPieces)
  <2>1. pieces \in [1..m -> ReadPieces]
    BY <1>10
  <2> QED BY <1>6, <2>1
<1> HIDE DEF pieces
<1>12. \A i \in 1..n : \E j \in 1..m : pieces[j].line = halves[i].line
  <2> SUFFICES ASSUME NEW i \in 1..n PROVE \E j \in 1..m : pieces[j].line = halves[i].line
    OBVIOUS
  <2>1. halves[i].line - before \in 1..m
    <3>1. halves[1].line \in Nat /\ halves[i].line \in Nat /\ halves[n].line \in Nat
      BY <1>1, <1>3
    <3>2. halves[1].line <= halves[i].line /\ halves[i].line <= halves[n].line
      BY <1>5
    <3> QED BY <3>1, <3>2 DEF before, m
  <2>2. pieces[halves[i].line - before].line = before + (halves[i].line - before)
    BY <1>10, <2>1
  <2>3. before + (halves[i].line - before) = halves[i].line
    BY <1>3, <1>6
  <2> QED BY <2>1, <2>2, <2>3
<1>13. ASSUME NEW j \in 1..m
       PROVE  /\ pieces[j].line <= halves[n].line
              /\ pieces[j].whole => \E i \in 1..n : halves[i].line = pieces[j].line /\ ~halves[i].end
              /\ \A k \in 1..m : j < k => pieces[j].line < pieces[k].line
  <2>1. pieces[j].line <= halves[n].line
    <3>1. n \in 1..n
      BY <1>1
    <3>2. pieces[j].line = before + j /\ halves[n].line \in Nat /\ before \in Nat
      BY <1>3, <1>6, <1>10, <3>1
    <3> QED BY <1>6, <3>2 DEF m
  <2>2. ASSUME pieces[j].whole PROVE \E i \in 1..n : halves[i].line = pieces[j].line /\ ~halves[i].end
    <3>1. PICK i \in 1..n : halves[i] = [line |-> before + j, end |-> FALSE]
      BY <1>8, <1>9, <2>2
    <3>2. halves[i].line = before + j /\ ~halves[i].end
      BY <3>1
    <3> QED BY <1>10, <3>2
  <2>3. ASSUME NEW k \in 1..m, j < k PROVE pieces[j].line < pieces[k].line
    <3>1. /\ pieces[j].line = before + j /\ pieces[k].line = before + k
          /\ before \in Nat /\ j \in Nat /\ k \in Nat
      BY <1>6, <1>10
    <3> QED BY <2>3, <3>1
  <2> QED BY <2>1, <2>2, <2>3
<1> QED BY <1>7, <1>11, <1>12, <1>13 DEF n

\* The size of a set in the alerts is its size here.
LEMMA AlertCount == ASSUME NEW S PROVE Alerts!Cardinality(S) = Cardinality(S)
BY Zenon DEF Alerts!Cardinality, Cardinality

\* Nothing is written, read or told yet.
LEMMA AlertInit == Alerts!Init => AlertInv
<1> SUFFICES ASSUME Alerts!Init PROVE AlertInv
  OBVIOUS
<1>1. Alerts!Silent \in [left : SUBSET Admins, size : Nat]
  BY DEF Alerts!Silent
<1>2. <<>> \in Seq(HalfLines) /\ <<>> \in Seq(ReadPieces)
  OBVIOUS
<1>3. AlertType
  BY <1>1, <1>2 DEF Alerts!Init, AlertType
<1>4. LinesInv
  BY DEF Alerts!Init, LinesInv, LogInOrder, ReadOnce, Waiting
<1>5. Alerts!ThrottledIsTold
  BY DEF Alerts!Init, Alerts!ThrottledIsTold
<1> QED BY <1>3, <1>4, <1>5 DEF AlertInv

\* A line is written: a half of it, or all of it.
LEMMA WriteIs ==
    ASSUME AlertType, LogInOrder, Alerts!Write
    PROVE  /\ log' \in Seq(HalfLines) /\ lines' \in Nat /\ Len(log') \in Nat /\ Len(log') > Len(log)
           /\ \A i \in 1..Len(log) : log'[i] = log[i]
           /\ LogInOrder'
<1>0. log \in Seq(HalfLines) /\ lines \in Nat /\ Len(log) \in Nat
  BY DEF AlertType
\* The halves that are added.
<1>1. PICK added \in Seq(HalfLines) :
        /\ log' = log \o added /\ lines' \in Nat
        /\ \/ added = <<[line |-> lines, end |-> TRUE]>> /\ lines' = lines /\ log # <<>> /\ ~log[Len(log)].end
           \/ /\ added = <<[line |-> lines + 1, end |-> FALSE], [line |-> lines + 1, end |-> TRUE]>>
              /\ lines' = lines + 1
           \/ added = <<[line |-> lines + 1, end |-> FALSE]>> /\ lines' = lines + 1
  <2>1. CASE Alerts!Unfinished /\ log' = log \o <<Alerts!Half(lines, TRUE)>> /\ UNCHANGED lines
    <3>1. log # <<>> /\ ~log[Len(log)].end
      BY <1>0, <2>1 DEF Alerts!Unfinished, Alerts!Last
    <3>2. log[Len(log)].line = lines /\ Len(log) \in 1..Len(log)
      BY <1>0, <3>1 DEF LogInOrder
    <3>3. lines \in Nat \ {0}
      BY <3>2, LogIs
    <3>4. [line |-> lines, end |-> TRUE] \in HalfLines
      BY <3>3 DEF HalfLines
    <3>5. <<[line |-> lines, end |-> TRUE]>> \in Seq(HalfLines)
      BY <3>4
    <3> QED BY <1>0, <2>1, <3>1, <3>5 DEF Alerts!Half
  <2>2. CASE /\ lines' = lines + 1
             /\ \/ log' = log \o <<Alerts!Half(lines', FALSE), Alerts!Half(lines', TRUE)>>
                \/ log' = log \o <<Alerts!Half(lines', FALSE)>>
    <3>1. /\ [line |-> lines + 1, end |-> FALSE] \in HalfLines
          /\ [line |-> lines + 1, end |-> TRUE] \in HalfLines
      BY <1>0 DEF HalfLines
    <3>2. /\ <<[line |-> lines + 1, end |-> FALSE], [line |-> lines + 1, end |-> TRUE]>> \in Seq(HalfLines)
          /\ <<[line |-> lines + 1, end |-> FALSE]>> \in Seq(HalfLines)
      BY <3>1
    <3>3. lines' \in Nat
      BY <1>0, <2>2
    <3>4. CASE log' = log \o <<Alerts!Half(lines', FALSE), Alerts!Half(lines', TRUE)>>
      <4>1. log' = log \o <<[line |-> lines + 1, end |-> FALSE], [line |-> lines + 1, end |-> TRUE]>>
        BY <2>2, <3>4 DEF Alerts!Half
      <4> QED BY <2>2, <3>2, <3>3, <4>1, Zenon
    <3>5. CASE log' = log \o <<Alerts!Half(lines', FALSE)>>
      <4>1. log' = log \o <<[line |-> lines + 1, end |-> FALSE]>>
        BY <2>2, <3>5 DEF Alerts!Half
      <4> QED BY <2>2, <3>2, <3>3, <4>1, Zenon
    <3> QED BY <2>2, <3>4, <3>5
  <2> QED BY <2>1, <2>2 DEF Alerts!Write
<1> DEFINE n == Len(log)
           a == Len(added)
<1>2. a \in {1, 2} /\ n \in Nat
  BY <1>0, <1>1
<1>3. /\ log' \in Seq(HalfLines) /\ Len(log') = n + a
      /\ \A i \in 1..n : log'[i] = log[i]
      /\ \A k \in 1..a : log'[n + k] = added[k]
  BY <1>0, <1>1, <1>2
\* What is added has the number of the last line, and comes after all that was there.
<1>4. \A k \in 1..a : added[k].line = lines'
  BY <1>0, <1>1
<1>5. \A i \in 1..n, k \in 1..a : Before(log[i], added[k])
  <2> SUFFICES ASSUME NEW i \in 1..n, NEW k \in 1..a PROVE Before(log[i], added[k])
    OBVIOUS
  <2>1. log[i].line <= lines /\ log[i].line \in Nat
    BY LogIs DEF LogInOrder
  <2>2. CASE lines' = lines + 1
    BY <1>0, <1>4, <2>1, <2>2 DEF Before
  <2>3. CASE added = <<[line |-> lines, end |-> TRUE]>> /\ lines' = lines /\ log # <<>> /\ ~log[n].end
    <3>1. added[k].end /\ added[k].line = lines
      BY <1>2, <2>3
    <3>2. i = n \/ i < n
      BY <1>2
    <3>3. ~log[i].end \/ log[i].line < lines
      <4>1. CASE i < n
        <5>1. Before(log[i], log[n]) /\ log[n].line = lines
          BY <1>2, <2>3, <4>1 DEF LogInOrder
        <5> QED BY <5>1 DEF Before
      <4> QED BY <2>3, <3>2, <4>1
    <3> QED BY <1>0, <2>1, <3>1, <3>3 DEF Before
  <2> QED BY <1>1, <2>2, <2>3
<1>6. \A j, k \in 1..a : j < k => Before(added[j], added[k])
  BY <1>0, <1>1, <1>2 DEF Before
<1> HIDE DEF n, a
<1>7. \A i \in 1..Len(log') : i \in 1..n \/ \E k \in 1..a : i = n + k
  <2> SUFFICES ASSUME NEW i \in 1..Len(log'), i \notin 1..n PROVE \E k \in 1..a : i = n + k
    OBVIOUS
  <2>1. i - n \in 1..a /\ i = n + (i - n)
    BY <1>2, <1>3
  <2> QED BY <2>1
<1>8. ASSUME NEW i \in 1..Len(log'), NEW j \in 1..Len(log'), i < j
      PROVE  Before(log'[i], log'[j])
  <2>1. CASE i \in 1..n /\ j \in 1..n
    <3>1. Before(log[i], log[j])
      BY <1>8, <2>1 DEF LogInOrder, n
    <3> QED BY <1>3, <2>1, <3>1
  <2>2. ASSUME i \in 1..n, NEW k \in 1..a, j = n + k PROVE Before(log'[i], log'[j])
    BY <1>3, <1>5, <2>2
  <2>3. ASSUME NEW h \in 1..a, i = n + h, NEW k \in 1..a, j = n + k PROVE Before(log'[i], log'[j])
    <3>1. h < k
      BY <1>2, <1>8, <2>3
    <3> QED BY <1>3, <1>6, <2>3, <3>1
  <2>4. ASSUME NEW h \in 1..a, i = n + h PROVE j \notin 1..n
    BY <1>2, <1>8, <2>4
  <2> QED BY <1>7, <2>1, <2>2, <2>3, <2>4
<1>9. \A i \in 1..Len(log') : log'[i].line <= lines'
  <2> SUFFICES ASSUME NEW i \in 1..Len(log') PROVE log'[i].line <= lines'
    OBVIOUS
  <2>1. CASE i \in 1..n
    <3>1. log[i].line <= lines /\ log[i].line \in Nat /\ log'[i] = log[i]
      BY <1>3, <2>1, LogIs DEF LogInOrder, n
    <3> QED BY <1>0, <1>1, <3>1
  <2>2. ASSUME NEW k \in 1..a, i = n + k PROVE log'[i].line <= lines'
    <3>1. log'[i].line = lines'
      BY <1>3, <1>4, <2>2
    <3> QED BY <1>1, <3>1
  <2> QED BY <1>7, <2>1, <2>2
<1>10. log'[Len(log')].line = lines'
  <2>1. a \in 1..a /\ log'[n + a] = added[a]
    BY <1>2, <1>3
  <2> QED BY <1>3, <1>4, <2>1
<1>11. /\ \A i, j \in 1..Len(log') : i < j => Before(log[i], log[j])'
       /\ LogInOrder'
  BY <1>8, <1>9, <1>10 DEF LogInOrder, Before
<1> QED BY <1>1, <1>2, <1>3, <1>11 DEF n

\* The steps of the alerts keep the types.
LEMMA AlertTypeStep == AlertInv /\ Alerts!Next => AlertType'
<1> SUFFICES ASSUME AlertInv, Alerts!Next PROVE AlertType'
  OBVIOUS
<1>0. /\ AlertType /\ LogInOrder /\ Len(log) \in Nat
      /\ log \in Seq(HalfLines) /\ unread \in Seq(ReadPieces) /\ position \in Nat
  BY LogIs DEF AlertInv, AlertType, LinesInv
<1>1. Alerts!Silent \in [left : SUBSET Admins, size : Nat]
  BY DEF Alerts!Silent
<1>2. CASE Alerts!Write
  BY <1>0, <1>2, WriteIs DEF Alerts!Write, AlertType, Alerts!reader, Alerts!alerts
<1>3. <<>> \in Seq(HalfLines) /\ <<>> \in Seq(ReadPieces)
  OBVIOUS
<1>4. CASE Alerts!Cut
  BY <1>0, <1>3, <1>4 DEF Alerts!Cut, Alerts!Fault, AlertType, Alerts!reader, Alerts!alerts
<1>5. CASE Alerts!PollFails \/ Alerts!Wait
  BY <1>0, <1>5 DEF Alerts!PollFails, Alerts!Wait, Alerts!Fault, AlertType,
                     Alerts!reader, Alerts!alerts, Alerts!written
<1>6. CASE Alerts!Restart
  <2>1. telling' \in [Alerts!Threads -> [left : SUBSET Admins, size : Nat]]
    <3>1. telling' = [t \in Alerts!Threads |-> Alerts!Silent]
      BY <1>6 DEF Alerts!Restart
    <3> QED BY <1>1, <3>1, Zenon
  <2>2. admins' \in SUBSET Admins /\ position' \in Nat /\ cut' \in BOOLEAN /\ errors' \in Nat /\ unread' = <<>>
    <3>1. admins' = Admins /\ position' = Len(log) /\ cut' = FALSE /\ errors' = errors + 1 /\ unread' = <<>>
      BY <1>6 DEF Alerts!Restart, Alerts!Fault
    <3>2. errors + 1 \in Nat
      BY <1>0 DEF AlertType
    <3> QED BY <1>0, <3>1, <3>2
  <2>3. UNCHANGED <<log, lines, twice>>
    BY <1>6 DEF Alerts!Restart, Alerts!written
  <2> QED BY <1>0, <1>3, <2>1, <2>2, <2>3 DEF AlertType
\* A broadcast to the administrators there are.
<1>7. ASSUME NEW t \in Alerts!Threads, Alerts!Broadcast(t)
      PROVE  telling' \in [Alerts!Threads -> [left : SUBSET Admins, size : Nat]]
  <2>1. IsFiniteSet(admins)
    BY <1>0, ServicesAssumption, FS_Subset DEF AlertType
  <2>2. Alerts!Cardinality(admins) \in Nat
    BY <2>1, AlertCount, FS_CardinalityType
  <2>3. [left |-> admins, size |-> Alerts!Cardinality(admins)] \in [left : SUBSET Admins, size : Nat]
    BY <1>0, <2>2 DEF AlertType
  <2> QED BY <1>0, <1>7, <2>3 DEF Alerts!Broadcast, AlertType
<1>8. CASE Alerts!Health
  BY <1>0, <1>7, <1>8 DEF Alerts!Health, AlertType, Alerts!written, Alerts!reader, Alerts!Threads
<1>9. CASE Alerts!Poll
  <2> DEFINE halves == SubSeq(log, position + 1, Len(log))
  <2>1. halves \in Seq(HalfLines)
    BY <1>0
  <2>2. position' \in Nat /\ unread' = Alerts!Pieces(halves)
    BY <1>0, <1>9 DEF Alerts!Poll, Alerts!Advanced
  <2>3. unread' \in Seq(ReadPieces)
    <3>1. CASE halves = <<>>
      BY <2>2, <3>1 DEF Alerts!Pieces
    <3>2. CASE halves # <<>>
      <4>1. \A i \in 1..Len(halves) : position + i \in 1..Len(log) /\ halves[i] = log[position + i]
        BY <1>0
      <4>2. \A i, j \in 1..Len(halves) : i < j => position + i < position + j
        BY <1>0
      <4> HIDE DEF halves
      <4>3. \A i, j \in 1..Len(halves) : i < j => Before(halves[i], halves[j])
        BY <1>0, <4>1, <4>2 DEF LogInOrder
      <4> QED BY <2>1, <2>2, <3>2, <4>3, PiecesAre
    <3> QED BY <3>1, <3>2
  <2> QED BY <1>0, <1>9, <2>2, <2>3 DEF Alerts!Poll, AlertType, Alerts!written, Alerts!alerts
<1>10. CASE Alerts!Process
  <2>1. twice' \in BOOLEAN
    BY <1>0, <1>10, Zenon DEF Alerts!Process, AlertType
  <2>2. Tail(unread) \in Seq(ReadPieces)
    BY <1>0, <1>10 DEF Alerts!Process
  <2>3. telling' \in [Alerts!Threads -> [left : SUBSET Admins, size : Nat]]
    BY <1>0, <1>7, <1>10 DEF Alerts!Process, AlertType, Alerts!Threads
  <2> QED BY <1>0, <1>10, <2>1, <2>2, <2>3 DEF Alerts!Process, AlertType, Alerts!written
<1>11. ASSUME NEW t \in Alerts!Threads, Alerts!Tell(t) \/ Alerts!Interrupted(t) PROVE AlertType'
  <2>1. telling[t] \in [left : SUBSET Admins, size : Nat]
    BY <1>0 DEF AlertType
  <2>2. \A a \in telling[t].left :
          [telling[t] EXCEPT !.left = telling[t].left \ {a}] \in [left : SUBSET Admins, size : Nat]
    BY <2>1
  <2>3. \A a \in telling[t].left : Alerts!Told(t, a) \in [left : SUBSET Admins, size : Nat]
    BY <1>1, <2>2 DEF Alerts!Told
  <2>4. telling' \in [Alerts!Threads -> [left : SUBSET Admins, size : Nat]]
    BY <1>0, <1>1, <1>11, <2>3 DEF Alerts!Tell, Alerts!Interrupted, AlertType
  <2> QED BY <1>0, <1>11, <2>4
             DEF Alerts!Tell, Alerts!Interrupted, AlertType, Alerts!written, Alerts!reader
<1>12. CASE Alerts!ConfirmedClose
  BY <1>0, <1>12 DEF Alerts!ConfirmedClose, AlertType, Alerts!written, Alerts!reader
<1> QED BY <1>2, <1>6, <1>8, <1>9, <1>10, <1>11, <1>12, <1>4, <1>5
        DEF Alerts!Next, Alerts!TailerStep, Alerts!HealthStep, Alerts!Threads

\* The steps that read and process nothing, nor change the log.
LEMMA LinesStay ==
    ASSUME LinesInv, UNCHANGED <<log, lines, position, unread, errors, passed, twice, cut>>
    PROVE  LinesInv'
BY DEF LinesInv, LogInOrder, Before, Waiting, ReadOnce

\* What is read comes after all that was read before.
LEMMA LinesPoll == ASSUME AlertType, LinesInv, Alerts!Poll PROVE LinesInv'
<1>0. /\ Len(log) \in Nat /\ position \in Nat /\ log \in Seq(HalfLines)
      /\ unread = <<>> /\ position # Len(log)
      /\ UNCHANGED <<log, lines, passed, errors, cut, twice>>
  BY LogIs DEF AlertType, Alerts!Poll, Alerts!Idle, Alerts!written
<1>1. LogInOrder'
  BY <1>0 DEF LinesInv, LogInOrder, Before
<1> DEFINE halves == SubSeq(log, position + 1, Len(log))
           pieces == Alerts!Pieces(halves)
<1>2. position' = Alerts!Advanced /\ unread' = pieces
  BY DEF Alerts!Poll
<1>3. CASE position > Len(log)
  <2>1. position' = position /\ unread' = <<>>
    <3>1. halves = <<>>
      BY <1>0, <1>3
    <3> QED BY <1>2, <1>3, <3>1 DEF Alerts!Pieces, Alerts!Advanced
  <2> QED BY <1>0, <1>3, <2>1 DEF LinesInv, LogInOrder, Before, Waiting, ReadOnce
<1>4. CASE position < Len(log)
  <2>1. /\ halves \in Seq(HalfLines) /\ halves # <<>> /\ Len(halves) = Len(log) - position
        /\ \A i \in 1..Len(halves) : halves[i] = log[position + i]
    <3>1. \A i \in (position + 1)..Len(log) : log[i] \in HalfLines
      BY <1>0
    <3>2. /\ halves \in Seq(HalfLines) /\ Len(halves) = Len(log) - position
          /\ \A i \in 1..(Len(log) - position) : halves[i] = log[position + 1 + i - 1]
      BY <1>0, <1>4, <3>1, SubSeqProperties
    <3>3. \A i \in 1..Len(halves) : position + 1 + i - 1 = position + i
      BY <1>0, <3>2
    <3>4. Len(halves) > 0
      BY <1>0, <1>4, <3>2
    <3> HIDE DEF halves
    <3>5. halves # <<>>
      BY <3>4
    <3> QED BY <3>2, <3>3, <3>5
  <2>2. /\ \A i \in 1..Len(halves) : position + i \in 1..Len(log)
        /\ \A i, j \in 1..Len(halves) : i < j => position + i < position + j
    BY <1>0, <2>1
  <2> HIDE DEF halves
  <2>3. \A i, j \in 1..Len(halves) : i < j => Before(halves[i], halves[j])
    BY <2>1, <2>2 DEF LinesInv, LogInOrder
  <2>4. /\ pieces \in Seq(ReadPieces)
        /\ \A i \in 1..Len(halves) : \E j \in 1..Len(pieces) : pieces[j].line = halves[i].line
        /\ \A j \in 1..Len(pieces) :
             /\ pieces[j].line <= halves[Len(halves)].line
             /\ pieces[j].whole => \E i \in 1..Len(halves) : halves[i].line = pieces[j].line /\ ~halves[i].end
             /\ \A k \in 1..Len(pieces) : j < k => pieces[j].line < pieces[k].line
    BY <2>1, <2>3, PiecesAre
  <2> HIDE DEF pieces
  <2>5. position' = Len(log)
    BY <1>0, <1>2, <1>4 DEF Alerts!Advanced
  <2>6. Len(log) \in 1..Len(log) /\ halves[Len(halves)] = log[Len(log)]
    BY <1>0, <1>4, <2>1
  <2>7. cut \/ \A i \in 1..Len(log) : i <= position' => log[i].line \in passed \cup Waiting'
    <3> SUFFICES ASSUME ~cut, NEW i \in 1..Len(log) PROVE log[i].line \in passed \cup Waiting'
      OBVIOUS
    <3>1. CASE i <= position
      <4>1. log[i].line \in passed \cup Waiting
        BY <3>1 DEF LinesInv
      <4> QED BY <1>0, <4>1 DEF Waiting
    <3>2. CASE i > position
      <4>1. i - position \in 1..Len(halves) /\ halves[i - position] = log[i]
        BY <1>0, <2>1, <3>2
      <4>2. PICK j \in 1..Len(pieces) : pieces[j].line = log[i].line
        BY <2>4, <4>1
      <4> QED BY <1>2, <4>2 DEF Waiting
    <3> QED BY <1>0, <3>1, <3>2
  <2>8. ASSUME errors = 0 PROVE ReadOnce'
    <3>1. ReadOnce
      BY <2>8 DEF LinesInv
    <3>2. log[Len(log)].line \in Nat
      BY <2>6, LogIs
    <3>3. \A l \in passed : l \in Nat /\ \E i \in 1..Len(log) : i <= position' /\ l <= log[i].line
      BY <1>0, <2>5, <3>1 DEF ReadOnce
    <3>4. \A l \in Waiting' : l \in Nat /\ l <= log[Len(log)].line
      <4>1. \A j \in 1..Len(pieces) : pieces[j] \in ReadPieces
        BY <2>4
      <4>2. \A h \in ReadPieces : h.line \in Nat
        BY Zenon DEF ReadPieces
      <4> QED BY <1>2, <2>4, <2>6, <4>1, <4>2 DEF Waiting
    <3>5. \A l \in (passed \cup Waiting)' : l \in Nat /\ \E i \in 1..Len(log') : i <= position' /\ l <= log'[i].line
      BY <1>0, <2>5, <2>6, <3>3, <3>4
    <3>6. ASSUME NEW j \in 1..Len(pieces), pieces[j].whole PROVE pieces[j].line \notin passed
      <4>1. PICK i \in 1..Len(halves) : halves[i].line = pieces[j].line /\ ~halves[i].end
        BY <2>4, <3>6
      <4>2. /\ position + i \in 1..Len(log) /\ log[position + i].line = pieces[j].line
            /\ ~log[position + i].end /\ log[position + i].line \in Nat
        BY <2>1, <2>2, <4>1, LogIs
      <4>3. ASSUME pieces[j].line \in passed PROVE FALSE
        <5>1. PICK k \in 1..Len(log) : k <= position /\ pieces[j].line <= log[k].line
          BY <3>1, <4>3 DEF ReadOnce
        <5>2. k < position + i
          BY <1>0, <2>1, <5>1
        <5>3. Before(log[k], log[position + i])
          BY <4>2, <5>2 DEF LinesInv, LogInOrder
        <5>4. log[k].line \in Nat
          BY LogIs
        <5> QED BY <4>2, <5>1, <5>3, <5>4 DEF Before
      <4> QED BY <4>3
    <3>7. ~twice'
      BY <1>0, <3>1 DEF ReadOnce
    <3> QED BY <1>0, <1>2, <2>4, <3>5, <3>6, <3>7 DEF ReadOnce
  <2>9. errors = 0 => ~cut
    BY DEF LinesInv
  <2> QED BY <1>0, <1>1, <2>5, <2>7, <2>8, <2>9 DEF LinesInv
<1> QED BY <1>0, <1>3, <1>4

\* A piece is processed.
LEMMA LinesProcess == ASSUME AlertType, LinesInv, Alerts!Process PROVE LinesInv'
<1> DEFINE piece == unread[1]
<1>0. /\ unread \in Seq(ReadPieces) /\ Len(unread) \in Nat /\ Len(unread) >= 1
      /\ unread' = Tail(unread) /\ passed' = passed \cup {piece.line}
      /\ twice' = (twice \/ (piece.whole /\ piece.line \in passed))
      /\ UNCHANGED <<log, lines, position, errors, cut>>
  BY DEF AlertType, Alerts!Process, Alerts!written
<1>1. /\ Len(unread') = Len(unread) - 1
      /\ \A j \in 1..Len(unread') : j + 1 \in 1..Len(unread) /\ unread'[j] = unread[j + 1]
  BY <1>0
<1>2. (passed \cup Waiting)' = passed \cup Waiting
  <2>1. \A j \in 1..Len(unread) : j = 1 \/ (j - 1 \in 1..Len(unread') /\ unread'[j - 1] = unread[j])
    BY <1>0, <1>1
  <2> QED BY <1>0, <1>1, <2>1 DEF Waiting
<1>3. ASSUME errors = 0 PROVE ReadOnce'
  <2>1. ReadOnce /\ 1 \in 1..Len(unread)
    BY <1>0, <1>3 DEF LinesInv
  <2>2. ~twice'
    BY <1>0, <2>1 DEF ReadOnce
  <2>3. \A l \in (passed \cup Waiting)' : l \in Nat /\ \E i \in 1..Len(log') : i <= position' /\ l <= log'[i].line
    BY <1>0, <1>2, <2>1 DEF ReadOnce
  <2>4. ASSUME NEW j \in 1..Len(unread') PROVE unread'[j].whole => unread'[j].line \notin passed'
    <3>1. 1 < j + 1 /\ j + 1 \in 1..Len(unread)
      BY <1>1
    <3>2. piece.line < unread[j + 1].line /\ (unread[j + 1].whole => unread[j + 1].line \notin passed)
      BY <2>1, <3>1 DEF ReadOnce
    <3>3. piece.line \in Nat
      BY <2>1, UnreadIs
    <3> QED BY <1>0, <1>1, <3>1, <3>2, <3>3
  <2>5. ASSUME NEW j \in 1..Len(unread'), NEW k \in 1..Len(unread'), j < k
        PROVE  unread'[j].line < unread'[k].line
    <3>1. j + 1 < k + 1 /\ j + 1 \in 1..Len(unread) /\ k + 1 \in 1..Len(unread)
      BY <1>0, <1>1, <2>5
    <3> QED BY <1>1, <2>1, <3>1 DEF ReadOnce
  <2> QED BY <2>2, <2>3, <2>4, <2>5 DEF ReadOnce
<1> QED BY <1>0, <1>2, <1>3 DEF LinesInv, LogInOrder, Before

\* The steps of the alerts keep what is known of lines.
LEMMA LinesStep == AlertType /\ LinesInv /\ Alerts!Next => LinesInv'
<1> SUFFICES ASSUME AlertType, LinesInv, Alerts!Next PROVE LinesInv'
  OBVIOUS
<1>1. CASE Alerts!Write
  <2>0. /\ UNCHANGED <<position, unread, passed, twice, errors, cut>>
        /\ Len(log) \in Nat /\ position \in Nat
    BY <1>1, LogIs DEF Alerts!Write, Alerts!reader, AlertType
  <2>1. /\ Len(log') \in Nat /\ Len(log') > Len(log)
        /\ \A i \in 1..Len(log) : log'[i] = log[i]
        /\ LogInOrder'
    BY <1>1, WriteIs DEF LinesInv
  <2>2. Waiting' = Waiting
    BY <2>0 DEF Waiting
  <2>3. cut' \/ \A i \in 1..Len(log') : i <= position' => log'[i].line \in (passed \cup Waiting)'
    <3> SUFFICES ASSUME ~cut, NEW i \in 1..Len(log'), i <= position
                 PROVE  log'[i].line \in passed \cup Waiting
      BY <2>0, <2>2
    <3>1. i \in 1..Len(log)
      BY <2>0, <2>1 DEF LinesInv
    <3> QED BY <2>1, <3>1 DEF LinesInv
  <2>4. ~cut' => position' <= Len(log')
    BY <2>0, <2>1 DEF LinesInv
  <2>5. ASSUME errors = 0 PROVE ~cut' /\ ReadOnce'
    <3>1. ~cut /\ ReadOnce
      BY <2>5 DEF LinesInv
    <3>2. \A i \in 1..Len(log) : i \in 1..Len(log') /\ log'[i].line = log[i].line
      BY <2>0, <2>1
    <3> QED BY <2>0, <2>2, <3>1, <3>2 DEF ReadOnce
  <2> QED BY <2>0, <2>1, <2>3, <2>4, <2>5 DEF LinesInv
<1>2. ASSUME Alerts!Fault PROVE errors' # 0
  BY <1>2 DEF Alerts!Fault, AlertType
<1>3. CASE Alerts!Cut
  <2>1. log' = <<>> /\ cut' /\ Len(log') = 0
    BY <1>3 DEF Alerts!Cut
  <2> QED BY <1>2, <1>3, <2>1 DEF Alerts!Cut, LinesInv, LogInOrder
<1>4. CASE Alerts!PollFails
  <2>1. /\ position' = 0 /\ UNCHANGED <<log, lines, cut>> /\ errors' # 0 /\ Len(log) \in Nat
    BY <1>2, <1>4, LogIs DEF Alerts!PollFails, Alerts!written
  <2> QED BY <2>1 DEF LinesInv, LogInOrder, Before
<1>5. CASE Alerts!Restart
  <2>1. /\ position' = Len(log) /\ UNCHANGED <<log, lines>> /\ errors' # 0 /\ Len(log) \in Nat
        /\ passed' = {log[i].line : i \in 1..Len(log)}
    <3>1. DOMAIN log = 1..Len(log)
      BY DEF AlertType
    <3> QED BY <1>2, <1>5, <3>1, LogIs DEF Alerts!Restart, Alerts!written, Alerts!LinesOf
  <2> QED BY <2>1 DEF LinesInv, LogInOrder, Before
<1>6. CASE Alerts!Wait \/ Alerts!Health \/ Alerts!ConfirmedClose
  BY <1>6, LinesStay
     DEF Alerts!Wait, Alerts!Health, Alerts!ConfirmedClose, Alerts!written, Alerts!reader
<1>7. ASSUME NEW t, Alerts!Tell(t) \/ Alerts!Interrupted(t) PROVE LinesInv'
  BY <1>7, LinesStay DEF Alerts!Tell, Alerts!Interrupted, Alerts!written, Alerts!reader
<1> QED BY <1>1, <1>3, <1>4, <1>5, <1>6, <1>7, LinesPoll, LinesProcess
        DEF Alerts!Next, Alerts!TailerStep, Alerts!HealthStep

\* Every administrator of the alert that holds back others is sent it, or is to come.
LEMMA ThrottledStep == AlertType /\ Alerts!ThrottledIsTold /\ Alerts!Next => Alerts!ThrottledIsTold'
<1> SUFFICES ASSUME AlertType, Alerts!ThrottledIsTold, Alerts!Next, throttled'
             PROVE  Alerts!ThrottledIsTold'
  BY DEF Alerts!ThrottledIsTold
<1>0. "tailer" \in Alerts!Threads /\ "health" \in Alerts!Threads /\ "health" # "tailer"
  BY DEF Alerts!Threads
<1>1. ASSUME throttled, heard' = heard, telling'["tailer"] = telling["tailer"], admins' \subseteq admins
      PROVE  Alerts!ThrottledIsTold'
  BY <1>1 DEF Alerts!ThrottledIsTold
<1>2. CASE Alerts!Write \/ Alerts!Cut \/ Alerts!PollFails \/ Alerts!Poll
  BY <1>1, <1>2 DEF Alerts!Write, Alerts!Cut, Alerts!PollFails, Alerts!Poll, Alerts!alerts
<1>3. CASE Alerts!Wait \/ Alerts!ConfirmedClose
  BY <1>1, <1>3 DEF Alerts!Wait, Alerts!ConfirmedClose
<1>4. CASE Alerts!Health
  BY <1>0, <1>1, <1>4 DEF Alerts!Health, Alerts!Broadcast, AlertType
<1>5. CASE Alerts!Restart
  BY <1>5 DEF Alerts!Restart
<1>6. CASE Alerts!Process
  <2>1. CASE /\ heard' = {} /\ Alerts!Broadcast("tailer")
    <3>1. telling'["tailer"] = [left |-> admins, size |-> Alerts!Cardinality(admins)]
      BY <1>0, <2>1 DEF Alerts!Broadcast, AlertType
    <3>2. telling'["tailer"].left = admins /\ admins' = admins
      BY <1>6, <3>1 DEF Alerts!Process
    <3> QED BY <3>2 DEF Alerts!ThrottledIsTold
  <2>2. CASE UNCHANGED <<throttled, heard, telling>>
    BY <1>1, <1>6, <2>2 DEF Alerts!Process
  <2> QED BY <1>6, <2>1, <2>2 DEF Alerts!Process
<1>7. CASE Alerts!Tell("tailer")
  <2>1. PICK a \in telling["tailer"].left :
          telling' = [telling EXCEPT !["tailer"] = Alerts!Told("tailer", a)] /\ heard' = heard \cup {a}
    BY <1>7 DEF Alerts!Tell
  <2>2. telling["tailer"] \in [left : SUBSET Admins, size : Nat]
    BY <1>0 DEF AlertType
  <2>3. Alerts!Told("tailer", a).left = telling["tailer"].left \ {a}
    <3>1. CASE telling["tailer"].left = {a}
      BY <3>1 DEF Alerts!Told, Alerts!Silent
    <3>2. CASE telling["tailer"].left # {a}
      BY <2>2, <3>2 DEF Alerts!Told
    <3> QED BY <3>1, <3>2
  <2>4. telling'["tailer"] = Alerts!Told("tailer", a)
    BY <1>0, <2>1 DEF AlertType
  <2> QED BY <1>7, <2>1, <2>3, <2>4 DEF Alerts!Tell, Alerts!ThrottledIsTold
<1>8. CASE Alerts!Interrupted("tailer")
  BY <1>8 DEF Alerts!Interrupted, Alerts!ThrottledIsTold, AlertType
<1>9. CASE Alerts!Tell("health") \/ Alerts!Interrupted("health")
  BY <1>0, <1>1, <1>9 DEF Alerts!Tell, Alerts!Interrupted, AlertType
<1> QED BY <1>2, <1>3, <1>4, <1>5, <1>6, <1>7, <1>8, <1>9
        DEF Alerts!Next, Alerts!TailerStep, Alerts!HealthStep

\* The alerts keep their invariant.
LEMMA AlertStep == AlertInv /\ Alerts!Next => AlertInv'
BY AlertTypeStep, LinesStep, ThrottledStep DEF AlertInv

\* What the alerts promise of lines and of administrators.
LEMMA AlertHolds == AlertInv => Alerts!ReadIsProcessed /\ Alerts!ThrottledIsTold
<1> SUFFICES ASSUME AlertInv PROVE Alerts!ReadIsProcessed
  BY DEF AlertInv
<1>1. DOMAIN log = 1..Len(log) /\ DOMAIN unread = 1..Len(unread) /\ errors \in Nat
  BY DEF AlertInv, AlertType
<1>2. twice => errors > 0
  BY <1>1 DEF AlertInv, LinesInv, ReadOnce
<1> QED BY <1>1, <1>2 DEF AlertInv, LinesInv, Waiting, Alerts!ReadIsProcessed

\* Where the alerts stand still, nothing changes for them.
LEMMA AlertStays == AlertInv /\ UNCHANGED alertVars => AlertInv'
BY LinesStay DEF AlertInv, AlertType, Alerts!ThrottledIsTold, alertVars
-----------------------------------------------------------------------------
(* The check of the processes: what a check knows of the saved status.     *)

CheckerPlaces ==
  [at : {"sleeping", "out", "check", "save", "dump", "send"},
   before : SUBSET Components, now : SUBSET Components, raced : BOOLEAN]

StatusType ==
  /\ up \in SUBSET Components
  /\ statusFile \in [state : {"none", "emptied", "whole"}, running : SUBSET Components]
  /\ statusFile.state = "none" => statusFile.running = {}
  /\ checker \in [Status!Checkers -> CheckerPlaces]
  /\ believed \in [Components -> {"nothing", "up", "down"}]
  /\ missed \in SUBSET Components

\* Of every component but the missed ones, the administrators believe what a set says.
Agree(running) == \A c \in Components \ missed : c \in running <=> believed[c] = "up"

Checks(w) == w.at \notin {"sleeping", "out"}

\* A check that no other one overlaps knows what the administrators believe, and what is
\* in the file.
Knows(w) ==
  /\ Agree(w.before)
  /\ w.at \in {"check", "save"} /\ statusFile.state # "emptied" => w.before = statusFile.running
  /\ w.at = "dump" => statusFile.state = "emptied"
  /\ w.at = "send" => statusFile.state = "whole" /\ statusFile.running = w.now

StatusInv ==
  /\ StatusType
  /\ \A p, q \in Status!Checkers :
       Checks(checker[p]) /\ Checks(checker[q]) => p = q \/ (checker[p].raced /\ checker[q].raced)
  /\ \A p \in Status!Checkers :
       Checks(checker[p]) => IF checker[p].raced THEN missed = Components ELSE Knows(checker[p])
  /\ (\A p \in Status!Checkers : ~Checks(checker[p])) /\ statusFile.state # "emptied"
       => Agree(statusFile.running)

\* Where a check is.
LEMMA CheckerIs ==
    ASSUME StatusType, NEW p \in Status!Checkers
    PROVE  /\ checker[p] \in CheckerPlaces /\ checker[p].raced \in BOOLEAN
           /\ checker[p].before \in SUBSET Components /\ checker[p].now \in SUBSET Components
<1>1. checker[p] \in CheckerPlaces
  BY DEF StatusType
<1> QED BY <1>1, Zenon DEF CheckerPlaces

\* A check at rest.
LEMMA RestIs ==
    ASSUME NEW at \in {"sleeping", "out", "check", "save", "dump", "send"}
    PROVE  Status!Rest(at) \in CheckerPlaces /\ Status!Rest(at).at = at /\ ~Status!Rest(at).raced
BY DEF Status!Rest, CheckerPlaces

\* A check goes on that another one overlaps.
LEMMA RacedMoves ==
    ASSUME StatusInv, NEW p \in Status!Checkers, NEW w \in CheckerPlaces,
           checker' = [checker EXCEPT ![p] = w], Checks(checker[p]), checker[p].raced,
           Checks(w) => w.raced, missed' = Components,
           StatusType'
    PROVE  StatusInv'
<1>1. /\ checker'[p] = w
      /\ \A q \in Status!Checkers \ {p} : checker'[q] = checker[q]
  BY DEF StatusInv, StatusType
<1>2. \A q \in Status!Checkers : Checks(checker'[q]) => checker'[q].raced
  BY <1>1 DEF StatusInv
<1>3. Agree(statusFile.running)'
  BY DEF Agree
<1> QED BY <1>2, <1>3 DEF StatusInv, Checks

\* A check goes on that no other one overlaps.
LEMMA AloneMoves ==
    ASSUME StatusInv, NEW p \in Status!Checkers, NEW w \in CheckerPlaces,
           checker' = [checker EXCEPT ![p] = w], Checks(checker[p]), ~checker[p].raced,
           IF Checks(w) THEN ~w.raced /\ Knows(checker[p])'
           ELSE (statusFile.state # "emptied" => Agree(statusFile.running))',
           StatusType'
    PROVE  StatusInv'
<1>1. /\ checker'[p] = w
      /\ \A q \in Status!Checkers \ {p} : checker'[q] = checker[q]
  BY DEF StatusInv, StatusType
<1>2. \A q \in Status!Checkers \ {p} : ~Checks(checker'[q])
  BY <1>1 DEF StatusInv
<1>3. CASE Checks(w)
  <2>1. \A q \in Status!Checkers : Checks(checker[q])' => q = p
    BY <1>2 DEF Checks
  <2>2. Checks(checker[p])' /\ ~checker'[p].raced /\ Knows(checker[p])'
    BY <1>1, <1>3 DEF Checks, Knows
  <2> QED BY <2>1, <2>2 DEF StatusInv
<1>4. CASE ~Checks(w)
  <2>1. \A q \in Status!Checkers : ~Checks(checker[q])'
    BY <1>1, <1>2, <1>4 DEF Checks
  <2> QED BY <1>4, <2>1 DEF StatusInv
<1> QED BY <1>3, <1>4

\* No check runs, and nobody was told anything.
LEMMA StatusInit == Status!Init => StatusInv
<1> SUFFICES ASSUME Status!Init PROVE StatusInv
  OBVIOUS
<1>1. \A p \in Status!Checkers : ~Checks(checker[p]) /\ checker[p] \in CheckerPlaces
  BY DEF Status!Init, Status!Rest, Checks, CheckerPlaces
<1>2. checker \in [Status!Checkers -> CheckerPlaces]
  BY <1>1 DEF Status!Init
<1>3. StatusType
  BY <1>2 DEF Status!Init, StatusType
<1>4. Agree(statusFile.running)
  BY DEF Status!Init, Agree
<1> QED BY <1>1, <1>3, <1>4 DEF StatusInv

\* A check begins, perhaps beside another one.
LEMMA StatusLoad == ASSUME StatusInv, NEW p \in Status!Checkers, Status!Load(p) PROVE StatusInv'
<1>0. /\ StatusType /\ ~Checks(checker[p])
      /\ UNCHANGED <<up, statusFile, believed>>
  BY DEF StatusInv, Status!Load, Status!At, Checks
<1> DEFINE races == \E q \in Status!Checkers : Status!Active(q)
           before == IF statusFile.state = "whole" THEN statusFile.running ELSE {}
           w == [Status!Rest("check") EXCEPT !.before = before, !.raced = races]
           raced(q) == [checker[q] EXCEPT !.raced = TRUE]
<1>1. /\ checker' = [q \in Status!Checkers |->
             IF q = p THEN w ELSE IF Status!Active(q) THEN raced(q) ELSE checker[q]]
      /\ missed' = IF statusFile.state = "emptied" \/ races THEN Components ELSE missed
  BY DEF Status!Load
<1>2. before \in SUBSET Components /\ races \in BOOLEAN
  BY <1>0 DEF StatusType
<1>3. w \in CheckerPlaces
  BY <1>2, RestIs, Zenon DEF Status!Rest, CheckerPlaces
<1>4. w.at = "check" /\ w.before = before /\ w.raced = races
  BY DEF Status!Rest
<1>5. \A q \in Status!Checkers :
        raced(q) \in CheckerPlaces /\ raced(q).at = checker[q].at /\ raced(q).raced
  <2> SUFFICES ASSUME NEW q \in Status!Checkers
               PROVE raced(q) \in CheckerPlaces /\ raced(q).at = checker[q].at /\ raced(q).raced
    OBVIOUS
  <2>1. checker[q] \in CheckerPlaces
    BY <1>0, CheckerIs
  <2> QED BY <2>1 DEF CheckerPlaces
<1> HIDE DEF w, raced
<1>6. checker' \in [Status!Checkers -> CheckerPlaces]
  BY <1>0, <1>1, <1>3, <1>5 DEF StatusType
<1>7. missed' \in SUBSET Components
  BY <1>0, <1>1 DEF StatusType
<1>8. StatusType'
  BY <1>0, <1>6, <1>7 DEF StatusType
<1>9. CASE races
  <2>1. missed' = Components
    BY <1>1, <1>9
  <2>2. \A q \in Status!Checkers : Checks(checker'[q]) => checker'[q].raced
    BY <1>1, <1>4, <1>5, <1>9 DEF Checks, Status!Active
  <2>3. Agree(statusFile.running)'
    BY <2>1 DEF Agree
  <2> QED BY <1>8, <2>1, <2>2, <2>3 DEF StatusInv, Checks
<1>10. CASE ~races
  <2>1. \A q \in Status!Checkers \ {p} : ~Checks(checker'[q])
    BY <1>1, <1>10 DEF Checks, Status!Active
  <2>2. checker'[p] = w /\ Checks(w) /\ ~w.raced
    BY <1>1, <1>4, <1>10 DEF Checks
  <2>3. \A c \in Components \ missed' : c \in before <=> believed'[c] = "up"
    <3>1. CASE statusFile.state = "emptied"
      BY <1>1, <3>1
    <3>2. CASE statusFile.state # "emptied"
      <4>1. Agree(statusFile.running)
        BY <1>10, <3>2 DEF StatusInv, Checks, Status!Active
      <4>2. before = statusFile.running
        BY <1>0, <3>2 DEF StatusType
      <4>3. missed' = missed
        BY <1>1, <1>10, <3>2
      <4> QED BY <1>0, <4>1, <4>2, <4>3 DEF Agree
    <3> QED BY <3>1, <3>2
  <2>4. statusFile.state # "emptied" => before = statusFile.running
    BY <1>0 DEF StatusType
  <2> HIDE DEF before, races
  <2>5. Agree(checker[p].before)'
    BY <1>4, <2>2, <2>3 DEF Agree
  <2>6. checker'[p].at = "check" /\ checker'[p].before = before
    BY <1>4, <2>2
  <2>7. Knows(checker[p])'
    BY <1>0, <2>4, <2>5, <2>6 DEF Knows
  <2> QED BY <1>8, <2>1, <2>2, <2>7 DEF StatusInv, Checks
<1> QED BY <1>9, <1>10


\* A check goes on, or its process ends.
LEMMA StatusGoes ==
    ASSUME StatusInv, NEW p \in Status!Checkers, Status!Step(p) \/ Status!End(p)
    PROVE  StatusInv'
<1>0. /\ StatusType /\ checker[p] \in CheckerPlaces /\ checker[p].raced \in BOOLEAN
      /\ checker[p].before \in SUBSET Components /\ checker[p].now \in SUBSET Components
      /\ Checks(checker[p]) /\ up' = up
  BY CheckerIs DEF StatusInv, Status!Step, Status!Check, Status!Truncate, Status!Dump, Status!Send,
                   Status!End, Status!At, Status!Active, Checks
<1>1. CASE Status!Check(p)
  <2> DEFINE w == [checker[p] EXCEPT !.now = up, !.at = "save"]
  <2>1. w \in CheckerPlaces
    BY <1>0 DEF StatusType, CheckerPlaces
  <2>2. /\ w.at = "save" /\ w.before = checker[p].before /\ w.raced = checker[p].raced
    BY <1>0 DEF CheckerPlaces
  <2>3. checker' = [checker EXCEPT ![p] = w] /\ UNCHANGED <<statusFile, believed, missed>>
    BY <1>0, <1>1 DEF Status!Check, Status!people, StatusType
  <2>4. checker[p].at = "check"
    BY <1>1 DEF Status!Check, Status!At
  <2> HIDE DEF w
  <2>5. StatusType'
    BY <1>0, <2>1, <2>3 DEF StatusType
  <2>6. checker[p].raced => missed' = Components
    BY <1>0, <2>3 DEF StatusInv
  <2>7. CASE checker[p].raced
    BY <1>0, <2>1, <2>2, <2>3, <2>5, <2>6, <2>7, RacedMoves
  <2>8. CASE ~checker[p].raced
    <3>1. Knows(checker[p])
      BY <1>0, <2>8 DEF StatusInv
    <3>2. checker'[p] = w
      BY <1>0, <2>3 DEF StatusType
    <3>3. Knows(checker[p])'
      BY <2>2, <2>3, <2>4, <3>1, <3>2 DEF Knows, Agree
    <3>4. Checks(w)
      BY <2>2 DEF Checks
    <3> QED BY <1>0, <2>1, <2>2, <2>3, <2>5, <2>8, <3>3, <3>4, AloneMoves
  <2> QED BY <2>7, <2>8
<1>2. CASE Status!Truncate(p) \/ Status!Dump(p)
  <2> DEFINE to == IF Status!At(p, "save") THEN "dump" ELSE "send"
             w == [checker[p] EXCEPT !.at = to]
             f == IF Status!At(p, "save") THEN [state |-> "emptied", running |-> {}]
                                          ELSE [state |-> "whole", running |-> checker[p].now]
  <2>1. to \in {"dump", "send"}
    OBVIOUS
  <2>2. checker' = [checker EXCEPT ![p] = w] /\ statusFile' = f /\ UNCHANGED <<believed, missed>>
    BY <1>0, <1>2 DEF Status!Truncate, Status!Dump, Status!At, Status!Goes, Status!people, StatusType
  <2>3. /\ f \in [state : {"none", "emptied", "whole"}, running : SUBSET Components]
        /\ f.state # "none"
        /\ to = "dump" => f.state = "emptied"
        /\ to = "send" => f.state = "whole" /\ f.running = checker[p].now
    BY <1>0
  <2> HIDE DEF to, f
  <2>4. w \in CheckerPlaces
    BY <1>0, <2>1 DEF CheckerPlaces
  <2>5. /\ w.at = to /\ w.before = checker[p].before /\ w.raced = checker[p].raced
        /\ w.now = checker[p].now
    BY <1>0, <2>1 DEF CheckerPlaces
  <2> HIDE DEF w
  <2>6. checker' \in [Status!Checkers -> CheckerPlaces] /\ checker'[p] = w
    BY <1>0, <2>2, <2>4 DEF StatusType
  <2>7. StatusType'
    BY <1>0, <2>2, <2>3, <2>6 DEF StatusType
  <2>8. checker[p].raced => missed' = Components
    BY <1>0, <2>2 DEF StatusInv
  <2>9. CASE checker[p].raced
    BY <1>0, <2>2, <2>4, <2>5, <2>7, <2>8, <2>9, RacedMoves
  <2>10. CASE ~checker[p].raced
    <3>1. Knows(checker[p])
      BY <1>0, <2>10 DEF StatusInv
    <3>2. Knows(checker[p])'
      BY <2>1, <2>2, <2>3, <2>5, <2>6, <3>1 DEF Knows, Agree
    <3>3. Checks(w)
      BY <2>1, <2>5 DEF Checks
    <3> QED BY <1>0, <2>2, <2>4, <2>5, <2>7, <2>10, <3>2, <3>3, AloneMoves
  <2> QED BY <2>9, <2>10
\* A check ends: who knows what, and what is in the file, when no other one overlaps.
<1> DEFINE rest == Status!Rest(IF p = "daemon" THEN "sleeping" ELSE "out")
<1>3. rest \in CheckerPlaces /\ rest.at \in {"sleeping", "out"}
  BY RestIs
<1> HIDE DEF rest
<1>4. ASSUME checker' = [checker EXCEPT ![p] = rest], UNCHANGED statusFile,
             believed' \in [Components -> {"nothing", "up", "down"}], missed' \in SUBSET Components,
             checker[p].raced => missed' = Components,
             ~checker[p].raced /\ Knows(checker[p]) /\ statusFile.state # "emptied"
               => Agree(statusFile.running)'
      PROVE  StatusInv'
  <2>1. checker' \in [Status!Checkers -> CheckerPlaces]
    BY <1>0, <1>3, <1>4 DEF StatusType
  <2>2. StatusType'
    BY <1>0, <1>4, <2>1 DEF StatusType
  <2>3. ~Checks(rest)
    BY <1>3 DEF Checks
  <2>4. CASE checker[p].raced
    BY <1>0, <1>3, <1>4, <2>2, <2>3, <2>4, RacedMoves
  <2>5. CASE ~checker[p].raced
    <3>1. Knows(checker[p])
      BY <1>0, <2>5 DEF StatusInv
    <3> QED BY <1>0, <1>3, <1>4, <2>2, <2>3, <2>5, <3>1, AloneMoves
  <2> QED BY <2>4, <2>5
<1>5. Status!Changes(p) \in SUBSET Components
  BY <1>0 DEF Status!Changes
<1>6. CASE Status!Send(p)
  <2>1. /\ checker' = [checker EXCEPT ![p] = rest] /\ UNCHANGED statusFile
        /\ checker[p].at = "send"
    BY <1>6 DEF Status!Send, Status!Finishes, Status!At, rest
  <2>2. CASE /\ believed' = [c \in Components |-> IF c \in Status!Told(p)
                               THEN (IF c \in checker[p].now THEN "up" ELSE "down") ELSE believed[c]]
             /\ missed' = IF checker[p].raced THEN missed ELSE missed \ Status!Told(p)
    <3>1. /\ believed' \in [Components -> {"nothing", "up", "down"}]
          /\ missed' \in SUBSET Components
          /\ checker[p].raced => missed' = Components
      BY <1>0, <2>2 DEF StatusInv, StatusType
    <3>2. Status!Changes(p) \subseteq Status!Told(p)
      BY <1>5 DEF Status!Told
    <3>3. ASSUME ~checker[p].raced, Knows(checker[p]) PROVE Agree(statusFile.running)'
      <4>1. statusFile'.running = checker[p].now
        BY <2>1, <3>3 DEF Knows
      <4>2. ASSUME NEW c \in Components, c \notin missed'
            PROVE  c \in checker[p].now <=> believed'[c] = "up"
        <5>1. CASE c \in Status!Told(p)
          BY <2>2, <5>1
        <5>2. CASE c \notin Status!Told(p)
          BY <2>2, <3>2, <3>3, <4>2, <5>2 DEF Knows, Agree, Status!Changes
        <5> QED BY <5>1, <5>2
      <4> QED BY <4>1, <4>2 DEF Agree
    <3> QED BY <1>4, <2>1, <3>1, <3>3
  <2>3. CASE missed' = missed \cup Status!Changes(p) /\ UNCHANGED believed
    <3>1. /\ believed' \in [Components -> {"nothing", "up", "down"}]
          /\ missed' \in SUBSET Components
          /\ checker[p].raced => missed' = Components
      BY <1>0, <1>5, <2>3 DEF StatusInv, StatusType
    <3>2. ASSUME ~checker[p].raced, Knows(checker[p]) PROVE Agree(statusFile.running)'
      <4>1. statusFile'.running = checker[p].now
        BY <2>1, <3>2 DEF Knows
      <4> QED BY <2>3, <3>2, <4>1 DEF Knows, Agree, Status!Changes
    <3> QED BY <1>4, <2>1, <3>1, <3>2
  <2> QED BY <1>6, <2>2, <2>3 DEF Status!Send
<1>7. CASE Status!End(p)
  <2>1. /\ checker' = [checker EXCEPT ![p] = rest] /\ UNCHANGED <<statusFile, believed>>
        /\ missed' = IF checker[p].at = "send" THEN missed \cup Status!Changes(p) ELSE missed
    BY <1>7 DEF Status!End, Status!Finishes, Status!At, rest
  <2>2. /\ believed' \in [Components -> {"nothing", "up", "down"}]
        /\ missed' \in SUBSET Components
        /\ checker[p].raced => missed' = Components
    BY <1>0, <1>5, <2>1 DEF StatusInv, StatusType
  <2>3. ASSUME ~checker[p].raced, Knows(checker[p]), statusFile.state # "emptied"
        PROVE  Agree(statusFile.running)'
    <3>1. CASE checker[p].at = "send"
      BY <2>1, <2>3, <3>1 DEF Knows, Agree, Status!Changes
    <3>2. CASE checker[p].at # "send"
      <4>1. checker[p].at \in {"check", "save"}
        <5>1. checker[p].at \in {"sleeping", "out", "check", "save", "dump", "send"}
          BY <1>0, Zenon DEF CheckerPlaces
        <5> QED BY <1>0, <2>3, <3>2, <5>1 DEF Knows, Checks
      <4> QED BY <2>1, <2>3, <3>2, <4>1 DEF Knows, Agree
    <3> QED BY <3>1, <3>2
  <2> QED BY <1>4, <2>1, <2>2, <2>3
<1> QED BY <1>1, <1>2, <1>6, <1>7 DEF Status!Step

\* The check of the processes keeps its invariant.
LEMMA StatusStep == StatusInv /\ Status!Next => StatusInv'
<1> SUFFICES ASSUME StatusInv, Status!Next PROVE StatusInv'
  OBVIOUS
<1>1. CASE Status!Change
  <2>1. up' \in SUBSET Components /\ UNCHANGED <<statusFile, checker, believed, missed>>
    BY <1>1 DEF Status!Change, Status!people, StatusInv, StatusType
  <2> QED BY <2>1 DEF StatusInv, StatusType, Knows, Agree, Checks
<1>2. CASE Status!HourPasses
  <2>1. UNCHANGED <<up, statusFile, checker, believed, missed>>
    BY <1>2 DEF Status!HourPasses, Status!people
  <2> QED BY <2>1 DEF StatusInv, StatusType, Knows, Agree, Checks
<1> QED BY <1>1, <1>2, StatusLoad, StatusGoes DEF Status!Next

\* What the checks promise of the saved status.
LEMMA StatusHolds == StatusInv => Status!FileIsTold
BY DEF StatusInv, Status!FileIsTold, Status!Active, Status!Checkers, Checks, Agree

\* Where the checks stand still, nothing changes for them.
LEMMA StatusStays == StatusInv /\ UNCHANGED statusVars => StatusInv'
BY DEF StatusInv, StatusType, Knows, Agree, Checks, statusVars
-----------------------------------------------------------------------------
(* The workflow: an active one has a loop that has not finished.           *)

LoopPlaces == [at : {"out", "task", "step", "dump", "end", "last dump"}, task : Int, step : Int]

\* A loop that goes on as long as processing is active.
Busy(l) == l.at \in {"task", "step", "dump", "end"}

WorkInv ==
  /\ loop \in [Loops -> LoopPlaces]
  /\ active => \E l \in Loops : Busy(loop[l])

\* A loop that is not there, and a new one.
LEMMA NewLoop ==
    /\ Work!Out \in LoopPlaces
    /\ \A step \in {"task", "end"} :
         [Work!Out EXCEPT !.at = step] \in LoopPlaces /\ Busy([Work!Out EXCEPT !.at = step])
<1>1. Work!Out \in LoopPlaces
  BY DEF Work!Out, LoopPlaces
<1>2. ASSUME NEW step \in {"task", "end"}
      PROVE  [Work!Out EXCEPT !.at = step] \in LoopPlaces /\ Busy([Work!Out EXCEPT !.at = step])
  BY <1>1 DEF LoopPlaces, Busy
<1> QED BY <1>1, <1>2

\* Where a loop is.
LEMMA LoopIs ==
    ASSUME WorkInv, NEW l \in Loops
    PROVE  loop[l] \in LoopPlaces /\ loop[l].task + 1 \in Int /\ loop[l].step + 1 \in Int
<1>1. loop[l] \in LoopPlaces
  BY DEF WorkInv
<1>2. loop[l].task \in Int /\ loop[l].step \in Int
  BY <1>1, Zenon DEF LoopPlaces
<1> QED BY <1>1, <1>2

\* One loop goes to another place: it stays busy as long as processing is active.
LEMMA LoopMoves ==
    ASSUME WorkInv, NEW l \in Loops, NEW where \in LoopPlaces, loop' = [loop EXCEPT ![l] = where],
           active' => Busy(where) \/ (active /\ ~Busy(loop[l]))
    PROVE  WorkInv'
<1>1. loop' \in [Loops -> LoopPlaces] /\ loop'[l] = where /\ \A k \in Loops \ {l} : loop'[k] = loop[k]
  BY DEF WorkInv
<1>2. ASSUME active' PROVE \E k \in Loops : Busy(loop'[k])
  <2>1. CASE Busy(where)
    BY <1>1, <2>1
  <2>2. CASE active /\ ~Busy(loop[l])
    <3>1. PICK k \in Loops : Busy(loop[k])
      BY <2>2 DEF WorkInv
    <3> QED BY <1>1, <2>2, <3>1
  <2> QED BY <1>2, <2>1, <2>2
<1> QED BY <1>1, <1>2 DEF WorkInv

\* There is no loop, and processing is not active.
LEMMA WorkInit == Work!Init => WorkInv
BY NewLoop DEF Work!Init, WorkInv

\* Only the loop that ends takes the flag away, and a start brings a loop with it.
LEMMA WorkStep == WorkInv /\ Work!Next => WorkInv'
<1> SUFFICES ASSUME WorkInv, Work!Next PROVE WorkInv'
  OBVIOUS
<1>0. loop \in [Loops -> LoopPlaces]
  BY DEF WorkInv
<1>1. CASE Work!StartProcessing
  <2>1. PICK l \in Loops : loop' = [loop EXCEPT ![l] = [Work!Out EXCEPT !.at = "task"]]
    BY <1>1 DEF Work!StartProcessing
  <2> QED BY <2>1, NewLoop, LoopMoves
<1>2. CASE Work!StopProcessing
  BY <1>2 DEF Work!StopProcessing, WorkInv
<1>3. CASE Work!Restart
  <2>1. PICK l \in Loops : loop' = [[k \in Loops |-> Work!Out] EXCEPT ![l] = [Work!Out EXCEPT !.at = "task"]]
    BY <1>3 DEF Work!Restart
  <2> HIDE DEF Work!Out
  <2>2. loop' \in [Loops -> LoopPlaces] /\ Busy(loop'[l])
    BY <2>1, NewLoop
  <2> QED BY <2>2 DEF WorkInv
<1>4. ASSUME NEW l \in Loops, Work!NextTask(l) PROVE WorkInv'
  <2> DEFINE where == IF loop[l].task > Tasks \/ ~active THEN [Work!Out EXCEPT !.at = "end"]
                      ELSE [loop[l] EXCEPT !.at = "step", !.step = 0]
  <2>1. loop' = [loop EXCEPT ![l] = where] /\ active' = active
    BY <1>4 DEF Work!NextTask
  <2>2. where \in LoopPlaces /\ Busy(where)
    <3> DEFINE next == [loop[l] EXCEPT !.at = "step", !.step = 0]
    <3>1. next \in LoopPlaces
      <4>1. loop[l] \in LoopPlaces /\ 0 \in Int
        BY LoopIs
      <4> QED BY <4>1, Zenon DEF LoopPlaces
    <3>2. Busy(next)
      BY LoopIs DEF LoopPlaces, Busy
    <3> QED BY <3>1, <3>2, NewLoop
  <2> QED BY <2>1, <2>2, LoopMoves
<1>5. ASSUME NEW l \in Loops, Work!NextStep(l) PROVE WorkInv'
  <2>1. CASE Work!Advances(l)
    <3>1. loop' = [loop EXCEPT ![l] = [loop[l] EXCEPT !.at = "dump"]] /\ active' = active
      BY <1>0, <1>5, <2>1 DEF Work!NextStep, LoopPlaces
    <3>2. [loop[l] EXCEPT !.at = "dump"] \in LoopPlaces /\ Busy([loop[l] EXCEPT !.at = "dump"])
      BY <1>0 DEF LoopPlaces, Busy
    <3> QED BY <3>1, <3>2, LoopMoves
  <2>2. CASE ~Work!Advances(l)
    <3> DEFINE where == [loop[l] EXCEPT !.at = "task", !.task = @ + 1]
    <3>1. loop' = [loop EXCEPT ![l] = where] /\ active' = active
      BY <1>0, <1>5, <2>2 DEF Work!NextStep, LoopPlaces
    <3>2. where \in LoopPlaces
      BY LoopIs DEF LoopPlaces
    <3>3. Busy(where)
      BY LoopIs DEF LoopPlaces, Busy
    <3> QED BY <3>1, <3>2, <3>3, LoopMoves
  <2> QED BY <2>1, <2>2
<1>6. ASSUME NEW l \in Loops, Work!Finish(l) PROVE WorkInv'
  BY <1>0, <1>6 DEF Work!Finish, WorkInv, LoopPlaces
<1>7. ASSUME NEW l \in Loops, Work!Dump(l) PROVE WorkInv'
  <2> DEFINE where == IF loop[l].at = "dump" THEN [loop[l] EXCEPT !.at = "step", !.step = @ + 1] ELSE Work!Out
  <2>1. loop' = [loop EXCEPT ![l] = where] /\ active' = active /\ loop[l].at \in {"dump", "last dump"}
    BY <1>7 DEF Work!Dump
  <2>2. where \in LoopPlaces
    <3>1. [loop[l] EXCEPT !.at = "step", !.step = @ + 1] \in LoopPlaces
      BY LoopIs DEF LoopPlaces
    <3> QED BY <3>1, NewLoop
  <2>3. Busy(where) \/ ~Busy(loop[l])
    BY <1>0, <2>1 DEF LoopPlaces, Busy
  <2> QED BY <2>1, <2>2, <2>3, LoopMoves
<1> QED BY <1>1, <1>2, <1>3, <1>4, <1>5, <1>6, <1>7 DEF Work!Next, Work!Step

\* What the workflow promises of its loop.
LEMMA WorkHolds == WorkInv => Work!ActiveHasLoop
BY DEF WorkInv, Work!ActiveHasLoop, Work!Working, Busy

\* Where the workflow stands still, nothing changes for it.
LEMMA WorkStays == WorkInv /\ UNCHANGED workflowVars => WorkInv'
BY DEF WorkInv, workflowVars
-----------------------------------------------------------------------------
(* The services side by side.                                              *)

\* Of every service what its steps preserve.
IInv == StoreInv /\ ConfigInv /\ HealingInv /\ AlertInv /\ StatusInv /\ WorkInv

\* It holds at the beginning.
LEMMA IInvInit == Init => IInv
BY StoreInit, ConfigInit, HealingInit, AlertInit, StatusInit, WorkInit DEF Init, IInv

\* The service in focus takes a step, and the others stand still.
LEMMA IInvNext == IInv /\ [Next]_all => IInv'
<1> SUFFICES ASSUME IInv, [Next]_all PROVE IInv'
  OBVIOUS
<1> USE DEF IInv
<1>1. CASE InStore /\ Store!Next
  BY <1>1, StoreStep, ConfigStays, HealingStays, AlertStays, StatusStays, WorkStays
     DEF InStore, outside
<1>2. CASE InConfig /\ Config!Next
  BY <1>2, StoreStays, ConfigStep, HealingStays, AlertStays, StatusStays, WorkStays
     DEF InConfig, outside
<1>3. CASE InHealing /\ Healing!Next
  BY <1>3, StoreStays, ConfigStays, HealingStep, AlertStays, StatusStays, WorkStays
     DEF InHealing, outside
<1>4. CASE InAlerts /\ Alerts!Next
  BY <1>4, StoreStays, ConfigStays, HealingStays, AlertStep, StatusStays, WorkStays
     DEF InAlerts, inside
<1>5. CASE InStatus /\ Status!Next
  BY <1>5, StoreStays, ConfigStays, HealingStays, AlertStays, StatusStep, WorkStays
     DEF InStatus, inside
<1>6. CASE InWorkflow /\ Work!Next
  BY <1>6, StoreStays, ConfigStays, HealingStays, AlertStays, StatusStays, WorkStep
     DEF InWorkflow, inside
<1>7. CASE UNCHANGED all
  BY <1>7, StoreStays, ConfigStays, HealingStays, AlertStays, StatusStays, WorkStays
     DEF all, inside, outside
<1> QED BY <1>1, <1>2, <1>3, <1>4, <1>5, <1>6, <1>7 DEF Next

\* The invariant of the services is inductive.
THEOREM Invariance == Spec => []IInv
BY IInvInit, IInvNext, PTL DEF Spec

\* A copy differs from its original for a known reason only: a cached row of the store,
\* the configuration of the components, and the saved status of the processes.
THEOREM CopiesExplained == Spec => []CopiesAreExplained
<1>1. IInv => CopiesAreExplained
  BY StoreHolds, ConfigHolds, StatusHolds DEF IInv, CopiesAreExplained
<1> QED BY <1>1, Invariance, PTL

\* Neither a connection of the pool, nor a line that was read, nor an administrator who
\* is to be told gets lost.
THEOREM NothingLost == Spec => []NothingIsLost
<1>1. IInv => NothingIsLost
  BY StoreHolds, AlertHolds DEF IInv, NothingIsLost
<1> QED BY <1>1, Invariance, PTL

\* The number of restarts is bounded by the maximum and the threads, unless a count was
\* set back below what another thread had read, and an active workflow has a loop.
THEOREM ThreadsCounted == Spec => []ThreadsAreCounted
<1>1. IInv => ThreadsAreCounted
  BY HealingHolds, WorkHolds DEF IInv, ThreadsAreCounted
<1> QED BY <1>1, Invariance, PTL
=============================================================================
