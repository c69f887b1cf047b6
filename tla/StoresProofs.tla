------------------------------ MODULE StoresProofs ------------------------------
(***************************************************************************)
(* Proofs about Stores, for any callers, keys, shards and numbers: what    *)
(* the composition lets BufferPool, UserService, ShardedCounter,           *)
(* ShardedMap, TaskService, Shortener, LRUCache and ProcessMonitor do      *)
(* keeps the promise of each.  One inductive invariant per component, and  *)
(* what every step of the composition is to it at the end; there also what *)
(* FunctionsProofs shows of the pure functions.                            *)
(***************************************************************************)
EXTENDS Stores, FunctionsProofs

-----------------------------------------------------------------------------
(* BufferPool.  A buffer is new, in the pool or with one call, so what a   *)
(* call writes to its buffer no other call reads.                           *)

BufferShape ==
  /\ pool \subseteq Buffers /\ fresh \subseteq Buffers
  /\ content \in [Buffers -> {<<>>} \cup {<<d>> : d \in Inputs}]
  /\ call \in [Encoders -> {"out", "got", "encoded", "copied", "panicked"}]
  /\ input \in [Encoders -> Inputs \cup {"invalid"}]
  /\ buf \in [Encoders -> Buffers \cup {NoBuffer}]
  /\ DOMAIN result = Encoders

(* Whose each buffer is.                                                    *)
Owners ==
  /\ \A c \in Encoders : call[c] # "out" <=> buf[c] # NoBuffer
  /\ \A c \in Encoders : buf[c] # NoBuffer => buf[c] \notin pool \cup fresh
  /\ \A c, d \in Encoders : c # d /\ buf[c] # NoBuffer => buf[c] # buf[d]

(* What is in a buffer that has been written to, and in a result.           *)
Written ==
  \A c \in Encoders :
    /\ call[c] = "encoded" => content[buf[c]] = <<input[c]>>
    /\ call[c] = "copied" => result[c] = <<input[c]>>

BufferInv == BufferShape /\ Owners /\ Written

LEMMA BufferInit == BUF!Init => BufferInv
BY DEF BUF!Init, BufferInv, BufferShape, Owners, Written

LEMMA GetKeeps ==
  ASSUME BufferInv, NEW c \in Encoders, BUF!Get(c)
  PROVE  BufferInv'
<1> USE DEF BufferInv
<1>1. PICK b \in pool \cup fresh :
        /\ buf' = [buf EXCEPT ![c] = b]
        /\ pool' = pool \ {b} /\ fresh' = fresh \ {b}
  BY DEF BUF!Get
<1>2. PICK d \in Inputs \cup {"invalid"} : input' = [input EXCEPT ![c] = d]
  BY DEF BUF!Get
<1>3. BufferShape'
  BY <1>1, <1>2 DEF BufferShape, BUF!Get
<1>4. Owners'
  <2>1. b \in Buffers /\ b # NoBuffer /\ \A e \in Encoders : buf[e] # b
    BY <1>1, BufferAssumption DEF BufferShape, Owners
  <2>2. \A e \in Encoders : buf'[e] = IF e = c THEN b ELSE buf[e]
    BY <1>1 DEF BufferShape
  <2>3. \A e \in Encoders : call'[e] = IF e = c THEN "got" ELSE call[e]
    BY DEF BufferShape, BUF!Get
  <2>4. QED
    BY <1>1, <2>1, <2>2, <2>3 DEF Owners
<1>5. Written'
  BY <1>1, <1>2 DEF Written, BufferShape, BUF!Get
<1>6. QED
  BY <1>3, <1>4, <1>5

(* A call that writes to its buffer writes to nobody else's.                *)
LEMMA EncodeKeeps ==
  ASSUME BufferInv, NEW c \in Encoders, BUF!Encode(c) \/ BUF!Panic(c)
  PROVE  BufferInv'
<1> USE DEF BufferInv
<1>1. buf[c] \in Buffers /\ \A e \in Encoders \ {c} : buf[e] # buf[c]
  BY DEF BUF!Encode, BUF!Panic, BufferShape, Owners
<1>2. PICK text \in {<<>>} \cup {<<d>> : d \in Inputs} :
        content' = [content EXCEPT ![buf[c]] = text]
  <2>1. CASE BUF!Encode(c)
    <3>1. input[c] \in Inputs /\ content' = [content EXCEPT ![buf[c]] = <<input[c]>>]
      BY <2>1 DEF BUF!Encode, BufferShape
    <3>2. QED
      BY <3>1
  <2>2. CASE BUF!Panic(c)
    BY <2>2 DEF BUF!Panic
  <2>3. QED
    BY <2>1, <2>2
<1>3. BufferShape'
  BY <1>2 DEF BUF!Encode, BUF!Panic, BufferShape
<1>4. Owners'
  BY DEF BUF!Encode, BUF!Panic, BufferShape, Owners
<1>5. \A e \in Encoders \ {c} :
        /\ call'[e] = call[e]
        /\ call[e] = "encoded" => content'[buf[e]] = content[buf[e]]
  <2>1. \A e \in Encoders \ {c} : call'[e] = call[e]
    BY DEF BUF!Encode, BUF!Panic, BufferShape
  <2>2. \A e \in Encoders \ {c} : call[e] = "encoded" => buf[e] \in Buffers
    BY DEF BufferShape, Owners
  <2>3. QED
    BY <1>1, <1>2, <2>1, <2>2 DEF BufferShape
<1>6. call'[c] = "encoded" => content'[buf[c]] = <<input[c]>>
  BY <1>1 DEF BUF!Encode, BUF!Panic, BufferShape
<1>7. call'[c] # "copied"
  BY DEF BUF!Encode, BUF!Panic, BufferShape
<1>8. Written'
  <2>1. buf' = buf /\ input' = input /\ result' = result
    BY DEF BUF!Encode, BUF!Panic
  <2>2. QED
    BY <1>5, <1>6, <1>7, <2>1 DEF Written
<1>9. QED
  BY <1>3, <1>4, <1>8

LEMMA CopyKeeps ==
  ASSUME BufferInv, NEW c \in Encoders, BUF!Copy(c)
  PROVE  BufferInv'
<1> USE DEF BufferInv
<1>1. BufferShape'
  BY DEF BUF!Copy, BufferShape
<1>2. Owners'
  BY DEF BUF!Copy, BufferShape, Owners
<1>3. Written'
  BY DEF BUF!Copy, BufferShape, Written
<1>4. QED
  BY <1>1, <1>2, <1>3

LEMMA PutKeeps ==
  ASSUME BufferInv, NEW c \in Encoders, BUF!Put(c)
  PROVE  BufferInv'
<1> USE DEF BufferInv
<1>1. buf[c] \in Buffers /\ \A e \in Encoders \ {c} : buf[e] # buf[c]
  BY DEF BUF!Put, BufferShape, Owners
<1>2. BufferShape'
  BY <1>1 DEF BUF!Put, BufferShape
<1>3. \A e \in Encoders : /\ buf'[e] = IF e = c THEN NoBuffer ELSE buf[e]
                         /\ call'[e] = IF e = c THEN "out" ELSE call[e]
  BY DEF BUF!Put, BufferShape
<1>4. pool' = pool \cup {buf[c]} /\ fresh' = fresh
  BY DEF BUF!Put
<1>5. Owners'
  BY <1>1, <1>3, <1>4 DEF Owners
<1>6. Written'
  BY <1>3 DEF BUF!Put, Written
<1>7. QED
  BY <1>2, <1>5, <1>6

LEMMA CollectKeeps == BufferInv /\ BUF!Collect => BufferInv'
<1> SUFFICES ASSUME BufferInv, BUF!Collect PROVE BufferInv'
  OBVIOUS
<1> USE DEF BufferInv
<1>1. BufferShape'
  BY DEF BUF!Collect, BufferShape
<1>2. Owners'
  BY DEF BUF!Collect, Owners
<1>3. Written'
  <2>1. ASSUME NEW c \in Encoders, call[c] = "encoded"
        PROVE  content'[buf[c]] = content[buf[c]]
    <3>1. buf[c] \in Buffers /\ buf[c] \notin pool
      BY <2>1 DEF BufferShape, Owners
    <3>2. QED
      BY <3>1 DEF BUF!Collect
  <2>2. QED
    BY <2>1 DEF BUF!Collect, Written
<1>4. QED
  BY <1>1, <1>2, <1>3

LEMMA BufferStep == BufferInv /\ [BUF!Next]_(BUF!vars) => BufferInv'
<1> SUFFICES ASSUME BufferInv, [BUF!Next]_(BUF!vars) PROVE BufferInv'
  OBVIOUS
<1>1. CASE BUF!Next
  BY <1>1, GetKeeps, EncodeKeeps, CopyKeeps, PutKeeps, CollectKeeps DEF BUF!Next
<1>2. CASE UNCHANGED BUF!vars
  BY <1>2 DEF BUF!vars, BufferInv, BufferShape, Owners, Written
<1>3. QED
  BY <1>1, <1>2

LEMMA BufferSafe == BufferInv => OwnBuffer
BY DEF BufferInv, Owners, Written, OwnBuffer, BUF!OwnBuffer

-----------------------------------------------------------------------------
(* UserService.                                                            *)

(* The ids go up, so Create writes over no user it has made; whom it has    *)
(* made has taken the email.                                                *)
UserInv ==
  /\ nextID \in Nat /\ nextID > 0
  /\ \A u \in created :
       /\ u.id \in Nat /\ u.id < nextID
       /\ u.id \in DOMAIN users /\ users[u.id] = u
       /\ u.email \in taken
  /\ \A u, v \in created : u # v => u.id # v.id /\ u.email # v.email
  /\ \A id \in DOMAIN users : users[id] \in created \cup {USR!Seed}

LEMMA UserInit == USR!Init => UserInv
<1> SUFFICES ASSUME USR!Init PROVE UserInv
  OBVIOUS
<1>1. nextID = 1 /\ created = {}
  BY DEF USR!Init
<1>2. ASSUME NEW id \in DOMAIN users PROVE users[id] = USR!Seed
  <2>1. CASE users = <<>>
    BY <1>2, <2>1
  <2>2. CASE users = <<USR!Seed>>
    <3>1. DOMAIN <<USR!Seed>> = {1} /\ <<USR!Seed>>[1] = USR!Seed
      OBVIOUS
    <3>2. QED
      BY <1>2, <2>2, <3>1, Zenon
  <2>3. QED
    BY <2>1, <2>2 DEF USR!Init
<1>3. QED
  BY <1>1, <1>2 DEF UserInv

LEMMA CreateKeeps ==
  ASSUME UserInv, NEW name, NEW email, USR!Create(name, email)
  PROVE  UserInv'
<1> DEFINE u == [id |-> nextID, name |-> name, email |-> email]
<1>1. /\ email \notin taken
      /\ users' = [id \in DOMAIN users \cup {nextID} |-> IF id = nextID THEN u ELSE users[id]]
      /\ created' = created \cup {u}
      /\ nextID' = nextID + 1 /\ taken' = taken \cup {email}
  BY DEF USR!Create
<1>2. u.id = nextID /\ u.email = email
  OBVIOUS
<1> HIDE DEF u
<1>3. nextID \in Nat /\ nextID > 0 /\ nextID' \in Nat /\ nextID' > 0 /\ nextID < nextID'
  BY <1>1 DEF UserInv
<1>4. \A v \in created : /\ v.id \in Nat /\ v.id < nextID /\ v.id # nextID
                         /\ v.id \in DOMAIN users /\ users[v.id] = v
                         /\ v.email \in taken /\ v.email # email
  BY <1>1, <1>3 DEF UserInv
<1>5. ASSUME NEW v \in created'
      PROVE  /\ v.id \in Nat /\ v.id < nextID'
             /\ v.id \in DOMAIN users' /\ users'[v.id] = v
             /\ v.email \in taken'
  <2>1. CASE v = u
    BY <1>1, <1>2, <1>3, <2>1
  <2>2. CASE v \in created
    <3>1. v.id < nextID'
      BY <1>3, <1>4, <2>2
    <3>2. QED
      BY <1>1, <1>4, <2>2, <3>1
  <2>3. QED
    BY <1>1, <2>1, <2>2
<1>6. ASSUME NEW v \in created', NEW w \in created', v # w
      PROVE  v.id # w.id /\ v.email # w.email
  <2>1. CASE v = u
    BY <1>1, <1>2, <1>4, <1>6, <2>1
  <2>2. CASE w = u
    BY <1>1, <1>2, <1>4, <1>6, <2>2
  <2>3. CASE v \in created /\ w \in created
    BY <1>6, <2>3 DEF UserInv
  <2>4. QED
    BY <1>1, <2>1, <2>2, <2>3
<1>7. \A id \in DOMAIN users' : users'[id] \in created' \cup {USR!Seed}
  BY <1>1 DEF UserInv
<1>8. QED
  BY <1>3, <1>5, <1>6, <1>7 DEF UserInv

LEMMA UserStep == UserInv /\ [USR!Next]_(USR!vars) => UserInv'
<1> SUFFICES ASSUME UserInv, [USR!Next]_(USR!vars) PROVE UserInv'
  OBVIOUS
<1>1. CASE UNCHANGED <<users, taken, nextID, created>>
  BY <1>1 DEF UserInv
<1>2. \/ UNCHANGED <<users, taken, nextID, created>>
      \/ \E name \in Names, email \in Emails : USR!Create(name, email)
  BY DEF USR!Next, USR!vars, USR!SetForceError, USR!GetByID, USR!CreateRefused
<1>3. QED
  BY <1>1, <1>2, CreateKeeps

LEMMA UserSafe == UserInv => UsersKept
<1> SUFFICES ASSUME UserInv PROVE USR!UsersKept
  BY DEF UsersKept
<1>1. {users[id] : id \in DOMAIN users} \subseteq created \cup {USR!Seed}
  BY DEF UserInv
<1>2. QED
  BY <1>1 DEF UserInv, USR!UsersKept

-----------------------------------------------------------------------------
(* ShardedCounter.  The Incs that are done are parted by the shard they    *)
(* have picked; a Value has been through the shards before the one it is    *)
(* to load.                                                                 *)

CountShape ==
  /\ kind \in {"sharded", "single"}
  /\ cells \in [CNT!Index -> Nat] /\ turn \in Nat
  /\ inc \in [Incs -> {"new", "picked", "done"}]
  /\ pick \in [Incs -> CNT!Index]
  /\ loaded \in [Readers -> {-1} \cup 0..Shards]
  /\ sum \in [Readers -> Nat] /\ floor \in [Readers -> Nat]

(* The Incs that are done, by the shard they have picked.                   *)
In(k) == {c \in CNT!Done : pick[c] = k}
Before(k) == {c \in CNT!Done : pick[c] < k}
From(k) == {c \in CNT!Done : k <= pick[c]}

(* A cell counts its Incs.                                                  *)
CellsCount ==
  /\ \A k \in CNT!Index : cells[k] = Cardinality(In(k))
  /\ kind = "single" => \A c \in Incs : pick[c] = 0

(* A Value has no more than is in the shards behind it, and what it must    *)
(* still return is in the shards before it.                                 *)
BetweenBounds ==
  \A r \in Readers :
    /\ loaded[r] = -1 => sum[r] = 0
    /\ loaded[r] # -1 =>
         /\ sum[r] <= Cardinality(Before(loaded[r]))
         /\ floor[r] <= sum[r] + Cardinality(From(loaded[r]))

CountInv == CountShape /\ CellsCount /\ BetweenBounds

LEMMA CntCardinality == \A S : CNT!Cardinality(S) = Cardinality(S)
BY DEF CNT!Cardinality, Cardinality

(* The counts of subsets of the Incs that are done.                         *)
LEMMA CountsOf ==
  ASSUME CountShape, NEW S, S \subseteq CNT!Done
  PROVE  IsFiniteSet(S) /\ Cardinality(S) \in Nat /\ Cardinality(S) <= Cardinality(CNT!Done)
<1>1. CNT!Done \subseteq Incs
  BY DEF CNT!Done
<1>2. IsFiniteSet(CNT!Done)
  BY <1>1, CounterAssumption, FS_Subset
<1>3. QED
  BY <1>2, FS_Subset, FS_CardinalityType

LEMMA AtTheEnds ==
  ASSUME CountShape
  PROVE  /\ Before(Shards) = CNT!Done /\ From(Shards) = {} /\ Cardinality(From(Shards)) = 0
         /\ From(0) = CNT!Done /\ Before(0) = {} /\ Cardinality(Before(0)) = 0
<1>1. \A c \in CNT!Done : pick[c] \in Nat /\ pick[c] < Shards
  BY CounterAssumption DEF CountShape, CNT!Done, CNT!Index
<1>2. Shards \in Nat
  BY CounterAssumption
<1>3. Before(Shards) = CNT!Done /\ From(0) = CNT!Done
  BY <1>1 DEF Before, From
<1>4. From(Shards) = {} /\ Before(0) = {}
  BY <1>1, <1>2 DEF Before, From
<1>5. QED
  BY <1>3, <1>4, FS_EmptySet

(* The next shard goes from the ones before to the ones behind.             *)
LEMMA NextShard ==
  ASSUME CountShape, NEW k \in CNT!Index
  PROVE  /\ Cardinality(Before(k + 1)) = Cardinality(Before(k)) + Cardinality(In(k))
         /\ Cardinality(From(k)) = Cardinality(In(k)) + Cardinality(From(k + 1))
         /\ Cardinality(In(k)) \in Nat
         /\ Cardinality(Before(k)) \in Nat /\ Cardinality(From(k + 1)) \in Nat
<1>1. k \in Nat /\ \A c \in CNT!Done : pick[c] \in Nat
  BY CounterAssumption DEF CountShape, CNT!Done, CNT!Index
<1>2. /\ Before(k + 1) = Before(k) \cup In(k) /\ Before(k) \cap In(k) = {}
      /\ From(k) = In(k) \cup From(k + 1) /\ In(k) \cap From(k + 1) = {}
  BY <1>1 DEF Before, In, From
<1>3. /\ IsFiniteSet(Before(k)) /\ IsFiniteSet(In(k)) /\ IsFiniteSet(From(k + 1))
      /\ Cardinality(Before(k)) \in Nat /\ Cardinality(In(k)) \in Nat
      /\ Cardinality(From(k + 1)) \in Nat
  <2>1. Before(k) \subseteq CNT!Done /\ In(k) \subseteq CNT!Done /\ From(k + 1) \subseteq CNT!Done
    BY DEF Before, In, From
  <2>2. QED
    BY <2>1, CountsOf
<1>4. Cardinality({}) = 0
  BY FS_EmptySet
<1>5. Cardinality(Before(k) \cup In(k)) = Cardinality(Before(k)) + Cardinality(In(k)) - Cardinality({})
  BY <1>2, <1>3, FS_Union
<1>6. Cardinality(In(k) \cup From(k + 1)) = Cardinality(In(k)) + Cardinality(From(k + 1)) - Cardinality({})
  BY <1>2, <1>3, FS_Union
<1>7. /\ Cardinality(Before(k + 1)) = Cardinality(Before(k)) + Cardinality(In(k)) - 0
      /\ Cardinality(From(k)) = Cardinality(In(k)) + Cardinality(From(k + 1)) - 0
  BY <1>2, <1>4, <1>5, <1>6, Zenon
<1>8. QED
  BY <1>3, <1>7

LEMMA CountInit == CNT!Init => CountInv
<1> SUFFICES ASSUME CNT!Init PROVE CountInv
  OBVIOUS
<1>1. CountShape
  BY CounterAssumption DEF CNT!Init, CountShape, CNT!Index
<1>2. CNT!Done = {}
  BY DEF CNT!Init, CNT!Done
<1>3. \A k : In(k) = {}
  BY <1>2 DEF In
<1>4. CellsCount
  BY <1>3, FS_EmptySet DEF CNT!Init, CellsCount
<1>5. BetweenBounds
  BY DEF CNT!Init, BetweenBounds
<1>6. QED
  BY <1>1, <1>4, <1>5 DEF CountInv

(* An Inc that is done adds one to the cell it picked and takes nothing     *)
(* from what the Values count on.                                           *)
LEMMA DoneAdds ==
  ASSUME CountInv, NEW c \in Incs, inc[c] # "done", inc' = [inc EXCEPT ![c] = "done"],
         cells' = [cells EXCEPT ![pick[c]] = @ + 1],
         UNCHANGED <<kind, turn, pick, loaded, sum, floor>>
  PROVE  CountInv'
<1>1. CountShape'
  BY DEF CountInv, CountShape
<1>2. CNT!Done' = CNT!Done \cup {c} /\ c \notin CNT!Done
  BY DEF CountInv, CountShape, CNT!Done
<1>3. \A k : /\ In(k)' = IF pick[c] = k THEN In(k) \cup {c} ELSE In(k)
             /\ c \notin In(k)
             /\ In(k) \subseteq CNT!Done
  BY <1>2 DEF In
<1>4. \A k : IsFiniteSet(In(k)) /\ Cardinality(In(k)) \in Nat
  BY <1>3, CountsOf DEF CountInv
<1>5. CellsCount'
  <2>1. ASSUME NEW k \in CNT!Index PROVE cells'[k] = Cardinality(In(k)')
    <3>1. CASE pick[c] = k
      <4>1. Cardinality(In(k) \cup {c}) = Cardinality(In(k)) + 1
        BY <1>3, <1>4, FS_AddElement
      <4>2. cells'[k] = cells[k] + 1
        BY <3>1 DEF CountInv, CountShape
      <4>3. In(k)' = In(k) \cup {c}
        BY <1>3, <3>1
      <4>4. QED
        BY <4>1, <4>2, <4>3 DEF CountInv, CellsCount
    <3>2. CASE pick[c] # k
      <4>1. In(k)' = In(k)
        BY <1>3, <3>2
      <4>2. cells'[k] = cells[k]
        BY <3>2 DEF CountInv, CountShape
      <4>3. QED
        BY <4>1, <4>2 DEF CountInv, CellsCount
    <3>3. QED
      BY <3>1, <3>2
  <2>2. CNT!Index' = CNT!Index
    BY DEF CNT!Index
  <2>3. QED
    BY <2>1, <2>2 DEF CountInv, CellsCount
<1>6. ASSUME NEW k
      PROVE  /\ Cardinality(Before(k)) <= Cardinality(Before(k)')
             /\ Cardinality(From(k)) <= Cardinality(From(k)')
             /\ Cardinality(Before(k)) \in Nat /\ Cardinality(Before(k)') \in Nat
             /\ Cardinality(From(k)) \in Nat /\ Cardinality(From(k)') \in Nat
  <2>1. IsFiniteSet(CNT!Done \cup {c})
    BY <1>2, CountsOf, FS_AddElement DEF CountInv
  <2>2. /\ Before(k) \subseteq Before(k)' /\ Before(k)' \subseteq CNT!Done \cup {c}
        /\ From(k) \subseteq From(k)' /\ From(k)' \subseteq CNT!Done \cup {c}
    BY <1>2 DEF Before, From
  <2>3. IsFiniteSet(Before(k)') /\ IsFiniteSet(From(k)')
    BY <2>1, <2>2, FS_Subset
  <2>4. QED
    BY <2>2, <2>3, FS_Subset, FS_CardinalityType
<1>7. BetweenBounds'
  <2> SUFFICES ASSUME NEW r \in Readers
               PROVE  /\ loaded[r] = -1 => sum[r] = 0
                      /\ loaded[r] # -1 =>
                           /\ sum[r] <= Cardinality(Before(loaded[r])')
                           /\ floor[r] <= sum[r] + Cardinality(From(loaded[r])')
    BY DEF BetweenBounds, Before, From
  <2>1. sum[r] \in Nat /\ floor[r] \in Nat
    BY DEF CountInv, CountShape
  <2>2. QED
    BY <1>6, <2>1 DEF CountInv, BetweenBounds
<1>8. QED
  BY <1>1, <1>5, <1>7 DEF CountInv

(* What a Value must return is no more than the Incs that are done.         *)
LEMMA FloorReached ==
  ASSUME CountInv
  PROVE  CNT!Max({CNT!Cardinality(CNT!Done)} \cup {sum[q] : q \in CNT!Returned})
           = Cardinality(CNT!Done)
<1> DEFINE m == Cardinality(CNT!Done)
           T == {m} \cup {sum[q] : q \in CNT!Returned}
<1>1. m \in Nat
  BY CountsOf DEF CountInv
<1>2. ASSUME NEW q \in CNT!Returned PROVE sum[q] \in Nat /\ sum[q] <= m
  <2>1. q \in Readers /\ loaded[q] = Shards /\ Shards # -1
    BY CounterAssumption DEF CNT!Returned
  <2>2. QED
    BY <2>1, AtTheEnds DEF CountInv, CountShape, BetweenBounds
<1> HIDE DEF m
<1>3. m \in T /\ \A x \in T : x \in Nat /\ m >= x
  BY <1>1, <1>2
<1>4. T = {CNT!Cardinality(CNT!Done)} \cup {sum[q] : q \in CNT!Returned}
  BY CntCardinality DEF m
<1> HIDE DEF T
<1>5. \A x \in T : (\A y \in T : x >= y) => x = m
  BY <1>3
<1>6. CNT!Max(T) = m
  BY <1>3, <1>5 DEF CNT!Max
<1>7. QED
  BY <1>4, <1>6 DEF m

LEMMA CountStep == CountInv /\ [CNT!Next]_(CNT!vars) => CountInv'
<1> SUFFICES ASSUME CountInv, [CNT!Next]_(CNT!vars) PROVE CountInv'
  OBVIOUS
<1>1. ASSUME NEW c \in Incs, CNT!IncPicks(c)
      PROVE  CountInv'
  <2>1. /\ kind = "sharded" /\ inc[c] = "new" /\ turn' = turn + 1
        /\ pick' = [pick EXCEPT ![c] = turn' % Shards]
        /\ inc' = [inc EXCEPT ![c] = "picked"]
        /\ UNCHANGED <<kind, cells, loaded, sum, floor>>
    BY <1>1 DEF CNT!IncPicks
  <2>2. turn' \in Nat /\ turn' % Shards \in CNT!Index
    BY <2>1, CounterAssumption DEF CountInv, CountShape, CNT!Index
  <2> DEFINE p == turn' % Shards
  <2> HIDE DEF p
  <2>3. pick' = [pick EXCEPT ![c] = p] /\ p \in CNT!Index
    BY <2>1, <2>2 DEF p
  <2>4. CountShape'
    BY <2>1, <2>2, <2>3 DEF CountInv, CountShape
  <2>5. CNT!Done' = CNT!Done /\ \A d \in CNT!Done : pick'[d] = pick[d]
    BY <2>1, <2>3 DEF CountInv, CountShape, CNT!Done
  <2>6. \A k : In(k)' = In(k) /\ Before(k)' = Before(k) /\ From(k)' = From(k)
    BY <2>5 DEF In, Before, From
  <2>7. CellsCount'
    BY <2>1, <2>6 DEF CountInv, CellsCount, CNT!Index
  <2>8. BetweenBounds'
    <3>1. /\ \A k : {d \in CNT!Done' : pick'[d] < k} = Before(k)
          /\ \A k : {d \in CNT!Done' : k <= pick'[d]} = From(k)
      BY <2>5 DEF Before, From
    <3>2. QED
      BY <2>1, <3>1 DEF CountInv, BetweenBounds, Before, From
  <2>9. QED
    BY <2>4, <2>7, <2>8 DEF CountInv
<1>2. ASSUME NEW c \in Incs, CNT!IncAdds(c) \/ CNT!SingleInc(c)
      PROVE  CountInv'
  <2>1. CNT!SingleInc(c) => pick[c] = 0
    BY DEF CNT!SingleInc, CountInv, CellsCount
  <2>2. /\ inc[c] # "done" /\ inc' = [inc EXCEPT ![c] = "done"]
        /\ cells' = [cells EXCEPT ![pick[c]] = @ + 1]
        /\ UNCHANGED <<kind, turn, pick, loaded, sum, floor>>
    BY <1>2, <2>1 DEF CNT!IncAdds, CNT!SingleInc
  <2>3. QED
    BY <2>2, DoneAdds
<1>3. ASSUME NEW r \in Readers,
             CNT!ValueBegins(r) \/ CNT!ValueLoads(r) \/ CNT!SingleValue(r)
      PROVE  CountInv'
  <2>1. UNCHANGED <<kind, cells, turn, inc, pick>>
    BY <1>3 DEF CNT!ValueBegins, CNT!ValueLoads, CNT!SingleValue
  <2>2. CNT!Done' = CNT!Done /\ CellsCount'
    BY <2>1 DEF CountInv, CellsCount, In, CNT!Done, CNT!Index
  <2> DEFINE Bounds(l, s, f) ==
               /\ l = -1 => s = 0
               /\ l # -1 => s <= Cardinality(Before(l)) /\ f <= s + Cardinality(From(l))
  <2>3. \A q \in Readers : Bounds(loaded[q], sum[q], floor[q])
    BY DEF CountInv, BetweenBounds
  <2>4. Cardinality(CNT!Done) \in Nat
    BY CountsOf DEF CountInv
  <2>5. PICK l \in {-1} \cup 0..Shards, s \in Nat, f \in Nat :
          /\ loaded' = [loaded EXCEPT ![r] = l]
          /\ sum' = [sum EXCEPT ![r] = s]
          /\ floor' = [floor EXCEPT ![r] = f]
          /\ Bounds(l, s, f)
    <3>1. CASE CNT!ValueBegins(r)
      <4>1. /\ loaded[r] = -1 /\ loaded' = [loaded EXCEPT ![r] = 0]
            /\ floor' = [floor EXCEPT ![r] = Cardinality(CNT!Done)]
            /\ sum' = sum
        BY <3>1, FloorReached DEF CNT!ValueBegins, CNT!FirstCell
      <4>2. sum[r] = 0 /\ sum' = [sum EXCEPT ![r] = 0]
        BY <4>1 DEF CountInv, CountShape, BetweenBounds
      <4>3. Cardinality(Before(0)) = 0 /\ From(0) = CNT!Done
        BY AtTheEnds DEF CountInv
      <4>4. Bounds(0, 0, Cardinality(CNT!Done))
        BY <2>4, <4>3
      <4> HIDE DEF Bounds
      <4>5. 0 \in {-1} \cup 0..Shards /\ 0 \in Nat
        BY CounterAssumption
      <4>6. QED
        BY <2>4, <4>1, <4>2, <4>4, <4>5
    <3>2. CASE CNT!ValueLoads(r)
      <4> DEFINE k == loaded[r]
      <4>1. /\ k \in CNT!Index /\ k \in Nat /\ k # -1 /\ k < Shards
            /\ sum' = [sum EXCEPT ![r] = sum[r] + cells[k]]
            /\ loaded' = [loaded EXCEPT ![r] = k + 1]
            /\ floor' = floor
        BY <3>2, CounterAssumption DEF CNT!ValueLoads, CNT!Index
      <4>2. sum[r] \in Nat /\ floor[r] \in Nat /\ floor' = [floor EXCEPT ![r] = floor[r]]
        BY <4>1 DEF CountInv, CountShape
      <4>3. cells[k] = Cardinality(In(k))
        BY <4>1 DEF CountInv, CellsCount
      <4>4. sum[r] <= Cardinality(Before(k)) /\ floor[r] <= sum[r] + Cardinality(From(k))
        BY <2>3, <4>1
      <4> HIDE DEF k
      <4>5. /\ Cardinality(Before(k + 1)) = Cardinality(Before(k)) + Cardinality(In(k))
            /\ Cardinality(From(k)) = Cardinality(In(k)) + Cardinality(From(k + 1))
            /\ Cardinality(In(k)) \in Nat
            /\ Cardinality(Before(k)) \in Nat /\ Cardinality(From(k + 1)) \in Nat
        BY <4>1, NextShard DEF CountInv
      <4>6. Bounds(k + 1, sum[r] + cells[k], floor[r])
        BY <4>1, <4>2, <4>3, <4>4, <4>5
      <4> HIDE DEF Bounds
      <4>7. k + 1 \in {-1} \cup 0..Shards /\ sum[r] + cells[k] \in Nat
        BY <4>1, <4>2, <4>3, <4>5, CounterAssumption
      <4>8. QED
        BY <4>1, <4>2, <4>6, <4>7
    <3>3. CASE CNT!SingleValue(r)
      <4>1. /\ kind = "single" /\ loaded' = [loaded EXCEPT ![r] = Shards]
            /\ sum' = [sum EXCEPT ![r] = cells[0]]
            /\ floor' = [floor EXCEPT ![r] = Cardinality(CNT!Done)]
        BY <3>3, FloorReached DEF CNT!SingleValue
      <4>2. In(0) = CNT!Done /\ 0 \in CNT!Index
        BY <4>1, CounterAssumption DEF CountInv, CellsCount, In, CNT!Done, CNT!Index
      <4>3. cells[0] = Cardinality(CNT!Done)
        BY <4>2 DEF CountInv, CellsCount
      <4>4. Before(Shards) = CNT!Done /\ Cardinality(From(Shards)) = 0 /\ Shards # -1
        BY AtTheEnds, CounterAssumption DEF CountInv
      <4>5. Bounds(Shards, Cardinality(CNT!Done), Cardinality(CNT!Done))
        BY <2>4, <4>4
      <4> HIDE DEF Bounds
      <4>6. Shards \in {-1} \cup 0..Shards
        BY CounterAssumption
      <4>7. QED
        BY <2>4, <4>1, <4>3, <4>5, <4>6
    <3>4. QED
      BY <1>3, <3>1, <3>2, <3>3
  <2>6. CountShape'
    BY <2>1, <2>5 DEF CountInv, CountShape, CNT!Index
  <2>7. \A q \in Readers : Bounds(loaded'[q], sum'[q], floor'[q])
    <3> HIDE DEF Bounds
    <3>1. QED
      BY <2>3, <2>5 DEF CountInv, CountShape
  <2>8. BetweenBounds'
    <3>1. \A k : Before(k)' = Before(k) /\ From(k)' = From(k)
      BY <2>1, <2>2 DEF Before, From
    <3>2. QED
      BY <2>1, <2>2, <2>7 DEF BetweenBounds, Before, From
  <2>9. QED
    BY <2>2, <2>6, <2>8 DEF CountInv
<1>4. CASE UNCHANGED CNT!vars
  BY <1>4 DEF CNT!vars, CountInv, CountShape, CellsCount, BetweenBounds, In, Before, From,
              CNT!Done, CNT!Index
<1>5. QED
  BY <1>1, <1>2, <1>3, <1>4 DEF CNT!Next

LEMMA CountSafe == CountInv => ValueInBounds
<1> SUFFICES ASSUME CountInv, NEW r \in CNT!Returned
             PROVE  floor[r] <= sum[r] /\ sum[r] <= CNT!Cardinality(CNT!Done)
  BY DEF ValueInBounds, CNT!ValueInBounds
<1>1. r \in Readers /\ loaded[r] = Shards /\ Shards # -1
  BY CounterAssumption DEF CNT!Returned
<1>2. Cardinality(From(Shards)) = 0 /\ Before(Shards) = CNT!Done
  BY AtTheEnds DEF CountInv
<1>3. sum[r] \in Nat /\ floor[r] \in Nat
  BY <1>1 DEF CountInv, CountShape
<1>4. sum[r] <= Cardinality(CNT!Done) /\ floor[r] <= sum[r] + 0
  BY <1>1, <1>2 DEF CountInv, BetweenBounds
<1>5. QED
  BY <1>3, <1>4, CntCardinality

-----------------------------------------------------------------------------
(* ShardedMap.  A key belongs to one shard, so what Len and Range have been *)
(* through is what belongs to the shards before the one they are at.        *)

MapShape ==
  /\ \A i \in MAP!Index :
       /\ DOMAIN shards[i] \subseteq {k \in MapKeys : MAP!getShard(k) = i}
       /\ \A k \in DOMAIN shards[i] : shards[i][k] \in MapValues
  /\ DOMAIN shards = MAP!Index
  /\ scan \in {"none", "len", "range", "stopped"}
  /\ at \in 0..ShardCount
  /\ held => scan = "range" /\ at \in MAP!Index
  /\ total \in Nat
  /\ seen \in Seq(MapKeys \X MapValues)

(* What the history says of the scan: which pairs it may and must come to.  *)
Meanwhile ==
  scan # "none" => throughout \subseteq MAP!Contents /\ MAP!Contents \subseteq everIn
                   /\ \A p \in everIn : p[1] \in MapKeys

(* The keys of pairs in the shards before i, and those in shard i.          *)
KeysBefore(pairs, i) ==
  {k \in MapKeys : MAP!getShard(k) < i /\ \E p \in pairs : p[1] = k}
KeysAt(pairs, i) ==
  {k \in MapKeys : MAP!getShard(k) = i /\ \E p \in pairs : p[1] = k}

(* Len has counted what it must and not more than it may of the shards it   *)
(* has been through.                                                        *)
Counting ==
  scan = "len" => /\ Cardinality(KeysBefore(throughout, at)) <= total
                  /\ total <= Cardinality(KeysBefore(everIn, at))

(* Range has called f for the shards it has been through and, while it      *)
(* holds the lock of one, for pairs that are still there.                   *)
Calling ==
  scan \in {"range", "stopped"} =>
    /\ \A i, j \in DOMAIN seen : seen[i][1] = seen[j][1] => i = j
    /\ \A i \in DOMAIN seen : seen[i] \in everIn
    /\ scan = "range" =>
         /\ \A i \in DOMAIN seen :
              \/ MAP!getShard(seen[i][1]) < at
              \/ held /\ seen[i] \in MAP!Pairs(shards[at])
         /\ \A p \in throughout :
              MAP!getShard(p[1]) < at => \E i \in DOMAIN seen : seen[i] = p

MapInv == MapShape /\ Meanwhile /\ Counting /\ Calling

LEMMA MapCardinality == \A S : MAP!Cardinality(S) = Cardinality(S)
BY DEF MAP!Cardinality, Cardinality

LEMMA ShardOf == \A k \in MapKeys : MAP!getShard(k) \in MAP!Index /\ MAP!getShard(k) \in Nat
<1>1. TAKE k \in MapKeys
<1>2. HashOf[k] \in Nat /\ ShardCount \in Nat \ {0}
  BY MapAssumption
<1>3. HashOf[k] % ShardCount \in 0..(ShardCount - 1)
  BY <1>2
<1>4. QED
  BY <1>3 DEF MAP!getShard, MAP!Index

(* A pair of the map is in the shard of its key.                            *)
LEMMA PairsThere ==
  ASSUME MapShape
  PROVE  /\ \A p \in MAP!Contents : /\ p[1] \in MapKeys
                                    /\ MAP!getShard(p[1]) \in MAP!Index
                                    /\ p \in MAP!Pairs(shards[MAP!getShard(p[1])])
         /\ \A i \in MAP!Index : \A p \in MAP!Pairs(shards[i]) :
              /\ p[1] \in DOMAIN shards[i] /\ p[1] \in MapKeys
              /\ MAP!getShard(p[1]) = i /\ p \in MAP!Contents
              /\ p = <<p[1], shards[i][p[1]]>>
<1>1. ASSUME NEW i \in MAP!Index, NEW p \in MAP!Pairs(shards[i])
      PROVE  /\ p[1] \in DOMAIN shards[i] /\ p[1] \in MapKeys
             /\ MAP!getShard(p[1]) = i /\ p \in MAP!Contents
             /\ p = <<p[1], shards[i][p[1]]>>
  <2>1. PICK k \in DOMAIN shards[i] : p = <<k, shards[i][k]>>
    BY <1>1 DEF MAP!Pairs
  <2>2. p[1] = k
    BY <2>1
  <2>3. k \in MapKeys /\ MAP!getShard(k) = i
    BY <2>1 DEF MapShape
  <2>4. p \in MAP!Contents
    BY <1>1 DEF MAP!Contents
  <2>5. QED
    BY <2>1, <2>2, <2>3, <2>4
<1>2. ASSUME NEW p \in MAP!Contents
      PROVE  /\ p[1] \in MapKeys
             /\ MAP!getShard(p[1]) \in MAP!Index
             /\ p \in MAP!Pairs(shards[MAP!getShard(p[1])])
  <2>1. PICK i \in MAP!Index : p \in MAP!Pairs(shards[i])
    BY DEF MAP!Contents
  <2>2. QED
    BY <1>1, <2>1
<1>3. QED
  BY <1>1, <1>2

(* The sets of keys that Len counts.                                        *)
LEMMA KeysFinite ==
  \A pairs, i : /\ IsFiniteSet(KeysBefore(pairs, i)) /\ Cardinality(KeysBefore(pairs, i)) \in Nat
                /\ IsFiniteSet(KeysAt(pairs, i)) /\ Cardinality(KeysAt(pairs, i)) \in Nat
<1>1. TAKE pairs, i
<1>2. KeysBefore(pairs, i) \subseteq MapKeys /\ KeysAt(pairs, i) \subseteq MapKeys
  BY DEF KeysBefore, KeysAt
<1>3. IsFiniteSet(MapKeys)
  BY MapAssumption
<1>4. QED
  BY <1>2, <1>3, FS_Subset, FS_CardinalityType

LEMMA MoreKeys ==
  ASSUME NEW P, NEW Q, P \subseteq Q, NEW i
  PROVE  /\ Cardinality(KeysBefore(P, i)) <= Cardinality(KeysBefore(Q, i))
         /\ Cardinality(KeysAt(P, i)) <= Cardinality(KeysAt(Q, i))
<1>1. KeysBefore(P, i) \subseteq KeysBefore(Q, i) /\ KeysAt(P, i) \subseteq KeysAt(Q, i)
  BY DEF KeysBefore, KeysAt
<1>2. QED
  BY <1>1, KeysFinite, FS_Subset

LEMMA KeysOfNext ==
  ASSUME NEW P, NEW i \in Nat
  PROVE  Cardinality(KeysBefore(P, i + 1)) = Cardinality(KeysBefore(P, i)) + Cardinality(KeysAt(P, i))
<1>1. /\ KeysBefore(P, i + 1) = KeysBefore(P, i) \cup KeysAt(P, i)
      /\ KeysBefore(P, i) \cap KeysAt(P, i) = {}
  BY ShardOf DEF KeysBefore, KeysAt
<1>2. Cardinality(KeysBefore(P, i + 1))
        = Cardinality(KeysBefore(P, i)) + Cardinality(KeysAt(P, i)) - Cardinality({})
  BY <1>1, KeysFinite, FS_Union
<1>3. Cardinality({}) = 0
  BY FS_EmptySet
<1>4. Cardinality(KeysBefore(P, i)) \in Nat /\ Cardinality(KeysAt(P, i)) \in Nat
  BY KeysFinite
<1>5. QED
  BY <1>2, <1>3, <1>4

LEMMA NoKeys == \A P : KeysBefore(P, 0) = {} /\ Cardinality(KeysBefore(P, 0)) = 0
<1>1. TAKE P
<1>2. KeysBefore(P, 0) = {}
  BY ShardOf DEF KeysBefore
<1>3. QED
  BY <1>2, FS_EmptySet

LEMMA MapInit == MAP!Init => MapInv
<1> SUFFICES ASSUME MAP!Init PROVE MapInv
  OBVIOUS
<1>1. MapShape
  BY MapAssumption DEF MAP!Init, MapShape
<1>2. QED
  BY <1>1 DEF MAP!Init, MapInv, Meanwhile, Counting, Calling

(* Whatever a writer does to the map of one shard, as long as it has the    *)
(* lock and leaves the keys where they belong.                              *)
LEMMA WriteKeeps ==
  ASSUME MapInv, NEW i \in MAP!Index, NEW m,
         DOMAIN m \subseteq {k \in MapKeys : MAP!getShard(k) = i},
         \A k \in DOMAIN m : m[k] \in MapValues,
         MAP!MayWrite(i), MAP!Note, shards' = [shards EXCEPT ![i] = m],
         UNCHANGED <<scan, at, held, total, seen>>
  PROVE  MapInv'
<1>1. MapShape /\ Meanwhile /\ Counting /\ Calling
  BY DEF MapInv
<1>2. MapShape'
  <2>1. \A j \in MAP!Index : shards'[j] = IF j = i THEN m ELSE shards[j]
    BY <1>1 DEF MapShape
  <2>2. DOMAIN shards' = MAP!Index
    BY <1>1 DEF MapShape
  <2>3. ASSUME NEW j \in MAP!Index
        PROVE  /\ DOMAIN shards'[j] \subseteq {k \in MapKeys : MAP!getShard(k) = j}
               /\ \A k \in DOMAIN shards'[j] : shards'[j][k] \in MapValues
    <3>1. CASE j = i
      BY <2>1, <3>1
    <3>2. CASE j # i
      BY <1>1, <2>1, <3>2 DEF MapShape
    <3>3. QED
      BY <3>1, <3>2
  <2>4. QED
    BY <1>1, <2>2, <2>3 DEF MapShape, MAP!Index, MAP!getShard
<1>3. /\ throughout' = throughout \cap MAP!Contents'
      /\ everIn' = IF scan = "none" THEN {} ELSE everIn \cup MAP!Contents'
  BY DEF MAP!Note
<1>4. throughout' \subseteq throughout /\ (scan # "none" => everIn \subseteq everIn')
  BY <1>3
<1>5. Meanwhile'
  <2>1. \A p \in MAP!Contents' : p[1] \in MapKeys
    <3>1. TAKE p \in MAP!Contents'
    <3>2. PICK j \in MAP!Index : p \in MAP!Pairs(shards'[j])
      BY DEF MAP!Contents, MAP!Pairs, MAP!Index
    <3>3. PICK k \in DOMAIN shards'[j] : p = <<k, shards'[j][k]>>
      BY <3>2 DEF MAP!Pairs
    <3>4. k \in MapKeys
      BY <1>2 DEF MapShape, MAP!Index
    <3>5. QED
      BY <3>3, <3>4
  <2>2. QED
    BY <1>1, <1>3, <2>1 DEF Meanwhile
<1>6. Counting'
  <2> SUFFICES ASSUME scan = "len"
               PROVE  /\ Cardinality(KeysBefore(throughout', at)) <= total
                      /\ total <= Cardinality(KeysBefore(everIn', at))
    BY DEF Counting, KeysBefore, MAP!getShard
  <2>1. /\ Cardinality(KeysBefore(throughout', at)) <= Cardinality(KeysBefore(throughout, at))
        /\ Cardinality(KeysBefore(everIn, at)) <= Cardinality(KeysBefore(everIn', at))
    BY <1>4, MoreKeys
  <2>2. /\ Cardinality(KeysBefore(throughout, at)) <= total
        /\ total <= Cardinality(KeysBefore(everIn, at))
    BY <1>1 DEF Counting
  <2>3. total \in Nat
    BY <1>1 DEF MapShape
  <2>4. QED
    BY <2>1, <2>2, <2>3, KeysFinite
<1>7. Calling'
  <2> SUFFICES ASSUME scan \in {"range", "stopped"}
               PROVE  Calling'
    BY DEF Calling
  <2>1. \A k \in DOMAIN seen : seen[k] \in everIn'
    BY <1>1, <1>4 DEF Calling
  <2>2. ASSUME scan = "range", NEW k \in DOMAIN seen
        PROVE  \/ MAP!getShard(seen[k][1]) < at
               \/ held /\ seen[k] \in MAP!Pairs(shards'[at])
    <3>1. held => at # i /\ at \in MAP!Index
      BY <1>1 DEF MAP!MayWrite, MapShape
    <3>2. held => shards'[at] = shards[at]
      BY <1>1, <3>1 DEF MapShape
    <3>3. QED
      BY <1>1, <2>2, <3>2 DEF Calling
  <2>3. ASSUME scan = "range", NEW p \in throughout', MAP!getShard(p[1]) < at
        PROVE  \E k \in DOMAIN seen : seen[k] = p
    BY <1>1, <1>4, <2>3 DEF Calling
  <2>4. QED
    BY <1>1, <2>1, <2>2, <2>3 DEF Calling, MAP!getShard, MAP!Pairs
<1>8. QED
  BY <1>2, <1>5, <1>6, <1>7 DEF MapInv

LEMMA SetKeeps ==
  \A key \in MapKeys, value \in MapValues : MapInv /\ MAP!Set(key, value) => MapInv'
<1> SUFFICES ASSUME NEW key \in MapKeys, NEW value \in MapValues, MapInv, MAP!Set(key, value)
             PROVE  MapInv'
  OBVIOUS
<1> DEFINE i == MAP!getShard(key)
           m == MAP!With(shards[i], key, value)
<1>1. i \in MAP!Index
  BY ShardOf
<1>2. /\ MAP!MayWrite(i) /\ MAP!Note
      /\ UNCHANGED <<scan, at, held, total, seen>>
      /\ shards' = [shards EXCEPT ![i] = m]
  BY DEF MAP!Set
<1>3. DOMAIN m = DOMAIN shards[i] \cup {key} /\ \A k \in DOMAIN m : m[k] \in MapValues
  BY <1>1 DEF MAP!With, MapInv, MapShape
<1>4. DOMAIN m \subseteq {k \in MapKeys : MAP!getShard(k) = i}
  BY <1>1, <1>3 DEF MapInv, MapShape
<1> HIDE DEF i, m
<1>5. QED
  BY <1>1, <1>2, <1>3, <1>4, WriteKeeps

LEMMA DeleteKeeps == \A key \in MapKeys : MapInv /\ MAP!Delete(key) => MapInv'
<1> SUFFICES ASSUME NEW key \in MapKeys, MapInv, MAP!Delete(key) PROVE MapInv'
  OBVIOUS
<1> DEFINE i == MAP!getShard(key)
           m == MAP!Restrict(shards[i], DOMAIN shards[i] \ {key})
<1>1. i \in MAP!Index
  BY ShardOf
<1>2. /\ MAP!MayWrite(i) /\ MAP!Note
      /\ UNCHANGED <<scan, at, held, total, seen>>
      /\ shards' = [shards EXCEPT ![i] = m]
  BY DEF MAP!Delete
<1>3. DOMAIN m = DOMAIN shards[i] \ {key} /\ \A k \in DOMAIN m : m[k] \in MapValues
  BY <1>1 DEF MAP!Restrict, MapInv, MapShape
<1>4. DOMAIN m \subseteq {k \in MapKeys : MAP!getShard(k) = i}
  BY <1>1, <1>3 DEF MapInv, MapShape
<1> HIDE DEF i, m
<1>5. QED
  BY <1>1, <1>2, <1>3, <1>4, WriteKeeps

LEMMA BeginKeeps == \A c \in {"len", "range"} : MapInv /\ MAP!Begin(c) => MapInv'
<1> SUFFICES ASSUME NEW c \in {"len", "range"}, MapInv, MAP!Begin(c) PROVE MapInv'
  OBVIOUS
<1>1. /\ scan' = c /\ at' = 0 /\ held' = FALSE /\ total' = 0 /\ seen' = <<>>
      /\ throughout' = MAP!Contents /\ everIn' = MAP!Contents /\ shards' = shards
  BY DEF MAP!Begin
<1>2. MapShape'
  BY <1>1, MapAssumption DEF MapInv, MapShape, MAP!Index, MAP!getShard
<1>3. MAP!Contents' = MAP!Contents
  BY <1>1 DEF MAP!Contents, MAP!Pairs, MAP!Index
<1>4. Meanwhile'
  BY <1>1, <1>3, PairsThere DEF MapInv, Meanwhile
<1>5. Counting'
  <2>1. KeysBefore(throughout, at)' = KeysBefore(MAP!Contents, 0)
    BY <1>1 DEF KeysBefore, MAP!getShard
  <2>2. KeysBefore(everIn, at)' = KeysBefore(MAP!Contents, 0)
    BY <1>1 DEF KeysBefore, MAP!getShard
  <2>3. QED
    BY <1>1, <2>1, <2>2, NoKeys DEF Counting
<1>6. Calling'
  <2>1. DOMAIN seen' = {}
    BY <1>1
  <2>2. ASSUME NEW p \in throughout' PROVE ~(MAP!getShard(p[1]) < at')
    <3>1. MAP!getShard(p[1]) \in Nat
      BY <1>1, <2>2, PairsThere, ShardOf DEF MapInv
    <3>2. QED
      BY <1>1, <3>1
  <2>3. QED
    BY <2>1, <2>2 DEF Calling, MAP!getShard
<1>7. QED
  BY <1>2, <1>4, <1>5, <1>6 DEF MapInv

LEMMA LenAddsKeeps == MapInv /\ MAP!LenAdds => MapInv'
<1> SUFFICES ASSUME MapInv, MAP!LenAdds PROVE MapInv'
  OBVIOUS
<1> DEFINE size == Cardinality(DOMAIN shards[at])
<1>1. /\ scan = "len" /\ at < ShardCount
      /\ total' = total + size /\ at' = at + 1
      /\ UNCHANGED <<shards, scan, held, seen, throughout, everIn>>
  BY MapCardinality DEF MAP!LenAdds
<1>2. /\ MapShape /\ Meanwhile /\ Counting
      /\ at \in Nat /\ at \in MAP!Index /\ total \in Nat /\ ShardCount \in Nat
  BY <1>1, MapAssumption DEF MapInv, MapShape, MAP!Index
<1>3. IsFiniteSet(DOMAIN shards[at]) /\ size \in Nat
  <2>1. DOMAIN shards[at] \subseteq MapKeys
    BY <1>2 DEF MapShape
  <2>2. QED
    BY <2>1, MapAssumption, FS_Subset, FS_CardinalityType
<1> HIDE DEF size
<1>4. MapShape'
  BY <1>1, <1>2, <1>3 DEF MapShape, MAP!Index, MAP!getShard
<1>5. Meanwhile'
  BY <1>1, <1>2 DEF Meanwhile, MAP!Contents, MAP!Pairs, MAP!Index
<1>6. Counting'
  <2>1. KeysAt(throughout, at) \subseteq DOMAIN shards[at]
    <3> SUFFICES ASSUME NEW k, k \in KeysAt(throughout, at) PROVE k \in DOMAIN shards[at]
      OBVIOUS
    <3>2. PICK p \in throughout : p[1] = k /\ MAP!getShard(k) = at
      BY DEF KeysAt
    <3>3. p \in MAP!Contents
      BY <1>1, <1>2, <3>2 DEF Meanwhile
    <3>4. p \in MAP!Pairs(shards[at])
      BY <1>2, <3>2, <3>3, PairsThere
    <3>5. QED
      BY <1>2, <3>2, <3>4, PairsThere
  <2>2. DOMAIN shards[at] \subseteq KeysAt(everIn, at)
    <3> SUFFICES ASSUME NEW k, k \in DOMAIN shards[at] PROVE k \in KeysAt(everIn, at)
      OBVIOUS
    <3> DEFINE p == <<k, shards[at][k]>>
    <3>2. p \in MAP!Pairs(shards[at]) /\ p[1] = k
      BY DEF MAP!Pairs
    <3>3. p \in everIn /\ k \in MapKeys /\ MAP!getShard(k) = at
      BY <1>1, <1>2, <3>2, PairsThere DEF Meanwhile
    <3>4. QED
      BY <3>2, <3>3 DEF KeysAt
  <2>3. /\ Cardinality(KeysAt(throughout, at)) <= size
        /\ size <= Cardinality(KeysAt(everIn, at))
    BY <1>3, <2>1, <2>2, KeysFinite, FS_Subset DEF size
  <2>4. /\ Cardinality(KeysBefore(throughout, at)) <= total
        /\ total <= Cardinality(KeysBefore(everIn, at))
    BY <1>1, <1>2 DEF Counting
  <2>5. /\ Cardinality(KeysBefore(throughout, at + 1)) <= total'
        /\ total' <= Cardinality(KeysBefore(everIn, at + 1))
    <3> DEFINE tb == Cardinality(KeysBefore(throughout, at))
               ta == Cardinality(KeysAt(throughout, at))
               eb == Cardinality(KeysBefore(everIn, at))
               ea == Cardinality(KeysAt(everIn, at))
    <3>1. /\ Cardinality(KeysBefore(throughout, at + 1)) = tb + ta
          /\ Cardinality(KeysBefore(everIn, at + 1)) = eb + ea
      BY <1>2, KeysOfNext
    <3>2. tb \in Nat /\ ta \in Nat /\ eb \in Nat /\ ea \in Nat
      BY KeysFinite
    <3> HIDE DEF tb, ta, eb, ea
    <3>3. tb + ta <= total + size /\ total + size <= eb + ea
      <4>1. tb <= total /\ ta <= size /\ total <= eb /\ size <= ea
        BY <2>3, <2>4 DEF tb, ta, eb, ea
      <4>2. QED
        BY <1>2, <1>3, <3>2, <4>1
    <3>4. QED
      BY <1>1, <3>1, <3>3
  <2>6. /\ KeysBefore(throughout, at)' = KeysBefore(throughout, at + 1)
        /\ KeysBefore(everIn, at)' = KeysBefore(everIn, at + 1)
    BY <1>1 DEF KeysBefore, MAP!getShard
  <2>7. QED
    BY <2>5, <2>6 DEF Counting
<1>7. Calling'
  BY <1>1 DEF Calling, MAP!getShard, MAP!Pairs
<1>8. QED
  BY <1>4, <1>5, <1>6, <1>7 DEF MapInv

LEMMA RangeLocksKeeps == MapInv /\ MAP!RangeLocks => MapInv'
<1> SUFFICES ASSUME MapInv, MAP!RangeLocks PROVE MapInv'
  OBVIOUS
<1>1. /\ scan = "range" /\ at < ShardCount /\ ~held /\ held'
      /\ UNCHANGED <<shards, scan, at, total, seen, throughout, everIn>>
  BY DEF MAP!RangeLocks
<1>2. MapShape'
  BY <1>1, MapAssumption DEF MapInv, MapShape, MAP!Index, MAP!getShard
<1>3. Meanwhile' /\ Counting'
  BY <1>1 DEF MapInv, Meanwhile, Counting, MAP!Contents, MAP!Pairs, MAP!Index
<1>4. Calling'
  BY <1>1 DEF MapInv, Calling, MAP!getShard, MAP!Pairs
<1>5. QED
  BY <1>2, <1>3, <1>4 DEF MapInv

(* While Range holds the lock of a shard, its map is the same for all pairs *)
(* of it, so none comes twice.                                              *)
LEMMA RangeCallsKeeps == MapInv /\ MAP!RangeCalls => MapInv'
<1> SUFFICES ASSUME MapInv, MAP!RangeCalls PROVE MapInv'
  OBVIOUS
<1>1. PICK p \in MAP!Left, goOn \in BOOLEAN :
        /\ seen' = Append(seen, p)
        /\ scan' = IF goOn THEN "range" ELSE "stopped"
        /\ held' = goOn
  BY DEF MAP!RangeCalls
<1>2. /\ scan = "range" /\ held
      /\ UNCHANGED <<shards, at, total, throughout, everIn>>
  BY DEF MAP!RangeCalls
<1>3. /\ MapShape /\ Meanwhile /\ Calling /\ at \in MAP!Index
      /\ seen \in Seq(MapKeys \X MapValues)
      /\ DOMAIN seen = 1..Len(seen) /\ Len(seen) \in Nat
  BY <1>2, LenProperties DEF MapInv, MapShape
<1>4. p \in MAP!Pairs(shards[at]) /\ \A i \in DOMAIN seen : seen[i] # p
  BY DEF MAP!Left
<1>5. p \in everIn /\ MAP!getShard(p[1]) = at /\ p[1] \in MapKeys
  BY <1>2, <1>3, <1>4, PairsThere DEF Meanwhile
<1>6. \A i \in DOMAIN seen : seen[i][1] # p[1]
  <2> SUFFICES ASSUME NEW i \in DOMAIN seen, seen[i][1] = p[1] PROVE FALSE
    OBVIOUS
  <2>1. CASE MAP!getShard(seen[i][1]) < at
    <3>1. at \in Nat
      BY <1>3, MapAssumption DEF MAP!Index
    <3>2. QED
      BY <1>5, <2>1, <3>1
  <2>2. CASE seen[i] \in MAP!Pairs(shards[at])
    <3>1. seen[i] = <<seen[i][1], shards[at][seen[i][1]]>> /\ p = <<p[1], shards[at][p[1]]>>
      BY <1>3, <1>4, <2>2, PairsThere
    <3>2. seen[i] = p
      BY <3>1
    <3>3. QED
      BY <1>4, <3>2
  <2>3. QED
    BY <1>2, <1>3, <2>1, <2>2 DEF Calling
<1>7. /\ seen' \in Seq(MapKeys \X MapValues)
      /\ Len(seen') = Len(seen) + 1 /\ DOMAIN seen' = 1..(Len(seen) + 1)
      /\ \A i \in 1..Len(seen) : seen'[i] = seen[i]
      /\ seen'[Len(seen) + 1] = p
  <2>1. p \in MapKeys \X MapValues
    <3>1. /\ p[1] \in DOMAIN shards[at] /\ p[1] \in MapKeys
          /\ p = <<p[1], shards[at][p[1]]>>
      BY <1>3, <1>4, PairsThere
    <3>2. shards[at][p[1]] \in MapValues
      BY <1>3, <3>1 DEF MapShape
    <3>3. QED
      BY <3>1, <3>2
  <2>2. QED
    BY <1>1, <1>3, <2>1, AppendProperties, LenProperties
<1>8. MapShape'
  BY <1>1, <1>2, <1>3, <1>7 DEF MapShape, MAP!Index, MAP!getShard
<1>9. Meanwhile' /\ Counting'
  BY <1>1, <1>2 DEF MapInv, Meanwhile, Counting, MAP!Contents, MAP!Pairs, MAP!Index
<1>10. Calling'
  <2>1. \A i \in DOMAIN seen' : \/ i \in DOMAIN seen /\ seen'[i] = seen[i]
                                \/ i = Len(seen) + 1 /\ seen'[i] = p
    BY <1>3, <1>7
  <2>2. \A i, j \in DOMAIN seen' : seen'[i][1] = seen'[j][1] => i = j
    BY <1>2, <1>3, <1>6, <2>1 DEF Calling
  <2>3. \A i \in DOMAIN seen' : seen'[i] \in everIn'
    BY <1>2, <1>3, <1>5, <2>1 DEF Calling
  <2>4. ASSUME scan' = "range", NEW i \in DOMAIN seen'
        PROVE  \/ MAP!getShard(seen'[i][1]) < at
               \/ held' /\ seen'[i] \in MAP!Pairs(shards[at])
    <3>1. held'
      BY <1>1, <2>4
    <3>2. QED
      BY <1>2, <1>3, <1>4, <2>1, <3>1 DEF Calling
  <2>5. ASSUME NEW q \in throughout, MAP!getShard(q[1]) < at
        PROVE  \E i \in DOMAIN seen' : seen'[i] = q
    <3>1. PICK i \in DOMAIN seen : seen[i] = q
      BY <1>2, <1>3, <2>5 DEF Calling
    <3>2. i \in DOMAIN seen' /\ seen'[i] = q
      BY <1>3, <1>7, <3>1
    <3>3. QED
      BY <3>2
  <2>6. QED
    BY <1>2, <2>2, <2>3, <2>4, <2>5 DEF Calling, MAP!getShard, MAP!Pairs
<1>11. QED
  BY <1>8, <1>9, <1>10 DEF MapInv

LEMMA RangeUnlocksKeeps == MapInv /\ MAP!RangeUnlocks => MapInv'
<1> SUFFICES ASSUME MapInv, MAP!RangeUnlocks PROVE MapInv'
  OBVIOUS
<1>1. /\ scan = "range" /\ held /\ MAP!Left = {} /\ held' = FALSE /\ at' = at + 1
      /\ UNCHANGED <<shards, scan, total, seen, throughout, everIn>>
  BY DEF MAP!RangeUnlocks
<1>2. /\ MapShape /\ Meanwhile /\ Calling
      /\ at \in MAP!Index /\ at \in Nat /\ at < ShardCount /\ ShardCount \in Nat
  BY <1>1, MapAssumption DEF MapInv, MapShape, MAP!Index
<1>3. MapShape'
  BY <1>1, <1>2 DEF MapShape, MAP!Index, MAP!getShard
<1>4. Meanwhile' /\ Counting'
  BY <1>1 DEF MapInv, Meanwhile, Counting, MAP!Contents, MAP!Pairs, MAP!Index
<1>5. Calling'
  <2>1. ASSUME NEW i \in DOMAIN seen PROVE MAP!getShard(seen[i][1]) < at + 1
    <3>1. CASE MAP!getShard(seen[i][1]) < at
      <4>1. MAP!getShard(seen[i][1]) \in Nat
        <5>1. seen[i][1] \in MapKeys
          BY <1>1, <1>2 DEF Calling, Meanwhile
        <5>2. QED
          BY <5>1, ShardOf
      <4>2. QED
        BY <1>2, <3>1, <4>1
    <3>2. CASE seen[i] \in MAP!Pairs(shards[at])
      <4>1. MAP!getShard(seen[i][1]) = at
        BY <1>2, <3>2, PairsThere
      <4>2. QED
        BY <1>2, <4>1
    <3>3. QED
      BY <1>1, <1>2, <3>1, <3>2 DEF Calling
  <2>2. ASSUME NEW p \in throughout, MAP!getShard(p[1]) < at + 1
        PROVE  \E i \in DOMAIN seen : seen[i] = p
    <3>1. /\ p \in MAP!Contents /\ MAP!getShard(p[1]) \in Nat
          /\ p \in MAP!Pairs(shards[MAP!getShard(p[1])])
      BY <1>1, <1>2, PairsThere, ShardOf DEF Meanwhile
    <3>2. CASE MAP!getShard(p[1]) < at
      BY <1>1, <1>2, <3>2 DEF Calling
    <3>3. CASE MAP!getShard(p[1]) = at
      BY <1>1, <3>1, <3>3 DEF MAP!Left
    <3>4. QED
      BY <1>2, <2>2, <3>1, <3>2, <3>3
  <2>3. QED
    BY <1>1, <1>2, <2>1, <2>2 DEF Calling, MAP!getShard
<1>6. QED
  BY <1>3, <1>4, <1>5 DEF MapInv

LEMMA MapReturnKeeps == MapInv /\ MAP!Return => MapInv'
<1> SUFFICES ASSUME MapInv, MAP!Return PROVE MapInv'
  OBVIOUS
<1>1. /\ MAP!AllVisited \/ scan = "stopped"
      /\ scan' = "none" /\ at' = 0 /\ total' = 0 /\ seen' = <<>>
      /\ UNCHANGED <<shards, held>>
  BY DEF MAP!Return
<1>2. ~held
  BY <1>1, MapAssumption DEF MapInv, MapShape, MAP!AllVisited, MAP!Index
<1>3. MapShape'
  BY <1>1, <1>2, MapAssumption DEF MapInv, MapShape, MAP!Index, MAP!getShard
<1>4. QED
  BY <1>1, <1>3 DEF MapInv, Meanwhile, Counting, Calling

LEMMA MapStep == MapInv /\ [MAP!Next]_(MAP!vars) => MapInv'
<1> SUFFICES ASSUME MapInv, [MAP!Next]_(MAP!vars) PROVE MapInv'
  OBVIOUS
<1>1. CASE MAP!Next
  BY <1>1, SetKeeps, DeleteKeeps, BeginKeeps, LenAddsKeeps, RangeLocksKeeps, RangeCallsKeeps,
     RangeUnlocksKeeps, MapReturnKeeps DEF MAP!Next
<1>2. CASE UNCHANGED MAP!vars
  <2>1. UNCHANGED <<shards, scan, at, held, total, seen, throughout, everIn>>
    BY <1>2 DEF MAP!vars
  <2>2. MapShape' /\ Meanwhile' /\ Calling'
    BY <2>1 DEF MapInv, MapShape, Meanwhile, Calling, MAP!Contents, MAP!Pairs, MAP!Index,
                MAP!getShard
  <2>3. Counting'
    BY <2>1 DEF MapInv, Counting, KeysBefore, MAP!getShard
  <2>4. QED
    BY <2>2, <2>3 DEF MapInv
<1>3. QED
  BY <1>1, <1>2

LEMMA MapSafe == MapInv => ScansAreFair
<1> SUFFICES ASSUME MapInv PROVE MAP!LenInBounds /\ MAP!RangeIsFair
  BY DEF ScansAreFair, MAP!ScansAreFair
<1>1. MapShape /\ Meanwhile /\ Counting /\ Calling
  BY DEF MapInv
<1>2. ASSUME NEW P, \A p \in P : p[1] \in MapKeys
      PROVE  MAP!KeysOf(P) = KeysBefore(P, ShardCount)
  <2>1. ASSUME NEW k \in MapKeys PROVE MAP!getShard(k) < ShardCount
    BY ShardOf, MapAssumption DEF MAP!Index
  <2>2. \A k : k \in MAP!KeysOf(P) <=> k \in KeysBefore(P, ShardCount)
    BY <1>2, <2>1 DEF MAP!KeysOf, KeysBefore
  <2>3. QED
    BY <2>2
<1>3. MAP!LenInBounds
  <2> SUFFICES ASSUME scan = "len", at = ShardCount
               PROVE  /\ Cardinality(MAP!KeysOf(throughout)) <= total
                      /\ total <= Cardinality(MAP!KeysOf(everIn))
    BY MapCardinality DEF MAP!LenInBounds, MAP!AllVisited
  <2>1. /\ \A p \in everIn : p[1] \in MapKeys
        /\ \A p \in throughout : p[1] \in MapKeys
    BY <1>1 DEF Meanwhile
  <2>2. /\ MAP!KeysOf(throughout) = KeysBefore(throughout, at)
        /\ MAP!KeysOf(everIn) = KeysBefore(everIn, at)
    BY <1>2, <2>1
  <2>3. QED
    BY <1>1, <2>2 DEF Counting
<1>4. MAP!RangeIsFair
  <2> SUFFICES ASSUME scan \in {"range", "stopped"}
               PROVE  /\ \A i, j \in DOMAIN seen : seen[i][1] = seen[j][1] => i = j
                      /\ {seen[i] : i \in DOMAIN seen} \subseteq everIn
                      /\ MAP!AllVisited => throughout \subseteq {seen[i] : i \in DOMAIN seen}
    BY DEF MAP!RangeIsFair
  <2>1. ASSUME scan = "range", at = ShardCount, NEW p \in throughout
        PROVE  \E i \in DOMAIN seen : seen[i] = p
    <3>1. p[1] \in MapKeys
      BY <1>1 DEF Meanwhile
    <3>2. MAP!getShard(p[1]) < at
      BY <2>1, <3>1, ShardOf, MapAssumption DEF MAP!Index
    <3>3. QED
      BY <1>1, <2>1, <3>2 DEF Calling
  <2>2. QED
    BY <1>1, <2>1 DEF Calling, MAP!AllVisited
<1>5. QED
  BY <1>3, <1>4

-----------------------------------------------------------------------------
(* TaskService.                                                            *)

(* The id of the k-th task, until the sequence has been all the way round.  *)
Given(k) == IF k < Half THEN k ELSE k - 2 * Half

(* Until then, ids are handed out in that order, a task has the title it    *)
(* was given, and so has the copy that an UpdateStatus is about to write.   *)
TaskInv ==
  /\ creates \in Nat /\ DOMAIN copy = Users
  /\ creates <= 2 * Half =>
       /\ seq = Given(creates)
       /\ \A id \in DOMAIN made : \E k \in 1..creates : id = Given(k)
       /\ DOMAIN tasks \subseteq DOMAIN made
       /\ \A id \in DOMAIN tasks : tasks[id].title = made[id]
       /\ \A u \in Users : copy[u] # TSK!NoCopy =>
            copy[u].id \in DOMAIN made /\ copy[u].title = made[copy[u].id]

(* What IdsForGood says of a step.                                          *)
ForGood ==
  creates' <= 2 * Half =>
    /\ (DOMAIN made \ DOMAIN tasks) \cap DOMAIN tasks' = {}
    /\ \A id \in DOMAIN tasks' : tasks'[id].title = made'[id]
    /\ \A id \in DOMAIN made : made'[id] = made[id]

LEMMA NextGiven ==
  ASSUME NEW c \in Nat, c + 1 <= 2 * Half
  PROVE  /\ TSK!Wrap(Given(c) + 1) = Given(c + 1)
         /\ \A k \in 1..c : Given(k) # Given(c + 1)
<1>1. Half \in Nat /\ Half > 0
  BY SequenceAssumption
<1>2. TSK!Wrap(Given(c) + 1) = Given(c + 1)
  BY <1>1 DEF TSK!Wrap, Given
<1>3. \A k \in 1..c : Given(k) # Given(c + 1)
  BY <1>1 DEF Given
<1>4. QED
  BY <1>2, <1>3

LEMMA TaskInit == TSK!Init => TaskInv
<1> SUFFICES ASSUME TSK!Init PROVE TaskInv
  OBVIOUS
<1>1. Half \in Nat /\ Half > 0
  BY SequenceAssumption
<1>2. seq = Given(0) /\ creates = 0
  BY <1>1 DEF TSK!Init, Given
<1>3. QED
  BY <1>2 DEF TSK!Init, TaskInv

LEMMA CreateForGood ==
  \A title : TaskInv /\ TSK!Create(title) => TaskInv' /\ ForGood
<1> SUFFICES ASSUME NEW title, TaskInv, TSK!Create(title) PROVE TaskInv' /\ ForGood
  OBVIOUS
<1> DEFINE id == TSK!nextId
<1>1. /\ creates' = creates + 1 /\ copy' = copy
      /\ seq' = id
      /\ tasks' = TSK!With(tasks, id, [title |-> title, status |-> "todo"])
      /\ made' = TSK!With(made, id, title)
  BY DEF TSK!Create, TSK!Save
<1>2. creates \in Nat /\ creates' \in Nat /\ DOMAIN copy = Users
  BY <1>1 DEF TaskInv
<1>3. SUFFICES ASSUME creates + 1 <= 2 * Half PROVE TaskInv' /\ ForGood
  BY <1>1, <1>2 DEF TaskInv, ForGood
<1>4. creates <= 2 * Half /\ Half \in Nat
  BY <1>2, <1>3, SequenceAssumption
<1>5. id = Given(creates + 1)
  BY <1>2, <1>3, <1>4, NextGiven DEF TSK!nextId, TaskInv
<1>6. id \notin DOMAIN made /\ DOMAIN tasks \subseteq DOMAIN made
  BY <1>2, <1>3, <1>4, <1>5, NextGiven DEF TaskInv
<1> HIDE DEF id
<1>7. /\ DOMAIN tasks' = DOMAIN tasks \cup {id} /\ DOMAIN made' = DOMAIN made \cup {id}
      /\ tasks'[id].title = title /\ made'[id] = title
      /\ \A i \in DOMAIN tasks : tasks'[i] = tasks[i]
      /\ \A i \in DOMAIN made : made'[i] = made[i]
  BY <1>1, <1>6 DEF TSK!With
<1>8. \A i \in DOMAIN tasks' : tasks'[i].title = made'[i]
  BY <1>4, <1>6, <1>7 DEF TaskInv
<1>9. ForGood
  BY <1>6, <1>7, <1>8 DEF ForGood
<1>10. ASSUME NEW i \in DOMAIN made' PROVE \E k \in 1..(creates + 1) : i = Given(k)
  <2>1. CASE i = id
    <3>1. creates + 1 \in 1..(creates + 1)
      BY <1>2
    <3>2. QED
      BY <1>5, <2>1, <3>1
  <2>2. CASE i \in DOMAIN made
    <3>1. PICK k \in 1..creates : i = Given(k)
      BY <1>4, <2>2 DEF TaskInv
    <3>2. k \in 1..(creates + 1)
      BY <1>2
    <3>3. QED
      BY <3>1, <3>2
  <2>3. QED
    BY <1>7, <2>1, <2>2
<1>11. \A u \in Users : copy'[u] # TSK!NoCopy =>
         copy'[u].id \in DOMAIN made' /\ copy'[u].title = made'[copy'[u].id]
  BY <1>1, <1>4, <1>7 DEF TaskInv
<1>12. DOMAIN tasks' \subseteq DOMAIN made'
  BY <1>6, <1>7
<1>13. seq' = Given(creates')
  BY <1>1, <1>5
<1>14. TaskInv'
  <2>1. TSK!NoCopy' = TSK!NoCopy /\ \A k : Given(k)' = Given(k)
    BY DEF TSK!NoCopy, Given
  <2>2. QED
    BY <1>1, <1>2, <1>8, <1>10, <1>11, <1>12, <1>13, <2>1 DEF TaskInv, Given
<1>15. QED
  BY <1>9, <1>14

LEMMA UpdateForGood ==
  ASSUME TaskInv, NEW u \in Users,
         TSK!UpdateWrites(u) \/ \E id \in DOMAIN tasks, s \in TSK!Statuses : TSK!UpdateReads(u, id, s)
  PROVE  TaskInv' /\ ForGood
<1>1. UNCHANGED <<seq, made, creates>>
  BY DEF TSK!UpdateWrites, TSK!UpdateReads
<1>2. SUFFICES ASSUME creates <= 2 * Half, DOMAIN copy' = Users PROVE TaskInv' /\ ForGood
  <2>1. DOMAIN copy' = Users
    BY DEF TSK!UpdateWrites, TSK!UpdateReads, TaskInv
  <2>2. QED
    BY <1>1, <1>2, <2>1 DEF TaskInv, ForGood
<1>3. DOMAIN tasks' = DOMAIN tasks /\ \A i \in DOMAIN tasks : tasks'[i].title = made[i]
  <2>1. CASE TSK!UpdateWrites(u)
    <3>1. copy[u].id \in DOMAIN made /\ copy[u].title = made[copy[u].id]
      BY <1>2, <2>1 DEF TaskInv, TSK!UpdateWrites
    <3>2. tasks' = IF copy[u].id \in DOMAIN tasks
                   THEN [tasks EXCEPT ![copy[u].id] =
                           [title |-> copy[u].title, status |-> copy[u].status]]
                   ELSE tasks
      BY <2>1 DEF TSK!UpdateWrites, TSK!Update
    <3>3. QED
      BY <1>2, <3>1, <3>2 DEF TaskInv
  <2>2. CASE \E id \in DOMAIN tasks, s \in TSK!Statuses : TSK!UpdateReads(u, id, s)
    BY <1>2, <2>2 DEF TaskInv, TSK!UpdateReads
  <2>3. QED
    BY <2>1, <2>2
<1>4. ForGood
  BY <1>1, <1>3 DEF ForGood
<1>5. ASSUME NEW v \in Users, copy'[v] # TSK!NoCopy
      PROVE  copy'[v].id \in DOMAIN made /\ copy'[v].title = made[copy'[v].id]
  <2>1. CASE TSK!UpdateWrites(u)
    BY <1>2, <1>5, <2>1 DEF TaskInv, TSK!UpdateWrites
  <2>2. CASE \E id \in DOMAIN tasks, s \in TSK!Statuses : TSK!UpdateReads(u, id, s)
    <3>1. PICK id \in DOMAIN tasks, s \in TSK!Statuses : TSK!UpdateReads(u, id, s)
      BY <2>2
    <3>2. PICK t \in TSK!FindByID(id) :
            copy' = [copy EXCEPT ![u] = [id |-> id, title |-> t.title, status |-> s]]
      BY <3>1 DEF TSK!UpdateReads
    <3>3. t.title = made[id] /\ id \in DOMAIN made
      BY <1>2, <3>2 DEF TaskInv, TSK!FindByID
    <3>4. QED
      BY <1>2, <1>5, <3>2, <3>3 DEF TaskInv
  <2>3. QED
    BY <2>1, <2>2
<1>6. TaskInv'
  <2>1. TSK!NoCopy' = TSK!NoCopy /\ \A k : Given(k)' = Given(k)
    BY DEF TSK!NoCopy, Given
  <2>2. QED
    BY <1>1, <1>2, <1>3, <1>5, <2>1 DEF TaskInv, Given
<1>7. QED
  BY <1>4, <1>6

LEMMA DeleteForGood == \A id : TaskInv /\ TSK!Delete(id) => TaskInv' /\ ForGood
<1> SUFFICES ASSUME NEW id, TaskInv, TSK!Delete(id) PROVE TaskInv' /\ ForGood
  OBVIOUS
<1>1. /\ UNCHANGED <<seq, copy, made, creates>>
      /\ tasks' = TSK!Restrict(tasks, DOMAIN tasks \ {id})
  BY DEF TSK!Delete, TSK!Remove
<1>2. DOMAIN tasks' \subseteq DOMAIN tasks /\ \A i \in DOMAIN tasks' : tasks'[i] = tasks[i]
  BY <1>1 DEF TSK!Restrict
<1>3. ForGood
  BY <1>1, <1>2 DEF ForGood, TaskInv
<1>4. TaskInv'
  <2>1. TSK!NoCopy' = TSK!NoCopy /\ \A k : Given(k)' = Given(k)
    BY DEF TSK!NoCopy, Given
  <2>2. QED
    BY <1>1, <1>2, <2>1 DEF TaskInv, Given
<1>5. QED
  BY <1>3, <1>4

LEMMA TaskStep == TaskInv /\ [TSK!Next]_(TSK!vars) => TaskInv' /\ [ForGood]_(TSK!vars)
<1> SUFFICES ASSUME TaskInv, [TSK!Next]_(TSK!vars) PROVE TaskInv' /\ [ForGood]_(TSK!vars)
  OBVIOUS
<1>1. CASE TSK!Next
  BY <1>1, CreateForGood, UpdateForGood, DeleteForGood DEF TSK!Next
<1>2. CASE UNCHANGED TSK!vars
  <2>1. UNCHANGED <<tasks, seq, copy, made, creates>>
    BY <1>2 DEF TSK!vars
  <2>2. TaskInv'
    BY <2>1 DEF TaskInv, Given, TSK!NoCopy
  <2>3. QED
    BY <1>2, <2>2
<1>3. QED
  BY <1>1, <1>2

-----------------------------------------------------------------------------
(* Shortener.  A number is the value of its digits, so two numbers with one *)
(* code are one number.                                                     *)

(* A code is the digit of the id and, before it, the code of what is left.  *)
Down(id) == id \div Base
Digit(id) == id % Base

LEMMA DigitsDown ==
  ASSUME NEW id \in Nat, id > 0
  PROVE  Down(id) \in Nat /\ Down(id) < id /\ id = Base * Down(id) + Digit(id)
<1>1. Base \in Nat /\ Base > 1
  BY CodesAssumption
<1>2. Down(id) \in Int /\ Digit(id) \in 0..(Base - 1) /\ id = Base * Down(id) + Digit(id)
  BY <1>1 DEF Down, Digit
<1>3. Down(id) >= 0
  <2> SUFFICES ASSUME Down(id) <= -1 PROVE FALSE
    BY <1>2
  <2>1. Base * Down(id) <= Base * (-1)
    BY <1>1, <1>2
  <2>2. QED
    BY <1>1, <1>2, <2>1
<1>4. Down(id) < id
  <2> SUFFICES ASSUME Down(id) >= id PROVE FALSE
    BY <1>2
  <2>1. Base * Down(id) >= 2 * Down(id)
    BY <1>1, <1>2, <1>3
  <2>2. QED
    BY <1>1, <1>2, <2>1
<1>5. Down(id) \in Nat
  BY <1>2, <1>3
<1>6. QED
  BY <1>2, <1>4, <1>5

(* There is a function that says of 0..m what digits says of every number,  *)
(* and only one.                                                            *)
UpTo(f, m) ==
  f = [id \in 0..m |-> IF id = 0 THEN <<>> ELSE Append(f[Down(id)], Digit(id))]

LEMMA UpToSays ==
  ASSUME NEW m \in Nat, NEW f, UpTo(f, m), NEW id \in 0..m
  PROVE  f[id] = IF id = 0 THEN <<>> ELSE Append(f[Down(id)], Digit(id))
BY DEF UpTo

LEMMA UpToAgree ==
  ASSUME NEW m \in Nat, NEW f, UpTo(f, m), NEW k \in Nat, NEW g, UpTo(g, k)
  PROVE  \A id \in Nat : id <= m /\ id <= k => f[id] = g[id]
<1> DEFINE bad == {id \in Nat : id <= m /\ id <= k /\ f[id] # g[id]}
<1> SUFFICES ASSUME bad # {} PROVE FALSE
  OBVIOUS
<1>1. PICK id \in bad : \A x \in bad : id <= x
  <2>1. bad \subseteq Nat
    OBVIOUS
  <2> HIDE DEF bad
  <2>2. QED
    BY <2>1, NatMin
<1>2. id \in Nat /\ id \in 0..m /\ id \in 0..k /\ f[id] # g[id]
  BY <1>1
<1>3. CASE id = 0
  BY <1>2, <1>3, UpToSays
<1>4. CASE id # 0
  <2>1. Down(id) \in Nat /\ Down(id) < id
    BY <1>2, <1>4, DigitsDown
  <2>2. f[Down(id)] = g[Down(id)]
    BY <1>1, <1>2, <2>1
  <2>3. /\ f[id] = Append(f[Down(id)], Digit(id))
        /\ g[id] = Append(g[Down(id)], Digit(id))
    BY <1>2, <1>4, UpToSays
  <2>4. QED
    BY <1>2, <2>2, <2>3
<1>5. QED
  BY <1>3, <1>4

LEMMA UpToExists == \A m \in Nat : \E f : UpTo(f, m)
<1> DEFINE bad == {m \in Nat : ~ \E f : UpTo(f, m)}
<1> SUFFICES ASSUME bad # {} PROVE FALSE
  OBVIOUS
<1>1. PICK m \in bad : \A x \in bad : m <= x
  <2>1. bad \subseteq Nat
    OBVIOUS
  <2> HIDE DEF bad
  <2>2. QED
    BY <2>1, NatMin
<1>2. m \in Nat /\ ~ \E f : UpTo(f, m)
  BY <1>1
<1>3. CASE m = 0
  <2> DEFINE f == [id \in 0..0 |-> <<>>]
  <2>1. f = [id \in 0..0 |-> IF id = 0 THEN <<>> ELSE Append(f[Down(id)], Digit(id))]
    OBVIOUS
  <2>2. UpTo(f, 0)
    BY <2>1 DEF UpTo
  <2> HIDE DEF f
  <2>3. QED
    BY <1>2, <1>3, <2>2
<1>4. CASE m # 0
  <2>1. m - 1 \in Nat /\ m - 1 \notin bad /\ \A id \in 0..m : id = m \/ id \in 0..(m - 1)
    BY <1>1, <1>2, <1>4
  <2>2. PICK f : UpTo(f, m - 1)
    BY <2>1
  <2> DEFINE last == Append(f[Down(m)], Digit(m))
             g == [id \in 0..m |-> IF id = m THEN last ELSE f[id]]
  <2> HIDE DEF last
  <2>3. ASSUME NEW id \in 0..m
        PROVE  g[id] = IF id = 0 THEN <<>> ELSE Append(g[Down(id)], Digit(id))
    <3>1. id \in Nat
      BY <1>2
    <3>2. CASE id = m
      <4>1. Down(m) \in Nat /\ Down(m) < m /\ Down(m) \in 0..m
        BY <1>2, <1>4, DigitsDown
      <4>2. g[Down(m)] = f[Down(m)] /\ g[m] = last
        BY <1>2, <4>1
      <4>3. QED
        BY <1>4, <3>2, <4>2 DEF last
    <3>3. CASE id # m /\ id # 0
      <4>1. Down(id) \in Nat /\ Down(id) < id /\ Down(id) \in 0..m /\ Down(id) # m
        BY <1>2, <3>1, <3>3, DigitsDown
      <4>2. g[Down(id)] = f[Down(id)] /\ g[id] = f[id]
        BY <3>3, <4>1
      <4>3. id \in 0..(m - 1)
        BY <2>1, <3>3
      <4>4. f[id] = Append(f[Down(id)], Digit(id))
        BY <2>1, <2>2, <3>3, <4>3, UpToSays
      <4>5. QED
        BY <3>3, <4>2, <4>4
    <3>4. CASE id # m /\ id = 0
      <4>1. g[id] = f[id] /\ id \in 0..(m - 1)
        BY <2>1, <3>4
      <4>2. f[id] = <<>>
        BY <2>1, <2>2, <3>4, <4>1, UpToSays
      <4>3. QED
        BY <3>4, <4>1, <4>2
    <3>5. QED
      BY <3>2, <3>3, <3>4
  <2>4. g = [id \in 0..m |-> IF id = 0 THEN <<>> ELSE Append(g[Down(id)], Digit(id))]
    <3> DEFINE h == [id \in 0..m |-> IF id = 0 THEN <<>> ELSE Append(g[Down(id)], Digit(id))]
    <3>1. g = [id \in 0..m |-> g[id]]
      OBVIOUS
    <3> HIDE DEF g
    <3>2. \A id \in 0..m : g[id] = h[id]
      BY <2>3
    <3>3. g = h
      BY <3>1, <3>2
    <3>4. QED
      BY <3>3
  <2>5. UpTo(g, m)
    BY <2>4 DEF UpTo
  <2> HIDE DEF g
  <2>6. QED
    BY <1>2, <2>5
<1>5. QED
  BY <1>3, <1>4

(* digits says what it computes: there is such a function.                  *)
LEMMA DigitsDef ==
  \A id \in Nat :
    URL!digits[id] = IF id = 0 THEN <<>> ELSE Append(URL!digits[Down(id)], Digit(id))
<1> DEFINE of(m) == CHOOSE f : UpTo(f, m)
           all == [id \in Nat |-> of(id)[id]]
<1>1. \A m \in Nat : UpTo(of(m), m)
  BY UpToExists
<1> HIDE DEF of
<1>2. ASSUME NEW id \in Nat
      PROVE  all[id] = IF id = 0 THEN <<>> ELSE Append(all[Down(id)], Digit(id))
  <2>1. id \in 0..id
    OBVIOUS
  <2>2. of(id)[id] = IF id = 0 THEN <<>> ELSE Append(of(id)[Down(id)], Digit(id))
    BY <1>1, <2>1, UpToSays
  <2>3. CASE id = 0
    BY <2>2, <2>3
  <2>4. CASE id # 0
    <3>1. Down(id) \in Nat /\ Down(id) < id /\ Down(id) <= Down(id) /\ Down(id) <= id
      BY <2>4, DigitsDown
    <3>2. of(id)[Down(id)] = of(Down(id))[Down(id)]
      BY <1>1, <3>1, UpToAgree
    <3>3. QED
      BY <2>2, <2>4, <3>1, <3>2
  <2>5. QED
    BY <2>3, <2>4
<1>3. all = [id \in Nat |-> IF id = 0 THEN <<>> ELSE Append(all[Down(id)], Digit(id))]
  <2> DEFINE h == [id \in Nat |-> IF id = 0 THEN <<>> ELSE Append(all[Down(id)], Digit(id))]
  <2>1. all = [id \in Nat |-> all[id]]
    OBVIOUS
  <2> HIDE DEF all
  <2>2. \A id \in Nat : all[id] = h[id]
    BY <1>2
  <2>3. all = h
    BY <2>1, <2>2
  <2>4. QED
    BY <2>3
<1> HIDE DEF all
<1>4. URL!digits = [id \in Nat |-> IF id = 0 THEN <<>> ELSE Append(URL!digits[Down(id)], Digit(id))]
  <2>1. \E f : f = [id \in Nat |-> IF id = 0 THEN <<>> ELSE Append(f[id \div Base], id % Base)]
    BY <1>3 DEF Down, Digit
  <2>2. QED
    BY <2>1 DEF URL!digits, Down, Digit
<1>5. QED
  BY <1>4

LEMMA DigitsType == \A id \in Nat : URL!digits[id] \in Seq(Nat)
<1> DEFINE bad == {id \in Nat : URL!digits[id] \notin Seq(Nat)}
<1> SUFFICES ASSUME bad # {} PROVE FALSE
  OBVIOUS
<1>1. PICK id \in bad : \A x \in bad : id <= x
  <2>1. bad \subseteq Nat
    OBVIOUS
  <2> HIDE DEF bad
  <2>2. QED
    BY <2>1, NatMin
<1>2. CASE id = 0
  <2>1. URL!digits[0] = <<>> /\ URL!digits[id] \notin Seq(Nat)
    BY <1>1, DigitsDef
  <2>2. <<>> \in Seq(Nat)
    OBVIOUS
  <2>3. QED
    BY <1>2, <2>1, <2>2, Zenon
<1>3. CASE id # 0
  <2>1. id \in Nat /\ Down(id) \in Nat /\ Down(id) < id
    BY <1>1, <1>3, DigitsDown
  <2>2. URL!digits[Down(id)] \in Seq(Nat)
    BY <1>1, <2>1
  <2>3. Digit(id) \in Nat
    BY <2>1, CodesAssumption DEF Digit
  <2>4. URL!digits[id] = Append(URL!digits[Down(id)], Digit(id))
    BY <1>3, <2>1, DigitsDef
  <2>5. URL!digits[id] \in Seq(Nat)
    BY <2>2, <2>3, <2>4, AppendProperties
  <2>6. QED
    BY <1>1, <2>5
<1>4. QED
  BY <1>2, <1>3

(* No two ids have one code, however many digits they need.                 *)
LEMMA CodesDiffer ==
  \A id, other \in Nat : URL!digits[id] = URL!digits[other] => id = other
<1> DEFINE bad == {id \in Nat : \E other \in Nat : URL!digits[id] = URL!digits[other] /\ id # other}
<1> SUFFICES ASSUME bad # {} PROVE FALSE
  OBVIOUS
<1>1. PICK id \in bad : \A x \in bad : id <= x
  <2>1. bad \subseteq Nat
    OBVIOUS
  <2> HIDE DEF bad
  <2>2. QED
    BY <2>1, NatMin
<1>2. PICK other \in Nat : URL!digits[id] = URL!digits[other] /\ id # other
  BY <1>1
<1>3. ASSUME NEW k \in Nat, k # 0
      PROVE  /\ Down(k) \in Nat /\ Down(k) < k /\ k = Base * Down(k) + Digit(k)
             /\ URL!digits[k] = Append(URL!digits[Down(k)], Digit(k))
             /\ URL!digits[Down(k)] \in Seq(Nat) /\ Digit(k) \in Nat
             /\ URL!digits[k] # <<>>
  <2>1. Down(k) \in Nat /\ Down(k) < k /\ k = Base * Down(k) + Digit(k)
    BY <1>3, DigitsDown
  <2>2. URL!digits[k] = Append(URL!digits[Down(k)], Digit(k))
    BY <1>3, DigitsDef
  <2>3. URL!digits[Down(k)] \in Seq(Nat)
    BY <2>1, DigitsType
  <2>4. Digit(k) \in Nat
    BY CodesAssumption DEF Digit
  <2>5. URL!digits[k] # <<>>
    BY <2>2, <2>3, <2>4
  <2>6. QED
    BY <2>1, <2>2, <2>3, <2>4, <2>5
<1>4. URL!digits[0] = <<>> /\ id \in Nat
  BY <1>1, DigitsDef
<1>5. id # 0 /\ other # 0
  BY <1>2, <1>3, <1>4
<1>6. URL!digits[Down(id)] = URL!digits[Down(other)] /\ Digit(id) = Digit(other)
  <2> DEFINE s == URL!digits[Down(id)]
             t == URL!digits[Down(other)]
  <2>1. /\ Append(s, Digit(id)) = Append(t, Digit(other))
        /\ s \in Seq(Nat) /\ t \in Seq(Nat) /\ Digit(id) \in Nat /\ Digit(other) \in Nat
    BY <1>2, <1>3, <1>4, <1>5
  <2> HIDE DEF s, t
  <2>2. /\ Len(Append(s, Digit(id))) = Len(s) + 1 /\ Len(Append(t, Digit(other))) = Len(t) + 1
        /\ Len(s) \in Nat /\ Len(t) \in Nat
    <3>1. Len(Append(s, Digit(id))) = Len(s) + 1 /\ Len(Append(t, Digit(other))) = Len(t) + 1
      BY <2>1, AppendProperties
    <3>2. Len(s) \in Nat /\ Len(t) \in Nat
      BY <2>1, LenProperties
    <3>3. QED
      BY <3>1, <3>2
  <2>3. Len(s) = Len(t)
    BY <2>1, <2>2
  <2>4. /\ Append(s, Digit(id))[Len(s) + 1] = Digit(id)
        /\ Append(t, Digit(other))[Len(s) + 1] = Digit(other)
        /\ \A i \in 1..Len(s) : Append(s, Digit(id))[i] = s[i] /\ Append(t, Digit(other))[i] = t[i]
    <3>1. ASSUME NEW r \in Seq(Nat), NEW d \in Nat
          PROVE  /\ Append(r, d)[Len(r) + 1] = d
                 /\ \A i \in 1..Len(r) : Append(r, d)[i] = r[i]
      BY AppendProperties
    <3>2. /\ Append(t, Digit(other))[Len(t) + 1] = Digit(other)
          /\ \A i \in 1..Len(t) : Append(t, Digit(other))[i] = t[i]
          /\ Append(s, Digit(id))[Len(s) + 1] = Digit(id)
          /\ \A i \in 1..Len(s) : Append(s, Digit(id))[i] = s[i]
      BY <2>1, <3>1, Zenon
    <3>3. QED
      BY <2>3, <3>2
  <2>5. Digit(id) = Digit(other) /\ \A i \in 1..Len(s) : s[i] = t[i]
    BY <2>1, <2>4
  <2>6. s = t
    BY <2>1, <2>3, <2>5, SeqEqual
  <2>7. QED
    BY <2>5, <2>6 DEF s, t
<1>7. Down(id) = Down(other)
  <2>1. Down(id) \in Nat /\ Down(id) < id /\ Down(other) \in Nat
    BY <1>3, <1>4, <1>5
  <2>2. Down(id) \notin bad
    BY <1>1, <1>4, <2>1
  <2>3. QED
    BY <1>6, <2>1, <2>2
<1>8. id = other
  <2>1. id = Base * Down(id) + Digit(id) /\ other = Base * Down(other) + Digit(other)
    BY <1>3, <1>4, <1>5
  <2>2. QED
    BY <1>6, <1>7, <2>1, Zenon
<1>9. QED
  BY <1>2, <1>8

UrlShape ==
  /\ counter \in Nat
  /\ missed \in [Callers -> Urls \cup {NoUrl}]
  /\ IsFiniteSet(DOMAIN long2code) /\ Cardinality(DOMAIN long2code) = counter
  /\ IsFiniteSet(DOMAIN code2long) /\ Cardinality(DOMAIN code2long) = counter

(* Every code is that of an id given, every URL with a code is what its     *)
(* code leads to, and every answer is the code of its URL.                  *)
UrlInv ==
  /\ UrlShape
  /\ \A code \in DOMAIN code2long : \E id \in 1..counter : code = URL!digits[id]
  /\ \A url \in DOMAIN long2code :
       long2code[url] \in DOMAIN code2long /\ code2long[long2code[url]] = url
  /\ \A a \in told : a[1] \in DOMAIN long2code /\ a[2] = long2code[a[1]]

LEMMA UrlCardinality == \A S : URL!Cardinality(S) = Cardinality(S)
BY DEF URL!Cardinality, Cardinality

LEMMA UrlInit == URL!Init => UrlInv
<1> SUFFICES ASSUME URL!Init PROVE UrlInv
  OBVIOUS
<1>1. DOMAIN long2code = {} /\ DOMAIN code2long = {} /\ told = {} /\ counter = 0
  BY DEF URL!Init
<1>2. UrlShape
  BY <1>1, FS_EmptySet DEF URL!Init, UrlShape
<1>3. QED
  BY <1>1, <1>2 DEF UrlInv

(* An answer that long2code has.                                            *)
LEMMA FoundKeeps ==
  ASSUME UrlInv, NEW url \in DOMAIN long2code, URL!Tell(url, long2code[url]),
         UNCHANGED <<counter, long2code, code2long>>,
         missed' \in [Callers -> Urls \cup {NoUrl}]
  PROVE  UrlInv'
<1>1. UrlShape'
  BY DEF UrlInv, UrlShape
<1>2. \A a \in told' : a[1] \in DOMAIN long2code /\ a[2] = long2code[a[1]]
  <2>1. TAKE a \in told'
  <2>2. CASE a = <<url, long2code[url]>>
    BY <2>2
  <2>3. CASE a \in told
    BY <2>3 DEF UrlInv
  <2>4. QED
    BY <2>2, <2>3 DEF URL!Tell
<1>3. \A code \in DOMAIN code2long' : \E id \in 1..counter' : code = URL!digits[id]
  BY DEF UrlInv
<1>4. (\A code \in DOMAIN code2long : \E id \in 1..counter : code = URL!digits[id])'
  BY <1>3 DEF URL!digits
<1>5. QED
  BY <1>1, <1>2, <1>4 DEF UrlInv

LEMMA AddKeeps ==
  ASSUME UrlInv, NEW g \in Callers, missed[g] # NoUrl, URL!Add(g),
         missed' \in [Callers -> Urls \cup {NoUrl}]
  PROVE  UrlInv'
<1> DEFINE url == missed[g]
           code == URL!digits[counter + 1]
<1>1. counter \in Nat /\ counter' = counter + 1
  BY DEF UrlInv, UrlShape, URL!Add
<1>2. URL!NextCode = code
  BY <1>1 DEF URL!NextCode, URL!toBase62
<1>3. /\ url \notin DOMAIN long2code
      /\ DOMAIN long2code' = DOMAIN long2code \cup {url}
      /\ DOMAIN code2long' = DOMAIN code2long \cup {code}
      /\ long2code'[url] = code /\ code2long'[code] = url
      /\ \A u \in DOMAIN long2code : u # url => long2code'[u] = long2code[u]
      /\ \A c \in DOMAIN code2long : c # code => code2long'[c] = code2long[c]
      /\ told' = told \cup {<<url, code>>}
  BY <1>2 DEF URL!Add, URL!With, URL!Tell
<1>4. code \notin DOMAIN code2long
  <2> SUFFICES ASSUME code \in DOMAIN code2long PROVE FALSE
    OBVIOUS
  <2>1. PICK id \in 1..counter : code = URL!digits[id]
    BY DEF UrlInv
  <2>2. id \in Nat /\ counter + 1 \in Nat /\ id # counter + 1
    BY <1>1
  <2> HIDE DEF code
  <2>3. QED
    BY <2>1, <2>2, CodesDiffer DEF code
<1> HIDE DEF url, code
<1>5. UrlShape'
  <2>1. /\ IsFiniteSet(DOMAIN long2code')
        /\ Cardinality(DOMAIN long2code') = Cardinality(DOMAIN long2code) + 1
    BY <1>3, FS_AddElement DEF UrlInv, UrlShape
  <2>2. /\ IsFiniteSet(DOMAIN code2long')
        /\ Cardinality(DOMAIN code2long') = Cardinality(DOMAIN code2long) + 1
    BY <1>3, <1>4, FS_AddElement DEF UrlInv, UrlShape
  <2>3. QED
    BY <1>1, <2>1, <2>2 DEF UrlInv, UrlShape
<1>6. \A c \in DOMAIN code2long' : \E id \in 1..counter' : c = URL!digits[id]
  <2>1. TAKE c \in DOMAIN code2long'
  <2>2. CASE c = code
    <3>1. counter + 1 \in 1..counter'
      BY <1>1
    <3>2. QED
      BY <2>2, <3>1 DEF code
  <2>3. CASE c \in DOMAIN code2long
    <3>1. PICK id \in 1..counter : c = URL!digits[id]
      BY <2>3 DEF UrlInv
    <3>2. id \in 1..counter'
      BY <1>1
    <3>3. QED
      BY <3>1, <3>2
  <2>4. QED
    BY <1>3, <2>2, <2>3
<1>7. (\A c \in DOMAIN code2long : \E id \in 1..counter : c = URL!digits[id])'
  BY <1>6 DEF URL!digits
<1>8. \A u \in DOMAIN long2code' :
        long2code'[u] \in DOMAIN code2long' /\ code2long'[long2code'[u]] = u
  BY <1>3, <1>4 DEF UrlInv
<1>9. \A a \in told' : a[1] \in DOMAIN long2code' /\ a[2] = long2code'[a[1]]
  <2>1. TAKE a \in told'
  <2>2. CASE a = <<url, code>>
    BY <1>3, <2>2
  <2>3. CASE a \in told
    BY <1>3, <2>3 DEF UrlInv
  <2>4. QED
    BY <1>3, <2>2, <2>3
<1>10. QED
  BY <1>5, <1>7, <1>8, <1>9 DEF UrlInv

LEMMA UrlStep == UrlInv /\ [URL!Next]_(URL!vars) => UrlInv'
<1> SUFFICES ASSUME UrlInv, [URL!Next]_(URL!vars) PROVE UrlInv'
  OBVIOUS
<1>1. ASSUME NEW g \in Callers, NEW url \in Urls, URL!ShortenFinds(g, url)
      PROVE  UrlInv'
  <2>1. missed' \in [Callers -> Urls \cup {NoUrl}]
    BY <1>1 DEF URL!ShortenFinds, UrlInv, UrlShape
  <2>2. QED
    BY <1>1, <2>1, FoundKeeps DEF URL!ShortenFinds
<1>2. CASE /\ missed' \in [Callers -> Urls \cup {NoUrl}]
           /\ UNCHANGED <<counter, long2code, code2long, told>>
  BY <1>2 DEF UrlInv, UrlShape, URL!digits
<1>3. ASSUME NEW g \in Callers, NEW url \in Urls, URL!ShortenMisses(g, url)
      PROVE  UrlInv'
  <2>1. missed' \in [Callers -> Urls \cup {NoUrl}]
    BY <1>3 DEF URL!ShortenMisses, UrlInv, UrlShape
  <2>2. QED
    BY <1>2, <1>3, <2>1 DEF URL!ShortenMisses
<1>4. ASSUME NEW g \in Callers, URL!ShortenLocked(g)
      PROVE  UrlInv'
  <2>1. missed' \in [Callers -> Urls \cup {NoUrl}] /\ missed[g] # NoUrl
    BY <1>4 DEF URL!ShortenLocked, UrlInv, UrlShape
  <2>2. CASE URL!FindsAfterAll(g)
    BY <2>1, <2>2, FoundKeeps DEF URL!FindsAfterAll
  <2>3. CASE URL!Add(g)
    BY <2>1, <2>3, AddKeeps
  <2>4. QED
    BY <1>4, <2>2, <2>3 DEF URL!ShortenLocked
<1>5. CASE UNCHANGED URL!vars
  BY <1>2, <1>5 DEF URL!vars, UrlInv, UrlShape
<1>6. QED
  BY <1>1, <1>3, <1>4, <1>5 DEF URL!Next

LEMMA UrlSafe == UrlInv => CodesForGood
<1> SUFFICES ASSUME UrlInv PROVE URL!OneCodeEach /\ URL!ResolvesBack
  BY DEF CodesForGood, URL!CodesForGood
<1>1. \A a, b \in told : a[1] = b[1] => a[2] = b[2]
  BY DEF UrlInv
<1>2. \A a \in told : URL!Resolve(a[2]) = {a[1]}
  <2>1. TAKE a \in told
  <2>2. a[2] \in DOMAIN code2long /\ code2long[a[2]] = a[1]
    BY DEF UrlInv
  <2>3. QED
    BY <2>2 DEF URL!Resolve
<1>3. /\ counter = URL!Cardinality(DOMAIN long2code)
      /\ URL!Cardinality(DOMAIN code2long) = URL!Cardinality(DOMAIN long2code)
  BY UrlCardinality DEF UrlInv, UrlShape
<1>4. QED
  BY <1>1, <1>2, <1>3 DEF URL!OneCodeEach, URL!ResolvesBack

-----------------------------------------------------------------------------
(* LRUCache.  What Get and Put use last is at the front, so what is cut off *)
(* the back is what has gone longest without.                               *)

(* A list of which no two elements are the same.                            *)
Distinct(s) == \A i, j \in 1..Len(s) : s[i] = s[j] => i = j

(* A list with e put in front of it.                                        *)
LEMMA PushFront ==
  ASSUME NEW S, NEW e \in S, NEW s \in Seq(S)
  PROVE  /\ <<e>> \o s \in Seq(S) /\ Len(<<e>> \o s) = Len(s) + 1
         /\ (<<e>> \o s)[1] = e
         /\ \A i \in 2..(Len(s) + 1) : (<<e>> \o s)[i] = s[i - 1]
<1>1. <<e>> \in Seq(S) /\ Len(<<e>>) = 1 /\ <<e>>[1] = e /\ Len(s) \in Nat
  BY LenProperties
<1> DEFINE h == <<e>>
<1> HIDE DEF h
<1>2. h \in Seq(S) /\ Len(h) = 1 /\ h[1] = e
  BY <1>1 DEF h
<1>3. /\ h \o s \in Seq(S) /\ Len(h \o s) = Len(h) + Len(s)
      /\ \A i \in 1..(Len(h) + Len(s)) :
           (h \o s)[i] = IF i <= Len(h) THEN h[i] ELSE s[i - Len(h)]
  BY <1>2, ConcatProperties
<1>4. /\ h \o s \in Seq(S) /\ Len(h \o s) = Len(s) + 1 /\ (h \o s)[1] = e
      /\ \A i \in 2..(Len(s) + 1) : (h \o s)[i] = s[i - 1]
  BY <1>1, <1>2, <1>3
<1>5. QED
  BY <1>4 DEF h

LEMMA PutFirst ==
  ASSUME NEW S, NEW e \in S, NEW s \in Seq(S), Distinct(s), \A i \in 1..Len(s) : s[i] # e
  PROVE  Distinct(<<e>> \o s)
<1> DEFINE t == <<e>> \o s
<1>1. /\ Len(s) \in Nat /\ Len(t) = Len(s) + 1 /\ t[1] = e
      /\ \A i \in 2..(Len(s) + 1) : t[i] = s[i - 1]
  BY PushFront, LenProperties
<1> HIDE DEF t
<1>2. ASSUME NEW i \in 1..Len(t), NEW j \in 1..Len(t), t[i] = t[j]
      PROVE  i = j
  <2>1. CASE i = 1 /\ j # 1
    <3>1. j - 1 \in 1..Len(s) /\ j \in 2..(Len(s) + 1)
      BY <1>1, <2>1
    <3>2. QED
      BY <1>1, <1>2, <2>1, <3>1
  <2>2. CASE i # 1 /\ j = 1
    <3>1. i - 1 \in 1..Len(s) /\ i \in 2..(Len(s) + 1)
      BY <1>1, <2>2
    <3>2. QED
      BY <1>1, <1>2, <2>2, <3>1
  <2>3. CASE i # 1 /\ j # 1
    <3>1. /\ i - 1 \in 1..Len(s) /\ i \in 2..(Len(s) + 1)
          /\ j - 1 \in 1..Len(s) /\ j \in 2..(Len(s) + 1)
      BY <1>1, <2>3
    <3>2. i - 1 = j - 1
      BY <1>1, <1>2, <3>1 DEF Distinct
    <3>3. QED
      BY <1>1, <3>2
  <2>4. QED
    BY <2>1, <2>2, <2>3
<1>3. QED
  BY <1>2 DEF Distinct, t

(* What is removed from a list without doubles has one place in it.         *)
LEMMA PlaceOf ==
  ASSUME NEW S, NEW s \in Seq(S), Distinct(s), NEW j \in 1..Len(s)
  PROVE  LRU!RemoveFirst(s, s[j]) = LRU!RemoveAt(s, j)
<1>1. {i \in 1..Len(s) : s[i] = s[j]} = {j}
  BY DEF Distinct
<1>2. LRU!Min({j}) = j
  BY DEF LRU!Min
<1>3. \E i \in 1..Len(s) : s[i] = s[j]
  OBVIOUS
<1>4. QED
  BY <1>1, <1>2, <1>3 DEF LRU!RemoveFirst, LRU!SelectInSeq

LEMMA Without ==
  ASSUME NEW S, NEW s \in Seq(S), NEW j \in 1..Len(s)
  PROVE  /\ LRU!RemoveAt(s, j) \in Seq(S) /\ Len(LRU!RemoveAt(s, j)) = Len(s) - 1
         /\ \A i \in 1..(Len(s) - 1) :
              LRU!RemoveAt(s, j)[i] = IF i < j THEN s[i] ELSE s[i + 1]
<1>1. Len(s) \in Nat /\ \A i \in 1..Len(s) : s[i] \in S
  BY LenProperties
<1> DEFINE a == SubSeq(s, 1, j - 1)
           b == SubSeq(s, j + 1, Len(s))
<1>2. /\ a \in Seq(S) /\ Len(a) = j - 1
      /\ \A i \in 1..(j - 1) : a[i] = s[i]
  <2>1. 1 \in 1..(Len(s) + 1) /\ j - 1 \in (1 - 1)..Len(s)
    BY <1>1
  <2>2. \A i \in 1..(j - 1) : s[i] \in S
    BY <1>1
  <2>3. QED
    BY <1>1, <2>1, <2>2, SubSeqProperties
<1>3. /\ b \in Seq(S) /\ Len(b) = Len(s) - j
      /\ \A i \in 1..(Len(s) - j) : b[i] = s[i + j]
  <2>1. \A i \in (j + 1)..Len(s) : s[i] \in S
    BY <1>1
  <2>2. /\ b \in Seq(S)
        /\ Len(b) = IF j + 1 <= Len(s) THEN Len(s) - (j + 1) + 1 ELSE 0
        /\ \A i \in 1..(Len(s) - (j + 1) + 1) : b[i] = s[j + 1 + i - 1]
    BY <1>1, <2>1, SubSeqProperties
  <2> HIDE DEF b
  <2>3. \A i \in 1..(Len(s) - j) : i \in 1..(Len(s) - (j + 1) + 1) /\ j + 1 + i - 1 = i + j
    BY <1>1
  <2>4. Len(b) = Len(s) - j
    BY <1>1, <2>2
  <2>5. ASSUME NEW i \in 1..(Len(s) - j) PROVE b[i] = s[i + j]
    BY <2>2, <2>3
  <2>6. QED
    BY <2>2, <2>4, <2>5
<1> HIDE DEF a, b
<1>4. /\ a \o b \in Seq(S) /\ Len(a \o b) = Len(a) + Len(b)
      /\ \A i \in 1..(Len(a) + Len(b)) :
           (a \o b)[i] = IF i <= Len(a) THEN a[i] ELSE b[i - Len(a)]
  BY <1>2, <1>3, ConcatProperties
<1>5. ASSUME NEW i \in 1..(Len(s) - 1)
      PROVE  (a \o b)[i] = IF i < j THEN s[i] ELSE s[i + 1]
  <2>1. i \in 1..(Len(a) + Len(b))
    BY <1>1, <1>2, <1>3
  <2>2. CASE i < j
    BY <1>1, <1>2, <1>4, <2>1, <2>2
  <2>3. CASE ~(i < j)
    <3>1. i - (j - 1) \in 1..(Len(s) - j) /\ i - (j - 1) + j = i + 1
      BY <1>1, <2>3
    <3>2. b[i - (j - 1)] = s[i + 1]
      BY <1>3, <3>1
    <3>3. (a \o b)[i] = b[i - (j - 1)]
      BY <1>1, <1>2, <1>4, <2>1, <2>3
    <3>4. QED
      BY <2>3, <3>2, <3>3
  <2>4. QED
    BY <2>2, <2>3
<1>6. Len(a \o b) = Len(s) - 1
  BY <1>1, <1>2, <1>3, <1>4
<1>7. LRU!RemoveAt(s, j) = a \o b
  BY DEF a, b, LRU!RemoveAt
<1>8. QED
  BY <1>4, <1>5, <1>6, <1>7, Zenon

(* The element of place j moved to the front: those before it make room.    *)
LEMMA ToFront ==
  ASSUME NEW S, NEW s \in Seq(S), Distinct(s), NEW j \in 1..Len(s)
  PROVE  LET t == <<s[j]>> \o LRU!RemoveFirst(s, s[j])
         IN  /\ t \in Seq(S) /\ Len(t) = Len(s) /\ Distinct(t) /\ t[1] = s[j]
             /\ \A i \in 2..Len(s) : t[i] = IF i <= j THEN s[i - 1] ELSE s[i]
<1> DEFINE r == LRU!RemoveFirst(s, s[j])
           t == <<s[j]>> \o r
<1>1. Len(s) \in Nat /\ s[j] \in S
  BY LenProperties
<1>2. /\ r \in Seq(S) /\ Len(r) = Len(s) - 1
      /\ \A i \in 1..(Len(s) - 1) : r[i] = IF i < j THEN s[i] ELSE s[i + 1]
  BY PlaceOf, Without
<1> HIDE DEF r
<1>3. Distinct(r) /\ \A i \in 1..Len(r) : r[i] # s[j]
  <2> DEFINE p(i) == IF i < j THEN i ELSE i + 1
  <2>1. \A i \in 1..Len(r) : p(i) \in 1..Len(s) /\ p(i) # j /\ r[i] = s[p(i)]
    BY <1>1, <1>2
  <2>2. \A i, k \in 1..Len(r) : p(i) = p(k) => i = k
    BY <1>1, <1>2
  <2> HIDE DEF p
  <2>3. QED
    BY <2>1, <2>2 DEF Distinct
<1>4. /\ t \in Seq(S) /\ Len(t) = Len(r) + 1 /\ t[1] = s[j]
      /\ \A i \in 2..(Len(r) + 1) : t[i] = r[i - 1]
  BY <1>1, <1>2, PushFront
<1>5. Distinct(t)
  BY <1>1, <1>2, <1>3, PutFirst
<1> HIDE DEF t
<1>6. ASSUME NEW i \in 2..Len(s)
      PROVE  t[i] = IF i <= j THEN s[i - 1] ELSE s[i]
  <2>1. i - 1 \in 1..(Len(s) - 1) /\ i \in 2..(Len(r) + 1) /\ i - 1 + 1 = i
    BY <1>1, <1>2
  <2>2. t[i] = r[i - 1]
    BY <1>4, <2>1
  <2>3. r[i - 1] = IF i - 1 < j THEN s[i - 1] ELSE s[i]
    BY <1>2, <2>1
  <2>4. i - 1 < j <=> i <= j
    BY <1>1
  <2>5. QED
    BY <2>2, <2>3, <2>4
<1>7. Len(t) = Len(s)
  BY <1>1, <1>2, <1>4
<1>8. QED
  BY <1>4, <1>5, <1>6, <1>7 DEF t, r

(* The list is, place by place, that of the keys used last; the map leads   *)
(* to its elements.                                                         *)
LruShape ==
  /\ recent \in Seq(Keys) /\ Distinct(recent)
  /\ order \in Seq(Nat) /\ Distinct(order)
  /\ Len(order) = LRU!Least(Capacity, Len(recent))

LruInv ==
  /\ LruShape
  /\ \A e : e \in DOMAIN element <=> \E i \in 1..Len(order) : e = order[i]
  /\ \A k : k \in DOMAIN items <=> \E i \in 1..Len(order) : k = recent[i]
  /\ \A i \in 1..Len(order) :
       /\ items[recent[i]] = order[i]
       /\ element[order[i]] = [key |-> recent[i], value |-> lastPut[recent[i]]]
  /\ \A i \in 1..Len(recent) : recent[i] \in DOMAIN lastPut

LEMMA LruLens ==
  ASSUME LruShape
  PROVE  /\ Len(order) \in Nat /\ Len(recent) \in Nat /\ Capacity \in Nat /\ Capacity > 0
         /\ Len(order) <= Len(recent) /\ Len(order) <= Capacity
         /\ Len(order) = Capacity \/ Len(order) = Len(recent)
         /\ DOMAIN order = 1..Len(order) /\ DOMAIN recent = 1..Len(recent)
<1>1. Len(order) \in Nat /\ DOMAIN order = 1..Len(order)
  BY LenProperties DEF LruShape
<1>2. Len(recent) \in Nat /\ DOMAIN recent = 1..Len(recent)
  BY LenProperties DEF LruShape
<1>3. Capacity \in Nat /\ Capacity > 0
  BY CapacityAssumption
<1>4. QED
  BY <1>1, <1>2, <1>3 DEF LruShape, LRU!Least

LEMMA LruInit == LRU!Init => LruInv
<1> SUFFICES ASSUME LRU!Init PROVE LruInv
  OBVIOUS
<1>1. items = <<>> /\ order = <<>> /\ element = <<>> /\ recent = <<>> /\ lastPut = <<>>
  BY DEF LRU!Init
<1>2. Len(<<>>) = 0 /\ DOMAIN <<>> = {} /\ <<>> \in Seq(Nat) /\ <<>> \in Seq(Keys)
  OBVIOUS
<1>3. Distinct(<<>>)
  BY DEF Distinct
<1>4. LRU!Least(Capacity, 0) = 0
  BY CapacityAssumption DEF LRU!Least
<1>5. LruShape
  BY <1>1, <1>2, <1>3, <1>4, Zenon DEF LruShape
<1>6. QED
  BY <1>1, <1>2, <1>5 DEF LruInv

(* A key that is found goes to the front, with its element.                 *)
LEMMA HitKeeps ==
  ASSUME LruInv, NEW key \in DOMAIN items, LRU!MoveToFront(items[key]), LRU!Use(key),
         items' = items, DOMAIN element' = DOMAIN element,
         \A i \in 1..Len(recent) : recent[i] \in DOMAIN lastPut',
         \A i \in 1..Len(order) :
           element'[order[i]] = [key |-> recent[i], value |-> lastPut'[recent[i]]]
  PROVE  LruInv'
<1>1. LruShape
  BY DEF LruInv
<1>2. PICK j \in 1..Len(order) : key = recent[j] /\ items[key] = order[j]
  <2>1. \A k : k \in DOMAIN items <=> \E i \in 1..Len(order) : k = recent[i]
    BY DEF LruInv
  <2>2. PICK j \in 1..Len(order) : key = recent[j]
    BY <2>1, Zenon
  <2>3. items[recent[j]] = order[j]
    BY DEF LruInv
  <2>4. QED
    BY <2>2, <2>3
<1>3. j \in 1..Len(recent) /\ Len(order) \in Nat /\ Len(recent) \in Nat /\ Len(order) <= Len(recent)
  <2>1. Len(order) \in Nat /\ Len(recent) \in Nat /\ Len(order) <= Len(recent)
    BY <1>1, LruLens, Zenon
  <2>2. QED
    BY <1>2, <2>1
<1>4. /\ order' \in Seq(Nat) /\ Len(order') = Len(order) /\ Distinct(order')
      /\ order'[1] = order[j]
      /\ \A i \in 2..Len(order) : order'[i] = IF i <= j THEN order[i - 1] ELSE order[i]
  <2>1. order' = <<order[j]>> \o LRU!RemoveFirst(order, order[j])
    BY <1>2 DEF LRU!MoveToFront
  <2>2. order \in Seq(Nat) /\ Distinct(order)
    BY <1>1 DEF LruShape
  <2>3. QED
    BY <1>2, <2>1, <2>2, ToFront
<1>5. /\ recent' \in Seq(Keys) /\ Len(recent') = Len(recent) /\ Distinct(recent')
      /\ recent'[1] = recent[j]
      /\ \A i \in 2..Len(recent) : recent'[i] = IF i <= j THEN recent[i - 1] ELSE recent[i]
  <2>1. recent' = <<recent[j]>> \o LRU!RemoveFirst(recent, recent[j])
    BY <1>2 DEF LRU!Use
  <2>2. recent \in Seq(Keys) /\ Distinct(recent)
    BY <1>1 DEF LruShape
  <2>3. QED
    BY <1>3, <2>1, <2>2, ToFront
<1> DEFINE p(i) == IF i = 1 THEN j ELSE IF i <= j THEN i - 1 ELSE i
           q(i) == IF i = j THEN 1 ELSE IF i < j THEN i + 1 ELSE i
<1>6. \A i \in 1..Len(order) : /\ p(i) \in 1..Len(order)
                              /\ order'[i] = order[p(i)] /\ recent'[i] = recent[p(i)]
  <2>1. TAKE i \in 1..Len(order)
  <2>2. CASE i = 1
    BY <1>2, <1>4, <1>5, <2>2
  <2>3. CASE i # 1
    BY <1>2, <1>3, <1>4, <1>5, <2>3
  <2>4. QED
    BY <2>2, <2>3
<1>7. \A i \in 1..Len(order) : q(i) \in 1..Len(order) /\ p(q(i)) = i
  BY <1>2, <1>3
<1>8. \A i \in 1..Len(recent) : recent'[i] \in DOMAIN lastPut'
  <2>1. TAKE i \in 1..Len(recent)
  <2>2. CASE i = 1
    BY <1>3, <1>5, <2>2
  <2>3. CASE i # 1 /\ i <= j
    BY <1>3, <1>5, <2>3
  <2>4. CASE i # 1 /\ ~(i <= j)
    BY <1>3, <1>5, <2>4
  <2>5. QED
    BY <2>2, <2>3, <2>4
<1> HIDE DEF p, q
<1>9. LruShape'
  BY <1>1, <1>4, <1>5 DEF LruShape, LRU!Least
<1> DEFINE I == 1..Len(order)
<1> HIDE DEF I
<1>10. ASSUME NEW i \in I
       PROVE  /\ \E k \in I : order'[i] = order[k] /\ recent'[i] = recent[k]
              /\ \E k \in I : order[i] = order'[k] /\ recent[i] = recent'[k]
  <2>1. p(i) \in I /\ order'[i] = order[p(i)] /\ recent'[i] = recent[p(i)]
    BY <1>6 DEF I
  <2>2. /\ q(i) \in I /\ order'[q(i)] = order[p(q(i))] /\ recent'[q(i)] = recent[p(q(i))]
        /\ p(q(i)) = i
    BY <1>6, <1>7 DEF I
  <2>3. order'[q(i)] = order[i] /\ recent'[q(i)] = recent[i]
    BY <2>2
  <2>4. QED
    BY <2>1, <2>2, <2>3
<1>11. ASSUME NEW e PROVE e \in DOMAIN element' <=> \E i \in I : e = order'[i]
  <2>1. e \in DOMAIN element' <=> \E i \in I : e = order[i]
    BY DEF LruInv, I
  <2>2. ASSUME NEW i \in I, e = order[i] PROVE \E k \in I : e = order'[k]
    BY <1>10, <2>2
  <2>3. ASSUME NEW i \in I, e = order'[i] PROVE \E k \in I : e = order[k]
    BY <1>10, <2>3
  <2>4. QED
    BY <2>1, <2>2, <2>3
<1>12. ASSUME NEW k PROVE k \in DOMAIN items' <=> \E i \in I : k = recent'[i]
  <2>1. k \in DOMAIN items' <=> \E i \in I : k = recent[i]
    BY DEF LruInv, I
  <2>2. ASSUME NEW i \in I, k = recent[i] PROVE \E m \in I : k = recent'[m]
    BY <1>10, <2>2
  <2>3. ASSUME NEW i \in I, k = recent'[i] PROVE \E m \in I : k = recent[m]
    BY <1>10, <2>3
  <2>4. QED
    BY <2>1, <2>2, <2>3
<1>13. \A i \in 1..Len(order) :
         /\ items'[recent'[i]] = order'[i]
         /\ element'[order'[i]] = [key |-> recent'[i], value |-> lastPut'[recent'[i]]]
  <2>1. \A i \in 1..Len(order) : items[recent[i]] = order[i]
    BY DEF LruInv
  <2>2. \A i \in 1..Len(order) :
          element'[order[i]] = [key |-> recent[i], value |-> lastPut'[recent[i]]]
    OBVIOUS
  <2>3. TAKE i \in 1..Len(order)
  <2>4. /\ items[recent[p(i)]] = order[p(i)]
        /\ element'[order[p(i)]] = [key |-> recent[p(i)], value |-> lastPut'[recent[p(i)]]]
    BY <1>6, <2>1, <2>2, Zenon
  <2>5. QED
    BY <1>6, <2>4
<1>14. QED
  <2>1. \A e : e \in DOMAIN element' <=> \E i \in 1..Len(order') : e = order'[i]
    BY <1>4, <1>11 DEF I
  <2>2. \A k : k \in DOMAIN items' <=> \E i \in 1..Len(order') : k = recent'[i]
    BY <1>4, <1>12 DEF I
  <2>3. QED
    BY <1>4, <1>5, <1>8, <1>9, <1>13, <2>1, <2>2 DEF LruInv

(* A new element has an address of its own.                                 *)
LEMMA NewElementThere ==
  ASSUME LruShape
  PROVE  LRU!NewElement \in Nat /\ \A i \in 1..Len(order) : order[i] # LRU!NewElement
<1> DEFINE L == Len(order)
<1>1. L \in Nat /\ DOMAIN order = 1..L
  BY LruLens
<1>2. \E e \in 1..(L + 1) : e \notin LRU!Range(order)
  <2> SUFFICES ASSUME 1..(L + 1) \subseteq LRU!Range(order) PROVE FALSE
    OBVIOUS
  <2>1. IsFiniteSet(1..L) /\ Cardinality(1..L) = L /\ Cardinality(1..(L + 1)) = L + 1
    <3>1. /\ IsFiniteSet(1..L) /\ Cardinality(1..L) = IF 1 > L THEN 0 ELSE L - 1 + 1
          /\ Cardinality(1..(L + 1)) = IF 1 > L + 1 THEN 0 ELSE L + 1 - 1 + 1
      BY <1>1, FS_Interval
    <3>2. QED
      BY <1>1, <3>1
  <2>2. order \in Surjection(1..L, LRU!Range(order))
    <3>1. order = [i \in 1..L |-> order[i]]
      BY <1>1 DEF LruShape
    <3>2. \A i \in 1..L : order[i] \in LRU!Range(order)
      BY <1>1 DEF LRU!Range
    <3>3. order \in [1..L -> LRU!Range(order)]
      BY <3>1, <3>2
    <3>4. \A e \in LRU!Range(order) : \E i \in 1..L : order[i] = e
      BY <1>1 DEF LRU!Range
    <3>5. QED
      BY <3>3, <3>4 DEF Surjection
  <2>3. IsFiniteSet(LRU!Range(order)) /\ Cardinality(LRU!Range(order)) <= L
    BY <2>1, <2>2, FS_Surjection
  <2>4. L + 1 <= Cardinality(LRU!Range(order)) /\ Cardinality(LRU!Range(order)) \in Nat
    BY <2>1, <2>3, FS_Subset, FS_CardinalityType
  <2>5. QED
    BY <1>1, <2>3, <2>4
<1>3. LRU!NewElement \in 1..(L + 1) /\ LRU!NewElement \notin LRU!Range(order)
  BY <1>2 DEF LRU!NewElement
<1>4. QED
  BY <1>1, <1>3 DEF LRU!Range

(* What is left of the list when the back is gone, if the cache is full.    *)
Left == IF LRU!Full THEN LRU!Front(order) ELSE order

LEMMA LeftOver ==
  ASSUME LruShape
  PROVE  /\ Left \in Seq(Nat) /\ Distinct(Left) /\ Len(Left) \in Nat /\ Len(Left) < Capacity
         /\ Len(Left) = IF LRU!Full THEN Len(order) - 1 ELSE Len(order)
         /\ \A i \in 1..Len(Left) : i \in 1..Len(order) /\ Left[i] = order[i]
         /\ LRU!Full => Len(order) = Capacity /\ Len(order) \in 1..Len(order)
         /\ ~LRU!Full => Len(order) = Len(recent)
<1>1. /\ Len(order) \in Nat /\ Capacity \in Nat /\ Capacity > 0 /\ Len(order) <= Capacity
      /\ Len(order) = Capacity \/ Len(order) = Len(recent)
      /\ order \in Seq(Nat) /\ Distinct(order)
  BY LruLens DEF LruShape
<1>2. LRU!Full <=> Len(order) = Capacity
  BY <1>1 DEF LRU!Full
<1>3. CASE ~LRU!Full
  BY <1>1, <1>2, <1>3 DEF Left
<1>4. CASE LRU!Full
  <2>1. 1 \in 1..(Len(order) + 1) /\ Len(order) - 1 \in (1 - 1)..Len(order)
    BY <1>1, <1>2, <1>4
  <2>2. \A i \in 1..(Len(order) - 1) : order[i] \in Nat
    BY <1>1, LenProperties
  <2> DEFINE f == SubSeq(order, 1, Len(order) - 1)
  <2>3. /\ f \in Seq(Nat)
        /\ Len(f) = IF 1 <= Len(order) - 1 THEN Len(order) - 1 - 1 + 1 ELSE 0
        /\ \A i \in 1..(Len(order) - 1 - 1 + 1) : f[i] = order[1 + i - 1]
    BY <1>1, <2>1, <2>2, SubSeqProperties
  <2> HIDE DEF f
  <2>4. Len(f) = Len(order) - 1 /\ Len(f) \in Nat /\ Len(f) < Capacity /\ Len(order) \in 1..Len(order)
    BY <1>1, <1>2, <1>4, <2>3
  <2>5. ASSUME NEW i \in 1..Len(f) PROVE i \in 1..Len(order) /\ f[i] = order[i]
    <3>1. i \in 1..(Len(order) - 1 - 1 + 1) /\ 1 + i - 1 = i /\ i \in 1..Len(order)
      BY <1>1, <2>4
    <3>2. QED
      BY <2>3, <3>1
  <2>6. Distinct(f)
    BY <1>1, <2>5 DEF Distinct
  <2>7. Left = f
    BY <1>4 DEF Left, LRU!Front, f
  <2>8. QED
    BY <1>2, <1>4, <2>3, <2>4, <2>5, <2>6, <2>7
<1>5. QED
  BY <1>3, <1>4

(* A key that is new to the cache, whether or not it has been in it before, *)
(* goes before those that were used since.                                  *)
LEMMA UsedFirst ==
  ASSUME LruShape, NEW key \in Keys, LRU!Use(key), NEW m \in Nat, m <= Len(recent),
         \A i \in 1..m : recent[i] # key
  PROVE  /\ recent' \in Seq(Keys) /\ Distinct(recent') /\ Len(recent') > m
         /\ Len(recent') = Len(recent) \/ Len(recent') = Len(recent) + 1
         /\ m = Len(recent) => Len(recent') = Len(recent) + 1
         /\ recent'[1] = key /\ \A i \in 1..m : recent'[i + 1] = recent[i]
         /\ \A i \in 1..Len(recent') : recent'[i] = key \/ \E k \in 1..Len(recent) : recent'[i] = recent[k]
<1>1. recent \in Seq(Keys) /\ Distinct(recent) /\ Len(recent) \in Nat
  BY LenProperties DEF LruShape
<1>2. recent' = <<key>> \o LRU!RemoveFirst(recent, key)
  BY DEF LRU!Use
<1>3. CASE \A i \in 1..Len(recent) : recent[i] # key
  <2>1. LRU!RemoveFirst(recent, key) = recent
    BY <1>3 DEF LRU!RemoveFirst
  <2>2. /\ recent' \in Seq(Keys) /\ Len(recent') = Len(recent) + 1 /\ recent'[1] = key
        /\ \A i \in 2..(Len(recent) + 1) : recent'[i] = recent[i - 1]
    BY <1>1, <1>2, <2>1, PushFront
  <2>3. Distinct(recent')
    BY <1>1, <1>2, <1>3, <2>1, PutFirst
  <2>4. ASSUME NEW i \in 1..m PROVE recent'[i + 1] = recent[i]
    <3>1. i + 1 \in 2..(Len(recent) + 1) /\ i + 1 - 1 = i
      BY <1>1
    <3>2. QED
      BY <2>2, <3>1
  <2>5. ASSUME NEW i \in 1..Len(recent')
        PROVE  recent'[i] = key \/ \E k \in 1..Len(recent) : recent'[i] = recent[k]
    <3>1. Len(recent') = Len(recent) + 1 /\ Len(recent) \in Nat
      BY <1>1, <2>2
    <3>2. i \in 1..(Len(recent) + 1)
      BY <3>1
    <3>3. CASE i = 1
      BY <2>2, <3>3
    <3>4. CASE i # 1
      <4>1. i \in 2..(Len(recent) + 1) /\ i - 1 \in 1..Len(recent)
        BY <3>1, <3>2, <3>4
      <4>2. recent'[i] = recent[i - 1]
        BY <2>2, <4>1
      <4>3. QED
        BY <4>1, <4>2
    <3>5. QED
      BY <3>3, <3>4
  <2>6. Len(recent') > m
    BY <1>1, <2>2
  <2>7. QED
    BY <1>1, <2>2, <2>3, <2>4, <2>5, <2>6
<1>4. CASE \E j \in 1..Len(recent) : recent[j] = key
  <2>1. PICK j \in 1..Len(recent) : recent[j] = key
    BY <1>4
  <2>2. m < j /\ j <= Len(recent) /\ m # Len(recent)
    BY <1>1, <2>1
  <2>3. recent' = <<recent[j]>> \o LRU!RemoveFirst(recent, recent[j])
    BY <1>2, <2>1
  <2>4. /\ recent' \in Seq(Keys) /\ Len(recent') = Len(recent) /\ Distinct(recent')
        /\ recent'[1] = recent[j]
        /\ \A i \in 2..Len(recent) : recent'[i] = IF i <= j THEN recent[i - 1] ELSE recent[i]
    BY <1>1, <2>3, ToFront
  <2>5. ASSUME NEW i \in 1..m PROVE recent'[i + 1] = recent[i]
    <3>1. i + 1 \in 2..Len(recent) /\ i + 1 <= j /\ i + 1 - 1 = i
      BY <1>1, <2>2
    <3>2. recent'[i + 1] = recent[i + 1 - 1]
      BY <2>4, <3>1
    <3>3. QED
      BY <3>1, <3>2
  <2>6. ASSUME NEW i \in 1..Len(recent')
        PROVE  recent'[i] = key \/ \E k \in 1..Len(recent) : recent'[i] = recent[k]
    <3>1. Len(recent') = Len(recent) /\ Len(recent) \in Nat
      BY <1>1, <2>4
    <3>2. i \in 1..Len(recent)
      BY <3>1
    <3>3. CASE i = 1
      BY <2>1, <2>4, <3>3
    <3>4. CASE i # 1
      <4>1. i \in 2..Len(recent) /\ i - 1 \in 1..Len(recent) /\ i \in 1..Len(recent)
        BY <3>1, <3>2, <3>4
      <4>2. recent'[i] = recent[i - 1] \/ recent'[i] = recent[i]
        BY <2>4, <4>1
      <4>3. QED
        BY <4>1, <4>2
    <3>5. QED
      BY <3>3, <3>4
  <2>7. Len(recent') > m
    BY <1>1, <2>2, <2>4
  <2>8. QED
    BY <2>1, <2>2, <2>4, <2>5, <2>6, <2>7
<1>5. QED
  BY <1>3, <1>4

(* The entry of a place is that of the key used so long ago.                *)
LEMMA EntryKey ==
  ASSUME LruInv, NEW j \in 1..Len(order)
  PROVE  element[order[j]].key = recent[j]
<1>1. element[order[j]] = [key |-> recent[j], value |-> lastPut[recent[j]]]
  BY DEF LruInv
<1>2. QED
  BY <1>1

LEMMA NewKeeps ==
  ASSUME LruInv, NEW key \in Keys, NEW value, LRU!PutNew(key, value), LRU!Use(key),
         lastPut' = [k \in DOMAIN lastPut \cup {key} |-> IF k = key THEN value ELSE lastPut[k]]
  PROVE  LruInv'
<1> DEFINE N == LRU!NewElement
           m == Len(Left)
<1>1. LruShape /\ Len(order) \in Nat /\ Len(recent) \in Nat /\ Len(order) <= Len(recent)
  BY LruLens DEF LruInv
<1>2. /\ Left \in Seq(Nat) /\ Distinct(Left) /\ m \in Nat /\ m < Capacity
      /\ m = IF LRU!Full THEN Len(order) - 1 ELSE Len(order)
      /\ \A i \in 1..m : i \in 1..Len(order) /\ Left[i] = order[i]
      /\ LRU!Full => Len(order) = Capacity /\ Len(order) \in 1..Len(order)
      /\ ~LRU!Full => Len(order) = Len(recent)
  BY <1>1, LeftOver
<1>3. N \in Nat /\ \A i \in 1..Len(order) : order[i] # N
  BY <1>1, NewElementThere
<1>4. order' = <<N>> \o Left
  BY DEF LRU!PutNew, LRU!Pushed, Left
<1> HIDE DEF N, m
<1>5. /\ order' \in Seq(Nat) /\ Len(order') = m + 1 /\ order'[1] = N /\ Distinct(order')
      /\ \A i \in 2..(m + 1) : order'[i] = Left[i - 1]
  <2>1. \A i \in 1..Len(Left) : Left[i] # N
    BY <1>2, <1>3 DEF m
  <2>2. Distinct(order')
    BY <1>2, <1>3, <1>4, <2>1, PutFirst
  <2>3. /\ <<N>> \o Left \in Seq(Nat) /\ Len(<<N>> \o Left) = Len(Left) + 1
        /\ (<<N>> \o Left)[1] = N
        /\ \A i \in 2..(Len(Left) + 1) : (<<N>> \o Left)[i] = Left[i - 1]
    BY <1>2, <1>3, PushFront
  <2>4. QED
    BY <1>4, <2>2, <2>3, Zenon DEF m
<1>6. \A i \in 1..m : i \in 1..Len(order) /\ order'[i + 1] = order[i]
  <2>1. TAKE i \in 1..m
  <2>2. i + 1 \in 2..(m + 1) /\ i + 1 - 1 = i
    BY <1>2
  <2>3. QED
    BY <1>2, <1>5, <2>2
<1>7. \A i \in 1..Len(order) : recent[i] # key
  <2>1. \A i \in 1..Len(order) : recent[i] \in DOMAIN items
    BY DEF LruInv
  <2>2. key \notin DOMAIN items
    BY DEF LRU!PutNew
  <2>3. QED
    BY <2>1, <2>2
<1>8. /\ recent' \in Seq(Keys) /\ Distinct(recent') /\ Len(recent') > Len(order)
      /\ Len(recent') = Len(recent) \/ Len(recent') = Len(recent) + 1
      /\ Len(order) = Len(recent) => Len(recent') = Len(recent) + 1
      /\ recent'[1] = key /\ \A i \in 1..Len(order) : recent'[i + 1] = recent[i]
      /\ \A i \in 1..Len(recent') :
           recent'[i] = key \/ \E k \in 1..Len(recent) : recent'[i] = recent[k]
  BY <1>1, <1>7, UsedFirst
<1>9. LruShape'
  <2>1. m + 1 = LRU!Least(Capacity, Len(recent'))
    <3>1. Capacity \in Nat /\ m \in Nat /\ m < Capacity /\ Len(recent') \in Nat
      <4>1. Len(recent') \in Nat
        BY <1>8, LenProperties
      <4>2. QED
        BY <1>1, <1>2, <4>1, LruLens
    <3>2. CASE LRU!Full
      <4>1. m = Capacity - 1 /\ Capacity < Len(recent')
        BY <1>1, <1>2, <1>8, <3>1, <3>2
      <4>2. QED
        BY <3>1, <4>1 DEF LRU!Least
    <3>3. CASE ~LRU!Full
      <4>1. m = Len(recent) /\ Len(recent') = Len(recent) + 1
        BY <1>2, <1>8, <3>3
      <4>2. m + 1 = Len(recent') /\ ~(Capacity < m + 1)
        BY <3>1, <4>1
      <4>3. QED
        BY <4>2 DEF LRU!Least
    <3>4. QED
      BY <3>2, <3>3
  <2>2. QED
    BY <1>5, <1>8, <2>1 DEF LruShape, LRU!Least
<1>10. \A i \in 1..(m + 1) :
         \/ i = 1 /\ order'[i] = N /\ recent'[i] = key
         \/ \E k \in 1..m : i = k + 1 /\ order'[i] = order[k] /\ recent'[i] = recent[k]
  <2>1. TAKE i \in 1..(m + 1)
  <2>2. CASE i = 1
    BY <1>5, <1>8, <2>2
  <2>3. CASE i # 1
    <3>1. i - 1 \in 1..m /\ i = i - 1 + 1
      BY <1>2, <2>3
    <3>2. order'[i] = order[i - 1] /\ recent'[i] = recent[i - 1]
      BY <1>6, <1>8, <3>1
    <3>3. QED
      BY <3>1, <3>2
  <2>4. QED
    BY <2>2, <2>3
<1>11. \A k \in 1..m : k + 1 \in 1..(m + 1) /\ order'[k + 1] = order[k] /\ recent'[k + 1] = recent[k]
  BY <1>2, <1>6, <1>8
<1>12. \A e : e \in DOMAIN element' <=> \E i \in 1..(m + 1) : e = order'[i]
  <2>1. DOMAIN element' = LRU!Range(order')
    BY DEF LRU!PutNew
  <2>2. DOMAIN order' = 1..(m + 1)
    BY <1>5, LenProperties
  <2>3. QED
    BY <2>1, <2>2 DEF LRU!Range
<1>13. ASSUME NEW k \in 1..m PROVE recent[k] \in DOMAIN items /\ recent[k] \notin LRU!Evicted
  <2>1. k \in 1..Len(order)
    BY <1>6
  <2>2. recent[k] \in DOMAIN items
    BY <2>1 DEF LruInv
  <2>3. CASE LRU!Full
    <3>1. LRU!Evicted = {recent[Len(order)]}
      <4>1. element[order[Len(order)]].key = recent[Len(order)]
        BY <1>2, <2>3, EntryKey
      <4>2. QED
        BY <2>3, <4>1 DEF LRU!Evicted, LRU!Last
    <3>2. k # Len(order) /\ Len(order) \in 1..Len(recent) /\ k \in 1..Len(recent)
      BY <1>1, <1>2, <2>1, <2>3
    <3>3. recent[k] # recent[Len(order)]
      BY <1>1, <3>2 DEF LruShape, Distinct
    <3>4. QED
      BY <2>2, <3>1, <3>3
  <2>4. CASE ~LRU!Full
    BY <2>2, <2>4 DEF LRU!Evicted
  <2>5. QED
    BY <2>3, <2>4
<1>14. ASSUME NEW k \in DOMAIN items, k \notin LRU!Evicted PROVE \E i \in 1..m : k = recent[i]
  <2>1. PICK i \in 1..Len(order) : k = recent[i]
    <3>1. k \in DOMAIN items <=> \E i \in 1..Len(order) : k = recent[i]
      BY DEF LruInv
    <3>2. QED
      BY <1>14, <3>1, Zenon
  <2>2. CASE LRU!Full
    <3>1. element[order[Len(order)]].key = recent[Len(order)]
      BY <1>2, <2>2, EntryKey
    <3>2. k # recent[Len(order)]
      BY <1>14, <2>2, <3>1 DEF LRU!Evicted, LRU!Last
    <3>3. i \in 1..m
      BY <1>1, <1>2, <2>1, <2>2, <3>2
    <3>4. QED
      BY <2>1, <3>3
  <2>3. CASE ~LRU!Full
    BY <1>2, <2>1, <2>3
  <2>4. QED
    BY <2>2, <2>3
<1>15. /\ DOMAIN items' = (DOMAIN items \ LRU!Evicted) \cup {key} /\ items'[key] = N
       /\ \A k \in DOMAIN items' : k # key => items'[k] = items[k]
       /\ \A e \in DOMAIN element' :
            element'[e] = IF e = N THEN [key |-> key, value |-> value] ELSE element[e]
  BY DEF LRU!PutNew, N
<1>16. ASSUME NEW k PROVE k \in DOMAIN items' <=> \E i \in 1..(m + 1) : k = recent'[i]
  <2>1. ASSUME k \in DOMAIN items' PROVE \E i \in 1..(m + 1) : k = recent'[i]
    <3>1. CASE k = key
      <4>1. 1 \in 1..(m + 1)
        BY <1>2
      <4>2. QED
        BY <1>8, <3>1, <4>1
    <3>2. CASE k # key
      <4>1. PICK i \in 1..m : k = recent[i]
        BY <1>14, <1>15, <2>1, <3>2
      <4>2. QED
        BY <1>11, <4>1
    <3>3. QED
      BY <3>1, <3>2
  <2>2. ASSUME NEW i \in 1..(m + 1), k = recent'[i] PROVE k \in DOMAIN items'
    BY <1>10, <1>13, <1>15, <2>2
  <2>3. QED
    BY <2>1, <2>2
<1>17. ASSUME NEW i \in 1..(m + 1)
       PROVE  /\ items'[recent'[i]] = order'[i]
              /\ element'[order'[i]] = [key |-> recent'[i], value |-> lastPut'[recent'[i]]]
  <2>1. order'[i] \in DOMAIN element' /\ recent'[i] \in DOMAIN items'
    BY <1>12, <1>16
  <2>2. CASE i = 1
    <3>1. order'[i] = N /\ recent'[i] = key
      BY <1>5, <1>8, <2>2
    <3>2. lastPut'[key] = value
      OBVIOUS
    <3>3. QED
      BY <1>15, <2>1, <3>1, <3>2
  <2>3. CASE i # 1
    <3>1. PICK k \in 1..m : order'[i] = order[k] /\ recent'[i] = recent[k]
      BY <1>10, <2>3
    <3>2. k \in 1..Len(order) /\ k \in 1..Len(recent)
      BY <1>1, <1>6
    <3>3. recent[k] # key /\ order[k] # N
      BY <1>3, <1>7, <3>2
    <3>4. recent[k] \in DOMAIN lastPut
      BY <3>2 DEF LruInv
    <3>5. lastPut'[recent[k]] = lastPut[recent[k]]
      BY <3>3, <3>4
    <3>6. items'[recent[k]] = items[recent[k]] /\ element'[order[k]] = element[order[k]]
      BY <1>15, <2>1, <3>1, <3>3
    <3>7. /\ items[recent[k]] = order[k]
          /\ element[order[k]] = [key |-> recent[k], value |-> lastPut[recent[k]]]
      BY <3>2 DEF LruInv
    <3>8. QED
      BY <3>1, <3>5, <3>6, <3>7
  <2>4. QED
    BY <2>2, <2>3
<1>18. \A i \in 1..Len(recent') : recent'[i] \in DOMAIN lastPut'
  <2>1. \A i \in 1..Len(recent) : recent[i] \in DOMAIN lastPut
    BY DEF LruInv
  <2>2. DOMAIN lastPut' = DOMAIN lastPut \cup {key}
    OBVIOUS
  <2>3. QED
    BY <1>8, <2>1, <2>2
<1>19. QED
  <2>1. Len(order') = m + 1
    BY <1>5
  <2>2. \A k : k \in DOMAIN items' <=> \E i \in 1..Len(order') : k = recent'[i]
    BY <1>16, <2>1
  <2>3. \A e : e \in DOMAIN element' <=> \E i \in 1..Len(order') : e = order'[i]
    BY <1>12, <2>1
  <2>4. \A i \in 1..Len(order') :
          /\ items'[recent'[i]] = order'[i]
          /\ element'[order'[i]] = [key |-> recent'[i], value |-> lastPut'[recent'[i]]]
    BY <1>17, <2>1
  <2>5. QED
    BY <1>9, <1>18, <2>2, <2>3, <2>4 DEF LruInv

LEMMA LruStep == LruInv /\ [LRU!Next]_(LRU!vars) => LruInv'
<1> SUFFICES ASSUME LruInv, [LRU!Next]_(LRU!vars) PROVE LruInv'
  OBVIOUS
<1>1. \A i \in 1..Len(order) :
        element[order[i]] = [key |-> recent[i], value |-> lastPut[recent[i]]]
  BY DEF LruInv
<1>2. \A i \in 1..Len(recent) : recent[i] \in DOMAIN lastPut
  BY DEF LruInv
<1>3. ASSUME NEW key \in Keys, LRU!GetHit(key) PROVE LruInv'
  <2>1. /\ key \in DOMAIN items /\ LRU!MoveToFront(items[key]) /\ LRU!Use(key)
        /\ items' = items /\ element' = element /\ lastPut' = lastPut
    BY <1>3 DEF LRU!GetHit
  <2>2. \A i \in 1..Len(order) :
          element'[order[i]] = [key |-> recent[i], value |-> lastPut'[recent[i]]]
    BY <1>1, <2>1
  <2>3. \A i \in 1..Len(recent) : recent[i] \in DOMAIN lastPut'
    BY <1>2, <2>1
  <2>4. QED
    BY <2>1, <2>2, <2>3, HitKeeps
<1>4. ASSUME NEW key \in Keys, NEW value \in Values, LRU!Put(key, value) PROVE LruInv'
  <2>1. /\ LRU!Use(key)
        /\ lastPut' = [k \in DOMAIN lastPut \cup {key} |-> IF k = key THEN value ELSE lastPut[k]]
    BY <1>4 DEF LRU!Put
  <2>2. CASE LRU!PutNew(key, value)
    BY <2>1, <2>2, NewKeeps
  <2>3. CASE LRU!PutAgain(key, value)
    <3>1. /\ key \in DOMAIN items /\ LRU!MoveToFront(items[key]) /\ items' = items
          /\ element' = [element EXCEPT ![items[key]].value = value]
      BY <2>3 DEF LRU!PutAgain
    <3>2. \A i \in 1..Len(recent) : recent[i] \in DOMAIN lastPut'
      BY <1>2, <2>1
    <3>3. PICK j \in 1..Len(order) : key = recent[j] /\ items[key] = order[j]
      <4>1. key \in DOMAIN items <=> \E i \in 1..Len(order) : key = recent[i]
        BY DEF LruInv
      <4>2. PICK j \in 1..Len(order) : key = recent[j]
        BY <3>1, <4>1, Zenon
      <4>3. items[recent[j]] = order[j]
        BY DEF LruInv
      <4>4. QED
        BY <4>2, <4>3
    <3>4. DOMAIN element' = DOMAIN element
      BY <3>1
    <3>5. /\ LruShape /\ Len(order) \in Nat /\ Len(recent) \in Nat /\ Len(order) <= Len(recent)
      BY LruLens DEF LruInv
    <3>6. ASSUME NEW i \in 1..Len(order)
          PROVE  element'[order[i]] = [key |-> recent[i], value |-> lastPut'[recent[i]]]
      <4>1. order[i] \in DOMAIN element /\ i \in 1..Len(recent) /\ j \in 1..Len(recent)
        <5>1. order[i] \in DOMAIN element <=> \E k \in 1..Len(order) : order[i] = order[k]
          BY DEF LruInv
        <5>2. QED
          BY <3>5, <5>1
      <4>2. element[order[i]] = [key |-> recent[i], value |-> lastPut[recent[i]]]
        BY <1>1
      <4>3. CASE i = j
        <5>1. element'[order[i]] = [element[order[i]] EXCEPT !.value = value]
          BY <3>1, <3>3, <4>1, <4>3
        <5>2. lastPut'[recent[i]] = value
          BY <2>1, <3>3, <4>3
        <5>3. QED
          BY <4>2, <5>1, <5>2
      <4>4. CASE i # j
        <5>1. order[i] # order[j] /\ recent[i] # key
          BY <3>3, <3>5, <4>1, <4>4 DEF LruShape, Distinct
        <5>2. element'[order[i]] = element[order[i]]
          BY <3>1, <3>3, <4>1, <5>1
        <5>3. lastPut'[recent[i]] = lastPut[recent[i]]
          BY <1>2, <2>1, <4>1, <5>1
        <5>4. QED
          BY <4>2, <5>2, <5>3
      <4>5. QED
        BY <4>3, <4>4
    <3>7. QED
      BY <2>1, <3>1, <3>2, <3>4, <3>6, HitKeeps
  <2>4. QED
    BY <1>4, <2>2, <2>3 DEF LRU!Put
<1>5. CASE UNCHANGED <<items, order, element, recent, lastPut>>
  BY <1>5 DEF LruInv, LruShape, LRU!Least
<1>6. QED
  BY <1>3, <1>4, <1>5 DEF LRU!Next, LRU!vars, LRU!GetMiss

LEMMA LruCardinality == \A S : LRU!Cardinality(S) = Cardinality(S)
BY DEF LRU!Cardinality, Cardinality

LEMMA LruSafe == LruInv => KeepsLastUsed
<1> SUFFICES ASSUME LruInv PROVE LRU!MapMatchesList /\ LRU!HoldsMostRecent
  BY DEF KeepsLastUsed, LRU!KeepsLastUsed
<1>1. /\ LruShape /\ Len(order) \in Nat /\ Len(recent) \in Nat /\ Len(order) <= Len(recent)
      /\ DOMAIN order = 1..Len(order)
  BY LruLens DEF LruInv
<1>2. \A i \in 1..Len(order) :
        /\ items[recent[i]] = order[i]
        /\ element[order[i]] = [key |-> recent[i], value |-> lastPut[recent[i]]]
        /\ recent[i] \in DOMAIN items
  BY DEF LruInv
<1>3. \A k \in DOMAIN items : \E i \in 1..Len(order) : k = recent[i]
  <2>1. \A k : k \in DOMAIN items <=> \E i \in 1..Len(order) : k = recent[i]
    BY DEF LruInv
  <2>2. QED
    BY <2>1, Zenon
<1>4. ASSUME NEW k \in DOMAIN items
      PROVE  items[k] \in LRU!Range(order) /\ element[items[k]].key = k
  <2>1. PICK i \in 1..Len(order) : k = recent[i]
    BY <1>3
  <2>2. items[k] = order[i] /\ element[order[i]].key = k
    BY <1>2, <2>1, EntryKey
  <2>3. QED
    BY <1>1, <2>2 DEF LRU!Range
<1>5. Len(order) = Cardinality(DOMAIN items)
  <2> DEFINE f == [i \in 1..Len(order) |-> recent[i]]
  <2>1. f \in [1..Len(order) -> DOMAIN items]
    BY <1>2
  <2>2. \A i, j \in 1..Len(order) : f[i] = f[j] => i = j
    <3>1. \A i \in 1..Len(order) : i \in 1..Len(recent)
      BY <1>1
    <3>2. QED
      BY <1>1, <3>1 DEF LruShape, Distinct
  <2>3. \A k \in DOMAIN items : \E i \in 1..Len(order) : f[i] = k
    BY <1>3
  <2> HIDE DEF f
  <2>4. ExistsBijection(1..Len(order), DOMAIN items)
    <3>1. f \in Bijection(1..Len(order), DOMAIN items)
      BY <2>1, <2>2, <2>3 DEF Bijection, Injection, Surjection, IsInjective
    <3>2. QED
      BY <3>1 DEF ExistsBijection
  <2>5. QED
    BY <1>1, <2>4, FS_CountingElements
<1>6. LRU!MapMatchesList
  BY <1>4, <1>5, LruCardinality DEF LRU!MapMatchesList
<1>7. LRU!HoldsMostRecent
  <2>1. LRU!Least(Capacity, Len(recent)) = Len(order)
    BY <1>1 DEF LruShape
  <2>2. [i \in DOMAIN order |-> element[order[i]]]
          = [i \in 1..Len(order) |-> [key |-> recent[i], value |-> lastPut[recent[i]]]]
    BY <1>1, <1>2
  <2>3. QED
    BY <2>1, <2>2, Zenon DEF LRU!HoldsMostRecent
<1>8. QED
  BY <1>6, <1>7

-----------------------------------------------------------------------------
(* ProcessMonitor.  A pid is still to come to, open or listed, and one that *)
(* has stayed is one of these.                                              *)

MonitorShape ==
  /\ alive \subseteq Pids /\ n \in Nat /\ phase \in {"called", "listing", "returned"}
  /\ entries \in Seq(Pids)
  /\ file \in [pid : Pids \cup {0}, gone : BOOLEAN] /\ (file.pid = 0 => ~file.gone)
  /\ procs \in Seq([pid : Pids, size : Int, blank : BOOLEAN])
  /\ phase = "called" => entries = <<>> /\ procs = <<>>
  /\ phase # "listing" => entries = <<>> /\ file = PS!NoFile

(* A pid is still to come to, open or listed, and that once.                *)
PidsOnce ==
  /\ Distinct(entries)
  /\ \A i, j \in 1..Len(procs) : procs[i].pid = procs[j].pid => i = j
  /\ \A i \in 1..Len(entries), j \in 1..Len(procs) : entries[i] # procs[j].pid
  /\ \A i \in 1..Len(entries) : entries[i] # file.pid
  /\ \A i \in 1..Len(procs) : procs[i].pid # file.pid

(* Who has stayed is one of them, and not one that is gone; the others were *)
(* there at first.                                                          *)
Staying ==
  /\ \A i \in 1..Len(entries) : entries[i] \in globbed
  /\ \A i \in 1..Len(procs) : procs[i].pid \in globbed
  /\ file.pid # 0 => file.pid \in globbed
  /\ stayed \subseteq alive
  /\ \A p \in stayed : \/ p = file.pid
                       \/ \E i \in 1..Len(entries) : entries[i] = p
                       \/ \E i \in 1..Len(procs) : procs[i].pid = p
  /\ file.gone => file.pid \notin stayed
  /\ \A i \in 1..Len(procs) : procs[i].blank => procs[i].pid \notin stayed

(* The n largest, in order.                                                 *)
TopOf ==
  /\ PS!ToSet(top) \subseteq PS!ToSet(procs) /\ Len(top) = PS!Min({n, Len(procs)})
  /\ \A i \in DOMAIN top, p \in PS!ToSet(procs) :
       p.size <= top[i].size \/ \E j \in 1..(i - 1) : top[j] = p

MonitorInv ==
  MonitorShape /\ PidsOnce /\ Staying /\ (phase = "returned" => TopOf)

LEMMA MonitorInit == PS!Init => MonitorInv
<1> SUFFICES ASSUME PS!Init PROVE MonitorInv
  OBVIOUS
<1>1. /\ alive \subseteq Pids /\ phase = "called" /\ n \in Nat /\ stayed = {}
      /\ entries = <<>> /\ file = PS!NoFile /\ procs = <<>>
  BY ProcessAssumption DEF PS!Init
<1>2. /\ PS!NoFile \in [pid : Pids \cup {0}, gone : BOOLEAN]
      /\ PS!NoFile.pid = 0 /\ PS!NoFile.gone = FALSE
  BY DEF PS!NoFile
<1>3. 1..Len(entries) = {} /\ 1..Len(procs) = {}
  BY <1>1
<1>4. MonitorShape
  BY <1>1, <1>2 DEF MonitorShape
<1>5. PidsOnce
  BY <1>3 DEF PidsOnce, Distinct
<1>6. Staying
  BY <1>1, <1>2, <1>3 DEF Staying
<1>7. QED
  BY <1>1, <1>4, <1>5, <1>6 DEF MonitorInv

LEMMA BirthKeeps ==
  ASSUME MonitorInv, NEW p \in Pids, PS!Birth(p)
  PROVE  MonitorInv'
<1>1. /\ alive' = alive \cup {p} /\ phase = "listing"
      /\ UNCHANGED <<phase, n, entries, procs, top, globbed, file, stayed>>
  BY DEF PS!Birth, PS!callVars
<1>2. MonitorShape'
  BY <1>1 DEF MonitorInv, MonitorShape, PS!NoFile
<1>3. PidsOnce'
  BY <1>1 DEF MonitorInv, PidsOnce, Distinct
<1>4. Staying'
  BY <1>1 DEF MonitorInv, Staying
<1>5. QED
  BY <1>1, <1>2, <1>3, <1>4 DEF MonitorInv

LEMMA ExitKeeps ==
  ASSUME MonitorInv, NEW p \in Pids, PS!Exit(p)
  PROVE  MonitorInv'
<1>1. /\ alive' = alive \ {p} /\ stayed' = stayed \ {p} /\ phase = "listing"
      /\ file' = [file EXCEPT !.gone = file.gone \/ file.pid = p]
      /\ UNCHANGED <<phase, n, entries, procs, top, globbed>>
  BY DEF PS!Exit, PS!callVars
<1>2. MonitorShape /\ PidsOnce /\ Staying /\ p # 0
  BY ProcessAssumption DEF MonitorInv
<1>3. /\ file' \in [pid : Pids \cup {0}, gone : BOOLEAN] /\ file'.pid = file.pid
      /\ file'.gone <=> file.gone \/ file.pid = p
  BY <1>1, <1>2 DEF MonitorShape
<1>4. MonitorShape'
  BY <1>1, <1>2, <1>3 DEF MonitorShape
<1>5. PidsOnce'
  BY <1>1, <1>2, <1>3 DEF PidsOnce, Distinct
<1>6. Staying'
  BY <1>1, <1>2, <1>3 DEF Staying
<1>7. QED
  BY <1>1, <1>4, <1>5, <1>6 DEF MonitorInv

(* The sequences of a finite set's elements have each in one place.         *)
LEMMA PsCardinality == \A S : PS!Cardinality(S) = Cardinality(S)
BY DEF PS!Cardinality, Cardinality

LEMMA SeqsOf ==
  ASSUME NEW S, IsFiniteSet(S), NEW s \in PS!SetToSeqs(S)
  PROVE  /\ s \in Seq(S) /\ Len(s) = Cardinality(S) /\ Distinct(s)
         /\ \A x \in S : \E i \in 1..Len(s) : s[i] = x
<1> DEFINE c == Cardinality(S)
<1>1. c \in Nat
  BY FS_CardinalityType
<1>2. s \in [1..c -> S] /\ \A i, j \in 1..c : i # j => s[i] # s[j]
  BY PsCardinality DEF PS!SetToSeqs
<1> HIDE DEF c
<1>3. s \in Seq(S) /\ Len(s) = c
  BY <1>1, <1>2, LenProperties, SeqDef
<1>4. ASSUME NEW x \in S, \A i \in 1..c : s[i] # x PROVE FALSE
  <2> DEFINE T == S \ {x}
  <2>1. IsFiniteSet(T) /\ Cardinality(T) = c - 1
    BY <1>4, FS_RemoveElement DEF c
  <2>2. s \in Injection(1..c, T)
    BY <1>2, <1>4 DEF Injection, IsInjective
  <2> HIDE DEF T
  <2>3. IsFiniteSet(1..c) /\ Cardinality(1..c) = c
    BY <1>1, FS_Interval
  <2>4. Cardinality(1..c) <= Cardinality(T)
    BY <2>1, <2>2, FS_Injection
  <2>5. QED
    BY <1>1, <2>1, <2>3, <2>4
<1>5. Distinct(s)
  BY <1>2, <1>3 DEF Distinct
<1>6. QED
  BY <1>3, <1>4, <1>5 DEF c

LEMMA GlobKeeps == MonitorInv /\ PS!Glob => MonitorInv'
<1> SUFFICES ASSUME MonitorInv, PS!Glob PROVE MonitorInv'
  OBVIOUS
<1>1. /\ phase = "called" /\ phase' = "listing" /\ entries' \in PS!SetToSeqs(alive)
      /\ globbed' = alive /\ stayed' = alive
      /\ UNCHANGED <<alive, n, file, procs, top>>
  BY DEF PS!Glob
<1>2. /\ MonitorShape /\ procs = <<>> /\ 1..Len(procs) = {}
      /\ file = PS!NoFile /\ file.pid = 0 /\ ~file.gone
  <2>1. MonitorShape /\ procs = <<>> /\ file = PS!NoFile
    BY <1>1 DEF MonitorInv, MonitorShape
  <2>2. QED
    BY <2>1 DEF PS!NoFile
<1>3. /\ entries' \in Seq(alive) /\ Distinct(entries')
      /\ \A p \in alive : \E i \in 1..Len(entries') : entries'[i] = p
  <2>1. IsFiniteSet(alive)
    BY <1>2, ProcessAssumption, FS_Subset DEF MonitorShape
  <2>2. QED
    BY <1>1, <2>1, SeqsOf
<1>4. \A i \in 1..Len(entries') : entries'[i] \in alive
  BY <1>3, LenProperties
<1>5. entries' \in Seq(Pids)
  BY <1>2, <1>3 DEF MonitorShape
<1>6. MonitorShape'
  BY <1>1, <1>2, <1>5 DEF MonitorShape
<1>7. PidsOnce'
  <2>1. \A i \in 1..Len(entries') : entries'[i] # 0
    BY <1>2, <1>4, ProcessAssumption DEF MonitorShape
  <2>2. QED
    BY <1>1, <1>2, <1>3, <2>1 DEF PidsOnce, Distinct
<1>8. Staying'
  BY <1>1, <1>2, <1>3, <1>4 DEF Staying
<1>9. QED
  BY <1>1, <1>6, <1>7, <1>8 DEF MonitorInv

(* The first of the entries is taken from them.                             *)
LEMMA FirstEntry ==
  ASSUME MonitorShape, entries # <<>>
  PROVE  /\ Head(entries) \in Pids /\ Head(entries) = entries[1] /\ 1 \in 1..Len(entries)
         /\ Tail(entries) \in Seq(Pids)
         /\ \A i \in 1..Len(Tail(entries)) :
              i + 1 \in 1..Len(entries) /\ i + 1 # 1 /\ Tail(entries)[i] = entries[i + 1]
         /\ \A i \in 1..Len(entries) :
              \/ i = 1
              \/ \E k \in 1..Len(Tail(entries)) : i = k + 1 /\ Tail(entries)[k] = entries[i]
<1>1. entries \in Seq(Pids) /\ Len(entries) \in Nat
  BY LenProperties DEF MonitorShape
<1>2. Len(entries) >= 1 /\ entries[1] \in Pids
  <2>1. Len(entries) # 0
    BY <1>1, EmptySeq
  <2>2. Len(entries) >= 1 /\ 1 \in 1..Len(entries)
    BY <1>1, <2>1
  <2>3. QED
    BY <1>1, <2>2, LenProperties
<1> DEFINE t == Tail(entries)
<1>3. /\ Head(entries) = entries[1] /\ t \in Seq(Pids) /\ Len(t) = Len(entries) - 1
      /\ \A i \in 1..Len(t) : t[i] = entries[i + 1]
  BY <1>1, HeadTailProperties
<1> HIDE DEF t
<1>4. \A i \in 1..Len(t) : i + 1 \in 1..Len(entries) /\ i + 1 # 1
  BY <1>1, <1>3
<1>5. ASSUME NEW i \in 1..Len(entries), i # 1
      PROVE  \E k \in 1..Len(t) : i = k + 1 /\ t[k] = entries[i]
  <2>1. i - 1 \in 1..Len(t) /\ i = i - 1 + 1
    BY <1>1, <1>3, <1>5
  <2>2. t[i - 1] = entries[i]
    BY <1>3, <2>1
  <2>3. QED
    BY <2>1, <2>2
<1>6. QED
  BY <1>2, <1>3, <1>4, <1>5 DEF t

LEMMA OpenKeeps == MonitorInv /\ PS!Open => MonitorInv'
<1> SUFFICES ASSUME MonitorInv, PS!Open PROVE MonitorInv'
  OBVIOUS
<1> DEFINE h == Head(entries)
           t == Tail(entries)
<1>1. /\ phase = "listing" /\ file = PS!NoFile /\ entries # <<>> /\ h \in alive
      /\ entries' = t /\ file' = [PS!NoFile EXCEPT !.pid = h]
      /\ UNCHANGED <<alive, phase, n, procs, top, globbed, stayed>>
  BY DEF PS!Open
<1>2. MonitorShape /\ PidsOnce /\ Staying
  BY DEF MonitorInv
<1>3. /\ h \in Pids /\ h = entries[1] /\ 1 \in 1..Len(entries) /\ t \in Seq(Pids)
      /\ \A i \in 1..Len(t) : i + 1 \in 1..Len(entries) /\ i + 1 # 1 /\ t[i] = entries[i + 1]
      /\ \A i \in 1..Len(entries) : i = 1 \/ \E k \in 1..Len(t) : i = k + 1 /\ t[k] = entries[i]
  BY <1>1, <1>2, FirstEntry
<1> HIDE DEF h, t
<1>4. /\ file' = [pid |-> h, gone |-> FALSE] /\ h # 0 /\ file.pid = 0 /\ ~file.gone
      /\ file'.pid = h /\ ~file'.gone
  BY <1>1, <1>3, ProcessAssumption DEF PS!NoFile
<1>5. MonitorShape'
  <2>1. file' \in [pid : Pids \cup {0}, gone : BOOLEAN]
    BY <1>3, <1>4
  <2>2. QED
    BY <1>1, <1>2, <1>3, <1>4, <2>1 DEF MonitorShape
<1>6. Distinct(t)
  <2> SUFFICES ASSUME NEW i \in 1..Len(t), NEW j \in 1..Len(t), t[i] = t[j] PROVE i = j
    BY DEF Distinct
  <2>1. i + 1 = j + 1
    BY <1>2, <1>3 DEF PidsOnce, Distinct
  <2>2. QED
    BY <2>1
<1>7. PidsOnce'
  <2>1. \A i \in 1..Len(t) : t[i] # h
    BY <1>2, <1>3 DEF PidsOnce, Distinct
  <2>2. \A i \in 1..Len(t), j \in 1..Len(procs) : t[i] # procs[j].pid
    BY <1>2, <1>3 DEF PidsOnce
  <2>3. \A j \in 1..Len(procs) : procs[j].pid # h
    BY <1>2, <1>3 DEF PidsOnce
  <2>4. QED
    BY <1>1, <1>2, <1>4, <1>6, <2>1, <2>2, <2>3 DEF PidsOnce
<1>8. Staying'
  <2>1. h \in globbed /\ \A i \in 1..Len(t) : t[i] \in globbed
    BY <1>2, <1>3 DEF Staying
  <2>2. ASSUME NEW p \in stayed
        PROVE  \/ p = h \/ \E i \in 1..Len(t) : t[i] = p
               \/ \E i \in 1..Len(procs) : procs[i].pid = p
    <3>1. p # 0
      BY <1>2, ProcessAssumption DEF Staying, MonitorShape
    <3>2. (\E i \in 1..Len(entries) : entries[i] = p) \/ \E i \in 1..Len(procs) : procs[i].pid = p
      BY <1>2, <1>4, <3>1 DEF Staying
    <3>3. QED
      BY <1>3, <3>2
  <2>3. QED
    BY <1>1, <1>2, <1>4, <2>1, <2>2 DEF Staying
<1>9. QED
  BY <1>1, <1>5, <1>7, <1>8 DEF MonitorInv

LEMMA PassOverKeeps == MonitorInv /\ PS!PassOver => MonitorInv'
<1> SUFFICES ASSUME MonitorInv, PS!PassOver PROVE MonitorInv'
  OBVIOUS
<1> DEFINE h == Head(entries)
           t == Tail(entries)
<1>1. /\ phase = "listing" /\ entries # <<>> /\ h \notin alive /\ entries' = t
      /\ UNCHANGED <<alive, phase, n, file, procs, top, globbed, stayed>>
  BY DEF PS!PassOver
<1>2. MonitorShape /\ PidsOnce /\ Staying
  BY DEF MonitorInv
<1>3. /\ h \in Pids /\ h = entries[1] /\ 1 \in 1..Len(entries) /\ t \in Seq(Pids)
      /\ \A i \in 1..Len(t) : i + 1 \in 1..Len(entries) /\ i + 1 # 1 /\ t[i] = entries[i + 1]
      /\ \A i \in 1..Len(entries) : i = 1 \/ \E k \in 1..Len(t) : i = k + 1 /\ t[k] = entries[i]
  BY <1>1, <1>2, FirstEntry
<1> HIDE DEF h, t
<1>4. MonitorShape'
  BY <1>1, <1>2, <1>3 DEF MonitorShape
<1>5. Distinct(t)
  <2> SUFFICES ASSUME NEW i \in 1..Len(t), NEW j \in 1..Len(t), t[i] = t[j] PROVE i = j
    BY DEF Distinct
  <2>1. i + 1 = j + 1
    BY <1>2, <1>3 DEF PidsOnce, Distinct
  <2>2. QED
    BY <2>1
<1>6. PidsOnce'
  <2>1. \A i \in 1..Len(t), j \in 1..Len(procs) : t[i] # procs[j].pid
    BY <1>2, <1>3 DEF PidsOnce
  <2>2. \A i \in 1..Len(t) : t[i] # file.pid
    BY <1>2, <1>3 DEF PidsOnce
  <2>3. QED
    BY <1>1, <1>2, <1>5, <2>1, <2>2 DEF PidsOnce
<1>7. Staying'
  <2>1. \A i \in 1..Len(t) : t[i] \in globbed
    BY <1>2, <1>3 DEF Staying
  <2>2. h \notin stayed
    BY <1>1, <1>2 DEF Staying
  <2>3. ASSUME NEW p \in stayed
        PROVE  \/ p = file.pid \/ \E i \in 1..Len(t) : t[i] = p
               \/ \E i \in 1..Len(procs) : procs[i].pid = p
    BY <1>2, <1>3, <2>2 DEF Staying
  <2>4. QED
    BY <1>1, <1>2, <2>1, <2>3 DEF Staying
<1>8. QED
  BY <1>1, <1>4, <1>6, <1>7 DEF MonitorInv

LEMMA ReadKeeps == MonitorInv /\ PS!Read => MonitorInv'
<1> SUFFICES ASSUME MonitorInv, PS!Read PROVE MonitorInv'
  OBVIOUS
<1>1. PICK size \in IF file.gone THEN {0} ELSE Sizes :
        procs' = Append(procs, [pid |-> file.pid, size |-> size, blank |-> file.gone])
  BY DEF PS!Read
<1> DEFINE p == [pid |-> file.pid, size |-> size, blank |-> file.gone]
<1>2. /\ file # PS!NoFile /\ file' = PS!NoFile /\ procs' = Append(procs, p)
      /\ UNCHANGED <<alive, phase, n, entries, top, globbed, stayed>>
  BY <1>1 DEF PS!Read
<1>3. MonitorShape /\ PidsOnce /\ Staying /\ phase = "listing"
  BY <1>2 DEF MonitorInv, MonitorShape
<1>4. /\ file.pid \in Pids /\ file.pid # 0 /\ file.gone \in BOOLEAN
      /\ file'.pid = 0 /\ ~file'.gone /\ file' \in [pid : Pids \cup {0}, gone : BOOLEAN]
  <2>1. file \in [pid : Pids \cup {0}, gone : BOOLEAN] /\ (file.pid = 0 => ~file.gone)
    BY <1>3 DEF MonitorShape
  <2>2. file = [pid |-> file.pid, gone |-> file.gone] /\ file.gone \in BOOLEAN
    BY <2>1
  <2>3. file.pid # 0
    BY <1>2, <2>1, <2>2 DEF PS!NoFile
  <2>4. QED
    BY <1>2, <2>1, <2>3 DEF PS!NoFile
<1>5. p \in [pid : Pids, size : Int, blank : BOOLEAN] /\ p.pid = file.pid /\ p.blank = file.gone
  <2>1. size \in Int
    BY <1>1, ProcessAssumption
  <2>2. QED
    BY <1>4, <2>1
<1> HIDE DEF p
<1>6. /\ procs' \in Seq([pid : Pids, size : Int, blank : BOOLEAN])
      /\ Len(procs') = Len(procs) + 1 /\ Len(procs) \in Nat
      /\ \A i \in 1..Len(procs) : procs'[i] = procs[i]
      /\ procs'[Len(procs) + 1] = p
  <2>1. procs \in Seq([pid : Pids, size : Int, blank : BOOLEAN])
    BY <1>3 DEF MonitorShape
  <2>2. QED
    BY <1>2, <1>5, <2>1, AppendProperties, LenProperties
<1>7. \A i \in 1..Len(procs') :
        \/ i \in 1..Len(procs) /\ procs'[i] = procs[i]
        \/ i = Len(procs) + 1 /\ procs'[i] = p
  <2> SUFFICES ASSUME NEW i \in 1..Len(procs')
               PROVE  \/ i \in 1..Len(procs) /\ procs'[i] = procs[i]
                      \/ i = Len(procs) + 1 /\ procs'[i] = p
    OBVIOUS
  <2>1. i \in 1..Len(procs) \/ i = Len(procs) + 1
    <3>1. i \in 1..(Len(procs) + 1)
      BY <1>6
    <3>2. QED
      BY <1>6, <3>1
  <2>2. CASE i \in 1..Len(procs)
    <3>1. procs'[i] = procs[i]
      BY <1>6, <2>2
    <3>2. QED
      BY <2>2, <3>1
  <2>3. CASE i = Len(procs) + 1
    <3>1. procs'[i] = p
      BY <1>6, <2>3
    <3>2. QED
      BY <2>3, <3>1
  <2>4. QED
    BY <2>1, <2>2, <2>3
<1>8. MonitorShape'
  BY <1>2, <1>3, <1>4, <1>6 DEF MonitorShape, PS!NoFile
<1>9. PidsOnce'
  <2>1. \A i \in 1..Len(procs) : procs[i].pid # p.pid
    BY <1>3, <1>5 DEF PidsOnce
  <2>2. ASSUME NEW i \in 1..Len(procs'), NEW j \in 1..Len(procs'), procs'[i].pid = procs'[j].pid
        PROVE  i = j
    BY <1>3, <1>7, <2>1, <2>2 DEF PidsOnce
  <2>3. \A i \in 1..Len(entries), j \in 1..Len(procs') : entries[i] # procs'[j].pid
    BY <1>3, <1>5, <1>7 DEF PidsOnce
  <2>4. \A i \in 1..Len(entries) : entries[i] # 0
    BY <1>3, ProcessAssumption, LenProperties DEF MonitorShape
  <2>5. \A i \in 1..Len(procs') : procs'[i].pid # 0
    <3>1. \A i \in 1..Len(procs') : procs'[i].pid \in Pids
      <4>1. \A i \in 1..Len(procs') : procs'[i] \in [pid : Pids, size : Int, blank : BOOLEAN]
        BY <1>6, LenProperties
      <4>2. QED
        BY <4>1
    <3>2. QED
      BY <3>1, ProcessAssumption
  <2>6. QED
    BY <1>2, <1>3, <1>4, <2>2, <2>3, <2>4, <2>5 DEF PidsOnce
<1>10. Staying'
  <2>1. \A i \in 1..Len(procs') : procs'[i].pid \in globbed
    BY <1>3, <1>4, <1>5, <1>7 DEF Staying
  <2>2. \A i \in 1..Len(procs') : procs'[i].blank => procs'[i].pid \notin stayed
    BY <1>3, <1>5, <1>7 DEF Staying
  <2>3. ASSUME NEW q \in stayed
        PROVE  \/ \E i \in 1..Len(entries) : entries[i] = q
               \/ \E i \in 1..Len(procs') : procs'[i].pid = q
    <3>1. CASE q = file.pid
      <4>1. Len(procs) + 1 \in 1..Len(procs')
        BY <1>6
      <4>2. QED
        BY <1>5, <1>6, <3>1, <4>1
    <3>2. CASE \E i \in 1..Len(procs) : procs[i].pid = q
      <4>1. PICK i \in 1..Len(procs) : procs[i].pid = q
        BY <3>2
      <4>2. i \in 1..Len(procs') /\ procs'[i] = procs[i]
        BY <1>6
      <4>3. QED
        BY <4>1, <4>2
    <3>3. QED
      BY <1>3, <3>1, <3>2 DEF Staying
  <2>4. QED
    BY <1>2, <1>3, <1>4, <2>1, <2>2, <2>3 DEF Staying
<1>11. QED
  BY <1>2, <1>3, <1>8, <1>9, <1>10 DEF MonitorInv

(* A list without repetitions is as long as it has members.                 *)
LEMMA ManyMembers ==
  ASSUME NEW k \in Nat, NEW T, NEW f \in [1..k -> T],
         \A y \in T : \E i \in 1..k : f[i] = y,
         \A i, j \in 1..k : f[i] = f[j] => i = j
  PROVE  IsFiniteSet(T) /\ Cardinality(T) = k
<1>1. f \in Bijection(1..k, T)
  BY DEF Bijection, Injection, Surjection, IsInjective
<1>2. ExistsBijection(1..k, T)
  BY <1>1 DEF ExistsBijection
<1>3. QED
  BY <1>2, FS_NatBijection, FS_CountingElements

LEMMA SmallerOf ==
  ASSUME NEW a \in Int, NEW b \in Int
  PROVE  PS!Min({a, b}) = IF b > a THEN a ELSE b
<1> DEFINE m == IF b > a THEN a ELSE b
<1>1. m \in {a, b} /\ \A y \in {a, b} : m <= y
  OBVIOUS
<1>2. \A x \in {a, b} : (\A y \in {a, b} : x <= y) => x = m
  OBVIOUS
<1>3. QED
  BY <1>1, <1>2 DEF PS!Min

(* What is in order step by step is in order.                               *)
LEMMA InOrder ==
  ASSUME NEW k \in Nat, NEW v, \A i \in 1..k : v[i] \in Int,
         \A i \in 2..k : v[i] <= v[i - 1],
         NEW a \in 1..k, NEW b \in 1..k, a <= b
  PROVE  v[b] <= v[a]
<1> DEFINE T == {i \in 1..k : a <= i /\ v[a] < v[i]}
<1>1. CASE T = {}
  <2>1. ~(v[a] < v[b])
    BY <1>1
  <2>2. QED
    BY <2>1
<1>2. CASE T # {}
  <2>1. PICK i \in T : \A y \in T : i <= y
    <3>1. T \subseteq Nat
      OBVIOUS
    <3> HIDE DEF T
    <3>2. QED
      BY <1>2, <3>1, NatMin
  <2>2. i \in 1..k /\ a <= i /\ v[a] < v[i]
    BY <2>1
  <2>3. i # a
    BY <2>2
  <2>4. i \in 2..k /\ i - 1 \in 1..k /\ a <= i - 1
    BY <2>2, <2>3
  <2>5. i - 1 \notin T
    BY <2>1, <2>4
  <2>6. ~(v[a] < v[i - 1])
    BY <2>4, <2>5
  <2>7. QED
    BY <2>2, <2>4, <2>6
<1>3. QED
  BY <1>1, <1>2

Process == [pid : Pids, size : Int, blank : BOOLEAN]

(* The list is as long as it has members, and they are in a list of it.     *)
LEMMA ProcsMembers ==
  ASSUME MonitorInv
  PROVE  /\ procs \in Seq(Process) /\ Len(procs) \in Nat
         /\ PS!ToSet(procs) = {procs[i] : i \in 1..Len(procs)}
         /\ PS!ToSet(procs) \subseteq Process
         /\ IsFiniteSet(PS!ToSet(procs)) /\ Cardinality(PS!ToSet(procs)) = Len(procs)
<1>1. procs \in Seq(Process) /\ Len(procs) \in Nat /\ PidsOnce
  BY LenProperties DEF MonitorInv, MonitorShape, Process
<1>2. /\ DOMAIN procs = 1..Len(procs) /\ procs \in [1..Len(procs) -> Process]
      /\ \A i \in 1..Len(procs) : procs[i] \in Process
  BY <1>1, LenProperties, SeqDef
<1>3. PS!ToSet(procs) = {procs[i] : i \in 1..Len(procs)}
  BY <1>2 DEF PS!ToSet
<1>4. \A i, j \in 1..Len(procs) : procs[i] = procs[j] => i = j
  BY <1>1 DEF PidsOnce
<1>5. /\ IsFiniteSet({procs[i] : i \in 1..Len(procs)})
      /\ Cardinality({procs[i] : i \in 1..Len(procs)}) = Len(procs)
  <2> DEFINE T == {procs[i] : i \in 1..Len(procs)}
  <2>1. procs \in [1..Len(procs) -> T] /\ \A y \in T : \E i \in 1..Len(procs) : procs[i] = y
    BY <1>2
  <2> HIDE DEF T
  <2>2. IsFiniteSet(T) /\ Cardinality(T) = Len(procs)
    BY <1>1, <1>4, <2>1, ManyMembers
  <2>3. QED
    BY <2>2 DEF T
<1>6. QED
  BY <1>1, <1>2, <1>3, <1>5

LEMMA ReturnKeeps == MonitorInv /\ PS!Return => MonitorInv'
<1> SUFFICES ASSUME MonitorInv, PS!Return PROVE MonitorInv'
  OBVIOUS
<1> DEFINE P == PS!ToSet(procs)
           k == Len(procs)
<1>1. PICK sorted \in PS!SetToSeqs(P) :
        /\ \A i \in 2..Len(sorted) : sorted[i].size <= sorted[i - 1].size
        /\ top' = IF Len(sorted) > n THEN SubSeq(sorted, 1, n) ELSE sorted
  BY DEF PS!Return
<1>2. /\ phase = "listing" /\ file = PS!NoFile /\ entries = <<>> /\ phase' = "returned"
      /\ UNCHANGED <<alive, n, entries, file, procs, globbed, stayed>>
  BY DEF PS!Return
<1>3. MonitorShape /\ PidsOnce /\ Staying /\ n \in Nat
  BY DEF MonitorInv, MonitorShape
<1>4. k \in Nat /\ P \subseteq Process /\ IsFiniteSet(P) /\ Cardinality(P) = k
  BY ProcsMembers
<1> HIDE DEF P, k
<1>5. /\ sorted \in Seq(P) /\ Len(sorted) = k
      /\ \A x \in P : \E i \in 1..k : sorted[i] = x
  BY <1>1, <1>4, SeqsOf
<1>6. \A i \in 1..k : sorted[i] \in P /\ sorted[i].size \in Int
  <2>1. \A i \in 1..k : sorted[i] \in P
    BY <1>5, LenProperties
  <2>2. \A x \in P : x.size \in Int
    BY <1>4 DEF Process
  <2>3. QED
    BY <2>1, <2>2
<1>7. ASSUME NEW a \in 1..k, NEW b \in 1..k, a <= b
      PROVE  sorted[b].size <= sorted[a].size
  <2> DEFINE v == [i \in 1..k |-> sorted[i].size]
  <2>1. /\ \A i \in 1..k : v[i] \in Int
        /\ v[a] = sorted[a].size /\ v[b] = sorted[b].size
    BY <1>6
  <2>2. \A i \in 2..k : v[i] <= v[i - 1]
    BY <1>1, <1>4, <1>5
  <2> HIDE DEF v
  <2>3. v[b] <= v[a]
    BY <1>4, <1>7, <2>1, <2>2, InOrder
  <2>4. QED
    BY <2>1, <2>3
<1>8. /\ DOMAIN top' = 1..Len(top') /\ Len(top') = PS!Min({n, k}) /\ Len(top') \in Nat
      /\ Len(top') <= k /\ \A i \in 1..Len(top') : top'[i] = sorted[i]
  <2>1. PS!Min({n, k}) = IF k > n THEN n ELSE k
    BY <1>3, <1>4, SmallerOf
  <2>2. CASE k > n
    <3>1. top' = SubSeq(sorted, 1, n)
      BY <1>1, <1>5, <2>2
    <3>2. \A i \in 1..n : sorted[i] \in P
      BY <1>3, <1>4, <1>6, <2>2
    <3>3. /\ top' \in Seq(P) /\ Len(top') = IF 1 <= n THEN n - 1 + 1 ELSE 0
          /\ \A i \in 1..(n - 1 + 1) : top'[i] = sorted[1 + i - 1]
      BY <1>3, <3>1, <3>2, SubSeqProperties
    <3>4. Len(top') = n /\ DOMAIN top' = 1..Len(top')
      BY <1>3, <3>3, LenProperties
    <3>5. \A i \in 1..n : top'[i] = sorted[i]
      BY <1>3, <3>3
    <3>6. QED
      BY <1>3, <1>4, <2>1, <2>2, <3>4, <3>5
  <2>3. CASE ~(k > n)
    <3>1. top' = sorted
      BY <1>1, <1>5, <2>3
    <3>2. Len(top') = k /\ DOMAIN top' = 1..Len(top')
      BY <1>5, <3>1, LenProperties
    <3>3. QED
      BY <1>4, <2>1, <2>3, <3>1, <3>2
  <2>4. QED
    BY <2>2, <2>3
<1>9. /\ PS!ToSet(top') \subseteq P
      /\ \A i \in DOMAIN top', p \in P :
           p.size <= top'[i].size \/ \E j \in 1..(i - 1) : top'[j] = p
  <2>1. \A i \in DOMAIN top' : i \in 1..k /\ top'[i] = sorted[i]
    <3> DEFINE m == Len(top')
    <3>1. m \in Nat /\ m <= k
      BY <1>8
    <3> HIDE DEF m
    <3>2. \A i \in 1..m : i \in 1..k
      BY <1>4, <3>1
    <3>3. QED
      BY <1>8, <3>2 DEF m
  <2>2. PS!ToSet(top') \subseteq P
    BY <1>6, <2>1 DEF PS!ToSet
  <2>3. ASSUME NEW i \in DOMAIN top', NEW p \in P
        PROVE  p.size <= top'[i].size \/ \E j \in 1..(i - 1) : top'[j] = p
    <3>1. PICK j \in 1..k : sorted[j] = p
      BY <1>5
    <3>2. CASE i <= j
      BY <1>7, <2>1, <3>1, <3>2
    <3>3. CASE ~(i <= j)
      <4>1. j \in 1..(i - 1) /\ j \in 1..Len(top')
        BY <1>4, <1>8, <3>3
      <4>2. top'[j] = p
        BY <1>8, <3>1, <4>1
      <4>3. QED
        BY <4>1, <4>2
    <3>4. QED
      BY <3>2, <3>3
  <2>4. QED
    BY <2>2, <2>3
<1>10. TopOf'
  <2>1. PS!ToSet(procs)' = P /\ Len(procs)' = k /\ n' = n
    BY <1>2 DEF P, k
  <2>2. QED
    BY <1>8, <1>9, <2>1 DEF TopOf
<1>11. MonitorShape' /\ PidsOnce' /\ Staying'
  BY <1>2, <1>3 DEF MonitorShape, PidsOnce, Staying, Distinct
<1>12. QED
  BY <1>10, <1>11 DEF MonitorInv

LEMMA MonitorStep == MonitorInv /\ [PS!Next]_(PS!vars) => MonitorInv'
<1> SUFFICES ASSUME MonitorInv, [PS!Next]_(PS!vars) PROVE MonitorInv'
  OBVIOUS
<1>1. CASE UNCHANGED PS!vars
  <2>1. UNCHANGED <<alive, phase, n, entries, file, procs, top, globbed, stayed>>
    BY <1>1 DEF PS!vars
  <2>2. PS!ToSet(procs)' = PS!ToSet(procs) /\ PS!ToSet(top)' = PS!ToSet(top)
    BY <2>1
  <2>3. MonitorShape' /\ PidsOnce' /\ Staying'
    BY <2>1 DEF MonitorInv, MonitorShape, PidsOnce, Staying, Distinct
  <2>4. phase' = "returned" => TopOf'
    BY <2>1, <2>2 DEF MonitorInv, TopOf
  <2>5. QED
    BY <2>3, <2>4 DEF MonitorInv
<1>2. CASE PS!Next
  <2>1. \/ \E p \in Pids : PS!Birth(p) \/ PS!Exit(p)
        \/ PS!Glob \/ PS!Open \/ PS!PassOver \/ PS!Read \/ PS!Return
    BY <1>2 DEF PS!Next
  <2>2. QED
    BY <2>1, BirthKeeps, ExitKeeps, GlobKeeps, OpenKeeps, PassOverKeeps, ReadKeeps, ReturnKeeps
<1>3. QED
  BY <1>1, <1>2

LEMMA MonitorSafe == MonitorInv => ListIsFair
<1> SUFFICES ASSUME MonitorInv, phase = "returned"
             PROVE  /\ stayed \subseteq {procs[i].pid : i \in DOMAIN procs}
                    /\ {procs[i].pid : i \in DOMAIN procs} \subseteq globbed
                    /\ PS!Cardinality({procs[i].pid : i \in DOMAIN procs}) = Len(procs)
                    /\ \A i \in DOMAIN procs : procs[i].blank => procs[i].pid \notin stayed
                    /\ TopOf
  BY DEF ListIsFair, PS!ListIsFair, TopOf
<1>1. /\ MonitorShape /\ PidsOnce /\ Staying /\ TopOf /\ Len(procs) \in Nat
      /\ DOMAIN procs = 1..Len(procs)
  BY LenProperties DEF MonitorInv, MonitorShape
<1>2. file.pid = 0 /\ 1..Len(entries) = {} /\ 0 \notin stayed
  <2>1. entries = <<>> /\ file = PS!NoFile /\ stayed \subseteq Pids
    BY <1>1 DEF MonitorShape, Staying
  <2>2. QED
    BY <2>1, ProcessAssumption DEF PS!NoFile
<1>3. stayed \subseteq {procs[i].pid : i \in 1..Len(procs)}
  BY <1>1, <1>2 DEF Staying
<1>4. {procs[i].pid : i \in 1..Len(procs)} \subseteq globbed
  BY <1>1 DEF Staying
<1>5. Cardinality({procs[i].pid : i \in 1..Len(procs)}) = Len(procs)
  <2> DEFINE k == Len(procs)
             f == [i \in 1..k |-> procs[i].pid]
             T == {procs[i].pid : i \in 1..k}
  <2>1. f \in [1..k -> T] /\ \A y \in T : \E i \in 1..k : f[i] = y
    OBVIOUS
  <2>2. k \in Nat /\ \A i, j \in 1..k : f[i] = f[j] => i = j
    BY <1>1 DEF PidsOnce
  <2> HIDE DEF f, T
  <2>3. Cardinality(T) = k
    BY <2>1, <2>2, ManyMembers
  <2>4. QED
    BY <2>3 DEF T
<1>6. \A i \in 1..Len(procs) : procs[i].blank => procs[i].pid \notin stayed
  BY <1>1 DEF Staying
<1>7. QED
  BY <1>1, <1>3, <1>4, <1>5, <1>6, PsCardinality

-----------------------------------------------------------------------------
(* The composition.                                                         *)

(* A step of the composition is one of the store's own, or leaves it where  *)
(* it is.                                                                   *)
LEMMA StoresSteps ==
  ASSUME [Next]_vars
  PROVE  /\ [URL!Next]_(URL!vars)
         /\ [TSK!Next]_(TSK!vars)
         /\ [LRU!Next]_(LRU!vars)
         /\ [MAP!Next]_(MAP!vars)
         /\ [CNT!Next]_(CNT!vars)
         /\ [USR!Next]_(USR!vars)
         /\ [PS!Next]_(PS!vars)
         /\ [BUF!Next]_(BUF!vars)
<1> USE DEF Next, vars, urls, jobs, lru, map, count, people, monitor, buffers
<1>1. [URL!Next]_(URL!vars)
  BY DEF URL!vars
<1>2. [TSK!Next]_(TSK!vars)
  BY DEF TSK!vars
<1>3. [LRU!Next]_(LRU!vars)
  BY DEF LRU!vars
<1>4. [MAP!Next]_(MAP!vars)
  BY DEF MAP!vars
<1>5. [CNT!Next]_(CNT!vars)
  BY DEF CNT!vars
<1>6. [USR!Next]_(USR!vars)
  BY DEF USR!vars
<1>7. [PS!Next]_(PS!vars)
  BY DEF PS!vars
<1>8. [BUF!Next]_(BUF!vars)
  BY DEF BUF!vars
<1>9. QED
  BY <1>1, <1>2, <1>3, <1>4, <1>5, <1>6, <1>7, <1>8

LEMMA StoresInits ==
  Init => /\ URL!Init /\ TSK!Init /\ LRU!Init /\ MAP!Init
          /\ CNT!Init /\ USR!Init /\ PS!Init /\ BUF!Init
BY DEF Init

(* In the composition each store does what its own specification says.      *)
THEOREM EachStoreAsAlone ==
  Spec => /\ URL!Init /\ [][URL!Next]_(URL!vars)
          /\ TSK!Init /\ [][TSK!Next]_(TSK!vars)
          /\ LRU!Init /\ [][LRU!Next]_(LRU!vars)
          /\ MAP!Init /\ [][MAP!Next]_(MAP!vars)
          /\ CNT!Init /\ [][CNT!Next]_(CNT!vars)
          /\ USR!Init /\ [][USR!Next]_(USR!vars)
          /\ PS!Init /\ [][PS!Next]_(PS!vars)
          /\ BUF!Init /\ [][BUF!Next]_(BUF!vars)
BY StoresSteps, StoresInits, PTL DEF Spec

(* A call of EncodeJSONPooled has the buffer it got from bufPool to itself  *)
(* and returns what it has encoded (lines 20-33), for any number of calls   *)
(* and buffers, whatever the collector takes from the pool.                 *)
THEOREM BuffersOwned == Spec => []OwnBuffer
BY EachStoreAsAlone, BufferInit, BufferStep, BufferSafe, PTL

(* Create writes over no user and gives no email twice, whatever calls come *)
(* between (mock_repository, Create, lines 31-48), for any names, emails    *)
(* and number of calls.                                                     *)
THEOREM NobodyLost == Spec => []UsersKept
BY EachStoreAsAlone, UserInit, UserStep, UserSafe, PTL

(* Value returns at least what was counted before it began and at most what *)
(* is when it returns, though it loads the shards one by one (lines 28-44), *)
(* for any number of shards, Incs and readers.                              *)
THEOREM ValuesInBounds == Spec => []ValueInBounds
BY EachStoreAsAlone, CountInit, CountStep, CountSafe, PTL

(* Len and Range lock one shard at a time, and still miss and invent only   *)
(* what is written meanwhile (lines 50-72), for any keys, values, hash and  *)
(* number of shards.                                                        *)
THEOREM ScansFair == Spec => []ScansAreFair
BY EachStoreAsAlone, MapInit, MapStep, MapSafe, PTL

(* An id handed out is not handed out again and keeps its title, also when  *)
(* an UpdateStatus writes what it read before a Delete, until the sequence  *)
(* has been all the way round, for any width of it.                         *)
THEOREM TasksForGood == Spec => IdsForGood
<1>1. Spec => [][ForGood]_(TSK!vars)
  BY EachStoreAsAlone, TaskInit, TaskStep, PTL
<1>2. [][ForGood]_(TSK!vars) => IdsForGood
  BY PTL DEF ForGood, IdsForGood, TSK!IdsForGood
<1>3. QED
  BY <1>1, <1>2, PTL

(* A code handed out leads to its URL for good and no two URLs share one    *)
(* (Shorten and Redirect), for any URLs and any base from 2 up.             *)
THEOREM CodesKept == Spec => []CodesForGood
BY EachStoreAsAlone, UrlInit, UrlStep, UrlSafe, PTL

(* The cache holds the keys used last, up to its capacity, with the values  *)
(* put last, however Get, Put and eviction alternate, for any keys, values  *)
(* and capacity.                                                            *)
THEOREM LastUsedKept == Spec => []KeepsLastUsed
BY EachStoreAsAlone, LruInit, LruStep, LruSafe, PTL

(* TopByMemory lists each process that was there all the time, none twice,  *)
(* none that was not there at first, and returns the n largest in order,    *)
(* while processes come and go and pids are used again, for any number of   *)
(* processes, sizes and n.                                                  *)
THEOREM ListFair == Spec => []ListIsFair
BY EachStoreAsAlone, MonitorInit, MonitorStep, MonitorSafe, PTL

-----------------------------------------------------------------------------
(* The functions.  They keep no state: what FunctionsProofs shows of every  *)
(* list of pairs of digits holds of each the composition comes to.          *)

ListType == list \in Seq(Digits \X Digits)

LEMMA ListInit == Init => ListType
BY ListStart DEF Init, ListType

LEMMA ListStep == ListType /\ [Next]_vars => ListType'
<1> SUFFICES ASSUME ListType, [Next]_vars PROVE ListType'
  OBVIOUS
<1>1. Grow \/ UNCHANGED list
  BY DEF Next, vars
<1>2. CASE Grow
  BY <1>2, ListGrows DEF ListType
<1>3. CASE UNCHANGED list
  BY <1>3 DEF ListType
<1>4. QED
  BY <1>1, <1>2, <1>3

LEMMA ListAlways == Spec => []ListType
BY ListInit, ListStep, PTL DEF Spec

(* MergeIntervals covers what it is given with intervals that are apart,    *)
(* and SortByField keeps the records and their order, with a less that is   *)
(* no proper order when it descends (lines 26-72), for any digits, and for  *)
(* any number of intervals and up to twelve records.                        *)
THEOREM SortedAlways == Spec => []SortedRight
<1>1. ListType => SortedRight
  BY SortedRightAlways DEF ListType
<1>2. QED
  BY <1>1, ListAlways, PTL

(* TwoSum, Unique, MinSlice, IsPalindrome and ReverseSlice find what there  *)
(* is to find, in a slice of any length and of any digits.                  *)
THEOREM ScansAlways == Spec => []ScansRight
<1>1. ListType => ScansRight
  BY ScansRightAlways DEF ListType
<1>2. QED
  BY <1>1, ListAlways, PTL

(* ParseCommit, AuthMiddleware and Validate read back what was written and  *)
(* refuse the rest, for a scope of any length, any key, user and time, and  *)
(* any number of fields.                                                    *)
THEOREM ReadsAlways == Spec => []ReadsRight
<1>1. ListType => ReadsRight
  BY ReadsRightAlways DEF ListType
<1>2. QED
  BY <1>1, ListAlways, PTL
=============================================================================
