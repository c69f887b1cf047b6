--------------------------------- MODULE Stores ---------------------------------
(***************************************************************************)
(* The small stores, the process monitor and the pure functions, put       *)
(* together: they share nothing, a behaviour picks one of them and the     *)
(* others stand still.                                                     *)
(***************************************************************************)
EXTENDS Parsers, TLC

CONSTANTS
  Callers, Urls, NoUrl, Base,                \* Shortener
  Users, Titles, Half, MaxCreates,           \* TaskService
  Keys, Values, Capacity,                    \* LRUCache
  MapKeys, MapValues, ShardCount, HashOf,    \* ShardedMap
  Incs, Readers, Shards,                     \* ShardedCounter
  Names, Emails, MaxCalls,                   \* UserService
  Pids, Sizes, Tops,                         \* ProcessMonitor
  Encoders, Inputs, Buffers, NoBuffer        \* BufferPool

(* A code is written with two digits or more.                               *)
ASSUME CodesAssumption == Base \in Nat /\ Base > 1

(* An int32 counts 2 * Half numbers, as many below zero as not.             *)
ASSUME SequenceAssumption == Half \in Nat \ {0}

(* The cache has room for a key (task.md:12).                               *)
ASSUME CapacityAssumption == Capacity \in Nat \ {0}

(* New makes ShardCount maps; a key has one hash.                           *)
ASSUME MapAssumption ==
  IsFiniteSet(MapKeys) /\ ShardCount \in Nat \ {0} /\ HashOf \in [MapKeys -> Nat]

(* NewShardedCounter makes n positive; the Inc calls are so many.           *)
ASSUME CounterAssumption == IsFiniteSet(Incs) /\ Shards \in Nat \ {0}

(* Pids begin at 1; TopByMemory is asked for no less than none.             *)
ASSUME ProcessAssumption ==
  /\ IsFiniteSet(Pids) /\ Pids \subseteq Nat \ {0}
  /\ Sizes \subseteq Int /\ Tops \subseteq Nat

(* What a call without a buffer has is none.                                *)
ASSUME BufferAssumption == NoBuffer \notin Buffers

VARIABLES
  store,                                                    \* the one picked
  counter, long2code, code2long, missed, told,              \* Shortener
  tasks, seq, copy, made, creates,                          \* TaskService
  items, order, element, recent, lastPut,                   \* LRUCache
  shards, scan, at, held, total, seen, throughout, everIn,  \* ShardedMap
  kind, cells, turn, inc, pick, loaded, sum, floor,         \* ShardedCounter
  users, taken, nextID, calls, forceError, reply, created,  \* UserService
  alive, phase, n, entries, file, procs, top, globbed,      \* ProcessMonitor
  stayed,
  fresh, pool, content, call, input, buf, result            \* BufferPool

URL == INSTANCE Shortener
TSK == INSTANCE TaskService
LRU == INSTANCE LRUCache
MAP == INSTANCE ShardedMap
CNT == INSTANCE ShardedCounter
USR == INSTANCE UserService WITH made <- created
PS == INSTANCE ProcessMonitor
BUF == INSTANCE BufferPool WITH Callers <- Encoders

urls == <<counter, long2code, code2long, missed, told>>
jobs == <<tasks, seq, copy, made, creates>>
lru == <<items, order, element, recent, lastPut>>
map == <<shards, scan, at, held, total, seen, throughout, everIn>>
count == <<kind, cells, turn, inc, pick, loaded, sum, floor>>
people == <<users, taken, nextID, calls, forceError, reply, created>>
monitor == <<alive, phase, n, entries, file, procs, top, globbed, stayed>>
buffers == <<fresh, pool, content, call, input, buf, result>>

vars == <<store, urls, jobs, lru, map, count, people, monitor, buffers, list>>

Init ==
  /\ store \in {"urls", "tasks", "lru", "map", "counter", "users", "processes", "buffers",
               "functions"}
  /\ URL!Init /\ TSK!Init /\ LRU!Init /\ MAP!Init /\ BUF!Init
  /\ CNT!Init /\ (store # "counter" => kind = "single")
  /\ NoList
  /\ USR!Init /\ (store # "users" => users = <<>> /\ taken = {})
  /\ PS!Init /\ (store # "processes" => alive = {} /\ n = 0)

Next ==
  /\ \/ store = "urls" /\ URL!Next
        /\ UNCHANGED <<jobs, lru, map, count, people, monitor, buffers, list>>
     \/ store = "tasks" /\ TSK!Next
        /\ UNCHANGED <<urls, lru, map, count, people, monitor, buffers, list>>
     \/ store = "lru" /\ LRU!Next
        /\ UNCHANGED <<urls, jobs, map, count, people, monitor, buffers, list>>
     \/ store = "map" /\ MAP!Next
        /\ UNCHANGED <<urls, jobs, lru, count, people, monitor, buffers, list>>
     \/ store = "counter" /\ CNT!Next
        /\ UNCHANGED <<urls, jobs, lru, map, people, monitor, buffers, list>>
     \/ store = "users" /\ USR!Next
        /\ UNCHANGED <<urls, jobs, lru, map, count, monitor, buffers, list>>
     \/ store = "processes" /\ PS!Next
        /\ UNCHANGED <<urls, jobs, lru, map, count, people, buffers, list>>
     \/ store = "buffers" /\ BUF!Next
        /\ UNCHANGED <<urls, jobs, lru, map, count, people, monitor, list>>
     \/ store = "functions" /\ Grow
        /\ UNCHANGED <<urls, jobs, lru, map, count, people, monitor, buffers>>
  /\ UNCHANGED store

Spec == Init /\ [][Next]_vars

-----------------------------------------------------------------------------
(* The properties, where they are stated and explained.                     *)

(* Shortener: one URL, one code, which leads back to it, for ever.          *)
CodesForGood == URL!CodesForGood

(* TaskService: an id stands for one task, and for none when it is deleted. *)
IdsForGood == TSK!IdsForGood

(* LRUCache: it holds the keys used last, in map and list alike.            *)
KeepsLastUsed == LRU!KeepsLastUsed

(* ShardedMap: Len and Range miss and invent only what is written meanwhile.*)
ScansAreFair == MAP!ScansAreFair

(* ShardedCounter: Value is an answer a single counter could have given.    *)
ValueInBounds == CNT!ValueInBounds

(* UserService: created users stay, with ids and emails of their own.       *)
UsersKept == USR!UsersKept

(* ProcessMonitor: the list misses only processes that come and go.         *)
ListIsFair == PS!ListIsFair

(* BufferPool: a call has a buffer to itself.                               *)
OwnBuffer == BUF!OwnBuffer
=============================================================================
