----------------------------- MODULE ShardedMap ------------------------------
(***************************************************************************)
(* The sharded map of interview-problems/hard/01-concurrent-map/solution/  *)
(* main.go.  Set, Get and Delete hold the lock of one shard; Len and Range *)
(* lock the shards one after another, so the map changes under them.  One  *)
(* goroutine scans while any number of others set and delete.              *)
(***************************************************************************)
EXTENDS Naturals, FiniteSets, Sequences, Functions

CONSTANTS
  MapKeys,
  MapValues,
  ShardCount,  \* line 21
  HashOf       \* external: the FNV-1a hash of every key, lines 31-33

VARIABLES
  shards,   \* ShardedMap.shards: the map of every shard, from index 0
  scan,     \* the call under way: "none", "len", "range" or, when f has
            \* said no, "stopped"
  at,       \* the shard it is at, lines 60 and 69
  held,     \* the read lock of that shard is held: f is being called
  total,    \* line 59
  seen,     \* the pairs f was called with, in order
  throughout,  \* history: the pairs in the map ever since the call began
  everIn       \* history: the pairs in the map at some moment of the call

vars == <<shards, scan, at, held, total, seen, throughout, everIn>>

Index == 0..(ShardCount - 1)

(* lines 30-34                                                              *)
getShard(key) == HashOf[key] % ShardCount

Pairs(m) == {<<k, m[k]>> : k \in DOMAIN m}

Contents == UNION {Pairs(shards[i]) : i \in Index}

(* history: a change of the contents while a call is under way              *)
Note ==
  /\ throughout' = throughout \cap Contents'
  /\ everIn' = IF scan = "none" THEN {} ELSE everIn \cup Contents'

(* lines 38 and 53: the write lock waits for a Range that is in the shard   *)
MayWrite(i) == ~(held /\ at = i)

(* The map m once m[key] = value has run.                                   *)
With(m, key, value) == [k \in DOMAIN m \cup {key} |-> IF k = key THEN value ELSE m[k]]

(* lines 36-41                                                              *)
Set(key, value) ==
  LET i == getShard(key)
  IN  /\ MayWrite(i)
      /\ shards' = [shards EXCEPT ![i] = With(@, key, value)]
      /\ Note
      /\ UNCHANGED <<scan, at, held, total, seen>>

(* lines 51-56                                                              *)
Delete(key) ==
  LET i == getShard(key)
  IN  /\ MayWrite(i)
      /\ shards' = [shards EXCEPT ![i] = Restrict(@, DOMAIN @ \ {key})]
      /\ Note
      /\ UNCHANGED <<scan, at, held, total, seen>>

-----------------------------------------------------------------------------
(* lines 58-60 and 68-69: Len or Range is called                            *)
Begin(call) ==
  /\ scan = "none"
  /\ scan' = call /\ at' = 0
  /\ held' = FALSE /\ total' = 0 /\ seen' = <<>>
  /\ throughout' = Contents /\ everIn' = Contents
  /\ UNCHANGED shards

(* lines 60-64: add the size of a shard, under its read lock                *)
LenAdds ==
  /\ scan = "len" /\ at < ShardCount
  /\ total' = total + Cardinality(DOMAIN shards[at])
  /\ at' = at + 1
  /\ UNCHANGED <<shards, scan, held, seen, throughout, everIn>>

(* line 70                                                                  *)
RangeLocks ==
  /\ scan = "range" /\ at < ShardCount /\ ~held
  /\ held' = TRUE
  /\ UNCHANGED <<shards, scan, at, total, seen, throughout, everIn>>

(* The pairs of the locked shard that f has not been called with.           *)
Left == Pairs(shards[at]) \ {seen[i] : i \in DOMAIN seen}

RangeCalls_Unlocked ==
  /\ scan = "range" /\ held
  /\ \E p \in Left :
       /\ seen' = Append(seen, p)
       /\ \E goOn \in BOOLEAN : scan' = IF goOn THEN "range" ELSE "stopped"
  /\ held' = FALSE
  /\ UNCHANGED <<shards, at, total, throughout, everIn>>

(* lines 71-75: f is called with the pairs in any order until it says no;   *)
(* the lock is given back in either case                                    *)
RangeCalls ==
  /\ scan = "range" /\ held
  /\ \E p \in Left :
       /\ seen' = Append(seen, p)
       /\ \E goOn \in BOOLEAN :
            /\ scan' = IF goOn THEN "range" ELSE "stopped"
            /\ held' = goOn
  /\ UNCHANGED <<shards, at, total, throughout, everIn>>

(* line 77                                                                  *)
RangeUnlocks ==
  /\ scan = "range" /\ held /\ Left = {}
  /\ held' = FALSE /\ at' = at + 1
  /\ UNCHANGED <<shards, scan, total, seen, throughout, everIn>>

(* The call has been through every shard.                                   *)
AllVisited == scan \in {"len", "range"} /\ at = ShardCount

(* lines 65, 74 and 79: the call returns, its local variables are gone      *)
Return ==
  /\ AllVisited \/ scan = "stopped"
  /\ scan' = "none" /\ at' = 0 /\ total' = 0 /\ seen' = <<>>
  /\ throughout' = {} /\ everIn' = {}
  /\ UNCHANGED <<shards, held>>

(* lines 19-28                                                              *)
Init ==
  /\ shards = [i \in Index |-> <<>>]
  /\ scan = "none" /\ at = 0 /\ held = FALSE
  /\ total = 0 /\ seen = <<>>
  /\ throughout = {} /\ everIn = {}

Next ==
  \/ \E key \in MapKeys :
       Delete(key) \/ \E value \in MapValues : Set(key, value)
  \/ \E call \in {"len", "range"} : Begin(call)
  \/ LenAdds \/ RangeLocks \/ RangeCalls \/ RangeUnlocks \/ Return

Spec == Init /\ [][Next]_vars

-----------------------------------------------------------------------------
KeysOf(pairs) == {p[1] : p \in pairs}

(* Len is the size of the map at no single moment, but it counts every key  *)
(* that was there all the time and none that never was: a writer can make   *)
(* it miss or count only the keys it writes meanwhile.                      *)
LenInBounds ==
  scan = "len" /\ AllVisited =>
    /\ Cardinality(KeysOf(throughout)) <= total
    /\ total <= Cardinality(KeysOf(everIn))

(* Range calls f once for a key, with a value the key had during the call,  *)
(* and a Range that f does not stop calls it for every pair that was there  *)
(* all the time.                                                            *)
RangeIsFair ==
  scan \in {"range", "stopped"} =>
    LET called == {seen[i] : i \in DOMAIN seen}
    IN  /\ \A i, j \in DOMAIN seen : seen[i][1] = seen[j][1] => i = j
        /\ called \subseteq everIn
        /\ AllVisited => throughout \subseteq called

(* Both: what a scan reports, the writers' steps justify.                   *)
ScansAreFair == LenInBounds /\ RangeIsFair
=============================================================================
