--------------------------- MODULE ShardedCounter ----------------------------
(***************************************************************************)
(* The sharded counter of 23-performance/exercises/hard/                   *)
(* 01-sharded-counter/solution/main.go, and its MutexCounter and           *)
(* AtomicCounter.  An Inc picks a shard in turn and then adds to it, two   *)
(* atomic operations; Value loads one shard after another.  The other two  *)
(* counters have one cell and do either in one step.  Shards start on      *)
(* cache lines of their own, which is left out.                            *)
(***************************************************************************)
EXTENDS Integers, FiniteSets, FiniteSetsExt

CONSTANTS
  Incs,    \* the Inc calls
  Readers, \* the Value calls
  Shards   \* line 50: n, or the number of processors if n is not positive

VARIABLES
  kind,    \* "sharded", or "single": a MutexCounter or an AtomicCounter
  cells,   \* ShardedCounter.shards, from index 0
  turn,    \* ShardedCounter.next
  inc,     \* progress of each Inc: "new", "picked" or "done"
  pick,    \* the shard it has picked
  loaded,  \* the shards each Value has loaded, or -1 before the call
  sum,     \* its total so far
  floor    \* history: the least it must return

vars == <<kind, cells, turn, inc, pick, loaded, sum, floor>>

Index == 0..(Shards - 1)

Done == {c \in Incs : inc[c] = "done"}

Returned == {r \in Readers : loaded[r] = Shards}

-----------------------------------------------------------------------------
(* line 61                                                                  *)
IncPicks(c) ==
  /\ kind = "sharded" /\ inc[c] = "new"
  /\ turn' = turn + 1
  /\ pick' = [pick EXCEPT ![c] = turn' % Shards]
  /\ inc' = [inc EXCEPT ![c] = "picked"]
  /\ UNCHANGED <<kind, cells, loaded, sum, floor>>

(* line 62                                                                  *)
IncAdds(c) ==
  /\ inc[c] = "picked"
  /\ cells' = [cells EXCEPT ![pick[c]] = @ + 1]
  /\ inc' = [inc EXCEPT ![c] = "done"]
  /\ UNCHANGED <<kind, turn, pick, loaded, sum, floor>>

FirstCell_One == 1

(* line 67                                                                  *)
FirstCell == 0

(* lines 65-66: a Value must count the Incs that are done and not fall      *)
(* behind a Value that has returned                                         *)
ValueBegins(r) ==
  /\ kind = "sharded" /\ loaded[r] = -1
  /\ loaded' = [loaded EXCEPT ![r] = FirstCell]
  /\ floor' = [floor EXCEPT ![r] =
                 Max({Cardinality(Done)} \cup {sum[q] : q \in Returned})]
  /\ UNCHANGED <<kind, cells, turn, inc, pick, sum>>

(* lines 67-68                                                              *)
ValueLoads(r) ==
  /\ loaded[r] \in Index
  /\ sum' = [sum EXCEPT ![r] = @ + cells[loaded[r]]]
  /\ loaded' = [loaded EXCEPT ![r] = @ + 1]
  /\ UNCHANGED <<kind, cells, turn, inc, pick, floor>>

(* lines 16-20 and 34                                                       *)
SingleInc(c) ==
  /\ kind = "single" /\ inc[c] = "new"
  /\ cells' = [cells EXCEPT ![0] = @ + 1]
  /\ inc' = [inc EXCEPT ![c] = "done"]
  /\ UNCHANGED <<kind, turn, pick, loaded, sum, floor>>

(* lines 22-26 and 35                                                       *)
SingleValue(r) ==
  /\ kind = "single" /\ loaded[r] = -1
  /\ loaded' = [loaded EXCEPT ![r] = Shards]
  /\ sum' = [sum EXCEPT ![r] = cells[0]]
  /\ floor' = [floor EXCEPT ![r] =
                 Max({Cardinality(Done)} \cup {sum[q] : q \in Returned})]
  /\ UNCHANGED <<kind, cells, turn, inc, pick>>

(* lines 50-58                                                              *)
Init ==
  /\ kind \in {"sharded", "single"}
  /\ cells = [i \in Index |-> 0] /\ turn = 0
  /\ inc = [c \in Incs |-> "new"] /\ pick = [c \in Incs |-> 0]
  /\ loaded = [r \in Readers |-> -1]
  /\ sum = [r \in Readers |-> 0] /\ floor = [r \in Readers |-> 0]

Next ==
  \/ \E c \in Incs : IncPicks(c) \/ IncAdds(c) \/ SingleInc(c)
  \/ \E r \in Readers : ValueBegins(r) \/ ValueLoads(r) \/ SingleValue(r)

Spec == Init /\ [][Next]_vars

-----------------------------------------------------------------------------
(* Value adds up shards that go on changing, yet its answer is one a single *)
(* counter could have given: no Inc done before the call is missed, none is *)
(* counted that has not happened, and no Value returns less than one that   *)
(* had returned before it began.                                            *)
ValueInBounds ==
  \A r \in Returned : floor[r] <= sum[r] /\ sum[r] <= Cardinality(Done)
=============================================================================
