------------------------------- MODULE TTLCache -------------------------------
(***************************************************************************)
(* The cache with time to live of                                          *)
(* 05-sync/exercises/medium/01-cache-with-ttl/solution/main.go: Set, Get,  *)
(* Delete and Close called by any goroutines, and the cleanup goroutine    *)
(* driven by a ticker.  Len only reads.                                    *)
(*                                                                         *)
(* Time.  An entry carries the time it has left instead of the moment it   *)
(* expires: 0 at that moment, -1 after it.  Advance is one unit of time;   *)
(* it also ages the entry a Get has read and not checked yet.  The ticker  *)
(* fires every Interval units into a channel of capacity one.  No bound on *)
(* the length of a run is needed.                                          *)
(*                                                                         *)
(* Granularity.  What happens under mu is one step.  Get is three: it      *)
(* reads under the read lock, checks the time without a lock, and calls    *)
(* Delete, which takes the write lock.                                     *)
(***************************************************************************)
EXTENDS Integers

CONSTANTS
  Keys,
  Values,
  Getters,   \* goroutines that call Get, each any number of times
  MaxTTL,    \* bound: a caller passes times to live of -1..MaxTTL to Set; -1
             \* stands for every negative one
  Interval,  \* cleanupInterval
  NoItem     \* a key that is not in the map

ASSUME CacheAssumption ==
  /\ MaxTTL \in Nat
  /\ Interval \in Nat \ {0}
  /\ NoItem \notin [value : Values, left : Int]

VARIABLES
  items,    \* Cache.items
  get,      \* progress of each Get call: "idle", "check" or "delete"
  key,      \* its key
  seen,     \* the entry it read under the read lock
  reply,    \* its answer: a value, "miss", or "none" before it is decided
  during,   \* history: the answers that were right at some moment of its call
  phase,    \* time since the ticker last fired
  tick,     \* whether a tick waits in ticker.C
  cleaner,  \* the cleanup goroutine: "running" or "stopped"
  done,     \* whether Cache.done has been closed
  panic     \* the runtime panic that ended the program, or "none"

vars == <<items, get, key, seen, reply, during, phase, tick, cleaner, done, panic>>

getVars   == <<get, key, seen, reply>>
cleanVars == <<phase, tick, cleaner, done, panic>>

(* now.After(expiresAt)                                                     *)
After(it) == it.left < 0

(* An entry that is there and that Get would return.                        *)
Fresh(it) == it # NoItem /\ ~After(it)

Older(it) ==
  IF it = NoItem \/ After(it) THEN it ELSE [it EXCEPT !.left = @ - 1]

-----------------------------------------------------------------------------
(* The clock and the ticker (external: time).                               *)
Advance ==
  /\ items' = [k \in Keys |-> Older(items[k])]
  /\ seen' = [g \in Getters |-> Older(seen[g])]
  /\ phase' = (phase + 1) % Interval
  /\ tick' = (cleaner = "running" /\ (tick \/ phase' = 0))
  /\ UNCHANGED <<get, key, reply, cleaner, done, panic>>

-----------------------------------------------------------------------------
(* lines 48-52: Set; an entry with a negative ttl has expired already       *)
Set(k, v, ttl) ==
  /\ items' = [items EXCEPT ![k] = [value |-> v, left |-> ttl]]
  /\ UNCHANGED <<getVars, cleanVars>>

(* lines 70-74: Delete                                                      *)
Delete(k) ==
  /\ items' = [items EXCEPT ![k] = NoItem]
  /\ UNCHANGED <<getVars, cleanVars>>

(* lines 55-57: Get reads the entry under the read lock                     *)
GetRead(g, k) ==
  /\ get[g] = "idle"
  /\ get' = [get EXCEPT ![g] = "check"]
  /\ key' = [key EXCEPT ![g] = k]
  /\ seen' = [seen EXCEPT ![g] = items[k]]
  /\ reply' = [reply EXCEPT ![g] = "none"]
  /\ UNCHANGED <<items, cleanVars>>

GetCheck_NoExpiry(g) ==
  /\ get[g] = "check"
  /\ get' = [get EXCEPT ![g] = "idle"]
  /\ reply' = [reply EXCEPT
                 ![g] = IF seen[g] = NoItem THEN "miss" ELSE seen[g].value]
  /\ seen' = [seen EXCEPT ![g] = NoItem]
  /\ UNCHANGED <<items, key, cleanVars>>

(* lines 58-67: without the lock, decide by the entry read before; on an    *)
(* expired one go on to Delete                                              *)
GetCheck(g) ==
  /\ get[g] = "check"
  /\ reply' = [reply EXCEPT
                 ![g] = IF Fresh(seen[g]) THEN seen[g].value ELSE "miss"]
  /\ get' = [get EXCEPT
               ![g] = IF seen[g] # NoItem /\ After(seen[g]) THEN "delete" ELSE "idle"]
  /\ seen' = [seen EXCEPT ![g] = NoItem]
  /\ UNCHANGED <<items, key, cleanVars>>

(* line 63: the Delete of Get removes whatever the key holds by then        *)
GetDelete(g) ==
  /\ get[g] = "delete"
  /\ items' = [items EXCEPT ![key[g]] = NoItem]
  /\ get' = [get EXCEPT ![g] = "idle"]
  /\ UNCHANGED <<key, seen, reply, cleanVars>>

-----------------------------------------------------------------------------
(* The cleanup goroutine.                                                   *)

Outdated_AtExpiry(it) == it.left <= 0

(* line 39                                                                  *)
Outdated(it) == After(it)

(* lines 35-43: on a tick, remove the expired entries under the write lock  *)
Sweep ==
  /\ cleaner = "running" /\ tick
  /\ tick' = FALSE
  /\ items' = [k \in Keys |-> IF items[k] # NoItem /\ Outdated(items[k])
                              THEN NoItem ELSE items[k]]
  /\ UNCHANGED <<getVars, phase, cleaner, done, panic>>

(* lines 33-34 and 30: done is closed; a tick that waits too may be handled *)
(* first, select chooses.  The ticker is stopped and its tick goes.         *)
Stop ==
  /\ cleaner = "running" /\ done
  /\ cleaner' = "stopped"
  /\ tick' = FALSE
  /\ UNCHANGED <<items, getVars, phase, done, panic>>

(* lines 89-91: Close; a second one panics                                  *)
Close ==
  /\ done' = TRUE
  /\ \/ done /\ panic' = "close_of_closed"
     \/ ~done /\ UNCHANGED panic
  /\ UNCHANGED <<items, getVars, phase, tick, cleaner>>

-----------------------------------------------------------------------------
(* What a Get of key k would rightly answer, given the map.                 *)
Answer(map, k) == IF Fresh(map[k]) THEN map[k].value ELSE "miss"

(* History: collect the right answers of every moment of a call.            *)
Watch ==
  during' = [g \in Getters |->
    IF get[g] # "idle" THEN during[g] \cup {Answer(items', key[g])}
    ELSE IF get'[g] = "check" THEN {Answer(items', key'[g])}
    ELSE during[g]]

Init ==
  /\ items = [k \in Keys |-> NoItem]
  /\ get = [g \in Getters |-> "idle"]
  /\ key \in [Getters -> {CHOOSE k \in Keys : TRUE}]
  /\ seen = [g \in Getters |-> NoItem]
  /\ reply = [g \in Getters |-> "none"]
  /\ during = [g \in Getters |-> {}]
  /\ phase = 0
  /\ tick = FALSE
  /\ cleaner = "running"
  /\ done = FALSE
  /\ panic = "none"

Get(g) == (\E k \in Keys : GetRead(g, k)) \/ GetCheck(g) \/ GetDelete(g)

(* A panic in any goroutine ends the program: nothing runs after it.        *)
Next ==
  /\ panic = "none"
  /\ \/ Advance
     \/ \E k \in Keys, v \in Values, ttl \in -1..MaxTTL : Set(k, v, ttl)
     \/ \E k \in Keys : Delete(k)
     \/ \E g \in Getters : Get(g)
     \/ Sweep
     \/ Stop
     \/ Close
  /\ Watch

(* Time passes, and the cleanup goroutine and a Get that has begun run; the *)
(* callers may do nothing.  While done is closed and a tick waits, select   *)
(* picks at random, so done is not passed over for ever.                    *)
Fairness ==
  /\ WF_vars(panic = "none" /\ Advance /\ Watch)
  /\ WF_vars(panic = "none" /\ Sweep /\ Watch)
  /\ WF_vars(panic = "none" /\ Stop /\ Watch)
  /\ \A g \in Getters :
       WF_vars(panic = "none" /\ (GetCheck(g) \/ GetDelete(g)) /\ Watch)

Spec == Init /\ [][Next]_vars

FairSpec == Spec /\ Fairness

-----------------------------------------------------------------------------
(* Properties.                                                              *)

(* What Get answers, a value or a miss, was right at some moment of its     *)
(* call: the key held that value, unexpired, or no unexpired entry.  So it  *)
(* is although Get looks at the clock after it has let go of the lock, and  *)
(* deletes under another one, while Set, Delete and cleanup interleave.     *)
AnswersWereRight ==
  \A g \in Getters :
    get[g] = "idle" /\ reply[g] # "none" => reply[g] \in during[g]

(* An unexpired entry disappears only by a Delete of its key or by a Get    *)
(* that had read an expired one: cleanup (line 39) never takes it, not even *)
(* at the very moment it expires.                                           *)
OnlyStaleGetLoses ==
  [][\A k \in Keys : Fresh(items[k]) /\ items'[k] = NoItem =>
       \/ Delete(k)
       \/ \E g \in Getters : key[g] = k /\ get[g] = "delete" /\ GetDelete(g)]_vars

(* An expired entry is removed or replaced in the end, while cleanup runs.  *)
ExpiredGoes ==
  \A k \in Keys : (items[k] # NoItem /\ After(items[k])) ~>
    (items[k] = NoItem \/ Fresh(items[k]) \/ done)

(* Close stops the cleanup goroutine (task.md:10), however busy the ticker. *)
CloseStopsCleanup ==
  done ~> (cleaner = "stopped" \/ panic # "none")

(* What task.md:12 says: expired entries are removed by Get and by cleanup. *)
(* Not so: the Delete of Get (line 63) removes an entry that was set again  *)
(* after Get had read the expired one.                                      *)
FreshEntryStays ==
  [][\A k \in Keys : Fresh(items[k]) /\ items'[k] = NoItem => Delete(k)]_vars
=============================================================================
