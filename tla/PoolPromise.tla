----------------------------- MODULE PoolPromise -----------------------------
(***************************************************************************)
(* What a worker pool promises its callers, without workers or a queue:    *)
(* each accepted task is answered once, the door closes once, and the pool *)
(* is shut only when every accepted task has been answered (task.md:5-7 of *)
(* 06-concurrency-patterns/exercises/hard/01-worker-pool).                 *)
(***************************************************************************)
CONSTANT Tasks

VARIABLES
  status,  \* "new", "accepted" or "answered", for each task
  door     \* "open", "closing" or "shut"

promiseVars == <<status, door>>

Accept(k) ==
  /\ door = "open" /\ status[k] = "new"
  /\ status' = [status EXCEPT ![k] = "accepted"]
  /\ UNCHANGED door

Answer(k) ==
  /\ status[k] = "accepted"
  /\ status' = [status EXCEPT ![k] = "answered"]
  /\ UNCHANGED door

CloseDoor ==
  /\ door = "open"
  /\ door' = "closing"
  /\ UNCHANGED status

Shut ==
  /\ door = "closing"
  /\ \A k \in Tasks : status[k] # "accepted"
  /\ door' = "shut"
  /\ UNCHANGED status

PromiseInit ==
  /\ status = [k \in Tasks |-> "new"]
  /\ door = "open"

PromiseNext ==
  \/ \E k \in Tasks : Accept(k) \/ Answer(k)
  \/ CloseDoor
  \/ Shut

PromiseSpec == PromiseInit /\ [][PromiseNext]_promiseVars
=============================================================================
