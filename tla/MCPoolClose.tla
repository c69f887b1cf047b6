----------------------------- MODULE MCPoolClose ------------------------------
(***************************************************************************)
(* WorkerPool with a history of who waited when Close came.                *)
(***************************************************************************)
EXTENDS MCWorkerPool

VARIABLE waiting  \* history: the Submits that waited for room (line 43) when
                  \* Close closed the queue

WaitsForRoom(k) == submit[k] = "sending" /\ Len(tasks) = QueueCap

WatchInit == Init /\ waiting = {}

WatchNext ==
  /\ Next
  /\ waiting' = IF ~closed /\ closed' THEN {k \in Tasks : WaitsForRoom(k)} ELSE waiting

WatchSpec == WatchInit /\ [][WatchNext]_<<vars, waiting>>

(* task.md:7 calls Close a graceful shutdown.  Not for a task that is being *)
(* submitted: a Submit that already waits for room when Close comes panics, *)
(* and with it the program, the tasks in hand included.  (A Submit that is  *)
(* called only after Close panics as well; nothing is promised to it.)      *)
GracefulClose == \A k \in waiting : submit[k] # "panicked"
=============================================================================
