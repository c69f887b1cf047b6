------------------------------ MODULE WorkerPool ------------------------------
(***************************************************************************)
(* The generic worker pool of                                              *)
(* 06-concurrency-patterns/exercises/hard/01-worker-pool/solution/main.go: *)
(* NewPool starts the workers, Submit queues a task and returns the        *)
(* channel of its result, Close closes the queue and waits for the         *)
(* workers.                                                                *)
(*                                                                         *)
(* A task is one Submit call.  The handler returns a value or an error     *)
(* nondeterministically, always returns, and does not call the pool.       *)
(***************************************************************************)
EXTENDS Naturals, Sequences, FiniteSets

CONSTANTS
  Tasks,    \* the Submit calls of a run
  Workers,  \* the goroutines started by NewPool
  Closers,  \* goroutines that call Close once
  NoTask    \* what an idle worker holds

ASSUME PoolAssumption ==
  /\ IsFiniteSet(Workers)
  /\ NoTask \notin Tasks

VARIABLES
  submit,   \* progress of each Submit call
  tasks,    \* Pool.tasks: the queue
  closed,   \* whether Pool.tasks has been closed
  worker,   \* the worker goroutines
  hand,     \* the task each worker holds, or NoTask
  outcome,  \* what the handler returned for it: <<>> or <<r>>
  result,   \* the result channel of each task, of capacity one
  got,      \* what the caller received from it
  wg,       \* counter of Pool.wg
  closer,   \* progress of each Close call
  panic     \* the runtime panic that ended the program, or "none"

vars == <<submit, tasks, closed, worker, hand, outcome, result, got, wg, closer,
          panic>>

Returned == {"value", "error"}  \* the handler's two kinds of return

QueueCap_Triple == 3 * Cardinality(Workers)

(* line 24: the queue holds twice as many tasks as there are workers        *)
QueueCap == 2 * Cardinality(Workers)

-----------------------------------------------------------------------------
(* Submit.                                                                  *)

(* line 42: make the result channel                                         *)
SubmitBegin(k) ==
  /\ submit[k] = "new"
  /\ submit' = [submit EXCEPT ![k] = "sending"]
  /\ UNCHANGED <<tasks, closed, worker, hand, outcome, result, got, wg, closer,
                 panic>>

(* line 43: the send waits for room in the queue; it panics if the queue is *)
(* closed, also when it was closed while the send was waiting               *)
Send(k) ==
  /\ submit[k] = "sending"
  /\ \/ /\ closed
        /\ panic' = "send_on_closed"
        /\ submit' = [submit EXCEPT ![k] = "panicked"]
        /\ UNCHANGED tasks
     \/ /\ ~closed /\ Len(tasks) < QueueCap
        /\ tasks' = Append(tasks, k)
        /\ submit' = [submit EXCEPT ![k] = "sent"]
        /\ UNCHANGED panic
  /\ UNCHANGED <<closed, worker, hand, outcome, result, got, wg, closer>>

(* The caller reads the channel that Submit returned, or never does.        *)
CallerReceives(k) ==
  /\ submit[k] = "sent" /\ result[k] # <<>>
  /\ got' = [got EXCEPT ![k] = @ \o result[k]]
  /\ result' = [result EXCEPT ![k] = <<>>]
  /\ UNCHANGED <<submit, tasks, closed, worker, hand, outcome, wg, closer, panic>>

-----------------------------------------------------------------------------
(* The worker goroutine.                                                    *)

(* line 35: take the next task                                              *)
Take(w) ==
  /\ worker[w] = "running" /\ hand[w] = NoTask /\ tasks # <<>>
  /\ hand' = [hand EXCEPT ![w] = Head(tasks)]
  /\ tasks' = Tail(tasks)
  /\ UNCHANGED <<submit, closed, worker, outcome, result, got, wg, closer, panic>>

(* line 36: call the handler                                                *)
Handle(w, r) ==
  /\ hand[w] # NoTask /\ outcome[w] = <<>>
  /\ outcome' = [outcome EXCEPT ![w] = <<r>>]
  /\ UNCHANGED <<submit, tasks, closed, worker, hand, result, got, wg, closer,
                 panic>>

Reply_OnlySuccess(w) ==
  /\ outcome[w] # <<>>
  /\ result' = [result EXCEPT ![hand[w]] =
                  IF outcome[w] = <<"value">> THEN @ \o outcome[w] ELSE @]
  /\ outcome' = [outcome EXCEPT ![w] = <<>>]
  /\ hand' = [hand EXCEPT ![w] = NoTask]
  /\ UNCHANGED <<submit, tasks, closed, worker, got, wg, closer, panic>>

(* line 37: send value and error to the task's own channel of capacity one; *)
(* the send would block if a result were there already                      *)
Reply(w) ==
  /\ outcome[w] # <<>> /\ Len(result[hand[w]]) < 1
  /\ result' = [result EXCEPT ![hand[w]] = @ \o outcome[w]]
  /\ outcome' = [outcome EXCEPT ![w] = <<>>]
  /\ hand' = [hand EXCEPT ![w] = NoTask]
  /\ UNCHANGED <<submit, tasks, closed, worker, got, wg, closer, panic>>

RangeEnds_OnClose == closed

(* line 35: the range loop ends when the queue is closed and drained        *)
RangeEnds == closed /\ tasks = <<>>

Exit_NoDone(w) ==
  /\ worker[w] = "running" /\ hand[w] = NoTask /\ RangeEnds
  /\ worker' = [worker EXCEPT ![w] = "exited"]
  /\ UNCHANGED <<submit, tasks, closed, hand, outcome, result, got, wg, closer,
                 panic>>

(* lines 34-35: leave the loop; the deferred wg.Done                        *)
Exit(w) ==
  /\ worker[w] = "running" /\ hand[w] = NoTask /\ RangeEnds
  /\ worker' = [worker EXCEPT ![w] = "exited"]
  /\ wg' = wg - 1
  /\ UNCHANGED <<submit, tasks, closed, hand, outcome, result, got, closer, panic>>

-----------------------------------------------------------------------------
(* Close.                                                                   *)

(* line 48: close the queue; closing it twice panics                        *)
CloseQueue(c) ==
  /\ closer[c] = "idle"
  /\ \/ closed /\ panic' = "close_of_closed"
     \/ ~closed /\ UNCHANGED panic
  /\ closed' = TRUE
  /\ closer' = [closer EXCEPT ![c] = "waiting"]
  /\ UNCHANGED <<submit, tasks, worker, hand, outcome, result, got, wg>>

Wait_Skipped(c) ==
  /\ closer[c] = "waiting"
  /\ closer' = [closer EXCEPT ![c] = "returned"]
  /\ UNCHANGED <<submit, tasks, closed, worker, hand, outcome, result, got, wg,
                 panic>>

(* line 49: wait for the workers                                            *)
Wait(c) ==
  /\ closer[c] = "waiting" /\ wg = 0
  /\ closer' = [closer EXCEPT ![c] = "returned"]
  /\ UNCHANGED <<submit, tasks, closed, worker, hand, outcome, result, got, wg,
                 panic>>

-----------------------------------------------------------------------------
(* lines 21-31: NewPool counts the workers before it starts them            *)
Init ==
  /\ submit = [k \in Tasks |-> "new"]
  /\ tasks = <<>>
  /\ closed = FALSE
  /\ worker = [w \in Workers |-> "running"]
  /\ hand = [w \in Workers |-> NoTask]
  /\ outcome = [w \in Workers |-> <<>>]
  /\ result = [k \in Tasks |-> <<>>]
  /\ got = [k \in Tasks |-> <<>>]
  /\ wg = Cardinality(Workers)
  /\ closer = [c \in Closers |-> "idle"]
  /\ panic = "none"

Submit(k) == SubmitBegin(k) \/ Send(k) \/ CallerReceives(k)

Work(w) == Take(w) \/ (\E r \in Returned : Handle(w, r)) \/ Reply(w) \/ Exit(w)

Close(c) == CloseQueue(c) \/ Wait(c)

(* A panic in any goroutine ends the program: nothing runs after it.        *)
Next ==
  /\ panic = "none"
  /\ \/ \E k \in Tasks : Submit(k)
     \/ \E w \in Workers : Work(w)
     \/ \E c \in Closers : Close(c)

(* Workers run, and a Submit or Close that has begun goes on; nobody is     *)
(* obliged to call them or to read a result.                                *)
Fairness ==
  /\ \A k \in Tasks : WF_vars(panic = "none" /\ Send(k))
  /\ \A w \in Workers : WF_vars(panic = "none" /\ Work(w))
  /\ \A c \in Closers : WF_vars(panic = "none" /\ Wait(c))

Spec == Init /\ [][Next]_vars

FairSpec == Spec /\ Fairness

-----------------------------------------------------------------------------
(* Properties.                                                              *)

Results == {<<>>} \cup {<<r>> : r \in Returned}

(* Types; the queue keeps within the two tasks per worker of line 24.       *)
TypeOK ==
  /\ submit \in [Tasks -> {"new", "sending", "sent", "panicked"}]
  /\ tasks \in Seq(Tasks) /\ Len(tasks) <= 2 * Cardinality(Workers)
  /\ closed \in BOOLEAN
  /\ worker \in [Workers -> {"running", "exited"}]
  /\ hand \in [Workers -> Tasks \cup {NoTask}]
  /\ outcome \in [Workers -> Results]
  /\ result \in [Tasks -> Results]
  /\ got \in [Tasks -> Results]
  /\ wg \in Nat
  /\ closer \in [Closers -> {"idle", "waiting", "returned"}]
  /\ panic \in {"none", "send_on_closed", "close_of_closed"}

(* Where a task is: its places in the queue, the workers that hold it, its  *)
(* result waiting in its channel, its result in the caller's hands.         *)
Places(k) ==
  {<<"queue", i>> : i \in {j \in DOMAIN tasks : tasks[j] = k}}
    \cup {<<"worker", w>> : w \in {v \in Workers : hand[v] = k}}
    \cup {<<"channel", i>> : i \in DOMAIN result[k]}
    \cup {<<"caller", i>> : i \in DOMAIN got[k]}

(* A task that Submit has sent is in exactly one place, from the queue to   *)
(* its caller, and no other task is anywhere: no task is lost or run twice, *)
(* however workers, callers and Close interleave and whatever the handler   *)
(* returns.  In particular the send of line 37 never blocks.                *)
OnePlace ==
  \A k \in Tasks :
    Cardinality(Places(k)) = IF submit[k] = "sent" THEN 1 ELSE 0

Answered(k) == result[k] # <<>> \/ got[k] # <<>>

(* When Close has returned every task ever sent has its result (TestClose), *)
(* and no worker is left.                                                   *)
CloseCompletes ==
  \A c \in Closers : closer[c] = "returned" =>
    /\ \A k \in Tasks : submit[k] = "sent" => Answered(k)
    /\ \A w \in Workers : worker[w] = "exited"

(* A Submit that waits for room gets it, and every task that was sent is    *)
(* answered, even when Close comes right after it and when nobody reads the *)
(* other results.                                                           *)
SubmitIsAnswered ==
  \A k \in Tasks : submit[k] # "new" ~> (Answered(k) \/ panic # "none")

(* Close returns once the workers have drained the queue.                   *)
CloseReturns ==
  \A c \in Closers :
    closer[c] = "waiting" ~> (closer[c] = "returned" \/ panic # "none")

(* Both: no call of Submit or Close is left waiting.                        *)
CallsReturn == SubmitIsAnswered /\ CloseReturns

-----------------------------------------------------------------------------
(* The promise, and the pool seen through it.                               *)

status ==
  [k \in Tasks |-> IF Answered(k) THEN "answered"
                   ELSE IF submit[k] = "sent" THEN "accepted" ELSE "new"]

door == IF \E c \in Closers : closer[c] = "returned" THEN "shut"
        ELSE IF closed THEN "closing" ELSE "open"

Promise == INSTANCE PoolPromise

(* The pool keeps the promise: a task is accepted only while the pool is    *)
(* open, answered once and only after it was accepted, and the pool is shut *)
(* for its callers only when no accepted task is left unanswered.           *)
KeepsPromise == Promise!PromiseSpec
=============================================================================
