----------------------------- MODULE TaskService -----------------------------
(***************************************************************************)
(* The task service and its in-memory repository of 22-architecture/       *)
(* exercises/medium/01-clean-layers/solution/main.go.  Every method of the *)
(* repository holds the lock; the service calls them one by one, so an     *)
(* UpdateStatus is a read and a later write of the copy that was read.     *)
(***************************************************************************)
EXTENDS Integers, FiniteSets, Functions

CONSTANTS
  Users,       \* goroutines that call the service
  Titles,      \* the titles they give; the empty one is refused, line 124
  Half,        \* half of the numbers of the sequence, 2^31 in the code (line 53)
  MaxCreates   \* bound on the tasks created

VARIABLES
  tasks,    \* InMemoryRepo.tasks: id -> title and status
  seq,      \* InMemoryRepo.seq
  copy,     \* the task and new status an UpdateStatus is about to write
  made,     \* history: the title of every id handed out
  creates   \* history: the number of tasks created

vars == <<tasks, seq, copy, made, creates>>

NoCopy == [id |-> 0, title |-> "", status |-> ""]

(* lines 13-17; UpdateStatus refuses any other, lines 146-153               *)
Statuses == {"todo", "doing", "done"}

-----------------------------------------------------------------------------
(* The repository: lines 60-111.                                            *)

Wrap(n) == IF n >= Half THEN n - 2 * Half ELSE n

(* The map m once m[id] = value has run.                                    *)
With(m, id, value) == [i \in DOMAIN m \cup {id} |-> IF i = id THEN value ELSE m[i]]

(* line 63: the sum of an int32 wraps                                       *)
nextId == Wrap(seq + 1)

(* lines 61-67                                                              *)
Save(title, status) ==
  /\ seq' = nextId
  /\ tasks' = With(tasks, nextId, [title |-> title, status |-> status])

(* lines 71-78: a copy of the task                                          *)
FindByID(id) == {[id |-> i, title |-> tasks[i].title] : i \in {id} \cap DOMAIN tasks}

Update_Upserts(task) ==
  tasks' = With(tasks, task.id, [title |-> task.title, status |-> task.status])

(* lines 93-100: a task that is gone is not written back                    *)
Update(task) ==
  tasks' = IF task.id \in DOMAIN tasks
           THEN [tasks EXCEPT ![task.id] =
                   [title |-> task.title, status |-> task.status]]
           ELSE tasks

(* lines 104-110                                                            *)
Remove(id) == tasks' = Restrict(tasks, DOMAIN tasks \ {id})

-----------------------------------------------------------------------------
(* The service: lines 123-164.                                              *)

(* lines 127-135                                                            *)
Create(title) ==
  /\ creates < MaxCreates /\ creates' = creates + 1
  /\ Save(title, "todo")
  /\ made' = With(made, nextId, title)
  /\ UNCHANGED copy

(* lines 151-158: read the task and change the copy                         *)
UpdateReads(u, id, status) ==
  /\ copy[u] = NoCopy
  /\ \E t \in FindByID(id) :
       copy' = [copy EXCEPT ![u] = [id |-> id, title |-> t.title, status |-> status]]
  /\ UNCHANGED <<tasks, seq, made, creates>>

(* line 159: write the copy back                                            *)
UpdateWrites(u) ==
  /\ copy[u] # NoCopy
  /\ Update(copy[u])
  /\ copy' = [copy EXCEPT ![u] = NoCopy]
  /\ UNCHANGED <<seq, made, creates>>

(* lines 162-164                                                            *)
Delete(id) ==
  /\ Remove(id)
  /\ UNCHANGED <<seq, copy, made, creates>>

(* lines 56-58                                                              *)
Init ==
  /\ tasks = <<>> /\ seq = 0
  /\ copy = [u \in Users |-> NoCopy]
  /\ made = <<>> /\ creates = 0

Next ==
  \/ \E title \in Titles : Create(title)
  \/ \E id \in DOMAIN tasks : Delete(id)
  \/ \E u \in Users :
       \/ \E id \in DOMAIN tasks, status \in Statuses : UpdateReads(u, id, status)
       \/ UpdateWrites(u)

Spec == Init /\ [][Next]_vars

-----------------------------------------------------------------------------
(* Ids are for good: whatever stale copy an UpdateStatus writes back, no    *)
(* step brings back an id that a Delete removed, and none changes the title *)
(* under an id.  This holds until the sequence has wrapped around; the one  *)
(* Create after that may give away an id a second time.                     *)
IdsForGood ==
  [][creates' <= 2 * Half =>
       /\ (DOMAIN made \ DOMAIN tasks) \cap DOMAIN tasks' = {}
       /\ \A id \in DOMAIN tasks' : tasks'[id].title = made'[id]
       /\ \A id \in DOMAIN made : made'[id] = made[id]]_vars
=============================================================================
