-------------------------- MODULE WorkerPoolProofs --------------------------
(***************************************************************************)
(* Proofs about WorkerPool, for any set of tasks, any finite set of        *)
(* workers (none included) and any set of Close calls.                     *)
(***************************************************************************)
EXTENDS WorkerPool, FiniteSetTheorems, SequenceTheorems, TLAPS

(* The workers that have not left their loop.                               *)
Running == {w \in Workers : worker[w] = "running"}

(* The wait group counts them.                                              *)
GroupCountsRunning == wg = Cardinality(Running)

(* The queue holds sent tasks, each once, that no worker holds and that     *)
(* have no result.                                                          *)
QueueSound ==
  /\ \A i, j \in DOMAIN tasks : tasks[i] = tasks[j] => i = j
  /\ \A i \in DOMAIN tasks :
       /\ submit[tasks[i]] = "sent"
       /\ ~Answered(tasks[i])
       /\ \A w \in Workers : hand[w] # tasks[i]

(* A task in hand was sent, has no result, and is in one hand only.         *)
HandsSound ==
  /\ \A v, w \in Workers : hand[v] = hand[w] => v = w \/ hand[v] = NoTask
  /\ \A w \in Workers :
       /\ hand[w] # NoTask =>
            worker[w] = "running" /\ submit[hand[w]] = "sent" /\ ~Answered(hand[w])
       /\ outcome[w] # <<>> => hand[w] # NoTask

InQueue(k) == \E i \in DOMAIN tasks : tasks[i] = k
InHand(k)  == \E w \in Workers : hand[w] = k

(* A task that was sent is somewhere, its result is in one place, and a     *)
(* task that was not sent has none.                                         *)
TasksSound ==
  \A k \in Tasks :
    /\ submit[k] = "sent" => InQueue(k) \/ InHand(k) \/ Answered(k)
    /\ submit[k] # "sent" => ~Answered(k)
    /\ result[k] = <<>> \/ got[k] = <<>>

(* A worker leaves only a closed and drained queue; Close lets the workers  *)
(* go before it returns.                                                    *)
ClosingSound ==
  /\ \A w \in Workers : worker[w] = "exited" => closed /\ tasks = <<>>
  /\ \A c \in Closers : closer[c] # "idle" => closed
  /\ \A c \in Closers : closer[c] = "returned" => wg = 0

PoolInv ==
  /\ TypeOK
  /\ GroupCountsRunning
  /\ QueueSound
  /\ HandsSound
  /\ TasksSound
  /\ ClosingSound

-----------------------------------------------------------------------------
(* The initial states.                                                      *)
LEMMA PoolInit == Init => PoolInv
<1> SUFFICES ASSUME Init PROVE PoolInv
  OBVIOUS
<1>1. Running = Workers
  BY DEF Init, Running
<1>2. Cardinality(Workers) \in Nat
  BY FS_CardinalityType, PoolAssumption
<1>3. TypeOK
  <2>1. tasks \in Seq(Tasks) /\ Len(tasks) = 0
    BY DEF Init
  <2>2. Len(tasks) <= 2 * Cardinality(Workers)
    BY <1>2, <2>1
  <2> QED
    BY <1>2, <2>1, <2>2 DEF Init, TypeOK, Results
<1>4. GroupCountsRunning
  BY <1>1 DEF Init, GroupCountsRunning
<1>5. QueueSound /\ HandsSound /\ TasksSound /\ ClosingSound
  BY DEF Init, QueueSound, HandsSound, TasksSound, ClosingSound, Answered
<1> QED
  BY <1>3, <1>4, <1>5 DEF PoolInv

-----------------------------------------------------------------------------
(* The steps, one lemma per action.                                         *)

LEMMA SubmitBeginKeepsPool ==
  ASSUME PoolInv, NEW k \in Tasks, SubmitBegin(k)
  PROVE  PoolInv'
<1> USE PoolAssumption DEF PoolInv, SubmitBegin
<1>1. TypeOK'
  BY DEF TypeOK, Results
<1>2. GroupCountsRunning'
  BY DEF GroupCountsRunning, Running
<1>3. QueueSound'
  BY DEF QueueSound, TypeOK, Answered
<1>4. HandsSound'
  BY DEF HandsSound, TypeOK, Answered
<1>5. TasksSound'
  BY DEF TasksSound, TypeOK, Answered, InQueue, InHand
<1>6. ClosingSound'
  BY DEF ClosingSound, TypeOK
<1> QED
  BY <1>1, <1>2, <1>3, <1>4, <1>5, <1>6

LEMMA SendKeepsPool ==
  ASSUME PoolInv, NEW k \in Tasks, Send(k)
  PROVE  PoolInv'
<1> USE PoolAssumption DEF PoolInv, Send, QueueCap
<1>1. TypeOK'
  <2>1. CASE /\ Len(tasks) < QueueCap
             /\ tasks' = Append(tasks, k)
    <3>1. Cardinality(Workers) \in Nat
      BY FS_CardinalityType
    <3>2. tasks' \in Seq(Tasks) /\ Len(tasks') <= 2 * Cardinality(Workers)
      BY <2>1, <3>1 DEF TypeOK
    <3> QED
      BY <3>2 DEF TypeOK
  <2>2. CASE UNCHANGED tasks
    BY <2>2 DEF TypeOK
  <2> QED
    BY <2>1, <2>2
<1>2. GroupCountsRunning'
  BY DEF GroupCountsRunning, Running
<1>3. QueueSound'
  <2>1. CASE tasks' = tasks /\ submit' = [submit EXCEPT ![k] = "panicked"]
    <3>1. \A j \in Tasks : submit'[j] = "sent" <=> submit[j] = "sent"
      BY <2>1 DEF TypeOK
    <3>2. \A i \in DOMAIN tasks : tasks[i] \in Tasks
      BY DEF TypeOK
    <3> QED
      BY <2>1, <3>1, <3>2 DEF QueueSound, Answered
  <2>2. CASE tasks' = Append(tasks, k) /\ submit' = [submit EXCEPT ![k] = "sent"]
    <3>1. /\ DOMAIN tasks' = 1..(Len(tasks) + 1)
          /\ DOMAIN tasks = 1..Len(tasks) /\ Len(tasks) \in Nat
          /\ tasks'[Len(tasks) + 1] = k
          /\ \A i \in DOMAIN tasks : tasks'[i] = tasks[i]
      BY <2>2, AppendProperties DEF TypeOK
    <3>2. submit[k] # "sent"
      OBVIOUS
    <3>3. /\ \A i \in DOMAIN tasks : tasks[i] # k /\ tasks[i] \in Tasks
          /\ \A w \in Workers : hand[w] # k
          /\ ~Answered(k)
      BY <3>1, <3>2 DEF QueueSound, HandsSound, TasksSound, TypeOK
    <3>4. \A i \in DOMAIN tasks' : i = Len(tasks) + 1 \/ i \in DOMAIN tasks
      BY <3>1
    <3>5. \A i \in DOMAIN tasks' :
            tasks'[i] = IF i \in DOMAIN tasks THEN tasks[i] ELSE k
      BY <3>1, <3>4
    <3>6. \A i, j \in DOMAIN tasks' : tasks'[i] = tasks'[j] => i = j
      BY <3>1, <3>3, <3>4, <3>5 DEF QueueSound
    <3>7. \A i \in DOMAIN tasks' :
            /\ submit'[tasks'[i]] = "sent"
            /\ \A w \in Workers : hand[w] # tasks'[i]
            /\ ~Answered(tasks'[i])
      BY <2>2, <3>3, <3>5 DEF QueueSound, TypeOK
    <3> QED
      BY <3>6, <3>7 DEF QueueSound, Answered
  <2> QED
    BY <2>1, <2>2
<1>4. HandsSound'
  BY DEF HandsSound, TypeOK, Answered
<1>5. TasksSound'
  <2>1. CASE tasks' = tasks /\ submit' = [submit EXCEPT ![k] = "panicked"]
    <3>1. \A j \in Tasks : submit'[j] = "sent" <=> submit[j] = "sent"
      BY <2>1 DEF TypeOK
    <3> QED
      BY <2>1, <3>1 DEF TasksSound, Answered, InQueue, InHand
  <2>2. CASE tasks' = Append(tasks, k) /\ submit' = [submit EXCEPT ![k] = "sent"]
    <3>1. /\ DOMAIN tasks' = 1..(Len(tasks) + 1) /\ DOMAIN tasks = 1..Len(tasks)
          /\ Len(tasks) \in Nat
          /\ tasks'[Len(tasks) + 1] = k
          /\ \A i \in DOMAIN tasks : tasks'[i] = tasks[i]
      BY <2>2, AppendProperties DEF TypeOK
    <3>2. \A j \in Tasks : submit'[j] = IF j = k THEN "sent" ELSE submit[j]
      BY <2>2 DEF TypeOK
    <3>3. /\ InQueue(k)'
          /\ \A j \in Tasks : InQueue(j) => InQueue(j)'
      BY <3>1 DEF InQueue
    <3> QED
      BY <3>2, <3>3 DEF TasksSound, Answered, InHand
  <2> QED
    BY <2>1, <2>2
<1>6. ClosingSound'
  BY DEF ClosingSound, TypeOK
<1> QED
  BY <1>1, <1>2, <1>3, <1>4, <1>5, <1>6

LEMMA CallerReceivesKeepsPool ==
  ASSUME PoolInv, NEW k \in Tasks, CallerReceives(k)
  PROVE  PoolInv'
<1> USE PoolAssumption DEF PoolInv, CallerReceives
<1>1. TypeOK'
  <2>1. got[k] = <<>> /\ result[k] \in Results
    BY DEF TasksSound, TypeOK
  <2>2. got[k] \o result[k] \in Results
    BY <2>1 DEF Results
  <2>3. result' \in [Tasks -> Results] /\ got' \in [Tasks -> Results]
    BY <2>2 DEF TypeOK, Results
  <2> QED
    BY <2>3 DEF TypeOK
<1>2. GroupCountsRunning'
  BY DEF GroupCountsRunning, Running
<1>3. QueueSound'
  BY DEF QueueSound, TypeOK, Answered
<1>4. HandsSound'
  BY DEF HandsSound, TypeOK, Answered
<1>5. TasksSound'
  BY DEF TasksSound, TypeOK, Answered, InQueue, InHand
<1>6. ClosingSound'
  BY DEF ClosingSound, TypeOK
<1> QED
  BY <1>1, <1>2, <1>3, <1>4, <1>5, <1>6

LEMMA TakeKeepsPool ==
  ASSUME PoolInv, NEW w \in Workers, Take(w)
  PROVE  PoolInv'
<1> USE PoolAssumption DEF PoolInv, Take
<1>0. /\ Head(tasks) \in Tasks /\ tasks[1] = Head(tasks)
      /\ Tail(tasks) \in Seq(Tasks) /\ Len(Tail(tasks)) = Len(tasks) - 1
      /\ Len(tasks) \in Nat /\ Len(tasks) > 0
      /\ DOMAIN tasks = 1..Len(tasks) /\ DOMAIN Tail(tasks) = 1..(Len(tasks) - 1)
      /\ \A i \in DOMAIN Tail(tasks) : Tail(tasks)[i] = tasks[i + 1]
  BY HeadTailProperties DEF TypeOK
<1>1. TypeOK'
  <2>1. tasks' \in Seq(Tasks) /\ Len(tasks') <= 2 * Cardinality(Workers)
    <3>1. Cardinality(Workers) \in Nat
      BY FS_CardinalityType
    <3> QED
      BY <1>0, <3>1 DEF TypeOK
  <2> QED
    BY <1>0, <2>1 DEF TypeOK
<1>2. GroupCountsRunning'
  BY DEF GroupCountsRunning, Running
<1>3. QueueSound'
  BY DEF QueueSound, TypeOK, Answered
<1>4. HandsSound'
  <2>1. /\ submit[Head(tasks)] = "sent" /\ ~Answered(Head(tasks))
        /\ \A v \in Workers : hand[v] # Head(tasks)
    BY <1>0 DEF QueueSound
  <2>2. hand' = [hand EXCEPT ![w] = Head(tasks)] /\ hand \in [Workers -> Tasks \cup {NoTask}]
    BY DEF TypeOK
  <2> QED
    BY <2>1, <2>2 DEF HandsSound, Answered
<1>5. TasksSound'
  <2>1. \A k \in Tasks : InQueue(k) => InQueue(k)' \/ k = Head(tasks)
    <3> SUFFICES ASSUME NEW k \in Tasks, NEW i \in DOMAIN tasks, tasks[i] = k,
                        k # Head(tasks)
                 PROVE  InQueue(k)'
      BY DEF InQueue
    <3>1. i # 1
      BY <1>0
    <3>2. i - 1 \in DOMAIN Tail(tasks) /\ Tail(tasks)[i - 1] = tasks[i]
      BY <1>0, <3>1
    <3> QED
      BY <3>2 DEF InQueue
  <2>2. \A k \in Tasks : InHand(k) => InHand(k)'
    <3> SUFFICES ASSUME NEW k \in Tasks, NEW v \in Workers, hand[v] = k
                 PROVE  InHand(k)'
      BY DEF InHand
    <3>1. v # w
      OBVIOUS
    <3>2. hand'[v] = k
      BY <3>1 DEF TypeOK
    <3> QED
      BY <3>2 DEF InHand
  <2>3. \A k \in Tasks : k = Head(tasks) => InHand(k)'
    BY DEF InHand, TypeOK
  <2> QED
    <3>1. \A k \in Tasks : Answered(k)' <=> Answered(k)
      BY DEF Answered
    <3> QED
      BY <2>1, <2>2, <2>3, <3>1 DEF TasksSound
<1>6. ClosingSound'
  BY DEF ClosingSound, TypeOK
<1> QED
  BY <1>1, <1>2, <1>3, <1>4, <1>5, <1>6

LEMMA HandleKeepsPool ==
  ASSUME PoolInv, NEW w \in Workers, NEW r \in Returned, Handle(w, r)
  PROVE  PoolInv'
<1> USE PoolAssumption DEF PoolInv, Handle
<1>1. TypeOK'
  BY DEF TypeOK, Results
<1>2. GroupCountsRunning'
  BY DEF GroupCountsRunning, Running
<1>3. QueueSound'
  BY DEF QueueSound, TypeOK, Answered
<1>4. HandsSound'
  BY DEF HandsSound, TypeOK, Answered
<1>5. TasksSound'
  BY DEF TasksSound, TypeOK, Answered, InQueue, InHand
<1>6. ClosingSound'
  BY DEF ClosingSound, TypeOK
<1> QED
  BY <1>1, <1>2, <1>3, <1>4, <1>5, <1>6

LEMMA ReplyKeepsPool ==
  ASSUME PoolInv, NEW w \in Workers, Reply(w)
  PROVE  PoolInv'
<1> USE PoolAssumption DEF PoolInv, Reply
<1>0. /\ hand[w] \in Tasks /\ submit[hand[w]] = "sent" /\ worker[w] = "running"
      /\ result[hand[w]] = <<>> /\ got[hand[w]] = <<>>
      /\ outcome[w] \in Results /\ outcome[w] # <<>>
      /\ result[hand[w]] \o outcome[w] = outcome[w]
  <2>1. /\ hand[w] \in Tasks /\ submit[hand[w]] = "sent"
        /\ worker[w] = "running" /\ ~Answered(hand[w])
    BY DEF HandsSound, TypeOK
  <2> QED
    BY <2>1 DEF Answered, TypeOK, Results
<1>1. TypeOK'
  <2>1. result' \in [Tasks -> Results]
    BY <1>0 DEF TypeOK
  <2> QED
    BY <1>0, <2>1 DEF TypeOK, Results
<1>2. GroupCountsRunning'
  BY DEF GroupCountsRunning, Running
<1>3. QueueSound'
  BY DEF QueueSound, TypeOK, Answered
<1>4. HandsSound'
  BY DEF HandsSound, TypeOK, Answered
<1>5. TasksSound'
  <2>1. result' = [result EXCEPT ![hand[w]] = outcome[w]]
    BY <1>0
  <2>2. \A k \in Tasks : InHand(k) => InHand(k)' \/ k = hand[w]
    BY DEF InHand, TypeOK
  <2>3. \A k \in Tasks : k = hand[w] => Answered(k)'
    <3>1. result'[hand[w]] = outcome[w]
      BY <1>0, <2>1 DEF TypeOK
    <3> QED
      BY <1>0, <3>1 DEF Answered
  <2>4. \A k \in Tasks \ {hand[w]} : result'[k] = result[k]
    BY <2>1 DEF TypeOK
  <2> QED
    <3> SUFFICES ASSUME NEW k \in Tasks
                 PROVE  /\ submit[k] = "sent" =>
                             InQueue(k) \/ InHand(k)' \/ Answered(k)'
                        /\ submit[k] # "sent" => ~Answered(k)'
                        /\ result'[k] = <<>> \/ got[k] = <<>>
      BY DEF TasksSound, InQueue
    <3>1. CASE k = hand[w]
      BY <1>0, <2>3, <3>1
    <3>2. CASE k # hand[w]
      <4>1. Answered(k)' <=> Answered(k)
        BY <2>4, <3>2 DEF Answered
      <4> QED
        BY <2>2, <2>4, <3>2, <4>1 DEF TasksSound
    <3> QED
      BY <3>1, <3>2
<1>6. ClosingSound'
  BY DEF ClosingSound, TypeOK
<1> QED
  BY <1>1, <1>2, <1>3, <1>4, <1>5, <1>6

LEMMA ExitKeepsPool ==
  ASSUME PoolInv, NEW w \in Workers, Exit(w)
  PROVE  PoolInv'
<1> USE PoolAssumption DEF PoolInv, Exit, RangeEnds
<1>0. Running' = Running \ {w} /\ Cardinality(Running') = wg - 1
      /\ wg \in Nat /\ wg # 0
  <2>1. w \in Running /\ IsFiniteSet(Running)
    BY FS_Subset DEF Running
  <2>2. Running' = Running \ {w}
    BY DEF Running, TypeOK
  <2>3. Cardinality(Running \ {w}) = Cardinality(Running) - 1
    BY <2>1, FS_RemoveElement, Zenon
  <2>4. Cardinality(Running) # 0
    BY <2>1, FS_EmptySet
  <2> QED
    BY <2>2, <2>3, <2>4 DEF GroupCountsRunning, TypeOK
<1>1. TypeOK'
  <2>1. wg' \in Nat
    BY <1>0
  <2> QED
    BY <2>1 DEF TypeOK
<1>2. GroupCountsRunning'
  BY <1>0 DEF GroupCountsRunning
<1>3. QueueSound'
  BY DEF QueueSound, TypeOK, Answered
<1>4. HandsSound'
  BY DEF HandsSound, TypeOK, Answered
<1>5. TasksSound'
  BY DEF TasksSound, TypeOK, Answered, InQueue, InHand
<1>6. ClosingSound'
  BY <1>0 DEF ClosingSound, TypeOK
<1> QED
  BY <1>1, <1>2, <1>3, <1>4, <1>5, <1>6

LEMMA CloseQueueKeepsPool ==
  ASSUME PoolInv, NEW c \in Closers, CloseQueue(c)
  PROVE  PoolInv'
<1> USE PoolAssumption DEF PoolInv, CloseQueue
<1>1. TypeOK'
  BY DEF TypeOK, Results
<1>2. GroupCountsRunning'
  BY DEF GroupCountsRunning, Running
<1>3. QueueSound'
  BY DEF QueueSound, TypeOK, Answered
<1>4. HandsSound'
  BY DEF HandsSound, TypeOK, Answered
<1>5. TasksSound'
  BY DEF TasksSound, TypeOK, Answered, InQueue, InHand
<1>6. ClosingSound'
  BY DEF ClosingSound, TypeOK
<1> QED
  BY <1>1, <1>2, <1>3, <1>4, <1>5, <1>6

LEMMA WaitKeepsPool ==
  ASSUME PoolInv, NEW c \in Closers, Wait(c)
  PROVE  PoolInv'
<1> USE PoolAssumption DEF PoolInv, Wait
<1>1. TypeOK'
  BY DEF TypeOK, Results
<1>2. GroupCountsRunning'
  BY DEF GroupCountsRunning, Running
<1>3. QueueSound'
  BY DEF QueueSound, TypeOK, Answered
<1>4. HandsSound'
  BY DEF HandsSound, TypeOK, Answered
<1>5. TasksSound'
  BY DEF TasksSound, TypeOK, Answered, InQueue, InHand
<1>6. ClosingSound'
  BY DEF ClosingSound, TypeOK
<1> QED
  BY <1>1, <1>2, <1>3, <1>4, <1>5, <1>6

-----------------------------------------------------------------------------
(* Any step keeps the invariant.                                            *)
LEMMA PoolStep == PoolInv /\ [Next]_vars => PoolInv'
<1> SUFFICES ASSUME PoolInv, [Next]_vars PROVE PoolInv'
  OBVIOUS
<1>1. ASSUME NEW k \in Tasks, Submit(k) PROVE PoolInv'
  BY <1>1, SubmitBeginKeepsPool, SendKeepsPool, CallerReceivesKeepsPool DEF Submit
<1>2. ASSUME NEW w \in Workers, Work(w) PROVE PoolInv'
  BY <1>2, TakeKeepsPool, HandleKeepsPool, ReplyKeepsPool, ExitKeepsPool DEF Work
<1>3. ASSUME NEW c \in Closers, Close(c) PROVE PoolInv'
  BY <1>3, CloseQueueKeepsPool, WaitKeepsPool DEF Close
<1>4. CASE UNCHANGED vars
  BY <1>4 DEF vars, PoolInv, TypeOK, GroupCountsRunning, Running, QueueSound,
              HandsSound, TasksSound, ClosingSound, Answered, InQueue, InHand
<1> QED
  BY <1>1, <1>2, <1>3, <1>4 DEF Next

LEMMA PoolHolds == Spec => []PoolInv
BY PoolInit, PoolStep, PTL DEF Spec

(* Type correctness: the queue never exceeds its capacity and the group's   *)
(* counter never goes negative.                                             *)
THEOREM TypeCorrect == Spec => []TypeOK
BY PoolHolds, PTL DEF PoolInv

-----------------------------------------------------------------------------
(* A set with exactly one element.                                          *)
LEMMA OneElement ==
  ASSUME NEW x, NEW S, x \in S, \A y \in S : y = x
  PROVE  Cardinality(S) = 1
<1>1. S = {x}
  OBVIOUS
<1> QED
  BY <1>1, FS_Singleton

(* Every task that was sent is in exactly one place, and the others in none *)
(* (lines 35-37 and 43): none is lost, run twice or answered twice.         *)
THEOREM OnePlaceEach == Spec => []OnePlace
<1>1. PoolInv => OnePlace
  <2> SUFFICES ASSUME PoolInv, NEW k \in Tasks
               PROVE  Cardinality(Places(k)) = IF submit[k] = "sent" THEN 1 ELSE 0
    BY DEF OnePlace
  <2> USE PoolAssumption DEF PoolInv
  <2>0. \A r \in Results : r = <<>> \/ DOMAIN r = {1}
    BY DEF Results
  <2>1. DOMAIN <<>> = {}
    OBVIOUS
  <2>2. result[k] \in Results /\ got[k] \in Results
    BY DEF TypeOK
  <2>3. CASE submit[k] # "sent"
    <3>1. Places(k) = {}
      <4>1. ~Answered(k) /\ ~InQueue(k) /\ ~InHand(k)
        BY <2>3 DEF TasksSound, QueueSound, HandsSound, InQueue, InHand
      <4> QED
        BY <2>1, <4>1 DEF Places, Answered, InQueue, InHand
    <3> QED
      BY <2>3, <3>1, FS_EmptySet
  <2>4. CASE submit[k] = "sent" /\ InQueue(k)
    <3>1. PICK i \in DOMAIN tasks : tasks[i] = k
      BY <2>4 DEF InQueue
    <3>2. ~Answered(k) /\ ~InHand(k) /\ \A j \in DOMAIN tasks : tasks[j] = k => j = i
      BY <3>1 DEF QueueSound, InHand
    <3>3. <<"queue", i>> \in Places(k) /\ \A y \in Places(k) : y = <<"queue", i>>
      BY <2>1, <3>1, <3>2 DEF Places, Answered, InHand
    <3> QED
      BY <2>4, <3>3, OneElement
  <2>5. CASE submit[k] = "sent" /\ InHand(k)
    <3>1. PICK w \in Workers : hand[w] = k
      BY <2>5 DEF InHand
    <3>2. ~Answered(k) /\ ~InQueue(k) /\ \A v \in Workers : hand[v] = k => v = w
      BY <3>1 DEF HandsSound, QueueSound, InQueue
    <3>3. <<"worker", w>> \in Places(k) /\ \A y \in Places(k) : y = <<"worker", w>>
      BY <2>1, <3>1, <3>2 DEF Places, Answered, InQueue
    <3> QED
      BY <2>5, <3>3, OneElement
  <2>6. CASE submit[k] = "sent" /\ Answered(k)
    <3>1. ~InQueue(k) /\ ~InHand(k)
      BY <2>6 DEF HandsSound, QueueSound, InQueue, InHand
    <3>2. CASE result[k] # <<>>
      <4>1. got[k] = <<>> /\ DOMAIN result[k] = {1}
        BY <2>0, <2>2, <3>2 DEF TasksSound
      <4>2. /\ <<"channel", 1>> \in Places(k)
            /\ \A y \in Places(k) : y = <<"channel", 1>>
        BY <2>1, <3>1, <4>1 DEF Places, InQueue, InHand
      <4> QED
        BY <2>6, <4>2, OneElement
    <3>3. CASE got[k] # <<>>
      <4>1. result[k] = <<>> /\ DOMAIN got[k] = {1}
        BY <2>0, <2>2, <3>3 DEF TasksSound
      <4>2. /\ <<"caller", 1>> \in Places(k)
            /\ \A y \in Places(k) : y = <<"caller", 1>>
        BY <2>1, <3>1, <4>1 DEF Places, InQueue, InHand
      <4> QED
        BY <2>6, <4>2, OneElement
    <3> QED
      BY <2>6, <3>2, <3>3 DEF Answered
  <2> QED
    BY <2>3, <2>4, <2>5, <2>6 DEF TasksSound
<1> QED
  BY <1>1, PoolHolds, PTL

-----------------------------------------------------------------------------
(* A zero counter under a closed queue means that everything is done.       *)
LEMMA ZeroMeansDone ==
  ASSUME PoolInv, wg = 0, closed
  PROVE  /\ \A w \in Workers : worker[w] = "exited"
         /\ \A k \in Tasks : submit[k] = "sent" => Answered(k)
<1> USE PoolAssumption DEF PoolInv
<1>1. Running = {}
  <2>1. IsFiniteSet(Running)
    BY FS_Subset DEF Running
  <2> QED
    BY <2>1, FS_EmptySet DEF GroupCountsRunning
<1>2. \A w \in Workers : worker[w] = "exited"
  BY <1>1 DEF Running, TypeOK
<1>3. tasks = <<>>
  <2>1. CASE Workers = {}
    <3>1. Len(tasks) <= 0 /\ tasks \in Seq(Tasks)
      BY <2>1, FS_EmptySet DEF TypeOK
    <3> QED
      BY <3>1, EmptySeq
  <2>2. CASE Workers # {}
    BY <1>2, <2>2 DEF ClosingSound
  <2> QED
    BY <2>1, <2>2
<1>4. \A k \in Tasks : ~InHand(k)
  BY <1>2 DEF InHand, HandsSound
<1>5. \A k \in Tasks : ~InQueue(k)
  BY <1>3 DEF InQueue
<1> QED
  BY <1>2, <1>4, <1>5 DEF TasksSound

(* Close returns only when every task that was sent has its result and no   *)
(* worker is left (line 49).                                                *)
THEOREM CloseIsComplete == Spec => []CloseCompletes
<1>1. PoolInv => CloseCompletes
  BY ZeroMeansDone DEF PoolInv, ClosingSound, CloseCompletes
<1> QED
  BY <1>1, PoolHolds, PTL

-----------------------------------------------------------------------------
(* The pool implements the promise.                                         *)

LEMMA DoorStays ==
  ASSUME UNCHANGED <<closed, closer>>
  PROVE  UNCHANGED door
BY DEF door

LEMMA StatusStays ==
  ASSUME \A k \in Tasks : submit'[k] = submit[k] /\ (Answered(k)' <=> Answered(k))
  PROVE  UNCHANGED status
BY DEF status

(* Nobody has returned from Close while the queue is open.                  *)
LEMMA OpenDoor ==
  ASSUME PoolInv
  PROVE  /\ ~closed => door = "open"
         /\ closed => door \in {"closing", "shut"}
         /\ door = "closing" => closed
BY DEF PoolInv, ClosingSound, door

(* Queueing a task accepts it.                                              *)
LEMMA SendAccepts ==
  ASSUME PoolInv, NEW k \in Tasks, Send(k)
  PROVE  Promise!Accept(k) \/ UNCHANGED <<status, door>>
<1>1. UNCHANGED door
  BY DoorStays DEF Send
<1>2. CASE submit' = [submit EXCEPT ![k] = "panicked"]
  <2>1. submit[k] = "sending" /\ submit \in [Tasks -> {"new", "sending", "sent", "panicked"}]
    BY DEF Send, PoolInv, TypeOK
  <2>2. \A j \in Tasks : (submit'[j] = "sent" <=> submit[j] = "sent")
    BY <1>2, <2>1
  <2>3. UNCHANGED status
    BY <2>2 DEF status, Send, Answered
  <2> QED
    BY <1>1, <2>3
<1>3. CASE ~closed /\ submit' = [submit EXCEPT ![k] = "sent"]
  <2>1. submit[k] = "sending" /\ submit \in [Tasks -> {"new", "sending", "sent", "panicked"}]
    BY DEF Send, PoolInv, TypeOK
  <2>2. ~Answered(k) /\ \A j \in Tasks : Answered(j)' <=> Answered(j)
    BY <2>1 DEF PoolInv, TasksSound, Send, Answered
  <2>3. status[k] = "new"
    BY <2>1, <2>2 DEF status
  <2>4. status' = [status EXCEPT ![k] = "accepted"]
    BY <1>3, <2>1, <2>2 DEF status
  <2> QED
    BY <1>1, <1>3, <2>3, <2>4, OpenDoor DEF Promise!Accept
<1> QED
  BY <1>2, <1>3 DEF Send

(* Sending a result answers the task in hand.                               *)
LEMMA ReplyAnswers ==
  ASSUME PoolInv, NEW w \in Workers, Reply(w), NEW k \in Tasks, k = hand[w]
  PROVE  Promise!Answer(k)
<1>1. UNCHANGED door
  BY DoorStays DEF Reply
<1>2. submit[k] = "sent" /\ ~Answered(k) /\ outcome[w] # <<>>
  BY PoolAssumption DEF PoolInv, HandsSound, Reply
<1>3. result[k] = <<>> /\ outcome[w] \in Results /\ result \in [Tasks -> Results]
  BY <1>2 DEF Answered, PoolInv, TypeOK
<1>4. result[k] \o outcome[w] = outcome[w]
  BY <1>2, <1>3 DEF Results
<1>5. result' = [result EXCEPT ![k] = outcome[w]] /\ UNCHANGED <<got, submit>>
  BY <1>4 DEF Reply
<1>6. Answered(k)'
  <2>1. result'[k] = outcome[w]
    BY <1>3, <1>5
  <2> QED
    BY <1>2, <2>1 DEF Answered
<1>7. \A j \in Tasks \ {k} : Answered(j)' <=> Answered(j)
  BY <1>3, <1>5 DEF Answered
<1>8. status[k] = "accepted" /\ status' = [status EXCEPT ![k] = "answered"]
  BY <1>2, <1>5, <1>6, <1>7 DEF status
<1> QED
  BY <1>1, <1>8 DEF Promise!Answer

(* Closing the queue closes the door, or panics on a closed one.            *)
LEMMA CloseQueueCloses ==
  ASSUME PoolInv, NEW c \in Closers, CloseQueue(c)
  PROVE  Promise!CloseDoor \/ UNCHANGED <<status, door>>
<1>1. UNCHANGED status
  BY StatusStays DEF CloseQueue, Answered
<1>2. \A d \in Closers : closer'[d] = "returned" <=> closer[d] = "returned"
  BY DEF CloseQueue, PoolInv, TypeOK
<1>3. CASE closed
  BY <1>1, <1>2, <1>3 DEF door, CloseQueue
<1>4. CASE ~closed
  <2>1. \A d \in Closers : closer[d] # "returned"
    BY <1>4 DEF PoolInv, ClosingSound
  <2>2. door = "open" /\ door' = "closing"
    BY <1>2, <1>4, <2>1 DEF door, CloseQueue
  <2> QED
    BY <1>1, <2>2 DEF Promise!CloseDoor
<1> QED
  BY <1>3, <1>4

(* Returning from Close shuts the pool.                                     *)
LEMMA WaitShuts ==
  ASSUME PoolInv, NEW c \in Closers, Wait(c)
  PROVE  Promise!Shut \/ UNCHANGED <<status, door>>
<1>1. UNCHANGED status
  BY StatusStays DEF Wait, Answered
<1>2. door' = "shut"
  BY DEF door, Wait, PoolInv, TypeOK
<1>3. closed /\ wg = 0
  BY DEF Wait, PoolInv, ClosingSound
<1>4. \A k \in Tasks : status[k] # "accepted"
  BY <1>3, ZeroMeansDone DEF status
<1>5. door \in {"closing", "shut"}
  BY <1>3, OpenDoor
<1> QED
  BY <1>1, <1>2, <1>4, <1>5 DEF Promise!Shut

LEMMA StepRefines ==
  PoolInv /\ [Next]_vars => [Promise!PromiseNext]_<<status, door>>
<1> SUFFICES ASSUME PoolInv, [Next]_vars
             PROVE  Promise!PromiseNext \/ UNCHANGED <<status, door>>
  OBVIOUS
<1>1. ASSUME NEW k \in Tasks, Submit(k)
      PROVE  Promise!PromiseNext \/ UNCHANGED <<status, door>>
  <2>1. CASE SubmitBegin(k)
    <3>1. UNCHANGED door
      BY <2>1, DoorStays DEF SubmitBegin
    <3>2. UNCHANGED status
      BY <2>1 DEF SubmitBegin, status, Answered, PoolInv, TypeOK
    <3> QED
      BY <3>1, <3>2
  <2>2. CASE Send(k)
    BY <2>2, SendAccepts DEF Promise!PromiseNext
  <2>3. CASE CallerReceives(k)
    <3>1. UNCHANGED door
      BY <2>3, DoorStays DEF CallerReceives
    <3>2. got[k] = <<>> /\ result[k] # <<>> /\ got[k] \o result[k] # <<>>
      BY <2>3 DEF CallerReceives, PoolInv, TasksSound, TypeOK, Results
    <3>3. \A j \in Tasks : Answered(j)' <=> Answered(j)
      BY <2>3, <3>2 DEF CallerReceives, Answered, PoolInv, TypeOK
    <3> QED
      BY <2>3, <3>1, <3>3, StatusStays DEF CallerReceives
  <2> QED
    BY <1>1, <2>1, <2>2, <2>3 DEF Submit
<1>2. ASSUME NEW w \in Workers, Work(w)
      PROVE  Promise!PromiseNext \/ UNCHANGED <<status, door>>
  <2>1. CASE Reply(w)
    <3>1. hand[w] \in Tasks
      BY <2>1 DEF Reply, PoolInv, HandsSound, TypeOK
    <3> QED
      BY <2>1, <3>1, ReplyAnswers DEF Promise!PromiseNext
  <2>2. CASE Take(w) \/ Exit(w) \/ \E r \in Returned : Handle(w, r)
    <3>1. UNCHANGED <<submit, result, got, closed, closer>>
      BY <2>2 DEF Take, Exit, Handle
    <3> QED
      BY <3>1, DoorStays, StatusStays DEF Answered
  <2> QED
    BY <1>2, <2>1, <2>2 DEF Work
<1>3. ASSUME NEW c \in Closers, Close(c)
      PROVE  Promise!PromiseNext \/ UNCHANGED <<status, door>>
  BY <1>3, CloseQueueCloses, WaitShuts DEF Close, Promise!PromiseNext
<1>4. CASE UNCHANGED vars
  BY <1>4, DoorStays, StatusStays DEF vars, Answered
<1> QED
  BY <1>1, <1>2, <1>3, <1>4 DEF Next

(* The pool keeps the promise PoolPromise states: tasks are accepted only   *)
(* before Close, answered once, and all answered when Close has returned.   *)
THEOREM PoolKeepsPromise == Spec => KeepsPromise
<1>1. Init => Promise!PromiseInit
  BY DEF Init, Promise!PromiseInit, status, door, Answered
<1> QED
  BY <1>1, StepRefines, PoolHolds, PTL
     DEF Spec, KeepsPromise, Promise!PromiseSpec, Promise!promiseVars
=============================================================================
