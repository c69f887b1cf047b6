-------------------------- MODULE EventBrokerProofs --------------------------
(***************************************************************************)
(* Proofs about EventBroker, for any sets of topics, publishers and Close  *)
(* calls, any finite set of subscriptions, any buffer capacity and any     *)
(* number of events and cancels.                                           *)
(***************************************************************************)
EXTENDS EventBroker, FiniteSetTheorems, SequenceTheorems, TLAPS

(* The wait group counts the workers that run (wg.Add at line 62, wg.Done   *)
(* at line 64).                                                             *)
GroupCountsWorkers == wg = Cardinality(Live)

(* An event in the worker's hands has an attempt left.                      *)
AttemptLeft == \A s \in Subs : current[s] # <<>> => tries[s] < 3

(* A Subscribe call has touched nothing before it registers, and its worker *)
(* and its cancel function exist from its return on.                        *)
Lifecycle ==
  \A s \in Subs :
    /\ caller[s] = "new" => ~chClosed[s]
    /\ caller[s] # "subscribed" =>
         worker[s] = "none" /\ unclosed[s] = 0 /\ cancels[s] = 0
    /\ worker[s] = "none" => current[s] = <<>>

(* A registered subscriber sits in the slice of its own topic.              *)
RegisteredAtTopic ==
  \A t \in Topics : \A s \in subscribers[t] :
    topic[s] = t /\ caller[s] # "new"

(* The channels of the subscribers that are still registered are open, no   *)
(* cancel is about to close them and none has passed its critical section.  *)
OpenWhileRegistered ==
  \A t \in Topics : \A s \in subscribers[t] :
    ~chClosed[s] /\ unclosed[s] = 0 /\ cancels[s] = 0

(* A Publish that has subscribers to visit holds the read lock, and they    *)
(* are all still registered for the topic of its event.                     *)
VisitsRegistered ==
  \A p \in Publishers : todo[p] # {} =>
    /\ inflight[p] # <<>>
    /\ todo[p] \subseteq subscribers[Head(inflight[p]).topic]

(* The part of the inductive invariant about the lock, the registration and *)
(* the group.                                                               *)
LockInv ==
  /\ TypeOK
  /\ GroupCountsWorkers
  /\ AttemptLeft
  /\ Lifecycle
  /\ RegisteredAtTopic
  /\ OpenWhileRegistered
  /\ VisitsRegistered
  /\ NeverSendOnClosed

-----------------------------------------------------------------------------
(* One event as the contents of a one-place holder.                         *)
Held == {<<>>} \cup {<<e>> : e \in Event}

(* The head of a full holder is the event it holds.                         *)
LEMMA HeldHead ==
  ASSUME NEW h \in Held, h # <<>>
  PROVE  Head(h) \in Event /\ h = <<Head(h)>>
BY DEF Held

LEMMA HeldIsSeq ==
  ASSUME NEW h \in Held
  PROVE  h \in Seq(Event)
<1>1. \A e \in Event : <<e>> \in Seq(Event)
  OBVIOUS
<1>2. <<>> \in Seq(Event)
  BY EmptySeq
<1> QED
  BY <1>1, <1>2, Zenon DEF Held

(* The initial states satisfy the invariant.                                *)
LEMMA LockInit == Init => LockInv
<1> SUFFICES ASSUME Init PROVE LockInv
  OBVIOUS
<1>1. TypeOK
  <2>1. (CHOOSE t \in Topics : TRUE) \in Topics
    BY BrokerAssumption
  <2> QED
    BY <2>1, BrokerAssumption DEF Init, TypeOK
<1>2. GroupCountsWorkers
  <2>1. Live = {}
    BY DEF Init, Live
  <2> QED
    BY <2>1, FS_EmptySet DEF Init, GroupCountsWorkers
<1>3. /\ AttemptLeft /\ Lifecycle /\ RegisteredAtTopic
      /\ OpenWhileRegistered /\ VisitsRegistered /\ NeverSendOnClosed
  BY DEF Init, AttemptLeft, Lifecycle, RegisteredAtTopic,
         OpenWhileRegistered, VisitsRegistered, NeverSendOnClosed
<1> QED
  BY <1>1, <1>2, <1>3 DEF LockInv

-----------------------------------------------------------------------------
(* Every step keeps the invariant, one lemma per action.                    *)

LEMMA RegisterKeepsLock ==
  ASSUME LockInv, NEW s \in Subs, NEW t \in Topics, panic = "none", Register(s, t)
  PROVE  LockInv'
<1> USE DEF LockInv, Register, subVars, chanVars, workVars, pubVars, closeVars, WriteLockFree
<1>1. TypeOK'
  BY BrokerAssumption DEF TypeOK, Outcome, Event
<1>2. GroupCountsWorkers'
  BY DEF GroupCountsWorkers, Live
<1>3. AttemptLeft'
  BY DEF AttemptLeft, TypeOK
<1>4. Lifecycle'
  BY DEF Lifecycle, TypeOK
<1>5. RegisteredAtTopic'
  BY DEF RegisteredAtTopic, TypeOK
<1>6. OpenWhileRegistered'
  BY DEF OpenWhileRegistered, TypeOK, Lifecycle
<1>7. VisitsRegistered'
  BY DEF VisitsRegistered, TypeOK
<1>8. NeverSendOnClosed'
  BY DEF NeverSendOnClosed
<1> QED
  BY <1>1, <1>2, <1>3, <1>4, <1>5, <1>6, <1>7, <1>8

LEMMA StartWorkerKeepsLock ==
  ASSUME LockInv, NEW s \in Subs, panic = "none", StartWorker(s)
  PROVE  LockInv'
<1> USE DEF LockInv, StartWorker, subVars, chanVars, workVars, pubVars, closeVars
<1>1. TypeOK'
  BY DEF TypeOK
<1>2. GroupCountsWorkers'
  <2>1. s \notin Live
    BY DEF Live, Lifecycle
  <2>2. IsFiniteSet(Live)
    BY FS_Subset, BrokerAssumption DEF Live
  <2>3. Live' = Live \cup {s}
    BY DEF Live, TypeOK
  <2> QED
    BY <2>1, <2>2, <2>3, FS_AddElement DEF GroupCountsWorkers
<1>3. AttemptLeft'
  BY DEF AttemptLeft, TypeOK
<1>4. Lifecycle'
  BY DEF Lifecycle, TypeOK
<1>5. RegisteredAtTopic'
  BY DEF RegisteredAtTopic, TypeOK
<1>6. OpenWhileRegistered'
  BY DEF OpenWhileRegistered, TypeOK, RegisteredAtTopic
<1>7. VisitsRegistered'
  BY DEF VisitsRegistered, TypeOK
<1>8. NeverSendOnClosed'
  BY DEF NeverSendOnClosed
<1> QED
  BY <1>1, <1>2, <1>3, <1>4, <1>5, <1>6, <1>7, <1>8

LEMMA ReceiveKeepsLock ==
  ASSUME LockInv, NEW s \in Subs, panic = "none", Receive(s)
  PROVE  LockInv'
<1> USE DEF LockInv, Receive, subVars, chanVars, workVars, pubVars, closeVars
<1>1. TypeOK'
  <2>1. Head(ch[s]) \in Event /\ Tail(ch[s]) \in Seq(Event)
    BY DEF TypeOK
  <2>2. ch' \in [Subs -> Seq(Event)]
    BY <2>1 DEF TypeOK
  <2>3. \A u \in Subs : Len(ch'[u]) <= BufCap
    <3>1. Len(Tail(ch[s])) <= Len(ch[s])
      BY DEF TypeOK
    <3> QED
      BY <2>1, <3>1, BrokerAssumption DEF TypeOK
  <2>4. current' \in [Subs -> {<<>>} \cup {<<e>> : e \in Event}]
    BY <2>1 DEF TypeOK
  <2>5. tries' \in [Subs -> 0..3]
    BY DEF TypeOK
  <2> QED
    BY <2>2, <2>3, <2>4, <2>5 DEF TypeOK
<1>2. GroupCountsWorkers'
  BY DEF GroupCountsWorkers, Live
<1>3. AttemptLeft'
  BY DEF AttemptLeft, TypeOK
<1>4. Lifecycle'
  BY DEF Lifecycle, TypeOK
<1>5. RegisteredAtTopic'
  BY DEF RegisteredAtTopic, TypeOK
<1>6. OpenWhileRegistered'
  BY DEF OpenWhileRegistered, TypeOK, RegisteredAtTopic
<1>7. VisitsRegistered'
  BY DEF VisitsRegistered, TypeOK
<1>8. NeverSendOnClosed'
  BY DEF NeverSendOnClosed
<1> QED
  BY <1>1, <1>2, <1>3, <1>4, <1>5, <1>6, <1>7, <1>8

LEMMA HandleKeepsLock ==
  ASSUME LockInv, NEW s \in Subs, NEW ok \in BOOLEAN, panic = "none", Handle(s, ok)
  PROVE  LockInv'
<1> DEFINE o == [event |-> Head(current[s]), tries |-> tries[s] + 1, ok |-> ok]
<1>1. current[s] # <<>>
  BY DEF Handle
<1>2. tries[s] + 1 \in 1..3
  <2>1. tries[s] < 3
    BY <1>1 DEF LockInv, AttemptLeft
  <2>2. tries[s] \in 0..3
    BY DEF LockInv, TypeOK
  <2> QED
    BY <2>1, <2>2
<1>3. o \in Outcome
  <2>1. Head(current[s]) \in Event
    BY <1>1, HeldHead DEF LockInv, TypeOK, Held
  <2> QED
    BY <1>2, <2>1 DEF Outcome
<1>4. \/ /\ current' = [current EXCEPT ![s] = <<>>]
         /\ finished' = [finished EXCEPT ![s] = Append(@, o)]
      \/ tries[s] + 1 # 3 /\ UNCHANGED <<current, finished>>
  BY DEF Handle, MaxAttempts
<1>5. /\ tries' = [tries EXCEPT ![s] = @ + 1]
      /\ UNCHANGED <<subscribers, subVars, chanVars, worker, wg, pubVars,
                     closeVars, panic>>
  BY DEF Handle
<1> HIDE DEF o
<1> USE DEF LockInv, subVars, chanVars, pubVars, closeVars
<1>6. TypeOK'
  <2>1. tries' \in [Subs -> 0..3]
    BY <1>2, <1>5 DEF TypeOK
  <2>2. current' \in [Subs -> {<<>>} \cup {<<e>> : e \in Event}]
    BY <1>4 DEF TypeOK
  <2>3. finished' \in [Subs -> Seq(Outcome)]
    <3>1. finished \in [Subs -> Seq(Outcome)]
      BY DEF TypeOK
    <3>2. Append(finished[s], o) \in Seq(Outcome)
      BY <1>3, <3>1
    <3> QED
      BY <1>4, <3>1, <3>2
  <2> QED
    BY <1>5, <2>1, <2>2, <2>3 DEF TypeOK
<1>7. AttemptLeft'
  BY <1>2, <1>4, <1>5 DEF AttemptLeft, TypeOK
<1>8. Lifecycle'
  BY <1>1, <1>4, <1>5 DEF Lifecycle, TypeOK
<1>9. GroupCountsWorkers'
  BY <1>5 DEF GroupCountsWorkers, Live
<1>10. /\ RegisteredAtTopic' /\ OpenWhileRegistered'
       /\ VisitsRegistered' /\ NeverSendOnClosed'
  BY <1>5 DEF RegisteredAtTopic, OpenWhileRegistered, VisitsRegistered,
              NeverSendOnClosed
<1> QED
  BY <1>6, <1>7, <1>8, <1>9, <1>10

LEMMA ExitKeepsLock ==
  ASSUME LockInv, NEW s \in Subs, panic = "none", Exit(s)
  PROVE  LockInv'
<1> USE DEF LockInv, Exit, subVars, chanVars, workVars, pubVars, closeVars, RangeEnds
<1>1. TypeOK'
  <2>1. wg' \in Nat
    <3>1. Live # {} /\ IsFiniteSet(Live)
      BY FS_Subset, BrokerAssumption DEF Live
    <3>2. wg \in Nat /\ wg # 0
      BY <3>1, FS_EmptySet DEF GroupCountsWorkers, TypeOK
    <3> QED
      BY <3>2
  <2>2. closer' \in [Closers ->
                     {"idle", "waiting", "parked", "woken", "returned"}]
    BY DEF TypeOK
  <2> QED
    BY <2>1, <2>2 DEF TypeOK
<1>2. GroupCountsWorkers'
  <2>1. s \in Live
    BY DEF Live
  <2>2. IsFiniteSet(Live)
    BY FS_Subset, BrokerAssumption DEF Live
  <2>3. Live' = Live \ {s}
    BY DEF Live, TypeOK
  <2>4. Cardinality(Live') = Cardinality(Live) - 1
    BY <2>1, <2>2, <2>3, FS_RemoveElement
  <2> QED
    BY <2>4 DEF GroupCountsWorkers
<1>3. AttemptLeft'
  BY DEF AttemptLeft, TypeOK
<1>4. Lifecycle'
  BY DEF Lifecycle, TypeOK
<1>5. RegisteredAtTopic'
  BY DEF RegisteredAtTopic, TypeOK
<1>6. OpenWhileRegistered'
  BY DEF OpenWhileRegistered, TypeOK, RegisteredAtTopic
<1>7. VisitsRegistered'
  BY DEF VisitsRegistered, TypeOK
<1>8. NeverSendOnClosed'
  BY DEF NeverSendOnClosed
<1> QED
  BY <1>1, <1>2, <1>3, <1>4, <1>5, <1>6, <1>7, <1>8

LEMMA CancelLockedKeepsLock ==
  ASSUME LockInv, NEW s \in Subs, panic = "none", CancelLocked(s)
  PROVE  LockInv'
<1> USE DEF LockInv, CancelLocked, subVars, chanVars, workVars, pubVars, closeVars, WriteLockFree, Unregister
<1>1. TypeOK'
  BY DEF TypeOK
<1>2. GroupCountsWorkers'
  BY DEF GroupCountsWorkers, Live
<1>3. AttemptLeft'
  BY DEF AttemptLeft, TypeOK
<1>4. Lifecycle'
  BY DEF Lifecycle, TypeOK
<1>5. RegisteredAtTopic'
  BY DEF RegisteredAtTopic, TypeOK
<1>6. OpenWhileRegistered'
  BY DEF OpenWhileRegistered, TypeOK, RegisteredAtTopic
<1>7. VisitsRegistered'
  BY DEF VisitsRegistered, TypeOK
<1>8. NeverSendOnClosed'
  BY DEF NeverSendOnClosed
<1> QED
  BY <1>1, <1>2, <1>3, <1>4, <1>5, <1>6, <1>7, <1>8

LEMMA CancelCloseKeepsLock ==
  ASSUME LockInv, NEW s \in Subs, panic = "none", CancelClose(s)
  PROVE  LockInv'
<1> USE DEF LockInv, CancelClose, subVars, chanVars, workVars, pubVars, closeVars
<1>1. TypeOK'
  BY DEF TypeOK
<1>2. GroupCountsWorkers'
  BY DEF GroupCountsWorkers, Live
<1>3. AttemptLeft'
  BY DEF AttemptLeft, TypeOK
<1>4. Lifecycle'
  BY DEF Lifecycle, TypeOK
<1>5. RegisteredAtTopic'
  BY DEF RegisteredAtTopic, TypeOK
<1>6. OpenWhileRegistered'
  BY DEF OpenWhileRegistered, TypeOK, RegisteredAtTopic
<1>7. VisitsRegistered'
  BY DEF VisitsRegistered, TypeOK
<1>8. NeverSendOnClosed'
  BY DEF NeverSendOnClosed
<1> QED
  BY <1>1, <1>2, <1>3, <1>4, <1>5, <1>6, <1>7, <1>8

LEMMA PublishBeginKeepsLock ==
  ASSUME LockInv, NEW p \in Publishers, NEW t \in Topics, panic = "none", PublishBegin(p, t)
  PROVE  LockInv'
<1> USE DEF LockInv, PublishBegin, subVars, chanVars, workVars, pubVars, closeVars
<1>1. TypeOK'
  <2>1. published' \in 1..MaxEvents
    BY BrokerAssumption DEF TypeOK
  <2>2. [id |-> published + 1, topic |-> t, by |-> p] \in Event
    BY <2>1 DEF Event
  <2>3. inflight' \in [Publishers -> {<<>>} \cup {<<e>> : e \in Event}]
    BY <2>2 DEF TypeOK
  <2>4. todo' \in [Publishers -> SUBSET Subs]
    BY DEF TypeOK
  <2> QED
    BY <2>1, <2>3, <2>4 DEF TypeOK
<1>2. GroupCountsWorkers'
  BY DEF GroupCountsWorkers, Live
<1>3. AttemptLeft'
  BY DEF AttemptLeft, TypeOK
<1>4. Lifecycle'
  BY DEF Lifecycle, TypeOK
<1>5. RegisteredAtTopic'
  BY DEF RegisteredAtTopic, TypeOK
<1>6. OpenWhileRegistered'
  BY DEF OpenWhileRegistered, TypeOK, RegisteredAtTopic
<1>7. VisitsRegistered'
  BY DEF VisitsRegistered, TypeOK
<1>8. NeverSendOnClosed'
  BY DEF NeverSendOnClosed
<1> QED
  BY <1>1, <1>2, <1>3, <1>4, <1>5, <1>6, <1>7, <1>8

LEMMA PublishVisitKeepsLock ==
  ASSUME LockInv, NEW p \in Publishers, NEW s \in Subs, panic = "none", PublishVisit(p, s)
  PROVE  LockInv'
<1> USE DEF LockInv, PublishVisit, subVars, chanVars, workVars, pubVars, closeVars, HasRoom, Enqueue
<1>1. TypeOK'
  <2>1. todo' \in [Publishers -> SUBSET Subs]
    BY DEF TypeOK
  <2>2. Head(inflight[p]) \in Event
    BY HeldHead DEF TypeOK, Held, VisitsRegistered
  <2> DEFINE e == Head(inflight[p])
  <2>3. CASE /\ Len(ch[s]) < BufCap
             /\ ch' = [ch EXCEPT ![s] = Append(@, e)]
             /\ accepted' = [accepted EXCEPT ![s] = Append(@, e)]
    <3> HIDE DEF e, PublishVisit
    <3>1. /\ Append(ch[s], e) \in Seq(Event)
          /\ Append(accepted[s], e) \in Seq(Event)
          /\ Len(Append(ch[s], e)) <= BufCap
      BY <2>2, <2>3, BrokerAssumption DEF TypeOK, e
    <3>2. /\ ch' \in [Subs -> Seq(Event)]
          /\ accepted' \in [Subs -> Seq(Event)]
          /\ \A u \in Subs : Len(ch'[u]) <= BufCap
      BY <2>3, <3>1 DEF TypeOK
    <3> QED
      BY <2>1, <3>2 DEF TypeOK, PublishVisit
  <2>4. CASE UNCHANGED <<ch, accepted>>
    BY <2>1, <2>4 DEF TypeOK
  <2> QED
    BY <2>3, <2>4
<1>2. GroupCountsWorkers'
  BY DEF GroupCountsWorkers, Live
<1>3. AttemptLeft'
  BY DEF AttemptLeft, TypeOK
<1>4. Lifecycle'
  BY DEF Lifecycle, TypeOK
<1>5. RegisteredAtTopic'
  BY DEF RegisteredAtTopic, TypeOK
<1>6. OpenWhileRegistered'
  BY DEF OpenWhileRegistered, TypeOK, RegisteredAtTopic
<1>7. VisitsRegistered'
  BY DEF VisitsRegistered, TypeOK
<1>8. NeverSendOnClosed'
  <2>1. Head(inflight[p]) \in Event
    BY HeldHead DEF TypeOK, Held, VisitsRegistered
  <2>2. s \in subscribers[Head(inflight[p]).topic]
    BY DEF VisitsRegistered
  <2>3. ~chClosed[s]
    BY <2>1, <2>2 DEF OpenWhileRegistered, Event
  <2> QED
    BY <2>3 DEF NeverSendOnClosed
<1> QED
  BY <1>1, <1>2, <1>3, <1>4, <1>5, <1>6, <1>7, <1>8

LEMMA PublishEndKeepsLock ==
  ASSUME LockInv, NEW p \in Publishers, panic = "none", PublishEnd(p)
  PROVE  LockInv'
<1> USE DEF LockInv, PublishEnd, subVars, chanVars, workVars, pubVars, closeVars
<1>1. TypeOK'
  BY DEF TypeOK
<1>2. GroupCountsWorkers'
  BY DEF GroupCountsWorkers, Live
<1>3. AttemptLeft'
  BY DEF AttemptLeft, TypeOK
<1>4. Lifecycle'
  BY DEF Lifecycle, TypeOK
<1>5. RegisteredAtTopic'
  BY DEF RegisteredAtTopic, TypeOK
<1>6. OpenWhileRegistered'
  BY DEF OpenWhileRegistered, TypeOK, RegisteredAtTopic
<1>7. VisitsRegistered'
  BY DEF VisitsRegistered, TypeOK
<1>8. NeverSendOnClosed'
  BY DEF NeverSendOnClosed
<1> QED
  BY <1>1, <1>2, <1>3, <1>4, <1>5, <1>6, <1>7, <1>8

LEMMA CloseLockedKeepsLock ==
  ASSUME LockInv, NEW c \in Closers, panic = "none", CloseLocked(c)
  PROVE  LockInv'
<1> USE DEF LockInv, CloseLocked, subVars, chanVars, workVars, pubVars, closeVars, WriteLockFree, CloseChannels, Registered
<1>1. TypeOK'
  <2>1. /\ subscribers' \in [Topics -> SUBSET Subs]
        /\ chClosed' \in [Subs -> BOOLEAN]
    BY DEF TypeOK
  <2>2. swept' \in [Closers -> SUBSET Subs]
    BY DEF TypeOK
  <2>3. counted' \in [Closers -> SUBSET Subs]
    BY DEF TypeOK, Live
  <2>4. panic' \in {"none", "close_of_closed"}
    OBVIOUS
  <2> QED
    BY <2>1, <2>2, <2>3, <2>4 DEF TypeOK
<1>2. GroupCountsWorkers'
  BY DEF GroupCountsWorkers, Live
<1>3. AttemptLeft'
  BY DEF AttemptLeft, TypeOK
<1>4. Lifecycle'
  <2>1. \A u \in Registered : caller[u] # "new"
    BY DEF RegisteredAtTopic
  <2> QED
    BY <2>1 DEF Lifecycle, TypeOK
<1>5. RegisteredAtTopic'
  BY DEF RegisteredAtTopic, TypeOK
<1>6. OpenWhileRegistered'
  BY DEF OpenWhileRegistered, TypeOK, RegisteredAtTopic
<1>7. VisitsRegistered'
  BY DEF VisitsRegistered, TypeOK
<1>8. NeverSendOnClosed'
  BY DEF NeverSendOnClosed
<1> QED
  BY <1>1, <1>2, <1>3, <1>4, <1>5, <1>6, <1>7, <1>8

LEMMA WaitKeepsLock ==
  ASSUME LockInv, NEW c \in Closers, panic = "none", Wait(c)
  PROVE  LockInv'
<1> USE DEF LockInv, Wait, subVars, chanVars, workVars, pubVars, closeVars
<1>1. TypeOK'
  BY DEF TypeOK
<1>2. GroupCountsWorkers'
  BY DEF GroupCountsWorkers, Live
<1>3. AttemptLeft'
  BY DEF AttemptLeft, TypeOK
<1>4. Lifecycle'
  BY DEF Lifecycle, TypeOK
<1>5. RegisteredAtTopic'
  BY DEF RegisteredAtTopic, TypeOK
<1>6. OpenWhileRegistered'
  BY DEF OpenWhileRegistered, TypeOK, RegisteredAtTopic
<1>7. VisitsRegistered'
  BY DEF VisitsRegistered, TypeOK
<1>8. NeverSendOnClosed'
  BY DEF NeverSendOnClosed
<1> QED
  BY <1>1, <1>2, <1>3, <1>4, <1>5, <1>6, <1>7, <1>8

LEMMA WaitWokenKeepsLock ==
  ASSUME LockInv, NEW c \in Closers, panic = "none", WaitWoken(c)
  PROVE  LockInv'
<1> USE DEF LockInv, WaitWoken, subVars, chanVars, workVars, pubVars, closeVars
<1>1. TypeOK'
  BY DEF TypeOK
<1>2. GroupCountsWorkers'
  BY DEF GroupCountsWorkers, Live
<1>3. AttemptLeft'
  BY DEF AttemptLeft, TypeOK
<1>4. Lifecycle'
  BY DEF Lifecycle, TypeOK
<1>5. RegisteredAtTopic'
  BY DEF RegisteredAtTopic, TypeOK
<1>6. OpenWhileRegistered'
  BY DEF OpenWhileRegistered, TypeOK, RegisteredAtTopic
<1>7. VisitsRegistered'
  BY DEF VisitsRegistered, TypeOK
<1>8. NeverSendOnClosed'
  BY DEF NeverSendOnClosed
<1> QED
  BY <1>1, <1>2, <1>3, <1>4, <1>5, <1>6, <1>7, <1>8

(* Any step, a stuttering one included, keeps the invariant.                *)
LEMMA LockStep == LockInv /\ [Next]_vars => LockInv'
<1> SUFFICES ASSUME LockInv, [Next]_vars PROVE LockInv'
  OBVIOUS
<1>1. CASE Next
  <2>1. ASSUME NEW s \in Subs, Subscribe(s) PROVE LockInv'
    BY <1>1, <2>1, RegisterKeepsLock, StartWorkerKeepsLock DEF Subscribe, Next
  <2>2. ASSUME NEW s \in Subs, Work(s) PROVE LockInv'
    BY <1>1, <2>2, ReceiveKeepsLock, HandleKeepsLock, ExitKeepsLock DEF Work, Next
  <2>3. ASSUME NEW s \in Subs, Cancel(s) PROVE LockInv'
    BY <1>1, <2>3, CancelLockedKeepsLock, CancelCloseKeepsLock DEF Cancel, Next
  <2>4. ASSUME NEW p \in Publishers, Publish(p) PROVE LockInv'
    BY <1>1, <2>4, PublishBeginKeepsLock, PublishVisitKeepsLock,
       PublishEndKeepsLock DEF Publish, Next
  <2>5. ASSUME NEW c \in Closers, Close(c) PROVE LockInv'
    BY <1>1, <2>5, CloseLockedKeepsLock, WaitKeepsLock, WaitWokenKeepsLock
       DEF Close, Next
  <2> QED
    BY <1>1, <2>1, <2>2, <2>3, <2>4, <2>5 DEF Next
<1>2. CASE UNCHANGED vars
  BY <1>2 DEF vars, LockInv, TypeOK, GroupCountsWorkers, Live, AttemptLeft,
              Lifecycle, RegisteredAtTopic, OpenWhileRegistered,
              VisitsRegistered, NeverSendOnClosed
<1> QED
  BY <1>1, <1>2

LEMMA LockHolds == Spec => []LockInv
BY LockInit, LockStep, PTL DEF Spec

(* Type correctness: in particular no buffer ever holds more than BufCap    *)
(* events and the wait group's counter never goes negative.                 *)
THEOREM TypeCorrect == Spec => []TypeOK
BY LockHolds, PTL DEF LockInv

(* Publish (line 45) never sends on a channel that cancel or Close closed.  *)
THEOREM SendsOnlyOnOpen == Spec => []NeverSendOnClosed
BY LockHolds, PTL DEF LockInv

(* Close (line 94) never closes a channel that is closed already.           *)
THEOREM RegisteredStayOpen == Spec => []RegisteredOpen
<1>1. LockInv => RegisteredOpen
  BY DEF LockInv, OpenWhileRegistered, RegisteredOpen, Registered
<1> QED
  BY <1>1, LockHolds, PTL

(* Both: the locks keep senders and closers of a channel apart.             *)
THEOREM ChannelsStaySafe == Spec => []ChannelsSafe
<1>1. NeverSendOnClosed /\ RegisteredOpen => ChannelsSafe
  BY DEF ChannelsSafe
<1> QED
  BY <1>1, SendsOnlyOnOpen, RegisteredStayOpen, PTL

-----------------------------------------------------------------------------
(* A visit of Publish, in the form the lemmas below need: it appends its    *)
(* event to one open channel of a registered subscriber, or to none.        *)
LEMMA VisitAccepts ==
  ASSUME LockInv, NEW p \in Publishers, NEW s \in Subs, PublishVisit(p, s)
  PROVE  /\ Head(inflight[p]) \in Event
         /\ s \in Registered
         /\ ~chClosed[s] /\ cancels[s] = 0
         /\ \/ /\ ch' = [ch EXCEPT ![s] = Append(@, Head(inflight[p]))]
               /\ accepted' = [accepted EXCEPT ![s] = Append(@, Head(inflight[p]))]
            \/ UNCHANGED <<ch, accepted>>
<1>1. Head(inflight[p]) \in Event
  BY HeldHead DEF LockInv, TypeOK, Held, VisitsRegistered, PublishVisit
<1>2. s \in subscribers[Head(inflight[p]).topic]
  BY DEF LockInv, VisitsRegistered, PublishVisit
<1>3. Head(inflight[p]).topic \in Topics
  BY <1>1 DEF Event
<1>4. ~chClosed[s] /\ cancels[s] = 0
  BY <1>2, <1>3 DEF LockInv, OpenWhileRegistered
<1> QED
  BY <1>1, <1>2, <1>3, <1>4 DEF PublishVisit, Enqueue, Registered

(* No other action makes a channel accept an event.                         *)
LEMMA OnlyVisitsAccept ==
  ASSUME Next, UNCHANGED <<accepted>> => FALSE
  PROVE  \E p \in Publishers, s \in Subs : PublishVisit(p, s)
BY DEF Next, Subscribe, Register, StartWorker, Work, Receive, Handle, Exit,
       Cancel, CancelLocked, CancelClose, Publish, PublishBegin, PublishEnd,
       Close, CloseLocked, Wait, WaitWoken, chanVars

(* A cancel that has left its critical section is final: no Publish, not    *)
(* even one that began before it, gives the subscriber another event.       *)
THEOREM CancelFinal == Spec => CancelIsFinal
<1>1. LockInv /\ [Next]_vars =>
        [\A s \in Subs : cancels[s] > 0 => accepted'[s] = accepted[s]]_vars
  <2> SUFFICES ASSUME LockInv, Next, NEW s \in Subs, cancels[s] > 0
               PROVE  accepted'[s] = accepted[s]
    OBVIOUS
  <2>1. CASE UNCHANGED accepted
    BY <2>1
  <2>2. CASE ~UNCHANGED accepted
    <3>1. PICK p \in Publishers, u \in Subs : PublishVisit(p, u)
      BY <2>2, OnlyVisitsAccept
    <3>2. u # s
      BY <3>1, VisitAccepts
    <3>3. accepted \in [Subs -> Seq(Event)]
      BY DEF LockInv, TypeOK
    <3> QED
      BY <2>2, <3>1, <3>2, <3>3, VisitAccepts
  <2> QED
    BY <2>1, <2>2
<1> QED
  BY <1>1, LockHolds, PTL DEF Spec, CancelIsFinal

-----------------------------------------------------------------------------
(* The delivery ledger.                                                     *)

LEMMA EventsAreASeq ==
  ASSUME NEW x \in Seq(Outcome)
  PROVE  /\ EventsOf(x) \in Seq(Event) /\ Len(EventsOf(x)) = Len(x)
         /\ \A i \in 1..Len(x) : EventsOf(x)[i] = x[i].event
<1>1. /\ Len(x) \in Nat /\ DOMAIN x = 1..Len(x)
      /\ \A i \in 1..Len(x) : x[i].event \in Event
  <2>1. /\ Len(x) \in Nat /\ DOMAIN x = 1..Len(x)
        /\ \A i \in 1..Len(x) : x[i] \in Outcome
    BY LenProperties, ElementOfSeq
  <2>2. \A z \in Outcome : z.event \in Event
    BY DEF Outcome
  <2> QED
    BY <2>1, <2>2
<1>2. EventsOf(x) \in [1..Len(x) -> Event]
  BY <1>1 DEF EventsOf
<1>3. EventsOf(x) \in Seq(Event)
  BY <1>1, <1>2, SeqDef
<1>4. DOMAIN EventsOf(x) = 1..Len(x)
  BY <1>2
<1>5. Len(EventsOf(x)) = Len(x)
  BY <1>1, <1>3, <1>4, LenProperties
<1> QED
  BY <1>1, <1>3, <1>5 DEF EventsOf

LEMMA EventsOfAppend ==
  ASSUME NEW f \in Seq(Outcome), NEW o \in Outcome
  PROVE  /\ EventsOf(f) \in Seq(Event)
         /\ EventsOf(Append(f, o)) = Append(EventsOf(f), o.event)
<1> DEFINE g == EventsOf(f)
           h == EventsOf(Append(f, o))
           k == Append(EventsOf(f), o.event)
<1>1. o.event \in Event
  BY DEF Outcome
<1>2. \A x \in Seq(Outcome) :
        /\ EventsOf(x) \in Seq(Event) /\ Len(EventsOf(x)) = Len(x)
        /\ \A i \in 1..Len(x) : EventsOf(x)[i] = x[i].event
  BY EventsAreASeq
<1>3. Append(f, o) \in Seq(Outcome) /\ Len(Append(f, o)) = Len(f) + 1
  BY AppendProperties
<1>4. g \in Seq(Event) /\ Len(g) = Len(f)
  BY <1>2
<1>5. h \in Seq(Event) /\ Len(h) = Len(f) + 1
  BY <1>2, <1>3
<1>6. k \in Seq(Event) /\ Len(k) = Len(f) + 1
  BY <1>1, <1>4
<1>7. \A i \in 1..Len(h) : h[i] = k[i]
  <2> SUFFICES ASSUME NEW i \in 1..Len(h) PROVE h[i] = k[i]
    OBVIOUS
  <2>1. h[i] = Append(f, o)[i].event
    BY <1>2, <1>3, <1>5
  <2>2. CASE i = Len(f) + 1
    BY <1>1, <1>4, <2>1, <2>2, AppendProperties
  <2>3. CASE i \in 1..Len(f)
    <3>1. Append(f, o)[i] = f[i] /\ k[i] = g[i]
      BY <1>1, <1>4, <2>3, AppendProperties
    <3> QED
      BY <1>2, <2>1, <2>3, <3>1
  <2>4. i = Len(f) + 1 \/ i \in 1..Len(f)
    <3>1. Len(f) \in Nat /\ i \in 1..(Len(f) + 1)
      BY <1>5, LenProperties
    <3> QED
      BY <3>1
  <2> QED
    BY <2>2, <2>3, <2>4
<1>8. h = k
  BY <1>5, <1>6, <1>7, SeqEqual
<1> QED
  BY <1>4, <1>8

(* Taking the head of the buffer into empty hands moves no event.           *)
LEMMA TakeHead ==
  ASSUME NEW f \in Seq(Event), NEW q \in Seq(Event), q # <<>>
  PROVE  f \o <<Head(q)>> \o Tail(q) = f \o <<>> \o q
<1>1. <<Head(q)>> \o Tail(q) = q
  <2>1. /\ <<Head(q)>> \in Seq(Event) /\ Tail(q) \in Seq(Event)
        /\ Len(Tail(q)) = Len(q) - 1 /\ Head(q) = q[1]
        /\ \A i \in 1..Len(Tail(q)) : Tail(q)[i] = q[i + 1]
    BY HeadTailProperties
  <2>2. /\ <<Head(q)>> \o Tail(q) \in Seq(Event)
        /\ Len(<<Head(q)>> \o Tail(q)) = Len(q)
        /\ \A i \in 1..Len(q) : (<<Head(q)>> \o Tail(q))[i] = q[i]
    BY <2>1, ConcatProperties
  <2> QED
    BY <2>2, SeqEqual
<1>2. (f \o <<Head(q)>>) \o Tail(q) = f \o (<<Head(q)>> \o Tail(q))
  BY ConcatAssociative
<1> QED
  BY <1>1, <1>2, ConcatEmptySeq

(* Finishing the event in hand moves it to the end of the finished ones.    *)
LEMMA FinishHeld ==
  ASSUME NEW f \in Seq(Event), NEW q \in Seq(Event), NEW e \in Event
  PROVE  Append(f, e) \o <<>> \o q = f \o <<e>> \o q
BY AppendIsConcat, AppendProperties, ConcatEmptySeq

(* Appending to the buffer appends to the whole ledger.                     *)
LEMMA PutLast ==
  ASSUME NEW f \in Seq(Event), NEW h \in Seq(Event), NEW q \in Seq(Event),
         NEW e \in Event
  PROVE  f \o h \o Append(q, e) = Append(f \o h \o q, e)
<1>1. f \o h \in Seq(Event) /\ (f \o h) \o q \in Seq(Event)
  BY ConcatProperties
<1>2. Append(q, e) = q \o <<e>> /\ <<e>> \in Seq(Event)
  BY AppendIsConcat
<1>3. Append((f \o h) \o q, e) = ((f \o h) \o q) \o <<e>>
  BY <1>1, AppendIsConcat
<1> QED
  BY <1>1, <1>2, <1>3, ConcatAssociative

(* The action that finishes an event, as the ledger sees it.                *)
LEMMA HandleKeepsLedger ==
  ASSUME LockInv, DeliveryLedger, NEW s \in Subs, NEW ok \in BOOLEAN, Handle(s, ok)
  PROVE  DeliveryLedger'
<1> DEFINE e == Head(current[s])
           o == [event |-> e, tries |-> tries[s] + 1, ok |-> ok]
<1>1. current[s] # <<>> /\ UNCHANGED <<ch, accepted>>
  BY DEF Handle, chanVars
<1>2. e \in Event /\ current[s] = <<e>>
  BY <1>1, HeldHead DEF LockInv, TypeOK, Held
<1>3. o \in Outcome /\ o.event = e
  <2>1. tries[s] < 3
    BY <1>1 DEF LockInv, AttemptLeft
  <2>2. tries[s] \in 0..3
    BY DEF LockInv, TypeOK
  <2> QED
    BY <1>2, <2>1, <2>2 DEF Outcome
<1>4. \/ /\ current' = [current EXCEPT ![s] = <<>>]
         /\ finished' = [finished EXCEPT ![s] = Append(@, o)]
      \/ UNCHANGED <<current, finished>>
  BY DEF Handle
<1>5. CASE UNCHANGED <<current, finished>>
  BY <1>1, <1>5 DEF DeliveryLedger
<1>6. CASE /\ current' = [current EXCEPT ![s] = <<>>]
           /\ finished' = [finished EXCEPT ![s] = Append(@, o)]
  <2> HIDE DEF o, e
  <2> USE DEF LockInv, TypeOK
  <2>1. current \in [Subs -> Held] /\ finished \in [Subs -> Seq(Outcome)]
        /\ ch \in [Subs -> Seq(Event)]
    BY DEF Held
  <2>2. current'[s] = <<>> /\ finished'[s] = Append(finished[s], o)
    BY <1>6, <2>1
  <2>3. /\ EventsOf(finished[s]) \in Seq(Event)
        /\ EventsOf(finished'[s]) = Append(EventsOf(finished[s]), e)
    BY <1>3, <2>1, <2>2, EventsOfAppend
  <2>4. EventsOf(finished'[s]) \o current'[s] \o ch[s] = accepted[s]
    BY <1>2, <2>1, <2>2, <2>3, FinishHeld DEF DeliveryLedger
  <2>5. \A u \in Subs \ {s} :
          current'[u] = current[u] /\ finished'[u] = finished[u]
    BY <1>6, <2>1
  <2> QED
    BY <1>1, <2>4, <2>5 DEF DeliveryLedger
<1> QED
  BY <1>4, <1>5, <1>6

(* The action that takes an event from the buffer.                          *)
LEMMA ReceiveKeepsLedger ==
  ASSUME LockInv, DeliveryLedger, NEW s \in Subs, Receive(s)
  PROVE  DeliveryLedger'
<1> USE DEF LockInv, TypeOK
<1>1. /\ current[s] = <<>> /\ ch[s] # <<>>
      /\ current' = [current EXCEPT ![s] = <<Head(ch[s])>>]
      /\ ch' = [ch EXCEPT ![s] = Tail(@)]
      /\ UNCHANGED <<accepted, finished>>
  BY DEF Receive
<1>2. EventsOf(finished[s]) \in Seq(Event)
  BY EventsAreASeq
<1>3. current'[s] = <<Head(ch[s])>> /\ ch'[s] = Tail(ch[s])
  BY <1>1
<1>4. EventsOf(finished[s]) \o current'[s] \o ch'[s] = accepted[s]
  <2>1. ch[s] \in Seq(Event)
    OBVIOUS
  <2>2. EventsOf(finished[s]) \o <<>> \o ch[s] = accepted[s]
    BY <1>1 DEF DeliveryLedger
  <2>3. EventsOf(finished[s]) \o <<Head(ch[s])>> \o Tail(ch[s])
          = EventsOf(finished[s]) \o <<>> \o ch[s]
    BY <1>1, <1>2, <2>1, TakeHead
  <2> QED
    BY <1>3, <2>2, <2>3
<1>5. \A u \in Subs \ {s} : current'[u] = current[u] /\ ch'[u] = ch[u]
  BY <1>1
<1> QED
  BY <1>1, <1>4, <1>5 DEF DeliveryLedger

(* The action that puts an event into the buffer.                           *)
LEMMA VisitKeepsLedger ==
  ASSUME LockInv, DeliveryLedger, NEW p \in Publishers, NEW s \in Subs,
         PublishVisit(p, s)
  PROVE  DeliveryLedger'
<1> DEFINE e == Head(inflight[p])
<1>1. UNCHANGED <<current, finished>>
  BY DEF PublishVisit, workVars
<1>2. CASE UNCHANGED <<ch, accepted>>
  BY <1>1, <1>2 DEF DeliveryLedger
<1>3. CASE /\ ch' = [ch EXCEPT ![s] = Append(@, e)]
           /\ accepted' = [accepted EXCEPT ![s] = Append(@, e)]
  <2>1. e \in Event
    BY VisitAccepts
  <2> HIDE DEF e
  <2> USE DEF LockInv, TypeOK
  <2>2. /\ EventsOf(finished[s]) \in Seq(Event)
        /\ current[s] \in Seq(Event)
        /\ ch[s] \in Seq(Event)
    <3>1. current[s] \in Held
      BY DEF Held
    <3>2. current[s] \in Seq(Event)
      BY <3>1, HeldIsSeq
    <3> QED
      BY <3>2, EventsAreASeq
  <2>3. EventsOf(finished[s]) \o current[s] \o Append(ch[s], e)
          = Append(accepted[s], e)
    <3>1. EventsOf(finished[s]) \o current[s] \o ch[s] = accepted[s]
      BY DEF DeliveryLedger
    <3>2. EventsOf(finished[s]) \o current[s] \o Append(ch[s], e)
            = Append(EventsOf(finished[s]) \o current[s] \o ch[s], e)
      BY <2>1, <2>2, PutLast, Zenon
    <3> QED
      BY <3>1, <3>2, Zenon
  <2>4. ch'[s] = Append(ch[s], e) /\ accepted'[s] = Append(accepted[s], e)
    BY <1>3
  <2>5. \A u \in Subs \ {s} : ch'[u] = ch[u] /\ accepted'[u] = accepted[u]
    BY <1>3
  <2> QED
    BY <1>1, <2>3, <2>4, <2>5 DEF DeliveryLedger
<1> QED
  BY <1>2, <1>3, VisitAccepts

(* The actions that touch no part of the ledger.                            *)
LEMMA LedgerStep == LockInv /\ DeliveryLedger /\ [Next]_vars => DeliveryLedger'
<1> SUFFICES ASSUME LockInv, DeliveryLedger, [Next]_vars PROVE DeliveryLedger'
  OBVIOUS
<1>1. CASE UNCHANGED <<finished, current, ch, accepted>>
  BY <1>1 DEF DeliveryLedger
<1>2. CASE \E s \in Subs : Receive(s) \/ \E ok \in BOOLEAN : Handle(s, ok)
  BY <1>2, ReceiveKeepsLedger, HandleKeepsLedger
<1>3. CASE \E p \in Publishers, s \in Subs : PublishVisit(p, s)
  BY <1>3, VisitKeepsLedger
<1> QED
  BY <1>1, <1>2, <1>3 DEF vars, Next, Subscribe, Register, StartWorker, Work,
     Exit, Cancel, CancelLocked, CancelClose, Publish, PublishBegin, PublishEnd,
     Close, CloseLocked, Wait, WaitWoken, chanVars, workVars

(* Nothing is lost, duplicated or reordered between the channel that        *)
(* accepted an event (line 45) and the end of its last handler call.        *)
THEOREM LedgerHolds == Spec => []DeliveryLedger
<1>1. Init => DeliveryLedger
  <2>1. EventsOf(<<>>) = <<>>
    BY DEF EventsOf
  <2> QED
    BY <2>1 DEF Init, DeliveryLedger
<1> QED
  BY <1>1, LedgerStep, LockHolds, PTL DEF Spec

-----------------------------------------------------------------------------
(* Close.                                                                   *)

(* A worker that has left its loop left a closed and drained channel.       *)
ExitedDrained ==
  \A s \in Subs : worker[s] = "exited" =>
    chClosed[s] /\ ch[s] = <<>> /\ current[s] = <<>>

(* The workers a Close found running have at least been started.            *)
CountedStarted ==
  \A c \in Closers : \A s \in counted[c] : worker[s] # "none"

(* A Close that wg.Wait let go has seen all of them leave.                  *)
WokenSawExits ==
  \A c \in Closers : closer[c] \in {"woken", "returned"} =>
    \A s \in counted[c] : worker[s] = "exited"

CloseInv == ExitedDrained /\ CountedStarted /\ WokenSawExits

(* A zero counter means that no worker runs.                                *)
LEMMA ZeroMeansNone ==
  ASSUME LockInv, wg = 0
  PROVE  Live = {}
<1>1. IsFiniteSet(Live)
  BY FS_Subset, BrokerAssumption DEF Live
<1> QED
  BY <1>1, FS_EmptySet DEF LockInv, GroupCountsWorkers

(* A channel that is closed accepts nothing more.                           *)
LEMMA ClosedStaysEmpty ==
  ASSUME LockInv, NEW p \in Publishers, NEW u \in Subs, PublishVisit(p, u),
         NEW s \in Subs, chClosed[s]
  PROVE  ch'[s] = ch[s]
<1>1. u # s
  BY VisitAccepts
<1>2. ch \in [Subs -> Seq(Event)]
  BY DEF LockInv, TypeOK
<1> QED
  BY <1>1, <1>2, VisitAccepts

LEMMA DrainedStep == LockInv /\ ExitedDrained /\ [Next]_vars => ExitedDrained'
<1> SUFFICES ASSUME LockInv, ExitedDrained, [Next]_vars PROVE ExitedDrained'
  OBVIOUS
<1> USE DEF LockInv, TypeOK, ExitedDrained
<1>1. CASE UNCHANGED <<worker, chClosed, ch, current>>
  BY <1>1
<1>2. ASSUME NEW s \in Subs, StartWorker(s) PROVE ExitedDrained'
  BY <1>2 DEF StartWorker, chanVars
<1>3. ASSUME NEW s \in Subs, Receive(s) PROVE ExitedDrained'
  BY <1>3 DEF Receive
<1>4. ASSUME NEW s \in Subs, NEW ok \in BOOLEAN, Handle(s, ok)
      PROVE  ExitedDrained'
  BY <1>4 DEF Handle, chanVars
<1>5. ASSUME NEW s \in Subs, Exit(s) PROVE ExitedDrained'
  BY <1>5 DEF Exit, RangeEnds, chanVars
<1>6. ASSUME NEW s \in Subs, CancelClose(s) PROVE ExitedDrained'
  BY <1>6 DEF CancelClose, workVars
<1>7. ASSUME NEW p \in Publishers, NEW s \in Subs, PublishVisit(p, s)
      PROVE  ExitedDrained'
  <2>1. UNCHANGED <<worker, chClosed, current>>
    BY <1>7 DEF PublishVisit, workVars
  <2>2. \A u \in Subs : chClosed[u] => ch'[u] = ch[u]
    BY <1>7, ClosedStaysEmpty
  <2> QED
    BY <2>1, <2>2
<1>8. ASSUME NEW c \in Closers, CloseLocked(c) PROVE ExitedDrained'
  BY <1>8 DEF CloseLocked, CloseChannels, workVars
<1> QED
  BY <1>1, <1>2, <1>3, <1>4, <1>5, <1>6, <1>7, <1>8
     DEF vars, Next, Subscribe, Register, Work, Cancel, CancelLocked, Publish,
         PublishBegin, PublishEnd, Close, Wait, WaitWoken, chanVars, workVars

LEMMA WokenStep ==
  ASSUME LockInv, CountedStarted, WokenSawExits, [Next]_vars
  PROVE  CountedStarted' /\ WokenSawExits'
<1> USE DEF LockInv, TypeOK, CountedStarted, WokenSawExits
<1>1. CASE UNCHANGED <<worker, closer, counted>>
  BY <1>1
<1>2. ASSUME NEW s \in Subs, StartWorker(s)
      PROVE  CountedStarted' /\ WokenSawExits'
  <2>1. worker[s] = "none"
    BY <1>2 DEF StartWorker, Lifecycle
  <2> QED
    BY <1>2, <2>1 DEF StartWorker, closeVars
<1>3. ASSUME NEW s \in Subs, Exit(s)
      PROVE  CountedStarted' /\ WokenSawExits'
  <2>1. /\ worker' = [worker EXCEPT ![s] = "exited"]
        /\ counted' = counted
        /\ closer' = [c \in Closers |->
              IF wg = 1 /\ closer[c] = "parked" THEN "woken" ELSE closer[c]]
    BY <1>3 DEF Exit
  <2>2. CountedStarted'
    BY <2>1
  <2>3. ASSUME wg = 1 PROVE \A u \in Subs \ {s} : worker[u] # "running"
    <3>1. s \in Live /\ IsFiniteSet(Live)
      BY <1>3, FS_Subset, BrokerAssumption DEF Exit, Live
    <3>2. Cardinality(Live \ {s}) = 0
      <4>1. Cardinality(Live) = 1
        BY <2>3 DEF GroupCountsWorkers
      <4>2. Cardinality(Live \ {s}) = Cardinality(Live) - 1
        BY <3>1, FS_RemoveElement, Zenon
      <4> QED
        BY <4>1, <4>2
    <3>3. Live \ {s} = {}
      BY <3>1, <3>2, FS_EmptySet, FS_RemoveElement
    <3> QED
      BY <3>3 DEF Live
  <2>4. WokenSawExits'
    <3> SUFFICES ASSUME NEW c \in Closers, closer'[c] \in {"woken", "returned"},
                        NEW u \in counted[c]
                 PROVE  worker'[u] = "exited"
      BY <2>1
    <3>1. CASE closer[c] \in {"woken", "returned"}
      BY <2>1, <3>1
    <3>2. CASE closer[c] \notin {"woken", "returned"}
      BY <2>1, <2>3, <3>2
    <3> QED
      BY <3>1, <3>2
  <2> QED
    BY <2>2, <2>4
<1>4. ASSUME NEW c \in Closers, CloseLocked(c)
      PROVE  CountedStarted' /\ WokenSawExits'
  BY <1>4 DEF CloseLocked, workVars, Live
<1>5. ASSUME NEW c \in Closers, Wait(c)
      PROVE  CountedStarted' /\ WokenSawExits'
  <2>1. /\ UNCHANGED <<worker, counted>>
        /\ closer' = [closer EXCEPT
                        ![c] = IF wg = 0 THEN "returned" ELSE "parked"]
    BY <1>5 DEF Wait, workVars
  <2>2. ASSUME wg = 0 PROVE \A s \in counted[c] : worker[s] = "exited"
    BY <2>2, ZeroMeansNone DEF Live
  <2> QED
    BY <2>1, <2>2
<1>6. ASSUME NEW c \in Closers, WaitWoken(c)
      PROVE  CountedStarted' /\ WokenSawExits'
  BY <1>6 DEF WaitWoken, workVars
<1> QED
  BY <1>1, <1>2, <1>3, <1>4, <1>5, <1>6
     DEF vars, Next, Subscribe, Register, Work, Receive, Handle, Cancel,
         CancelLocked, CancelClose, Publish, PublishBegin, PublishVisit,
         PublishEnd, Close, workVars, closeVars

(* When Close returns, every worker that ran when it took the lock has left *)
(* its loop, and everything its channel accepted has been handled.          *)
THEOREM CloseDrainsRunning == Spec => []CloseDrains
<1>1. Init => CloseInv
  BY DEF Init, CloseInv, ExitedDrained, CountedStarted, WokenSawExits
<1>2. LockInv /\ CloseInv /\ [Next]_vars => CloseInv'
  BY DrainedStep, WokenStep DEF CloseInv
<1>3. LockInv /\ CloseInv /\ DeliveryLedger => CloseDrains
  <2> SUFFICES ASSUME LockInv, CloseInv, DeliveryLedger, NEW c \in Closers,
                      closer[c] = "returned", NEW s \in counted[c]
               PROVE  worker[s] = "exited" /\ EventsOf(finished[s]) = accepted[s]
    BY DEF CloseDrains
  <2>1. s \in Subs
    BY DEF LockInv, TypeOK
  <2>2. worker[s] = "exited" /\ current[s] = <<>> /\ ch[s] = <<>>
    BY <2>1 DEF CloseInv, WokenSawExits, ExitedDrained
  <2>3. EventsOf(finished[s]) \in Seq(Event)
    BY <2>1, EventsAreASeq DEF LockInv, TypeOK
  <2>4. EventsOf(finished[s]) \o <<>> \o <<>> = accepted[s]
    BY <2>1, <2>2 DEF DeliveryLedger
  <2> QED
    BY <2>2, <2>3, <2>4, ConcatEmptySeq
<1> QED
  BY <1>1, <1>2, <1>3, LockHolds, LedgerHolds, PTL DEF Spec

-----------------------------------------------------------------------------
(* Every finished event was accepted by its handler within three attempts,  *)
(* or failed on all three of them (line 66).                                *)
THEOREM RetriesBounded == Spec => []RetryLedger
<1>1. Init => RetryLedger
  BY DEF Init, RetryLedger
<1>2. LockInv /\ RetryLedger /\ [Next]_vars => RetryLedger'
  <2> SUFFICES ASSUME LockInv, RetryLedger, [Next]_vars PROVE RetryLedger'
    OBVIOUS
  <2>1. CASE UNCHANGED finished
    BY <2>1 DEF RetryLedger
  <2>2. ASSUME NEW s \in Subs, NEW ok \in BOOLEAN, Handle(s, ok)
        PROVE  RetryLedger'
    <3> DEFINE o == [event |-> Head(current[s]), tries |-> tries[s] + 1, ok |-> ok]
    <3>1. CASE UNCHANGED finished
      BY <3>1 DEF RetryLedger
    <3>2. CASE /\ ok \/ tries[s] + 1 = 3
               /\ finished' = [finished EXCEPT ![s] = Append(@, o)]
      <4>1. current[s] # <<>>
        BY <2>2 DEF Handle
      <4>2. tries[s] \in 0..3 /\ tries[s] < 3
        <5>1. tries[s] < 3
          BY <4>1 DEF LockInv, AttemptLeft
        <5> QED
          BY <5>1 DEF LockInv, TypeOK
      <4>3. \/ o.ok /\ o.tries \in 1..3
            \/ ~o.ok /\ o.tries = 3
        BY <3>2, <4>2
      <4>4. o \in Outcome
        <5>1. Head(current[s]) \in Event
          BY <4>1, HeldHead DEF LockInv, TypeOK, Held
        <5> QED
          BY <4>2, <5>1 DEF Outcome
      <4> HIDE DEF o
      <4>5. finished \in [Subs -> Seq(Outcome)]
        BY DEF LockInv, TypeOK
      <4>6. ASSUME NEW u \in Subs, NEW i \in DOMAIN finished'[u]
            PROVE  \/ finished'[u][i] = o
                   \/ i \in DOMAIN finished[u] /\ finished'[u][i] = finished[u][i]
        <5>1. CASE u # s
          BY <3>2, <4>5, <4>6, <5>1
        <5>2. CASE u = s
          <6>1. finished'[u] = Append(finished[u], o)
            BY <3>2, <4>5, <5>2
          <6>2. i \in 1..(Len(finished[u]) + 1) /\ Len(finished[u]) \in Nat
            BY <4>4, <4>5, <4>6, <6>1, AppendProperties, LenProperties
          <6>3. i = Len(finished[u]) + 1 \/ i \in 1..Len(finished[u])
            BY <6>2
          <6> QED
            BY <4>4, <4>5, <6>1, <6>3, AppendProperties, LenProperties
        <5> QED
          BY <5>1, <5>2
      <4> QED
        <5> SUFFICES ASSUME NEW u \in Subs, NEW i \in DOMAIN finished'[u]
                     PROVE  LET f == finished'[u][i] IN
                              \/ f.ok /\ f.tries \in 1..3
                              \/ ~f.ok /\ f.tries = 3
          BY Zenon DEF RetryLedger
        <5>1. CASE finished'[u][i] = o
          BY <4>3, <5>1
        <5>2. CASE i \in DOMAIN finished[u] /\ finished'[u][i] = finished[u][i]
          BY <5>2 DEF RetryLedger
        <5> QED
          BY <4>6, <5>1, <5>2
    <3> QED
      BY <2>2, <3>1, <3>2 DEF Handle, MaxAttempts
  <2> QED
    BY <2>1, <2>2 DEF vars, Next, Subscribe, Register, StartWorker, Work,
       Receive, Exit, Cancel, CancelLocked, CancelClose, Publish, PublishBegin,
       PublishVisit, PublishEnd, Close, CloseLocked, Wait, WaitWoken, workVars
<1> QED
  BY <1>1, <1>2, LockHolds, PTL DEF Spec

(* Together: what a channel accepted (line 45) is handled in order, each    *)
(* event once it is accepted by its handler or has failed three times.      *)
THEOREM LedgersHold == Spec => []Ledgers
<1>1. DeliveryLedger /\ RetryLedger => Ledgers
  BY DEF Ledgers
<1> QED
  BY <1>1, LedgerHolds, RetriesBounded, PTL
=============================================================================
