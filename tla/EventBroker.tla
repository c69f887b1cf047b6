----------------------------- MODULE EventBroker -----------------------------
(***************************************************************************)
(* The in-memory event broker of                                           *)
(* 20-kafka/exercises/medium/01-event-processor/solution/main.go:          *)
(* Publish, Subscribe with its worker goroutine and its cancel function,   *)
(* and Close, called concurrently by any number of goroutines.             *)
(*                                                                         *)
(* Granularity.  A critical section under the write lock of Broker.mu that *)
(* blocks nowhere is one step; it needs the lock free of readers.  Publish *)
(* keeps the read lock while it visits the subscribers one at a time, so   *)
(* it is several steps and excludes every writer between its first and its *)
(* last.  What the code does outside the lock (wg.Add and the start of the *)
(* worker in Subscribe, close(sub.ch) in cancel, wg.Wait in Close) is a    *)
(* step of its own.                                                        *)
(*                                                                         *)
(* Abstractions.  An event is its number, its topic and the goroutine that *)
(* published it.  The slice subscribers[topic] is the set of its elements: *)
(* Publish visits them in any order.  A handler returns nil or an error    *)
(* nondeterministically, always returns, and does not call the broker.     *)
(***************************************************************************)
EXTENDS Naturals, Sequences, FiniteSets

CONSTANTS
  Subs,        \* the Subscribe calls of a run, each with its own subscriber
  Topics,
  Publishers,  \* goroutines that call Publish, each any number of times
  Closers,     \* goroutines that call Close once
  BufCap,      \* capacity of sub.ch: 100 in the code
  MaxEvents,   \* bound: Publish calls in a run
  MaxCancels   \* bound: calls of one subscription's cancel function

ASSUME BrokerAssumption ==
  /\ IsFiniteSet(Subs)
  /\ Topics # {}
  /\ BufCap \in Nat \ {0}
  /\ MaxEvents \in Nat
  /\ MaxCancels \in Nat

VARIABLES
  subscribers, \* Broker.subscribers: topic -> set of subscribers
  topic,       \* the topic captured by each Subscribe call
  caller,      \* progress of each Subscribe call
  ch,          \* sub.ch: the events buffered for each subscriber
  chClosed,    \* whether sub.ch has been closed
  worker,      \* the worker goroutine of each subscriber
  current,     \* the event in the worker's hands: <<>> or <<event>>
  tries,       \* handler calls made for that event
  cancels,     \* calls of cancel that have passed their critical section
  unclosed,    \* those of them that have not reached close(sub.ch) yet
  wg,          \* counter of Broker.wg
  closer,      \* progress of each Close call
  inflight,    \* the event each publisher is sending: <<>> or <<event>>
  todo,        \* the subscribers it has still to visit
  published,   \* history: number of Publish calls begun
  accepted,    \* history: the events each sub.ch accepted, in order
  finished,    \* history: what each worker did with them, in order
  swept,       \* history: the subscribers whose channels each Close closed
  counted,     \* history: the workers running when each Close took the lock
  panic        \* the runtime panic that ended the program, or "none"

vars == <<subscribers, topic, caller, ch, chClosed, worker, current, tries,
          cancels, unclosed, wg, closer, inflight, todo, published, accepted,
          finished, swept, counted, panic>>

subVars   == <<topic, caller, cancels, unclosed>>
chanVars  == <<ch, chClosed, accepted>>
workVars  == <<worker, current, tries, finished>>
pubVars   == <<inflight, todo, published>>
closeVars == <<closer, swept, counted>>

Event == [id : 1..MaxEvents, topic : Topics, by : Publishers]

Outcome == [event : Event, tries : 1..3, ok : BOOLEAN]

Live == {s \in Subs : worker[s] = "running"}

-----------------------------------------------------------------------------
(* Broker.mu.  Only Publish keeps the lock from one step to a later one.    *)

WriteLockFree_NoReaders == TRUE

WriteLockFree == \A p \in Publishers : inflight[p] = <<>>

-----------------------------------------------------------------------------
(* Subscribe.                                                               *)

(* lines 52-60: build the subscriber and register it under the write lock   *)
Register(s, t) ==
  /\ caller[s] = "new"
  /\ WriteLockFree
  /\ caller' = [caller EXCEPT ![s] = "registered"]
  /\ topic' = [topic EXCEPT ![s] = t]
  /\ subscribers' = [subscribers EXCEPT ![t] = @ \cup {s}]
  /\ UNCHANGED <<chanVars, workVars, pubVars, closeVars, cancels, unclosed, wg,
                 panic>>

(* lines 62-63 and 75: after the unlock, count the worker, start it, return *)
StartWorker(s) ==
  /\ caller[s] = "registered"
  /\ caller' = [caller EXCEPT ![s] = "subscribed"]
  /\ wg' = wg + 1
  /\ worker' = [worker EXCEPT ![s] = "running"]
  /\ UNCHANGED <<subscribers, topic, chanVars, current, tries, finished,
                 pubVars, closeVars, cancels, unclosed, panic>>

-----------------------------------------------------------------------------
(* The worker goroutine: for evt := range sub.ch { up to 3 attempts }.      *)

(* channel send and receive: a FIFO buffer (external: Go channels)          *)
Enqueue(q, e) == Append(q, e)

(* line 66: for attempt := range 3                                          *)
MaxAttempts == 3

(* line 65, an event is there: take it                                      *)
Receive(s) ==
  /\ worker[s] = "running" /\ current[s] = <<>> /\ ch[s] # <<>>
  /\ current' = [current EXCEPT ![s] = <<Head(ch[s])>>]
  /\ ch' = [ch EXCEPT ![s] = Tail(@)]
  /\ tries' = [tries EXCEPT ![s] = 0]
  /\ UNCHANGED <<subscribers, subVars, chClosed, accepted, worker, finished, wg,
                 pubVars, closeVars, panic>>

Handle_Requeues(s, ok) ==
  /\ worker[s] = "running" /\ current[s] # <<>>
  /\ current' = [current EXCEPT ![s] = <<>>]
  /\ IF ok \/ tries[s] + 1 = MaxAttempts
     THEN /\ finished' = [finished EXCEPT ![s] = Append(@,
               [event |-> Head(current[s]), tries |-> tries[s] + 1, ok |-> ok])]
          /\ UNCHANGED ch
     ELSE /\ ch' = [ch EXCEPT ![s] = @ \o current[s]]
          /\ UNCHANGED finished
  /\ UNCHANGED <<subscribers, subVars, chClosed, accepted, worker, tries, wg,
                 pubVars, closeVars, panic>>

(* lines 67-71: one call of the handler; success or a third error ends the  *)
(* event, an earlier error leads to another attempt                         *)
Handle(s, ok) ==
  /\ worker[s] = "running" /\ current[s] # <<>>
  /\ tries' = [tries EXCEPT ![s] = @ + 1]
  /\ IF ok \/ tries[s] + 1 = MaxAttempts
     THEN /\ current' = [current EXCEPT ![s] = <<>>]
          /\ finished' = [finished EXCEPT ![s] = Append(@,
               [event |-> Head(current[s]), tries |-> tries[s] + 1, ok |-> ok])]
     ELSE UNCHANGED <<current, finished>>
  /\ UNCHANGED <<subscribers, subVars, chanVars, worker, wg, pubVars, closeVars,
                 panic>>

RangeEnds_OnClose(s) == chClosed[s]

(* the range loop ends when the channel is closed and drained               *)
RangeEnds(s) == chClosed[s] /\ ch[s] = <<>>

(* lines 64-65: leave the loop and run the deferred wg.Done, which wakes    *)
(* the goroutines parked in wg.Wait when the counter reaches zero           *)
Exit(s) ==
  /\ worker[s] = "running" /\ current[s] = <<>> /\ RangeEnds(s)
  /\ worker' = [worker EXCEPT ![s] = "exited"]
  /\ wg' = wg - 1
  /\ closer' = [c \in Closers |->
                  IF wg = 1 /\ closer[c] = "parked" THEN "woken" ELSE closer[c]]
  /\ UNCHANGED <<subscribers, subVars, chanVars, current, tries, finished,
                 pubVars, swept, counted, panic>>

-----------------------------------------------------------------------------
(* The cancel function returned by Subscribe; it may be called repeatedly.  *)

Unregister_Forgets(s) == UNCHANGED subscribers

(* lines 77-83: drop the subscriber from its topic's slice if it is there   *)
Unregister(s) ==
  subscribers' = [subscribers EXCEPT ![topic[s]] = @ \ {s}]

(* lines 76-84: the critical section                                        *)
CancelLocked(s) ==
  /\ caller[s] = "subscribed" /\ cancels[s] < MaxCancels
  /\ WriteLockFree
  /\ Unregister(s)
  /\ cancels' = [cancels EXCEPT ![s] = @ + 1]
  /\ unclosed' = [unclosed EXCEPT ![s] = @ + 1]
  /\ UNCHANGED <<topic, caller, chanVars, workVars, wg, pubVars, closeVars,
                 panic>>

(* line 85: close(sub.ch), which panics if the channel is already closed    *)
CancelClose(s) ==
  /\ unclosed[s] > 0
  /\ unclosed' = [unclosed EXCEPT ![s] = @ - 1]
  /\ chClosed' = [chClosed EXCEPT ![s] = TRUE]
  /\ panic' = IF chClosed[s] THEN "close_of_closed" ELSE panic
  /\ UNCHANGED <<subscribers, topic, caller, cancels, ch, accepted, workVars, wg,
                 pubVars, closeVars>>

-----------------------------------------------------------------------------
(* Publish.                                                                 *)

(* lines 35-41: make the event and take the read lock                       *)
PublishBegin(p, t) ==
  /\ inflight[p] = <<>> /\ published < MaxEvents
  /\ published' = published + 1
  /\ inflight' = [inflight EXCEPT
                    ![p] = <<[id |-> published + 1, topic |-> t, by |-> p]>>]
  /\ todo' = [todo EXCEPT ![p] = subscribers[t]]
  /\ UNCHANGED <<subscribers, subVars, chanVars, workVars, wg, closeVars, panic>>

HasRoom_OneMore(s) == Len(ch[s]) <= BufCap

HasRoom(s) == Len(ch[s]) < BufCap

(* lines 43-48: one turn of the loop.  A send to a closed channel panics,   *)
(* a full buffer drops the event                                            *)
PublishVisit(p, s) ==
  /\ s \in todo[p]
  /\ todo' = [todo EXCEPT ![p] = @ \ {s}]
  /\ \/ /\ chClosed[s]
        /\ panic' = "send_on_closed"
        /\ UNCHANGED <<ch, accepted>>
     \/ /\ ~chClosed[s] /\ HasRoom(s)
        /\ ch' = [ch EXCEPT ![s] = Enqueue(@, Head(inflight[p]))]
        /\ accepted' = [accepted EXCEPT ![s] = Append(@, Head(inflight[p]))]
        /\ UNCHANGED panic
     \/ /\ ~chClosed[s] /\ ~HasRoom(s)
        /\ UNCHANGED <<ch, accepted, panic>>
  /\ UNCHANGED <<subscribers, subVars, chClosed, workVars, wg, inflight,
                 published, closeVars>>

(* line 42: the deferred RUnlock                                            *)
PublishEnd(p) ==
  /\ inflight[p] # <<>> /\ todo[p] = {}
  /\ inflight' = [inflight EXCEPT ![p] = <<>>]
  /\ UNCHANGED <<subscribers, subVars, chanVars, workVars, wg, todo, published,
                 closeVars, panic>>

-----------------------------------------------------------------------------
(* Close.                                                                   *)

Registered == UNION {subscribers[t] : t \in Topics}

(* line 94, for every registered subscriber                                 *)
CloseChannels == chClosed' = [s \in Subs |-> chClosed[s] \/ s \in Registered]

(* lines 90-98: close every registered channel and empty the map.  closed   *)
(* is set and never read, so the model has no variable for it               *)
CloseLocked(c) ==
  /\ closer[c] = "idle"
  /\ WriteLockFree
  /\ closer' = [closer EXCEPT ![c] = "waiting"]
  /\ CloseChannels
  /\ panic' = IF \E s \in Registered : chClosed[s]
              THEN "close_of_closed" ELSE panic
  /\ subscribers' = [t \in Topics |-> {}]
  /\ swept' = [swept EXCEPT ![c] = Registered]
  /\ counted' = [counted EXCEPT ![c] = Live]
  /\ UNCHANGED <<subVars, ch, accepted, workVars, wg, pubVars>>

Wait_Skipped(c) ==
  /\ closer[c] = "waiting"
  /\ closer' = [closer EXCEPT ![c] = "returned"]
  /\ UNCHANGED <<subscribers, subVars, chanVars, workVars, wg, pubVars, swept,
                 counted, panic>>

(* line 99: wg.Wait returns at once on a zero counter and parks otherwise   *)
Wait(c) ==
  /\ closer[c] = "waiting"
  /\ closer' = [closer EXCEPT ![c] = IF wg = 0 THEN "returned" ELSE "parked"]
  /\ UNCHANGED <<subscribers, subVars, chanVars, workVars, wg, pubVars, swept,
                 counted, panic>>

(* a goroutine woken in wg.Wait checks that the group has not been reused   *)
(* (external: sync.WaitGroup)                                               *)
WaitWoken(c) ==
  /\ closer[c] = "woken"
  /\ closer' = [closer EXCEPT ![c] = "returned"]
  /\ panic' = IF wg # 0 THEN "wg_reused" ELSE panic
  /\ UNCHANGED <<subscribers, subVars, chanVars, workVars, wg, pubVars, swept,
                 counted>>

-----------------------------------------------------------------------------
Init ==
  /\ subscribers = [t \in Topics |-> {}]
  /\ topic \in [Subs -> {CHOOSE t \in Topics : TRUE}]
  /\ caller = [s \in Subs |-> "new"]
  /\ ch = [s \in Subs |-> <<>>]
  /\ chClosed = [s \in Subs |-> FALSE]
  /\ worker = [s \in Subs |-> "none"]
  /\ current = [s \in Subs |-> <<>>]
  /\ tries = [s \in Subs |-> 0]
  /\ cancels = [s \in Subs |-> 0]
  /\ unclosed = [s \in Subs |-> 0]
  /\ wg = 0
  /\ closer = [c \in Closers |-> "idle"]
  /\ inflight = [p \in Publishers |-> <<>>]
  /\ todo = [p \in Publishers |-> {}]
  /\ published = 0
  /\ accepted = [s \in Subs |-> <<>>]
  /\ finished = [s \in Subs |-> <<>>]
  /\ swept = [c \in Closers |-> {}]
  /\ counted = [c \in Closers |-> {}]
  /\ panic = "none"

Subscribe(s) == (\E t \in Topics : Register(s, t)) \/ StartWorker(s)

Work(s) == Receive(s) \/ (\E ok \in BOOLEAN : Handle(s, ok)) \/ Exit(s)

Cancel(s) == CancelLocked(s) \/ CancelClose(s)

Publish(p) ==
  \/ \E t \in Topics : PublishBegin(p, t)
  \/ \E s \in Subs : PublishVisit(p, s)
  \/ PublishEnd(p)

Close(c) == CloseLocked(c) \/ Wait(c) \/ WaitWoken(c)

(* A panic in any goroutine ends the program: nothing runs after it.        *)
Next ==
  /\ panic = "none"
  /\ \/ \E s \in Subs : Subscribe(s) \/ Work(s) \/ Cancel(s)
     \/ \E p \in Publishers : Publish(p)
     \/ \E c \in Closers : Close(c)

(* A goroutine that can run is scheduled and a call that has begun goes on; *)
(* nobody is obliged to call Subscribe, cancel, Publish or Close.           *)
Fairness ==
  /\ \A s \in Subs : /\ WF_vars(panic = "none" /\ StartWorker(s))
                     /\ WF_vars(panic = "none" /\ Work(s))
                     /\ WF_vars(panic = "none" /\ CancelClose(s))
  /\ \A p \in Publishers :
       /\ WF_vars(panic = "none" /\ \E s \in Subs : PublishVisit(p, s))
       /\ WF_vars(panic = "none" /\ PublishEnd(p))
  /\ \A c \in Closers : WF_vars(panic = "none" /\ (Wait(c) \/ WaitWoken(c)))

Spec == Init /\ [][Next]_vars

FairSpec == Spec /\ Fairness
-----------------------------------------------------------------------------
(* Properties.                                                              *)

(* Every variable has its type; a channel never buffers more than its       *)
(* capacity, whatever the publishers do (the non-blocking send of line 45). *)
TypeOK ==
  /\ subscribers \in [Topics -> SUBSET Subs]
  /\ topic \in [Subs -> Topics]
  /\ caller \in [Subs -> {"new", "registered", "subscribed"}]
  /\ ch \in [Subs -> Seq(Event)]
  /\ \A s \in Subs : Len(ch[s]) <= BufCap
  /\ chClosed \in [Subs -> BOOLEAN]
  /\ worker \in [Subs -> {"none", "running", "exited"}]
  /\ current \in [Subs -> {<<>>} \cup {<<e>> : e \in Event}]
  /\ tries \in [Subs -> 0..3]
  /\ cancels \in [Subs -> Nat]
  /\ unclosed \in [Subs -> Nat]
  /\ wg \in Nat
  /\ closer \in [Closers -> {"idle", "waiting", "parked", "woken", "returned"}]
  /\ inflight \in [Publishers -> {<<>>} \cup {<<e>> : e \in Event}]
  /\ todo \in [Publishers -> SUBSET Subs]
  /\ published \in 0..MaxEvents
  /\ accepted \in [Subs -> Seq(Event)]
  /\ finished \in [Subs -> Seq(Outcome)]
  /\ swept \in [Closers -> SUBSET Subs]
  /\ counted \in [Closers -> SUBSET Subs]
  /\ panic \in {"none", "send_on_closed", "close_of_closed",
                "wg_reused"}

(* Publish never sends on a closed channel: cancel and Close may run at any *)
(* time, yet they unregister under the write lock before (or while) they    *)
(* close, and Publish keeps the read lock over its whole loop.              *)
NeverSendOnClosed == panic # "send_on_closed"

(* A subscriber that is still registered has an open channel and no cancel  *)
(* about to close it, so Close (line 94) never closes a closed channel,     *)
(* whatever cancels ran before it or are half done.                         *)
RegisteredOpen ==
  \A s \in Registered : ~chClosed[s] /\ unclosed[s] = 0

(* Both: nobody sends on a channel that another has closed, or closes it    *)
(* again behind the lock.                                                   *)
ChannelsSafe == NeverSendOnClosed /\ RegisteredOpen

(* Once cancel has left its critical section, no Publish delivers another   *)
(* event to that subscriber, even one that began before the cancel.         *)
CancelIsFinal ==
  [][\A s \in Subs : cancels[s] > 0 => accepted'[s] = accepted[s]]_vars

EventsOf(outcomes) == [i \in DOMAIN outcomes |-> outcomes[i].event]

(* What a channel accepted is, in order, what the worker has finished, what *)
(* it holds, and what is still buffered: nothing is lost, duplicated or     *)
(* reordered between Publish and the handler, retries and closing included. *)
DeliveryLedger ==
  \A s \in Subs : EventsOf(finished[s]) \o current[s] \o ch[s] = accepted[s]

(* An event leaves the worker in one of two ways: the handler accepted it   *)
(* on one of the three attempts of line 66, or all three failed.            *)
RetryLedger ==
  \A s \in Subs : \A i \in DOMAIN finished[s] :
    \/ finished[s][i].ok /\ finished[s][i].tries \in 1..3
    \/ ~finished[s][i].ok /\ finished[s][i].tries = 3

(* Both: what was accepted is handled in order, and each event as often as  *)
(* it takes but three times at most.                                        *)
Ledgers == DeliveryLedger /\ RetryLedger

(* When Close has returned, every worker that ran when it took the lock has *)
(* left its loop and everything its channel accepted has been handled.      *)
CloseDrains ==
  \A c \in Closers : closer[c] = "returned" =>
    \A s \in counted[c] : /\ worker[s] = "exited"
                          /\ EventsOf(finished[s]) = accepted[s]

(* What task.md:11 promises of Close, of every subscription it shut down:   *)
(* Close waits until its events have been processed.  Not so: a Subscribe   *)
(* between its Unlock (line 60) and wg.Add (line 62) is not waited for.     *)
CloseWaitsForProcessing ==
  \A c \in Closers : closer[c] = "returned" =>
    \A s \in swept[c] : EventsOf(finished[s]) = accepted[s]

(* Every accepted event is finished in the end, however late the channel is *)
(* closed, unless a panic ends the program.                                 *)
AcceptedFinishes ==
  \A s \in Subs : \A n \in 1..MaxEvents :
    Len(accepted[s]) >= n ~> (Len(finished[s]) >= n \/ panic # "none")

(* Close returns once nothing is subscribed for good: every subscription is *)
(* eventually cancelled or swept by some Close.                             *)
CloseReturnsIfShut ==
  <>[](Registered = {}) =>
    \A c \in Closers :
      closer[c] # "idle" ~> (closer[c] = "returned" \/ panic # "none")

(* Both: the workers come to the end of their work, and Close with them.    *)
WorkEnds == AcceptedFinishes /\ CloseReturnsIfShut
=============================================================================
