----------------------------- MODULE ServicesProofs -----------------------------
(***************************************************************************)
(* Proofs about TTLCache and Services, for any keys, getters, times to     *)
(* live, users, senders, channels, waiters, checks, servers and clients:   *)
(* what the composition lets each component do keeps its promise.  One     *)
(* inductive invariant per component, and what every step of the           *)
(* composition is to it at the end.                                        *)
(***************************************************************************)
EXTENDS Services, FiniteSetTheorems, SequenceTheorems, TLAPS

-----------------------------------------------------------------------------
(* TTLCache.  A Get that answers with a value answers with what it read,    *)
(* and the value stays right for a moment of the call however old the entry *)
(* is by then; one that answers "miss" on an expired entry makes that right *)
(* by its own Delete.                                                       *)

Item == [value : Values, left : Int]

(* What the map holds, and where each Get is.                               *)
Shape ==
  /\ items \in [Keys -> Item \cup {NoItem}]
  /\ seen \in [Getters -> Item \cup {NoItem}]
  /\ get \in [Getters -> {"idle", "check", "delete"}]
  /\ DOMAIN key = Getters
  /\ DOMAIN reply = Getters
  /\ DOMAIN during = Getters
  /\ \A g \in Getters : get[g] # "idle" => key[g] \in Keys

(* What each Get knows of its answer before it gives it.                    *)
Knows ==
  \A g \in Getters :
    /\ get[g] = "check" /\ Fresh(seen[g]) => seen[g].value \in during[g]
    /\ get[g] = "check" /\ seen[g] = NoItem => "miss" \in during[g]
    /\ get[g] = "delete" => reply[g] = "miss"

IInv == Shape /\ Knows /\ AnswersWereRight

(* An entry that grows older is an entry, and what is fresh then was fresh  *)
(* before and has the same value.                                           *)
LEMMA OlderItem ==
  ASSUME NEW it \in Item \cup {NoItem}
  PROVE  /\ Older(it) \in Item \cup {NoItem}
         /\ Older(it) = NoItem <=> it = NoItem
         /\ Fresh(Older(it)) => Fresh(it) /\ Older(it).value = it.value
<1>1. CASE it = NoItem
  BY <1>1 DEF Older
<1>2. CASE it # NoItem /\ After(it)
  BY <1>2 DEF Older
<1>3. CASE it # NoItem /\ ~After(it)
  <2>1. it \in Item
    BY <1>3
  <2>2. Older(it) = [it EXCEPT !.left = it.left - 1]
    BY <1>3 DEF Older
  <2>3. Older(it) \in Item /\ Older(it).value = it.value
    BY <2>1, <2>2 DEF Item
  <2>4. NoItem \notin Item
    BY CacheAssumption DEF Item
  <2>5. QED
    BY <1>3, <2>3, <2>4 DEF Fresh
<1>4. QED
  BY <1>1, <1>2, <1>3

LEMMA InitIInv == Init => IInv
<1> SUFFICES ASSUME Init PROVE IInv
  OBVIOUS
<1>1. Shape
  BY DEF Init, Shape
<1>2. Knows /\ AnswersWereRight
  BY DEF Init, Knows, AnswersWereRight
<1>3. QED
  BY <1>1, <1>2 DEF IInv

(* The moments of a call that has begun are only added to.                  *)
LEMMA WatchKeeps ==
  ASSUME Shape, Watch, NEW g \in Getters
  PROVE  /\ DOMAIN during' = Getters
         /\ get[g] # "idle" => during'[g] = during[g] \cup {Answer(items', key[g])}
         /\ get[g] = "idle" /\ get'[g] # "check" => during'[g] = during[g]
         /\ get[g] = "idle" /\ get'[g] = "check" => during'[g] = {Answer(items', key'[g])}
BY DEF Shape, Watch

(* A step that leaves the Gets where they are, with what they have seen.    *)
LEMMA GetsStand ==
  ASSUME IInv, Watch, UNCHANGED getVars, items' \in [Keys -> Item \cup {NoItem}]
  PROVE  IInv'
<1> USE DEF IInv, getVars
<1>1. Shape'
  BY WatchKeeps DEF Shape, Watch
<1>2. \A g \in Getters : during[g] \subseteq during'[g]
  BY WatchKeeps DEF Shape
<1>3. Knows'
  BY <1>2 DEF Knows, Fresh, After
<1>4. AnswersWereRight'
  BY <1>2 DEF AnswersWereRight
<1>5. QED
  BY <1>1, <1>3, <1>4

LEMMA AdvanceKeeps == IInv /\ Advance /\ Watch => IInv'
<1> SUFFICES ASSUME IInv, Advance, Watch PROVE IInv'
  OBVIOUS
<1> USE DEF IInv
<1>1. Shape'
  <2>1. /\ items' \in [Keys -> Item \cup {NoItem}]
        /\ seen' \in [Getters -> Item \cup {NoItem}]
    BY OlderItem DEF Shape, Advance
  <2>2. QED
    BY <2>1, WatchKeeps DEF Shape, Advance, Watch
<1>2. \A g \in Getters : during[g] \subseteq during'[g]
  BY WatchKeeps DEF Shape, Advance
<1>3. Knows'
  <2> SUFFICES ASSUME NEW g \in Getters
               PROVE  /\ get'[g] = "check" /\ Fresh(seen[g])' => seen'[g].value \in during'[g]
                      /\ get'[g] = "check" /\ seen'[g] = NoItem => "miss" \in during'[g]
                      /\ get'[g] = "delete" => reply'[g] = "miss"
    BY DEF Knows
  <2>1. seen'[g] = Older(seen[g]) /\ seen[g] \in Item \cup {NoItem}
    BY DEF Advance, Shape
  <2>2. Fresh(seen[g])' => Fresh(seen[g]) /\ seen'[g].value = seen[g].value
    BY <2>1, OlderItem DEF Fresh, After
  <2>3. seen'[g] = NoItem => seen[g] = NoItem
    BY <2>1, OlderItem
  <2>4. QED
    BY <1>2, <2>2, <2>3 DEF Knows, Advance
<1>4. AnswersWereRight'
  BY <1>2 DEF AnswersWereRight, Advance
<1>5. QED
  BY <1>1, <1>3, <1>4

LEMMA GetReadKeeps ==
  ASSUME IInv, Watch, NEW g \in Getters, NEW k \in Keys, GetRead(g, k)
  PROVE  IInv'
<1> USE DEF IInv
<1>1. Shape'
  BY WatchKeeps DEF Shape, GetRead, Watch
<1>2. \A h \in Getters \ {g} :
        /\ during[h] \subseteq during'[h]
        /\ get'[h] = get[h] /\ seen'[h] = seen[h] /\ reply'[h] = reply[h]
  BY WatchKeeps DEF Shape, GetRead
<1>3. /\ during'[g] = {Answer(items, k)} /\ seen'[g] = items[k]
      /\ get'[g] = "check" /\ reply'[g] = "none"
  <2>1. key'[g] = k /\ get'[g] = "check" /\ items' = items
    BY DEF Shape, GetRead
  <2>2. QED
    BY <2>1, WatchKeeps DEF Shape, GetRead, Answer, Fresh, After
<1>4. Knows'
  BY <1>2, <1>3 DEF Knows, Answer, Fresh, After
<1>5. AnswersWereRight'
  BY <1>2, <1>3 DEF AnswersWereRight
<1>6. QED
  BY <1>1, <1>4, <1>5

LEMMA GetCheckKeeps ==
  ASSUME IInv, Watch, NEW g \in Getters, GetCheck(g)
  PROVE  IInv'
<1> USE DEF IInv
<1>1. Shape'
  BY WatchKeeps DEF Shape, GetCheck, Watch
<1>2. \A h \in Getters : during[h] \subseteq during'[h]
  BY WatchKeeps DEF Shape, GetCheck
<1>3. \A h \in Getters \ {g} :
        get'[h] = get[h] /\ seen'[h] = seen[h] /\ reply'[h] = reply[h]
  BY DEF Shape, GetCheck
<1>4. /\ get'[g] # "check"
      /\ get'[g] = "delete" => reply'[g] = "miss"
      /\ get'[g] = "idle" => reply'[g] \in during[g]
  <2>1. CASE Fresh(seen[g])
    BY <2>1 DEF Shape, GetCheck, Knows, Fresh
  <2>2. CASE seen[g] = NoItem
    BY <2>2 DEF Shape, GetCheck, Knows, Fresh
  <2>3. CASE seen[g] # NoItem /\ After(seen[g])
    BY <2>3 DEF Shape, GetCheck, Fresh
  <2>4. QED
    BY <2>1, <2>2, <2>3 DEF Fresh
<1>5. Knows'
  BY <1>2, <1>3, <1>4 DEF Knows, Fresh, After
<1>6. AnswersWereRight'
  BY <1>2, <1>3, <1>4 DEF AnswersWereRight
<1>7. QED
  BY <1>1, <1>5, <1>6

LEMMA GetDeleteKeeps ==
  ASSUME IInv, Watch, NEW g \in Getters, GetDelete(g)
  PROVE  IInv'
<1> USE DEF IInv
<1>1. Shape'
  BY WatchKeeps DEF Shape, GetDelete, Watch
<1>2. \A h \in Getters : during[h] \subseteq during'[h]
  BY WatchKeeps DEF Shape, GetDelete
<1>3. \A h \in Getters \ {g} :
        get'[h] = get[h] /\ seen'[h] = seen[h] /\ reply'[h] = reply[h]
  BY DEF Shape, GetDelete
<1>4. get'[g] = "idle" /\ reply'[g] = "miss" /\ "miss" \in during'[g]
  <2>1. items'[key[g]] = NoItem /\ get[g] # "idle"
    BY DEF Shape, GetDelete
  <2>2. Answer(items', key[g]) = "miss"
    BY <2>1 DEF Answer, Fresh
  <2>3. QED
    BY <2>1, <2>2, WatchKeeps DEF Shape, GetDelete, Knows
<1>5. Knows'
  BY <1>2, <1>3, <1>4 DEF Knows, Fresh, After
<1>6. AnswersWereRight'
  BY <1>2, <1>3, <1>4 DEF AnswersWereRight
<1>7. QED
  BY <1>1, <1>5, <1>6

LEMMA StepIInv == IInv /\ [Next]_vars => IInv'
<1> SUFFICES ASSUME IInv, [Next]_vars PROVE IInv'
  OBVIOUS
<1>1. CASE Next
  <2>1. Watch
    BY <1>1 DEF Next
  <2>2. CASE Advance
    BY <2>1, <2>2, AdvanceKeeps
  <2>3. CASE \E k \in Keys, v \in Values, ttl \in -1..MaxTTL : Set(k, v, ttl)
    <3>1. UNCHANGED getVars /\ items' \in [Keys -> Item \cup {NoItem}]
      BY <2>3, CacheAssumption DEF Set, IInv, Shape, Item
    <3>2. QED
      BY <2>1, <3>1, GetsStand
  <2>4. CASE \E k \in Keys : Delete(k)
    <3>1. UNCHANGED getVars /\ items' \in [Keys -> Item \cup {NoItem}]
      BY <2>4 DEF Delete, IInv, Shape
    <3>2. QED
      BY <2>1, <3>1, GetsStand
  <2>5. CASE \E g \in Getters : Get(g)
    BY <2>1, <2>5, GetReadKeeps, GetCheckKeeps, GetDeleteKeeps DEF Get
  <2>6. CASE Sweep \/ Stop \/ Close
    <3>1. UNCHANGED getVars /\ items' \in [Keys -> Item \cup {NoItem}]
      BY <2>6 DEF Sweep, Stop, Close, IInv, Shape
    <3>2. QED
      BY <2>1, <3>1, GetsStand
  <2>7. QED
    BY <1>1, <2>2, <2>3, <2>4, <2>5, <2>6 DEF Next
<1>2. CASE UNCHANGED vars
  BY <1>2 DEF vars, IInv, Shape, Knows, AnswersWereRight, Fresh, After
<1>3. QED
  BY <1>1, <1>2

(* What Get answers was right at some moment of its call, although it looks *)
(* at the clock without the lock and deletes under another one              *)
(* (lines 54-70).                                                           *)
THEOREM AnswersRight == Spec => []AnswersWereRight
<1>1. IInv => AnswersWereRight
  BY DEF IInv
<1>2. QED
  BY <1>1, InitIInv, StepIInv, PTL DEF Spec

(* An entry that has not expired goes by a Delete of its key, or by a Get   *)
(* that had read an expired one: never by cleanup (line 39).                *)
LEMMA FreshGoesBy ==
  ASSUME IInv, [Next]_vars, NEW k \in Keys, Fresh(items[k]), items'[k] = NoItem
  PROVE  \/ Delete(k)
         \/ \E g \in Getters : key[g] = k /\ get[g] = "delete" /\ GetDelete(g)
<1>1. items[k] \in Item /\ items[k] # NoItem /\ NoItem \notin Item
  BY CacheAssumption DEF IInv, Shape, Fresh, Item
<1>2. items' # items
  BY <1>1
<1>3. CASE Advance
  <2>1. items'[k] = Older(items[k])
    BY <1>3 DEF Advance
  <2>2. QED
    BY <1>1, <2>1, OlderItem
<1>4. CASE \E j \in Keys, v \in Values, ttl \in -1..MaxTTL : Set(j, v, ttl)
  <2>1. PICK j \in Keys, v \in Values, ttl \in -1..MaxTTL : Set(j, v, ttl)
    BY <1>4
  <2>2. items'[k] = items[k] \/ items'[k] = [value |-> v, left |-> ttl]
    BY <2>1 DEF Set, IInv, Shape
  <2>3. [value |-> v, left |-> ttl] \in Item
    BY CacheAssumption DEF Item
  <2>4. QED
    BY <1>1, <2>2, <2>3
<1>5. CASE \E j \in Keys : Delete(j)
  <2>1. PICK j \in Keys : Delete(j)
    BY <1>5
  <2>2. j = k
    BY <1>1, <2>1 DEF Delete, IInv, Shape
  <2>3. QED
    BY <2>1, <2>2
<1>6. CASE \E g \in Getters : Get(g)
  <2>1. PICK g \in Getters : Get(g)
    BY <1>6
  <2>2. GetDelete(g)
    BY <1>2, <2>1 DEF Get, GetRead, GetCheck
  <2>3. key[g] = k /\ get[g] = "delete"
    BY <1>1, <2>2 DEF GetDelete, IInv, Shape
  <2>4. QED
    BY <2>2, <2>3
<1>7. CASE Sweep
  BY <1>1, <1>7 DEF Sweep, Outdated, Fresh
<1>8. CASE Stop \/ Close
  BY <1>2, <1>8 DEF Stop, Close
<1>9. QED
  BY <1>2, <1>3, <1>4, <1>5, <1>6, <1>7, <1>8 DEF Next, vars

(* As a property of all behaviours.                                         *)
THEOREM OnlyStaleGets == Spec => OnlyStaleGetLoses
<1>1. IInv /\ [Next]_vars =>
        [\A k \in Keys : Fresh(items[k]) /\ items'[k] = NoItem =>
           \/ Delete(k)
           \/ \E g \in Getters : key[g] = k /\ get[g] = "delete" /\ GetDelete(g)]_vars
  BY FreshGoesBy
<1>2. QED
  BY <1>1, InitIInv, StepIInv, PTL DEF Spec, OnlyStaleGetLoses

-----------------------------------------------------------------------------
(* ChatServer.  What a Send has begun it brings to every channel that was   *)
(* in the map; so a message is behind, at, or on its way to each of them.   *)

(* What a channel has been given: received, or still in it.                 *)
Line(c) == got[c] \o ch[c]

ChatShape ==
  /\ sends \in Nat
  /\ user \in Seq(Users) /\ Len(user) <= MaxCalls
  /\ subscribers \in [Users -> Nat]
  /\ closed \subseteq DOMAIN user
  /\ ch \in [CHAT!Calls -> Seq(Nat)] /\ got \in [CHAT!Calls -> Seq(Nat)]
  /\ sending \in [Senders -> 0..sends]
  /\ todo \in [Senders -> SUBSET CHAT!Calls]
  /\ dropped \in [CHAT!Calls -> SUBSET Nat]
  /\ after \in Seq(SUBSET Nat) /\ Len(after) = sends
  /\ since \in [CHAT!Calls -> [sent : Nat, gone : SUBSET Nat]]
  /\ \A c \in CHAT!Calls : since[c].gone \subseteq closed

(* The map holds open channels of the users it holds them for, and so does  *)
(* a loop over it, since nobody unsubscribes while a Send has the lock.     *)
OpenOnly ==
  /\ fault # "send_on_closed"
  /\ \A u \in Users : subscribers[u] # CHAT!NoCall =>
       subscribers[u] \in DOMAIN user \ closed /\ user[subscribers[u]] = u
  /\ \A s \in Senders : /\ todo[s] \subseteq DOMAIN user \ closed
                        /\ sending[s] = 0 => todo[s] = {}

(* A message is sent by one Send, which has not returned.                   *)
OneSend ==
  /\ returned \subseteq 1..sends
  /\ \A m \in 1..sends : after[m] \subseteq returned
  /\ \A s \in Senders : sending[s] \notin returned
  /\ \A s, t \in Senders : s # t /\ sending[s] = sending[t] => sending[s] = 0

(* A channel a Send has yet to come to does not have its message.           *)
Ordered(line) ==
  \A i, j \in 1..Len(line) : i < j => line[i] # line[j] /\ line[j] \notin after[line[i]]

InLine ==
  \A c \in CHAT!Calls :
    /\ \A i \in 1..Len(Line(c)) : Line(c)[i] \in 1..sends
    /\ \A s \in Senders : c \in todo[s] => ~CHAT!Contains(Line(c), sending[s])
    /\ Ordered(Line(c))

(* The subscriptions that are owed every message.                           *)
Alone(c) ==
  /\ c \in DOMAIN user \ closed
  /\ \A d \in DOMAIN user \ {c} : user[d] = user[c] => d \in since[c].gone

(* It is in the map, so each Send since has been there or will come.        *)
Reached ==
  \A c \in CHAT!Calls : Alone(c) =>
    /\ fault = "none" => subscribers[user[c]] = c
    /\ \A m \in 1..sends : m > since[c].sent =>
         \/ m \in dropped[c]
         \/ CHAT!Contains(Line(c), m)
         \/ \E s \in Senders : sending[s] = m /\ c \in todo[s]

ChatInv == ChatShape /\ OpenOnly /\ OneSend /\ InLine /\ Reached

(* Sequences of messages: what moves from one to the other, and what comes. *)
LEMMA MoveHead ==
  ASSUME NEW s \in Seq(Nat), NEW t \in Seq(Nat), t # <<>>
  PROVE  /\ Append(s, Head(t)) \in Seq(Nat) /\ Tail(t) \in Seq(Nat)
         /\ Append(s, Head(t)) \o Tail(t) = s \o t
<1>1. Head(t) \in Nat /\ Tail(t) \in Seq(Nat)
  BY HeadTailProperties
<1>2. Append(s, Head(t)) = s \o <<Head(t)>> /\ <<Head(t)>> \in Seq(Nat)
  BY <1>1, AppendIsConcat
<1>3. (s \o <<Head(t)>>) \o Tail(t) = s \o (<<Head(t)>> \o Tail(t))
  BY <1>1, <1>2, ConcatAssociative
<1>4. <<Head(t)>> \o Tail(t) = t
  <2>1. <<Head(t)>> \o Tail(t) \in Seq(Nat)
    BY <1>1, <1>2, ConcatProperties
  <2>2. Len(<<Head(t)>> \o Tail(t)) = Len(t) /\ Len(t) \in Nat
    BY <1>1, <1>2, ConcatProperties, HeadTailProperties, LenProperties
  <2>3. ASSUME NEW i \in 1..Len(t)
        PROVE  (<<Head(t)>> \o Tail(t))[i] = t[i]
    BY <1>1, <1>2, <2>2, ConcatProperties, HeadTailProperties, LenProperties
  <2>4. QED
    BY <2>1, <2>2, <2>3, SeqEqual
<1>5. QED
  BY <1>1, <1>2, <1>3, <1>4, AppendProperties

LEMMA AppendToLine ==
  ASSUME NEW s \in Seq(Nat), NEW t \in Seq(Nat), NEW m \in Nat
  PROVE  s \o Append(t, m) = Append(s \o t, m)
<1>1. <<m>> \in Seq(Nat) /\ s \o t \in Seq(Nat)
  BY ConcatProperties
<1>2. Append(t, m) = t \o <<m>> /\ Append(s \o t, m) = (s \o t) \o <<m>>
  BY <1>1, AppendIsConcat
<1>3. QED
  BY <1>1, <1>2, ConcatAssociative

LEMMA ContainsAppend ==
  ASSUME NEW line \in Seq(Nat), NEW m \in Nat, NEW x
  PROVE  CHAT!Contains(Append(line, m), x) <=> CHAT!Contains(line, x) \/ x = m
<1>1. /\ Len(line) \in Nat /\ Len(Append(line, m)) = Len(line) + 1
      /\ \A i \in 1..Len(line) : Append(line, m)[i] = line[i]
      /\ Append(line, m)[Len(line) + 1] = m
  BY LenProperties, AppendProperties
<1>2. \A i \in 1..(Len(line) + 1) : i \in 1..Len(line) \/ i = Len(line) + 1
  BY <1>1
<1>3. Len(line) + 1 \in 1..(Len(line) + 1) /\ 1..Len(line) \subseteq 1..(Len(line) + 1)
  BY <1>1
<1>4. QED
  BY <1>1, <1>2, <1>3 DEF CHAT!Contains

(* A message that is new to a line, and whose Send has not returned.        *)
LEMMA OrderedAppend ==
  ASSUME NEW line \in Seq(Nat), NEW m \in Nat, Ordered(line), m \notin returned,
         \A i \in 1..Len(line) : after[line[i]] \subseteq returned,
         ~CHAT!Contains(line, m)
  PROVE  Ordered(Append(line, m))
<1>1. /\ Len(line) \in Nat /\ Len(Append(line, m)) = Len(line) + 1
      /\ \A i \in 1..Len(line) : Append(line, m)[i] = line[i]
      /\ Append(line, m)[Len(line) + 1] = m
  BY LenProperties, AppendProperties
<1> SUFFICES ASSUME NEW i \in 1..(Len(line) + 1), NEW j \in 1..(Len(line) + 1), i < j
             PROVE  /\ Append(line, m)[i] # Append(line, m)[j]
                    /\ Append(line, m)[j] \notin after[Append(line, m)[i]]
  BY <1>1 DEF Ordered
<1>2. i \in 1..Len(line) /\ (j \in 1..Len(line) \/ j = Len(line) + 1)
  BY <1>1
<1>3. QED
  BY <1>1, <1>2 DEF Ordered, CHAT!Contains

LEMMA ChatInit == CHAT!Init => ChatInv
<1> SUFFICES ASSUME CHAT!Init PROVE ChatInv
  OBVIOUS
<1> USE DEF CHAT!Init, CHAT!Calls, CHAT!NoCall
<1>1. MaxCalls \in Nat /\ \A S : <<>> \in Seq(S) /\ Len(<<>>) = 0 /\ DOMAIN <<>> = {}
  BY ChatAssumption, EmptySeq
<1>2. \A c \in 1..MaxCalls : Line(c) = <<>>
  BY ConcatEmptySeq, EmptySeq DEF Line
<1>3. ChatShape
  BY <1>1 DEF ChatShape
<1>4. OpenOnly /\ OneSend
  BY DEF OpenOnly, OneSend
<1>5. InLine
  BY <1>1, <1>2 DEF InLine, CHAT!Contains, Ordered
<1>6. Reached
  BY <1>1 DEF Reached, Alone
<1>7. QED
  BY <1>3, <1>4, <1>5, <1>6 DEF ChatInv

LEMMA LineIsSeq ==
  ASSUME ChatShape, NEW c \in CHAT!Calls
  PROVE  Line(c) \in Seq(Nat) /\ Len(Line(c)) \in Nat
<1>1. got[c] \in Seq(Nat) /\ ch[c] \in Seq(Nat)
  BY DEF ChatShape
<1>2. QED
  BY <1>1, ConcatProperties, LenProperties DEF Line

(* A Send begins: its message is new, and it will come to each channel that *)
(* is in the map.                                                           *)
LEMMA SendBeginsKeeps ==
  ASSUME ChatInv, fault = "none", NEW s \in Senders, CHAT!SendBegins(s)
  PROVE  ChatInv'
<1> USE DEF ChatInv, CHAT!SendBegins, CHAT!NoCall
<1>1. /\ sends \in Nat /\ sends' = sends + 1 /\ sends' \in Nat
      /\ 1..sends \subseteq 1..sends' /\ 0..sends \subseteq 0..sends'
      /\ \A m \in 1..sends' : m \in 1..sends \/ m = sends'
      /\ sends' \notin 0..sends /\ sends' \notin 1..sends /\ sends' \in 1..sends'
  BY DEF ChatShape
<1>2. /\ \A t \in Senders : sending'[t] = IF t = s THEN sends' ELSE sending[t]
      /\ \A t \in Senders : todo'[t] = IF t = s THEN {subscribers[u] : u \in Users} \ {0}
                                                ELSE todo[t]
      /\ sending' \in [Senders -> 0..sends'] /\ sending[s] = 0
  BY <1>1 DEF ChatShape
<1>3. \A c \in {subscribers[u] : u \in Users} \ {0} :
        c \in CHAT!Calls /\ c \in DOMAIN user \ closed
  <2>1. DOMAIN user \subseteq CHAT!Calls
    BY LenProperties, ChatAssumption DEF ChatShape, CHAT!Calls
  <2>2. QED
    BY <2>1 DEF OpenOnly
<1>4. /\ after' \in Seq(SUBSET Nat) /\ Len(after') = sends' /\ after'[sends'] = returned
      /\ \A m \in 1..sends : after'[m] = after[m]
  <2>1. returned \in SUBSET Nat
    BY <1>1 DEF OneSend
  <2>2. QED
    BY <1>1, <2>1, AppendProperties DEF ChatShape
<1>5. ChatShape'
  <2>1. todo' \in [Senders -> SUBSET CHAT!Calls]
    BY <1>2, <1>3 DEF ChatShape
  <2>2. QED
    BY <1>1, <1>2, <1>4, <2>1 DEF ChatShape, CHAT!Calls
<1>6. OpenOnly'
  BY <1>1, <1>2, <1>3 DEF OpenOnly
<1>7. OneSend'
  <2>1. \A t \in Senders : sending[t] \in 0..sends
    BY DEF ChatShape
  <2>2. QED
    BY <1>1, <1>2, <1>4, <2>1 DEF OneSend
<1>8. \A c \in CHAT!Calls : Line(c)' = Line(c)
  BY DEF Line
<1>9. InLine'
  <2> SUFFICES ASSUME NEW c \in CHAT!Calls
               PROVE  /\ \A i \in 1..Len(Line(c)) : Line(c)[i] \in 1..sends'
                      /\ \A t \in Senders : c \in todo'[t] => ~CHAT!Contains(Line(c), sending'[t])
                      /\ Ordered(Line(c))'
    BY <1>8 DEF InLine, CHAT!Calls, CHAT!Contains
  <2>1. \A i \in 1..Len(Line(c)) : Line(c)[i] \in 1..sends
    BY DEF InLine
  <2>2. \A t \in Senders : c \in todo'[t] => ~CHAT!Contains(Line(c), sending'[t])
    BY <1>1, <1>2, <2>1 DEF InLine, CHAT!Contains
  <2>3. Ordered(Line(c))'
    <3>1. \A i \in 1..Len(Line(c)) : after'[Line(c)[i]] = after[Line(c)[i]]
      BY <1>4, <2>1
    <3>2. Ordered(Line(c))
      BY DEF InLine
    <3>3. Line(c)' = Line(c)
      BY <1>8
    <3>4. \A i, j \in 1..Len(Line(c)) :
            i < j => Line(c)[i] # Line(c)[j] /\ Line(c)[j] \notin after'[Line(c)[i]]
      BY <3>1, <3>2 DEF Ordered
    <3>5. QED
      BY <3>3, <3>4 DEF Ordered
  <2>4. QED
    BY <1>1, <2>1, <2>2, <2>3
<1>10. Reached'
  <2> SUFFICES ASSUME NEW c \in CHAT!Calls, Alone(c)
               PROVE  /\ subscribers[user[c]] = c
                      /\ \A m \in 1..sends' : m > since[c].sent =>
                           \/ m \in dropped[c]
                           \/ CHAT!Contains(Line(c), m)
                           \/ \E t \in Senders : sending'[t] = m /\ c \in todo'[t]
    BY <1>8 DEF Reached, Alone, CHAT!Calls, CHAT!Contains
  <2>1. subscribers[user[c]] = c
    BY DEF Reached
  <2>2. user[c] \in Users /\ c # 0
    BY ElementOfSeq, LenProperties DEF Alone, ChatShape
  <2>3. c \in todo'[s] /\ sending'[s] = sends'
    <3>1. c \in {subscribers[u] : u \in Users} \ {0}
      BY <2>1, <2>2
    <3>2. QED
      BY <1>2, <3>1
  <2>4. \A t \in Senders : todo[t] # {} => t # s
    BY DEF OpenOnly
  <2>5. QED
    BY <1>1, <1>2, <2>1, <2>3, <2>4 DEF Reached
<1>11. QED
  BY <1>5, <1>6, <1>7, <1>9, <1>10

(* A channel takes the message, or drops it.                                *)
LEMMA VisitKeeps ==
  ASSUME ChatInv, fault = "none", NEW s \in Senders, NEW c \in CHAT!Calls, CHAT!Visit(s, c)
  PROVE  ChatInv'
<1> USE DEF ChatInv
<1>1. /\ UNCHANGED <<subscribers, user, closed, sends, sending, after, returned, got, since>>
      /\ c \in todo[s] /\ todo' = [todo EXCEPT ![s] = todo[s] \ {c}]
      /\ sending[s] \in 1..sends /\ sending[s] \in Nat
  BY DEF CHAT!Visit, ChatShape, OpenOnly
<1>2. fault' = "none"
  BY DEF CHAT!Visit, OpenOnly
<1>3. \A t \in Senders : todo'[t] = IF t = s THEN todo[s] \ {c} ELSE todo[t]
  BY <1>1 DEF ChatShape
<1>4. /\ ch' \in [CHAT!Calls -> Seq(Nat)] /\ dropped' \in [CHAT!Calls -> SUBSET Nat]
      /\ \A d \in CHAT!Calls \ {c} : ch'[d] = ch[d] /\ dropped'[d] = dropped[d]
      /\ \/ ch'[c] = Append(ch[c], sending[s]) /\ dropped'[c] = dropped[c]
         \/ ch'[c] = ch[c] /\ dropped'[c] = dropped[c] \cup {sending[s]}
  <2>1. ch[c] \in Seq(Nat) /\ Append(ch[c], sending[s]) \in Seq(Nat)
    BY <1>1, AppendProperties DEF ChatShape
  <2>2. CASE Len(ch[c]) < Cap
    <3>1. ch' = [ch EXCEPT ![c] = Append(ch[c], sending[s])] /\ dropped' = dropped
      BY <2>2 DEF CHAT!Visit
    <3>2. QED
      BY <2>1, <3>1 DEF ChatShape
  <2>3. CASE ~(Len(ch[c]) < Cap)
    <3>1. dropped' = [dropped EXCEPT ![c] = dropped[c] \cup {sending[s]}] /\ ch' = ch
      BY <2>3 DEF CHAT!Visit
    <3>2. QED
      BY <1>1, <3>1 DEF ChatShape
  <2>4. QED
    BY <2>2, <2>3
<1>5. ChatShape' /\ OpenOnly' /\ OneSend'
  <2>1. ChatShape'
    BY <1>1, <1>4 DEF ChatShape, CHAT!Calls
  <2>2. OpenOnly'
    BY <1>1, <1>2, <1>3 DEF OpenOnly, CHAT!NoCall
  <2>3. OneSend'
    BY <1>1 DEF OneSend
  <2>4. QED
    BY <2>1, <2>2, <2>3
<1>6. \A d \in CHAT!Calls \ {c} : Line(d)' = Line(d)
  BY <1>1, <1>4 DEF Line
<1>7. \/ Line(c)' = Append(Line(c), sending[s]) /\ dropped'[c] = dropped[c]
      \/ Line(c)' = Line(c) /\ dropped'[c] = dropped[c] \cup {sending[s]}
  <2>1. got[c] \in Seq(Nat) /\ ch[c] \in Seq(Nat)
    BY DEF ChatShape
  <2>2. got[c] \o Append(ch[c], sending[s]) = Append(got[c] \o ch[c], sending[s])
    BY <1>1, <2>1, AppendToLine
  <2>3. QED
    BY <1>1, <1>4, <2>2 DEF Line
<1>8. /\ Line(c) \in Seq(Nat) /\ Len(Line(c)) \in Nat
      /\ Len(Append(Line(c), sending[s])) = Len(Line(c)) + 1
      /\ \A i \in 1..Len(Line(c)) : Append(Line(c), sending[s])[i] = Line(c)[i]
      /\ Append(Line(c), sending[s])[Len(Line(c)) + 1] = sending[s]
  BY <1>1, LineIsSeq, AppendProperties
<1>9. \A m : CHAT!Contains(Append(Line(c), sending[s]), m)
                <=> CHAT!Contains(Line(c), m) \/ m = sending[s]
  BY <1>1, <1>8, ContainsAppend
<1>10. InLine'
  <2>1. ASSUME NEW d \in CHAT!Calls \ {c}
        PROVE  /\ \A i \in 1..Len(Line(d)') : Line(d)'[i] \in 1..sends
               /\ \A t \in Senders : d \in todo'[t] => ~CHAT!Contains(Line(d)', sending[t])
               /\ Ordered(Line(d))'
    <3>1. Line(d)' = Line(d) /\ \A t \in Senders : d \in todo'[t] => d \in todo[t]
      BY <1>3, <1>6
    <3>2. Ordered(Line(d))'
      BY <1>1, <3>1 DEF InLine, Ordered
    <3>3. QED
      BY <3>1, <3>2 DEF InLine
  <2>2. CASE Line(c)' = Line(c)
    <3>1. Ordered(Line(c))'
      BY <1>1, <2>2 DEF InLine, Ordered
    <3>2. /\ \A i \in 1..Len(Line(c)') : Line(c)'[i] \in 1..sends
          /\ \A t \in Senders : c \in todo'[t] => ~CHAT!Contains(Line(c)', sending[t])
      BY <1>3, <2>2 DEF InLine
    <3>3. QED
      BY <1>1, <2>1, <3>1, <3>2 DEF InLine, CHAT!Calls, CHAT!Contains
  <2>3. CASE Line(c)' = Append(Line(c), sending[s])
    <3>1. \A i \in 1..Len(Line(c)') : Line(c)'[i] \in 1..sends
      <4>1. \A i \in 1..(Len(Line(c)) + 1) : i \in 1..Len(Line(c)) \/ i = Len(Line(c)) + 1
        BY <1>8
      <4>2. QED
        BY <1>1, <1>8, <2>3, <4>1 DEF InLine
    <3>2. \A t \in Senders : c \in todo'[t] => ~CHAT!Contains(Line(c)', sending[t])
      <4> SUFFICES ASSUME NEW t \in Senders, c \in todo'[t]
                   PROVE  ~CHAT!Contains(Line(c)', sending[t])
        OBVIOUS
      <4>1. t # s /\ c \in todo[t]
        BY <1>3
      <4>2. sending[t] # sending[s]
        BY <1>1, <4>1 DEF OneSend
      <4>3. QED
        BY <1>1, <1>8, <2>3, <4>1, <4>2, ContainsAppend DEF InLine
    <3>3. Ordered(Append(Line(c), sending[s]))
      <4>1. \A i \in 1..Len(Line(c)) : after[Line(c)[i]] \subseteq returned
        BY DEF InLine, OneSend
      <4>2. sending[s] \notin returned /\ ~CHAT!Contains(Line(c), sending[s])
        BY <1>1 DEF InLine, OneSend
      <4>3. QED
        BY <1>1, <1>8, <4>1, <4>2, OrderedAppend DEF InLine
    <3>4. Ordered(Line(c))'
      BY <1>1, <2>3, <3>3 DEF Ordered
    <3>5. QED
      BY <1>1, <2>1, <3>1, <3>2, <3>4 DEF InLine, CHAT!Calls, CHAT!Contains
  <2>4. QED
    BY <1>7, <2>2, <2>3
<1>11. Reached'
  <2> SUFFICES ASSUME NEW d \in CHAT!Calls, Alone(d)
               PROVE  /\ subscribers[user[d]] = d
                      /\ \A m \in 1..sends : m > since[d].sent =>
                           \/ m \in dropped'[d]
                           \/ CHAT!Contains(Line(d)', m)
                           \/ \E t \in Senders : sending[t] = m /\ d \in todo'[t]
    BY <1>1, <1>2 DEF Reached, Alone, CHAT!Calls, CHAT!Contains
  <2>1. subscribers[user[d]] = d
    BY DEF Reached
  <2>2. ASSUME NEW m \in 1..sends, m > since[d].sent
        PROVE  \/ m \in dropped'[d]
               \/ CHAT!Contains(Line(d)', m)
               \/ \E t \in Senders : sending[t] = m /\ d \in todo'[t]
    <3>1. CASE m \in dropped[d]
      BY <1>4, <3>1
    <3>2. CASE CHAT!Contains(Line(d), m)
      <4>1. CASE d = c
        BY <1>7, <1>9, <3>2, <4>1
      <4>2. CASE d # c
        BY <1>6, <3>2, <4>2
      <4>3. QED
        BY <4>1, <4>2
    <3>3. CASE \E t \in Senders : sending[t] = m /\ d \in todo[t]
      <4>1. PICK t \in Senders : sending[t] = m /\ d \in todo[t]
        BY <3>3
      <4>2. CASE t = s /\ d = c
        BY <1>7, <1>9, <4>1, <4>2
      <4>3. CASE ~(t = s /\ d = c)
        BY <1>3, <4>1, <4>3
      <4>4. QED
        BY <4>2, <4>3
    <3>4. QED
      BY <2>2, <3>1, <3>2, <3>3 DEF Reached
  <2>3. QED
    BY <2>1, <2>2
<1>12. QED
  BY <1>5, <1>10, <1>11

LEMMA SendReturnsKeeps ==
  ASSUME ChatInv, NEW s \in Senders, CHAT!SendReturns(s)
  PROVE  ChatInv'
<1> USE DEF ChatInv
<1>1. /\ UNCHANGED <<subscribers, user, ch, closed, sends, todo, fault, after, got, dropped, since>>
      /\ todo[s] = {} /\ sending[s] \in 1..sends /\ returned' = returned \cup {sending[s]}
      /\ sending' = [sending EXCEPT ![s] = 0]
  BY DEF CHAT!SendReturns, ChatShape
<1>2. \A t \in Senders : sending'[t] = IF t = s THEN 0 ELSE sending[t]
  BY <1>1 DEF ChatShape
<1>3. ChatShape'
  BY <1>1 DEF ChatShape, CHAT!Calls
<1>4. OpenOnly'
  BY <1>1, <1>2 DEF OpenOnly, CHAT!NoCall
<1>5. OneSend'
  <2>1. 0 \notin 1..sends /\ sending[s] # 0
    BY <1>1 DEF ChatShape
  <2>2. returned' \subseteq 1..sends /\ \A m \in 1..sends : after[m] \subseteq returned'
    BY <1>1 DEF OneSend
  <2>3. \A t \in Senders : sending'[t] \notin returned'
    BY <1>1, <1>2, <2>1, <2>2 DEF OneSend
  <2>4. \A t, v \in Senders : t # v /\ sending'[t] = sending'[v] => sending'[t] = 0
    BY <1>2 DEF OneSend
  <2>5. QED
    BY <1>1, <2>2, <2>3, <2>4 DEF OneSend
<1>6. /\ \A c \in CHAT!Calls : Line(c)' = Line(c)
      /\ \A c \in CHAT!Calls : Alone(c)' = Alone(c)
      /\ \A t \in Senders, c \in CHAT!Calls : c \in todo[t] => sending'[t] = sending[t]
  BY <1>1, <1>2 DEF Line, Alone
<1>7. InLine'
  <2> SUFFICES ASSUME NEW c \in CHAT!Calls
               PROVE  /\ \A i \in 1..Len(Line(c)) : Line(c)[i] \in 1..sends
                      /\ \A t \in Senders : c \in todo[t] => ~CHAT!Contains(Line(c), sending'[t])
                      /\ Ordered(Line(c))'
    BY <1>1, <1>6 DEF InLine, CHAT!Calls, CHAT!Contains
  <2>1. Ordered(Line(c))'
    <3>1. Line(c)' = Line(c) /\ after' = after /\ Ordered(Line(c))
      BY <1>1, <1>6 DEF InLine
    <3>2. QED
      BY <3>1 DEF Ordered
  <2>2. QED
    BY <1>6, <2>1 DEF InLine
<1>8. Reached'
  <2> SUFFICES ASSUME NEW c \in CHAT!Calls, Alone(c)
               PROVE  /\ fault = "none" => subscribers[user[c]] = c
                      /\ \A m \in 1..sends : m > since[c].sent =>
                           \/ m \in dropped[c]
                           \/ CHAT!Contains(Line(c), m)
                           \/ \E t \in Senders : sending'[t] = m /\ c \in todo[t]
    BY <1>1, <1>6 DEF Reached, CHAT!Calls, CHAT!Contains
  <2>1. QED
    BY <1>6 DEF Reached
<1>9. QED
  BY <1>3, <1>4, <1>5, <1>7, <1>8

(* The steps under the write lock, and those of the receivers, leave the    *)
(* Sends alone.                                                             *)
LEMMA SendsStand ==
  ASSUME ChatInv, UNCHANGED <<sends, sending, todo, after, returned>>,
         \A c \in CHAT!Calls : Line(c)' = Line(c)
  PROVE  OneSend' /\ InLine'
<1> USE DEF ChatInv
<1>1. OneSend'
  BY DEF OneSend
<1>2. ASSUME NEW c \in CHAT!Calls
      PROVE  Ordered(Line(c))'
  <2>1. Line(c)' = Line(c) /\ after' = after /\ Ordered(Line(c))
    BY DEF InLine
  <2>2. QED
    BY <2>1 DEF Ordered
<1>3. InLine'
  BY <1>2 DEF InLine, CHAT!Calls, CHAT!Contains
<1>4. QED
  BY <1>1, <1>3

LEMMA SubscribeKeeps ==
  ASSUME ChatInv, NEW u \in Users, CHAT!Subscribe(u)
  PROVE  ChatInv'
<1> USE DEF ChatInv
<1> DEFINE n == Len(user) + 1
<1>1. /\ user' = Append(user, u) /\ user' \in Seq(Users) /\ Len(user') = n
      /\ Len(user) \in Nat /\ DOMAIN user = 1..Len(user) /\ DOMAIN user' = 1..n
      /\ user'[n] = u /\ \A d \in DOMAIN user : user'[d] = user[d]
      /\ n \in CHAT!Calls /\ n \notin DOMAIN user /\ n # 0
      /\ DOMAIN user' = DOMAIN user \cup {n}
  <2>1. user \in Seq(Users) /\ Len(user) \in Nat /\ Len(user) < MaxCalls
    BY LenProperties DEF ChatShape, CHAT!Subscribe
  <2>2. Append(user, u) \in Seq(Users) /\ Len(Append(user, u)) = n
    BY <2>1, AppendProperties
  <2>3. DOMAIN user = 1..Len(user) /\ DOMAIN Append(user, u) = 1..n
    BY <2>1, <2>2, LenProperties
  <2>4. n \in CHAT!Calls /\ n \notin 1..Len(user) /\ n # 0 /\ 1..n = 1..Len(user) \cup {n}
    BY <2>1, ChatAssumption DEF CHAT!Calls
  <2>5. Append(user, u)[n] = u /\ \A d \in 1..Len(user) : Append(user, u)[d] = user[d]
    BY <2>1, AppendProperties
  <2>6. QED
    BY <2>1, <2>2, <2>3, <2>4, <2>5 DEF CHAT!Subscribe
<1>2. /\ UNCHANGED <<ch, closed, fault, got, sends, sending, todo, after, returned, dropped>>
      /\ subscribers' = [subscribers EXCEPT ![u] = n]
      /\ since' = [since EXCEPT ![n] = [sent |-> sends, gone |-> closed]]
      /\ \A s \in Senders : sending[s] = 0
  BY <1>1 DEF CHAT!Subscribe, CHAT!sendVars, CHAT!Unlocked
<1> HIDE DEF n
<1>3. /\ \A v \in Users : subscribers'[v] = IF v = u THEN n ELSE subscribers[v]
      /\ \A c \in CHAT!Calls : since'[c] = IF c = n THEN [sent |-> sends, gone |-> closed]
                                                    ELSE since[c]
  BY <1>1, <1>2 DEF ChatShape
<1>4. closed \subseteq DOMAIN user /\ n \notin closed
  BY <1>1 DEF ChatShape
<1>5. ChatShape'
  <2>1. Len(user') <= MaxCalls /\ n \in Nat
    BY <1>1, ChatAssumption DEF CHAT!Calls
  <2>2. subscribers' \in [Users -> Nat]
    BY <1>2, <2>1 DEF ChatShape
  <2>3. closed \in SUBSET Nat
    BY <1>1, <1>4
  <2>4. since' \in [CHAT!Calls -> [sent : Nat, gone : SUBSET Nat]]
    BY <1>2, <2>3 DEF ChatShape
  <2>5. \A c \in CHAT!Calls : since'[c].gone \subseteq closed
    <3>1. \A c \in CHAT!Calls : since[c].gone \subseteq closed
      BY DEF ChatShape
    <3>2. [sent |-> sends, gone |-> closed].gone = closed
      OBVIOUS
    <3>3. QED
      BY <1>3, <3>1, <3>2
  <2>6. QED
    BY <1>1, <1>2, <2>1, <2>2, <2>4, <2>5 DEF ChatShape, CHAT!Calls
<1>6. OpenOnly'
  <2>1. \A v \in Users : subscribers'[v] # 0 =>
          subscribers'[v] \in DOMAIN user' \ closed /\ user'[subscribers'[v]] = v
    BY <1>1, <1>3, <1>4 DEF OpenOnly, CHAT!NoCall
  <2>2. QED
    BY <1>1, <1>2, <2>1 DEF OpenOnly, CHAT!NoCall
<1>7. OneSend' /\ InLine'
  BY <1>2, SendsStand DEF Line
<1>8. ASSUME NEW c \in CHAT!Calls, Alone(c)'
      PROVE  c = n \/ (Alone(c) /\ user[c] # u)
  <2> SUFFICES ASSUME c # n PROVE Alone(c) /\ user[c] # u
    OBVIOUS
  <2>1. c \in DOMAIN user \ closed /\ since'[c] = since[c] /\ user'[c] = user[c]
    BY <1>1, <1>2, <1>3, <1>8 DEF Alone
  <2>2. \A d \in DOMAIN user' \ {c} : user'[d] = user'[c] => d \in since'[c].gone
    BY <1>8 DEF Alone
  <2>3. n \notin since[c].gone
    BY <1>4 DEF ChatShape
  <2>4. user[c] # u
    BY <1>1, <2>1, <2>2, <2>3
  <2>5. QED
    BY <1>1, <2>1, <2>2, <2>4 DEF Alone
<1>9. Reached'
  <2> SUFFICES ASSUME NEW c \in CHAT!Calls, Alone(c)'
               PROVE  /\ fault = "none" => subscribers'[user'[c]] = c
                      /\ \A m \in 1..sends : m > since'[c].sent =>
                           \/ m \in dropped[c]
                           \/ CHAT!Contains(Line(c), m)
                           \/ \E t \in Senders : sending[t] = m /\ c \in todo[t]
    <3>1. \A c \in CHAT!Calls : Line(c)' = Line(c)
      BY <1>2 DEF Line
    <3>2. QED
      BY <1>2, <3>1 DEF Reached, CHAT!Calls, CHAT!Contains
  <2>1. CASE c = n
    <3>1. since'[c].sent = sends /\ sends \in Nat
      BY <1>3, <2>1 DEF ChatShape
    <3>2. QED
      BY <1>1, <1>3, <2>1, <3>1
  <2>2. CASE Alone(c) /\ user[c] # u
    <3>1. c \in DOMAIN user /\ user[c] \in Users /\ c # n
      BY <1>1, <2>2, ElementOfSeq DEF Alone, ChatShape
    <3>2. QED
      BY <1>1, <1>3, <2>2, <3>1 DEF Reached
  <2>3. QED
    BY <1>8, <2>1, <2>2
<1>10. QED
  BY <1>5, <1>6, <1>7, <1>9

(* What unsubscribe deletes may be the entry of another subscription of the *)
(* user, but then that one is not alone, or the second close ends it all.   *)
LEMMA UnsubscribeKeeps ==
  ASSUME ChatInv, fault = "none", NEW c \in CHAT!Calls, CHAT!Unsubscribe(c)
  PROVE  ChatInv'
<1> USE DEF ChatInv
<1>1. /\ UNCHANGED <<user, ch, got, since, sends, sending, todo, after, returned, dropped>>
      /\ c \in DOMAIN user /\ closed' = closed \cup {c}
      /\ subscribers' = [subscribers EXCEPT ![user[c]] = 0]
      /\ fault' = IF c \in closed THEN "close_of_closed" ELSE "none"
      /\ \A s \in Senders : todo[s] = {}
  BY DEF CHAT!Unsubscribe, CHAT!sendVars, CHAT!Unlocked, CHAT!NoCall, OpenOnly
<1>2. user[c] \in Users
  BY <1>1, ElementOfSeq, LenProperties DEF ChatShape
<1>3. \A v \in Users : subscribers'[v] = IF v = user[c] THEN 0 ELSE subscribers[v]
  BY <1>1 DEF ChatShape
<1>4. ChatShape'
  BY <1>1 DEF ChatShape, CHAT!Calls
<1>5. OpenOnly'
  BY <1>1, <1>3 DEF OpenOnly, CHAT!NoCall
<1>6. OneSend' /\ InLine'
  BY <1>1, SendsStand DEF Line
<1>7. Reached'
  <2> SUFFICES ASSUME NEW d \in CHAT!Calls, Alone(d)'
               PROVE  /\ fault' = "none" => subscribers'[user[d]] = d
                      /\ \A m \in 1..sends : m > since[d].sent =>
                           \/ m \in dropped[d]
                           \/ CHAT!Contains(Line(d), m)
                           \/ \E t \in Senders : sending[t] = m /\ d \in todo[t]
    BY <1>1 DEF Reached, CHAT!Calls, CHAT!Contains, Line
  <2>1. d # c /\ Alone(d)
    BY <1>1 DEF Alone
  <2>2. user[d] \in Users
    BY <2>1, ElementOfSeq, LenProperties DEF ChatShape, Alone
  <2>3. user[c] = user[d] => c \in closed
    BY <1>1, <2>1 DEF Alone, ChatShape
  <2>4. QED
    BY <1>1, <1>3, <2>1, <2>2, <2>3 DEF Reached
<1>8. QED
  BY <1>4, <1>5, <1>6, <1>7

LEMMA ReceiveKeeps ==
  ASSUME ChatInv, NEW c \in CHAT!Calls, CHAT!Receive(c)
  PROVE  ChatInv'
<1> USE DEF ChatInv
<1>1. /\ UNCHANGED <<subscribers, user, closed, fault, since, sends, sending, todo, after,
                     returned, dropped>>
      /\ ch[c] # <<>>
      /\ got' = [got EXCEPT ![c] = Append(got[c], Head(ch[c]))]
      /\ ch' = [ch EXCEPT ![c] = Tail(ch[c])]
  BY DEF CHAT!Receive, CHAT!sendVars
<1>2. /\ Append(got[c], Head(ch[c])) \in Seq(Nat) /\ Tail(ch[c]) \in Seq(Nat)
      /\ Append(got[c], Head(ch[c])) \o Tail(ch[c]) = got[c] \o ch[c]
  BY <1>1, MoveHead DEF ChatShape
<1>3. \A d \in CHAT!Calls : Line(d)' = Line(d)
  BY <1>1, <1>2 DEF ChatShape, Line
<1>4. ChatShape'
  BY <1>1, <1>2 DEF ChatShape, CHAT!Calls
<1>5. OpenOnly'
  BY <1>1 DEF OpenOnly, CHAT!NoCall
<1>6. OneSend' /\ InLine'
  BY <1>1, <1>3, SendsStand
<1>7. Reached'
  <2>1. \A d \in CHAT!Calls : Alone(d)' = Alone(d)
    BY <1>1 DEF Alone
  <2>2. QED
    BY <1>1, <1>3, <2>1 DEF Reached, CHAT!Calls, CHAT!Contains
<1>8. QED
  BY <1>4, <1>5, <1>6, <1>7

LEMMA ChatStep == ChatInv /\ [CHAT!Next]_(CHAT!vars) => ChatInv'
<1> SUFFICES ASSUME ChatInv, [CHAT!Next]_(CHAT!vars) PROVE ChatInv'
  OBVIOUS
<1>1. CASE CHAT!Next
  BY <1>1, SendBeginsKeeps, SendReturnsKeeps, VisitKeeps, SubscribeKeeps, UnsubscribeKeeps,
     ReceiveKeeps DEF CHAT!Next
<1>2. CASE UNCHANGED CHAT!vars
  <2>1. UNCHANGED <<subscribers, user, ch, closed, sends, sending, todo, fault, after,
                    returned, got, dropped, since>>
    BY <1>2 DEF CHAT!vars
  <2>2. \A c \in CHAT!Calls : Line(c)' = Line(c) /\ Alone(c)' = Alone(c)
    BY <2>1 DEF Line, Alone
  <2>3. ChatShape' /\ OpenOnly'
    BY <2>1 DEF ChatInv, ChatShape, OpenOnly, CHAT!Calls, CHAT!NoCall
  <2>4. OneSend' /\ InLine'
    BY <2>1, <2>2, SendsStand
  <2>5. Reached'
    BY <2>1, <2>2 DEF ChatInv, Reached, CHAT!Calls, CHAT!Contains
  <2>6. QED
    BY <2>3, <2>4, <2>5 DEF ChatInv
<1>3. QED
  BY <1>1, <1>2

LEMMA ChatSafe == ChatInv => ChatDelivers
<1> SUFFICES ASSUME ChatInv PROVE ChatDelivers
  OBVIOUS
<1> USE DEF ChatInv
<1>1. CHAT!ChatInOrder
  <2> SUFFICES ASSUME NEW c \in CHAT!Calls,
                      NEW i \in DOMAIN Line(c), NEW j \in DOMAIN Line(c), i < j
               PROVE  Line(c)[i] # Line(c)[j] /\ Line(c)[j] \notin after[Line(c)[i]]
    BY DEF CHAT!ChatInOrder, OpenOnly, Line
  <2>1. DOMAIN Line(c) = 1..Len(Line(c))
    BY LineIsSeq, LenProperties
  <2>2. QED
    BY <2>1 DEF InLine, Ordered
<1>2. CHAT!ChatReachesAll
  <2> SUFFICES ASSUME NEW c \in DOMAIN user \ closed, Alone(c),
                      NEW m \in returned, m > since[c].sent
               PROVE  m \in dropped[c] \/ CHAT!Contains(Line(c), m)
    BY DEF CHAT!ChatReachesAll, Line, Alone
  <2>1. c \in CHAT!Calls /\ m \in 1..sends
    <3>1. Len(user) \in Nat /\ Len(user) <= MaxCalls /\ DOMAIN user = 1..Len(user)
      BY LenProperties DEF ChatShape
    <3>2. c \in 1..Len(user)
      BY <3>1
    <3>3. c \in 1..MaxCalls
      BY <3>1, <3>2, ChatAssumption
    <3>4. QED
      BY <3>3 DEF CHAT!Calls, OneSend
  <2>2. \A s \in Senders : sending[s] # m
    BY DEF OneSend
  <2>3. QED
    BY <2>1, <2>2 DEF Reached
<1>3. QED
  BY <1>1, <1>2 DEF ChatDelivers, CHAT!ChatDelivers

-----------------------------------------------------------------------------
(* RateLimiter.  What is in the limiter now and what it has let through in  *)
(* a window come out of the same burst and the same time.                   *)

(* The least of two numbers.                                                *)
LEMMA MinOfTwo ==
  ASSUME NEW a \in Int, NEW b \in Int
  PROVE  LIM!Min({a, b}) = IF a <= b THEN a ELSE b
<1>1. CASE a <= b
  <2>1. \A x \in {a, b} : (\A y \in {a, b} : x <= y) => x = a
    BY <1>1
  <2>2. \A y \in {a, b} : a <= y
    BY <1>1
  <2>3. QED
    BY <1>1, <2>1, <2>2 DEF LIM!Min
<1>2. CASE b < a
  <2>1. \A x \in {a, b} : (\A y \in {a, b} : x <= y) => x = b
    BY <1>2
  <2>2. \A y \in {a, b} : b <= y
    BY <1>2
  <2>3. QED
    BY <1>2, <2>1, <2>2 DEF LIM!Min
<1>3. QED
  BY <1>1, <1>2

(* The parts a full limiter has, and the time that fills an empty one.      *)
Full == Burst * Scale

LEMMA FillFills == LIM!Fill \in 1..Full /\ LIM!Fill * Rate >= Full
<1>1. Full \in Nat \ {0}
  BY LimiterAssumption DEF Full
<1>2. Full \in 1..Full /\ Full * Rate >= Full
  <2>1. \A a, b \in Nat : b # 0 => a * b >= a
    OBVIOUS
  <2>2. QED
    BY <1>1, <2>1, LimiterAssumption
<1>3. QED
  BY <1>2 DEF LIM!Fill, Full

LimiterShape ==
  /\ tokens \in 0..Full
  /\ idle \in 0..LIM!Fill
  /\ through \in [0..Horizon -> Nat]

(* What is in the limiter could be let through at once.                     *)
Budget ==
  \A age \in 0..Horizon : LIM!Refilled + through[age] * Scale <= Full + Rate * age

LimiterInv == LimiterShape /\ Budget

LEMMA RefilledIs ==
  ASSUME LimiterShape
  PROVE  /\ LIM!Refilled = IF tokens + idle * Rate <= Full THEN tokens + idle * Rate ELSE Full
         /\ LIM!Refilled \in 0..Full
<1>1. tokens \in Nat /\ idle \in Nat /\ Full \in Nat /\ Rate \in Nat
  BY FillFills, LimiterAssumption DEF LimiterShape, Full
<1>2. tokens + idle * Rate \in Nat
  BY <1>1
<1>3. QED
  BY <1>1, <1>2, MinOfTwo DEF LIM!Refilled, Full

LEMMA LimiterInit == LIM!Init => LimiterInv
<1> SUFFICES ASSUME LIM!Init PROVE LimiterInv
  OBVIOUS
<1>1. Full \in Nat
  BY LimiterAssumption DEF Full
<1>2. LimiterShape
  BY <1>1, FillFills DEF LIM!Init, LimiterShape, Full
<1>3. Budget
  <2> SUFFICES ASSUME NEW age \in 0..Horizon
               PROVE  LIM!Refilled + through[age] * Scale <= Full + Rate * age
    BY DEF Budget
  <2>1. through[age] = 0 /\ Rate * age \in Nat /\ Scale \in Nat
    BY LimiterAssumption DEF LIM!Init
  <2>2. QED
    BY <1>1, <1>2, <2>1, RefilledIs
<1>4. QED
  BY <1>2, <1>3 DEF LimiterInv

(* A unit of time brings what it may, and a window grows by as much.        *)
LEMMA TimeKeeps == LimiterInv /\ LIM!Advance => LimiterInv'
<1> SUFFICES ASSUME LimiterInv, LIM!Advance PROVE LimiterInv'
  OBVIOUS
<1>1. /\ tokens \in Nat /\ idle \in Nat /\ Full \in Nat /\ Rate \in Nat /\ Scale \in Nat
      /\ LIM!Fill \in Nat /\ Horizon \in Nat
  BY FillFills, LimiterAssumption DEF LimiterInv, LimiterShape, Full
<1>2. tokens' = tokens /\ idle' = IF idle + 1 <= LIM!Fill THEN idle + 1 ELSE LIM!Fill
  BY <1>1, MinOfTwo DEF LIM!Advance
<1>3. LimiterShape'
  <2>1. through' \in [0..Horizon -> Nat]
    BY <1>1 DEF LIM!Advance, LimiterInv, LimiterShape
  <2>2. QED
    BY <1>1, <1>2, <2>1 DEF LimiterInv, LimiterShape, Full, LIM!Fill
<1>4. LIM!Refilled' <= LIM!Refilled + Rate
  <2>1. LIM!Refilled' = IF tokens' + idle' * Rate <= Full THEN tokens' + idle' * Rate ELSE Full
    BY <1>1, <1>2, MinOfTwo DEF LIM!Refilled, Full
  <2>2. (idle + 1) * Rate = idle * Rate + Rate /\ idle * Rate \in Nat
    BY <1>1
  <2>3. CASE idle + 1 <= LIM!Fill
    BY <1>1, <1>2, <2>1, <2>2, <2>3, RefilledIs DEF LimiterInv
  <2>4. CASE ~(idle + 1 <= LIM!Fill)
    <3>1. idle' = idle
      BY <1>1, <1>2, <2>4 DEF LimiterInv, LimiterShape
    <3>2. QED
      BY <1>1, <1>2, <2>1, <2>2, <3>1, RefilledIs DEF LimiterInv
  <2>5. QED
    BY <2>3, <2>4
<1>5. Budget'
  <2> SUFFICES ASSUME NEW age \in 0..Horizon
               PROVE  LIM!Refilled' + through'[age] * Scale <= Full + Rate * age
    BY DEF Budget, Full
  <2>1. LIM!Refilled' \in 0..Full
    BY <1>1, <1>2, MinOfTwo DEF LIM!Refilled, Full
  <2>2. CASE age = 0
    <3>1. through'[age] * Scale = 0 /\ Rate * age = 0
      <4>1. through'[age] = 0
        BY <2>2 DEF LIM!Advance
      <4>2. QED
        BY <1>1, <2>2, <4>1
    <3>2. QED
      BY <1>1, <2>1, <2>2, <3>1
  <2>3. CASE age # 0
    <3>1. age - 1 \in 0..Horizon /\ through'[age] = through[age - 1]
      BY <1>1, <2>3 DEF LIM!Advance
    <3>2. LIM!Refilled + through[age - 1] * Scale <= Full + Rate * (age - 1)
      BY <3>1 DEF LimiterInv, Budget
    <3>3. Rate * (age - 1) = Rate * age - Rate /\ Rate * age \in Nat
      BY <1>1
    <3>4. through[age - 1] * Scale \in Nat
      BY <1>1, <3>1 DEF LimiterInv, LimiterShape
    <3>5. QED
      BY <1>1, <1>4, <2>1, <3>1, <3>2, <3>3, <3>4, RefilledIs DEF LimiterInv
  <2>4. QED
    BY <2>2, <2>3
<1>6. QED
  BY <1>3, <1>5 DEF LimiterInv

(* A token that is taken is let through; without one nothing changes but    *)
(* where the tokens are counted.                                            *)
LEMMA TokenKeeps == LimiterInv /\ (LIM!Take \/ LIM!Refuse) => LimiterInv'
<1> SUFFICES ASSUME LimiterInv, LIM!Take \/ LIM!Refuse PROVE LimiterInv'
  OBVIOUS
<1>1. /\ Full \in Nat /\ Rate \in Nat /\ Scale \in Nat /\ LIM!Fill \in Nat
      /\ LIM!Refilled \in 0..Full
  BY FillFills, RefilledIs, LimiterAssumption DEF LimiterInv, Full
<1>2. tokens' \in 0..Full /\ idle' = 0
  BY <1>1 DEF LIM!Take, LIM!Refuse
<1>3. LIM!Refilled' = tokens'
  <2>1. LIM!Refilled' = IF tokens' + idle' * Rate <= Full THEN tokens' + idle' * Rate ELSE Full
    BY <1>1, <1>2, MinOfTwo DEF LIM!Refilled, Full
  <2>2. tokens' + idle' * Rate = tokens'
    <3>1. tokens' \in Int /\ idle' * Rate = 0
      BY <1>1, <1>2
    <3>2. QED
      BY <3>1
  <2>3. tokens' <= Full
    BY <1>1, <1>2
  <2>4. QED
    BY <2>1, <2>2, <2>3
<1>4. LimiterShape'
  <2>1. through' \in [0..Horizon -> Nat]
    BY DEF LIM!Take, LIM!Refuse, LimiterInv, LimiterShape
  <2>2. QED
    BY <1>1, <1>2, <2>1 DEF LimiterShape, Full, LIM!Fill
<1>5. Budget'
  <2> SUFFICES ASSUME NEW age \in 0..Horizon
               PROVE  tokens' + through'[age] * Scale <= Full + Rate * age
    BY <1>3 DEF Budget, Full
  <2>1. LIM!Refilled + through[age] * Scale <= Full + Rate * age
    BY DEF LimiterInv, Budget
  <2>2. through[age] \in Nat /\ Rate * age \in Nat
    BY <1>1, LimiterAssumption DEF LimiterInv, LimiterShape
  <2>3. CASE LIM!Take
    <3>1. tokens' = LIM!Refilled - Scale /\ through'[age] = through[age] + 1
      BY <2>3 DEF LIM!Take
    <3>2. (through[age] + 1) * Scale = through[age] * Scale + Scale /\ through[age] * Scale \in Nat
      BY <1>1, <2>2
    <3>3. QED
      BY <1>1, <2>1, <2>2, <3>1, <3>2
  <2>4. CASE LIM!Refuse
    BY <2>1, <2>4 DEF LIM!Refuse
  <2>5. QED
    BY <2>3, <2>4
<1>6. QED
  BY <1>4, <1>5 DEF LimiterInv

LEMMA LimiterStep == LimiterInv /\ [LIM!Next]_(LIM!vars) => LimiterInv'
<1> SUFFICES ASSUME LimiterInv, [LIM!Next]_(LIM!vars) PROVE LimiterInv'
  OBVIOUS
<1>1. CASE LIM!Advance
  BY <1>1, TimeKeeps
<1>2. CASE LIM!Take \/ LIM!Refuse
  BY <1>2, TokenKeeps
<1>3. CASE UNCHANGED <<tokens, idle, through>>
  BY <1>3 DEF LimiterInv, LimiterShape, Budget, LIM!Refilled, Full, LIM!Fill
<1>4. LIM!Advance \/ LIM!Take \/ LIM!Refuse \/ UNCHANGED <<tokens, idle, through>>
  BY DEF LIM!Next, LIM!Allow, LIM!WaitCalled, LIM!Cancel, LIM!Poll, LIM!Try, LIM!Fire,
         LIM!Retry, LIM!GiveUp, LIM!vars
<1>5. QED
  BY <1>1, <1>2, <1>3, <1>4

LEMMA LimiterSafe == LimiterInv => WindowBound
<1> SUFFICES ASSUME LimiterInv, NEW age \in 0..Horizon
             PROVE  through[age] * Scale <= Burst * Scale + Rate * age
  BY DEF WindowBound, LIM!WindowBound
<1>1. LIM!Refilled \in 0..Full /\ Full \in Nat
  BY RefilledIs, LimiterAssumption DEF LimiterInv, Full
<1>2. LIM!Refilled + through[age] * Scale <= Full + Rate * age
  BY DEF LimiterInv, Budget
<1>3. through[age] * Scale \in Nat /\ Rate * age \in Nat
  BY LimiterAssumption DEF LimiterInv, LimiterShape
<1>4. QED
  BY <1>1, <1>2, <1>3 DEF Full

-----------------------------------------------------------------------------
(* HealthCheck.  While goroutines mark and store in any order, the flag and *)
(* the map tell exactly what those behind these steps have found, so they   *)
(* are complete once all have left.                                         *)

HealthShape ==
  /\ stage \in {"none", "running", "answered"}
  /\ checks \in [Names -> {"heeds", "deaf", NoCheck}]
  /\ DOMAIN asked = Names
  /\ job \in [Names -> {"none", "check", "mark", "store_up", "store_down", "leave", "left"}]
  /\ healthy \in BOOLEAN
  /\ failed \subseteq Names
  /\ \A n \in Names : job[n] = "none" <=> asked[n] = NoCheck
  /\ stage # "running" => \A n \in Names : job[n] \in {"none", "left"}

(* What the answer of the check of n is, once it is stored.                 *)
Verdict(n) == IF n \in failed THEN "down" ELSE "up"

(* How far the flag and the map are.                                        *)
HealthRecorded ==
  /\ \A n \in failed : job[n] \in {"mark", "store_down", "leave", "left"}
  /\ \A n \in Names : job[n] \in {"mark", "store_down"} => n \in failed
  /\ healthy = FALSE <=> \E n \in failed : job[n] # "mark"
  /\ results = [n \in Names |->
                  IF job[n] \in {"leave", "left"} THEN Verdict(n) ELSE NoCheck]

HealthInv == HealthShape /\ HealthRecorded /\ HEALTH!AnswerMatches

LEMMA HealthInit == HEALTH!Init => HealthInv
BY DEF HEALTH!Init, HealthInv, HealthShape, HealthRecorded, HEALTH!AnswerMatches,
       HEALTH!NoChecks

LEMMA AddCheckKeeps ==
  ASSUME HealthInv, NEW n \in Names, NEW kind \in {"heeds", "deaf"}, HEALTH!AddCheck(n, kind)
  PROVE  HealthInv'
BY DEF HealthInv, HealthShape, HealthRecorded, Verdict, HEALTH!AnswerMatches, HEALTH!Asked,
       HEALTH!AddCheck

LEMMA BeginKeeps == HealthInv /\ HEALTH!Begin => HealthInv'
<1> SUFFICES ASSUME HealthInv, HEALTH!Begin PROVE HealthInv'
  OBVIOUS
<1> USE DEF HealthInv, HEALTH!Begin
<1>1. \A n \in Names : job'[n] = IF checks[n] = NoCheck THEN "none" ELSE "check"
  OBVIOUS
<1>2. HealthShape'
  BY <1>1 DEF HealthShape
<1>3. HealthRecorded'
  BY <1>1 DEF HealthRecorded, HEALTH!NoChecks
<1>4. HEALTH!AnswerMatches'
  BY DEF HEALTH!AnswerMatches
<1>5. QED
  BY <1>2, <1>3, <1>4

(* The steps of the goroutine of n touch the jobs of no other.              *)
LEMMA CheckReturnsKeeps ==
  ASSUME HealthInv, NEW n \in Names, HEALTH!CheckReturns(n)
  PROVE  HealthInv'
<1> USE DEF HealthInv
<1>1. /\ job[n] = "check" /\ n \notin failed
      /\ \A m \in Names \ {n} : job'[m] = job[m]
      /\ \/ job'[n] = "store_up" /\ failed' = failed
         \/ job'[n] = "mark" /\ failed' = failed \cup {n}
  BY DEF HEALTH!CheckReturns, HealthShape, HealthRecorded
<1>2. HealthShape'
  BY <1>1 DEF HEALTH!CheckReturns, HealthShape
<1>3. HealthRecorded'
  <2>1. UNCHANGED <<healthy, results>>
    BY DEF HEALTH!CheckReturns
  <2>2. \A m \in Names : job'[m] \in {"leave", "left"} <=> job[m] \in {"leave", "left"}
    BY <1>1
  <2>3. \A m \in Names : job[m] \in {"leave", "left"} => (m \in failed' <=> m \in failed)
    BY <1>1
  <2>4. results' = [m \in Names |->
                      IF job'[m] \in {"leave", "left"} THEN Verdict(m)' ELSE NoCheck]
    BY <2>1, <2>2, <2>3 DEF HealthRecorded, Verdict
  <2>5. (\E m \in failed' : job'[m] # "mark") <=> \E m \in failed : job[m] # "mark"
    BY <1>1 DEF HealthShape
  <2>6. QED
    BY <1>1, <2>1, <2>4, <2>5 DEF HealthRecorded, HealthShape
<1>4. HEALTH!AnswerMatches'
  <2>1. stage' # "answered"
    BY <1>1 DEF HEALTH!CheckReturns, HealthShape
  <2>2. QED
    BY <2>1 DEF HEALTH!AnswerMatches
<1>5. QED
  BY <1>2, <1>3, <1>4

LEMMA JobKeeps ==
  ASSUME HealthInv, NEW n \in Names, HEALTH!Job(n)
  PROVE  HealthInv'
<1> USE DEF HealthInv
<1>1. /\ \/ job[n] = "mark" /\ job'[n] = "store_down"
         \/ job[n] \in {"store_up", "store_down"} /\ job'[n] = "leave"
         \/ job[n] = "leave" /\ job'[n] = "left"
      /\ \A m \in Names \ {n} : job'[m] = job[m]
      /\ UNCHANGED <<checks, asked, stage, failed, answer>>
  BY DEF HEALTH!Job, HEALTH!MarkDown, HEALTH!Store, HEALTH!Leave, HealthShape
<1>2. HealthShape'
  <2>1. /\ job' \in [Names -> {"none", "check", "mark", "store_up", "store_down",
                              "leave", "left"}]
        /\ healthy' \in BOOLEAN
    BY DEF HEALTH!Job, HEALTH!MarkDown, HEALTH!Store, HEALTH!Leave, HealthShape
  <2>2. stage' = "running"
    BY <1>1 DEF HealthShape
  <2>3. QED
    BY <1>1, <2>1, <2>2 DEF HealthShape
<1>3. HealthRecorded'
  <2>1. CASE HEALTH!MarkDown(n)
    <3>1. /\ healthy' = FALSE /\ job'[n] = "store_down" /\ results' = results /\ n \in failed
      BY <2>1 DEF HEALTH!MarkDown, HealthShape, HealthRecorded
    <3>2. results' = [m \in Names |->
                        IF job'[m] \in {"leave", "left"} THEN Verdict(m)' ELSE NoCheck]
      BY <1>1, <2>1, <3>1 DEF HEALTH!MarkDown, HealthRecorded, Verdict
    <3>3. QED
      BY <1>1, <3>1, <3>2 DEF HealthRecorded, HealthShape
  <2>2. CASE HEALTH!Store(n)
    <3>1. /\ job[n] \in {"store_up", "store_down"} /\ job'[n] = "leave" /\ healthy' = healthy
          /\ results' = [results EXCEPT ![n] = Verdict(n)]
      BY <2>2 DEF HEALTH!Store, HealthShape, HealthRecorded, Verdict
    <3>2. results' = [m \in Names |->
                        IF job'[m] \in {"leave", "left"} THEN Verdict(m)' ELSE NoCheck]
      BY <1>1, <3>1 DEF HealthRecorded, Verdict
    <3>3. QED
      BY <1>1, <3>1, <3>2 DEF HealthRecorded, HealthShape
  <2>3. CASE HEALTH!Leave(n)
    <3>1. /\ job[n] = "leave" /\ job'[n] = "left"
          /\ UNCHANGED <<healthy, results>>
      BY <2>3 DEF HEALTH!Leave, HealthShape
    <3>2. results' = [m \in Names |->
                        IF job'[m] \in {"leave", "left"} THEN Verdict(m)' ELSE NoCheck]
      BY <1>1, <3>1 DEF HealthRecorded, Verdict
    <3>3. QED
      BY <1>1, <3>1, <3>2 DEF HealthRecorded, HealthShape
  <2>4. QED
    BY <2>1, <2>2, <2>3 DEF HEALTH!Job
<1>4. HEALTH!AnswerMatches'
  <2>1. stage' # "answered"
    BY <1>1 DEF HealthShape
  <2>2. QED
    BY <2>1 DEF HEALTH!AnswerMatches
<1>5. QED
  BY <1>2, <1>3, <1>4

LEMMA AnswerKeeps == HealthInv /\ HEALTH!Answer => HealthInv'
<1> SUFFICES ASSUME HealthInv, HEALTH!Answer PROVE HealthInv'
  OBVIOUS
<1> USE DEF HealthInv
<1>1. \A n \in Names : job[n] = IF n \in HEALTH!Asked THEN "left" ELSE "none"
  BY DEF HEALTH!Answer, HealthShape, HEALTH!Asked
<1>2. HealthShape'
  BY <1>1 DEF HEALTH!Answer, HealthShape
<1>3. HealthRecorded'
  BY DEF HEALTH!Answer, HealthRecorded, Verdict
<1>4. HEALTH!AnswerMatches'
  <2>1. answer'.checks = results /\ answer'.code = IF healthy THEN 200 ELSE 503
    BY DEF HEALTH!Answer
  <2>2. \A n \in Names : results[n] = IF n \in HEALTH!Asked THEN Verdict(n) ELSE NoCheck
    BY <1>1 DEF HealthRecorded
  <2>3. healthy = TRUE <=> failed = {}
    BY <1>1 DEF HealthRecorded, HealthShape
  <2>4. failed' = failed /\ HEALTH!Asked' = HEALTH!Asked
    BY DEF HEALTH!Answer, HEALTH!Asked
  <2>5. QED
    BY <2>1, <2>2, <2>3, <2>4 DEF HEALTH!AnswerMatches, Verdict
<1>5. QED
  BY <1>2, <1>3, <1>4

LEMMA HealthStep == HealthInv /\ [HEALTH!Next]_(HEALTH!vars) => HealthInv'
<1> SUFFICES ASSUME HealthInv, [HEALTH!Next]_(HEALTH!vars) PROVE HealthInv'
  OBVIOUS
<1>1. CASE HEALTH!Next
  BY <1>1, AddCheckKeeps, BeginKeeps, CheckReturnsKeeps, JobKeeps, AnswerKeeps DEF HEALTH!Next
<1>2. CASE UNCHANGED HEALTH!vars
  BY <1>2 DEF HEALTH!vars, HealthInv, HealthShape, HealthRecorded, Verdict,
              HEALTH!AnswerMatches, HEALTH!Asked
<1>3. QED
  BY <1>1, <1>2

-----------------------------------------------------------------------------
(* GracefulServer.  A server that has been shut down never listens again,   *)
(* so once its requests are done it has none.                               *)

(* The requests in the counted part of the handler.                         *)
InHandler == {r \in Requests : request[r] = "counted"}

ServerShape ==
  /\ request \in [Requests -> {"out", "accepted", "counted", "served"}]
  /\ DOMAIN at = Requests
  /\ active = Cardinality(InHandler)

(* A Shutdown under way has shut its server down.                           *)
ServerDown ==
  /\ listening \cap shut = {}
  /\ call \in {"draining", "nil", "timeout"} /\ target # NoServer => target \in shut
  /\ call = "nil" /\ target # NoServer => \A r \in Requests : at[r] = target => request[r] = "out"

ServerInv == ServerShape /\ ServerDown

LEMMA FiniteInHandler ==
  ASSUME IsFiniteSet(Requests)
  PROVE  IsFiniteSet(InHandler) /\ IsFiniteSet(InHandler')
BY FS_Subset DEF InHandler

LEMMA ServerInit == SRV!Init => ServerInv
<1> SUFFICES ASSUME SRV!Init PROVE ServerInv
  OBVIOUS
<1>1. InHandler = {} /\ Cardinality({}) = 0
  BY FS_EmptySet DEF SRV!Init, InHandler
<1>2. QED
  BY <1>1 DEF SRV!Init, ServerInv, ServerShape, ServerDown

(* Starts and Shutdowns do not touch requests.                              *)
LEMMA ServerStepKeeps ==
  ASSUME ServerInv, (\E s \in Starts : SRV!StoreServer(s) \/ SRV!Listen(s)) \/ SRV!Check \/ SRV!Drain \/ SRV!Finish
  PROVE  ServerInv'
<1> USE DEF ServerInv
<1>1. UNCHANGED <<request, at, active>>
  BY DEF SRV!StoreServer, SRV!Listen, SRV!Check, SRV!Drain, SRV!Finish
<1>2. ServerShape'
  BY <1>1 DEF ServerShape, InHandler
<1>3. ServerDown'
  <2>1. CASE \E s \in Starts : SRV!StoreServer(s) \/ SRV!Listen(s)
    BY <2>1 DEF SRV!StoreServer, SRV!Listen, ServerDown
  <2>2. CASE SRV!Check
    BY <2>2 DEF SRV!Check, ServerDown
  <2>3. CASE SRV!Drain
    BY <2>3 DEF SRV!Drain, ServerDown
  <2>4. CASE SRV!Finish
    BY <2>4 DEF SRV!Finish, ServerDown
  <2>5. QED
    BY <2>1, <2>2, <2>3, <2>4
<1>4. QED
  BY <1>2, <1>3

LEMMA AcceptKeeps ==
  ASSUME ServerInv, NEW r \in Requests, SRV!Accept(r)
  PROVE  ServerInv'
<1> USE DEF ServerInv
<1>1. PICK s \in listening : at' = [at EXCEPT ![r] = s]
  BY DEF SRV!Accept
<1>2. ServerShape'
  <2>1. InHandler' = InHandler
    BY DEF InHandler, SRV!Accept, ServerShape
  <2>2. QED
    BY <1>1, <2>1 DEF SRV!Accept, ServerShape
<1>3. ServerDown'
  BY <1>1 DEF SRV!Accept, ServerShape, ServerDown
<1>4. QED
  BY <1>2, <1>3

LEMMA RequestStepKeeps ==
  ASSUME IsFiniteSet(Requests), ServerInv, NEW r \in Requests, SRV!Count(r) \/ SRV!Uncount(r) \/ SRV!Respond(r)
  PROVE  ServerInv'
<1> USE DEF ServerInv
<1>1. request[r] # "out" /\ \A q \in Requests \ {r} : request'[q] = request[q]
  BY DEF SRV!Count, SRV!Uncount, SRV!Respond, SRV!Progress, ServerShape
<1>2. /\ request' \in [Requests -> {"out", "accepted", "counted", "served"}]
      /\ DOMAIN at' = Requests
  BY DEF SRV!Count, SRV!Uncount, SRV!Respond, SRV!Progress, ServerShape
<1>3. active' = Cardinality(InHandler')
  <2>1. CASE SRV!Count(r)
    <3>1. r \notin InHandler /\ InHandler' = InHandler \cup {r}
      BY <2>1 DEF SRV!Count, SRV!Progress, InHandler, ServerShape
    <3>2. QED
      BY <2>1, <3>1, FiniteInHandler, FS_AddElement DEF SRV!Count, ServerShape
  <2>2. CASE SRV!Uncount(r)
    <3>1. r \in InHandler /\ InHandler' = InHandler \ {r}
      BY <2>2 DEF SRV!Uncount, SRV!Progress, InHandler, ServerShape
    <3>2. QED
      BY <2>2, <3>1, FiniteInHandler, FS_RemoveElement DEF SRV!Uncount, ServerShape
  <2>3. CASE SRV!Respond(r)
    <3>1. InHandler' = InHandler
      BY <2>3 DEF SRV!Respond, SRV!Progress, InHandler, ServerShape
    <3>2. QED
      BY <2>3, <3>1 DEF SRV!Respond, ServerShape
  <2>4. QED
    BY <2>1, <2>2, <2>3
<1>4. ServerDown'
  <2>1. UNCHANGED <<listening, shut, call, target, at>>
    BY DEF SRV!Count, SRV!Uncount, SRV!Respond
  <2>2. call = "nil" /\ target # NoServer => at[r] # target
    BY <1>1 DEF ServerDown
  <2>3. QED
    BY <1>1, <2>1, <2>2 DEF ServerDown
<1>5. QED
  BY <1>2, <1>3, <1>4 DEF ServerShape

LEMMA ServerStep == ServerInv /\ [SRV!Next]_(SRV!vars) => ServerInv'
<1> SUFFICES ASSUME ServerInv, [SRV!Next]_(SRV!vars) PROVE ServerInv'
  OBVIOUS
<1>1. CASE SRV!Next
  BY <1>1, RequestsAssumption, ServerStepKeeps, AcceptKeeps, RequestStepKeeps DEF SRV!Next
<1>2. CASE UNCHANGED SRV!vars
  BY <1>2 DEF SRV!vars, ServerInv, ServerShape, ServerDown, InHandler
<1>3. QED
  BY <1>1, <1>2

LEMMA ServerSafe == ServerInv => DrainedWhenNil
<1> SUFFICES ASSUME ServerInv, call = "nil", target # NoServer
             PROVE  /\ target \notin listening
                    /\ \A r \in Requests : at[r] = target => request[r] = "out"
                    /\ active = Cardinality({r \in Requests :
                                               request[r] = "counted" /\ at[r] # target})
  BY DEF DrainedWhenNil, SRV!DrainedWhenNil, SRV!Cardinality, Cardinality
<1>1. target \notin listening /\ \A r \in Requests : at[r] = target => request[r] = "out"
  BY DEF ServerInv, ServerDown
<1>2. InHandler = {r \in Requests : request[r] = "counted" /\ at[r] # target}
  BY <1>1 DEF InHandler
<1>3. QED
  BY <1>1, <1>2 DEF ServerInv, ServerShape

-----------------------------------------------------------------------------
(* The composition.                                                         *)

(* A step of the composition is one of the component's own, or leaves it    *)
(* where it is.                                                             *)
LEMMA StepsOfEach ==
  ASSUME [ServicesNext]_services
  PROVE  /\ [Next]_vars
         /\ [CHAT!Next]_(CHAT!vars)
         /\ [LIM!Next]_(LIM!vars)
         /\ [HEALTH!Next]_(HEALTH!vars)
         /\ [SRV!Next]_(SRV!vars)
BY DEF ServicesNext, services, cache, chat, limiter, health, graceful, vars,
       CHAT!vars, LIM!vars, HEALTH!vars, SRV!vars

LEMMA InitOfEach ==
  ServicesInit => Init /\ CHAT!Init /\ LIM!Init /\ HEALTH!Init /\ SRV!Init
BY DEF ServicesInit

(* In the composition each component does what its own specification says,  *)
(* so what is proved of TTLCache alone holds here too.                      *)
THEOREM EachAsAlone ==
  Services => /\ Spec
              /\ CHAT!Init /\ [][CHAT!Next]_(CHAT!vars)
              /\ LIM!Init /\ [][LIM!Next]_(LIM!vars)
              /\ HEALTH!Spec
              /\ SRV!Spec
BY StepsOfEach, InitOfEach, PTL DEF Services, Spec, HEALTH!Spec, SRV!Spec

(* Each message once and in order to each subscriber, and all of them but   *)
(* for a full channel (ChatServer, lines 25-50), for any users, senders and *)
(* channels.                                                                *)
THEOREM MessagesDelivered == Services => []ChatDelivers
BY EachAsAlone, ChatInit, ChatStep, ChatSafe, PTL

(* No window of time lets more through than the burst and what comes in it  *)
(* (RateLimiter, lines 26-57), for any rate, burst and window.              *)
THEOREM WindowsBounded == Services => []WindowBound
BY EachAsAlone, LimiterInit, LimiterStep, LimiterSafe, PTL

(* The response says of each check of the request what it found, and 503    *)
(* if one of them failed (HealthChecker, lines 39-96), for any number of    *)
(* checks.                                                                  *)
THEOREM ResponseMatches == Services => []AnswerMatches
<1>1. HealthInv => AnswerMatches
  BY DEF HealthInv, AnswerMatches
<1>2. QED
  BY <1>1, EachAsAlone, HealthInit, HealthStep, PTL DEF HEALTH!Spec

(* A Shutdown that returned nil leaves nothing of its server, and the       *)
(* counter tells what the other servers have to do (GracefulServer, lines   *)
(* 39-44), for any number of Starts and clients.                            *)
THEOREM NothingLeftBehind == Services => []DrainedWhenNil
BY EachAsAlone, ServerInit, ServerStep, ServerSafe, PTL DEF SRV!Spec
=============================================================================
