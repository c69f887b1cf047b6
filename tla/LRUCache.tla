------------------------------ MODULE LRUCache -------------------------------
(***************************************************************************)
(* The LRU cache of 01-fundamentals/exercises/hard/01-lru-cache/solution/  *)
(* main.go: a map from keys to elements of a linked list, the most recent  *)
(* first.  It has no lock and is called by one goroutine.  The list of     *)
(* container/list is a sequence of its elements; an element is an address  *)
(* whose entry holds key and value.                                        *)
(***************************************************************************)
EXTENDS Naturals, FiniteSets, Sequences, SequencesExt

CONSTANTS
  Keys,
  Values,
  Capacity  \* at least 1 (task.md:12)

VARIABLES
  items,    \* LRUCache.items: key -> element
  order,    \* LRUCache.order: the elements, front first
  element,  \* the entry of every element of the list
  recent,   \* history: the keys by their last Put or successful Get
  lastPut   \* history: the last value put under every key in recent

vars == <<items, order, element, recent, lastPut>>

-----------------------------------------------------------------------------
(* history: the key has just been used                                      *)
Use(key) == recent' = <<key>> \o RemoveFirst(recent, key)

(* lines 35 and 42                                                          *)
MoveToFront(e) == order' = <<e>> \o RemoveFirst(order, e)

GetHit_NotMoved(key) ==
  /\ key \in DOMAIN items
  /\ Use(key)
  /\ UNCHANGED <<items, order, element, lastPut>>

(* lines 35-36                                                              *)
GetHit(key) ==
  /\ key \in DOMAIN items
  /\ MoveToFront(items[key])
  /\ Use(key)
  /\ UNCHANGED <<items, element, lastPut>>

(* lines 30-33                                                              *)
GetMiss(key) ==
  /\ key \notin DOMAIN items
  /\ UNCHANGED <<items, order, element, recent, lastPut>>

(* lines 42-44: the entry of the element gets the value                     *)
PutAgain(key, value) ==
  /\ key \in DOMAIN items
  /\ MoveToFront(items[key])
  /\ element' = [element EXCEPT ![items[key]].value = value]
  /\ UNCHANGED items

(* line 47                                                                  *)
Full == Len(order) >= Capacity

(* lines 49-52: the key of the entry at the back                            *)
Evicted == IF Full THEN {element[Last(order)].key} ELSE {}

(* lines 49-51 and 57: the list without its back, if full, and with e       *)
Pushed(e) == <<e>> \o (IF Full THEN Front(order) ELSE order)

(* line 57: the address of a new element is one no element has             *)
NewElement == CHOOSE e \in 1..Len(order) + 1 : e \notin Range(order)

(* lines 47-58: evict if full, then a new element at the front              *)
PutNew(key, value) ==
  /\ key \notin DOMAIN items
  /\ order' = Pushed(NewElement)
  /\ element' = [e \in Range(order') |->
                   IF e = NewElement THEN [key |-> key, value |-> value]
                   ELSE element[e]]
  /\ items' = [k \in (DOMAIN items \ Evicted) \cup {key} |->
                 IF k = key THEN NewElement ELSE items[k]]

(* lines 40-59                                                              *)
Put(key, value) ==
  /\ PutAgain(key, value) \/ PutNew(key, value)
  /\ Use(key)
  /\ lastPut' = [k \in DOMAIN lastPut \cup {key} |->
                   IF k = key THEN value ELSE lastPut[k]]

(* lines 19-25                                                              *)
Init ==
  /\ items = <<>> /\ order = <<>> /\ element = <<>>
  /\ recent = <<>> /\ lastPut = <<>>

Next ==
  \E key \in Keys :
    \/ GetHit(key) \/ GetMiss(key)
    \/ \E value \in Values : Put(key, value)

Spec == Init /\ [][Next]_vars

-----------------------------------------------------------------------------
Least(a, b) == IF a < b THEN a ELSE b

(* The map and the list are two views of one cache: every key leads to an   *)
(* element of the list that holds it, different keys to different elements, *)
(* and no element is left that the map has forgotten.  An eviction that     *)
(* took one key from the list and another from the map would break it.      *)
MapMatchesList ==
  /\ \A k \in DOMAIN items :
       items[k] \in Range(order) /\ element[items[k]].key = k
  /\ Len(order) = Cardinality(DOMAIN items)

(* The cache holds the Capacity keys used last, most recent first, and      *)
(* under each the value put last: what it has forgotten is always the key   *)
(* used longest ago, a Get counting as a use only when it found the key.    *)
HoldsMostRecent ==
  LET n == Least(Capacity, Len(recent))
  IN  [i \in DOMAIN order |-> element[order[i]]]
        = [i \in 1..n |-> [key |-> recent[i], value |-> lastPut[recent[i]]]]

(* Both: the map and the list together are a list of the last uses.         *)
KeepsLastUsed == MapMatchesList /\ HoldsMostRecent
=============================================================================
