------------------------------ MODULE ChatServer ------------------------------
(***************************************************************************)
(* ChatServer of 19-grpc/exercises/medium/01-chat-service/solution/        *)
(* main.go: Send, Subscribe and the unsubscribe functions, called by any   *)
(* goroutines.  Send holds the read lock while it goes over the map, so    *)
(* Sends overlap each other and nothing else; what happens under the write *)
(* lock is one step.  A message is the number of its Send.                 *)
(***************************************************************************)
EXTENDS Naturals, Sequences, SequencesExt

CONSTANTS
  Users, Senders,
  MaxCalls,  \* bound: the number of Subscribes
  Cap,       \* the capacity of a channel, 100 in line 39
  MaxSends   \* bound: the number of Sends

VARIABLES
  subscribers, \* user -> the Subscribe whose channel it has, or NoCall
  user,        \* the users of the Subscribes so far
  ch,          \* call -> the messages in its channel
  closed,      \* the calls whose channels are closed
  sends,       \* the number of Sends begun
  sending,     \* sender -> its message, or 0
  todo,        \* sender -> the channels its loop has yet to visit
  panic,       \* the runtime panic that ended the program, or "none"
  after,       \* history: message -> the ones whose Sends had returned before
  returned,    \* history: the messages whose Sends have returned
  got,         \* history: call -> what has been received from its channel
  dropped,     \* history: call -> the messages dropped at its full channel
  since        \* history: call -> the Sends begun and the calls closed before it

Calls == 1..MaxCalls
NoCall == 0

vars == <<subscribers, user, ch, closed, sends, sending, todo, panic, after,
          returned, got, dropped, since>>

sendVars == <<sends, sending, todo, after, returned, dropped>>

Init ==
  /\ subscribers = [u \in Users |-> NoCall] /\ user = <<>>
  /\ ch = [c \in Calls |-> <<>>] /\ got = ch /\ closed = {}
  /\ sends = 0 /\ after = <<>> /\ returned = {} /\ panic = "none"
  /\ sending = [s \in Senders |-> 0] /\ todo = [s \in Senders |-> {}]
  /\ dropped = [c \in Calls |-> {}]
  /\ since = [c \in Calls |-> [sent |-> 0, gone |-> {}]]

(* Nobody holds the read lock.                                              *)
Unlocked == \A s \in Senders : sending[s] = 0

(* lines 26-29: the read lock, and the channels the loop will come to       *)
SendBegins(s) ==
  /\ sending[s] = 0 /\ sends < MaxSends
  /\ sends' = sends + 1
  /\ sending' = [sending EXCEPT ![s] = sends']
  /\ todo' = [todo EXCEPT ![s] = {subscribers[u] : u \in Users} \ {NoCall}]
  /\ after' = Append(after, returned)
  /\ UNCHANGED <<subscribers, user, ch, closed, panic, returned, got, dropped, since>>

Visit_EndsAtFull(s, c) ==
  /\ c \in todo[s]
  /\ IF Len(ch[c]) < Cap
       THEN /\ ch' = [ch EXCEPT ![c] = Append(@, sending[s])]
            /\ todo' = [todo EXCEPT ![s] = @ \ {c}]
            /\ UNCHANGED dropped
       ELSE /\ dropped' = [dropped EXCEPT ![c] = @ \cup {sending[s]}]
            /\ todo' = [todo EXCEPT ![s] = {}]
            /\ UNCHANGED ch
  /\ UNCHANGED <<subscribers, user, closed, sends, sending, panic, after, returned, got, since>>

(* lines 29-33: the channel takes the message or is full; a closed one      *)
(* panics                                                                   *)
Visit(s, c) ==
  /\ c \in todo[s]
  /\ todo' = [todo EXCEPT ![s] = @ \ {c}]
  /\ panic' = IF c \in closed THEN "send_on_closed" ELSE panic
  /\ IF Len(ch[c]) < Cap
       THEN ch' = [ch EXCEPT ![c] = Append(@, sending[s])] /\ UNCHANGED dropped
       ELSE dropped' = [dropped EXCEPT ![c] = @ \cup {sending[s]}] /\ UNCHANGED ch
  /\ UNCHANGED <<subscribers, user, closed, sends, sending, after, returned, got, since>>

(* lines 28 and 35                                                          *)
SendReturns(s) ==
  /\ sending[s] # 0 /\ todo[s] = {}
  /\ returned' = returned \cup {sending[s]}
  /\ sending' = [sending EXCEPT ![s] = 0]
  /\ UNCHANGED <<subscribers, user, ch, closed, sends, todo, panic, after, got, dropped, since>>

(* lines 38-42: an earlier channel of the user is no longer in the map      *)
Subscribe(u) ==
  /\ Len(user) < MaxCalls /\ Unlocked
  /\ user' = Append(user, u)
  /\ subscribers' = [subscribers EXCEPT ![u] = Len(user')]
  /\ since' = [since EXCEPT ![Len(user')] = [sent |-> sends, gone |-> closed]]
  /\ UNCHANGED <<ch, closed, panic, got, sendVars>>

(* lines 44-49: the entry of the user goes, even if a later Subscribe has   *)
(* set it; the second call of the function panics                           *)
Unsubscribe(c) ==
  /\ c \in DOMAIN user /\ Unlocked
  /\ subscribers' = [subscribers EXCEPT ![user[c]] = NoCall]
  /\ panic' = IF c \in closed THEN "close_of_closed" ELSE panic
  /\ closed' = closed \cup {c}
  /\ UNCHANGED <<user, ch, got, since, sendVars>>

(* The subscriber reads its channel (external).                             *)
Receive(c) ==
  /\ ch[c] # <<>>
  /\ got' = [got EXCEPT ![c] = Append(@, Head(ch[c]))]
  /\ ch' = [ch EXCEPT ![c] = Tail(@)]
  /\ UNCHANGED <<subscribers, user, closed, panic, since, sendVars>>

(* A panic in any goroutine ends the program: nothing runs after it.        *)
Next ==
  /\ panic = "none"
  /\ \/ \E s \in Senders : \/ SendBegins(s) \/ SendReturns(s)
                           \/ \E c \in Calls : Visit(s, c)
     \/ \E u \in Users : Subscribe(u)
     \/ \E c \in Calls : Unsubscribe(c) \/ Receive(c)

-----------------------------------------------------------------------------
(* A channel gets each message once and none after one whose Send began     *)
(* when its own had returned, whatever Sends overlap; and no Send ever      *)
(* comes to a closed channel, though unsubscribe closes what it reads.      *)
ChatInOrder ==
  /\ panic # "send_on_closed"
  /\ \A c \in Calls : LET all == got[c] \o ch[c] IN
       \A i, j \in DOMAIN all : i < j => all[i] # all[j] /\ all[j] \notin after[all[i]]

(* A subscriber whose user's other subscriptions had been cancelled before  *)
(* it came, and who has not cancelled, gets every message sent since, or    *)
(* its channel was full when the message came.  One whose user subscribes   *)
(* twice at a time may get nothing at all: line 46 removes the entry of the *)
(* later one.                                                               *)
ChatReachesAll ==
  \A c \in DOMAIN user \ closed :
    (\A d \in DOMAIN user \ {c} : user[d] = user[c] => d \in since[c].gone)
    => \A m \in returned : m > since[c].sent =>
         m \in dropped[c] \/ Contains(got[c] \o ch[c], m)

(* Both: what a subscriber gets is what was sent, but for a full channel.   *)
ChatDelivers == ChatInOrder /\ ChatReachesAll
=============================================================================
