------------------------------ MODULE UserService ------------------------------
(***************************************************************************)
(* UserService and the repository its tests put under it, of               *)
(* 11-testing-advanced/exercises/medium/01-mock-repository/solution/       *)
(* main.go.  No lock: one goroutine.  A test may begin with a user or an   *)
(* email already there (lines 106 and 154), and make the repository fail.  *)
(***************************************************************************)
EXTENDS Naturals, Sequences

CONSTANTS
  Names, Emails,  \* "" is one of each
  MaxCalls        \* bound: the calls that reach the repository

VARIABLES
  users,    \* Users: id -> [id, name, email]
  taken,    \* Emails
  nextID, calls, forceError,
  reply,    \* what the service returned last: a user or an error
  made      \* history: the users Create has returned

vars == <<users, taken, nextID, calls, forceError, reply, made>>

Seed == [id |-> 1, name |-> "seed", email |-> "seed"]

(* lines 66-72, and what the tests add                                      *)
Init ==
  /\ users \in {<<>>, <<Seed>>} /\ taken \in SUBSET (Emails \ {""})
  /\ nextID = 1 /\ calls = <<>> /\ forceError = FALSE
  /\ reply = "none" /\ made = {}

SetForceError ==
  /\ forceError' = ~forceError
  /\ UNCHANGED <<users, taken, nextID, calls, reply, made>>

Call(name) == Len(calls) < MaxCalls /\ calls' = Append(calls, name)

(* lines 76-83: what the repository answers                                 *)
FindUser(id) ==
  IF forceError THEN "forced" ELSE IF id \in DOMAIN users THEN users[id] ELSE "not_found"

(* lines 35-40 and 75; 0 stands for every id that is no id                  *)
GetByID(id) ==
  /\ IF id = 0 THEN reply' = "invalid" /\ UNCHANGED calls
     ELSE Call("GetByID") /\ reply' = FindUser(id)
  /\ UNCHANGED <<users, taken, nextID, forceError, made>>

(* lines 43-48 and 50-52, 87-93: what Create refuses changes nothing else   *)
CreateRefused(name, email) ==
  /\ IF name = "" \/ email = "" THEN reply' = "required" /\ UNCHANGED calls
     ELSE /\ forceError \/ email \in taken
          /\ Call("Create") /\ reply' = IF forceError THEN "forced" ELSE "duplicate"
  /\ UNCHANGED <<users, taken, nextID, forceError, made>>

Create_KeepsNextID(name, email) ==
  /\ name # "" /\ email # "" /\ ~forceError /\ email \notin taken /\ Call("Create")
  /\ LET u == [id |-> nextID, name |-> name, email |-> email]
     IN /\ users' = [id \in DOMAIN users \cup {nextID} |-> IF id = nextID THEN u ELSE users[id]]
        /\ reply' = u /\ made' = made \cup {u}
  /\ taken' = taken \cup {email}
  /\ UNCHANGED <<nextID, forceError>>

(* lines 49-53 and 94-99: a user that a test put at this id is overwritten  *)
Create(name, email) ==
  /\ name # "" /\ email # "" /\ ~forceError /\ email \notin taken /\ Call("Create")
  /\ LET u == [id |-> nextID, name |-> name, email |-> email]
     IN /\ users' = [id \in DOMAIN users \cup {nextID} |-> IF id = nextID THEN u ELSE users[id]]
        /\ reply' = u /\ made' = made \cup {u}
  /\ nextID' = nextID + 1
  /\ taken' = taken \cup {email}
  /\ UNCHANGED forceError

Next ==
  \/ SetForceError
  \/ \E id \in 0..(MaxCalls + 1) : GetByID(id)
  \/ \E n \in Names, e \in Emails : CreateRefused(n, e) \/ Create(n, e)

-----------------------------------------------------------------------------
(* Whatever calls come between, failed ones too: a user that Create has     *)
(* returned is what GetByID finds under its id, no two of them share an id  *)
(* or an email, and nothing is there that was neither created nor seeded.   *)
UsersKept ==
  /\ \A u \in made : users[u.id] = u
  /\ \A u, v \in made : u # v => u.id # v.id /\ u.email # v.email
  /\ {users[id] : id \in DOMAIN users} \subseteq made \cup {Seed}
=============================================================================
