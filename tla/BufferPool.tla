------------------------------ MODULE BufferPool ------------------------------
(***************************************************************************)
(* ProcessWithPool of 23-performance/exercises/medium/01-pool-benchmark/   *)
(* solution/main.go, called by many goroutines: the buffers of a sync.Pool *)
(* go from call to call.  Input that is no JSON object makes the call      *)
(* panic at line 28; its caller may recover.                               *)
(***************************************************************************)
EXTENDS Naturals, Sequences

CONSTANTS
  Callers,   \* goroutines, each calls again and again
  Inputs,    \* JSON objects
  Buffers,   \* bound: the buffers New may have made
  NoBuffer

VARIABLES
  fresh,   \* buffers not made yet
  pool,    \* buffers in bufPool
  content, \* buffer -> what has been written to it since its last Reset
  call,    \* each caller: "out", "got", "encoded", "copied" or "panicked"
  input,   \* its argument: one of Inputs or "invalid"
  buf,     \* its buffer
  result   \* its result, or <<>>

vars == <<fresh, pool, content, call, input, buf, result>>

Init ==
  /\ fresh = Buffers /\ pool = {} /\ content = [b \in Buffers |-> <<>>]
  /\ call = [c \in Callers |-> "out"] /\ input = [c \in Callers |-> "invalid"]
  /\ buf = [c \in Callers |-> NoBuffer] /\ result = [c \in Callers |-> <<>>]

(* line 19: Get takes any buffer of the pool, or calls New                  *)
Get(c) ==
  /\ call[c] = "out" /\ call' = [call EXCEPT ![c] = "got"]
  /\ \E d \in Inputs \cup {"invalid"} : input' = [input EXCEPT ![c] = d]
  /\ \E b \in pool \cup fresh :
       /\ buf' = [buf EXCEPT ![c] = b]
       /\ pool' = pool \ {b} /\ fresh' = fresh \ {b}
  /\ result' = [result EXCEPT ![c] = <<>>]
  /\ UNCHANGED content

(* lines 25-29                                                              *)
Encode(c) ==
  /\ call[c] = "got" /\ input[c] # "invalid"
  /\ content' = [content EXCEPT ![buf[c]] = <<input[c]>>]
  /\ call' = [call EXCEPT ![c] = "encoded"]
  /\ UNCHANGED <<fresh, pool, input, buf, result>>

(* line 28: a write to a nil map                                            *)
Panic(c) ==
  /\ call[c] = "got" /\ input[c] = "invalid"
  /\ content' = [content EXCEPT ![buf[c]] = <<>>]
  /\ call' = [call EXCEPT ![c] = "panicked"]
  /\ UNCHANGED <<fresh, pool, input, buf, result>>

(* lines 30-32                                                              *)
Copy(c) ==
  /\ call[c] = "encoded"
  /\ result' = [result EXCEPT ![c] = content[buf[c]]]
  /\ call' = [call EXCEPT ![c] = "copied"]
  /\ UNCHANGED <<fresh, pool, content, input, buf>>

Put_Early(c) ==
  /\ call[c] \in {"encoded", "copied", "panicked"}
  /\ pool' = pool \cup {buf[c]}
  /\ IF call[c] = "encoded" THEN UNCHANGED <<call, buf>>
     ELSE call' = [call EXCEPT ![c] = "out"] /\ buf' = [buf EXCEPT ![c] = NoBuffer]
  /\ UNCHANGED <<fresh, content, input, result>>

(* line 20: deferred, so after a panic too                                  *)
Put(c) ==
  /\ call[c] \in {"copied", "panicked"}
  /\ pool' = pool \cup {buf[c]}
  /\ call' = [call EXCEPT ![c] = "out"]
  /\ buf' = [buf EXCEPT ![c] = NoBuffer]
  /\ UNCHANGED <<fresh, content, input, result>>

(* The garbage collector empties the pool (external: sync.Pool).            *)
Collect ==
  /\ pool # {} /\ pool' = {} /\ fresh' = fresh \cup pool
  /\ content' = [b \in Buffers |-> IF b \in pool THEN <<>> ELSE content[b]]
  /\ UNCHANGED <<call, input, buf, result>>

Next == Collect \/ \E c \in Callers : Get(c) \/ Encode(c) \/ Panic(c) \/ Copy(c) \/ Put(c)

Spec == Init /\ [][Next]_vars

-----------------------------------------------------------------------------
(* No two calls have a buffer in common, none has one that is in the pool,  *)
(* and what a call returns is its own input, all of it and nothing of what  *)
(* was in the buffer before.                                                *)
OwnBuffer ==
  /\ \A c \in Callers : buf[c] # NoBuffer =>
       buf[c] \notin pool /\ \A d \in Callers \ {c} : buf[d] # buf[c]
  /\ \A c \in Callers : call[c] = "copied" => result[c] = <<input[c]>>
=============================================================================
