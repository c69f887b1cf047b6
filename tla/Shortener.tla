------------------------------ MODULE Shortener ------------------------------
(***************************************************************************)
(* The in-memory URL shortener of 17-system-design/exercises/medium/       *)
(* 01-url-shortener/solution/main.go.  Shorten looks the URL up under the  *)
(* read lock, lets go of it and looks again under the write lock before it *)
(* adds a code; other callers run between the two.                         *)
(***************************************************************************)
EXTENDS Naturals, Sequences, FiniteSets

CONSTANTS
  Callers,  \* goroutines that call Shorten
  Urls,     \* the long URLs they pass
  NoUrl,    \* what a caller between two calls asks for
  Base      \* line 32: the number of digits, 62 in the code

VARIABLES
  counter,    \* Shortener.counter: the last id given
  long2code,  \* Shortener.long2code
  code2long,  \* Shortener.code2long
  missed,     \* the URL each caller did not find under the read lock
  told        \* history: every answer <<url, code>> a caller was given

vars == <<counter, long2code, code2long, missed, told>>

(* lines 31-35: the digits of n, most significant first                     *)
digits[n \in Nat] ==
  IF n = 0 THEN <<>> ELSE Append(digits[n \div Base], n % Base)

(* lines 28-30: zero is one digit, not none                                 *)
toBase62(n) == IF n = 0 THEN <<0>> ELSE digits[n]

-----------------------------------------------------------------------------
(* The map m once m[key] = value has run.                                   *)
With(m, key, value) == [k \in DOMAIN m \cup {key} |-> IF k = key THEN value ELSE m[k]]

Tell(url, code) == told' = told \cup {<<url, code>>}

(* lines 40-45: a URL with a code is answered under the read lock           *)
ShortenFinds(g, url) ==
  /\ missed[g] = NoUrl /\ url \in DOMAIN long2code
  /\ Tell(url, long2code[url])
  /\ UNCHANGED <<counter, long2code, code2long, missed>>

(* lines 40-45: the read lock is given back without an answer               *)
ShortenMisses(g, url) ==
  /\ missed[g] = NoUrl /\ url \notin DOMAIN long2code
  /\ missed' = [missed EXCEPT ![g] = url]
  /\ UNCHANGED <<counter, long2code, code2long, told>>

(* lines 50-52: somebody else was faster                                    *)
FindsAfterAll(g) ==
  /\ missed[g] \in DOMAIN long2code
  /\ Tell(missed[g], long2code[missed[g]])
  /\ UNCHANGED <<counter, long2code, code2long>>

(* line 54                                                                  *)
NextCode == toBase62(counter + 1)

Add_Unchecked(g) ==
  /\ counter' = counter + 1
  /\ long2code' = With(long2code, missed[g], NextCode)
  /\ code2long' = With(code2long, NextCode, missed[g])
  /\ Tell(missed[g], NextCode)

(* lines 54-58: a new id, its code, both directions                         *)
Add(g) ==
  /\ missed[g] \notin DOMAIN long2code
  /\ counter' = counter + 1
  /\ long2code' = With(long2code, missed[g], NextCode)
  /\ code2long' = With(code2long, NextCode, missed[g])
  /\ Tell(missed[g], NextCode)

(* lines 47-58, under the write lock                                        *)
ShortenLocked(g) ==
  /\ missed[g] # NoUrl
  /\ FindsAfterAll(g) \/ Add(g)
  /\ missed' = [missed EXCEPT ![g] = NoUrl]

(* lines 61-68: the URL of a code, or none; it changes nothing              *)
Resolve(code) ==
  IF code \in DOMAIN code2long THEN {code2long[code]} ELSE {}

(* lines 20-25                                                              *)
Init ==
  /\ counter = 0
  /\ long2code = <<>> /\ code2long = <<>>
  /\ missed = [g \in Callers |-> NoUrl]
  /\ told = {}

Next ==
  \E g \in Callers :
    \/ \E url \in Urls : ShortenFinds(g, url) \/ ShortenMisses(g, url)
    \/ ShortenLocked(g)

Spec == Init /\ [][Next]_vars

-----------------------------------------------------------------------------
(* task.md:8: one URL has one code, whoever asks and however the callers    *)
(* overlap, and no id is spent on a URL that has one.                       *)
OneCodeEach ==
  /\ \A a, b \in told : a[1] = b[1] => a[2] = b[2]
  /\ counter = Cardinality(DOMAIN long2code)

(* Whoever was told a code can resolve it at once and for ever, and gets    *)
(* the URL it was given for: the two maps stay inverse to each other.       *)
ResolvesBack ==
  /\ \A a \in told : Resolve(a[2]) = {a[1]}
  /\ Cardinality(DOMAIN code2long) = Cardinality(DOMAIN long2code)

(* Both: whatever callers race, URLs and codes belong together for ever.    *)
CodesForGood == OneCodeEach /\ ResolvesBack
=============================================================================
