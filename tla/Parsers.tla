-------------------------------- MODULE Parsers --------------------------------
(***************************************************************************)
(* The functions that read what somebody wrote: ParseCommit, ValidateJWT   *)
(* behind AuthMiddleware, and Validate.  Texts are sequences of digits or  *)
(* of their parts; signing (HMAC, external) gives different signatures for *)
(* different inputs and secrets.                                           *)
(***************************************************************************)
EXTENDS Algorithms

(* 29-git/exercises/easy/01-commit-parser, lines 22-59.  A message is what  *)
(* stands before the first ": ", and whether anything follows it.  0 is a   *)
(* valid type or any other word, 1 is "(", 2 is ")" and 3 is "!".           *)
NotParsed == [err |-> "ErrInvalidFormat", scope |-> <<>>, breaking |-> FALSE]

ParseCommit_CloseLast(prefix, hasDesc) ==
  LET breaking == prefix # <<>> /\ Last(prefix) = 3
      rest == IF breaking THEN Front(prefix) ELSE prefix
      open == Index(rest, 1)
      close == SelectLastInSeq(rest, LAMBDA t : t = 2)
      type == IF open > 0 THEN SubSeq(rest, 1, open - 1) ELSE rest
      scope == IF open > 0 THEN SubSeq(rest, open + 1, close - 1) ELSE <<>>
  IN IF ~hasDesc \/ (open > 0 /\ close < open) \/ type # <<0>> THEN NotParsed
     ELSE [err |-> "nil", scope |-> scope, breaking |-> breaking]

ParseCommit(prefix, hasDesc) ==
  LET breaking == prefix # <<>> /\ Last(prefix) = 3
      rest == IF breaking THEN Front(prefix) ELSE prefix
      open == Index(rest, 1)
      close == Index(rest, 2)
      type == IF open > 0 THEN SubSeq(rest, 1, open - 1) ELSE rest
      scope == IF open > 0 THEN SubSeq(rest, open + 1, close - 1) ELSE <<>>
  IN IF ~hasDesc \/ (open > 0 /\ close < open) \/ type # <<0>> THEN NotParsed
     ELSE [err |-> "nil", scope |-> scope, breaking |-> breaking]

(* The form of task.md: type(scope)!: description.                          *)
Format(info) ==
  <<0>> \o (IF info.scope = <<>> THEN <<>> ELSE <<1>> \o info.scope \o <<2>>)
    \o (IF info.breaking THEN <<3>> ELSE <<>>)

(* A message written from its parts is parsed to the same parts, whatever   *)
(* words, open brackets and exclamation marks the scope has; what a ")" in  *)
(* a scope does shows the second part: the scope ends at the first one and  *)
(* the rest is dropped.                                                     *)
ParsesBack ==
  \A breaking \in BOOLEAN :
    LET info == [scope |-> Flat, breaking |-> breaking]
        cut == Index(Flat, 2)
    IN ParseCommit(Format(info), TRUE)
         = [err |-> "nil", scope |-> IF cut = 0 THEN Flat ELSE SubSeq(Flat, 1, cut - 1),
            breaking |-> breaking]

(* Of all texts, with a "!" behind them or not, those are accepted that are *)
(* a type alone or begin with a type and a "(" and have a ")" somewhere,    *)
(* and none without a description.                                          *)
AcceptsForm ==
  \A breaking \in BOOLEAN :
    LET prefix == Flat \o (IF breaking THEN <<3>> ELSE <<>>)
        form == Flat = <<0>> \/ (Len(Flat) > 2 /\ Flat[1] = 0 /\ Flat[2] = 1 /\ 2 \in ToSet(Flat))
    IN /\ ParseCommit(prefix, FALSE).err # "nil"
       /\ (breaking \/ Flat = <<>> \/ Last(Flat) # 3) =>
            (ParseCommit(prefix, TRUE).err = "nil" <=> form)

-----------------------------------------------------------------------------
(* 24-security/exercises/medium/01-jwt-auth.  A token is its parts, which   *)
(* have no dot of their own in base64.  A part is a text: what it decodes   *)
(* to, <<>> if nothing, and how it is spelled, for RawURLEncoding takes     *)
(* texts that differ in their last bits, or by a line break, for the same.  *)
Spellings == {"plain", "other"}

(* lines 29-31 and 33-35                                                    *)
b64Encode(data) == <<data, "plain">>
b64Decode(text) == text[1]

sign(data, secret) == <<data, secret>>

(* lines 43-60                                                              *)
GenerateJWT(userID, secret, ttl, now) ==
  LET sigInput == <<b64Encode("header"), b64Encode(<<userID, now + ttl>>)>>
  IN Append(sigInput, b64Encode(sign(sigInput, secret)))

ValidateJWT_HeaderDecides(parts, secret, now) ==
  IF Len(parts) # 3 THEN [err |-> "ErrInvalidToken"]
  ELSE LET claims == b64Decode(parts[2])
           signed == b64Decode(parts[1]) = "header"
       IN IF (signed /\ b64Decode(parts[3]) # sign(SubSeq(parts, 1, 2), secret)) \/ claims = <<>>
            THEN [err |-> "ErrInvalidToken"]
          ELSE IF now > claims[2] THEN [err |-> "ErrExpiredToken"]
          ELSE [err |-> "nil", claims |-> claims]

(* lines 62-90: the signature of the two texts as they are first, then what *)
(* the payload says; now = exp is in time.  Nobody looks into the header.   *)
ValidateJWT(parts, secret, now) ==
  IF Len(parts) # 3 THEN [err |-> "ErrInvalidToken"]
  ELSE LET claims == b64Decode(parts[2])
       IN IF b64Decode(parts[3]) # sign(SubSeq(parts, 1, 2), secret) \/ claims = <<>>
            THEN [err |-> "ErrInvalidToken"]
          ELSE IF now > claims[2] THEN [err |-> "ErrExpiredToken"]
          ELSE [err |-> "nil", claims |-> claims]

(* lines 92-112: the next handler finds the claims in its context, or the   *)
(* request does not get to it                                               *)
AuthMiddleware(bearer, parts, secret, now) ==
  LET valid == ValidateJWT(parts, secret, now)
  IN IF ~bearer \/ valid.err # "nil" THEN [code |-> 401] ELSE [code |-> 200, claims |-> valid.claims]

(* What may stand in the three parts of a token somebody presents.          *)
Headers == {"header", "other"} \X Spellings
Payloads == ((Digits \X Digits) \cup {<<>>}) \X Spellings

(* Signatures of what is presented there are by other secrets than the      *)
(* server's, and the one that was issued.                                   *)
Signatures(two, issued, secret) ==
  {<<>>, b64Decode(issued)} \cup {sign(two, key) : key \in Digits \ {secret}}

(* With one token issued, what opens the handler, to the user it was issued *)
(* to and until the instant it expires, is that token and no other: not one *)
(* with another header, user or expiry, however spelled, signed with        *)
(* another secret or with the signature that was issued, nor one without    *)
(* "Bearer " or with another number of parts.  The signature alone may be   *)
(* spelled otherwise.                                                       *)
TokensReadBack ==
  Len(list) = 2 =>
    LET user == list[1][1]  secret == list[1][2]  ttl == list[2][1]  now == list[2][2]
        token == GenerateJWT(user, secret, ttl, 0)
    IN /\ \A header \in Headers, payload \in Payloads, spelling \in Spellings :
            LET two == <<header, payload>>
            IN \A sig \in Signatures(two, token[3], secret) :
                 AuthMiddleware(TRUE, Append(two, <<sig, spelling>>), secret, now)
                   = IF /\ header = token[1] /\ payload = token[2]
                        /\ sig = b64Decode(token[3]) /\ now <= ttl
                       THEN [code |-> 200, claims |-> <<user, ttl>>]
                     ELSE [code |-> 401]
       /\ \A other \in {Tail(token), Append(token, token[3])} :
            AuthMiddleware(TRUE, other, secret, now) = [code |-> 401]
       /\ AuthMiddleware(FALSE, token, secret, now) = [code |-> 401]

-----------------------------------------------------------------------------
(* 14-reflect/exercises/medium/01-struct-validator.  A field has a kind, a  *)
(* value (of a string, its length) and the rules of its tag.                *)

(* lines 32-80: what one rule says of a field; min and max of a kind other  *)
(* than string and int say nothing                                          *)
Breaks(field, rule) ==
  LET bounded == field.kind \in {"string", "int"}
  IN \/ rule.tag = "required" /\ field.value = 0
     \/ rule.tag = "min" /\ bounded /\ field.value < rule.n
     \/ rule.tag = "max" /\ bounded /\ field.value > rule.n

(* lines 31-80: the rules of a field, one after the other                   *)
Complain(errs, i, field) ==
  LET after[k \in 0..Len(field.rules)] ==
        IF k = 0 THEN errs
        ELSE IF Breaks(field, field.rules[k]) THEN Append(after[k - 1], <<i, field.rules[k].tag>>)
        ELSE after[k - 1]
  IN after[Len(field.rules)]

(* lines 17-83: field by field                                              *)
Validate(fields) ==
  LET errs[i \in 0..Len(fields)] == IF i = 0 THEN <<>> ELSE Complain(errs[i - 1], i, fields[i])
  IN errs[Len(fields)]

Tags == {"required", "min", "max"}

(* The rules of a tag in any order, none twice.                             *)
RuleOrders == {r \in UNION {[1..m -> Tags] : m \in 0..3} : IsInjective(r)}

(* The fields of the list: the i-th pair is its value and its minimum.      *)
KindOf(i) == <<"string", "int", "bool">>[1 + ((i - 1) % 3)]
ValueOf(i) == IF KindOf(i) = "int" THEN list[i][1] - 1 ELSE list[i][1]
BoundOf(i, most) == [required |-> 0, min |-> list[i][2] - 1, max |-> most]

RulesOf(i, order, most) ==
  [q \in DOMAIN order |-> [tag |-> order[q], n |-> BoundOf(i, most)[order[q]]]]

FieldOf(i, order, most) ==
  [kind |-> KindOf(i), value |-> ValueOf(i), rules |-> RulesOf(i, order, most)]

(* The values these rules leave to the i-th field.                          *)
Bounded(i, tag, order) == tag \in ToSet(order) /\ KindOf(i) # "bool"

LeftOf(i, order, most) ==
  ((IF Bounded(i, "min", order) THEN BoundOf(i, most).min ELSE ValueOf(i))
     ..(IF Bounded(i, "max", order) THEN BoundOf(i, most).max ELSE ValueOf(i)))
   \ (IF "required" \in ToSet(order) THEN {0} ELSE {})

(* One error stands ahead of another: it is of an earlier field, or of an   *)
(* earlier rule of it.                                                      *)
StandsAhead(d, e, order) ==
  d[1] < e[1] \/ (d[1] = e[1] /\ Index(order, d[2]) < Index(order, e[2]))

(* Validate has nothing to say of a field if, and only if, its value is one *)
(* of those its rules leave, whatever rules it has and in whatever order;   *)
(* it names fields in order, and the rules of a field in theirs, none       *)
(* twice.  A required int that is 0 is refused even where its bounds allow  *)
(* it.                                                                      *)
JudgesRight ==
  \A order \in RuleOrders, most \in Digits :
    LET errs == Validate([i \in DOMAIN list |-> FieldOf(i, order, most)])
    IN /\ {e[1] : e \in ToSet(errs)}
            = {i \in DOMAIN list : ValueOf(i) \notin LeftOf(i, order, most)}
       /\ \A k \in 2..Len(errs) : StandsAhead(errs[k - 1], errs[k], order)

(* All of them.                                                             *)
ReadsRight == ParsesBack /\ AcceptsForm /\ TokensReadBack /\ JudgesRight
=============================================================================
