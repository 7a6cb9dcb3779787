-------------------------- MODULE ReceivingProofs ---------------------------
(***************************************************************************)
(* For queues and streams of any size: tokens arrive in the order in which *)
(* they were sent, and all of them unless a step fails.  The argument: the *)
(* tokens of the queue are chained, each begins with the unit behind the   *)
(* last one of its predecessor, the first with the unit behind the last    *)
(* received, and the last ends with the last unit sent.  A step that ends  *)
(* with an error breaks the chain only in front of the first token.        *)
(***************************************************************************)
EXTENDS Receiving, TLAPS

After(token) == token.first + Units(token)

(* r: the last unit received; s: the last one sent; exact: nothing lost.   *)
Chain(l, r, s, exact) ==
  /\ l \in Lexer /\ r <= s
  /\ l.read_iterator <= l.write_iterator
  /\ l.read_iterator = l.write_iterator => (exact => r = s)
  /\ l.read_iterator < l.write_iterator =>
       /\ l.slots[l.read_iterator].first >= r + 1
       /\ exact => l.slots[l.read_iterator].first = r + 1
       /\ After(l.slots[l.write_iterator - 1]) = s + 1
  /\ \A i \in Slot : l.read_iterator <= i /\ i + 1 < l.write_iterator =>
       l.slots[i + 1].first = After(l.slots[i])
  /\ \A i \in Slot : l.read_iterator <= i /\ i < l.write_iterator =>
       After(l.slots[i]) <= s + 1

(* TERMINATION is the last token in the queue.                             *)
TerminationLast(l) ==
  \A i \in Slot : l.read_iterator <= i /\ i + 1 < l.write_iterator =>
    l.slots[i].id # "TERMINATION"

(* No TERMINATION in the queue: something may still be sent.               *)
Open(l) ==
  \A i \in Slot : l.read_iterator <= i /\ i < l.write_iterator =>
    l.slots[i].id # "TERMINATION"

IInv ==
  /\ TypeOK
  /\ Chain(lexer, received, sent, ~step_error)
  /\ TerminationLast(lexer)
  /\ phase \in {"matching", "action"} => Open(lexer) /\ lexer.read_iterator = 0
  /\ phase = "matching" => ~TokenQueue_is_full(lexer)
  /\ phase = "action" /\ burst = 0 => ~TokenQueue_is_full(lexer)
  /\ CompleteAtTermination

-----------------------------------------------------------------------------
LEMMA UnitsNat == ASSUME NEW t \in Token PROVE Units(t) \in Nat
BY RepetitionAssumption DEF Token, Units, Ids

LEMMA LexerFields ==
  ASSUME NEW l \in Lexer
  PROVE  /\ l.slots \in [Slot -> Token]
         /\ l.read_iterator \in Nat /\ l.write_iterator \in Nat
         /\ l.read_iterator \in Slot /\ l.write_iterator \in Slot
         /\ l.write_iterator <= Capacity /\ l.error_code \in Errors
BY CapacityAssumption DEF Lexer, Slot

(* Setting the error code leaves the queue alone.                          *)
LEMMA ErrorSane ==
  ASSUME NEW l, NEW r \in Nat, NEW s \in Nat, NEW e \in BOOLEAN,
         Chain(l, r, s, e), NEW code \in Errors,
         NEW k, k = [l EXCEPT !.error_code = code]
  PROVE  /\ Chain(k, r, s, e) /\ k.error_code = code
         /\ k.read_iterator = l.read_iterator
         /\ TerminationLast(l) => TerminationLast(k)
         /\ Open(l) => Open(k)
         /\ TokenQueue_is_full(k) <=> TokenQueue_is_full(l)
         /\ TokenQueue_is_empty(k) <=> TokenQueue_is_empty(l)
BY DEF Chain, TerminationLast, Open, Lexer, TokenQueue_is_full, TokenQueue_is_empty

(* What is written to the slot at the write iterator does not matter yet.  *)
LEMMA WriteSane ==
  ASSUME NEW l, NEW r \in Nat, NEW s \in Nat, NEW e \in BOOLEAN,
         Chain(l, r, s, e), Open(l), NEW t \in Token,
         NEW k, k = [l EXCEPT !.slots[l.write_iterator] = t]
  PROVE  /\ Chain(k, r, s, e) /\ Open(k) /\ k.error_code = l.error_code
         /\ k.read_iterator = l.read_iterator /\ k.write_iterator = l.write_iterator
         /\ k.slots[k.write_iterator] = t
PROOF
<1>1. l \in Lexer /\ l.write_iterator \in Slot /\ l.read_iterator \in Slot
  BY LexerFields DEF Chain
<1>2. /\ k \in Lexer /\ k.error_code = l.error_code
      /\ k.read_iterator = l.read_iterator /\ k.write_iterator = l.write_iterator
      /\ k.slots \in [Slot -> Token]
      /\ \A i \in Slot : k.slots[i] = IF i = l.write_iterator THEN t ELSE l.slots[i]
  BY <1>1 DEF Lexer
<1>3. l.read_iterator < l.write_iterator => l.write_iterator - 1 \in Slot
  BY <1>1, CapacityAssumption DEF Slot
<1>4. \A i \in Slot : i + 1 < l.write_iterator => i + 1 \in Slot
  BY <1>1, CapacityAssumption DEF Slot
<1>5. Open(k)
  BY <1>1, <1>2, CapacityAssumption DEF Open, Slot
<1>6. l.read_iterator < l.write_iterator =>
        /\ k.slots[k.read_iterator] = l.slots[l.read_iterator]
        /\ k.slots[k.write_iterator - 1] = l.slots[l.write_iterator - 1]
  BY <1>1, <1>2, <1>3, CapacityAssumption DEF Slot
<1>7. \A i \in Slot : l.read_iterator <= i /\ i + 1 < l.write_iterator =>
        k.slots[i + 1] = l.slots[i + 1] /\ k.slots[i] = l.slots[i]
  BY <1>1, <1>2, <1>4, CapacityAssumption DEF Slot
<1>8. \A i \in Slot : l.read_iterator <= i /\ i < l.write_iterator =>
        k.slots[i] = l.slots[i]
  BY <1>1, <1>2, CapacityAssumption DEF Slot
<1> QED
  BY <1>1, <1>2, <1>5, <1>6, <1>7, <1>8, CapacityAssumption DEF Chain

(* The token that a push leaves in the slot at the write iterator.         *)
Pushed(l, id, unit) == [l.slots[l.write_iterator] EXCEPT !.id = id, !.first = unit]

(* k comes from l by a send of u units: the queue is full, or they are     *)
(* queued.                                                                 *)
Queued(l, k, r, s, e, id, u) ==
  /\ k.read_iterator = l.read_iterator
  /\ TokenQueue_is_full(l) =>
       Chain(k, r, s, e) /\ Open(k) /\ k.error_code = "QueueOverflow"
  /\ ~TokenQueue_is_full(l) =>
       /\ Chain(k, r, s + u, e)
       /\ TerminationLast(k) /\ (id # "TERMINATION" => Open(k))
       /\ k.error_code = l.error_code /\ ~TokenQueue_is_empty(k)

(* A push extends the chain, or finds the queue full and leaves it.        *)
LEMMA PushCoreSane ==
  ASSUME NEW l, NEW r \in Nat, NEW s \in Nat, NEW e \in BOOLEAN,
         Chain(l, r, s, e), Open(l), NEW id \in Ids,
         NEW k, k = TokenQueue_push_core(l, id, s + 1)
  PROVE  Queued(l, k, r, s, e, id, Units(Pushed(l, id, s + 1)))
PROOF
<1>1. /\ l \in Lexer /\ l.slots \in [Slot -> Token] /\ l.error_code \in Errors
      /\ l.write_iterator \in Slot /\ l.read_iterator \in Slot
  BY LexerFields DEF Chain
<1>2. CASE TokenQueue_is_full(l)
  <2>1. k = [l EXCEPT !.error_code = "QueueOverflow"]
    BY <1>2 DEF TokenQueue_push_core
  <2>2. Chain(k, r, s, e) /\ Open(k) /\ k.error_code = "QueueOverflow"
    BY <2>1, ErrorSane DEF Errors
  <2>3. k.read_iterator = l.read_iterator
    BY <1>1, <2>1 DEF Lexer
  <2> QED BY <1>2, <2>2, <2>3 DEF Queued
<1>3. CASE ~TokenQueue_is_full(l)
  <2> DEFINE t == Pushed(l, id, s + 1)
             w == l.write_iterator
             m == [l EXCEPT !.slots[l.write_iterator] = t]
  <2>1. t \in Token /\ t.first = s + 1 /\ t.id = id
    <3>1. l.slots[w] \in Token /\ s + 1 \in Nat
      BY <1>1
    <3> QED BY <3>1 DEF Pushed, Token
  <2>2. k = [l EXCEPT !.slots[l.write_iterator].id = id,
                      !.slots[l.write_iterator].first = s + 1,
                      !.write_iterator = l.write_iterator + 1]
    BY <1>3 DEF TokenQueue_push_core
  <2>3. Chain(m, r, s, e) /\ Open(m) /\ m \in Lexer
    <3> HIDE DEF t
    <3>1. Chain(m, r, s, e) /\ Open(m)
      BY <2>1, WriteSane
    <3> QED BY <3>1 DEF Chain
  <2>4. w + 1 \in Slot /\ w < Capacity
    BY <1>1, <1>3, CapacityAssumption DEF TokenQueue_is_full, Slot
  <2>5. /\ k \in Lexer /\ k.error_code = l.error_code
        /\ k.read_iterator = l.read_iterator /\ k.write_iterator = w + 1
        /\ k.slots \in [Slot -> Token]
        /\ \A i \in Slot : k.slots[i] = IF i = w THEN t ELSE l.slots[i]
    <3>1. k = [l EXCEPT !.slots = [l.slots EXCEPT ![w] = t], !.write_iterator = w + 1]
      BY <1>1, <2>2 DEF Lexer, Pushed
    <3> HIDE DEF t
    <3>2. /\ k.slots = [l.slots EXCEPT ![w] = t] /\ k.write_iterator = w + 1
          /\ k.read_iterator = l.read_iterator /\ k.error_code = l.error_code
      BY <1>1, <3>1 DEF Lexer
    <3>3. /\ k.slots \in [Slot -> Token]
          /\ \A i \in Slot : k.slots[i] = IF i = w THEN t ELSE l.slots[i]
      BY <1>1, <2>1, <3>2
    <3>4. k \in Lexer
      BY <1>1, <2>4, <3>1, <3>2, <3>3 DEF Lexer
    <3> QED BY <3>2, <3>3, <3>4
  <2>6. Units(t) \in Nat /\ After(t) = s + Units(t) + 1
    BY <2>1, UnitsNat DEF After
  <2> HIDE DEF t
  <2>7. Open(k) \/ id = "TERMINATION"
    BY <1>1, <2>1, <2>5, CapacityAssumption DEF Open, Slot
  <2>8. TerminationLast(k)
    <3>1. ASSUME NEW i \in Slot, k.read_iterator <= i, i + 1 < k.write_iterator
          PROVE  k.slots[i].id # "TERMINATION"
      <4>1. w \in Nat /\ i \in Nat
        BY <1>1, CapacityAssumption DEF Slot
      <4>2. i < w /\ i # w /\ l.read_iterator <= i
        BY <2>5, <3>1, <4>1
      <4>3. k.slots[i] = l.slots[i]
        BY <2>5, <4>2
      <4> QED BY <4>2, <4>3 DEF Open
    <3> QED BY <3>1 DEF TerminationLast
  <2>9. k.slots[k.write_iterator - 1] = t
    BY <1>1, <2>5, CapacityAssumption DEF Slot
  <2>10. k.slots[k.read_iterator].first >= r + 1 /\ (e => k.slots[k.read_iterator].first = r + 1)
    <3>1. CASE l.read_iterator = w
      BY <1>1, <2>1, <2>5, <3>1, CapacityAssumption DEF Chain, Slot
    <3>2. CASE l.read_iterator # w
      BY <1>1, <2>5, <3>2, CapacityAssumption DEF Chain, Slot
    <3> QED BY <3>1, <3>2
  <2>11. ASSUME NEW i \in Slot, k.read_iterator <= i, i + 1 < k.write_iterator
         PROVE  k.slots[i + 1].first = After(k.slots[i])
    <3>1. i + 1 \in Slot /\ i # w /\ i + 1 <= w
      BY <1>1, <2>4, <2>5, <2>11, CapacityAssumption DEF Slot
    <3>2. CASE i + 1 = w
      <4>1. i = l.write_iterator - 1 /\ l.read_iterator < l.write_iterator
        BY <1>1, <2>5, <2>11, <3>2, CapacityAssumption DEF Slot
      <4>2. After(l.slots[i]) = s + 1
        BY <4>1 DEF Chain
      <4> QED BY <2>1, <2>5, <3>1, <3>2, <4>2
    <3>3. CASE i + 1 < w
      <4>1. l.read_iterator <= i /\ i + 1 < l.write_iterator
        BY <2>5, <2>11, <3>3
      <4>2. l.slots[i + 1].first = After(l.slots[i])
        BY <4>1 DEF Chain
      <4>3. k.slots[i + 1] = l.slots[i + 1]
        <5>1. i + 1 # w /\ i + 1 \in Slot
          BY <1>1, <3>1, <3>3, CapacityAssumption DEF Slot
        <5> QED BY <2>5, <5>1
      <4>4. k.slots[i] = l.slots[i]
        BY <2>5, <3>1
      <4> QED BY <4>2, <4>3, <4>4
    <3> QED BY <1>1, <3>1, <3>2, <3>3, CapacityAssumption DEF Slot
  <2>12. ASSUME NEW i \in Slot, k.read_iterator <= i, i < k.write_iterator
         PROVE  After(k.slots[i]) <= s + Units(t) + 1
    <3>1. CASE i = w
      BY <2>5, <2>6, <3>1
    <3>2. CASE i # w
      <4>1. l.read_iterator <= i /\ i < l.write_iterator /\ k.slots[i] = l.slots[i]
        BY <1>1, <2>5, <2>12, <3>2, CapacityAssumption DEF Slot
      <4>2. After(l.slots[i]) <= s + 1
        BY <4>1 DEF Chain
      <4>3. After(l.slots[i]) \in Nat
        BY <1>1, UnitsNat DEF After, Token
      <4> QED BY <2>6, <4>1, <4>2, <4>3
    <3> QED BY <3>1, <3>2
  <2>14. Chain(k, r, s + Units(t), e)
    <3>1. r <= s + Units(t) /\ l.read_iterator <= l.write_iterator
      BY <2>6 DEF Chain
    <3>2. /\ k.read_iterator < k.write_iterator /\ r <= s + Units(t)
          /\ After(k.slots[k.write_iterator - 1]) = s + Units(t) + 1
      BY <1>1, <2>5, <2>6, <2>9, <3>1, CapacityAssumption DEF Slot
    <3>3. k.read_iterator <= k.write_iterator /\ k.read_iterator # k.write_iterator
      BY <1>1, <2>5, <3>2, CapacityAssumption DEF Slot
    <3> QED BY <2>5, <2>10, <2>11, <2>12, <3>2, <3>3 DEF Chain
  <2>13. ~TokenQueue_is_empty(k)
    BY <1>1, <2>5, CapacityAssumption DEF TokenQueue_is_empty, Chain, Slot
  <2> QED BY <1>3, <2>5, <2>7, <2>8, <2>13, <2>14 DEF t, Queued
<1> QED BY <1>2, <1>3

(* A push after something has been written to the slot.                    *)
LEMMA WrittenPushSane ==
  ASSUME NEW l, NEW r \in Nat, NEW s \in Nat, NEW e \in BOOLEAN,
         Chain(l, r, s, e), Open(l), NEW id \in Ids, NEW t \in Token,
         NEW m, m = [l EXCEPT !.slots[l.write_iterator] = t]
  PROVE  Queued(l, TokenQueue_push_core(m, id, s + 1), r, s, e, id,
                CASE id = "TERMINATION" -> 0
                  [] id = "plain"       -> 1
                  [] id = "repeatable"  -> t.n)
PROOF
<1> DEFINE k == TokenQueue_push_core(m, id, s + 1)
<1>1. /\ Chain(m, r, s, e) /\ Open(m) /\ m.error_code = l.error_code
      /\ m.write_iterator = l.write_iterator /\ m.slots[m.write_iterator] = t
      /\ m.read_iterator = l.read_iterator
  <2>1. m = [l EXCEPT !.slots[l.write_iterator] = t] /\ Chain(l, r, s, e) /\ Open(l) /\ t \in Token
    OBVIOUS
  <2>2. Chain(m, r, s, e)
    BY <2>1, WriteSane
  <2>3. Open(m)
    BY <2>1, WriteSane
  <2>4. m.error_code = l.error_code
    BY <2>1, WriteSane
  <2>5. m.write_iterator = l.write_iterator
    BY <2>1, WriteSane
  <2>6. m.slots[m.write_iterator] = t
    BY <2>1, LexerFields DEF Chain, Lexer
  <2>7. m.read_iterator = l.read_iterator
    BY <2>1, WriteSane
  <2> QED BY <2>2, <2>3, <2>4, <2>5, <2>6, <2>7
<1>2. TokenQueue_is_full(m) <=> TokenQueue_is_full(l)
  BY <1>1 DEF TokenQueue_is_full
<1>3. Units(Pushed(m, id, s + 1)) = CASE id = "TERMINATION" -> 0
                                      [] id = "plain"       -> 1
                                      [] id = "repeatable"  -> t.n
  <2>1. Pushed(m, id, s + 1).id = id /\ Pushed(m, id, s + 1).n = t.n
    BY <1>1 DEF Pushed, Token
  <2> QED BY <2>1 DEF Units, Ids
<1>k. k = TokenQueue_push_core(m, id, s + 1)
  OBVIOUS
<1> HIDE DEF k
<1>4. Queued(m, k, r, s, e, id, Units(Pushed(m, id, s + 1)))
  BY <1>k, <1>1, PushCoreSane
<1>5. Queued(l, k, r, s, e, id, CASE id = "TERMINATION" -> 0
                                  [] id = "plain"       -> 1
                                  [] id = "repeatable"  -> t.n)
  BY <1>1, <1>2, <1>3, <1>4 DEF Queued
<1> QED BY <1>5 DEF k

LEMMA PushSane ==
  ASSUME NEW l, NEW r \in Nat, NEW s \in Nat, NEW e \in BOOLEAN,
         Chain(l, r, s, e), Open(l), NEW id \in Ids
  PROVE  Queued(l, TokenQueue_push(l, id, s + 1), r, s, e, id,
                IF id = "TERMINATION" THEN 0 ELSE 1)
PROOF
<1> DEFINE c == l.slots[l.write_iterator]
           t == IF id = "repeatable" THEN [c EXCEPT !.n = 1] ELSE c
           m == IF id = "repeatable" THEN SetRepetition(l, 1) ELSE l
<1>1. l \in Lexer /\ l.slots \in [Slot -> Token] /\ c \in Token
  BY LexerFields DEF Chain
<1>2. t \in Token /\ (id = "repeatable" => t.n = 1)
  BY <1>1, RepetitionAssumption DEF Token
<1>3. m = [l EXCEPT !.slots[l.write_iterator] = t]
  BY <1>1 DEF SetRepetition, Lexer
<1>4. TokenQueue_push(l, id, s + 1) = TokenQueue_push_core(m, id, s + 1)
  BY DEF TokenQueue_push
<1> HIDE DEF t, m
<1>5. Queued(l, TokenQueue_push_core(m, id, s + 1), r, s, e, id,
             CASE id = "TERMINATION" -> 0 [] id = "plain" -> 1 [] id = "repeatable" -> t.n)
  BY <1>2, <1>3, WrittenPushSane
<1>6. (CASE id = "TERMINATION" -> 0 [] id = "plain" -> 1 [] id = "repeatable" -> t.n)
        = IF id = "TERMINATION" THEN 0 ELSE 1
  BY <1>2 DEF Ids
<1> QED BY <1>4, <1>5, <1>6

LEMMA PushTextSane ==
  ASSUME NEW l, NEW r \in Nat, NEW s \in Nat, NEW e \in BOOLEAN,
         Chain(l, r, s, e), Open(l), NEW id \in Ids
  PROVE  Queued(l, TokenQueue_push_text(l, id, s + 1), r, s, e, id,
                IF id = "TERMINATION" THEN 0 ELSE 1)
PROOF
<1> DEFINE c == l.slots[l.write_iterator]
           t == [c EXCEPT !.text = s + 1]
           m == TakeText(l, s + 1)
<1>1. l \in Lexer /\ l.slots \in [Slot -> Token] /\ c \in Token
  BY LexerFields DEF Chain
<1>2. t \in Token
  BY <1>1 DEF Token
<1>3. m = [l EXCEPT !.slots[l.write_iterator] = t]
  BY <1>1 DEF TakeText, Lexer
<1> HIDE DEF t
<1>4. /\ Chain(m, r, s, e) /\ Open(m) /\ m.error_code = l.error_code
      /\ m.write_iterator = l.write_iterator /\ m.read_iterator = l.read_iterator
  BY <1>2, <1>3, WriteSane
<1>5. TokenQueue_push_text(l, id, s + 1) = TokenQueue_push(m, id, s + 1)
  BY DEF TokenQueue_push_text
<1> HIDE DEF m
<1>6. Queued(m, TokenQueue_push(m, id, s + 1), r, s, e, id,
             IF id = "TERMINATION" THEN 0 ELSE 1)
  BY <1>4, PushSane
<1> QED BY <1>4, <1>5, <1>6 DEF Queued, TokenQueue_is_full

LEMMA PushRepeatedSane ==
  ASSUME NEW l, NEW r \in Nat, NEW s \in Nat, NEW e \in BOOLEAN,
         Chain(l, r, s, e), Open(l), NEW n \in 1 .. MaxRepetition
  PROVE  Queued(l, TokenQueue_push_repeated(l, s + 1, n), r, s, e, "repeatable", n)
PROOF
<1> DEFINE c == l.slots[l.write_iterator]
           t == [c EXCEPT !.n = n]
           m == SetRepetition(l, n)
<1>1. l \in Lexer /\ l.slots \in [Slot -> Token] /\ c \in Token
  BY LexerFields DEF Chain
<1>2. t \in Token /\ t.n = n
  BY <1>1 DEF Token
<1>3. m = [l EXCEPT !.slots[l.write_iterator] = t]
  BY <1>1 DEF SetRepetition, Lexer
<1>4. TokenQueue_push_repeated(l, s + 1, n) = TokenQueue_push_core(m, "repeatable", s + 1)
  BY DEF TokenQueue_push_repeated
<1>5. "repeatable" \in Ids
  BY DEF Ids
<1> HIDE DEF t, m
<1>6. Queued(l, TokenQueue_push_core(m, "repeatable", s + 1), r, s, e, "repeatable", t.n)
  <2>1. Queued(l, TokenQueue_push_core(m, "repeatable", s + 1), r, s, e, "repeatable",
               CASE "repeatable" = "TERMINATION" -> 0
                 [] "repeatable" = "plain"       -> 1
                 [] "repeatable" = "repeatable"  -> t.n)
    BY <1>2, <1>3, <1>5, WrittenPushSane
  <2> QED BY <2>1
<1> QED BY <1>2, <1>4, <1>6

(* A pop yields the unit that the chain begins with, or TERMINATION when   *)
(* nothing follows.                                                        *)
LEMMA PopSane ==
  ASSUME NEW l, NEW r \in Nat, NEW s \in Nat, NEW e \in BOOLEAN,
         Chain(l, r, s, e), TerminationLast(l), ~TokenQueue_is_empty(l)
  PROVE  /\ NextToken(l) \in Token
         /\ TokenQueue_pop(l).error_code = l.error_code
         /\ TerminationLast(TokenQueue_pop(l))
         /\ NextToken(l).id = "TERMINATION" =>
              /\ Chain(TokenQueue_pop(l), r, s, e)
              /\ TokenQueue_is_empty(TokenQueue_pop(l)) /\ (e => r = s)
         /\ NextToken(l).id # "TERMINATION" =>
              /\ Chain(TokenQueue_pop(l), NextToken(l).first, s, e)
              /\ NextToken(l).first >= r + 1 /\ (e => NextToken(l).first = r + 1)
PROOF
<1> DEFINE t == NextToken(l)
           k == TokenQueue_pop(l)
<1>1. /\ l \in Lexer /\ l.slots \in [Slot -> Token] /\ l.error_code \in Errors
      /\ l.write_iterator \in Slot /\ l.read_iterator \in Slot
      /\ l.read_iterator < l.write_iterator
  BY LexerFields DEF Chain, TokenQueue_is_empty, Slot
<1>2. t \in Token /\ t = l.slots[l.read_iterator] /\ t.first \in Nat /\ t.id \in Ids
      /\ t.n \in 1 .. MaxRepetition
  BY <1>1 DEF NextToken, Token
<1>3. /\ r <= s /\ t.first >= r + 1 /\ (e => t.first = r + 1) /\ After(t) <= s + 1
      /\ After(l.slots[l.write_iterator - 1]) = s + 1
  <2>1. r <= s /\ t.first >= r + 1 /\ (e => t.first = r + 1)
    BY <1>1, <1>2 DEF Chain
  <2>2. After(l.slots[l.write_iterator - 1]) = s + 1
    BY <1>1 DEF Chain
  <2>3. l.read_iterator <= l.read_iterator
    BY <1>1, CapacityAssumption DEF Slot
  <2>4. After(l.slots[l.read_iterator]) <= s + 1
    BY <1>1, <2>3 DEF Chain
  <2> QED BY <1>2, <2>1, <2>2, <2>4
<1>4. CASE t.id = "repeatable" /\ t.n > 1
  <2> DEFINE u == [t EXCEPT !.n = t.n - 1, !.first = t.first + 1]
  <2>1. u \in Token /\ u.first = t.first + 1 /\ After(u) = After(t) /\ u.id = "repeatable"
    <3>1. t.n - 1 \in 1 .. MaxRepetition /\ t.first + 1 \in Nat
      BY <1>2, <1>4, RepetitionAssumption
    <3>2. u \in Token
      BY <1>2, <3>1 DEF Token
    <3>3. u.first = t.first + 1 /\ u.n = t.n - 1 /\ u.id = "repeatable"
      BY <1>2, <1>4 DEF Token
    <3> QED BY <1>2, <1>4, <3>2, <3>3, RepetitionAssumption DEF After, Units
  <2>2. k = [l EXCEPT !.slots[l.read_iterator].n     = l.slots[l.read_iterator].n - 1,
                      !.slots[l.read_iterator].first = l.slots[l.read_iterator].first + 1]
    BY <1>4, <1>2 DEF TokenQueue_pop
  <2>3. k = [l EXCEPT !.slots = [l.slots EXCEPT ![l.read_iterator] = u]]
    BY <1>1, <1>2, <2>2 DEF Lexer
  <2> HIDE DEF u, k, t
  <2>4. /\ k \in Lexer /\ k.error_code = l.error_code
        /\ k.read_iterator = l.read_iterator /\ k.write_iterator = l.write_iterator
        /\ k.slots \in [Slot -> Token]
        /\ \A i \in Slot : k.slots[i] = IF i = l.read_iterator THEN u ELSE l.slots[i]
    BY <1>1, <2>1, <2>3 DEF Lexer
  <2>5. \A i \in Slot : After(k.slots[i]) = After(l.slots[i])
    BY <1>2, <2>1, <2>4
  <2>6. \A i \in Slot : k.slots[i].id = l.slots[i].id
    BY <1>2, <1>4, <2>1, <2>4
  <2>7. TerminationLast(k)
    BY <2>4, <2>6 DEF TerminationLast
  <2>8. l.write_iterator - 1 \in Slot
    BY <1>1, CapacityAssumption DEF Slot
  <2>9. \A i \in Slot : l.read_iterator <= i /\ i + 1 < l.write_iterator =>
          i + 1 \in Slot /\ k.slots[i + 1] = l.slots[i + 1]
    BY <1>1, <2>4, CapacityAssumption DEF Slot
  <2>10. After(t) >= t.first + 1 /\ t.first <= s
    BY <1>2, <1>3, <1>4, RepetitionAssumption DEF After, Units
  <2>11. k.slots[k.read_iterator].first = t.first + 1
    BY <1>1, <2>1, <2>4
  <2>12. Chain(k, t.first, s, e)
    <3>1. /\ k.read_iterator < k.write_iterator
          /\ After(k.slots[k.write_iterator - 1]) = s + 1
      BY <1>1, <1>3, <2>4, <2>5, <2>8
    <3>2. \A i \in Slot : k.read_iterator <= i /\ i + 1 < k.write_iterator =>
            k.slots[i + 1].first = After(k.slots[i])
      BY <2>4, <2>5, <2>9 DEF Chain
    <3>3. \A i \in Slot : k.read_iterator <= i /\ i < k.write_iterator =>
            After(k.slots[i]) <= s + 1
      BY <2>4, <2>5 DEF Chain
    <3> QED BY <1>1, <1>2, <2>4, <2>10, <2>11, <3>1, <3>2, <3>3, CapacityAssumption DEF Chain, Slot
  <2> QED BY <1>2, <1>3, <1>4, <2>4, <2>7, <2>12 DEF t, k
<1>5. CASE ~(t.id = "repeatable" /\ t.n > 1)
  <2>1. k = [l EXCEPT !.read_iterator = l.read_iterator + 1]
    BY <1>5, <1>2 DEF TokenQueue_pop
  <2> HIDE DEF k, t
  <2>2. /\ k \in Lexer /\ k.error_code = l.error_code
        /\ k.read_iterator = l.read_iterator + 1 /\ k.write_iterator = l.write_iterator
        /\ k.slots = l.slots /\ l.read_iterator + 1 \in Slot
    BY <1>1, <2>1, CapacityAssumption DEF Lexer, Slot
  <2>3. TerminationLast(k)
    BY <1>1, <2>2, CapacityAssumption DEF TerminationLast, Slot
  <2>4. /\ \A i \in Slot : k.read_iterator <= i /\ i + 1 < k.write_iterator =>
              k.slots[i + 1].first = After(k.slots[i])
        /\ \A i \in Slot : k.read_iterator <= i /\ i < k.write_iterator =>
              After(k.slots[i]) <= s + 1
    BY <1>1, <2>2, CapacityAssumption DEF Chain, Slot
  <2>5. l.read_iterator + 1 < l.write_iterator => l.slots[l.read_iterator + 1].first = After(t)
    <3>1. l.read_iterator \in Slot /\ l.read_iterator <= l.read_iterator
      BY <1>1 DEF Slot
    <3>2. l.read_iterator + 1 < l.write_iterator =>
            l.slots[l.read_iterator + 1].first = After(l.slots[l.read_iterator])
      BY <3>1 DEF Chain
    <3> QED BY <1>2, <3>2
  <2>6. l.read_iterator + 1 = l.write_iterator => After(t) = s + 1
    BY <1>1, <1>2, <1>3, CapacityAssumption DEF Slot
  <2>7. CASE t.id = "TERMINATION"
    <3>1. l.read_iterator + 1 = l.write_iterator
      BY <1>1, <1>2, <2>7, CapacityAssumption DEF TerminationLast, Slot
    <3>2. After(t) = t.first
      BY <1>2, <2>7 DEF After, Units
    <3>3. e => r = s
      BY <1>2, <1>3, <2>6, <3>1, <3>2
    <3>4. TokenQueue_is_empty(k)
      BY <2>2, <3>1 DEF TokenQueue_is_empty
    <3>5. Chain(k, r, s, e)
      BY <1>1, <1>3, <2>2, <2>4, <3>1, <3>3, CapacityAssumption DEF Chain, Slot
    <3> QED BY <1>2, <2>2, <2>3, <2>7, <3>3, <3>4, <3>5 DEF t, k
  <2>8. CASE t.id # "TERMINATION"
    <3>1. After(t) = t.first + 1
      BY <1>2, <1>5, <2>8, RepetitionAssumption DEF After, Units, Ids
    <3>2. /\ k.read_iterator \in Nat /\ k.write_iterator \in Nat
          /\ k.read_iterator <= k.write_iterator
          /\ t.first \in Nat /\ t.first <= s
      <4>1. /\ k.read_iterator \in Nat /\ k.write_iterator \in Nat
            /\ k.read_iterator <= k.write_iterator
        BY <1>1, <2>2, CapacityAssumption DEF Slot
      <4>2. t.first <= s
        BY <1>2, <1>3, <3>1
      <4> QED BY <1>2, <4>1, <4>2
    <3>3. k.read_iterator = k.write_iterator => (e => t.first = s)
      <4>1. k.read_iterator = k.write_iterator => After(t) = s + 1
        BY <2>2, <2>6
      <4> QED BY <3>1, <3>2, <4>1
    <3>4. ASSUME k.read_iterator < k.write_iterator
          PROVE  /\ k.slots[k.read_iterator].first >= t.first + 1
                 /\ e => k.slots[k.read_iterator].first = t.first + 1
                 /\ After(k.slots[k.write_iterator - 1]) = s + 1
      <4>1. k.slots[k.read_iterator].first = t.first + 1
        BY <2>2, <2>5, <3>1, <3>4
      <4>2. After(k.slots[k.write_iterator - 1]) = s + 1
        BY <1>1, <1>3, <2>2
      <4> QED BY <3>2, <4>1, <4>2
    <3>5. Chain(k, t.first, s, e)
      BY <2>2, <2>4, <3>2, <3>3, <3>4 DEF Chain
    <3> QED BY <1>2, <1>3, <2>2, <2>3, <2>8, <3>5 DEF t, k
  <2> QED BY <2>7, <2>8
<1> QED BY <1>4, <1>5

SameError(k, l) == k.error_code = l.error_code

(* TERMINATION alone in the queue.                                         *)
LEMMA TerminationSane ==
  ASSUME NEW l \in Lexer, NEW r \in Nat, NEW s \in Nat, NEW e \in BOOLEAN,
         r <= s, e => r = s,
         NEW k, k = TokenQueue_set_token_TERMINATION(l, s + 1)
  PROVE  /\ Chain(k, r, s, e) /\ TerminationLast(k) /\ ~TokenQueue_is_empty(k)
         /\ SameError(k, l)
PROOF
<1> DEFINE m == TokenQueue_reset(l)
<1>1. /\ m = [l EXCEPT !.read_iterator = 0, !.write_iterator = 0]
      /\ m \in Lexer /\ m.error_code = l.error_code /\ 0 \in Slot
      /\ m.read_iterator = 0 /\ m.write_iterator = 0 /\ m.slots \in [Slot -> Token]
  <2>1. /\ l.slots \in [Slot -> Token] /\ l.error_code \in Errors /\ 0 \in Slot
    BY LexerFields, CapacityAssumption DEF Slot
  <2>2. m = [l EXCEPT !.read_iterator = 0, !.write_iterator = 0]
    BY DEF TokenQueue_reset
  <2>3. /\ m.error_code = l.error_code /\ m.read_iterator = 0 /\ m.write_iterator = 0
        /\ m.slots = l.slots
    BY <2>2 DEF Lexer
  <2>4. m \in Lexer
    BY <2>1, <2>2 DEF Lexer
  <2> QED BY <2>1, <2>2, <2>3, <2>4
<1>2. k = TokenQueue_push_text(m, "TERMINATION", s + 1)
  BY DEF TokenQueue_set_token_TERMINATION
<1> HIDE DEF m
<1>3. Chain(m, r, s, e) /\ Open(m) /\ ~TokenQueue_is_full(m)
  BY <1>1, CapacityAssumption DEF Chain, Open, TokenQueue_is_full, Slot
<1>4. "TERMINATION" \in Ids
  BY DEF Ids
<1>5. Queued(m, k, r, s, e, "TERMINATION", 0)
  <2>1. Queued(m, TokenQueue_push_text(m, "TERMINATION", s + 1), r, s, e, "TERMINATION",
               IF "TERMINATION" = "TERMINATION" THEN 0 ELSE 1)
    BY <1>3, <1>4, PushTextSane
  <2> QED BY <1>2, <2>1
<1>6. Chain(k, r, s, e)
  <2>1. Chain(k, r, s + 0, e)
    BY <1>3, <1>5 DEF Queued
  <2> QED BY <2>1
<1> QED BY <1>1, <1>3, <1>5, <1>6 DEF Queued, SameError

-----------------------------------------------------------------------------
(* What a step may do with the receiver, and with the error code.          *)
OrderStep ==
  received' # received =>
    /\ received' > received
    /\ step_error' \/ RemainderGet \/ received' = received + 1

OverflowStep ==
  lexer'.error_code = "QueueOverflow" /\ lexer.error_code # "QueueOverflow" =>
    phase = "action" /\ burst > 0

(* The next token of a chained queue is delivered.                         *)
LEMMA DeliverSane ==
  ASSUME TypeOK, NEW l, NEW e \in BOOLEAN,
         Chain(l, received, sent, e), TerminationLast(l), ~TokenQueue_is_empty(l),
         Deliver(l)
  PROVE  /\ Chain(lexer', received', sent, e) /\ TerminationLast(lexer')
         /\ lexer'.error_code = l.error_code
         /\ received' \in Nat /\ last' \in Ids /\ phase' = "idle"
         /\ received' # received => received' > received /\ (e => received' = received + 1)
         /\ last' = "TERMINATION" => TokenQueue_is_empty(lexer') /\ (e => received' = sent)
PROOF
<1> DEFINE k == TokenQueue_pop(l)
           t == NextToken(l)
<1>1. received \in Nat /\ sent \in Nat
  BY DEF TypeOK
<1>2. /\ lexer' = k /\ last' = t.id /\ phase' = "idle"
      /\ received' = IF t.id = "TERMINATION" THEN received ELSE t.first
  BY DEF Deliver
<1>3. t \in Token /\ k.error_code = l.error_code /\ TerminationLast(k)
  BY <1>1, PopSane
<1>4. t.id = "TERMINATION" =>
        /\ Chain(k, received, sent, e)
        /\ TokenQueue_is_empty(k) /\ (e => received = sent)
  BY <1>1, PopSane
<1>5. t.id # "TERMINATION" =>
        /\ Chain(k, t.first, sent, e)
        /\ t.first >= received + 1 /\ (e => t.first = received + 1)
  BY <1>1, PopSane
<1>6. t.id \in Ids /\ t.first \in Nat
  BY <1>3 DEF Token
<1> HIDE DEF k, t
<1> QED
  <2>1. CASE t.id = "TERMINATION"
    BY <1>1, <1>2, <1>3, <1>4, <1>6, <2>1
  <2>2. CASE t.id # "TERMINATION"
    BY <1>1, <1>2, <1>3, <1>5, <1>6, <2>2
  <2> QED BY <2>1, <2>2

(* What is left to show of a step that is known to leave a sane queue.     *)
LEMMA Assemble ==
  ASSUME lexer' \in Lexer, phase' \in {"idle", "matching", "action", "returned"},
         left' \in 0 .. Lexemes, burst' \in 0 .. MaxBurst,
         run' \in {"not yet", "success", "error"}, sent' \in Nat, received' \in Nat,
         last' \in Ids \cup {"none"}, step_error' \in BOOLEAN,
         Chain(lexer', received', sent', ~step_error'), TerminationLast(lexer'),
         phase' \in {"matching", "action"} => Open(lexer') /\ lexer'.read_iterator = 0,
         phase' = "matching" => ~TokenQueue_is_full(lexer'),
         phase' = "action" /\ burst' = 0 => ~TokenQueue_is_full(lexer'),
         last' = "TERMINATION" /\ phase' = "idle" =>
           TokenQueue_is_empty(lexer') /\ (step_error' \/ received' = sent')
  PROVE  IInv'
BY DEF IInv, TypeOK, CompleteAtTermination

(* The step in which the analyser function returns with the queue l.       *)
LEMMA ReturnsSane ==
  ASSUME IInv, phase \in {"matching", "action"}, NEW l, Returns(l),
         Chain(l, received, sent, ~step_error), TerminationLast(l),
         l.read_iterator = 0, sent' = sent, left' \in 0 .. Lexemes
  PROVE  IInv' /\ OrderStep /\ lexer'.error_code = l.error_code
PROOF
<1>1. /\ received \in Nat /\ sent \in Nat /\ step_error \in BOOLEAN /\ TypeOK
      /\ run' \in {"not yet", "success", "error"} /\ burst' \in 0 .. MaxBurst
      /\ l \in Lexer /\ received <= sent /\ last \in Ids \cup {"none"}
  <2>1. TypeOK /\ l \in Lexer /\ received <= sent
    BY DEF IInv, Chain
  <2>2. run' = run /\ burst' = 0
    BY DEF Returns
  <2>3. 0 \in 0 .. MaxBurst
    BY ReceivingAssumption
  <2> QED BY <2>1, <2>2, <2>3 DEF TypeOK
<1>2. CASE l.error_code # "None" /\ Deliver(TokenQueue_set_token_TERMINATION(l, sent' + 1))
  <2> DEFINE k == TokenQueue_set_token_TERMINATION(l, sent + 1)
  <2>1. step_error' = TRUE /\ Deliver(k)
    BY <1>1, <1>2 DEF Returns
  <2>k. k = TokenQueue_set_token_TERMINATION(l, sent + 1)
    OBVIOUS
  <2> HIDE DEF k
  <2>2. /\ Chain(k, received, sent, FALSE) /\ TerminationLast(k)
        /\ ~TokenQueue_is_empty(k) /\ k.error_code = l.error_code
    <3>1. /\ l \in Lexer /\ received \in Nat /\ sent \in Nat /\ FALSE \in BOOLEAN
          /\ received <= sent /\ (FALSE => received = sent)
      BY <1>1
    <3>2. Chain(k, received, sent, FALSE)
      BY <3>1, <2>k, TerminationSane
    <3>3. TerminationLast(k) /\ ~TokenQueue_is_empty(k)
      BY <3>1, <2>k, TerminationSane
    <3>4. SameError(k, l)
      BY <3>1, <2>k, TerminationSane
    <3> QED BY <3>2, <3>3, <3>4 DEF SameError
  <2>3. /\ Chain(lexer', received', sent, FALSE) /\ TerminationLast(lexer')
        /\ lexer'.error_code = k.error_code
        /\ received' \in Nat /\ last' \in Ids /\ phase' = "idle"
        /\ received' # received => received' > received
        /\ last' = "TERMINATION" => TokenQueue_is_empty(lexer')
    BY <1>1, <2>1, <2>2, DeliverSane
  <2>4. lexer' \in Lexer /\ Chain(lexer', received', sent', ~step_error')
    BY <2>1, <2>3 DEF Chain
  <2>5. IInv'
    BY <1>1, <2>1, <2>3, <2>4, Assemble
  <2> QED BY <2>1, <2>2, <2>3, <2>5 DEF OrderStep
<1>3. CASE l.error_code = "None" /\ TokenQueue_is_empty(l) /\ lexer' = l
           /\ phase' = "matching" /\ UNCHANGED <<received, last>>
  <2>1. step_error' = step_error
    BY <1>1, <1>3 DEF Returns
  <2>2. Open(l) /\ ~TokenQueue_is_full(l)
    <3>1. l.write_iterator = 0
      BY <1>3 DEF TokenQueue_is_empty
    <3> QED BY <3>1, CapacityAssumption DEF Open, TokenQueue_is_full, Slot
  <2>3. IInv'
    BY <1>1, <1>3, <2>1, <2>2, Assemble
  <2> QED BY <1>3, <2>3 DEF OrderStep
<1>4. CASE l.error_code = "None" /\ ~TokenQueue_is_empty(l) /\ Deliver(l)
  <2>1. step_error' = step_error
    BY <1>1, <1>4 DEF Returns
  <2>2. /\ Chain(lexer', received', sent, ~step_error) /\ TerminationLast(lexer')
        /\ lexer'.error_code = l.error_code
        /\ received' \in Nat /\ last' \in Ids /\ phase' = "idle"
        /\ received' # received => received' > received /\ (~step_error => received' = received + 1)
        /\ last' = "TERMINATION" => TokenQueue_is_empty(lexer') /\ (~step_error => received' = sent)
    BY <1>1, <1>4, DeliverSane
  <2>3. lexer' \in Lexer
    BY <2>2 DEF Chain
  <2>4. IInv'
    BY <1>1, <2>1, <2>2, <2>3, Assemble
  <2> QED BY <2>1, <2>2, <2>4 DEF OrderStep
<1> QED BY <1>2, <1>3, <1>4 DEF Returns

(* A send of an action.                                                    *)
LEMMA SendSane ==
  ASSUME IInv, NEW l, NEW id \in {"plain", "repeatable"}, NEW u \in Nat,
         Queued(lexer, l, received, sent, ~step_error, id, u), Sends(l, u)
  PROVE  IInv' /\ OrderStep /\ OverflowStep
PROOF
<1>1. /\ TypeOK /\ received \in Nat /\ sent \in Nat /\ phase = "action" /\ phase' = phase
      /\ received' = received /\ last' = last /\ step_error' = step_error
      /\ run' = run /\ left' = left /\ burst < MaxBurst /\ burst' = burst + 1
      /\ lexer' = l /\ Open(lexer) /\ lexer.read_iterator = 0
      /\ burst = 0 => ~TokenQueue_is_full(lexer)
      /\ sent' = IF TokenQueue_is_full(lexer) THEN sent ELSE sent + u
  BY DEF IInv, TypeOK, Sends, history
<1>2. /\ Chain(l, received, sent', ~step_error) /\ Open(l) /\ l.read_iterator = 0
      /\ TokenQueue_is_full(lexer) \/ l.error_code = lexer.error_code
  BY <1>1 DEF Queued
<1>3. sent' \in Nat /\ burst' \in 0 .. MaxBurst /\ burst \in 0 .. MaxBurst /\ burst' # 0
  <2>1. burst \in 0 .. MaxBurst /\ MaxBurst \in Nat
    BY <1>1, ReceivingAssumption DEF TypeOK
  <2>2. sent' \in Nat
    BY <1>1
  <2>3. burst' \in 0 .. MaxBurst /\ burst' # 0
    BY <1>1, <2>1
  <2> QED BY <2>1, <2>2, <2>3
<1>4. l \in Lexer
  BY <1>2 DEF Chain
<1>5. TerminationLast(l)
  BY <1>2, <1>4, LexerFields, CapacityAssumption DEF Open, TerminationLast, Slot
<1>6. IInv'
  <2>1. /\ phase' \in {"idle", "matching", "action", "returned"} /\ left' \in 0 .. Lexemes
        /\ run' \in {"not yet", "success", "error"} /\ received' \in Nat
        /\ last' \in Ids \cup {"none"} /\ step_error' \in BOOLEAN
    BY <1>1 DEF TypeOK
  <2> QED BY <1>1, <1>2, <1>3, <1>4, <1>5, <2>1, Assemble
<1>7. OverflowStep
  <2>1. burst = 0 \/ burst > 0
    BY <1>3
  <2> QED BY <1>1, <1>2, <2>1 DEF OverflowStep
<1> QED BY <1>1, <1>6, <1>7 DEF OrderStep

(* The steps outside of the analyser function, in which sent and the       *)
(* errors of its steps stay what they are.                                 *)
LEMMA ReceiveSane ==
  ASSUME IInv, Receive
  PROVE  IInv' /\ OrderStep /\ OverflowStep
PROOF
<1>1. /\ TypeOK /\ received \in Nat /\ sent \in Nat /\ step_error \in BOOLEAN
      /\ sent' = sent /\ step_error' = step_error /\ left' = left /\ burst' = burst /\ run' = run
      /\ lexer \in Lexer /\ received <= sent
      /\ Chain(lexer, received, sent, ~step_error) /\ TerminationLast(lexer)
  BY DEF IInv, TypeOK, Receive, Chain
<1>2. ASSUME NEW l, Deliver(l), Chain(l, received, sent, ~step_error), TerminationLast(l),
             ~TokenQueue_is_empty(l), SameError(l, lexer)
      PROVE  IInv' /\ OrderStep /\ OverflowStep
  <2>1. /\ Chain(lexer', received', sent, ~step_error) /\ TerminationLast(lexer')
        /\ lexer'.error_code = l.error_code
        /\ received' \in Nat /\ last' \in Ids /\ phase' = "idle"
        /\ received' # received => received' > received /\ (~step_error => received' = received + 1)
        /\ last' = "TERMINATION" => TokenQueue_is_empty(lexer') /\ (~step_error => received' = sent)
    BY <1>1, <1>2, DeliverSane
  <2>2. lexer' \in Lexer
    BY <2>1 DEF Chain
  <2>3. /\ left' \in 0 .. Lexemes /\ burst' \in 0 .. MaxBurst
        /\ run' \in {"not yet", "success", "error"}
    BY <1>1 DEF TypeOK
  <2>4. IInv'
    BY <1>1, <2>1, <2>2, <2>3, Assemble
  <2> QED BY <1>1, <1>2, <2>1, <2>4 DEF OrderStep, OverflowStep, SameError
<1>3. CASE ~TokenQueue_is_empty(lexer) /\ Deliver(lexer)
  BY <1>1, <1>2, <1>3 DEF SameError
<1>4. CASE /\ TokenQueue_is_empty(lexer) /\ lexer.error_code # "None"
           /\ Deliver(TokenQueue_set_token_TERMINATION(lexer, sent + 1))
  <2> DEFINE k == TokenQueue_set_token_TERMINATION(lexer, sent + 1)
  <2>k. k = TokenQueue_set_token_TERMINATION(lexer, sent + 1)
    OBVIOUS
  <2> HIDE DEF k
  <2>1. (~step_error) \in BOOLEAN /\ (~step_error => received = sent)
    <3>1. (~step_error) \in BOOLEAN
      BY Zenon
    <3>2. ~step_error => received = sent
      BY <1>1, <1>4 DEF Chain, TokenQueue_is_empty
    <3> QED BY <3>1, <3>2
  <2>2. /\ Chain(k, received, sent, ~step_error) /\ TerminationLast(k)
        /\ ~TokenQueue_is_empty(k) /\ SameError(k, lexer)
    BY <1>1, <2>k, <2>1, TerminationSane
  <2> QED BY <1>2, <1>4, <2>k, <2>2
<1>5. CASE /\ TokenQueue_is_empty(lexer) /\ lexer.error_code = "None"
           /\ lexer' = TokenQueue_reset(lexer) /\ phase' = "matching"
           /\ UNCHANGED <<received, last>>
  <2>1. ~step_error => received = sent
    BY <1>1, <1>5 DEF Chain, TokenQueue_is_empty
  <2>2. lexer' = [lexer EXCEPT !.read_iterator = 0, !.write_iterator = 0]
    BY <1>5 DEF TokenQueue_reset
  <2>3. /\ lexer.slots \in [Slot -> Token] /\ lexer.error_code \in Errors /\ 0 \in Slot
    BY <1>1, LexerFields, CapacityAssumption DEF Slot
  <2>4. lexer' \in Lexer /\ lexer'.read_iterator = 0 /\ lexer'.write_iterator = 0
    BY <1>1, <2>2, <2>3 DEF Lexer
  <2>5. lexer'.error_code = lexer.error_code
    BY <1>1, <2>2 DEF Lexer
  <2>6. /\ Chain(lexer', received', sent', ~step_error') /\ TerminationLast(lexer')
        /\ Open(lexer') /\ ~TokenQueue_is_full(lexer')
    BY <1>1, <1>5, <2>1, <2>4, CapacityAssumption
    DEF Chain, TerminationLast, Open, TokenQueue_is_full, Slot
  <2>7. /\ left' \in 0 .. Lexemes /\ burst' \in 0 .. MaxBurst
        /\ run' \in {"not yet", "success", "error"}
        /\ received' \in Nat /\ last' \in Ids \cup {"none"}
    BY <1>1, <1>5 DEF TypeOK
  <2>8. IInv'
    BY <1>1, <1>5, <2>4, <2>6, <2>7, Assemble
  <2> QED BY <1>5, <2>5, <2>8 DEF OrderStep, OverflowStep
<1> QED BY <1>3, <1>4, <1>5 DEF Receive

(* A change of the error code alone, to something other than an overflow.  *)
LEMMA CodeSane ==
  ASSUME IInv, NEW code \in Errors \ {"QueueOverflow"},
         \/ lexer' = [lexer EXCEPT !.error_code = code]
         \/ lexer' = lexer,
         UNCHANGED <<phase, left, burst, sent, history>>
  PROVE  IInv' /\ OrderStep /\ OverflowStep
PROOF
<1>1. /\ TypeOK /\ received \in Nat /\ sent \in Nat /\ (~step_error) \in BOOLEAN
      /\ Chain(lexer, received, sent, ~step_error) /\ TerminationLast(lexer)
      /\ lexer \in Lexer
  <2>1. (~step_error) \in BOOLEAN
    BY Zenon
  <2> QED BY <2>1 DEF IInv, TypeOK
<1>2. /\ phase' = phase /\ left' = left /\ burst' = burst /\ sent' = sent
      /\ run' = run /\ received' = received /\ last' = last /\ step_error' = step_error
  BY DEF history
<1>3. /\ Chain(lexer', received, sent, ~step_error) /\ TerminationLast(lexer')
      /\ Open(lexer) => Open(lexer')
      /\ TokenQueue_is_full(lexer') <=> TokenQueue_is_full(lexer)
      /\ TokenQueue_is_empty(lexer') <=> TokenQueue_is_empty(lexer)
  <2>1. CASE lexer' = [lexer EXCEPT !.error_code = code]
    <3>1. code \in Errors
      OBVIOUS
    <3>2. /\ Chain(lexer', received, sent, ~step_error)
          /\ TerminationLast(lexer') /\ (Open(lexer) => Open(lexer'))
      BY <1>1, <2>1, <3>1, ErrorSane
    <3>3. TokenQueue_is_full(lexer') <=> TokenQueue_is_full(lexer)
      BY <1>1, <2>1 DEF TokenQueue_is_full, Lexer
    <3>4. TokenQueue_is_empty(lexer') <=> TokenQueue_is_empty(lexer)
      BY <1>1, <2>1 DEF TokenQueue_is_empty, Lexer
    <3> QED BY <3>2, <3>3, <3>4
  <2>2. CASE lexer' = lexer
    BY <1>1, <2>2
  <2> QED BY <2>1, <2>2
<1>4. /\ lexer' \in Lexer /\ lexer'.read_iterator = lexer.read_iterator
      /\ lexer'.error_code = "QueueOverflow" => lexer.error_code = "QueueOverflow"
  <2>1. CASE lexer' = [lexer EXCEPT !.error_code = code]
    BY <1>1, <2>1 DEF Lexer
  <2> QED BY <1>1, <2>1
<1>5. IInv'
  BY <1>1, <1>2, <1>3, <1>4, Assemble DEF IInv, TypeOK, CompleteAtTermination
<1> QED BY <1>2, <1>4, <1>5 DEF OrderStep, OverflowStep

LEMMA RemainderSane ==
  ASSUME IInv, RemainderGet
  PROVE  IInv' /\ OrderStep /\ OverflowStep
PROOF
<1> DEFINE back == lexer.slots[lexer.write_iterator - 1]
<1>1. /\ TypeOK /\ received \in Nat /\ sent \in Nat /\ lexer \in Lexer
      /\ Chain(lexer, received, sent, ~step_error)
      /\ phase = "idle" /\ ~TokenQueue_is_empty(lexer)
      /\ received' = back.first + Units(back) - 1 /\ last' = last
      /\ last \in Ids \cup {"none"}
      /\ lexer' = TokenQueue_reset(lexer)
      /\ phase' = phase /\ left' = left /\ burst' = burst /\ run' = run /\ sent' = sent
      /\ step_error' = step_error
  BY DEF IInv, TypeOK, RemainderGet
<1>2. /\ lexer.slots \in [Slot -> Token] /\ lexer.error_code \in Errors /\ 0 \in Slot
      /\ lexer.write_iterator \in Slot /\ lexer.read_iterator \in Slot
      /\ lexer.read_iterator < lexer.write_iterator
  BY <1>1, LexerFields, CapacityAssumption DEF Chain, TokenQueue_is_empty, Slot
<1>3. lexer.write_iterator - 1 \in Slot /\ back \in Token
  BY <1>2, CapacityAssumption DEF Slot
<1>4. back.id \in Ids /\ back.first \in Nat /\ Units(back) \in Nat
  BY <1>3, UnitsNat DEF Token
<1>5. After(back) = sent + 1 /\ lexer.slots[lexer.read_iterator].first >= received + 1
  BY <1>1, <1>2 DEF Chain
<1>6. received' = sent /\ received <= sent
  BY <1>1, <1>4, <1>5 DEF After, Chain
<1>7. lexer' = [lexer EXCEPT !.read_iterator = 0, !.write_iterator = 0]
  BY <1>1 DEF TokenQueue_reset
<1>8. lexer' \in Lexer /\ lexer'.read_iterator = 0 /\ lexer'.write_iterator = 0
  BY <1>1, <1>2, <1>7 DEF Lexer
<1>9. lexer'.error_code = lexer.error_code
  BY <1>1, <1>7 DEF Lexer
<1>10. /\ Chain(lexer', received', sent', ~step_error') /\ TerminationLast(lexer')
       /\ TokenQueue_is_empty(lexer')
  BY <1>1, <1>6, <1>8, CapacityAssumption DEF Chain, TerminationLast, TokenQueue_is_empty, Slot
<1>11. IInv'
  <2>1. /\ left' \in 0 .. Lexemes /\ burst' \in 0 .. MaxBurst
        /\ run' \in {"not yet", "success", "error"} /\ step_error' \in BOOLEAN
    BY <1>1 DEF TypeOK
  <2> QED BY <1>1, <1>4, <1>6, <1>8, <1>10, <2>1, Assemble
<1>12. OrderStep
  BY <1>1, <1>6 DEF OrderStep
<1> QED BY <1>9, <1>11, <1>12 DEF OverflowStep

(* The steps of the analyser function.                                     *)
LEMMA AnalyserSane ==
  ASSUME IInv, AnalyserStep
  PROVE  IInv' /\ OrderStep /\ OverflowStep
PROOF
<1>1. /\ TypeOK /\ received \in Nat /\ sent \in Nat /\ (~step_error) \in BOOLEAN
      /\ Chain(lexer, received, sent, ~step_error) /\ TerminationLast(lexer)
      /\ lexer \in Lexer /\ lexer.error_code \in Errors /\ left \in 0 .. Lexemes
  <2>1. (~step_error) \in BOOLEAN
    BY Zenon
  <2> QED BY <2>1, LexerFields DEF IInv, TypeOK
<1>2. ASSUME NEW l, Returns(l), phase \in {"matching", "action"}, sent' = sent,
             Chain(l, received, sent, ~step_error), TerminationLast(l),
             l.read_iterator = 0, left' \in 0 .. Lexemes,
             l.error_code = "QueueOverflow" => lexer.error_code = "QueueOverflow"
      PROVE  IInv' /\ OrderStep /\ OverflowStep
  <2>1. IInv' /\ OrderStep /\ lexer'.error_code = l.error_code
    BY <1>2, ReturnsSane
  <2> QED BY <1>2, <2>1 DEF OverflowStep
(* TERMINATION sent where the queue is known to have a place.              *)
<1>3. ASSUME NEW l, phase = "matching", sent' = sent, left' \in 0 .. Lexemes,
             Chain(l, received, sent, ~step_error), Open(l), l.read_iterator = 0,
             ~TokenQueue_is_full(l), Returns(TokenQueue_push(l, "TERMINATION", sent + 1)),
             l.error_code = "QueueOverflow" => lexer.error_code = "QueueOverflow"
      PROVE  IInv' /\ OrderStep /\ OverflowStep
  <2> DEFINE k == TokenQueue_push(l, "TERMINATION", sent + 1)
  <2>1. "TERMINATION" \in Ids
    BY DEF Ids
  <2>2. Queued(l, k, received, sent, ~step_error, "TERMINATION", 0)
    <3>1. Queued(l, k, received, sent, ~step_error, "TERMINATION",
                 IF "TERMINATION" = "TERMINATION" THEN 0 ELSE 1)
      BY <1>1, <1>3, <2>1, PushSane
    <3> QED BY <3>1
  <2> HIDE DEF k
  <2>3. Chain(k, received, sent + 0, ~step_error) /\ TerminationLast(k)
        /\ k.error_code = l.error_code /\ k.read_iterator = l.read_iterator
    BY <1>3, <2>2 DEF Queued
  <2>4. Chain(k, received, sent, ~step_error)
    BY <1>1, <2>3
  <2>5. Returns(k)
    BY <1>3 DEF k
  <2> QED BY <1>2, <1>3, <2>3, <2>4, <2>5
<1>4. CASE Match
  <2>1. /\ phase = "matching" /\ left > 0 /\ left' = left - 1 /\ phase' = "action"
        /\ lexer' = lexer /\ burst' = burst /\ sent' = sent
        /\ run' = run /\ received' = received /\ last' = last /\ step_error' = step_error
    BY <1>4 DEF Match, history
  <2>2. left' \in 0 .. Lexemes
    BY <1>1, <2>1, ReceivingAssumption
  <2>3. Open(lexer) /\ lexer.read_iterator = 0 /\ ~TokenQueue_is_full(lexer)
    BY <2>1 DEF IInv
  <2>4. IInv'
    BY <1>1, <2>1, <2>2, <2>3, Assemble DEF TypeOK
  <2> QED BY <2>1, <2>4 DEF OrderStep, OverflowStep
<1>5. CASE Failure
  <2> DEFINE failed == MF_error_code_set_if_first(lexer, "Failure")
  <2>1. /\ phase = "matching" /\ left > 0 /\ left' = left - 1 /\ sent' = sent
        /\ \/ Returns(TokenQueue_push(failed, "TERMINATION", sent + 1))
           \/ Returns(failed)
    BY <1>5 DEF Failure
  <2>2. left' \in 0 .. Lexemes
    BY <1>1, <2>1, ReceivingAssumption
  <2>3. Open(lexer) /\ lexer.read_iterator = 0 /\ ~TokenQueue_is_full(lexer)
    BY <2>1 DEF IInv
  <2>4. \/ failed = [lexer EXCEPT !.error_code = "Failure"]
        \/ failed = lexer
    BY DEF MF_error_code_set_if_first
  <2> HIDE DEF failed
  <2>5. /\ Chain(failed, received, sent, ~step_error) /\ TerminationLast(failed) /\ Open(failed)
    <3>1. CASE failed = [lexer EXCEPT !.error_code = "Failure"]
      <4>1. "Failure" \in Errors
        BY DEF Errors
      <4>2. ASSUME NEW e \in BOOLEAN, Chain(lexer, received, sent, e)
            PROVE  Chain(failed, received, sent, e) /\ TerminationLast(failed) /\ Open(failed)
        <5>1. received \in Nat /\ sent \in Nat /\ TerminationLast(lexer)
          BY <1>1
        <5> QED BY <2>3, <3>1, <4>1, <4>2, <5>1, ErrorSane
      <4>3. (~step_error) \in BOOLEAN /\ Chain(lexer, received, sent, ~step_error)
        BY <1>1
      <4> QED BY <4>2, <4>3
    <3> QED BY <1>1, <2>3, <2>4, <3>1
  <2>6. /\ failed.read_iterator = 0 /\ ~TokenQueue_is_full(failed)
        /\ failed.error_code = "QueueOverflow" => lexer.error_code = "QueueOverflow"
    BY <1>1, <2>3, <2>4 DEF Lexer, TokenQueue_is_full
  <2> QED BY <1>2, <1>3, <2>1, <2>2, <2>5, <2>6
<1>6. CASE EndOfStream
  <2>1. /\ phase = "matching" /\ left' = left /\ sent' = sent
        /\ Returns(TokenQueue_push(lexer, "TERMINATION", sent + 1))
    BY <1>6 DEF EndOfStream
  <2>2. Open(lexer) /\ lexer.read_iterator = 0 /\ ~TokenQueue_is_full(lexer)
    BY <2>1 DEF IInv
  <2> QED BY <1>1, <1>3, <2>1, <2>2
<1>7. ASSUME phase = "action", left' = left, sent' = sent, Returns(lexer)
      PROVE  IInv' /\ OrderStep /\ OverflowStep
  <2>1. lexer.read_iterator = 0
    BY <1>7 DEF IInv
  <2> QED BY <1>1, <1>2, <1>7, <2>1
<1>8. CASE Flush
  BY <1>7, <1>8 DEF Flush
<1>9. CASE Continue
  <2>1. CASE Returns(lexer)
    BY <1>7, <1>9, <2>1 DEF Continue
  <2>2. CASE /\ ~TokenQueue_is_full(lexer) /\ lexer' = lexer /\ phase' = "matching"
             /\ burst' = 0 /\ UNCHANGED history
    <3>1. /\ phase = "action" /\ left' = left /\ sent' = sent
          /\ run' = run /\ received' = received /\ last' = last /\ step_error' = step_error
      BY <1>9, <2>2 DEF Continue, history
    <3>2. Open(lexer) /\ lexer.read_iterator = 0
      BY <3>1 DEF IInv
    <3>3. 0 \in 0 .. MaxBurst
      BY ReceivingAssumption
    <3>4. IInv'
      BY <1>1, <2>2, <3>1, <3>2, <3>3, Assemble DEF TypeOK
    <3> QED BY <2>2, <3>1, <3>4 DEF OrderStep, OverflowStep
  <2> QED BY <1>9, <2>1, <2>2 DEF Continue
<1> QED BY <1>4, <1>5, <1>6, <1>8, <1>9 DEF AnalyserStep

LEMMA UserSane ==
  ASSUME IInv, UserStep \/ RunReturns
  PROVE  IInv' /\ OrderStep /\ OverflowStep
PROOF
<1>1. /\ TypeOK /\ received \in Nat /\ sent \in Nat /\ (~step_error) \in BOOLEAN
      /\ Chain(lexer, received, sent, ~step_error) /\ TerminationLast(lexer)
      /\ lexer \in Lexer
  <2>1. (~step_error) \in BOOLEAN
    BY Zenon
  <2> QED BY <2>1 DEF IInv, TypeOK
<1>2. ASSUME NEW id \in {"plain", "repeatable"}
      PROVE  id \in Ids /\ (IF id = "TERMINATION" THEN 0 ELSE 1) = 1
  BY DEF Ids
<1>3. CASE MF_send
  <2>1. PICK id \in {"plain", "repeatable"} : Sends(TokenQueue_push(lexer, id, sent + 1), 1)
    BY <1>3 DEF MF_send
  <2>2. Open(lexer)
    BY <2>1 DEF IInv, Sends
  <2>3. Queued(lexer, TokenQueue_push(lexer, id, sent + 1), received, sent, ~step_error, id, 1)
    BY <1>1, <1>2, <2>2, PushSane
  <2> QED BY <2>1, <2>3, SendSane
<1>4. CASE MF_send_text
  <2>1. PICK id \in {"plain", "repeatable"} :
          Sends(TokenQueue_push_text(lexer, id, sent + 1), 1)
    BY <1>4 DEF MF_send_text
  <2>2. Open(lexer)
    BY <2>1 DEF IInv, Sends
  <2>3. Queued(lexer, TokenQueue_push_text(lexer, id, sent + 1), received, sent, ~step_error, id, 1)
    BY <1>1, <1>2, <2>2, PushTextSane
  <2> QED BY <2>1, <2>3, SendSane
<1>5. CASE MF_send_n
  <2>1. PICK n \in 1 .. MaxRepetition :
          Sends(TokenQueue_push_repeated(lexer, sent + 1, n), n)
    BY <1>5 DEF MF_send_n
  <2>2. Open(lexer) /\ n \in Nat /\ "repeatable" \in {"plain", "repeatable"}
    BY <2>1 DEF IInv, Sends
  <2>3. Queued(lexer, TokenQueue_push_repeated(lexer, sent + 1, n),
               received, sent, ~step_error, "repeatable", n)
    BY <1>1, <2>2, PushRepeatedSane
  <2> QED BY <2>1, <2>2, <2>3, SendSane
<1>6. CASE UserSetsError
  <2>1. "Other" \in Errors \ {"QueueOverflow"}
    BY DEF Errors
  <2>2. /\ lexer' = [lexer EXCEPT !.error_code = "Other"] \/ lexer' = lexer
        /\ UNCHANGED <<phase, left, burst, sent, history>>
    BY <1>6 DEF UserSetsError, MF_error_code_set_if_first
  <2> QED BY <2>1, <2>2, CodeSane
<1>7. CASE MF_error_code_clear
  <2>1. "None" \in Errors \ {"QueueOverflow"}
    BY DEF Errors
  <2> QED BY <1>7, <2>1, CodeSane DEF MF_error_code_clear
<1>8. CASE RunReturns \/ MF_run
  <2>1. /\ phase' \in {"idle", "returned"} /\ lexer' = lexer /\ left' = left /\ burst' = burst
        /\ sent' = sent /\ received' = received /\ step_error' = step_error
        /\ run' \in {"not yet", "success", "error"}
    BY <1>8 DEF RunReturns, MF_run
  <2>2. /\ last' \in Ids \cup {"none"}
        /\ ~(last' = "TERMINATION" /\ phase' = "idle")
    BY <1>1, <1>8 DEF RunReturns, MF_run, TypeOK
  <2>3. IInv'
    BY <1>1, <2>1, <2>2, Assemble DEF TypeOK
  <2> QED BY <2>1, <2>3 DEF OrderStep, OverflowStep
<1>9. CASE RemainderGet
  BY <1>9, RemainderSane
<1> QED BY <1>3, <1>4, <1>5, <1>6, <1>7, <1>8, <1>9 DEF UserStep

LEMMA InitSane == Init => IInv
PROOF
<1> SUFFICES ASSUME Init PROVE IInv
  OBVIOUS
<1>1. 0 \in Slot /\ Blank \in Token /\ "None" \in Errors
  BY CapacityAssumption, RepetitionAssumption DEF Slot, Token, Blank, Ids, Errors
<1>2. /\ lexer = [slots |-> [i \in Slot |-> Blank], read_iterator |-> 0,
                  write_iterator |-> 0, error_code |-> "None"]
      /\ received = 0 /\ sent = 0
  BY DEF Init, ConstructedLexer
<1>3. lexer \in Lexer /\ lexer.read_iterator = 0 /\ lexer.write_iterator = 0
  BY <1>1, <1>2 DEF Lexer
<1>4. TypeOK
  <2>1. left \in 0 .. Lexemes /\ burst \in 0 .. MaxBurst /\ sent \in Nat /\ received \in Nat
    <3>1. left = Lexemes /\ burst = 0 /\ sent = 0 /\ received = 0
      BY DEF Init
    <3>2. Lexemes \in Nat /\ MaxBurst \in Nat
      BY ReceivingAssumption
    <3> QED BY <3>1, <3>2
  <2>2. /\ phase \in {"idle", "matching", "action", "returned"}
        /\ run \in {"not yet", "success", "error"} /\ last \in Ids \cup {"none"}
    BY DEF Init
  <2>3. step_error \in BOOLEAN
    BY Zenon DEF Init
  <2> QED BY <1>3, <2>1, <2>2, <2>3 DEF TypeOK
<1>5. Chain(lexer, received, sent, ~step_error) /\ TerminationLast(lexer)
  BY <1>2, <1>3, CapacityAssumption DEF Chain, TerminationLast, Slot
<1> QED BY <1>4, <1>5 DEF IInv, Init, CompleteAtTermination

LEMMA NextSane == IInv /\ [Next]_vars => IInv' /\ [OrderStep]_vars /\ [OverflowStep]_vars
PROOF
<1> SUFFICES ASSUME IInv, [Next]_vars
             PROVE  IInv' /\ [OrderStep]_vars /\ [OverflowStep]_vars
  OBVIOUS
<1>1. CASE Receive
  BY <1>1, ReceiveSane
<1>2. CASE AnalyserStep
  BY <1>2, AnalyserSane
<1>3. CASE UserStep \/ RunReturns
  BY <1>3, UserSane
<1>4. CASE UNCHANGED vars
  BY <1>4 DEF IInv, vars, TypeOK, CompleteAtTermination
<1> QED BY <1>1, <1>2, <1>3, <1>4 DEF Next

LEMMA Invariance == Spec => []IInv
BY InitSane, NextSane, PTL DEF Spec

(* The queue and the receiver keep their types, whatever the sizes.        *)
THEOREM TypesHold == Spec => []TypeOK
PROOF
<1>1. IInv => TypeOK
  BY DEF IInv
<1> QED BY <1>1, Invariance, PTL

(* Behind TERMINATION nothing remains; all that was queued has arrived,    *)
(* unless a step of the analyser has failed.                               *)
THEOREM Completeness == Spec => []CompleteAtTermination
PROOF
<1>1. IInv => CompleteAtTermination
  BY DEF IInv
<1> QED BY <1>1, Invariance, PTL

(* Tokens arrive in the order in which they were sent, none twice.         *)
THEOREM Order == Spec => InOrder
PROOF
<1>1. IInv /\ [Next]_vars =>
        [received' # received =>
           /\ received' > received
           /\ step_error' \/ RemainderGet \/ received' = received + 1]_vars
  BY NextSane DEF OrderStep
<1> QED BY <1>1, Invariance, PTL DEF Spec, InOrder

-----------------------------------------------------------------------------
(* Nothing is written behind the queue but by an action that has already   *)
(* sent: any other push begins with a place for the token.  What is behind *)
(* the queue of l is still b.                                              *)
Clean(l, b) == l.slots[Capacity] = b

(* What a push writes before it is checked spares the slot behind.         *)
LEMMA WriteClean ==
  ASSUME NEW b, NEW l \in Lexer, ~TokenQueue_is_full(l), Clean(l, b), NEW t
  PROVE  [l.slots EXCEPT ![l.write_iterator] = t][Capacity] = b
PROOF
<1>1. l.slots \in [Slot -> Token] /\ l.write_iterator # Capacity /\ Capacity \in Slot
  BY LexerFields, CapacityAssumption DEF TokenQueue_is_full, Slot
<1> QED BY <1>1 DEF Clean

LEMMA PushCoreClean ==
  ASSUME NEW b, NEW l \in Lexer, ~TokenQueue_is_full(l), Clean(l, b), NEW id, NEW unit
  PROVE  Clean(TokenQueue_push_core(l, id, unit), b)
PROOF
<1> DEFINE k == TokenQueue_push_core(l, id, unit)
           t == [l.slots[l.write_iterator] EXCEPT !.id = id, !.first = unit]
<1>1. k.slots = [l.slots EXCEPT ![l.write_iterator] = t]
  <2>1. l.slots \in [Slot -> Token] /\ l.write_iterator \in Slot
    BY LexerFields
  <2>2. k = [l EXCEPT !.slots = [l.slots EXCEPT ![l.write_iterator] = t],
                      !.write_iterator = l.write_iterator + 1]
    BY <2>1 DEF TokenQueue_push_core, Lexer
  <2> HIDE DEF k, t
  <2> QED BY <2>2 DEF Lexer
<1> HIDE DEF k, t
<1>2. k.slots[Capacity] = b
  BY <1>1, WriteClean
<1> QED BY <1>2 DEF Clean, k

LEMMA SetRepetitionClean ==
  ASSUME NEW b, NEW l \in Lexer, ~TokenQueue_is_full(l), Clean(l, b), NEW n \in 1 .. MaxRepetition,
         NEW k, k = SetRepetition(l, n)
  PROVE  k \in Lexer /\ ~TokenQueue_is_full(k) /\ Clean(k, b)
PROOF
<1> DEFINE t == [l.slots[l.write_iterator] EXCEPT !.n = n]
<1>1. l.slots \in [Slot -> Token] /\ l.write_iterator \in Slot
  BY LexerFields
<1>2. k = [l EXCEPT !.slots = [l.slots EXCEPT ![l.write_iterator] = t]]
  BY <1>1 DEF SetRepetition, Lexer
<1>3. t \in Token
  BY <1>1 DEF Token
<1> HIDE DEF t
<1>4. k.slots = [l.slots EXCEPT ![l.write_iterator] = t] /\ k.write_iterator = l.write_iterator
  BY <1>2 DEF Lexer
<1>5. k \in Lexer
  BY <1>1, <1>2, <1>3 DEF Lexer
<1>6. k.slots[Capacity] = b
  BY <1>4, WriteClean
<1> QED BY <1>4, <1>5, <1>6 DEF TokenQueue_is_full, Clean

LEMMA TakeTextClean ==
  ASSUME NEW b, NEW l \in Lexer, ~TokenQueue_is_full(l), Clean(l, b), NEW unit \in Nat,
         NEW k, k = TakeText(l, unit)
  PROVE  k \in Lexer /\ ~TokenQueue_is_full(k) /\ Clean(k, b)
PROOF
<1> DEFINE t == [l.slots[l.write_iterator] EXCEPT !.text = unit]
<1>1. l.slots \in [Slot -> Token] /\ l.write_iterator \in Slot
  BY LexerFields
<1>2. k = [l EXCEPT !.slots = [l.slots EXCEPT ![l.write_iterator] = t]]
  BY <1>1 DEF TakeText, Lexer
<1>3. t \in Token
  BY <1>1 DEF Token
<1> HIDE DEF t
<1>4. k.slots = [l.slots EXCEPT ![l.write_iterator] = t] /\ k.write_iterator = l.write_iterator
  BY <1>2 DEF Lexer
<1>5. k \in Lexer
  BY <1>1, <1>2, <1>3 DEF Lexer
<1>6. k.slots[Capacity] = b
  BY <1>4, WriteClean
<1> QED BY <1>4, <1>5, <1>6 DEF TokenQueue_is_full, Clean

LEMMA PushClean ==
  ASSUME NEW b, NEW l \in Lexer, ~TokenQueue_is_full(l), Clean(l, b), NEW id, NEW unit
  PROVE  Clean(TokenQueue_push(l, id, unit), b)
PROOF
<1>1. CASE id = "repeatable"
  <2> DEFINE k == SetRepetition(l, 1)
  <2>1. 1 \in 1 .. MaxRepetition /\ k = SetRepetition(l, 1)
    BY RepetitionAssumption
  <2> HIDE DEF k
  <2>2. k \in Lexer /\ ~TokenQueue_is_full(k) /\ Clean(k, b)
    BY <2>1, SetRepetitionClean
  <2>3. TokenQueue_push(l, id, unit) = TokenQueue_push_core(k, id, unit)
    BY <1>1 DEF TokenQueue_push, k
  <2> QED BY <2>2, <2>3, PushCoreClean
<1>2. CASE id # "repeatable"
  <2>1. TokenQueue_push(l, id, unit) = TokenQueue_push_core(l, id, unit)
    BY <1>2 DEF TokenQueue_push
  <2> QED BY <2>1, PushCoreClean
<1> QED BY <1>1, <1>2

LEMMA PushTextClean ==
  ASSUME NEW b, NEW l \in Lexer, ~TokenQueue_is_full(l), Clean(l, b), NEW id, NEW unit \in Nat
  PROVE  Clean(TokenQueue_push_text(l, id, unit), b)
PROOF
<1> DEFINE k == TakeText(l, unit)
<1>1. k = TakeText(l, unit)
  OBVIOUS
<1>2. TokenQueue_push_text(l, id, unit) = TokenQueue_push(k, id, unit)
  BY DEF TokenQueue_push_text
<1> HIDE DEF k
<1>3. k \in Lexer /\ ~TokenQueue_is_full(k) /\ Clean(k, b)
  BY <1>1, TakeTextClean
<1> QED BY <1>2, <1>3, PushClean

LEMMA PushRepeatedClean ==
  ASSUME NEW b, NEW l \in Lexer, ~TokenQueue_is_full(l), Clean(l, b), NEW unit,
         NEW n \in 1 .. MaxRepetition
  PROVE  Clean(TokenQueue_push_repeated(l, unit, n), b)
PROOF
<1> DEFINE k == SetRepetition(l, n)
<1>1. k = SetRepetition(l, n)
  OBVIOUS
<1>2. TokenQueue_push_repeated(l, unit, n) = TokenQueue_push_core(k, "repeatable", unit)
  BY DEF TokenQueue_push_repeated
<1> HIDE DEF k
<1>3. k \in Lexer /\ ~TokenQueue_is_full(k) /\ Clean(k, b)
  BY <1>1, SetRepetitionClean
<1> QED BY <1>2, <1>3, PushCoreClean

LEMMA ResetClean ==
  ASSUME NEW b, NEW l \in Lexer, Clean(l, b), NEW k, k = TokenQueue_reset(l)
  PROVE  k \in Lexer /\ ~TokenQueue_is_full(k) /\ Clean(k, b)
PROOF
<1>1. k = [l EXCEPT !.read_iterator = 0, !.write_iterator = 0]
  BY DEF TokenQueue_reset
<1>2. l.slots \in [Slot -> Token] /\ l.error_code \in Errors /\ 0 \in Slot
  BY LexerFields, CapacityAssumption DEF Slot
<1>3. k \in Lexer
  BY <1>1, <1>2 DEF Lexer
<1>4. k.write_iterator = 0 /\ k.slots = l.slots
  BY <1>1 DEF Lexer
<1> QED BY <1>3, <1>4, CapacityAssumption DEF TokenQueue_is_full, Clean

LEMMA TerminationClean ==
  ASSUME NEW b, NEW l \in Lexer, Clean(l, b), NEW unit \in Nat
  PROVE  Clean(TokenQueue_set_token_TERMINATION(l, unit), b)
PROOF
<1> DEFINE k == TokenQueue_reset(l)
<1>1. k = TokenQueue_reset(l)
  OBVIOUS
<1>2. TokenQueue_set_token_TERMINATION(l, unit) = TokenQueue_push_text(k, "TERMINATION", unit)
  BY DEF TokenQueue_set_token_TERMINATION
<1> HIDE DEF k
<1>3. k \in Lexer /\ ~TokenQueue_is_full(k) /\ Clean(k, b)
  BY <1>1, ResetClean
<1> QED BY <1>2, <1>3, PushTextClean

LEMMA PopClean ==
  ASSUME NEW b, NEW l \in Lexer, Clean(l, b), ~TokenQueue_is_empty(l),
         l.read_iterator <= l.write_iterator
  PROVE  Clean(TokenQueue_pop(l), b)
PROOF
<1> DEFINE k == TokenQueue_pop(l)
           t == [l.slots[l.read_iterator] EXCEPT
                   !.n = l.slots[l.read_iterator].n - 1,
                   !.first = l.slots[l.read_iterator].first + 1]
<1>1. /\ l.slots \in [Slot -> Token] /\ l.read_iterator \in Slot
      /\ l.read_iterator # Capacity /\ Capacity \in Slot
  BY LexerFields, CapacityAssumption DEF TokenQueue_is_empty, Slot
<1>2. CASE NextToken(l).id = "repeatable" /\ NextToken(l).n > 1
  <2>1. k = [l EXCEPT !.slots[l.read_iterator].n     = l.slots[l.read_iterator].n - 1,
                      !.slots[l.read_iterator].first = l.slots[l.read_iterator].first + 1]
    BY <1>2 DEF TokenQueue_pop
  <2>2. k = [l EXCEPT !.slots = [l.slots EXCEPT ![l.read_iterator] = t]]
    BY <1>1, <2>1 DEF Lexer
  <2> HIDE DEF k, t
  <2>3. k.slots = [l.slots EXCEPT ![l.read_iterator] = t]
    BY <2>2 DEF Lexer
  <2> QED BY <1>1, <2>3 DEF Clean, k
<1>3. CASE ~(NextToken(l).id = "repeatable" /\ NextToken(l).n > 1)
  <2>1. k = [l EXCEPT !.read_iterator = l.read_iterator + 1]
    BY <1>3 DEF TokenQueue_pop
  <2> HIDE DEF k
  <2> QED BY <2>1 DEF Clean, Lexer, k
<1> QED BY <1>2, <1>3

(* Analysis ends with a clean queue l.                                     *)
LEMMA ReturnsClean ==
  ASSUME NEW b, NEW l \in Lexer, Clean(l, b), l.read_iterator <= l.write_iterator,
         sent' = sent, sent \in Nat, Returns(l)
  PROVE  Clean(lexer', b)
PROOF
<1>1. CASE Deliver(TokenQueue_set_token_TERMINATION(l, sent' + 1))
  <2> DEFINE k == TokenQueue_set_token_TERMINATION(l, sent + 1)
  <2>k. k = TokenQueue_set_token_TERMINATION(l, sent + 1)
    OBVIOUS
  <2>1. Clean(k, b)
    BY TerminationClean
  <2>2. 0 \in Nat /\ 0 <= sent /\ FALSE \in BOOLEAN /\ (FALSE => 0 = sent)
    OBVIOUS
  <2> HIDE DEF k
  <2>3. Chain(k, 0, sent, FALSE) /\ ~TokenQueue_is_empty(k)
    BY <2>k, <2>2, TerminationSane
  <2>4. k \in Lexer /\ k.read_iterator <= k.write_iterator
    BY <2>3 DEF Chain
  <2>5. lexer' = TokenQueue_pop(k)
    BY <1>1 DEF Deliver, k
  <2> QED BY <2>1, <2>3, <2>4, <2>5, PopClean
<1>2. CASE lexer' = l
  BY <1>2
<1>3. CASE ~TokenQueue_is_empty(l) /\ Deliver(l)
  BY <1>3, PopClean DEF Deliver
<1> QED BY <1>1, <1>2, <1>3 DEF Returns

LEMMA NextClean ==
  ASSUME IInv, [Next]_vars, ~(phase = "action" /\ burst > 0 /\ burst < MaxBurst),
         NEW b, Clean(lexer, b)
  PROVE  Clean(lexer', b)
PROOF
<1>1. /\ sent \in Nat /\ lexer \in Lexer /\ lexer.read_iterator <= lexer.write_iterator
      /\ burst \in 0 .. MaxBurst /\ MaxBurst \in Nat
  BY ReceivingAssumption DEF IInv, TypeOK, Chain
<1>2. ASSUME NEW l, lexer' = l, l.slots = lexer.slots
      PROVE  Clean(lexer', b)
  BY <1>2 DEF Clean
<1>3. ASSUME NEW l, NEW u, Sends(l, u)
      PROVE  ~TokenQueue_is_full(lexer) /\ lexer' = l
  <2>1. phase = "action" /\ burst < MaxBurst /\ lexer' = l
    BY <1>3 DEF Sends
  <2>2. burst = 0
    BY <1>1, <2>1
  <2> QED BY <2>1, <2>2 DEF IInv
<1>4. CASE Receive
  <2>1. CASE ~TokenQueue_is_empty(lexer) /\ Deliver(lexer)
    BY <1>1, <2>1, PopClean DEF Deliver
  <2>2. CASE Deliver(TokenQueue_set_token_TERMINATION(lexer, sent + 1))
    <3> DEFINE k == TokenQueue_set_token_TERMINATION(lexer, sent + 1)
    <3>k. k = TokenQueue_set_token_TERMINATION(lexer, sent + 1)
      OBVIOUS
    <3>1. Clean(k, b)
      BY <1>1, TerminationClean
    <3>2. 0 \in Nat /\ 0 <= sent /\ FALSE \in BOOLEAN /\ (FALSE => 0 = sent)
      BY <1>1
    <3> HIDE DEF k
    <3>3. Chain(k, 0, sent, FALSE) /\ ~TokenQueue_is_empty(k)
      BY <1>1, <3>k, <3>2, TerminationSane
    <3>4. k \in Lexer /\ k.read_iterator <= k.write_iterator
      BY <3>3 DEF Chain
    <3>5. lexer' = TokenQueue_pop(k)
      BY <2>2 DEF Deliver, k
    <3> QED BY <3>1, <3>3, <3>4, <3>5, PopClean
  <2>3. CASE lexer' = TokenQueue_reset(lexer)
    BY <1>1, <2>3, ResetClean
  <2> QED BY <1>4, <2>1, <2>2, <2>3 DEF Receive
<1>5. CASE Match
  BY <1>5 DEF Match
<1>6. ASSUME NEW l \in Lexer, Clean(l, b), l.read_iterator = 0, ~TokenQueue_is_full(l), Open(l),
             Chain(l, received, sent, ~step_error), sent' = sent,
             Returns(TokenQueue_push(l, "TERMINATION", sent + 1))
      PROVE  Clean(lexer', b)
  <2> DEFINE k == TokenQueue_push(l, "TERMINATION", sent + 1)
  <2>1. Clean(k, b)
    BY <1>1, <1>6, PushClean
  <2>2. "TERMINATION" \in Ids /\ received \in Nat /\ (~step_error) \in BOOLEAN
    <3>1. (~step_error) \in BOOLEAN
      BY Zenon
    <3> QED BY <3>1 DEF Ids, IInv, TypeOK
  <2>3. Queued(l, k, received, sent, ~step_error, "TERMINATION",
               IF "TERMINATION" = "TERMINATION" THEN 0 ELSE 1)
    BY <1>1, <1>6, <2>2, PushSane
  <2> HIDE DEF k
  <2>4. k \in Lexer /\ k.read_iterator <= k.write_iterator
    BY <1>6, <2>3 DEF Queued, Chain
  <2>5. Returns(k)
    BY <1>6 DEF k
  <2> QED BY <1>1, <1>6, <2>1, <2>4, <2>5, ReturnsClean
<1>7. ASSUME phase = "matching"
      PROVE  /\ Open(lexer) /\ lexer.read_iterator = 0 /\ ~TokenQueue_is_full(lexer)
             /\ Chain(lexer, received, sent, ~step_error)
  BY <1>7 DEF IInv
<1>8. CASE Failure
  <2> DEFINE failed == MF_error_code_set_if_first(lexer, "Failure")
  <2>1. /\ phase = "matching" /\ sent' = sent
        /\ \/ Returns(TokenQueue_push(failed, "TERMINATION", sent + 1))
           \/ Returns(failed)
    BY <1>8 DEF Failure
  <2>2. \/ failed = [lexer EXCEPT !.error_code = "Failure"]
        \/ failed = lexer
    BY DEF MF_error_code_set_if_first
  <2>3. "Failure" \in Errors /\ received \in Nat /\ (~step_error) \in BOOLEAN
    <3>1. (~step_error) \in BOOLEAN
      BY Zenon
    <3> QED BY <3>1 DEF Errors, IInv, TypeOK
  <2> HIDE DEF failed
  <2>4. Chain(failed, received, sent, ~step_error) /\ Open(failed)
    BY <1>1, <1>7, <2>1, <2>2, <2>3, ErrorSane
  <2>5. /\ failed \in Lexer /\ failed.read_iterator = 0 /\ ~TokenQueue_is_full(failed)
        /\ Clean(failed, b) /\ failed.read_iterator <= failed.write_iterator
    <3>1. /\ failed.slots = lexer.slots /\ failed.read_iterator = lexer.read_iterator
          /\ failed.write_iterator = lexer.write_iterator
      BY <1>1, <2>2 DEF Lexer
    <3>2. failed \in Lexer
      BY <2>4 DEF Chain
    <3> QED BY <1>1, <1>7, <2>1, <3>1, <3>2 DEF TokenQueue_is_full, Clean
  <2> QED BY <1>1, <1>6, <2>1, <2>4, <2>5, ReturnsClean
<1>9. CASE EndOfStream
  BY <1>1, <1>6, <1>7, <1>9 DEF EndOfStream
<1>10. CASE Flush
  BY <1>1, <1>10, ReturnsClean DEF Flush
<1>11. CASE Continue
  BY <1>1, <1>11, ReturnsClean DEF Continue
<1>12. CASE MF_send
  <2>1. PICK id \in {"plain", "repeatable"} : Sends(TokenQueue_push(lexer, id, sent + 1), 1)
    BY <1>12 DEF MF_send
  <2> QED BY <1>1, <1>3, <2>1, PushClean
<1>13. CASE MF_send_text
  <2>1. PICK id \in {"plain", "repeatable"} :
          Sends(TokenQueue_push_text(lexer, id, sent + 1), 1)
    BY <1>13 DEF MF_send_text
  <2> QED BY <1>1, <1>3, <2>1, PushTextClean
<1>14. CASE MF_send_n
  <2>1. PICK n \in 1 .. MaxRepetition :
          Sends(TokenQueue_push_repeated(lexer, sent + 1, n), n)
    BY <1>14 DEF MF_send_n
  <2> QED BY <1>1, <1>3, <2>1, PushRepeatedClean
<1>15. CASE RemainderGet
  BY <1>1, <1>15, ResetClean DEF RemainderGet
<1>16. CASE UserSetsError \/ MF_error_code_clear
  <2>1. PICK code \in Errors : lexer' = [lexer EXCEPT !.error_code = code] \/ lexer' = lexer
    BY <1>16 DEF UserSetsError, MF_error_code_clear, MF_error_code_set_if_first, Errors
  <2> QED BY <1>1, <2>1 DEF Clean, Lexer
<1>17. CASE RunReturns \/ MF_run \/ UNCHANGED vars
  BY <1>17 DEF RunReturns, MF_run, vars
<1> QED
  BY <1>4, <1>5, <1>8, <1>9, <1>10, <1>11, <1>12, <1>13, <1>14, <1>15, <1>16, <1>17
  DEF Next, AnalyserStep, UserStep

LEMMA BehindSane ==
  IInv /\ [Next]_vars =>
    (lexer'.slots[Capacity] # lexer.slots[Capacity] =>
       phase = "action" /\ burst > 0 /\ burst < MaxBurst)
PROOF
<1> SUFFICES ASSUME IInv, [Next]_vars, ~(phase = "action" /\ burst > 0 /\ burst < MaxBurst)
             PROVE  lexer'.slots[Capacity] = lexer.slots[Capacity]
  OBVIOUS
<1> DEFINE b == lexer.slots[Capacity]
<1>1. Clean(lexer, b)
  BY DEF Clean
<1> HIDE DEF b
<1>2. Clean(lexer', b)
  BY <1>1, NextClean
<1> QED BY <1>2 DEF Clean, b

(* Only an action that sends more than once can overflow the queue, or     *)
(* write behind it.                                                        *)
THEOREM Overflow == Spec => OverflowOnlyByBurst
PROOF
<1>1. IInv /\ [Next]_vars =>
        [\/ lexer'.error_code = "QueueOverflow" /\ lexer.error_code # "QueueOverflow"
         \/ lexer'.slots[Capacity] # lexer.slots[Capacity]
         => phase = "action" /\ burst > 0]_vars
  BY NextSane, BehindSane DEF OverflowStep, vars
<1> QED BY <1>1, Invariance, PTL DEF Spec, OverflowOnlyByBurst

(* With at most one send per action, nothing is written behind the queue.  *)
THEOREM QueueHasRoom == MaxBurst <= 1 => (Spec => []NothingBehindQueue)
PROOF
<1> SUFFICES ASSUME MaxBurst <= 1 PROVE Spec => []NothingBehindQueue
  OBVIOUS
<1>1. Init => NothingBehindQueue
  <2>1. Capacity \in Slot
    BY CapacityAssumption DEF Slot
  <2>2. Init => lexer = [slots |-> [i \in Slot |-> Blank], read_iterator |-> 0,
                         write_iterator |-> 0, error_code |-> "None"]
    BY DEF Init, ConstructedLexer
  <2> QED BY <2>1, <2>2 DEF NothingBehindQueue
<1>2. IInv /\ NothingBehindQueue /\ [Next]_vars => NothingBehindQueue'
  <2> SUFFICES ASSUME IInv, NothingBehindQueue, [Next]_vars PROVE NothingBehindQueue'
    OBVIOUS
  <2>1. burst \in 0 .. MaxBurst /\ MaxBurst \in Nat
    BY ReceivingAssumption DEF IInv, TypeOK
  <2>2. ~(burst > 0 /\ burst < MaxBurst)
    BY <2>1
  <2>3. lexer'.slots[Capacity] = lexer.slots[Capacity]
    BY <2>2, BehindSane
  <2>4. Blank' = Blank
    BY DEF Blank
  <2> QED BY <2>3, <2>4 DEF NothingBehindQueue
<1> QED BY <1>1, <1>2, Invariance, PTL DEF Spec
=============================================================================
