----------------------------- MODULE TokenQueue -----------------------------
(***************************************************************************)
(* The token queue of src/quex/code_base/token/TokenQueue.i, as functions  *)
(* on a record that holds the queue and the analyser's error code.  Slots  *)
(* count from 'begin', which is 0; 'end' is Capacity, so that the slot     *)
(* Capacity is the memory behind the queue.                                *)
(*                                                                         *)
(* A token stands for one unit, or for several if its identifier allows    *)
(* repetition.  Units are numbered as they are sent; 'first' is the next   *)
(* unit that the token stands for.  It is not part of the program, it      *)
(* tells the tokens apart, as does 'text', the text a token has taken.     *)
(***************************************************************************)
EXTENDS Integers

CONSTANTS
  Capacity,        \* QUEX_SETTING_TOKEN_QUEUE_SIZE
  MaxRepetition    \* the greatest RepetitionN of a send_n

ASSUME CapacityAssumption   == Capacity \in Nat \ {0}
ASSUME RepetitionAssumption == MaxRepetition \in Nat \ {0}

Ids      == {"plain", "repeatable", "TERMINATION"}
Errors   == {"None", "QueueOverflow", "Failure", "Other"}
Slot     == 0 .. Capacity
Token    == [id : Ids, first : Nat, n : 1 .. MaxRepetition, text : Nat]

Lexer == [slots : [Slot -> Token], read_iterator : Slot, write_iterator : Slot,
          error_code : Errors]

Blank == [id |-> "plain", first |-> 0, n |-> 1, text |-> 0]

(* TokenQueue_construct *)
ConstructedLexer ==
  [slots |-> [i \in Slot |-> Blank], read_iterator |-> 0, write_iterator |-> 0,
   error_code |-> "None"]

TokenQueue_reset(l)    == [l EXCEPT !.read_iterator = 0, !.write_iterator = 0]
TokenQueue_is_full(l)  == l.write_iterator >= Capacity
TokenQueue_is_empty(l) == l.read_iterator = l.write_iterator

MF_error_code_set_if_first(l, code) ==
  IF l.error_code = "None" THEN [l EXCEPT !.error_code = code] ELSE l

-----------------------------------------------------------------------------
TokenQueue_push_core(l, id, unit) ==
  IF TokenQueue_is_full(l) THEN [l EXCEPT !.error_code = "QueueOverflow"]
  ELSE [l EXCEPT !.slots[l.write_iterator].id    = id,
                 !.slots[l.write_iterator].first = unit,
                 !.write_iterator = l.write_iterator + 1]

(* What a token has besides its identifier is written before it is checked *)
(* whether there is a place for it.                                        *)
SetRepetition(l, n) == [l EXCEPT !.slots[l.write_iterator].n = n]
TakeText(l, unit)   == [l EXCEPT !.slots[l.write_iterator].text = unit]

TokenQueue_push(l, id, unit) ==
  TokenQueue_push_core(IF id = "repeatable" THEN SetRepetition(l, 1) ELSE l, id, unit)

TokenQueue_push_text(l, id, unit) ==
  TokenQueue_push(TakeText(l, unit), id, unit)

TokenQueue_push_repeated(l, unit, n) ==
  TokenQueue_push_core(SetRepetition(l, n), "repeatable", unit)

(* The only token of the queue is TERMINATION, with an empty text.         *)
TokenQueue_set_token_TERMINATION(l, unit) ==
  TokenQueue_push_text(TokenQueue_reset(l), "TERMINATION", unit)

-----------------------------------------------------------------------------
Units(token) ==
  CASE token.id = "TERMINATION" -> 0
    [] token.id = "plain"       -> 1
    [] token.id = "repeatable"  -> token.n

(* The token that a pop returns, and the queue afterwards.                 *)
NextToken(l) == l.slots[l.read_iterator]

(* Mutant: a token with one repetition left is not taken off.              *)
PopOncePerRepetition(l) ==
  IF NextToken(l).id = "repeatable" /\ NextToken(l).n > 2
  THEN [l EXCEPT !.slots[l.read_iterator].n     = @ - 1,
                 !.slots[l.read_iterator].first = @ + 1]
  ELSE [l EXCEPT !.read_iterator = l.read_iterator + 1]

TokenQueue_pop(l) ==
  IF NextToken(l).id = "repeatable" /\ NextToken(l).n > 1
  THEN [l EXCEPT !.slots[l.read_iterator].n     = @ - 1,
                 !.slots[l.read_iterator].first = @ + 1]
  ELSE [l EXCEPT !.read_iterator = l.read_iterator + 1]
=============================================================================
