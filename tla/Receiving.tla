----------------------------- MODULE Receiving ------------------------------
(***************************************************************************)
(* From a pattern's action to the receiver: MF_run and MF_receive          *)
(* (src/quex/code_base/token/receiving.i) around an analyser function that *)
(* sends tokens, continues, returns and fails as the generated code and    *)
(* the user's actions do.  What is matched is left open; the stream is the *)
(* number of lexemes that it still has.                                    *)
(*                                                                         *)
(*   idle      inside the callback of MF_run; the user's code runs         *)
(*   matching  the analyser function looks for the next lexeme             *)
(*   action    the action of a pattern that has matched                    *)
(*   returned  MF_run has returned                                         *)
(***************************************************************************)
EXTENDS TokenQueue

CONSTANTS
  Lexemes,         \* how many lexemes the stream has
  MaxBurst,        \* how many times the action of one pattern may send
  Failures,        \* a lexeme may fail to match, or to load
  UserErrors       \* the user's code sets and clears the error code

ASSUME ReceivingAssumption ==
  /\ Lexemes \in Nat /\ MaxBurst \in Nat
  /\ Failures \in BOOLEAN /\ UserErrors \in BOOLEAN

VARIABLES
  lexer,           \* me->_token_queue and me->error_code
  phase,
  left,            \* lexemes that the stream still has
  burst,           \* sends of the current action
  run,             \* what MF_run has returned
  sent,            \* how many units have been queued
  received,        \* the last unit that the receiver got
  last,            \* the identifier of the last token passed to the callback
  step_error       \* a step of the analyser has returned with an error
vars == <<lexer, phase, left, burst, run, sent, received, last, step_error>>
history == <<run, received, last, step_error>>

TypeOK ==
  /\ lexer \in Lexer
  /\ phase \in {"idle", "matching", "action", "returned"}
  /\ left \in 0 .. Lexemes /\ burst \in 0 .. MaxBurst
  /\ run \in {"not yet", "success", "error"}
  /\ sent \in Nat /\ received \in Nat
  /\ last \in Ids \cup {"none"} /\ step_error \in BOOLEAN

Init ==
  /\ lexer = ConstructedLexer
  /\ phase = "idle" /\ run = "not yet"
  /\ left = Lexemes /\ burst = 0
  /\ sent = 0 /\ received = 0
  /\ last = "none" /\ step_error = FALSE

-----------------------------------------------------------------------------
(* The receiver is given the next token of the queue.                      *)
Deliver(l) ==
  /\ lexer' = TokenQueue_pop(l)
  /\ last'  = NextToken(l).id
  /\ received' = IF NextToken(l).id = "TERMINATION" THEN received ELSE NextToken(l).first
  /\ phase' = "idle"

(* Mutant: a new analysis begins although tokens remain.                   *)
ReceiveForgetsRemainder ==
  /\ phase = "idle" /\ last # "TERMINATION"
  /\ lexer' = TokenQueue_reset(lexer)
  /\ phase' = "matching"
  /\ UNCHANGED <<received, last, left, burst, run, sent, step_error>>

(* MF_receive up to the analysis, with remaining_token_pop: a token that   *)
(* remains, or TERMINATION upon error, or a new analysis.                  *)
Receive ==
  /\ phase = "idle" /\ last # "TERMINATION"
  /\ \/ /\ ~TokenQueue_is_empty(lexer)
        /\ Deliver(lexer)
     \/ /\ TokenQueue_is_empty(lexer) /\ lexer.error_code # "None"
        /\ Deliver(TokenQueue_set_token_TERMINATION(lexer, sent + 1))
     \/ /\ TokenQueue_is_empty(lexer) /\ lexer.error_code = "None"
        /\ lexer' = TokenQueue_reset(lexer)
        /\ phase' = "matching"
        /\ UNCHANGED <<received, last>>
  /\ UNCHANGED <<left, burst, run, sent, step_error>>

(* MF_receive when the analyser function has returned.                     *)
Returns(l) ==
  /\ \/ /\ l.error_code # "None"
        /\ Deliver(TokenQueue_set_token_TERMINATION(l, sent' + 1))
     \/ /\ l.error_code = "None" /\ TokenQueue_is_empty(l)
        /\ lexer' = l
        /\ phase' = "matching"
        /\ UNCHANGED <<received, last>>
     \/ /\ l.error_code = "None" /\ ~TokenQueue_is_empty(l)
        /\ Deliver(l)
  /\ step_error' = (step_error \/ l.error_code # "None")
  /\ burst' = 0
  /\ UNCHANGED run

-----------------------------------------------------------------------------
Match ==
  /\ phase = "matching" /\ left > 0
  /\ left' = left - 1
  /\ phase' = "action"
  /\ UNCHANGED <<lexer, burst, sent, history>>

(* The handlers of failures set the error code, send TERMINATION and       *)
(* return; a reload that fails sets it and returns.                        *)
Failure ==
  /\ Failures /\ phase = "matching" /\ left > 0
  /\ left' = left - 1
  /\ UNCHANGED sent
  /\ LET failed == MF_error_code_set_if_first(lexer, "Failure")
     IN  \/ Returns(TokenQueue_push(failed, "TERMINATION", sent + 1))
         \/ Returns(failed)

(* Mutant: on_end_of_stream only returns.                                  *)
EndOfStreamIsSilent ==
  /\ phase = "matching" /\ left = 0
  /\ UNCHANGED <<left, sent>>
  /\ Returns(lexer)

EndOfStream ==
  /\ phase = "matching" /\ left = 0
  /\ UNCHANGED <<left, sent>>
  /\ Returns(TokenQueue_push(lexer, "TERMINATION", sent + 1))

(* A send of the action: units that found a place in the queue count.      *)
Sends(l, units) ==
  /\ phase = "action" /\ burst < MaxBurst
  /\ lexer' = l
  /\ sent' = IF TokenQueue_is_full(lexer) THEN sent ELSE sent + units
  /\ burst' = burst + 1
  /\ UNCHANGED <<phase, left, history>>

MF_send        == \E id \in {"plain", "repeatable"} :
                    Sends(TokenQueue_push(lexer, id, sent + 1), 1)
MF_send_text   == \E id \in {"plain", "repeatable"} :
                    Sends(TokenQueue_push_text(lexer, id, sent + 1), 1)
MF_send_n      == \E n \in 1 .. MaxRepetition :
                    Sends(TokenQueue_push_repeated(lexer, sent + 1, n), n)

(* FLUSH, or the plain end of an action.                                   *)
Flush ==
  /\ phase = "action"
  /\ UNCHANGED <<left, sent>>
  /\ Returns(lexer)

(* Mutant: the analysis goes on although the queue is full.                *)
ContinueAlways ==
  /\ phase = "action"
  /\ UNCHANGED <<left, sent>>
  /\ lexer' = lexer /\ phase' = "matching" /\ burst' = 0
  /\ UNCHANGED history

(* CONTINUE: the next lexeme, unless the queue is full.                    *)
Continue ==
  /\ phase = "action"
  /\ UNCHANGED <<left, sent>>
  /\ \/ /\ TokenQueue_is_full(lexer)
        /\ Returns(lexer)
     \/ /\ ~TokenQueue_is_full(lexer)
        /\ lexer' = lexer /\ phase' = "matching" /\ burst' = 0
        /\ UNCHANGED history

-----------------------------------------------------------------------------
(* TokenQueue_remainder_get: the user takes all tokens that remain.  The   *)
(* loop of MF_run does not see them, be TERMINATION among them or not.     *)
RemainderGet ==
  /\ phase = "idle" /\ ~TokenQueue_is_empty(lexer)
  /\ LET back == lexer.slots[lexer.write_iterator - 1]
     IN  received' = back.first + Units(back) - 1
  /\ lexer' = TokenQueue_reset(lexer)
  /\ UNCHANGED <<phase, left, burst, run, sent, last, step_error>>

UserSetsError ==
  /\ UserErrors /\ phase \in {"idle", "action"}
  /\ lexer' = MF_error_code_set_if_first(lexer, "Other")
  /\ UNCHANGED <<phase, left, burst, sent, history>>

MF_error_code_clear ==
  /\ UserErrors /\ phase \in {"idle", "returned"}
  /\ lexer' = [lexer EXCEPT !.error_code = "None"]
  /\ UNCHANGED <<phase, left, burst, sent, history>>

(* The loop of MF_run ends behind TERMINATION, or when the callback says.  *)
RunReturns ==
  /\ phase = "idle" /\ last # "none"
  /\ phase' = "returned"
  /\ run' = IF lexer.error_code = "None" THEN "success" ELSE "error"
  /\ UNCHANGED <<lexer, left, burst, sent, received, last, step_error>>

MF_run ==
  /\ phase = "returned"
  /\ phase' = "idle" /\ last' = "none" /\ run' = "not yet"
  /\ UNCHANGED <<lexer, left, burst, sent, received, step_error>>

AnalyserStep == Match \/ Failure \/ EndOfStream \/ Flush \/ Continue
UserStep     == MF_send \/ MF_send_text \/ MF_send_n \/ RemainderGet
                \/ UserSetsError \/ MF_error_code_clear \/ MF_run
Next == Receive \/ RunReturns \/ AnalyserStep \/ UserStep

Spec     == Init /\ [][Next]_vars
(* MF_run, MF_receive and the analyser function run until they return, and *)
(* the user's actions end.                                                 *)
FairSpec == Spec /\ WF_vars(Receive \/ RunReturns) /\ WF_vars(AnalyserStep)

-----------------------------------------------------------------------------
(* Units come in the order in which they were sent, none twice; and none   *)
(* is left out before a step of the analyser has ended with an error.      *)
InOrder ==
  [][received' # received =>
       /\ received' > received
       /\ step_error' \/ RemainderGet \/ received' = received + 1]_vars

(* Behind TERMINATION nothing remains, and all that was sent has arrived:  *)
(* the queue is neither reset nor overwritten too early.                   *)
CompleteAtTermination ==
  last = "TERMINATION" /\ phase = "idle" =>
    TokenQueue_is_empty(lexer) /\ (step_error \/ received = sent)

(* At the begin of an action there is a place for a token, thus it takes   *)
(* an action that sends twice to overflow the queue, or to write behind    *)
(* it; TERMINATION at the end of the stream always finds its place.        *)
OverflowOnlyByBurst ==
  [][\/ lexer'.error_code = "QueueOverflow" /\ lexer.error_code # "QueueOverflow"
     \/ lexer'.slots[Capacity] # lexer.slots[Capacity]
     => phase = "action" /\ burst > 0]_vars

(* "End of token queue has not been reached" (the assertion before         *)
(* sending): nothing is ever written behind the queue.                     *)
NothingBehindQueue == lexer.slots[Capacity] = Blank

(* MF_run returns: the stream, an error or the callback ends it.           *)
RunEnds == [](phase # "returned" => <>(phase = "returned"))
=============================================================================
