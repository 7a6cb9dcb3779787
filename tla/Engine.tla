------------------------------- MODULE Engine -------------------------------
(***************************************************************************)
(* A generated analyser reading its stream through the buffer.  The        *)
(* pattern matching itself is left open: whether a step stores an          *)
(* acceptance position, goes on, or drops out is any choice a state        *)
(* machine could make.  What is exact is what each choice does to the      *)
(* buffer, and when a reload happens (output/core/base.py,                 *)
(* output/languages/cpp/dictionary.py).                                    *)
(*                                                                         *)
(*   idle      between two analysis steps; the user's code runs            *)
(*   backward  the pre-context is looked for, towards the stream's begin   *)
(*   forward   a lexeme is being matched                                   *)
(*   dropout   the stream is exhausted, the lexeme ends                    *)
(*   ended     END_OF_STREAM was reported                                  *)
(*   stopped   an error was reported; the analysis does not go on          *)
(***************************************************************************)
EXTENDS BufferSeek

CONSTANTS
  PreContexts,     \* some pattern has a pre-context
  Registers,       \* some pattern stores its acceptance position
  SeekTargets,     \* arguments of the user's seek()
  UserUndo         \* the user's code calls undo()

ASSUME EngineAssumption ==
  /\ PreContexts \in BOOLEAN /\ Registers \in BOOLEAN /\ UserUndo \in BOOLEAN
  /\ SeekTargets \subseteq Nat

VARIABLES
  b,               \* me->buffer, its filler's position and position[0]
  phase,           \* where the analyser function stands
  input,           \* the local variable 'input'
  load_result      \* the result of the last reload
vars == <<b, phase, input, load_result>>

LoadResults == {"DONE", "NO_MORE_DATA", "ENCODING_ERROR", "OVERFLOW", "FAILURE"}
Phases      == {"idle", "backward", "forward", "dropout", "ended", "stopped"}

TypeOK ==
  /\ b \in BufferRecord
  /\ phase \in Phases
  /\ input \in Cell \cup {NULL}
  /\ load_result \in LoadResults

Init ==
  /\ b = ConstructedBuffer
  /\ phase = "idle"
  /\ input = NULL
  /\ load_result = "DONE"

(* Re-entry of the analyser function: the lexeme starts at _read_p.        *)
StartStep ==
  /\ phase = "idle"
  /\ b' = [b EXCEPT !.lexeme_start_p = b.read_p, !.position = NULL]
  /\ phase' = IF PreContexts THEN "backward" ELSE "forward"
  /\ input' = NULL
  /\ UNCHANGED load_result

-----------------------------------------------------------------------------
BackwardStep ==
  /\ phase = "backward" /\ input # Border
  /\ b.read_p > 0
  /\ b' = [b EXCEPT !.read_p = b.read_p - 1]
  /\ input' = b.mem[b.read_p - 1]
  /\ UNCHANGED <<phase, load_result>>

(* Mutant: the check goes on although there is no more data.               *)
ReloadBackwardForEver ==
  /\ phase = "backward" /\ input = Border
  /\ \E r \in Buffer_load_backward(b) :
       /\ b' = r.b
       /\ load_result' = r.result
       /\ phase' = IF r.result \in {"DONE", "NO_MORE_DATA"} THEN "backward" ELSE "stopped"
       /\ input' = IF r.result \in {"DONE", "NO_MORE_DATA"} THEN r.b.mem[r.b.read_p] ELSE NULL

(* RELOAD_BACKWARD: without more data the pre-context check drops out.     *)
BackwardReload ==
  /\ phase = "backward" /\ input = Border
  /\ \E r \in Buffer_load_backward(b) :
       /\ b' = r.b
       /\ load_result' = r.result
       /\ phase' = IF r.result \in {"DONE", "NO_MORE_DATA"} THEN "backward" ELSE "stopped"
       /\ input' = IF r.result = "DONE" THEN r.b.mem[r.b.read_p] ELSE NULL

(* Mutant: the stored position of the lexeme start stays in force.         *)
EndPreContextKeepsBackup ==
  /\ phase = "backward" /\ input # Border
  /\ \/ /\ b.backup = NULL
        /\ b' = [b EXCEPT !.read_p = b.lexeme_start_p]
        /\ phase' = "forward"
     \/ /\ b.backup # NULL
        /\ \E r \in Buffer_seek(b, b.backup) :
             /\ b' = [r.b EXCEPT !.lexeme_start_p = r.b.read_p]
             /\ phase' = IF r.ok THEN "forward" ELSE "stopped"
  /\ input' = NULL
  /\ UNCHANGED load_result

(* The epilog of the pre-context check: back to where the lexeme starts,   *)
(* by a seek if the lexeme start had to leave the buffer.                  *)
EndPreContext ==
  /\ phase = "backward" /\ input # Border
  /\ \/ /\ b.backup = NULL
        /\ b' = [b EXCEPT !.read_p = b.lexeme_start_p]
        /\ phase' = "forward"
     \/ /\ b.backup # NULL
        /\ \E r \in Buffer_seek(b, b.backup) :
             IF r.ok
             THEN /\ b' = [r.b EXCEPT !.lexeme_start_p = r.b.read_p, !.backup = NULL]
                  /\ phase' = "forward"
             ELSE /\ b' = r.b
                  /\ phase' = "stopped"
  /\ input' = NULL
  /\ UNCHANGED load_result

-----------------------------------------------------------------------------
(* Positions that a lexeme may end at, up to the place p.                  *)
LexemeEnds(p) == b.lexeme_start_p + 1 .. p

(* One lexatom.  A state's entry may store the position, less an offset.   *)
ForwardStep ==
  /\ phase = "forward"
  /\ b.mem[b.read_p] # Border
  /\ input' = b.mem[b.read_p]
  /\ \E stored \in {b.position} \cup (IF Registers THEN LexemeEnds(b.read_p + 1) ELSE {}) :
       b' = [b EXCEPT !.read_p = b.read_p + 1, !.position = stored]
  /\ UNCHANGED <<phase, load_result>>

(* RELOAD_FORWARD *)
ForwardReload ==
  /\ phase = "forward"
  /\ b.mem[b.read_p] = Border
  /\ \E r \in Buffer_load_forward(b) :
       /\ b' = r.b
       /\ load_result' = r.result
       /\ phase' = CASE r.result = "DONE"         -> "forward"
                     [] r.result = "NO_MORE_DATA" -> "dropout"
                     [] OTHER                     -> "stopped"
  /\ UNCHANGED input

(* The three ways a drop-out positions _read_p (POSITIONING): so many      *)
(* lexatoms back, to a stored position, or behind the lexeme's first.      *)
AcceptHere ==
  /\ phase \in {"forward", "dropout"}
  /\ \E p \in LexemeEnds(b.read_p) :
       b' = [b EXCEPT !.read_p = p, !.position = NULL]
  /\ phase' = "idle"
  /\ UNCHANGED <<input, load_result>>

AcceptStored ==
  /\ phase \in {"forward", "dropout"}
  /\ b.position \in Addr      \* reading through a dangling one is undefined
  /\ b' = [b EXCEPT !.read_p = b.position, !.position = NULL]
  /\ phase' = "idle"
  /\ UNCHANGED <<input, load_result>>

MatchFailure ==
  /\ phase \in {"forward", "dropout"}
  /\ b.lexeme_start_p < b.end_p
  /\ b' = [b EXCEPT !.read_p = b.lexeme_start_p + 1, !.position = NULL]
  /\ phase' = "idle"
  /\ UNCHANGED <<input, load_result>>

EndOfStream ==
  /\ phase = "dropout"
  /\ b.read_p = b.lexeme_start_p
  /\ phase' = "ended"
  /\ UNCHANGED <<b, input, load_result>>

-----------------------------------------------------------------------------
(* MF_seek: the verdict of Buffer_seek is not passed on.                   *)
Seek ==
  /\ phase \in {"idle", "ended"}
  /\ \E index \in SeekTargets : \E r \in Buffer_seek(b, index) :
       /\ b' = r.b
       /\ phase' = IF Buffer_dysfunctional(r.b) THEN "stopped" ELSE "idle"
  /\ UNCHANGED <<input, load_result>>

(* MF_undo *)
Undo ==
  /\ UserUndo /\ phase = "idle"
  /\ b' = [b EXCEPT !.read_p = b.lexeme_start_p]
  /\ UNCHANGED <<phase, input, load_result>>

Stopped == phase \in {"ended", "stopped"} /\ UNCHANGED vars

Next ==
  \/ StartStep \/ BackwardStep \/ BackwardReload \/ EndPreContext
  \/ ForwardStep \/ ForwardReload
  \/ AcceptHere \/ AcceptStored \/ MatchFailure \/ EndOfStream
  \/ Seek \/ Undo \/ Stopped

Spec     == Init /\ [][Next]_vars
(* A call of the analyser function runs until it returns.                  *)
FairSpec == Spec /\ WF_vars(Next)

-----------------------------------------------------------------------------
StreamIndex(r, p) == r.index_begin + (p - 1)

(* Buffer_assert_pointers_in_range and Buffer_assert_limit_codes_in_place: *)
(* the assertions of buffer/asserts.i hold between all the steps of the    *)
(* engine, not only where an assertion is written.                         *)
BufferConsistent ==
  Buffer_dysfunctional(b) \/
  /\ b.back >= 1 /\ b.end_p \in 1 .. b.back
  /\ b.read_p \in 0 .. b.end_p /\ b.lexeme_start_p \in 0 .. b.end_p
  /\ b.mem[0] = Border /\ b.mem[b.back] = Border /\ b.mem[b.end_p] = Border

(* Content that does not start at the begin of the stream is never shorter *)
(* than the fallback: the assertions about the distance in                 *)
(* Buffer_move_get_distance_forward_to_contain rest on it.                 *)
ContentHoldsFallback ==
  Buffer_dysfunctional(b) \/ b.index_begin = 0 \/ content_size(b) >= b.fallback_n

(* Every place of the content holds the lexatom that the stream has at the *)
(* index the buffer attributes to that place: moving, loading, seeking,    *)
(* undoing and extending agree about where the content belongs.            *)
ContentCoherent ==
  Buffer_dysfunctional(b) \/ \A p \in 1 .. b.end_p - 1 : b.mem[p] = StreamIndex(b, p)

(* An end of the stream that was registered is the end of what the stream  *)
(* can deliver, and the content does not reach beyond it.                  *)
EndOfStreamTrue ==
  /\ b.index_eos \in {NULL, Readable}
  /\ input_lexatom_index_end(b) <= Readable

(* A reload leaves read pointer, lexeme start and acceptance position on   *)
(* the lexatoms of the stream on which they were (Buffer_load_forward).    *)
SamePlace(p, q) ==
  IF p = NULL THEN q = NULL
  ELSE q \in Addr /\ StreamIndex(b', q) = StreamIndex(b, p)
ReloadKeepsPlaces ==
  [][ForwardReload => /\ SamePlace(b.read_p, b'.read_p)
                      /\ SamePlace(b.lexeme_start_p, b'.lexeme_start_p)
                      /\ SamePlace(b.position, b'.position)]_vars

(* "FallbackN must be maintained at any cost!": whenever a reload lets the *)
(* analysis go on, the lexatoms in front of the lexeme which pre-contexts  *)
(* look at are still in the buffer.                                        *)
FallbackHeld ==
  [][ForwardReload /\ load_result' = "DONE" =>
       b'.index_begin = 0 \/ b'.lexeme_start_p - 1 >= FallbackN]_vars

(* A seek reports success exactly if it has gone from another place of the *)
(* stream to the one asked for, and then a lexeme starts there; otherwise  *)
(* nothing has moved, or the buffer has been given up (Buffer_seek).       *)
SeekVerdict ==
  phase \in {"idle", "ended"} =>
    \A index \in SeekTargets : \A r \in Buffer_seek(b, index) :
      IF Buffer_dysfunctional(r.b) THEN ~r.ok
      ELSE /\ r.ok <=> Buffer_tell(r.b) = index /\ Buffer_tell(b) # index
           /\ IF r.ok THEN r.b.lexeme_start_p = r.b.read_p
              ELSE /\ Buffer_tell(r.b) = Buffer_tell(b)
                   /\ r.b.lexeme_start_p = b.lexeme_start_p

(* Where the lexeme starts in the stream.  While the pre-context is being  *)
(* looked for that may be outside the buffer.                              *)
LexemeStartIndex ==
  IF phase = "backward" /\ b.backup # NULL THEN b.backup
  ELSE StreamIndex(b, b.lexeme_start_p)

(* "set the input stream back to the real current position": the check of  *)
(* the pre-context ends where the lexeme was about to start.               *)
PreContextReturns ==
  [][/\ phase = "idle" /\ phase' = "backward" => LexemeStartIndex' = Buffer_tell(b)
     /\ phase = "backward" /\ phase' = "forward" => Buffer_tell(b') = LexemeStartIndex]_vars

(* The buffer implements the input stream.  While the pre-context is being *)
(* looked for, the cursor of the stream rests on the lexeme start.         *)
Stream == INSTANCE InputStream WITH
  NoLexatom <- NULL,
  start     <- LexemeStartIndex,
  cursor    <- IF phase = "backward" THEN LexemeStartIndex ELSE StreamIndex(b, b.read_p),
  lexatom   <- IF phase = "backward" THEN NULL ELSE input,
  state     <- CASE phase = "idle"                  -> "between"
                 [] phase \in {"backward", "forward"} -> "reading"
                 [] phase = "dropout"               -> "exhausted"
                 [] OTHER                           -> phase
ImplementsStream == Stream!Spec

(* Without seeks and undos the whole stream is analysed: no reload goes    *)
(* on for ever without bringing the analysis nearer to an end.             *)
AnalysisEnds == <>(phase \in {"ended", "stopped"})
=============================================================================
