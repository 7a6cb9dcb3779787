---------------------------- MODULE InputStream ----------------------------
(***************************************************************************)
(* What the buffer promises to the state machines: an input stream with a  *)
(* cursor.  The lexatoms come one after the other from where the lexeme    *)
(* started, none twice and none left out; the cursor is only set back      *)
(* inside the lexeme, or by a seek; the end of the stream is reported      *)
(* where the stream ends.  Memory, loading and moving do not exist here.   *)
(***************************************************************************)
EXTENDS Integers

CONSTANTS StreamLen, SeekTargets, NoLexatom

VARIABLES
  start,      \* stream index where the lexeme starts
  cursor,     \* stream index of the next lexatom
  lexatom,    \* the lexatom read last, by its stream index
  state       \* "between" two lexemes, "reading", "exhausted", "ended", "stopped"
svars == <<start, cursor, lexatom, state>>

Init ==
  /\ start = 0 /\ cursor = 0
  /\ lexatom = NoLexatom /\ state = "between"

Begin ==
  /\ state = "between" /\ state' = "reading"
  /\ start' = cursor /\ lexatom' = NoLexatom
  /\ UNCHANGED cursor

Read ==
  /\ state = "reading" /\ cursor < StreamLen
  /\ lexatom' = cursor /\ cursor' = cursor + 1
  /\ UNCHANGED <<start, state>>

Exhausted ==
  /\ state = "reading" /\ cursor = StreamLen
  /\ state' = "exhausted"
  /\ UNCHANGED <<start, cursor, lexatom>>

Accept ==
  /\ state \in {"reading", "exhausted"} /\ start < StreamLen
  /\ state' = "between"
  /\ cursor' \in start + 1 .. StreamLen
  /\ UNCHANGED <<start, lexatom>>

End ==
  /\ state = "exhausted" /\ start = StreamLen
  /\ state' = "ended"
  /\ UNCHANGED <<start, cursor, lexatom>>

(* A seek arrives or changes nothing.                                      *)
Seek ==
  /\ state \in {"between", "ended"} /\ state' = "between"
  /\ \/ \E index \in SeekTargets : cursor' = index /\ start' = index
     \/ UNCHANGED <<start, cursor>>
  /\ UNCHANGED lexatom

Undo ==
  /\ state = "between"
  /\ cursor' = start
  /\ UNCHANGED <<start, lexatom, state>>

(* An overflow, a bad lexatom, a stream that fails: the analysis stops,    *)
(* and nothing more is promised.                                           *)
Stop ==
  /\ state' = "stopped"

Next == Begin \/ Read \/ Exhausted \/ Accept \/ End \/ Seek \/ Undo \/ Stop

Spec == Init /\ [][Next]_svars
=============================================================================
