--------------------------- MODULE NestedReading ---------------------------
(***************************************************************************)
(* What an analyser with an include stack promises: a stack of readers,    *)
(* each at a place in a stream of its own.  Only the reader on top moves;  *)
(* a reader below stands where it stood when the one above it was pushed,  *)
(* with the lexeme it had.  There is no memory here, nothing is loaded,    *)
(* moved or extended, and nothing fails: an operation that fails is none.  *)
(* IncludeStack implements this.                                           *)
(***************************************************************************)
EXTENDS Naturals, Sequences

CONSTANTS Streams, Length

VARIABLE readers

FirstReader(s) == [stream |-> s, at |-> 0, lexeme |-> <<>>]
top == Len(readers)

Init == readers = <<>>

Open    == readers = <<>> /\ \E s \in Streams : readers' = <<FirstReader(s)>>

Read    == /\ top > 0
           /\ LET r == readers[top]
              IN  /\ r.at < Length[r.stream]
                  /\ readers' = [readers EXCEPT ![top].at     = r.at + 1,
                                                ![top].lexeme = Append(r.lexeme, <<r.stream, r.at>>)]

NextLexeme == top > 0 /\ readers' = [readers EXCEPT ![top].lexeme = <<>>]

Include == top > 0 /\ \E s \in Streams : readers' = Append(readers, FirstReader(s))

Return  == top > 1 /\ readers' = SubSeq(readers, 1, top - 1)

(* All that was is forgotten.                                              *)
Reset   == top > 0 /\ \E s \in Streams : readers' = <<FirstReader(s)>>

Close   == top > 0 /\ readers' = <<>>

Next == Open \/ Read \/ NextLexeme \/ Include \/ Return \/ Reset \/ Close
Spec == Init /\ [][Next]_readers
=============================================================================
