----------------------------- MODULE MCFeeding ------------------------------
(* Finite instances of Feeding for TLC: see the .cfg file.                 *)
EXTENDS Feeding

Beyond == StreamLen + 5          \* every lexatom can be converted

(* A stream of words: each place begins a word or stands in one; the words *)
(* at some places are blanks.  What begins a word is a word.               *)
Words(begins, blanks, bye) ==
  LET end(p) == Min({q \in begins \cup {StreamLen} : q > p})
      begin(p) == Max({q \in begins : q <= p})
  IN  [ends    |-> [p \in 0 .. StreamLen - 1 |-> p + 1 .. end(p)],
       skipped |-> {p \in 0 .. StreamLen - 1 : begin(p) \in blanks},
       bye     |-> bye]

(* All ways to cut the stream into words and blanks that end with a word.  *)
Texts == {Words({0} \cup begins, blanks, Max({0} \cup begins)) :
            begins \in SUBSET (1 .. StreamLen - 1), blanks \in SUBSET (0 .. StreamLen - 2)}

WellCut == {l \in Texts : l.bye \notin l.skipped}

(* Nothing matches behind the second word.                                 *)
Broken == {[Words({0, 2, 3}, {}, 3) EXCEPT !.ends[3] = {}]}

(* 'le' and 'le monde': to see which one it is takes several lexatoms.     *)
LookAhead == {[Words({0, 2, 3, StreamLen - 1}, {2}, StreamLen - 1) EXCEPT
                 !.ends[0] = {1, 2, StreamLen - 1}]}

Streams == WellCut \cup Broken \cup LookAhead
=============================================================================
