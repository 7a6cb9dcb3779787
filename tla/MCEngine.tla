------------------------------ MODULE MCEngine ------------------------------
(* Finite instances of Engine for TLC: see the .cfg files.                 *)
EXTENDS Engine

NoBad      == StreamLen + 5      \* every lexatom can be converted
NoSeeks    == {}
SeekInside == 0 .. StreamLen
=============================================================================
