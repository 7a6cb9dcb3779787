--------------------------- MODULE MCIncludeStack ---------------------------
(* Two files, of which one is longer than a buffer, and a user's memory    *)
(* with room for a nested buffer.                                          *)
EXTENDS IncludeStack

CONSTANTS Outer, Header, InMemory

AllFiles  == {Outer, Header}
AllMemory == {InMemory}
Lengths   == [s \in {Outer, Header, InMemory} |-> IF s = Outer THEN 5 ELSE IF s = Header THEN 2 ELSE 1]
=============================================================================
