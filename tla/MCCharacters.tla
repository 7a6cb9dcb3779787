---------------------------- MODULE MCCharacters ----------------------------
(* Three instances in one: a behaviour calculates with sets of characters   *)
(* (NumberSet), derives the count of a pattern from its state machine       *)
(* (CharacterCounter), or transforms a machine to an encoding (Encoding).   *)
(* Sets: two over six numbers, up to three intervals each; the table maps   *)
(* five of them, a low range behind a high one.                             *)
(* Patterns: up to three states over three characters; the skippers of one  *)
(* character; tabulators, newlines, and characters of different widths,     *)
(* encoded in one lexatom or in two.                                        *)
(* Encodings: one transition on any interval that begins at or near a       *)
(* border, and three states with several transitions.  Bytes: 0..3 are      *)
(* ASCII, 4..7 follow, 8..13 begin sequences of two, three and four, 14 and *)
(* 15 are none.  Words: 8..10 and 11..13 are the surrogates.                *)
EXTENDS CharacterCounter

MCState == 1..3
Row     == [1..3 -> {0, 2, 3}]
Nowhere == <<0, 0, 0>>
(* From every state acceptance can be reached (delete_hopeless_states()).    *)
Hopeful(m) == \A S \in SUBSET (MCState \ m.accept) :
                  S # {} => \E s \in S : \E c \in Char : m.move[s][c] \notin S \cup {0}
MCMachines ==
    {m \in {[move |-> <<a, b, c>>, accept |-> f] :
              a \in {r \in Row : r[1] = 2}, b \in Row,
              c \in {Nowhere, <<3, 0, 0>>, <<0, 3, 0>>, <<0, 0, 2>>, <<3, 3, 3>>}, f \in {{3}, {2, 3}}}
       : Hopeful(m)}
        \cup {[move |-> <<a, Nowhere, Nowhere>>, accept |-> {2}] : a \in [1..3 -> {0, 2}]}
MCLoops == {[move |-> <<r, r, Nowhere>>, accept |-> {2}] :
                r \in {<<2, 0, 0>>, <<0, 2, 0>>, <<0, 0, 2>>}}

Def(type, value, chars) == [type |-> type, value |-> value, chars |-> chars]
MCSections == [defs : {{Def("GRID", 4, {2}), Def("LINE", 1, {3})},
                       {Def("COLUMN", 2, {1}), Def("GRID", 3, {2}), Def("LINE", 2, {3})},
                       {Def("COLUMN", 0, {1}), Def("GRID", 1, {2})},
                       {Def("COLUMN", 2, {1})},
                       {Def("LINE", 1, {2, 3})}},
               else : {[type |-> "COLUMN", value |-> 1], [type |-> "LINE", value |-> 1]}]
MCSizes == {<<1, 1, 1>>, <<2, 1, 2>>}

VARIABLE intervals
Names       == {"a", "b"}
INTEGER_MAX == 3
TrafoInfo   == << <<-3, -1, 1>>, <<0, 3, -3>> >>
Sets == INSTANCE NumberSet

Intervals(from, to) == {b..e : b \in from, e \in 0..to} \ {{}}
Triangle(A, B, C) ==
    [s \in MCState |-> [t \in MCState |-> CASE <<s, t>> = <<1, 2>> -> A
                                           [] <<s, t>> = <<1, 3>> -> B
                                           [] <<s, t>> = <<2, 3>> -> C
                                           [] OTHER -> {}]]
Borders == {0, 3, 4, 7, 9, 11, 12, 15, 17, 20, 30, 32, 39, 44}
Some    == {3..5, 11..13, 2..26, {8, 12}, {0, 20}}
MCTransformed ==
    [e \in {"none", "unicode", "table", "utf8", "utf16"} |->
        {Triangle(A, {}, {}) : A \in Intervals(Borders, IF e = "utf8" THEN 63 ELSE 26)}
          \cup {Triangle(A, B \ A, C) : A, B, C \in Some}]
MCTypeEnd == [none |-> 22, unicode |-> 16, table |-> 24, utf8 |-> 16, utf16 |-> 18]

VARIABLES coding, given, tm, left, at, todo, complete_f, done
Transformation == INSTANCE Encoding WITH
    Machines <- MCTransformed, UnicodeEnd <- 25, TypeEnd <- MCTypeEnd,
    Border <- <<4, 12, 32, 64>>, HeadByte <- <<0, 8, 11, 13>>, HeadEnd <- 14, Follow <- 4, FollowN <- 4,
    UnitEnd <- 16, High <- 8, Low <- 11, LowEnd <- 14,
    Table <- << <<0, 3, 2>>, <<4, 9, 20>>, <<12, 20, 6>> >>
transformation == <<coding, given, tm, left, at, todo, complete_f, done>>
ASSUME ConstantsFit == Transformation!ConstantsFit

(* A machine without transitions, while sets are calculated with.           *)
NoPattern ==
    /\ dfa       = [move |-> <<Nowhere, Nowhere, Nowhere>>, accept |-> {}]
    /\ ca_map    = {}
    /\ setup     = [const |-> TRUE, bol |-> FALSE, size |-> <<1, 1, 1>>]
    /\ stack     = <<>>
    /\ by_length = [line |-> VIRGIN, column |-> VIRGIN, grid |-> VIRGIN]
    /\ known_db  = [s \in {} |-> Virgin]
    /\ result    = Virgin
    /\ abort_f   = FALSE
NoSets == intervals = [n \in {} |-> <<>>]
NoTransformation ==
    /\ coding = [encoding |-> "none", detect |-> FALSE]
    /\ given = Triangle({}, {}, {}) /\ tm = [n \in {} |-> <<>>]
    /\ left = {} /\ at = NoState /\ todo = {} /\ complete_f = TRUE /\ done = TRUE

MCInit == \/ Init /\ NoSets /\ NoTransformation
          \/ NoPattern /\ Sets!Init /\ NoTransformation
          \/ NoPattern /\ NoSets /\ Transformation!Init
MCNext == \/ Next /\ UNCHANGED <<intervals, transformation>>
          \/ ~ NoSets /\ Sets!Next /\ UNCHANGED <<vars, transformation>>
          \/ Transformation!Next /\ UNCHANGED <<vars, intervals>>
MCSpec == MCInit /\ [][MCNext]_<<vars, intervals, transformation>>

(* The operations with sets do what their names say: see NumberSet.         *)
OperationsExact == NoSets \/ Sets!OperationsExact
(* The transformed machine runs on the encoded characters, and detects      *)
(* broken sequences of code units and no others: see Encoding.              *)
EncodedAlike == Transformation!EncodedAlike /\ Transformation!BadLexatomDetected
=============================================================================
