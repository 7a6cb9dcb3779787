------------------------------ MODULE Encoding ------------------------------
(***************************************************************************)
(* Transformation of a state machine that triggers on characters into one  *)
(* that triggers on the code units of an encoding                          *)
(* (engine/state_machine/transformation).  A transition on characters that *)
(* take several code units becomes a tree of intermediate states.  Where   *)
(* the bytes of UTF-8 and the words of UTF-16 begin and end are constants, *)
(* so that small alphabets have all the borders of the large ones.         *)
(***************************************************************************)
EXTENDS Integers, Sequences, SequencesExt, FiniteSets, FiniteSetsExt

CONSTANTS State,         \* indices of states
          InitState,
          NoState,
          Machines,      \* of each encoding, [State -> [State -> set of characters]]
          UnicodeEnd,    \* 0x110000
          Border,        \* UTF8_BORDERS: characters below Border[n] take up to n bytes
          HeadByte,      \* first value of the first byte, by the number of bytes
          HeadEnd,       \* end of the last range of values of a first byte
          Follow,        \* 0x80: first value of the bytes that follow
          FollowN,       \* 0x40: number of values of a byte that follows
          UnitEnd,       \* 0x10000: characters below are words of UTF-16, but surrogates
          High,          \* 0xD800: first of the surrogates that come first
          Low,           \* 0xDC00: first of the surrogates that come second
          LowEnd,        \* 0xE000
          Table,         \* of a codec: sequence of <<source begin, source end, target begin>>
          TypeEnd        \* end of the range of a lexatom, for each encoding

Encodings == {"none", "unicode", "table", "utf8", "utf16"}

(* What is assumed of the constants. *)
ConstantsFit ==
    /\ InitState \in State /\ NoState \notin State
    /\ \A e \in Encodings : Machines[e] \subseteq [State -> [State -> SUBSET Nat]]
    /\ UnicodeEnd = UnitEnd + (Low - High) * (LowEnd - Low)
    /\ \A n \in DOMAIN Border \ {1} : Border[n] % (FollowN^(n - 1)) = 0

VARIABLES coding,     \* Setup.buffer_encoding, Setup.bad_lexatom_detection_f
          given,      \* the machine as it was
          tm,         \* the target maps of all states: state --> target --> numbers
          left,       \* states whose transitions have not been looked at
          at,         \* from_si
          todo,       \* targets of transitions from there, not transformed yet
          complete_f, \* all_complete_f
          done

vars == <<coding, given, tm, left, at, todo, complete_f, done>>

utf8  == coding.encoding = "utf8"
utf16 == coding.encoding = "utf16"

(* States are named by where they stand: a state of the given machine, an   *)
(* intermediate state by the transition it stands in, and the intervals by  *)
(* which it is entered.                                                     *)
Original(s) == <<s>>
Originals   == {Original(s) : s \in State}
BadLexatom  == <<>>
Intermediate(s, t, prefix) == IF prefix = <<>> THEN Original(s) ELSE <<s, t>> \o prefix

-----------------------------------------------------------------------------
(***************************************************************************)
(* Intervals: <<begin, end>>.                                              *)
(***************************************************************************)
Numbers(x) == x[1] .. x[2] - 1
Intervals(S) ==
    {<<b, Min({e \in {n + 1 : n \in S} : e > b /\ e \notin S})>> : b \in {n \in S : n - 1 \notin S}}

(* The parts of an interval that begins with 'begin', given where each ends.*)
Chopped(begin, ends) ==
    FoldLeft(LAMBDA parts, e : LET b == IF parts = <<>> THEN begin ELSE Last(parts)[2]
                               IN  IF b = e THEN parts ELSE Append(parts, <<b, e>>),
             <<>>, ends)

-----------------------------------------------------------------------------
(***************************************************************************)
(* UTF-8                                                                   *)
(***************************************************************************)
Utf8Length(c) == Min({n \in DOMAIN Border : c < Border[n]})
unicode_to_utf8(c) ==
    LET L == Utf8Length(c)
    IN  [i \in 1..L |-> IF i = 1 THEN HeadByte[L] + c \div FollowN^(L - 1)
                        ELSE Follow + ((c \div FollowN^(L - i)) % FollowN)]
utf8_to_unicode(bytes) ==
    LET L == Len(bytes)
        value[i \in 1..L] == IF i = 1 THEN bytes[1] - HeadByte[L]
                             ELSE value[i - 1] * FollowN + bytes[i] - Follow
    IN  value[L]

min_byte_value == Follow
max_byte_value == Follow + FollowN - 1

(* _split_by_transformed_sequence_length()                                  *)
ByLength(x) ==
    LET b == IF x[1] < 0 THEN 0 ELSE x[1]
        e == IF x[2] > Border[Len(Border)] THEN Border[Len(Border)] ELSE x[2]
    IN  IF b >= e THEN <<>>
        ELSE Chopped(b, [k \in 1 .. Utf8Length(e - 1) - Utf8Length(b)
                            |-> Border[Utf8Length(b) + k - 1]] \o <<e>>)

(* _get_contiguous_interval_sequences(): the first bytes are the same, one  *)
(* has a range, and those behind it take all values.                        *)
Contiguous(x) ==
    LET front == unicode_to_utf8(x[1])
        back  == unicode_to_utf8(x[2] - 1)
        L     == Len(front)
        p     == Min({i \in 1 .. L - 1 : front[i] # back[i]} \cup {L})
        End(bytes, q, byte) ==      \* byte q is given, those behind q are largest
            utf8_to_unicode([i \in 1..L |-> CASE i < q -> bytes[i]
                                              [] i = q -> byte
                                              [] i > q -> max_byte_value]) + 1
        overruns == [k \in 1 .. L - p |-> End(front, L - k + 1, max_byte_value)]
        middle   == IF front[p] + 1 = back[p] THEN <<>>
                    ELSE <<End(front, p, IF p = L THEN back[p] ELSE back[p] - 1)>>
        behind   == SelectSeq([k \in 1 .. L - p |-> p + k], LAMBDA q : back[q] # min_byte_value)
        tail     == [k \in DOMAIN behind |->
                        LET q == behind[k]
                        IN  End(back, q, IF q = L THEN back[q] ELSE back[q] - 1)]
    IN  IF x[2] - x[1] = 1 \/ L = 1 THEN <<x>>
        ELSE Chopped(x[1], overruns \o middle \o tail \o <<x[2]>>)

Spanned(front, back) == [i \in DOMAIN front |-> <<front[i], back[i] + 1>>]

Utf8Sequences(x) ==
    UNION {{Spanned(unicode_to_utf8(y[1]), unicode_to_utf8(y[2] - 1)) : y \in Range(Contiguous(part))}
              : part \in Range(ByLength(x))}

-----------------------------------------------------------------------------
(***************************************************************************)
(* UTF-16                                                                  *)
(***************************************************************************)
SurrogateN == LowEnd - Low
unicode_to_utf16(c) ==
    IF c < UnitEnd THEN <<c>>
    ELSE <<High + (c - UnitEnd) \div SurrogateN, Low + ((c - UnitEnd) % SurrogateN)>>
utf16_to_unicode(words) == (words[1] - High) * SurrogateN + words[2] - Low + UnitEnd

Forbidden == High .. LowEnd - 1

(* _split_contigous_intervals_for_surrogates()                              *)
ByFirstSurrogate(begin, end) ==
    LET front == unicode_to_utf16(begin)[1]
        back  == unicode_to_utf16(end - 1)[1]
        Behind(first) == utf16_to_unicode(<<first, LowEnd - 1>>) + 1
    IN  IF front = back THEN <<<<begin, end>>>>
        ELSE Chopped(begin, <<Behind(front)>>
                            \o (IF front + 1 # back THEN <<Behind(back - 1)>> ELSE <<>>) \o <<end>>)

Utf16Sequences(x) ==
    LET one == IF x[1] < UnitEnd THEN {<<x[1], IF x[2] <= UnitEnd THEN x[2] ELSE UnitEnd>>} ELSE {}
        two == IF x[2] > UnitEnd
               THEN Range(ByFirstSurrogate(IF x[1] >= UnitEnd THEN x[1] ELSE UnitEnd, x[2])) ELSE {}
    IN  {<<y>> : y \in one}
            \cup {Spanned(unicode_to_utf16(y[1]), unicode_to_utf16(y[2] - 1)) : y \in two}

-----------------------------------------------------------------------------
(***************************************************************************)
(* State split: do_transition(), plug_interval_sequences().                *)
(***************************************************************************)
UnchangedRange == IF utf8 THEN Border[1] - 1 ELSE UnitEnd
cut_forbidden_range(S) == IF utf8 THEN S ELSE (S \ Forbidden) \cap (0 .. UnicodeEnd - 1)
get_interval_sequences(S) ==
    UNION {IF utf8 THEN Utf8Sequences(x) ELSE Utf16Sequences(x) : x \in Intervals(S)}

(* _get_intermediate_transition_maps(): a state for each sequence of        *)
(* intervals with which sequences begin; the first is the state 'from'.     *)
Openings(Q) == {<<>>} \cup UNION {{SubSeq(q, 1, i) : i \in 1 .. Len(q) - 1} : q \in Q}
Ends(Q, prefix) == {Last(q) : q \in {r \in Q : Front(r) = prefix}}
Onward(Q, prefix) == {p \in Openings(Q) \ {<<>>} : Front(p) = prefix}

(* Mutant: all states that lead to the end are taken for one.               *)
AnyEnding(Q, p) ==
    IF Ends(Q, p) = {} THEN p ELSE CHOOSE r \in Openings(Q) : Ends(Q, r) # {}

(* simplify(): states that lead to the end on the same intervals are one.   *)
Representative(Q, p) ==
    IF Ends(Q, p) = {} THEN p ELSE CHOOSE r \in Openings(Q) : Ends(Q, r) = Ends(Q, p)

(* The target map of the state that stands for a prefix.                    *)
PluggedMap(s, t, Q, prefix) ==
    LET onward    == Onward(Q, prefix)
        target(p) == Intermediate(s, t, Representative(Q, p))
        ends      == UNION {Numbers(x) : x \in Ends(Q, prefix)}
    IN  [u \in {target(p) : p \in onward} \cup (IF ends = {} THEN {} ELSE {Original(t)}) |->
            IF u = Original(t) THEN ends
            ELSE UNION {Numbers(Last(p)) : p \in {q \in onward : target(q) = u}}]

(* _add_transition_to_bad_lexatom_detector(): what is no code unit of the   *)
(* encoding, by its position in a sequence.                                 *)
Admissible(position) ==
    CASE utf8  /\ position = 0 -> (0 .. Border[1] - 1) \cup (HeadByte[2] .. HeadEnd - 1)
      [] utf8  /\ position # 0 -> Follow .. Follow + FollowN - 1
      [] utf16 /\ position = 0 -> (0 .. UnitEnd - 1) \ (Low .. LowEnd - 1)
      [] utf16 /\ position # 0 -> Low .. LowEnd - 1
      [] coding.encoding = "table" -> UNION {t[3] .. t[3] + t[2] - t[1] - 1 : t \in Range(Table)}
      [] coding.encoding \in {"none", "unicode"} -> Nat
type_range == 0 .. TypeEnd[coding.encoding] - 1
error_range(position) == type_range \ Admissible(position)
Detecting(map, position) ==
    IF ~ coding.detect \/ DOMAIN map = {} \/ error_range(position) = {} THEN map
    ELSE [u \in DOMAIN map \cup {BadLexatom} |->
             IF u = BadLexatom THEN error_range(position) ELSE map[u]]

-----------------------------------------------------------------------------
(***************************************************************************)
(* do_state_machine()                                                      *)
(***************************************************************************)
Init ==
    /\ coding \in [encoding : Encodings, detect : BOOLEAN]
    /\ given \in Machines[coding.encoding]
    /\ tm = [n \in Originals \cup (IF coding.detect THEN {BadLexatom} ELSE {}) |->
                IF n = BadLexatom THEN [u \in {} |-> {}]
                ELSE LET row == given[n[1]]
                     IN  [u \in {Original(t) : t \in {r \in State : row[r] # {}}} |-> row[u[1]]]]
    /\ left = State /\ at = NoState /\ todo = {}
    /\ complete_f = TRUE /\ done = FALSE

Enter(s) ==
    /\ at = NoState
    /\ at' = s
    /\ left' = left \ {s}
    /\ todo' = {t \in State : given[s][t] # {}}
    /\ UNCHANGED <<coding, given, tm, complete_f, done>>

(* do_transition() of all encodings: what becomes of the transition, by what *)
(* it is replaced in the target map of 'at', and what the verdict is.       *)
Without(map, t) == [u \in DOMAIN map \ {Original(t)} |-> map[u]]
transform_by_table(S) ==
    UNION {{entry[3] + c - entry[1] : c \in S \cap (entry[1] .. entry[2] - 1)} : entry \in Range(Table)}
Covered == UNION {entry[1] .. entry[2] - 1 : entry \in Range(Table)}
source_set == (0 .. UnicodeEnd - 1) \cap type_range

Turn(t) == at # NoState /\ t \in todo /\ todo' = todo \ {t}

Keep(t) ==
    /\ Turn(t)
    /\ LET S == given[at][t]
       IN  CASE coding.encoding = "none"    -> TRUE
             [] coding.encoding = "unicode" -> S \subseteq source_set
             [] coding.encoding = "table"   -> FALSE
             [] utf8 \/ utf16             -> S \subseteq (-1 .. UnchangedRange - 1)
    /\ UNCHANGED <<coding, given, tm, left, at, complete_f, done>>

Intersect(t) ==
    /\ Turn(t) /\ coding.encoding = "unicode"
    /\ ~ given[at][t] \subseteq source_set
    /\ tm' = [tm EXCEPT ![Original(at)][Original(t)] = @ \cap source_set]
    /\ complete_f' = FALSE
    /\ UNCHANGED <<coding, given, left, at, done>>

Translate(t) ==
    /\ Turn(t) /\ coding.encoding = "table"
    /\ LET S == transform_by_table(given[at][t])
       IN  tm' = [tm EXCEPT ![Original(at)] = IF S = {} THEN Without(@, t)
                                             ELSE [@ EXCEPT ![Original(t)] = S]]
    /\ complete_f' = (complete_f /\ given[at][t] \subseteq Covered)
    /\ UNCHANGED <<coding, given, left, at, done>>

Split(t) ==
    /\ Turn(t) /\ (utf8 \/ utf16)
    /\ LET S    == given[at][t]
           Q    == get_interval_sequences(cut_forbidden_range(S))
           new  == [p \in Openings(Q) \ {<<>>} |-> Detecting(PluggedMap(at, t, Q, p), Len(p))]
           name == [p \in DOMAIN new |-> Intermediate(at, t, p)]
           rest == Without(tm[Original(at)], t)
       IN  /\ ~ S \subseteq (-1 .. UnchangedRange - 1)
           /\ tm' = [n \in DOMAIN tm \cup Range(name) |->
                        CASE n \in Range(name) -> new[SubSeq(n, 3, Len(n))]
                          [] n = Original(at)  -> PluggedMap(at, t, Q, <<>>) @@ rest
                          [] OTHER             -> tm[n]]
           /\ complete_f' = (complete_f /\ cut_forbidden_range(S) # {})
    /\ UNCHANGED <<coding, given, left, at, done>>

Leave ==
    /\ at # NoState /\ todo = {}
    /\ tm' = [tm EXCEPT ![Original(at)] = Detecting(@, 0)]
    /\ at' = NoState
    /\ UNCHANGED <<coding, given, left, todo, complete_f, done>>

(* delete_transitions_beyond_interval(), delete_orphaned_states()            *)
WithinType(map) ==
    [u \in {v \in DOMAIN map : map[v] \cap type_range # {}} |-> map[u] \cap type_range]
Finish ==
    /\ left = {} /\ at = NoState /\ ~ done
    /\ LET cut == [n \in DOMAIN tm |-> WithinType(tm[n])]
           reached[k \in Nat] ==
              IF k = 0 THEN {Original(InitState)}
              ELSE LET nearer == reached[k - 1] IN nearer \cup UNION {DOMAIN cut[n] : n \in nearer}
       IN  tm' = [n \in reached[Cardinality(DOMAIN tm)] |-> cut[n]]
    /\ done' = TRUE
    /\ UNCHANGED <<coding, given, left, at, todo, complete_f>>

Next ==
    \/ \E s \in left : Enter(s)
    \/ \E t \in todo : Keep(t) \/ Intersect(t) \/ Translate(t) \/ Split(t)
    \/ Leave
    \/ Finish

Spec == Init /\ [][Next]_vars

-----------------------------------------------------------------------------
(***************************************************************************)
(* What the result must be                                                 *)
(***************************************************************************)
(* The code units of a character.                                           *)
do_single(c) ==
    CASE utf8  -> unicode_to_utf8(c)
      [] utf16 -> unicode_to_utf16(c)
      [] coding.encoding = "table" -> <<CHOOSE u \in transform_by_table({c}) : TRUE>>
      [] OTHER -> <<c>>


(* Characters that can be written in the encoding with lexatoms of the type.*)
Representable ==
    {c \in 0 .. (IF utf8 THEN Border[Len(Border)] ELSE UnicodeEnd) - 1 :
        /\ coding.encoding = "table" => c \in Covered
        /\ Range(do_single(c)) \subseteq type_range}
Surrogates == IF utf16 THEN Forbidden ELSE {}

(* lexatom_n_per_character(): from the first and the last of the characters. *)
lexatom_n_per_character(S) ==
    IF ~ (utf8 \/ utf16) THEN 1
    ELSE IF Len(do_single(Min(S))) = Len(do_single(Max(S))) THEN Len(do_single(Min(S))) ELSE 0

(* <<state, word>>: where words of code units lead from state s, through     *)
(* intermediate states.                                                     *)
Walks(s) ==
    LET longest == Len(Border)
        Steps(e) == UNION {{<<u, Append(e[2], x)>> : x \in tm[e[1]][u]} : u \in DOMAIN tm[e[1]]}
        walk[k \in 0..longest] ==
            IF k = 0 THEN {<<Original(s), <<>>>>}
            ELSE UNION {Steps(e) : e \in {f \in walk[k - 1] : k = 1 \/ Len(f[1]) > 2}}
    IN  UNION {walk[k] : k \in 1..longest}
Words(s, t) == {e[2] : e \in {f \in Walks(s) : f[1] = Original(t)}}
Reached == {s \in State : Original(s) \in DOMAIN tm}

(* The result leads from one state to another on exactly the words that      *)
(* encode the characters on which the given machine did.  Surrogates are no  *)
(* characters of UTF-16.  If all characters are said to take the same number *)
(* of code units, they do.  If the transformation is called incomplete, then *)
(* characters have been dropped.                                            *)
EncodedAlike ==
    done =>
    /\ \A s \in Reached, t \in State :
        LET C == given[s][t] \cap Representable
            W == Words(s, t)
        IN  /\ {do_single(c) : c \in C \ Surrogates} \subseteq W
            /\ W \subseteq {do_single(c) : c \in C}
            /\ C # {} /\ lexatom_n_per_character(C) # 0
                  => \A w \in W : Len(w) = lexatom_n_per_character(C)
    /\ ~ complete_f =>
          \E s, t \in State : \E c \in given[s][t] : c \notin Representable \/ c \in Surrogates

(* Where lexatoms are checked: no character's code leads into the detector;  *)
(* a character that is entered in the middle, one that is left in the middle *)
(* for the beginning of another, and a unit that occurs in no character do.  *)
BadLexatomDetected ==
    done /\ coding.detect => \A s \in {r \in Reached : tm[Original(r)] # <<>>} :
        LET walks  == Walks(s)
            bad    == {e[2] : e \in {f \in walks : f[1] = BadLexatom}}
            inside == {e[2] : e \in {f \in walks : Len(f[1]) > 2}}
            codes  == {do_single(c) : c \in Representable \ Surrogates}
            overlong == IF utf8 THEN HeadByte[2] .. HeadByte[2] + Border[1] \div FollowN - 1 ELSE {}
            first    == {code[1] : code \in codes}
        IN  /\ \A code \in codes : \A i \in 1 .. Len(code) : SubSeq(code, 1, i) \notin bad
            /\ \A code \in codes : \A i \in 2 .. Len(code) : <<code[i]>> \in bad
            /\ \A w \in inside, x \in first : Append(w, x) \in bad
            /\ coding.encoding \in {"table", "utf8", "utf16"} =>
                  \A x \in type_range \ (UNION {Range(code) : code \in codes} \cup overlong) :
                     x \in Surrogates \/ <<x>> \in bad
=============================================================================
