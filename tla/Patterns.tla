------------------------------ MODULE Patterns ------------------------------
(***************************************************************************)
(* Regular expressions as the generator builds them                        *)
(* (input/regular_expression/engine.py): the grammar's functions return    *)
(* machines, which the calling functions combine further; what a 'define'  *)
(* section names is beautified and can be referred to by {NAME}.           *)
(* An unfinished expression is a stack of machines; each carries the set   *)
(* of words that the part of the expression it stands for should match.    *)
(***************************************************************************)
EXTENDS EditDistance

CONSTANTS PatternNames,   \* names of a 'define' section
          WordLength,     \* words up to this length are looked at
          MaxOperations,  \* bound on the number of steps
          MaxStates,      \* bound on the size of a machine
          Ranges,         \* repetition ranges <<min, max>>, max = -1: open
          Distances,      \* numbers of edit operations
          Concerns,       \* character sets that edit operations may concern
          EditsWithin,    \* bound on the number of the step that edits
          LoopsToInit     \* TRUE: a machine whose init state is entered again may
                          \* be made optional or parallel to nothing

VARIABLES stack,         \* sequence of [m: machine, says: words it should match]
          shorthand_db,  \* map: name --> the same, for what is defined
          operations     \* number of steps so far

vars == <<stack, shorthand_db, operations>>

Words == UNION {[1 .. n -> Char] : n \in 0 .. WordLength}

-----------------------------------------------------------------------------
(* What an expression says: operations on sets of words, as far as words of *)
(* WordLength tell.                                                         *)

Infixes(w) == UNION {Suffixes(u) : u \in Prefixes(w)}

Concat(K, L) ==
    {w \in Words : \E n \in 0 .. Len(w) : SubSeq(w, 1, n) \in K
                                          /\ SubSeq(w, n + 1, Len(w)) \in L}
Power(L, n) == FoldLeft(Concat, {<<>>}, Copies(L, n))
Repeated(L, range) ==
    LET max == IF range[2] = -1 THEN Max({range[1], WordLength}) ELSE range[2]
    IN UNION {Power(L, n) : n \in range[1] .. max}

(* One edit operation on each word: somewhere a character is inserted, left *)
(* out, replaced, or changes places with the next one.                      *)
Inserted(L, C) == UNION {{InsertAt(w, k, c) : k \in 1 .. Len(w) + 1, c \in C} : w \in L}
LeftOut(L, C)  == UNION {{RemoveAt(w, k) : k \in {i \in DOMAIN w : w[i] \in C}} : w \in L}
Replaced(L, C, D) ==
    UNION {{ReplaceAt(w, k, d) : k \in {i \in DOMAIN w : w[i] \in C}, d \in D} : w \in L}
Exchanged(L, C) ==
    UNION {{ReplaceAt(ReplaceAt(w, k, w[k + 1]), k + 1, w[k]) :
               k \in {i \in 1 .. Len(w) - 1 : {w[i], w[i + 1]} \subseteq C}} : w \in L}
Times(n, Edit(_), L) == FoldLeft(LAMBDA K, i : Edit(K), L, Copies(0, n))
UpTo(n, Edit(_), L)  == Times(n, LAMBDA K : K \cup Edit(K), L)

(* Of a word, what is behind the longest beginning that is in K. *)
Behind(w, K) ==
    LET cuts == {n \in 1 .. Len(w) : SubSeq(w, 1, n) \in K}
    IN SubSeq(w, Max({0} \cup cuts) + 1, Len(w))
Reversed(L) == {Reverse(w) : w \in L}

-----------------------------------------------------------------------------
(* Steps of the parser. *)

Init == stack = <<>> /\ shorthand_db = [n \in {} |-> Empty] /\ operations = 0

Element(m, L) == [m |-> Clone(m, 0), says |-> L]

(* The functions return a machine which takes the place of its arguments.  *)
Returns(n, m, L) ==
    /\ operations < MaxOperations
    /\ Cardinality(States(m)) <= MaxStates
    /\ operations' = operations + 1
    /\ stack' = Append(SubSeq(stack, 1, Len(stack) - n), Element(m, L))
    /\ UNCHANGED shorthand_db

(* snap_curly_bracketed_expression(): arguments are deterministic. *)
ensure_dfa(m) == IF is_DFA_compliant(m) THEN m ELSE nfa_to_dfa(m)

Top == stack[Len(stack)]
Below == stack[Len(stack) - 1]
P == IF Len(stack) = 1 THEN ensure_dfa(Top.m) ELSE ensure_dfa(Below.m)
Q == ensure_dfa(Top.m)

EntersInit(m) == has_transition_to(m, m.init)

(* The init state may be made to accept, or not to accept any more. *)
MayAccept(m) == LoopsToInit \/ m.init \in m.accept \/ ~ EntersInit(m)
MayRefuse(m) == m.init \in m.accept => ~ EntersInit(m)
MayJoin(a, b) == Considered(a) \/ a.init \notin a.accept \/ MayAccept(b)

(* snap_primary(): characters, \Empty, \Nothing, \Universe, and {NAME} *)
Primary ==
    /\ Len(stack) < 2
    /\ \/ \E C \in (SUBSET Char) \ {{}} :
              Returns(0, from_character_set(C), {<<c>> : c \in C})
       \/ Returns(0, Empty, {})
       \/ Returns(0, Nothing, {<<>>})
       \/ Returns(0, Universe, Words)
       \/ \E name \in DOMAIN shorthand_db :
              Returns(0, shorthand_db[name].m, shorthand_db[name].says)

(* snap_term() and snap_expression() *)
Term ==
    /\ Len(stack) = 2 /\ ~ is_Empty(Top.m) /\ ~ is_Empty(Below.m)
    /\ Returns(2, sequentialize(<<Below.m, Top.m>>, FALSE), Concat(Below.says, Top.says))

Alternation ==
    /\ Len(stack) = 2
    /\ MayJoin(Below.m, Top.m) /\ MayJoin(Top.m, Below.m)
    /\ Returns(2, nfa_to_dfa(parallelize(Below.m, Top.m)), Below.says \cup Top.says)

(* __snap_repetition_range() *)
Repetition ==
    /\ Len(stack) = 1
    /\ \E range \in Ranges :
          /\ is_Empty(Top.m) => range = <<0, -1>>
          /\ range[1] = 0 /\ range[2] # -1 => MayAccept(Top.m)
          /\ Returns(1, repeat(Top.m, range[1], range[2]),
                     IF has_acceptance_state(Top.m) THEN Repeated(Top.says, range) ELSE {})

(* \Not{P}, \R{P}, \Stem{P} *)
Variant ==
    /\ Len(stack) = 1
    /\ \/ Returns(1, complement(P), Words \ Top.says)
       \/ Returns(1, reverse(P), {Reverse(w) : w \in Top.says})
       \/ Returns(1, stem(P), {w \in Top.says : Prefixes(w) \cap Top.says = {w}})

(* \Sanitize{P} and \A{P}: no empty lexeme, and none goes on after a lexeme *)
(* behind which everything is accepted.                                     *)
SanitizedWords(m, L) ==
    LET endless(u) == \E s \in After(m, {m.init}, u) : is_AcceptAllState(m, s)
    IN {w \in L \ {<<>>} : \A u \in Prefixes(w) \ {w} : ~ endless(u)}

Sanitize ==
    /\ Len(stack) = 1
    /\ \/ /\ MayRefuse(P)
          /\ Returns(1, sanitizer(P), SanitizedWords(P, Top.says))
       \/ /\ MayRefuse(complement(P))
          /\ Returns(1, sanitizer(complement(P)),
                     SanitizedWords(complement(P), Words \ Top.says))

(* \AccFlush{P}, \AccInv{P}, \InfDev{P}: about the paths of the machine     *)
Paths ==
    /\ Len(stack) = 1
    /\ \/ Returns(1, acceptance_flush(P), Walked(P, Words))
       \/ Returns(1, acceptance_inversion(P), Walked(P, Words) \ Top.says)
       \/ /\ MayRefuse(P)
          /\ Returns(1, infimum_deviant(P),
                     {w \in Words \ Walked(P, Words) :
                         /\ Front(w) \in Walked(P, Words)
                         /\ Prefixes(w) \cap Top.says \subseteq {<<>>}})

(* \Union, \Intersection, \Diff, \SymDiff *)
Algebra ==
    /\ Len(stack) = 2
    /\ \/ /\ MayJoin(P, Q) /\ MayJoin(Q, P)
          /\ \/ Returns(2, union(P, Q), Below.says \cup Top.says)
             \/ Returns(2, symmetric_difference(P, Q),
                        (Below.says \cup Top.says) \ (Below.says \cap Top.says))
       \/ Returns(2, intersection(P, Q), Below.says \cap Top.says)
       \/ Returns(2, difference(P, Q), Below.says \ Top.says)

(* \Begin, \End, \In and their negations *)
Selection ==
    /\ Len(stack) = 2 /\ ~ is_Empty(Q)
    /\ LET Those(OP(_)) == {w \in Below.says : OP(w) \cap Top.says # {}}
           Others(OP(_)) == Below.says \ Those(OP)
           With(m, L) == Returns(2, beautifier(intersection(P, m)), L)
           Without(m, L) == Returns(2, beautifier(difference(P, m)), L)
       IN \/ With(anything_beginning_with(Q), Those(Prefixes))
          \/ With(anything_ending_with(Q), Those(Suffixes))
          \/ With(anything_containing(Q), Those(Infixes))
          \/ Without(anything_beginning_with(Q), Others(Prefixes))
          \/ Without(anything_ending_with(Q), Others(Suffixes))
          \/ Without(anything_containing(Q), Others(Infixes))

(* A machine that matches nothing as long as WordLength or longer. *)
Short(m) ==
    \A w \in [1 .. WordLength -> Char] : \A s \in After(m, {m.init}, w) : Targets(m, s) = {}

(* \EdInsert{P n C}, ... and those with an N, which do exactly n operations *)
(* (judged for all characters only).                                        *)
EditDistance ==
    /\ Len(stack) = 1 /\ operations < EditsWithin
    /\ LET dfa == beautifier(Top.m)
           Matching(m, L) == Returns(1, m, L \cap Words)
       IN /\ Short(dfa)
          /\ \E n \in Distances, C \in Concerns :
             \/ Matching(insert(dfa, n, C), Times(n, LAMBDA K : Inserted(K, C), Top.says))
             \/ Matching(insert_upto(dfa, n, C), UpTo(n, LAMBDA K : Inserted(K, C), Top.says))
             \/ Matching(delete_upto(dfa, n, C), UpTo(n, LAMBDA K : LeftOut(K, C), Top.says))
             \/ Matching(substitute_upto(dfa, n, C, C),
                         UpTo(n, LAMBDA K : Replaced(K, C, C), Top.says))
             \/ Matching(transpose_upto(dfa, n, C),
                         UpTo(n, LAMBDA K : Exchanged(K, C), Top.says) \ {<<>>})
             \/ /\ C = Char
                /\ \/ Matching(delete(dfa, n, C),
                               Times(n, LAMBDA K : LeftOut(K, C), Top.says) \ {<<>>})
                   \/ \E D \in Concerns :
                          Matching(substitute(dfa, n, C, D),
                                   UNION {{[i \in DOMAIN w |-> IF i \in S THEN d[i] ELSE w[i]] :
                                              S \in kSubset(n, DOMAIN w), d \in [DOMAIN w -> D]} :
                                             w \in Top.says} \ {<<>>})
                   \/ Matching(transpose(dfa, n, C),
                               Times(n, LAMBDA K : Exchanged(K, C), Top.says))
             \/ /\ n = 1
                /\ LET Others == Char \ C
                       near == Top.says \cup Inserted(Top.says, C) \cup LeftOut(Top.says, Others)
                               \cup Replaced(Top.says, C, Others)
                   IN \/ Matching(levenshtein(dfa, n, C, Others, C, Others), near)
                      \/ Matching(damerau(dfa, n, C, Others, C, Others, Char),
                                  near \cup Exchanged(Top.says, Char))

(* \First{P}, \NotFirst{P}; \CutBegin{P Q}, \CutEnd{P Q}, \LeaveBegin{P Q},  *)
(* \LeaveEnd{P Q}: not judged when the walk meets a pair of states at two  *)
(* depths.                                                                  *)
OneDepth(a, b) ==
    LET Met(w) == After(a, {a.init}, w) \X After(b, {b.init}, w)
    IN \A u, v \in Words : Met(u) \cap Met(v) # {} => Len(u) = Len(v)

Cut ==
    \/ /\ Len(stack) = 1
       /\ LET firsts == {Head(w) : w \in Walked(P, Words) \ {<<>>}}
          IN \/ Returns(1, first(P), {<<c>> : c \in firsts})
             \/ Returns(1, first_complement(P), {<<c>> : c \in Char \ firsts})
    \/ /\ Len(stack) = 2 /\ Short(P) /\ Short(Q)
       /\ \/ Returns(2, cut_begin(P, Q), {Behind(w, Top.says) : w \in Below.says})
          \/ Returns(2, cut_end(P, Q),
                     Reversed({Behind(w, Reversed(Top.says)) : w \in Reversed(Below.says)}))
          \/ /\ OneDepth(P, Q)
             /\ Returns(2, leave_begin(P, Q),
                        Walked(P, Words) \cap Walked(Q, Words) \cap (Below.says \cup Top.says))
          \/ LET a == Backward(P)
                 b == Backward(Q)
             IN /\ OneDepth(a, b)
                /\ Returns(2, leave_end(P, Q),
                           Reversed(Walked(a, Words) \cap Walked(b, Words))
                           \cap (Below.says \cup Top.says))

(* _parse_shorthand(): a pattern of a 'define' section *)
Define ==
    /\ Len(stack) = 1 /\ has_acceptance_state(Top.m)
    /\ \E name \in PatternNames \ DOMAIN shorthand_db :
          shorthand_db' = name :> Element(beautifier(Top.m), Top.says) @@ shorthand_db
    /\ stack' = <<>>
    /\ UNCHANGED operations

Next == Primary \/ Term \/ Alternation \/ Repetition \/ Variant \/ Sanitize \/ Paths
        \/ Algebra \/ Selection \/ EditDistance \/ Cut \/ Define

Spec == Init /\ [][Next]_vars

-----------------------------------------------------------------------------
(* Properties *)

Elements == Range(stack) \cup Range(shorthand_db)

(* A machine matches the words that the expression says, whatever was      *)
(* combined before: constructions share, mount and drop states.            *)
MatchesWhatItSays == \A e \in Elements : Matched(e.m, Words) = e.says
=============================================================================
