-------------------------------- MODULE Dfa --------------------------------
(***************************************************************************)
(* State machines as the generator keeps them                              *)
(* (engine/state_machine/core.py, class DFA): states by their index, a     *)
(* target map and epsilon transitions for each, and the states that        *)
(* accept.  Characters are the classes that patterns tell apart; trig[s][c]*)
(* are the targets of state s on c.                                        *)
(***************************************************************************)
EXTENDS Integers, Sequences, FiniteSets, SequencesExt

CONSTANT Char

States(m) == DOMAIN m.trig
NoTransitions == [c \in Char |-> {}]

-----------------------------------------------------------------------------
(* Singular machines. *)

Empty == [init |-> 1, trig |-> 1 :> NoTransitions, eps |-> 1 :> {}, accept |-> {}]
Nothing == [Empty EXCEPT !.accept = {1}]
Universe == [Nothing EXCEPT !.trig = 1 :> [c \in Char |-> {1}]]

(* create_new_state(), create_new_init_state(), add_transition() and        *)
(* add_epsilon_transition(); a new index is one that was never used.        *)
NewIndex(m) == Max(States(m)) + 1
WithState(m, s) == [m EXCEPT !.trig = s :> NoTransitions @@ @, !.eps = s :> {} @@ @]
WithAcceptance(m, S) == [m EXCEPT !.accept = @ \cup S]
AddTransition(m, s, C, t) ==
    [m EXCEPT !.trig[s] = [c \in Char |-> IF c \in C THEN @[c] \cup {t} ELSE @[c]]]
AddEpsilon(m, S, t) ==
    [m EXCEPT !.eps = [s \in DOMAIN @ |-> IF s \in S THEN @[s] \cup {t} ELSE @[s]]]

from_character_set(C) ==
    LET m == WithState(Empty, 2)
    IN WithAcceptance(AddTransition(m, 1, C, 2), {2})

-----------------------------------------------------------------------------
(* Questions. *)

Targets(m, s) == UNION {m.trig[s][c] : c \in Char} \cup m.eps[s]

has_transitions(m, s) == Targets(m, s) # {}
has_transition_to(m, t) == \E s \in States(m) : t \in Targets(m, s)
has_acceptance_state(m) == m.accept # {}
is_Empty(m) == Cardinality(States(m)) = 1 /\ m.init \notin m.accept
is_Nothing(m) ==
    Cardinality(States(m)) = 1 /\ ~ has_transitions(m, m.init) /\ m.init \in m.accept
is_DFA_compliant(m) ==
    \A s \in States(m) :
        m.eps[s] = {} /\ \A c \in Char : Cardinality(m.trig[s][c]) <= 1
is_AcceptAllState(m, s) == s \in m.accept /\ \A c \in Char : m.trig[s][c] = {s}

(* Everything that can be reached from the states in S. *)
RECURSIVE Reached(_, _)
Reached(m, S) ==
    LET T == S \cup UNION {Targets(m, s) : s \in S}
    IN IF T = S THEN S ELSE Reached(m, T)

(* States from which acceptance can be reached: those not hopeless. *)
Hopeful(m) == {s \in States(m) : Reached(m, {s}) \cap m.accept # {}}

-----------------------------------------------------------------------------
(* Clones and clean-up. *)

(* Only the states in S remain, and the transitions between them. *)
Restricted(m, S) ==
    [init   |-> m.init,
     trig   |-> [s \in S |-> [c \in Char |-> m.trig[s][c] \cap S]],
     eps    |-> [s \in S |-> m.eps[s] \cap S],
     accept |-> m.accept \cap S]

(* clone(): the same machine with other indices, the order is kept. *)
Renamed(m, name) ==
    LET state == AntiFunction(name)
        Names(S) == {name[s] : s \in S}
    IN [init   |-> name[m.init],
        trig   |-> [n \in DOMAIN state |-> [c \in Char |-> Names(m.trig[state[n]][c])]],
        eps    |-> [n \in DOMAIN state |-> Names(m.eps[state[n]])],
        accept |-> Names(m.accept)]
Clone(m, above) ==
    Renamed(m, [s \in States(m) |-> above + Cardinality({t \in States(m) : t <= s})])

(* Two machines without a common index, as one that begins as the first. *)
Joined(a, b) ==
    [a EXCEPT !.trig = @ @@ b.trig, !.eps = @ @@ b.eps, !.accept = @ \cup b.accept]

delete_orphaned_states(m) == Restricted(m, Reached(m, {m.init}))

(* The init state stays, but nothing leads to it when it is hopeless. *)
delete_hopeless_states(m) ==
    LET r == Restricted(m, Hopeful(m) \cup {m.init})
        hopeful == Hopeful(m)
    IN [r EXCEPT !.trig = [s \in DOMAIN @ |-> [c \in Char |-> @[s][c] \cap hopeful]],
                 !.eps  = [s \in DOMAIN @ |-> @[s] \cap hopeful]]

clean_up(m) == delete_hopeless_states(delete_orphaned_states(m))

mount_to_acceptance_states(m, t, CancelStartAcceptanceStateF) ==
    LET accepting == m.accept \ {t}
    IN [AddEpsilon(m, accepting, t) EXCEPT
            !.accept = IF CancelStartAcceptanceStateF THEN @ \ accepting ELSE @]

-----------------------------------------------------------------------------
(* Determination and minimization, by their results (NfaToDfa, Hopcroft).   *)

RECURSIVE EpsilonClosure(_, _)
EpsilonClosure(m, S) ==
    LET T == S \cup UNION {m.eps[s] : s \in S}
    IN IF T = S THEN S ELSE EpsilonClosure(m, T)

Step(m, S, c) == UNION {m.trig[s][c] : s \in EpsilonClosure(m, S)}

(* The combinations that are reached, in the order they are found. *)
RECURSIVE Combinations(_, _, _)
Combinations(m, found, i) ==
    LET add(list, c) ==
            LET S == Step(m, found[i], c)
            IN IF S \in {{}} \cup Range(list) THEN list ELSE Append(list, S)
    IN IF i > Len(found) THEN found
       ELSE Combinations(m, FoldLeft(add, found, SetToSortSeq(Char, <)), i + 1)

nfa_to_dfa(m) ==
    LET found == Combinations(m, <<{m.init}>>, 1)
        Index(S) == {i \in DOMAIN found : found[i] = S}
    IN [init   |-> 1,
        trig   |-> [i \in DOMAIN found |-> [c \in Char |-> Index(Step(m, found[i], c))]],
        eps    |-> [i \in DOMAIN found |-> {}],
        accept |-> {i \in DOMAIN found : EpsilonClosure(m, found[i]) \cap m.accept # {}}]

(* The coarsest partition whose members agree on acceptance and targets: a *)
(* state is named by the least one it cannot be told from.                 *)
RECURSIVE Equivalent(_, _)
Equivalent(m, name) ==
    LET same(s, t) == /\ name[s] = name[t]
                      /\ \A c \in Char : {name[x] : x \in m.trig[s][c]}
                                         = {name[x] : x \in m.trig[t][c]}
        finer == [s \in States(m) |-> Min({t \in States(m) : same(s, t)})]
    IN IF finer = name THEN name ELSE Equivalent(m, finer)

hopcroft_minimization(m) ==
    LET alike(s) == {t \in States(m) : t \in m.accept <=> s \in m.accept}
        name == Equivalent(m, [s \in States(m) |-> Min(alike(s))])
        kept == Range(name)
    IN [init   |-> name[m.init],
        trig   |-> [s \in kept |-> [c \in Char |-> {name[t] : t \in m.trig[s][c]}]],
        eps    |-> [s \in kept |-> {}],
        accept |-> m.accept \cap kept]

beautifier(m) == hopcroft_minimization(nfa_to_dfa(m))

-----------------------------------------------------------------------------
(* What a machine matches among the words W, and the words it can walk. *)

RECURSIVE After(_, _, _)
After(m, S, w) == IF w = <<>> THEN EpsilonClosure(m, S) ELSE After(m, Step(m, S, Head(w)), Tail(w))
Matched(m, W) == {w \in W : After(m, {m.init}, w) \cap m.accept # {}}
Walked(m, W) == {w \in W : After(m, {m.init}, w) # {}}
=============================================================================
