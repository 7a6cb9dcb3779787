----------------------------- MODULE MCAnalyzer -----------------------------
(* Four instances in one: a behaviour analyses a state machine and runs     *)
(* what results (Analyzer), implements the entry into a state (CommandTree),*)
(* puts states together (MegaStates), or goes from input files with modes to*)
(* the analyser that changes between them (Modes; the files are in MCModes).*)
(* Machines of five states, over three kinds of patterns: some that accept  *)
(* here and there along loops and forks, with and without a pre-context     *)
(* (1; 2, 3), and post-contexts (4; 5 with a pre-context) on branches that  *)
(* meet.                                                                    *)
EXTENDS Analyzer

MCState == 1..5
Accept(p)  == [id |-> p, cond |-> {}, restore |-> FALSE]
After(p)   == [id |-> p, cond |-> {"c"}, restore |-> FALSE]
Behind(p)  == [id |-> p, cond |-> {}, restore |-> TRUE]
Between(p) == [id |-> p, cond |-> {"c"}, restore |-> TRUE]

Plain ==
    {[to |-> <<a, b, c, d, e>>, accept |-> << <<>>, x, y, z, <<>> >>,
      store |-> <<{}, {}, {}, {}, {}>>] :
        a \in {{2}, {2, 3}}, b \in {{4}, {3, 4}}, c \in {{4}, {2, 5}},
        d \in {{}, {2}, {4, 5}}, e \in {{}, {3}},
        x \in {<<>>, <<Accept(2)>>, <<After(1)>>}, y \in {<<>>, <<Accept(2)>>},
        z \in {<<>>, <<After(1), Accept(3)>>}}
Branches ==
    {[to |-> <<{2, 3}, b, c, d, e>>, accept |-> << <<>>, <<>>, x, <<Behind(4)>>, z>>,
      store |-> <<{}, {4}, y, {}, {}>>] :
        b \in {{4}, {2, 4}}, c \in {{5}, {3, 5}}, d \in {{}, {4}, {5}}, e \in {{}, {4}, {5}},
        x \in {<<>>, <<Accept(2)>>, <<After(1)>>}, y \in {{}, {5}}, z \in {<<>>, <<Between(5)>>}}

(* What combined patterns are like: all states can be reached; a position   *)
(* is stored on every way to where it is restored, and not again.           *)
Reach(m, s, without) ==
    LET r[n \in MCState] == IF n = 1 THEN {s} \ without
                            ELSE r[n-1] \cup (UNION {m.to[x] : x \in r[n-1]} \ without)
    IN r[5]
Onto(m, s)     == UNION {Reach(m, t, {}) : t \in m.to[s]}
Stores(m, p)   == {s \in MCState : p \in m.store[s]}
Restores(m, p) == {s \in MCState : \E i \in DOMAIN m.accept[s] :
                        m.accept[s][i].id = p /\ m.accept[s][i].restore}
Combined(m) ==
    /\ Reach(m, 1, {}) = MCState
    /\ \A p \in {4, 5} : /\ Restores(m, p) \cap Reach(m, 1, Stores(m, p)) = {}
                         /\ \A s \in Restores(m, p) : Onto(m, s) \cap Stores(m, p) = {}
                         /\ (Restores(m, p) = {}) = (Stores(m, p) = {})

(* A post-context's position is not stored on a way on which another one is.*)
Keeps(m, s) == m.store[s] \cup {m.accept[s][i].id : i \in {j \in DOMAIN m.accept[s] : ~ m.accept[s][j].restore}}
Apart(m) ==
    \A s, t \in MCState :
        t # s /\ t \in Onto(m, s) /\ Keeps(m, t) # Keeps(m, s) /\ Keeps(m, s) # {} =>
            (Keeps(m, s) \cup Keeps(m, t)) \cap {4, 5} = {} \/ Keeps(m, t) = {}

MCMachines == {m \in Plain \cup Branches : Combined(m) /\ Apart(m)}

(* Pattern 2 accepts on the way on which the core of pattern 4 has ended.   *)
OnOneWay == {[to |-> <<{2}, {3}, {4}, {4, 5}, {}>>,
              accept |-> << <<>>, <<>>, <<Accept(2)>>, <<>>, <<Behind(4)>> >>,
              store |-> <<{}, {4}, {}, {}, {}>>]}
(* The init state is entered again.                                         *)
Reentered == {[to |-> <<{2}, {1, 3}, {4}, {5}, {}>>,
               accept |-> << <<>>, <<Accept(2)>>, <<>>, <<>>, <<>> >>,
               store |-> <<{}, {}, {}, {}, {}>>]}
(* The core ends in one of two states, and then another pattern accepts.    *)
TwoEnds == {[to |-> <<{2, 3}, {4}, {4}, {4, 5}, {}>>,
             accept |-> << <<>>, <<>>, <<>>, <<Accept(2)>>, <<Behind(4)>> >>,
             store |-> <<{}, {4}, {4}, {}, {}>>]}

(* Entries: a state is entered from two others and for reload, with short   *)
(* lists in any combination, some of which go elsewhere, and a longer list  *)
(* from one of them; with repeated commands; with orders of four commands.  *)
(* An init state, whose global entry has nothing to step over.              *)
Upto(C, n)     == UNION {[1..k -> C] : k \in 0..n}
Distinct(C, n) == {q \in Upto(C, n) : IsInjective(q)}
Basic          == {"store", "accept", "preok", "inc"}
Elsewhere      == {<<"goto">>, <<"store", "goto">>, <<"inc", "goto">>}
Orders         == {q \in [1..4 -> Basic] : IsInjective(q)}
Stepping       == {before \o <<"inc", "deref">> \o after :
                      before \in {<<>>, <<"store">>, <<"preok">>}, after \in {<<>>, <<"accept">>}}
From(A, B, R)  == {[a |-> x, b |-> y, r |-> z] : x \in A, y \in B, z \in R}
MCFamilies ==
    From(Distinct(Basic, 2) \cup Elsewhere, Distinct(Basic, 2) \cup Elsewhere, Distinct(Basic, 2))
      \cup From(Distinct(Basic, 3), Distinct(Basic, 3), {<<"inc">>, <<"accept">>})
      \cup From(Upto({"accept", "inc"}, 3), Upto({"accept", "inc"}, 2), {<<"inc">>})
      \cup From({<<"preok", "store", "accept", "inc">>, <<"inc", "accept", "preok", "store">>}, Orders, {<<"inc">>, <<"accept">>})
      \cup {[a |-> x, b |-> y, g |-> z, r |-> <<"deref">>] :
                x, y \in Stepping, z \in {<<"deref">>, <<"accept", "deref">>}}

VARIABLES given, phase, entry, doors, todo, tail_db, candidate_db, text
Tree == INSTANCE CommandTree WITH
    Reload <- "r", Global <- "g", Families <- MCFamilies
tree == <<given, phase, entry, doors, todo, tail_db, candidate_db, text>>

(* States to put together: one way through 2, 3, 4, 5 with what else its    *)
(* states do, and two ways, to 4 and to 6, that one path walker may walk.   *)
(* 'ops' is what is done on the way from s to t, 'out' upon drop-out.       *)
Ops(T, S) == [t \in 1..6 |-> [s \in 1..6 |-> IF t \in T /\ s \in S THEN 2 ELSE 1]]
MCMega(rows, o) == [to |-> rows, ops |-> o, out |-> [s \in 1..6 |-> s % 2]]
OneWay ==
    {MCMega(<< <<2, 2, 3>>, <<3, a, b>>, <<c, d, 0>>, <<5, e, 0>>, <<0, 0, 6>>, f>>, o) :
        a \in {0, 6}, b \in {0, 6}, c \in {0, 3, 4}, d \in {0, 4, 6}, e \in {0, 5, 6},
        f \in {<<0, 0, 0>>, <<0, 6, 6>>, <<4, 0, 0>>},
        o \in {Ops({}, {}), Ops({4}, {3}), Ops({3, 6}, {2, 3})}}
TwoWays ==
    {MCMega(<< <<2, 2, 5>>, <<3, a, 0>>, <<b, 4, c>>, <<a, d, 0>>, <<f, a, 6>>, <<e, b, c>> >>, o) :
        a \in {0, 4}, b \in {0, 5}, c \in {0, 2}, d \in {0, 4, 5}, e \in {0, 4}, f \in {0, 3},
        o \in {Ops({}, {}), Ops({6}, {5}), Ops({6, 3}, {2, 4})}}

VARIABLES small, types, stage, remainder, walking, found, chosen, walkers, elects,
          candidates, bad, mega, direct, compressed
Mega == INSTANCE MegaStates WITH
    given <- small, todo <- walking, Machines <- OneWay \cup TwoWays, MinGain <- 0,
    TypeLists <- {<<"path">>, <<"path_uniform">>, <<"template">>, <<"path", "template">>, <<"template", "path">>}
megas == <<small, types, stage, remainder, walking, found, chosen, walkers, elects,
           candidates, bad, mega, direct, compressed>>

VARIABLES file, parsed, next_id, preps, made, me
Texts == INSTANCE MCModes
Input == INSTANCE Modes WITH phase <- made, Files <- Texts!MCFiles, StackSize <- 2
input == <<file, parsed, next_id, preps, made, me>>

NoInput == /\ file = <<>> /\ parsed = <<>> /\ next_id = 0 /\ preps = [n \in {} |-> <<>>]
           /\ made = "none" /\ me = [mode |-> "none"]
NoMega == /\ small = <<>> /\ types = <<>> /\ stage = "none" /\ remainder = {} /\ walking = {}
          /\ found = {} /\ chosen = <<>> /\ walkers = <<>> /\ elects = {} /\ candidates = {}
          /\ bad = {} /\ mega = <<>> /\ direct = <<>> /\ compressed = <<>>
NoTree == /\ given = <<>> /\ phase = "enter" /\ entry = <<>> /\ doors = <<>>
          /\ todo = {} /\ tail_db = {} /\ candidate_db = {} /\ text = <<>>
(* Nothing to analyse.                                                      *)
NoMachine ==
    /\ machine = [to |-> [s \in MCState |-> {}], accept |-> [s \in MCState |-> <<>>],
                  store |-> [s \in MCState |-> {}]]
    /\ stack = <<>>
    /\ result = [s \in MCState |-> {}]
    /\ plan = Unplanned /\ at = InitState /\ pre = {} /\ pos = Unset /\ last = Unset
    /\ register = <<>> /\ match = Unset /\ core = Unset

MCInit == \/ InitAnalyzer /\ NoTree /\ NoMega /\ NoInput
          \/ NoMachine /\ Tree!TreeInit /\ NoMega /\ NoInput
          \/ NoMachine /\ NoTree /\ Mega!MsStart /\ NoInput
          \/ NoMachine /\ NoTree /\ NoMega /\ Input!Init
Nothing == given = <<>> /\ stage = "none" /\ made = "none"
MCNext == \/ Nothing /\ NextAnalyzer /\ UNCHANGED <<tree, megas, input>>
          \/ given # <<>> /\ Tree!TreeNext /\ UNCHANGED <<all, megas, input>>
          \/ stage # "none" /\ Mega!MsNext /\ UNCHANGED <<all, tree, input>>
          \/ made # "none" /\ Input!Next /\ UNCHANGED <<all, tree, megas>>
MCSpec == MCInit /\ [][MCNext]_<<all, tree, megas, input>> /\ WF_all(Walk)

(* What is written for the entries does what it should: see CommandTree.    *)
SameEffect == Tree!SameEffect
(* Mega states change nothing: see MegaStates.                              *)
BehavesAlike == Mega!BehavesAlike
(* What modes inherit, how their patterns are ordered and marked, what may  *)
(* be entered from where: see Modes.                                        *)
BaseSequencesRight    == Input!BaseSequencesRight
WinnersAsWritten      == Input!WinnersAsWritten
PermittedEntered      == Input!PermittedEntered
=============================================================================
