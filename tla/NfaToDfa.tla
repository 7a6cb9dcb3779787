------------------------------ MODULE NfaToDfa ------------------------------
(***************************************************************************)
(* Determinisation by the generator:                                       *)
(* src/quex/engine/state_machine/algorithm/nfa_to_dfa.py with the epsilon  *)
(* closures and the creation and removal of states of                      *)
(* src/quex/engine/state_machine/core.py.  A state that the code creates   *)
(* for a combination of states is named by the set of original states that *)
(* it stands for (ClosureDb), an original state s by {s}.  Characters stand*)
(* for the elementary trigger sets.                                        *)
(***************************************************************************)
EXTENDS Integers, Sequences, FiniteSets

CONSTANTS State,      \* indices of states
          Char,       \* elementary trigger sets
          Entry,      \* operations upon entry: acceptance of patterns
          InitState,  \* init_state_index
          Machines    \* the machines that are determinised

Machine == [trig: [State -> [Char -> SUBSET State]],
            eps : [State -> SUBSET State],
            entry: [State -> SUBSET Entry]]

ASSUME MachinesAssumption ==
    IsFiniteSet(State) /\ InitState \in State /\ Machines \subseteq Machine

VARIABLES nfa,       \* the machine as it was given
          base,      \* the machine without epsilon transitions
          states,    \* names of the states in the machine at this moment
          tm,        \* target_map of each of them
          entry,     \* single_entry of each of them
          worklist,  \* states whose transitions may be ambiguous
          phase

vars == <<nfa, base, states, tm, entry, worklist, phase>>

Name == (SUBSET State) \ {{}}

-----------------------------------------------------------------------------
(***************************************************************************)
(* Epsilon closures (core.py) and their combination.                       *)
(***************************************************************************)

(* Mutant: epsilon transitions are followed only once.                      *)
EpsilonNeighbours(eps, s) == {s} \cup eps[s]

(* epsilon_closure_db(): everything that is reached by epsilon transitions. *)
ClosedUnder(eps, S) == \A s \in S : eps[s] \subseteq S
EpsilonClosure(eps, s) ==
    {t \in State : \A S \in SUBSET State : s \in S /\ ClosedUnder(eps, S) => t \in S}

(* States that no character leads to: get_pure_epsilon_state_set().         *)
PureEpsilon(m) ==
    {t \in State \ {InitState} : \A s \in State : \A c \in Char : t \notin m.trig[s][c]}

(* A state with epsilon transitions is replaced by the combination of its   *)
(* closure, or deleted if only epsilon transitions led to it.               *)
CombinedClosures(m) ==
    [states |-> {s \in State : m.eps[s] = {} \/ s \notin PureEpsilon(m)},
     trig   |-> [s \in State |-> [c \in Char |->
                    UNION {m.trig[t][c] : t \in EpsilonClosure(m.eps, s)}]],
     entry  |-> [s \in State |-> UNION {m.entry[t] : t \in EpsilonClosure(m.eps, s)}]]

Init == /\ nfa \in Machines
        /\ base     = [states |-> State, trig |-> nfa.trig, entry |-> nfa.entry]
        /\ states   = {}
        /\ tm       = [X \in states |-> {}]
        /\ entry    = [X \in states |-> {}]
        /\ worklist = {}
        /\ phase    = "epsilon"

(* _combine_all_epsilon_closures(), and the worklist of all states.         *)
CombineEpsilonClosures ==
    /\ phase = "epsilon"
    /\ base'     = CombinedClosures(nfa)
    /\ states'   = {{s} : s \in base'.states}
    /\ tm'       = [X \in states' |-> [c \in Char |->
                        {{t} : t \in UNION {base'.trig[s][c] : s \in X}}]]
    /\ entry'    = [X \in states' |-> UNION {base'.entry[s] : s \in X}]
    /\ worklist' = states'
    /\ phase'    = "subsets"
    /\ UNCHANGED nfa

-----------------------------------------------------------------------------
(***************************************************************************)
(* Subset construction.                                                    *)
(***************************************************************************)

(* The elementary combinations of targets, originated: the sets of original *)
(* states that the targets of X stand for on each character.                *)
Originated(map) == {UNION map[c] : c \in {c \in Char : map[c] # {}}}

(* create_new_state_from_closure(): the transitions that the states of the  *)
(* closure have at this moment, and their entries.                          *)
ClosureMap(closure)   == [c \in Char |-> UNION {tm[{o}][c] : o \in closure}]
ClosureEntry(closure) == UNION {entry[{o}] : o \in closure}

(* Every character leads to one state, the one that stands for all targets. *)
Determined(map) == [c \in Char |-> IF map[c] = {} THEN {} ELSE {UNION map[c]}]

Unambiguous(map) == \A c \in Char : \A T, U \in map[c] : T = U

Process(X) ==
    LET new == Originated(tm[X]) \ states
    IN  /\ phase = "subsets"
        /\ IF Unambiguous(tm[X])
           THEN /\ worklist' = worklist \ {X}
                /\ UNCHANGED <<states, tm, entry>>
           ELSE /\ states'   = states \cup new
                /\ worklist' = (worklist \ {X}) \cup new
                /\ tm'       = [Y \in states' |-> IF Y = X THEN Determined(tm[X])
                                                  ELSE IF Y \in states THEN tm[Y]
                                                  ELSE ClosureMap(Y)]
                /\ entry'    = [Y \in states' |-> IF Y \in states THEN entry[Y]
                                                  ELSE ClosureEntry(Y)]
        /\ UNCHANGED <<nfa, base, phase>>

(* delete_orphaned_states(): only what is connected to the init state stays.*)
Targets(X)   == UNION {tm[X][c] : c \in Char}
Connected(S) == {InitState} \in S /\ \A X \in S : Targets(X) \subseteq S
ConnectedStates == {X \in states : \A S \in SUBSET states : Connected(S) => X \in S}

RemoveOrphanedStates ==
    /\ phase = "subsets" /\ worklist = {}
    /\ states' = ConnectedStates
    /\ tm'     = [X \in states' |-> tm[X]]
    /\ entry'  = [X \in states' |-> entry[X]]
    /\ phase'  = "done"
    /\ UNCHANGED <<nfa, base, worklist>>

Next == \/ CombineEpsilonClosures
        \/ \E X \in worklist : Process(X)
        \/ RemoveOrphanedStates

Spec     == Init /\ [][Next]_vars

-----------------------------------------------------------------------------
(***************************************************************************)
(* Properties.                                                             *)
(***************************************************************************)

(* Type invariant: no transition leads to a state that does not exist or    *)
(* was deleted (assert_consistency()).                                      *)
TypeOK ==
    /\ phase \in {"epsilon", "subsets", "done"}
    /\ states \subseteq Name /\ worklist \subseteq states
    /\ phase # "epsilon" => {InitState} \in states
    /\ tm \in [states -> [Char -> SUBSET states]]
    /\ entry \in [states -> SUBSET Entry]

(* In the middle of the construction each state leads to exactly those      *)
(* original states to which the states it stands for lead, and has their    *)
(* entries, although it may have been created from half treated states.     *)
LeadsTo(b, X, c) == UNION {b.trig[s][c] : s \in X}
EntriesOf(b, X)  == UNION {b.entry[s] : s \in X}
StandsForItsStates ==
    \A X \in states : /\ \A c \in Char : UNION tm[X][c] = LeadsTo(base, X, c)
                      /\ entry[X] = EntriesOf(base, X)

(* What is left is deterministic and has no state that cannot be reached.   *)
DeterministicWhenDone ==
    phase = "done" => /\ \A X \in states : Unambiguous(tm[X])
                      /\ \A S \in SUBSET states : Connected(S) => S = states

(* The entries that word w leads to: in the machine that was given, epsilon *)
(* transitions included, and in the machine as it is at this moment.        *)
Closure(S) ==
    LET reach[n \in 0..Cardinality(State)] ==
            IF n = 0 THEN S ELSE reach[n - 1] \cup UNION {nfa.eps[s] : s \in reach[n - 1]}
    IN  reach[Cardinality(State)]
EntriesAsGiven(w) ==
    LET at[n \in 0..Len(w)] ==
            IF n = 0 THEN Closure({InitState})
            ELSE Closure(UNION {nfa.trig[s][w[n]] : s \in at[n - 1]})
    IN  UNION {nfa.entry[s] : s \in at[Len(w)]}
EntriesNow(w) ==
    LET at[n \in 0..Len(w)] ==
            IF n = 0 THEN {{InitState}} ELSE UNION {tm[X][w[n]] : X \in at[n - 1]}
    IN  UNION {entry[X] : X \in at[Len(w)]}

(* At every moment the machine accepts every word for the same patterns as  *)
(* the machine that was given.                                              *)
Words == UNION {[1..n -> Char] : n \in 0..Cardinality(State)}
AcceptsAsGiven ==
    phase \in {"subsets", "done"} => \A w \in Words : EntriesNow(w) = EntriesAsGiven(w)
=============================================================================
