------------------------------ MODULE Hopcroft ------------------------------
(***************************************************************************)
(* Minimisation of a DFA by the generator: class HopcroftMinization of     *)
(* src/quex/engine/state_machine/algorithm/hopcroft_minimization.py.  The  *)
(* states are kept in sets of states that may be combined; a set on the    *)
(* list todo may have to be split, and one in non_homogenous may contain   *)
(* states that trigger to different target sets.  The code numbers the     *)
(* sets and lets the remainder of a split keep the number; here a set of   *)
(* states is its own name.  Characters stand for the elementary ranges of  *)
(* the trigger sets.                                                       *)
(***************************************************************************)
EXTENDS Integers, Sequences, FiniteSets

CONSTANTS State,      \* indices of states
          Char,       \* elementary trigger ranges
          Key,        \* hopcroft_combinability_key() of a state's entry
          NoState,    \* there is no transition
          InitState,  \* init_state_index
          Machines,   \* the state machines that are minimised
          Colourings  \* ways to colour states, by which minimality is judged

Target  == State \cup {NoState}
Machine == [move: [State -> [Char -> Target]], key: [State -> Key]]

ASSUME MachinesAssumption ==
    /\ IsFiniteSet(State)
    /\ InitState \in State
    /\ NoState \notin State
    /\ Machines \subseteq Machine
    /\ Colourings \subseteq [State -> State]

VARIABLES dfa,             \* the state machine that is minimised
          state_sets,      \* state_set_list
          todo,            \* __todo
          non_homogenous,  \* __non_homogenous
          pass,            \* the copied list over which a 'for' still has to go
          phase,           \* where run() is
          change_f,        \* the last phase (B) has split a set
          result           \* the state machine that is left: states and moves

vars == <<dfa, state_sets, todo, non_homogenous, pass, phase, change_f, result>>

-----------------------------------------------------------------------------
Single(B) == \E s \in B : B = {s}

(* to_map[s] seen through 'map': the sets that state s triggers to, and the *)
(* characters on which it triggers into set T.                              *)
Targets(d, s)          == {d.move[s][c] : c \in Char} \ {NoState}
TargetSets(d, sets, s) == {T \in sets : Targets(d, s) \cap T # {}}
TriggerSet(d, s, T)    == {c \in Char : d.move[s][c] \in T}

(* Mutant: target states are compared, not the sets they belong to.         *)
MatchingTargetStates(d, sets, B, p) == {s \in B : Targets(d, s) = Targets(d, p)}

(* The states of B whose target sets are the same as those of prototype p.  *)
Matching(d, sets, B, p) ==
    {s \in B : TargetSets(d, sets, s) = TargetSets(d, sets, p)}

(* Mutant: trigger sets that overlap are taken for equal.                   *)
EquivalentIfOverlapping(d, sets, B, p) ==
    {s \in B : \A T \in TargetSets(d, sets, p) :
                    TriggerSet(d, s, T) \cap TriggerSet(d, p, T) # {}}

(* The states of B that trigger as p does into each target set of p.        *)
Equivalent(d, sets, B, p) ==
    {s \in B : \A T \in TargetSets(d, sets, p) :
                    TriggerSet(d, s, T) = TriggerSet(d, p, T)}

(* The sets, B replaced by the part M that is extracted and the remainder.  *)
Extracted(sets, B, M) == (sets \ {B}) \cup {M, B \ M}
Splittable(sets)      == {X \in sets : ~Single(X)}

(* Sets that trigger into the broken up set B become suspects again.        *)
Dependents(d, sets, B) ==
    {X \in Splittable(sets) : \E s \in X : Targets(d, s) \cap B # {}}

(* No set that p triggers to may be split anymore.                          *)
AllDone(d, sets, open, suspects, p) == open \cap TargetSets(d, sets, p) = {}

SameKey(d, s) == {t \in State : d.key[t] = d.key[s]}

Init == /\ dfa \in Machines
        /\ state_sets     = {SameKey(dfa, s) : s \in State}
        /\ todo           = Splittable(state_sets)
        /\ non_homogenous = Splittable(state_sets)
        /\ pass     = {}
        /\ phase    = "loop"
        /\ change_f = TRUE
        /\ result   = [states |-> State, move |-> dfa.move]

(* The head of run()'s loop.                                                *)
Loop == /\ phase = "loop"
        /\ phase' = IF todo # {} /\ change_f THEN "homogenise" ELSE "done"
        /\ UNCHANGED <<dfa, state_sets, todo, non_homogenous, pass, change_f, result>>

(* Phase (A): another round over a copy of the suspects, if there are any.  *)
NextRound == /\ phase = "homogenise" /\ pass = {} /\ non_homogenous # {}
             /\ pass' = non_homogenous
             /\ UNCHANGED <<dfa, state_sets, todo, non_homogenous, phase, change_f, result>>

(* The prototype is whichever state the list names first.                   *)
PreSplit(B, p) ==
    LET match == Matching(dfa, state_sets, B, p)
        sets  == Extracted(state_sets, B, match)
    IN  /\ phase = "homogenise"
        /\ pass' = pass \ {B}
        /\ IF match = B
           THEN /\ non_homogenous' = non_homogenous \ {B}
                /\ UNCHANGED <<state_sets, todo>>
           ELSE /\ state_sets' = sets
                /\ todo' = (todo \ {B}) \cup Splittable({match, B \ match})
                /\ non_homogenous' = (non_homogenous \ {B}) \cup Splittable({B \ match})
                                        \cup Dependents(dfa, sets, B)
        /\ UNCHANGED <<dfa, phase, change_f, result>>

(* Phase (B): no suspects are left; a copy of the todo list is gone through,*)
(* the largest sets first.                                                  *)
StartSplit == /\ phase = "homogenise" /\ pass = {} /\ non_homogenous = {}
              /\ phase'    = "split"
              /\ pass'     = todo
              /\ change_f' = FALSE
              /\ UNCHANGED <<dfa, state_sets, todo, non_homogenous, result>>

Largest(sets) == {B \in sets : \A C \in sets : Cardinality(C) <= Cardinality(B)}

Split(B, p) ==
    LET eq   == Equivalent(dfa, state_sets, B, p)
        sets == Extracted(state_sets, B, eq)
        all_done_f == AllDone(dfa, state_sets, todo, non_homogenous, p)
    IN  /\ phase = "split"
        /\ IF eq = B
           THEN /\ todo' = IF all_done_f THEN todo \ {B} ELSE todo
                /\ non_homogenous' = non_homogenous \ {B}
                /\ pass' = pass \ {B}
                /\ UNCHANGED <<state_sets, change_f>>
           ELSE /\ state_sets' = sets
                /\ todo' = (todo \ {B}) \cup Splittable({B \ eq})
                              \cup (IF all_done_f THEN {} ELSE Splittable({eq}))
                /\ non_homogenous' = (non_homogenous \ {B}) \cup Splittable({B \ eq})
                                        \cup Dependents(dfa, sets, B)
                /\ pass' = IF non_homogenous' # {} THEN {} ELSE pass \ {B}
                /\ change_f' = TRUE
        /\ UNCHANGED <<dfa, phase, result>>

EndSplit == /\ phase = "split" /\ pass = {}
            /\ phase' = "loop"
            /\ UNCHANGED <<dfa, state_sets, todo, non_homogenous, pass, change_f, result>>

(* adapt_state_machine(): of each set one state stays, the initial state    *)
(* where it is a member, and takes the place of the others.                 *)
Prototypes(P) == /\ InitState \in P
                 /\ \A B \in state_sets : Single(P \cap B)

(* Mutant: targets that were thrown out are not replaced.                   *)
ReplacementOmitted(P, t) == t

Replacement(P, t) ==
    IF t = NoState THEN NoState
    ELSE CHOOSE p \in P : \E B \in state_sets : {p, t} \subseteq B

Adapt(P) ==
    /\ phase = "done"
    /\ Prototypes(P)
    /\ result' = [states |-> P,
                  move   |-> [s \in P |-> [c \in Char |-> Replacement(P, dfa.move[s][c])]]]
    /\ phase' = "adapted"
    /\ UNCHANGED <<dfa, state_sets, todo, non_homogenous, pass, change_f>>

Next == \/ Loop \/ NextRound \/ StartSplit \/ EndSplit
        \/ \E B \in pass          : \E p \in B : PreSplit(B, p)
        \/ \E B \in Largest(pass) : \E p \in B : Split(B, p)
        \/ \E P \in SUBSET State : Adapt(P)

Spec == Init /\ [][Next]_vars

-----------------------------------------------------------------------------
(***************************************************************************)
(* Properties.                                                             *)
(***************************************************************************)
SamePlace(sets, d, s, t, c) ==
    \/ d.move[s][c] = NoState /\ d.move[t][c] = NoState
    \/ \E T \in sets : d.move[s][c] \in T /\ d.move[t][c] \in T

Homogenous(d, sets, B) ==
    \A s, t \in B : TargetSets(d, sets, s) = TargetSets(d, sets, t)

Stable(d, sets, B) ==
    \A s, t \in B : /\ d.key[s] = d.key[t]
                    /\ \A c \in Char : SamePlace(sets, d, s, t, c)

(* Type invariant: at any time the sets cover the states and do not overlap *)
(* (__extract() and 'map').                                                 *)
TypeOK == /\ dfa \in Machine
          /\ state_sets \subseteq ((SUBSET State) \ {{}})
          /\ UNION state_sets = State
          /\ \A B, C \in state_sets : B # C => B \cap C = {}
          /\ phase \in {"loop", "homogenise", "split", "done", "adapted"}
          /\ change_f \in BOOLEAN

(* The assertions of run(), pre_split() and todo_remove(): a suspect is     *)
(* always on the todo list, what is still to be visited is still on the list*)
(* it was copied from, and a set with a single state is on neither.         *)
WorkListsAgree ==
    /\ non_homogenous \subseteq todo
    /\ todo \subseteq Splittable(state_sets)
    /\ phase = "homogenise" => pass \subseteq non_homogenous
    /\ phase = "split"      => pass \subseteq todo
    /\ phase = "split" /\ pass # {} => non_homogenous = {}

(* split() indexes the trigger map of each state with the targets of the    *)
(* prototype: a set that is not suspected must trigger to the same sets with*)
(* all of its states, however the sets it triggers to were broken up since. *)
UnsuspectedAreHomogenous ==
    \A B \in state_sets \ non_homogenous : Homogenous(dfa, state_sets, B)

(* The shortcuts that take a set off the todo list early, and the end of the*)
(* loop when a pass changed nothing, are right: what is left at the end are *)
(* sets whose states do the same on every character.                        *)
FinishedMeansStable ==
    phase \in {"done", "adapted"} =>
        \A B \in state_sets : Stable(dfa, state_sets, B)

(* Minimality: states that no input can tell apart are never separated.  A  *)
(* congruence is any colouring of the states that respects keys and moves.  *)
Congruence(d, f) ==
    \A s, t \in State : f[s] = f[t] =>
        /\ d.key[s] = d.key[t]
        /\ \A c \in Char :
             /\ d.move[s][c] = NoState <=> d.move[t][c] = NoState
             /\ d.move[s][c] # NoState => f[d.move[s][c]] = f[d.move[t][c]]

EquivalentStayTogether ==
    \A f \in Colourings : Congruence(dfa, f) =>
        \A s, t \in State : f[s] = f[t] => \E B \in state_sets : {s, t} \subseteq B

(* A set that was taken off the todo list is never broken up again: the     *)
(* judgement 'all targets are done' of split() stays true.                  *)
DoneSetsStay == [][state_sets \ todo \subseteq state_sets' \ todo']_vars

(* What a machine says at the end of word w: the key of the state in which  *)
(* it is, or NoState when it dropped out on the way.                        *)
Arrival(move, w) ==
    LET go[n \in 0..Len(w)] ==
            IF n = 0 THEN InitState
            ELSE IF go[n - 1] = NoState THEN NoState ELSE move[go[n - 1]][w[n]]
    IN  go[Len(w)]

Verdict(w, move) == LET s == Arrival(move, w)
                    IN  IF s = NoState THEN NoState ELSE dfa.key[s]

(* The machine that is left answers every word as the original did, no state*)
(* refers to one that was thrown away, and the initial state is kept.       *)
Words == UNION {[1..n -> Char] : n \in 0..Cardinality(State)}
ResultEquivalent ==
    phase = "adapted" =>
        /\ InitState \in result.states
        /\ \A s \in result.states : \A c \in Char :
                result.move[s][c] \in result.states \cup {NoState}
        /\ \A w \in Words : Verdict(w, result.move) = Verdict(w, dfa.move)
=============================================================================
