---------------------------- MODULE PatternChecks ----------------------------
(***************************************************************************)
(* Comparison of two patterns: engine/state_machine/check/superset.py,     *)
(* identity.py, outrun.py and engine/state_machine/algebra/is_disjoint.py. *)
(* Each walks two state machines at once, depth first, and marks the       *)
(* states of one machine as done.  The order in which a state's targets    *)
(* are visited is that of a dictionary: any.                               *)
(***************************************************************************)
EXTENDS Integers, Sequences, FiniteSets

CONSTANTS State,      \* indices of states
          Char,       \* elementary trigger ranges
          NoState,    \* there is no transition
          InitState,  \* init_state_index
          Problems,   \* what is checked: [check, a, b]
          Relations   \* for each, relations of states by which it is judged

Checks  == {"superset", "identity", "outrun", "is_disjoint"}
Machine == [move: [State -> [Char -> State \cup {NoState}]], accept: SUBSET State]
Problem == [check: Checks, a: Machine, b: Machine]
Place   == {1, 2} \X State \X State

ASSUME ProblemsAssumption ==
    /\ InitState \in State
    /\ NoState \notin State
    /\ Problems \subseteq Problem
    /\ Relations \in [Problems -> SUBSET SUBSET Place]

VARIABLES problem,  \* the check and the machines given to it
          stack,    \* what is left to be visited, on each level of the walk
          visited,  \* visited_state_index_set, done_set
          found,    \* CommonalityWalker.result
          walk,     \* 1, or 2 for the DiversionWalker of outrun
          verdict   \* "open", or what is returned: "yes", "no"

vars == <<problem, stack, visited, found, walk, verdict>>

A == problem.a
B == problem.b

-----------------------------------------------------------------------------
Moves(m, s)   == {c \in Char : m.move[s][c] # NoState}
Targets(m, s) == {m.move[s][c] : c \in Moves(m, s)}
Into(m, s, t) == {c \in Char : m.move[s][c] = t}

(* get_resulting_target_state_index_list() for the states in L              *)
Resulting(m, L, C) == {m.move[p][c] : p \in L, c \in C} \ {NoState}

is_Empty(m) == InitState \notin m.accept /\ Moves(m, InitState) = {}

(* Mutant: a character that both trigger on is not needed.                  *)
CommonOfAny(p, s) == Targets(A, p) \X Targets(B, s)

(* Pairs of targets whose trigger sets intersect.                           *)
Common(p, s) ==
    {x \in State \X State : Into(A, p, x[1]) \cap Into(B, s, x[2]) # {}}

(* The levels of the walk on which something is left.                       *)
Level(S)      == IF S = {} THEN <<>> ELSE <<S>>
Without(x)    == SubSeq(stack, 1, Len(stack) - 1) \o Level(stack[Len(stack)] \ {x})
Return(v)     == verdict' = v /\ UNCHANGED <<problem, stack, visited, found, walk>>

-----------------------------------------------------------------------------
(* superset.py, identity.py: __dive() goes along B and takes with it the    *)
(* states of A that were reached by the same triggers.                      *)

Dives == problem.check \in {"superset", "identity"}
Edge(s, L, t) == [si |-> s, list |-> L, target |-> t]
Edges(s, L)   == {Edge(s, L, t) : t \in Targets(B, s)}

Covered(L, C) == \A p \in L : C \subseteq Moves(A, p)

(* Mutant: acceptance does not matter.                                      *)
SupportedByTriggers(e) ==
    problem.check = "superset" => Covered(e.list, Into(B, e.si, e.target))

(* The condition for an edge, and for entering a state.                     *)
Supported(e) ==
    LET C == Into(B, e.si, e.target)
        L == Resulting(A, e.list, C)
    IN IF problem.check = "superset"
       THEN Covered(e.list, C) /\ (e.target \in B.accept => L \subseteq A.accept)
       ELSE \A p \in L : p \in A.accept <=> e.target \in B.accept
Enterable(s, L) == problem.check = "superset" \/ \A p \in L : Moves(A, p) = Moves(B, s)

Companions(e) == Resulting(A, e.list, Into(B, e.si, e.target))

Dive(e) ==
    /\ visited' = visited \cup {e.target}
    /\ stack' = Without(e) \o Level(Edges(e.target, Companions(e)))
    /\ UNCHANGED <<problem, found, walk, verdict>>

FollowEdge(e) ==
    /\ Dives
    /\ CASE ~ Supported(e) -> Return("no")
         [] Supported(e) /\ e.target \in visited ->
                stack' = Without(e) /\ UNCHANGED <<problem, visited, found, walk, verdict>>
         [] Supported(e) /\ e.target \notin visited /\ ~ Enterable(e.target, Companions(e)) ->
                Return("no")
         [] OTHER -> Dive(e)

-----------------------------------------------------------------------------
(* TreeWalker.do() over pairs of states <<of A, of B>>.                      *)

Key(x) == IF walk = 1 THEN x[1] ELSE x[2]

Refuse(x) ==
    /\ ~ Dives /\ Key(x) \in visited
    /\ stack' = Without(x)
    /\ UNCHANGED <<problem, visited, found, walk, verdict>>

Descend(x, S) ==
    /\ visited' = visited \cup {Key(x)}
    /\ stack' = Without(x) \o Level(S)
    /\ UNCHANGED <<problem, walk, verdict>>

(* SameDetector.on_enter() *)
EnterSame(x) ==
    /\ problem.check = "is_disjoint" /\ x[1] \notin visited
    /\ IF x[1] \in A.accept /\ x[2] \in B.accept
       THEN Return("no")
       ELSE Descend(x, Common(x[1], x[2])) /\ UNCHANGED found

(* CommonalityWalker.on_enter(): A has the higher priority. *)
EnterCommonality(x) ==
    /\ problem.check = "outrun" /\ walk = 1 /\ x[1] \notin visited
    /\ IF x[1] \in A.accept
       THEN Descend(x, {}) /\ found' = found \cup {x}
       ELSE Descend(x, Common(x[1], x[2])) /\ UNCHANGED found

(* DiversionWalker.on_enter() *)
Diverts(x) ==
    \/ x[2] \in B.accept /\ x[1] \notin A.accept
    \/ ~ Moves(B, x[2]) \subseteq Moves(A, x[1])
EnterDiversion(x) ==
    /\ problem.check = "outrun" /\ walk = 2 /\ x[2] \notin visited
    /\ IF Diverts(x)
       THEN Return("yes")
       ELSE Descend(x, Common(x[1], x[2])) /\ UNCHANGED found

-----------------------------------------------------------------------------
(* The initial call, and what follows when nothing is left.                 *)

Start == <<InitState, InitState>>

InitialStack ==
    IF Dives THEN Level(Edges(InitState, {InitState})) ELSE <<{Start}>>

InitialVerdict ==
    IF problem.check = "is_disjoint" /\ (is_Empty(A) \/ is_Empty(B)) THEN "yes"
    ELSE IF Dives /\ ~ Enterable(InitState, {InitState}) THEN "no" ELSE "open"

Init ==
    /\ problem \in Problems
    /\ stack = InitialStack
    /\ visited = IF Dives THEN {InitState} ELSE {}
    /\ found = {}
    /\ walk = 1
    /\ verdict = InitialVerdict

Visit ==
    /\ verdict = "open" /\ stack # <<>>
    /\ \E x \in stack[Len(stack)] :
          \/ FollowEdge(x)
          \/ Refuse(x)
          \/ EnterSame(x)
          \/ EnterCommonality(x)
          \/ EnterDiversion(x)

StartDiversion ==
    /\ verdict = "open" /\ stack = <<>>
    /\ problem.check = "outrun" /\ walk = 1 /\ found # {}
    /\ stack' = <<found>>
    /\ visited' = {}
    /\ walk' = 2
    /\ UNCHANGED <<problem, found, verdict>>

Conclude ==
    /\ verdict = "open" /\ stack = <<>>
    /\ problem.check = "outrun" => walk = 2 \/ found = {}
    /\ Return(IF problem.check = "outrun" THEN "no" ELSE "yes")

Next == Visit \/ StartDiversion \/ Conclude

Spec == Init /\ [][Next]_vars

-----------------------------------------------------------------------------
(* Properties *)

(* What each variable holds.                                                *)
Nodes ==
    IF Dives THEN [si: State, list: SUBSET State, target: State] ELSE State \X State
TypeOK ==
    /\ problem \in Problems
    /\ stack \in Seq((SUBSET Nodes) \ {{}})
    /\ visited \subseteq State
    /\ found \subseteq State \X State
    /\ walk \in {1, 2}
    /\ verdict \in {"open", "yes", "no"}

(* R contains the places where both machines can be after the same          *)
(* characters: <<1, p, s>>, and for outrun <<2, p, s>> once A has accepted. *)
Closed(R) ==
    /\ <<1, InitState, InitState>> \in R
    /\ \A i \in {1, 2}, p \in State, s \in State : <<i, p, s>> \in R =>
          IF problem.check = "outrun" /\ i = 1 /\ p \in A.accept
          THEN <<2, p, s>> \in R
          ELSE \A c \in Moves(A, p) \cap Moves(B, s) :
                   <<i, A.move[p][c], B.move[s][c]>> \in R

(* What shows at such a place that A is not a superset of B, or does not    *)
(* match the same, that B outruns A, or that both match the same lexeme.    *)
Evidence(i, p, s) ==
    CASE problem.check = "superset" ->
            \E c \in Moves(B, s) : \/ c \notin Moves(A, p)
                                   \/ B.move[s][c] \in B.accept /\ A.move[p][c] \notin A.accept
      [] problem.check = "identity" ->
            \/ Moves(A, p) # Moves(B, s)
            \/ \E c \in Moves(B, s) : ~ (B.move[s][c] \in B.accept <=> A.move[p][c] \in A.accept)
      [] problem.check = "outrun" -> i = 2 /\ Diverts(<<p, s>>)
      [] OTHER -> p \in A.accept /\ s \in B.accept

Discovery == IF problem.check = "outrun" THEN "yes" ELSE "no"

(* Whoever is told that a pattern is not a superset, not identical, outrun, *)
(* or not disjoint is told the truth: a lexeme shows it, whatever the order *)
(* of the walk and however early it stops.                                  *)
DiscoveryHasEvidence ==
    verdict = Discovery =>
        \A R \in Relations[problem] :
            Closed(R) => \E x \in R : Evidence(x[1], x[2], x[3])

NothingToDiscover ==
    \E R \in Relations[problem] :
        Closed(R) /\ \A x \in R : ~ Evidence(x[1], x[2], x[3])

(* A state that is marked as done is not met in the company of another      *)
(* state of the other machine.                                              *)
OneCompanion(R) ==
    \A x \in R, y \in R :
        /\ x[1] = y[1]
        /\ IF Dives \/ x[1] = 2 THEN x[3] = y[3] ELSE x[2] = y[2]
        => x = y

(* Nothing is overlooked where states are met in one company only.          *)
ExactForOneCompanion ==
    verdict \notin {"open", Discovery} =>
        \/ NothingToDiscover
        \/ \A R \in Relations[problem] : Closed(R) => ~ OneCompanion(R)
=============================================================================
