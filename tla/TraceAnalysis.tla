---------------------------- MODULE TraceAnalysis ----------------------------
(***************************************************************************)
(* What is known in a state of the analyser about the way to it:           *)
(* engine/analyzer/trace_analysis/core.py.  The walk goes along the paths  *)
(* of the machine, depth first, and keeps for each state the traces that   *)
(* differ; where a trace is equivalent to one that is known it turns back. *)
(* The targets of a state are a set: they are visited in any order.        *)
(***************************************************************************)
EXTENDS Integers, Sequences, FiniteSets

CONSTANTS State,      \* indices of states
          InitState,  \* init_state_index
          Pattern,    \* acceptance ids, which are the ids of the registers
          Failure,    \* E_IncidenceIDs.MATCH_FAILURE
          Condition,  \* acceptance conditions: pre-contexts
          Machines    \* the combined machines that are analysed

VOID == -1                   \* E_TransitionN.VOID
LEXEME_START_PLUS_ONE == -2  \* E_TransitionN.LEXEME_START_PLUS_ONE

(* SeAccept, in the order of precedence, and SeStoreInputPosition.          *)
SeAccept == [id: Pattern, cond: SUBSET Condition, restore: BOOLEAN]
Machine  == [to: [State -> SUBSET State], accept: [State -> Seq(SeAccept)],
             store: [State -> SUBSET Pattern]]

ASSUME TraceAnalysisAssumption ==
    /\ InitState \in State
    /\ Pattern \subseteq Nat
    /\ Failure \in Nat \ Pattern
    /\ \A m \in Machines : m.to \in [State -> SUBSET State]

VARIABLES machine,
          stack,   \* what is left to be visited, on each level of the walk
          result   \* the traces found for each state

vars == <<machine, stack, result>>

-----------------------------------------------------------------------------
(* _StoreInfo: where a position was stored, what was passed since, and the  *)
(* number of transitions, if it is the same each time.                      *)
StoredHere(s) == [since |-> s, passed |-> {s}, n |-> 0]

Passed(x, s) ==
    [x EXCEPT !.passed = @ \cup {s},
              !.n = CASE s \in x.passed /\ @ # LEXEME_START_PLUS_ONE -> VOID
                      [] ~ (s \in x.passed /\ @ # LEXEME_START_PLUS_ONE) ->
                             IF @ >= 0 THEN @ + 1 ELSE @]

(* _AcceptInfo is a _StoreInfo with what was accepted, and where.           *)
AcceptInfo(id, cond, at, x) ==
    [id |-> id, cond |-> cond, at |-> at,
     since |-> x.since, passed |-> x.passed, n |-> x.n]

(* The commands of a state that have an effect: none behind one that        *)
(* accepts without condition.                                               *)
Unconditional(cmds) == {i \in DOMAIN cmds : cmds[i].cond = {}}
Heard(cmds) ==
    SubSeq(cmds, 1, IF Unconditional(cmds) = {} THEN Len(cmds)
                    ELSE CHOOSE i \in Unconditional(cmds) : \A j \in Unconditional(cmds) : i <= j)

(* What is left of older acceptances: length precedes precedence.           *)
Outlived(old, cmds) ==
    IF Unconditional(cmds) # {} THEN <<>>
    ELSE SelectSeq(old, LAMBDA x : \A i \in DOMAIN cmds : cmds[i].id # x.id)

(* _Trace.__next_step(): a position is restored as it was stored before.    *)
Entry(c, s, stored) ==
    AcceptInfo(c.id, c.cond, s, IF c.restore THEN stored[c.id] ELSE StoredHere(s))
Applied(accepts, stored, cmds, stores, s) ==
    [accepts |-> [i \in DOMAIN Heard(cmds) |-> Entry(cmds[i], s, stored)] \o Outlived(accepts, cmds),
     stored  |-> [p \in DOMAIN stored \cup stores |->
                      IF p \in stores THEN StoredHere(s) ELSE stored[p]]]

(* _Trace.next_step(): reproduce(), then the commands of the state.         *)
Stepped(trace, cmds, stores, s) ==
    Applied([i \in DOMAIN trace.accepts |-> Passed(trace.accepts[i], s)],
            [p \in DOMAIN trace.stored |-> Passed(trace.stored[p], s)], cmds, stores, s)
NextStep(trace, s) == Stepped(trace, machine.accept[s], machine.store[s], s)

FailureInfo ==
    AcceptInfo(Failure, {}, InitState, [StoredHere(InitState) EXCEPT !.n = LEXEME_START_PLUS_ONE])
InitTrace ==
    Applied(<<FailureInfo>>, <<>>, machine.accept[InitState], machine.store[InitState], InitState)

-----------------------------------------------------------------------------
(* _Trace.is_equivalent().  The hash takes of the storages their numbers of *)
(* transitions, in the order of their registers.                            *)

AcceptShape(x) == <<x.id, x.at, x.since, x.n>>
Shape(trace)   == [i \in DOMAIN trace.accepts |-> AcceptShape(trace.accepts[i])]

Nth(S, i) == CHOOSE p \in S : Cardinality({q \in S : q < p}) = i - 1
StorageN(trace) ==
    LET registers == DOMAIN trace.stored
    IN [i \in 1..Cardinality(registers) |-> trace.stored[Nth(registers, i)].n]
SameHash(x, y) == Shape(x) = Shape(y) /\ StorageN(x) = StorageN(y)

Storages(trace) ==
    [p \in DOMAIN trace.stored |-> <<trace.stored[p].n = VOID, trace.stored[p].since>>]

(* __equivalence_hint: one acceptance, and it is the one of this state.     *)
AcceptsHere(trace) ==
    /\ Len(trace.accepts) = 1
    /\ trace.accepts[1].n = 0
    /\ trace.accepts[1].since = trace.accepts[1].at
SameHint(x, y) == AcceptsHere(x) /\ AcceptsHere(y) /\ x.accepts[1].id = y.accepts[1].id

EndOfRoad(s) == machine.to[s] = {}

Equivalent(x, y, s) ==
    /\ SameHash(x, y)
    /\ SameHint(x, y) \/ EndOfRoad(s) \/ Storages(x) = Storages(y)

-----------------------------------------------------------------------------
(* TreeWalker.do() with TraceFinder.on_enter()                              *)

Level(S)     == IF S = {} THEN <<>> ELSE <<S>>
Top          == stack[Len(stack)]
Without(x)   == SubSeq(stack, 1, Len(stack) - 1) \o Level(Top \ {x})
Onward(t, s) == {t} \X machine.to[s]
Known(t, s)  == \E y \in result[s] : Equivalent(t, y, s)

(* The init state has been entered.                                         *)
Init ==
    /\ machine \in Machines
    /\ result = [s \in State |-> IF s = InitState THEN {InitTrace} ELSE {}]
    /\ stack = Level(Onward(InitTrace, InitState))

(* Mutant: what is refused is visited again.                                *)
TurnBackInPlace(x) ==
    /\ Known(NextStep(x[1], x[2]), x[2])
    /\ UNCHANGED vars

(* Loop or knot: the way on has been walked.                                *)
TurnBack(x) ==
    /\ Known(NextStep(x[1], x[2]), x[2])
    /\ stack' = Without(x)
    /\ UNCHANGED <<machine, result>>

(* Mutant: a state is entered for one trace only.                           *)
GoOnOnce(x) ==
    /\ ~ Known(NextStep(x[1], x[2]), x[2])
    /\ result' = [result EXCEPT ![x[2]] = @ \cup {NextStep(x[1], x[2])}]
    /\ stack' = Without(x) \o Level(IF result[x[2]] # {} THEN {}
                                    ELSE Onward(NextStep(x[1], x[2]), x[2]))
    /\ UNCHANGED machine

GoOn(x) ==
    /\ ~ Known(NextStep(x[1], x[2]), x[2])
    /\ result' = [result EXCEPT ![x[2]] = @ \cup {NextStep(x[1], x[2])}]
    /\ stack' = Without(x) \o Level(Onward(NextStep(x[1], x[2]), x[2]))
    /\ UNCHANGED machine

Next == stack # <<>> /\ \E x \in Top : TurnBack(x) \/ GoOn(x)

Spec     == Init /\ [][Next]_vars

-----------------------------------------------------------------------------
Pending(t, s) == \E i \in DOMAIN stack : <<t, s>> \in stack[i]

(* Nothing is overlooked: from every trace that is known, every transition  *)
(* is still to be walked or leads to a trace that is as good as a known     *)
(* one, TraceFinder.on_enter().  What is concluded from the traces relies   *)
(* on it ("all of its successor paths have been walked along before").      *)
EveryStepKnown ==
    \A s \in State : \A x \in result[s] : \A t \in machine.to[s] :
        Pending(x, t) \/ Known(NextStep(x, t), t)

(* The walk ends, with loops in any number.                                 *)
WalkEnds == <>(stack = <<>>)
=============================================================================
