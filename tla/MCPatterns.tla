----------------------------- MODULE MCPatterns -----------------------------
(* Two instances in one: a behaviour determines a machine (NfaToDfa), or    *)
(* builds expressions over two characters (Patterns).                       *)
(* Machines with four states: 'a' transitions to several states at once,    *)
(* some 'b' transitions, and epsilon transitions, in loops and to states    *)
(* that nothing else enters among them.                                     *)
EXTENDS NfaToDfa

MCState == 1..4
AMaps == {<<x, y, z, {}>> : x \in {{1, 2}, {2, 4}},
                             y \in {{1}, {3, 4}}, z \in {{1, 4}}}
BMaps == {<<{}, {}, {}, {}>>, <<{2}, {2, 3}, {1, 3}, {3}>>}
Epsilons == {<<{}, {}, {}, {}>>, <<{2}, {3}, {}, {}>>, <<{3}, {}, {4}, {}>>,
             <<{}, {3}, {2}, {1}>>, <<{2, 4}, {}, {1}, {}>>}
MCMachines ==
    {[trig  |-> [s \in MCState |-> [c \in {"a", "b"} |-> IF c = "a" THEN a[s] ELSE b[s]]],
      eps   |-> e,
      entry |-> <<{}, {}, {"p"}, {"q"}>>] : a \in AMaps, b \in BMaps, e \in Epsilons}

CONSTANT Operations   \* steps of one expression
VARIABLES stack, shorthand_db, operations
Expressions == INSTANCE Patterns WITH
    Char <- {1, 2}, PatternNames <- {"N"}, WordLength <- 3, MaxOperations <- Operations,
    MaxStates <- 5, Ranges <- {<<0, -1>>, <<1, -1>>, <<0, 2>>, <<1, 2>>, <<2, 2>>},
    Distances <- {1, 2}, Concerns <- {{1}, {1, 2}}, EditsWithin <- 3, LoopsToInit <- FALSE
expression == <<stack, shorthand_db, operations>>

NoMachine == /\ nfa = <<>> /\ base = <<>> /\ states = {} /\ tm = <<>> /\ entry = <<>>
             /\ worklist = {} /\ phase = "none"
NoExpression == stack = <<>> /\ shorthand_db = [n \in {} |-> <<>>] /\ operations = -1

MCInit == \/ Init /\ NoExpression
          \/ NoMachine /\ Expressions!Init
MCNext == \/ phase # "none" /\ Next /\ UNCHANGED expression
          \/ operations # -1 /\ Expressions!Next /\ UNCHANGED vars
MCSpec == MCInit /\ [][MCNext]_<<vars, expression>>

(* An expression's machine matches what it says: see Patterns.              *)
MatchesWhatItSays == Expressions!MatchesWhatItSays
=============================================================================
