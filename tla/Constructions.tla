---------------------------- MODULE Constructions ----------------------------
(***************************************************************************)
(* What is built from state machines: sequences, repetitions, alternatives *)
(* (engine/state_machine/construction), the algebra of machines            *)
(* (engine/state_machine/algebra), and what selects or cuts lexemes        *)
(* (engine/state_machine/cut).                                             *)
(***************************************************************************)
EXTENDS Dfa

-----------------------------------------------------------------------------
(* Constructions (engine/state_machine/construction). *)

(* sequentialize.do(): no machine of the list is empty. *)
Mounted(a, b, LeaveIntermediateAcceptanceStatesF) ==
    LET appendix == Clone(b, Max(States(a)))
    IN Joined(mount_to_acceptance_states(a, appendix.init,
                                         ~ LeaveIntermediateAcceptanceStatesF),
              appendix)

sequentialize(sm_list, LeaveIntermediateAcceptanceStatesF) ==
    LET something == SelectSeq(sm_list, LAMBDA m : ~ is_Nothing(m))
    IN IF something = <<>> THEN Nothing
       ELSE FoldLeft(LAMBDA a, b : Mounted(a, b, LeaveIntermediateAcceptanceStatesF),
                     Head(something), Tail(something))

kleene_closure(m) ==
    LET init == NewIndex(m)
        terminal == init + 1
        begun == AddEpsilon([WithState(m, init) EXCEPT !.init = init], {init}, m.init)
        again == mount_to_acceptance_states(begun, m.init, FALSE)
        ended == mount_to_acceptance_states(WithState(again, terminal), terminal, TRUE)
    IN IF ~ has_acceptance_state(m) THEN m
       ELSE WithAcceptance(AddEpsilon(ended, {init}, terminal), {terminal})

(* repeat.do(): the init state of a machine that may be left out accepts. *)
Copies(m, n) == [i \in 1 .. n |-> m]
repeat(m, min, max) ==
    LET head == sequentialize(Copies(m, min), FALSE)
        optional == sequentialize(Copies(m, max), TRUE)
    IN CASE min # 0 /\ max # -1 -> sequentialize(<<head>> \o Copies(m, max - min), TRUE)
         [] min = 0 /\ max # -1 -> WithAcceptance(optional, IF has_acceptance_state(m)
                                                            THEN {optional.init} ELSE {})
         [] min # 0 /\ max = -1 -> sequentialize(<<head, kleene_closure(m)>>, TRUE)
         [] OTHER -> kleene_closure(m)

(* DFA_State.interference() for the init states. *)
interference(a, b) ==
    \/ (a.init \in a.accept) # (b.init \in b.accept)
    \/ \E c \in Char : a.trig[a.init][c] # {} /\ b.trig[b.init][c] # {}

(* An init state that is not entered again may be taken for the new one. *)
nfa_to_dfa_required(a, b) ==
    interference(a, b) \/ has_transition_to(a, a.init) \/ has_transition_to(b, b.init)

(* parallelize.do() of two machines. *)
Considered(m) == ~ is_Empty(m) /\ has_transitions(m, m.init)
Parallel(a, b) ==
    LET init == NewIndex(Joined(a, b))
        both == [WithState(Joined(a, b), init) EXCEPT !.init = init]
        merged == [both EXCEPT
            !.trig[init] = [c \in Char |-> a.trig[a.init][c] \cup b.trig[b.init][c]],
            !.eps[init] = a.eps[a.init] \cup b.eps[b.init],
            !.accept = IF a.init \in a.accept THEN @ \cup {init} ELSE @]
    IN IF nfa_to_dfa_required(a, b)
       THEN nfa_to_dfa(AddEpsilon(AddEpsilon(both, {init}, a.init), {init}, b.init))
       ELSE Restricted(merged, States(merged) \ {a.init, b.init})
ConsiderEmpty(m, accepts) == IF accepts THEN WithAcceptance(m, {m.init}) ELSE m
parallelize(a, y) ==
    LET b == Clone(y, Max(States(a)))
    IN CASE Considered(a) /\ Considered(b) -> Parallel(a, b)
         [] Considered(a) /\ ~ Considered(b) -> ConsiderEmpty(a, b.init \in b.accept)
         [] ~ Considered(a) /\ Considered(b) -> ConsiderEmpty(b, a.init \in a.accept)
         [] OTHER -> ConsiderEmpty(Empty, a.init \in a.accept \/ b.init \in b.accept)

-----------------------------------------------------------------------------
(* Algebra (engine/state_machine/algebra), on deterministic machines.        *)

complement(m) ==
    LET sink == NewIndex(m)
        open == [WithState(m, sink) EXCEPT
            !.trig = [s \in DOMAIN @ |-> [c \in Char |->
                          IF @[s][c] = {} THEN {sink} ELSE @[s][c]]]]
    IN clean_up([open EXCEPT !.accept = States(open) \ m.accept])

(* State pairs by one index each; the first pair is met by a new state when *)
(* it is reached again.                                                     *)
intersection(a, b) ==
    LET K == Max(States(b)) + 1
        pairs == {p * K + q : p \in States(a), q \in States(b)}
        begin == Max(pairs) + 1
        pair(i) == IF i = begin THEN <<a.init, b.init>> ELSE <<i \div K, i % K>>
        all == pairs \cup {begin}
        m == [init   |-> begin,
              trig   |-> [i \in all |-> [c \in Char |->
                             {p * K + q : p \in a.trig[pair(i)[1]][c],
                                          q \in b.trig[pair(i)[2]][c]}]],
              eps    |-> [i \in all |-> {}],
              accept |-> {i \in all : pair(i)[1] \in a.accept /\ pair(i)[2] \in b.accept}]
    IN IF is_Empty(a) \/ is_Empty(b) THEN Empty
       ELSE Clone(delete_hopeless_states(delete_orphaned_states(m)), 0)

union(a, b) == hopcroft_minimization(parallelize(a, b))
difference(a, b) == intersection(a, complement(intersection(a, b)))
symmetric_difference(a, b) == difference(union(a, b), intersection(a, b))

(* reverse.do(): not determined when it is part of an expression. *)
reverse(m) ==
    LET init == NewIndex(m)
        back == [init   |-> m.init,
                 trig   |-> [t \in States(m) |-> [c \in Char |->
                                {s \in States(m) : t \in m.trig[s][c]}]],
                 eps    |-> [t \in States(m) |-> {s \in States(m) : t \in m.eps[s]}],
                 accept |-> {m.init}]
        start == [WithState(back, init) EXCEPT !.init = init, !.eps[init] = m.accept]
    IN IF m.accept = {} THEN Empty ELSE start

(* sanitizer.do(): neither the empty word nor an endless one. *)
sanitizer(m) ==
    LET begun == [m EXCEPT !.accept = @ \ {m.init}]
        ended == [begun EXCEPT !.trig = [s \in DOMAIN @ |->
                     IF is_AcceptAllState(begun, s) THEN NoTransitions ELSE @[s]]]
    IN delete_hopeless_states(ended)

(* complement_variants.py, stem_and_branches.py *)
acceptance_flush(m) == beautifier(clean_up(WithAcceptance(m, States(m))))
acceptance_inversion(m) == clean_up([m EXCEPT !.accept = States(m) \ @])
infimum_deviant(m) ==
    LET deviant == NewIndex(m)
        open == [WithState(m, deviant) EXCEPT
            !.trig = [s \in DOMAIN @ |-> [c \in Char |->
                          IF s # deviant /\ @[s][c] = {} THEN {deviant} ELSE @[s][c]]],
            !.accept = {deviant}]
    IN clean_up(Restricted(open, States(open) \ (m.accept \ {m.init})))
stem(m) ==
    delete_orphaned_states([m EXCEPT !.trig = [s \in DOMAIN @ |->
        IF s \in m.accept THEN NoTransitions ELSE @[s]]])

(* operations_on_lexemes.py, cut/operations_on_sets.py *)
anything_beginning_with(q) == beautifier(sequentialize(<<q, Universe>>, FALSE))
anything_ending_with(q) == beautifier(sequentialize(<<Universe, q>>, FALSE))
anything_containing(q) == beautifier(sequentialize(<<Universe, q, Universe>>, FALSE))

(* Where two machines get from a pair of states on common characters.       *)
Together(a, b, pair) ==
    UNION {a.trig[pair[1]][c] \X b.trig[pair[2]][c] : c \in Char}
RECURSIVE Iterated(_, _, _)
Iterated(a, b, met) ==
    LET more == met \cup UNION {Together(a, b, pair) : pair \in met}
    IN IF more = met THEN met ELSE Iterated(a, b, more)

-----------------------------------------------------------------------------
(* Cutting lexemes (cut/operations_on_lexemes.py). *)

(* The characters that lexemes begin with.                                  *)
Beginning(m) == {c \in Char : m.trig[m.init][c] # {}}
first(m) == from_character_set(Beginning(m))
first_complement(m) == from_character_set(Char \ Beginning(m))

(* Where both machines have been, and b accepts: that is cut, and it begins *)
(* anew.  A state stands for one of both machines (__together_walk), or of  *)
(* a alone (q = 0) where b cannot follow any more (__tail_walk).  The sets  *)
(* of bridges in the code only multiply states that do the same.            *)
CutAt(a, b) ==
    {pair \in UNION {Together(a, b, p) : p \in Iterated(a, b, {<<a.init, b.init>>})} :
        pair[2] \in b.accept}
cut_begin_core(a, b) ==
    LET K == Max(States(b)) + 1
        Id(p, q) == p * K + q
        all == {Id(p, q) : p \in States(a), q \in States(b) \cup {0}}
        begin == Id(a.init, b.init)
        Follow(q, c) == IF q = 0 THEN {0} ELSE IF b.trig[q][c] = {} THEN {0}
                        ELSE b.trig[q][c] \ b.accept
    IN [init   |-> 0,
        trig   |-> [i \in all \cup {0} |-> [c \in Char |->
                       IF i = 0 THEN {} ELSE {Id(p, q) : p \in a.trig[i \div K][c], q \in Follow(i % K, c)}]],
        eps    |-> [i \in all \cup {0} |->
                       IF i = 0 THEN {begin}
                       ELSE {Id(x[1], x[2]) : x \in {y \in CutAt(a, b) : i = begin}}],
        accept |-> {i \in all : i \div K \in a.accept} \cup {i \in {0} : a.init \in a.accept}]
cut_begin(a, b) == IF CutAt(a, b) = {} THEN a ELSE beautifier(clean_up(cut_begin_core(a, b)))

Backward(m) == beautifier(reverse(m))
cut_end(a, b) ==
    IF CutAt(Backward(a), Backward(b)) = {} THEN a
    ELSE Backward(cut_begin(Backward(a), Backward(b)))

(* LeaveBeginWalker: depth first, and of a pair only the state that is      *)
(* entered first gets acceptance and transitions.  A node is a pair with    *)
(* its state of the result.                                                 *)
RECURSIVE LeaveBegin(_, _, _, _)
LeaveBegin(a, b, r, node) ==
    LET known == <<node[1], node[2]>> :> node[3] @@ r.db
        accepts == {s \in {node[3]} : node[1] \in a.accept \/ node[2] \in b.accept}
        On(pair) == {c \in Char : <<pair[1], pair[2]>> \in a.trig[node[1]][c] \X b.trig[node[2]][c]}
        pairs == SetToSortSeq(Together(a, b, node), LAMBDA x, y : Min(On(x)) < Min(On(y)))
        Enter(x, pair) ==
            LET target == IF pair \in DOMAIN known THEN known[pair] ELSE NewIndex(x.m)
                m == IF target \in States(x.m) THEN x.m ELSE WithState(x.m, target)
            IN [m |-> AddTransition(m, node[3], On(pair), target),
                nodes |-> Append(x.nodes, <<pair[1], pair[2], target>>)]
        entered == FoldLeft(Enter, [m |-> WithAcceptance(r.m, accepts), nodes |-> <<>>], pairs)
    IN IF <<node[1], node[2]>> \in DOMAIN r.db THEN r
       ELSE FoldLeft(LAMBDA x, n : LeaveBegin(a, b, x, n),
                     [m |-> entered.m, db |-> known], entered.nodes)
leave_begin(a, b) ==
    clean_up(LeaveBegin(a, b, [m |-> Empty, db |-> << >>], <<a.init, b.init, 1>>).m)
leave_end(a, b) == Backward(leave_begin(Backward(a), Backward(b)))
=============================================================================
