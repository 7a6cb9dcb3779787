------------------------------ MODULE Contexts ------------------------------
(***************************************************************************)
(* Pre- and post-contexts: from the parsed pattern, an expression between  *)
(* others (input/regular_expression/engine.py, pattern.py), to the engines *)
(* of a mode (engine/analyzer/builder.py), and a lexeme that they match:   *)
(* the pre-context engine walks backward from the begin of the lexeme, the *)
(* core engine forward, and where the end of the core cannot be stored on  *)
(* the way, a third one backward from the end of the post-context          *)
(* (backward input position detection).                                    *)
(* A machine carries in 'entry' what happens when a state is entered:      *)
(* acceptance of a pattern, or storing of the position for one.            *)
(* A context that is not there is an empty sequence.                       *)
(***************************************************************************)
EXTENDS Constructions

CONSTANTS Files,          \* modes and settings: see below
          Inputs,         \* [before, ahead]: characters around the lexeme start
          LineFeed,       \* the character '\n'
          CarriageReturn  \* the character '\r'

VARIABLES file,       \* [expressions: the patterns of the mode, from Setup: dos_newline,
                      \*  line_implies_stream, fallback_mandatory]
          preps,      \* Pattern_Prep objects
          patterns,   \* Pattern objects, in the order of their incidence ids
          engine,     \* the engines of the mode
          input,      \* what is analysed
          fulfilled,  \* pre_context_.._fulfilled_f, by patterns
          match,      \* pattern and positions of a match
          progress    \* how far it is

Ids == 1 .. Len(patterns)
vars == <<file, preps, patterns, engine, input, fulfilled, match, progress>>

-----------------------------------------------------------------------------
(* Parsing. *)

(* do(): 'end of line or end of stream' is two patterns.                    *)
Preps(e) ==
    LET bos == e.bol /\ file.line_implies_stream
        Prep(post, eol, eos) == [bol |-> e.bol, bos |-> bos, pre |-> e.pre, core |-> e.core,
                                 post |-> post, eol |-> eol, eos |-> eos]
    IN IF e.eol /\ file.line_implies_stream
       THEN <<Prep(e.post, TRUE, FALSE), Prep(<<>>, FALSE, TRUE)>>
       ELSE <<Prep(e.post, e.eol, FALSE)>>

(* check_initial(): neither part may be empty or match without a character. *)
check_initial(p) ==
    \A m \in {p.core} \cup Range(p.pre) \cup Range(p.post) :
        ~ is_Empty(m) /\ has_acceptance_state(m) /\ m.init \notin m.accept

-----------------------------------------------------------------------------
(* Machines with operations upon entry. *)

Accept(id) == <<"SeAccept", id>>
Store(id)  == <<"SeStoreInputPosition", id>>
Marked(m, entry) == [entry |-> entry] @@ m

(* mark_state_origins() of a machine without operations but acceptance.     *)
MarkOrigins(m, id) ==
    Marked(m, [s \in States(m) |-> IF s \in m.accept THEN {Accept(id)} ELSE {}])

(* nfa_to_dfa.do(): entries are merged; SingleEntry.merge_list()            *)
Determined(m) ==
    LET found == Combinations(m, <<{m.init}>>, 1)
    IN Marked(nfa_to_dfa(m),
              [i \in DOMAIN found |-> UNION {m.entry[s] : s \in EpsilonClosure(m, found[i])}])

(* hopcroft_minimization.do(): hopcroft_combinability_key()                 *)
Minimized(m) ==
    LET name == Equivalent(m, [s \in States(m) |->
                                   Min({t \in States(m) : m.entry[t] = m.entry[s]})])
        kept == Range(name)
    IN [init   |-> name[m.init],
        trig   |-> [s \in kept |-> [c \in Char |-> {name[t] : t \in m.trig[s][c]}]],
        eps    |-> [s \in kept |-> {}],
        accept |-> m.accept \cap kept,
        entry  |-> [s \in kept |-> m.entry[s]]]

(* combination.do(): clones of all machines, from one init state.           *)
Combined(sm_list) ==
    LET Beside(a, m) ==
            LET name == [s \in States(m) |->
                            Max(States(a)) + Cardinality({t \in States(m) : t <= s})]
                b == Renamed(m, name)
            IN Marked(AddEpsilon(Joined(a, b), {a.init}, b.init),
                      a.entry @@ [n \in States(b) |-> m.entry[AntiFunction(name)[n]]])
        nothing == Marked(Empty, [s \in {1} |-> {}])
    IN Minimized(Determined(FoldLeft(Beside, nothing, sm_list)))

DFA_Newline ==
    LET unix == from_character_set({LineFeed})
        dos  == sequentialize(<<from_character_set({CarriageReturn}), unix>>, FALSE)
    IN IF file.dos_newline THEN beautifier(parallelize(unix, dos)) ELSE unix

-----------------------------------------------------------------------------
(* Post-contexts (setup_post_context.py, ambiguous_post_context.py).        *)

(* Mutant: only one step beyond the acceptance is looked at.                *)
detect_forward_shortly(core, post) ==
    LET begin == core.accept \X {post.init}
    IN \E pair \in UNION {Together(core, post, p) : p \in begin} : pair[1] \in core.accept

(* Behind its acceptance, the core accepts again on a way of the post-      *)
(* context: where the core ends can then not be told when it is reached.    *)
DiveToDetect(core, post, begin) ==
    \E pair \in Iterated(core, post, UNION {Together(core, post, p) : p \in begin}) :
        pair[1] \in core.accept
detect_forward(core, post) == DiveToDetect(core, post, core.accept \X {post.init})
detect_backward(core, post) ==
    detect_forward(beautifier(reverse(post)), beautifier(reverse(core)))

(* __dive_to_cut_iteration(): doors to states of the path are locked, the   *)
(* others are entered.  A step is a pair of transitions, in the order of    *)
(* the two transition lists.                                                *)
Cut(post, s, t, C) ==
    [post EXCEPT !.trig[s] = [c \in Char |-> IF c \in C THEN @[c] \ {t} ELSE @[c]]]
RECURSIVE DiveToCut(_, _, _, _, _)
DiveToCut(core, post, s0, s1, path) ==
    LET Trigger(m, s, t) == {c \in Char : t \in m.trig[s][c]}
        steps == SetToSortSeq(Targets(core, s0) \X Targets(post, s1),
                              LAMBDA x, y : x[1] < y[1] \/ (x[1] = y[1] /\ x[2] < y[2]))
        Step1(p, step) ==
            LET characters == Trigger(core, s0, step[1])
            IN IF characters \cap Trigger(p, s1, step[2]) = {} THEN p
               ELSE IF step[2] \in path THEN Cut(p, s1, step[2], characters)
               ELSE DiveToCut(core, p, step[1], step[2], path \cup {step[2]})
    IN FoldLeft(Step1, post, steps)
philosophical_cut(core, post) ==
    LET Dive(p, s) == DiveToCut(core, p, s, p.init, {p.init})
    IN beautifier(FoldLeft(Dive, post, SetToSortSeq(core.accept, <)))

(* What follows the core: a post-context that accepts anything is dropped,  *)
(* the end of line is appended.                                             *)
Appended(p) ==
    LET context == SelectSeq(p.post, LAMBDA m : m.init \notin m.accept)
    IN IF p.eol THEN <<sequentialize(Append(context, DFA_Newline), FALSE)>> ELSE context

(* _do(): the machine of the pattern, the one for backward input position   *)
(* detection, if it is needed, and whether a position is restored.          *)
Following(core, post, ambiguous) ==
    IF ambiguous /\ detect_backward(core, post) THEN philosophical_cut(core, post) ELSE post
EntriesOf(whole, core, id) ==
    [s \in States(whole) |-> {Accept(id) : x \in {s} \cap whole.accept}
                             \cup {Store(id) : x \in {s} \cap core.accept}]
Mount(core, follow, whole, ambiguous, id) ==
    [sm |-> Minimized(Determined(IF ambiguous THEN MarkOrigins(whole, id)
                                 ELSE Marked(whole, EntriesOf(whole, core, id)))),
     bipd |-> IF ambiguous THEN <<follow>> ELSE <<>>,
     restore |-> ~ ambiguous, post |-> <<follow>>]
MountPostContext(core, follow, ambiguous, id) ==
    Mount(core, follow, Mounted(core, follow, FALSE), ambiguous, id)
WithPostContext(core, post, ambiguous, id) ==
    MountPostContext(core, Following(core, post, ambiguous), ambiguous, id)
setup_post_context(core, context, id) ==
    IF context = <<>>
    THEN [sm |-> MarkOrigins(core, id), bipd |-> <<>>, restore |-> FALSE, post |-> <<>>]
    ELSE WithPostContext(core, Head(context), detect_forward(core, Head(context)), id)

-----------------------------------------------------------------------------
(* Pre-contexts (setup_pre_context.py).                                     *)

delete_loops_to_init_state(m) ==
    delete_orphaned_states([m EXCEPT
        !.trig = [s \in DOMAIN @ |-> [c \in Char |-> @[s][c] \ {m.init}]]])

setup_pre_context(p) ==
    LET Line(m) == IF p.bol THEN beautifier(sequentialize(<<DFA_Newline, m>>, FALSE)) ELSE m
    IN IF p.pre = <<>> THEN <<>> ELSE <<delete_loops_to_init_state(Line(Head(p.pre)))>>

(* The conditions of acceptance: any of the first three, and the last.      *)
Conditions(p) ==
    (IF p.pre # <<>> THEN {"pre_context_fulfilled"}
     ELSE {c \in {"BEGIN_OF_LINE"} : p.bol} \cup {c \in {"BEGIN_OF_STREAM"} : p.bos})
    \cup {c \in {"END_OF_STREAM"} : p.eos}

(* longest_path_to_first_acceptance() is None: on the way to where it       *)
(* accepts first, the machine can come back to a state.                     *)
ArbitraryLength(m) ==
    LET inner == [m EXCEPT !.trig = [s \in DOMAIN @ |->
                      IF s \in m.accept THEN NoTransitions ELSE @[s]]]
    IN \E s \in Reached(inner, {m.init}) : s \in Reached(inner, Targets(inner, s))

finalize(p, id) ==
    LET main == setup_post_context(p.core, Appended(p), id)
    IN main @@ [pre |-> setup_pre_context(p), conditions |-> Conditions(p)]

-----------------------------------------------------------------------------
(* From the file to the engines. *)

Init ==
    /\ file \in Files
    /\ preps = <<>> /\ patterns = <<>> /\ engine = <<>> /\ input = <<>>
    /\ fulfilled = {} /\ match = <<>> /\ progress = "file"

Parse ==
    /\ progress = "file"
    /\ preps' = FlattenSeq([i \in DOMAIN file.expressions |-> Preps(file.expressions[i])])
    /\ progress' = IF \A p \in Range(preps') : check_initial(p) THEN "parsed" ELSE "refused"
    /\ UNCHANGED <<file, patterns, engine, input, fulfilled, match>>

(* Pattern_Prep.finalize() *)
Finalize ==
    /\ progress = "parsed" /\ Len(patterns) < Len(preps)
    /\ LET id == Len(patterns) + 1
           pattern == finalize(preps[id], id)
       IN /\ patterns' = Append(patterns, pattern)
          /\ progress' = IF \/ \E m \in Range(pattern.pre) : file.fallback_mandatory /\ ArbitraryLength(m)
                            \/ \E m \in Range(pattern.post) : is_Empty(m)
                         THEN "refused" ELSE "parsed"
    /\ UNCHANGED <<file, preps, engine, input, fulfilled, match>>

(* do_core(): the engines for pre-contexts, positions, and core patterns.   *)
Reversed(m, id) == MarkOrigins(beautifier(reverse(m)), id)
WithPre == SelectSeq([i \in Ids |-> i], LAMBDA i : patterns[i].pre # <<>>)
Generate ==
    /\ progress = "parsed" /\ Len(patterns) = Len(preps)
    /\ engine' = [pre  |-> Combined([k \in DOMAIN WithPre |->
                               Reversed(Head(patterns[WithPre[k]].pre), WithPre[k])]),
                  bipd |-> [i \in {j \in Ids : patterns[j].bipd # <<>>} |->
                               Reversed(Head(patterns[i].bipd), i)],
                  main |-> Combined([i \in Ids |-> patterns[i].sm])]
    /\ progress' = "ready"
    /\ UNCHANGED <<file, preps, patterns, input, fulfilled, match>>

-----------------------------------------------------------------------------
(* The engines at work. *)

(* The states that a machine goes through until it drops out.               *)
RECURSIVE Trace(_, _, _)
Trace(m, s, w) ==
    <<s>> \o (IF w = <<>> \/ m.trig[s][w[1]] = {} THEN <<>>
              ELSE Trace(m, CHOOSE t \in m.trig[s][w[1]] : TRUE, Tail(w)))
Run(m, w) == Trace(m, m.init, w)

(* Every state that accepts raises the flag of its patterns; what is behind *)
(* the begin of the stream cannot be read.                                  *)
CheckPreContexts ==
    /\ progress = "ready"
    /\ input' \in Inputs
    /\ LET walked == Range(Run(engine.pre, Reverse(input'.before)))
       IN fulfilled' = {i \in Ids : \E s \in walked : Accept(i) \in engine.pre.entry[s]}
    /\ progress' = "begun"
    /\ UNCHANGED <<file, preps, patterns, engine, match>>

(* IF_ACCEPTANCE_CONDITION_SET, when 'position' characters have been read.  *)
ConditionHolds(i, position) ==
    LET required == patterns[i].conditions
        begin == required \ {"END_OF_STREAM"}
        holds == {c \in begin :
                     \/ c = "pre_context_fulfilled" /\ i \in fulfilled
                     \/ c = "BEGIN_OF_STREAM" /\ input.before = <<>>
                     \/ c = "BEGIN_OF_LINE" /\ (input.before = <<>> \/ Last(input.before) = LineFeed)}
    IN /\ begin # {} => holds # {}
       /\ "END_OF_STREAM" \in required => position = Len(input.ahead)

(* The last acceptance wins, and in one state the pattern that comes first. *)
(* 'late' are the patterns whose condition is checked, and whose position   *)
(* register is read, when the engine drops out, instead of where they       *)
(* accept: trace analysis decides that.                                     *)
Match ==
    /\ progress = "begun"
    /\ LET run == Run(engine.main, input.ahead)
           end == Len(run) - 1
           Entry(k) == engine.main.entry[run[k + 1]]
           Stored(i, k) == Max({0} \cup {n \in 0 .. k : Store(i) \in Entry(n)})
       IN \E late \in SUBSET {i \in Ids :
                                 patterns[i].restore \/ "END_OF_STREAM" \in patterns[i].conditions} :
             LET When(i, k) == IF i \in late THEN end ELSE k
                 won == {<<k, i>> \in (1 .. end) \X Ids :
                            Accept(i) \in Entry(k) /\ ConditionHolds(i, When(i, k))}
                 last == Max({w[1] : w \in won})
                 id == Min({w[2] : w \in {v \in won : v[1] = last}})
             IN IF won = {} THEN match' = <<>> /\ progress' = "failure"
                ELSE /\ match' = [id |-> id, accepted |-> last, dropped |-> end,
                                  read_p |-> IF patterns[id].restore
                                             THEN Stored(id, When(id, last)) ELSE last]
                     /\ progress' = IF id \in DOMAIN engine.bipd THEN "terminal" ELSE "done"
    /\ UNCHANGED <<file, preps, patterns, engine, input, fulfilled>>

(* do_bipd_entry_and_return(): the detector is left where it drops out.     *)
DetectBackward ==
    /\ progress = "terminal"
    /\ LET detector == engine.bipd[match.id]
           run == Run(detector, Reverse(input.before \o SubSeq(input.ahead, 1, match.accepted)))
       IN IF Last(run) \in detector.accept
          THEN match' = [match EXCEPT !.read_p = match.accepted - (Len(run) - 1)] /\ progress' = "done"
          ELSE progress' = "no passage" /\ UNCHANGED match
    /\ UNCHANGED <<file, preps, patterns, engine, input, fulfilled>>

Next == Parse \/ Finalize \/ Generate \/ CheckPreContexts \/ Match \/ DetectBackward

Spec == Init /\ [][Next]_vars

-----------------------------------------------------------------------------
(* Properties *)

Matches(m, w) == After(m, {m.init}, w) \cap m.accept # {}

(* What stands before the lexeme is what a pattern requires.                *)
PreContextGiven(p) ==
    LET N == Len(input.before)
        Newline(n) == p.bol => n > 0 /\ input.before[n] = LineFeed
    IN IF p.pre # <<>>
       THEN \E n \in 0 .. N : Newline(n) /\ Matches(Head(p.pre), SubSeq(input.before, n + 1, N))
       ELSE p.bol \/ p.bos => N = 0 \/ (p.bol /\ Newline(N))

(* The core pattern matches up to 'end', and what follows up to 'behind'.   *)
Split(i, end, behind) ==
    /\ PreContextGiven(preps[i])
    /\ Matches(preps[i].core, SubSeq(input.ahead, 1, end))
    /\ IF patterns[i].post = <<>> THEN behind = end
       ELSE Matches(Head(patterns[i].post), SubSeq(input.ahead, end + 1, behind))
    /\ preps[i].eos => behind = Len(input.ahead)

(* What could have been matched, by pattern and end of the post-context.    *)
Candidates ==
    {<<i, behind>> \in Ids \X (1 .. Len(input.ahead)) :
        \E end \in 1 .. behind : Split(i, end, behind)}
Better(x, y) == x[2] > y[2] \/ (x[2] = y[2] /\ x[1] < y[1])

CoreEnds(i) == {n \in 1 .. Len(input.ahead) : Matches(preps[i].core, SubSeq(input.ahead, 1, n))}

(* Not judged: a position that is stored again after the acceptance, and an *)
(* end of the stream that is reached after it.                              *)
Overtaken ==
    \/ patterns[match.id].restore /\ \E n \in CoreEnds(match.id) : n > match.accepted
    \/ /\ match.dropped = Len(input.ahead)
       /\ \E i \in Ids : preps[i].eos /\ \E n \in CoreEnds(i) : n < match.dropped

(* Read backward from its end, the post-context is found in several lengths.*)
Ambiguous ==
    LET text == input.before \o SubSeq(input.ahead, 1, match.accepted)
        Tails == {n \in 1 .. Len(text) :
                     Matches(Head(patterns[match.id].post), SubSeq(text, n, Len(text)))}
    IN patterns[match.id].bipd # <<>> /\ Cardinality(Tails) > 1

(* The lexeme is the right one, whatever comes before it and behind it: no  *)
(* pattern with its pre- and post-context fits a longer stretch, none of    *)
(* higher precedence the same, and analysis goes on exactly where a core    *)
(* ends whose post-context follows.  Nothing fits if nothing is found.      *)
(* setup_post_context._do() decides between a position stored on the way    *)
(* and one that is looked for backward; the engines of a mode are           *)
(* combinations of all patterns' (builder.py).                              *)
MatchRight ==
    /\ progress = "failure" => Candidates = {}
    /\ progress = "done" /\ ~ Overtaken =>
          /\ <<match.id, match.accepted>> \in Candidates
          /\ \A x \in Candidates : ~ Better(x, <<match.id, match.accepted>>)
          /\ ~ Ambiguous => Split(match.id, match.read_p, match.accepted)

(* The generated backward detector ends in __quex_assert_no_passage(): it   *)
(* cannot drop out but where it has found a begin of the post-context       *)
(* (operation_list_on_drop_out.py, Op.QuexAssertNoPassage()).               *)
NoPassageHolds == progress # "no passage"
=============================================================================
