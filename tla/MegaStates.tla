----------------------------- MODULE MegaStates -----------------------------
(***************************************************************************)
(* States of the generated analyser that are implemented together:         *)
(* engine/analyzer/mega_state and output/core/mega_state.                  *)
(* A path walker stands for states that follow each other on single        *)
(* characters and else do the same; a template for any states, whose       *)
(* targets it keeps in tables.  Which of its states a mega state stands    *)
(* for is told by its key, which is set upon entry.  When all is           *)
(* compressed, the analyser runs beside the one it was made from.          *)
(***************************************************************************)
EXTENDS Integers, FiniteSets, SequencesExt, FiniteSetsExt

CONSTANTS Machines,  \* [to: state -> char -> target, ops: state -> source -> commands, out: state -> commands]
          TypeLists, \* Setup.compression_type_list; without 'template_uniform'
          MinGain    \* Setup.compression_template_min_gain

VARIABLES given,     \* the analyser's state machine, or NoMachineGiven
          types,     \* compressions that are still to be done
          stage,
          remainder, \* states that no mega state implements
          todo,      \* PathFinder: paths that are walked, with the state they are at
          found,     \* path_list
          chosen,    \* what select() returns
          walkers,   \* path_walker_list
          elects,    \* ElectDB
          candidates,
          bad,       \* bad_company
          mega,      \* the mega states, finalized
          direct,    \* the original: [at, did]
          compressed \* the same with mega states: [mega, key, did]

msvars == <<given, types, stage, remainder, todo, found, chosen, walkers, elects,
            candidates, bad, mega, direct, compressed>>

MsState   == DOMAIN given.to
MsInit    == 1            \* the init state
BufferLimit == 0
MsChar    == {BufferLimit} \cup DOMAIN given.to[MsInit]
DropOut   == 0
ToReload  == 0 - 1
Void      == 0 - 2        \* E_StateIndices.VOID: the wildcard's place
Inside    == 0 - 3        \* the mega state itself, by a door that sets no key
NoChar    == 0 - 1
Loaded    == 0 - 1        \* the commands of a state that is entered after reload

-----------------------------------------------------------------------------
(* Doors.  Equal command lists into one state have one door; every state    *)
(* has its own door into the reloader.  A state that only drops out does    *)
(* not reload.                                                              *)

DoorTo(t, o) == [to |-> t, ops |-> o]
DropOutDoor(s) == DoorTo(DropOut, given.out[s])
OnlyDropsOut(s) == \A c \in MsChar \ {BufferLimit} : given.to[s][c] = DropOut
TransitionMap(s) ==
    [c \in MsChar |->
        IF c = BufferLimit
        THEN IF OnlyDropsOut(s) THEN DropOutDoor(s) ELSE DoorTo(ToReload, s)
        ELSE LET t == given.to[s][c] IN
             IF t = DropOut THEN DropOutDoor(s) ELSE DoorTo(t, given.ops[t][s])]

(* DropOutConsideration_cmp()                                               *)
SameTarget(d, e) == d = e \/ (d.to = e.to /\ d.to \in {DropOut, ToReload})

(* The character that alone triggers from s to t.                           *)
Triggers(s, t)   == {c \in MsChar \ {BufferLimit} : given.to[s][c] = t}
ByOneChar(s)     == {t \in MsState : Cardinality(Triggers(s, t)) = 1}
TheTrigger(s, t) == CHOOSE c \in Triggers(s, t) : TRUE

-----------------------------------------------------------------------------
(* Paths: find.py, path.py.  'entries' are the command lists on the path,   *)
(* from the second state on: uniform_entry_OpList.                          *)

Begun(s, c) ==
    [states |-> <<s>>, chars |-> <<c>>, entries |-> {}, wildcard |-> c,
     tm |-> [TransitionMap(s) EXCEPT ![c] = DoorTo(Void, 0)]]

Beginnings ==
    {<<Begun(x[1], TheTrigger(x[1], x[2])), x[2]>> :
        x \in {y \in (remainder \ {MsInit}) \X remainder :
                  y[1] # y[2] /\ y[2] \in ByOneChar(y[1])}}

OnPath(p)     == {p.states[i] : i \in DOMAIN p.states}
EntryOf(p, s) == given.ops[s][Last(p.states)]
Fit(U, V)     == U = {} \/ (Cardinality(U) = 1 /\ U = V)

(* match_with_wildcard(): where the path's map differs from that of s, but  *)
(* for the character with which s goes on.                                  *)
Misfits(p, s, c) ==
    {x \in MsChar \ {c} : ~ SameTarget(p.tm[x], TransitionMap(s)[x])}
Matches(p, s, c) == Misfits(p, s, c) \subseteq {p.wildcard} \ {NoChar}

(* Mutant: the wildcard stays open.                                         *)
WithoutPlug(p, s, c) ==
    [states   |-> Append(p.states, s),
     chars    |-> Append(p.chars, c),
     entries  |-> p.entries \cup {EntryOf(p, s)},
     wildcard |-> p.wildcard,
     tm       |-> p.tm]

(* extended_clone(), plug_this()                                            *)
Extended(p, s, c) ==
    LET plug == Misfits(p, s, c) # {} IN
    [states   |-> Append(p.states, s),
     chars    |-> Append(p.chars, c),
     entries  |-> p.entries \cup {EntryOf(p, s)},
     wildcard |-> IF plug THEN NoChar ELSE p.wildcard,
     tm       |-> IF plug THEN [p.tm EXCEPT ![p.wildcard] = TransitionMap(s)[p.wildcard]] ELSE p.tm]

(* PathFinder.on_enter(): that the path does not come back is asked for     *)
(* before s is on it.                                                       *)
Branches(p, s) ==
    {<<Extended(p, s, TheTrigger(s, t)), t>> :
        t \in {u \in (remainder \cap ByOneChar(s)) \ OnPath(p) : Matches(p, s, TheTrigger(s, u))}}

(* finalize(), smoothen(): a wildcard that is left goes where the next      *)
(* lower character goes.                                                    *)
Finished(p, s) ==
    [states |-> p.states, chars |-> p.chars, entries |-> p.entries, terminal |-> s,
     tm |-> IF p.wildcard = NoChar THEN p.tm
            ELSE [p.tm EXCEPT ![p.wildcard] = p.tm[p.wildcard - 1]]]

StartFind ==
    /\ stage = "start" /\ types # <<>> /\ Head(types) \in {"path", "path_uniform"}
    /\ stage' = "find"
    /\ todo' = Beginnings
    /\ UNCHANGED <<given, types, remainder, found, chosen, walkers, elects, candidates, bad, mega, direct, compressed>>

WalkPath ==
    /\ stage = "find" /\ todo # {}
    /\ LET next  == CHOOSE x \in todo : TRUE
           p     == next[1]
           s     == next[2]
           stops == Head(types) = "path_uniform" /\ ~ Fit(p.entries, {EntryOf(p, s)})
           sub   == IF stops THEN {} ELSE Branches(p, s)
       IN /\ todo' = (todo \ {next}) \cup sub
          /\ found' = IF sub = {} /\ Len(p.states) > 1 THEN found \cup {Finished(p, s)} ELSE found
    /\ UNCHANGED <<given, types, stage, remainder, chosen, walkers, elects, candidates, bad, mega, direct, compressed>>

-----------------------------------------------------------------------------
(* select(): a longest path, of these one with the best value; those that   *)
(* intersect with it are dropped.                                           *)

Intersecting(p) == {q \in found : OnPath(q) \cap OnPath(p) # {}}
PathValue(p) ==
    LET lost == UNION {OnPath(q) : q \in Intersecting(p) \ {p}} \ OnPath(p)
        cost == 0 - Cardinality(lost)
    IN Cardinality(OnPath(p)) - cost

Elect ==
    /\ stage = "find" /\ todo = {} /\ found # {}
    /\ \E p \in found :
        /\ \A q \in found : /\ Len(q.states) <= Len(p.states)
                            /\ Len(q.states) = Len(p.states) => PathValue(q) <= PathValue(p)
        /\ chosen' = Append(chosen, p)
        /\ found' = found \ Intersecting(p)
    /\ UNCHANGED <<given, types, stage, remainder, todo, walkers, elects, candidates, bad, mega, direct, compressed>>

(* path_list_assert_consistency()                                           *)
Consistent(p) == IsInjective(p.states)

Selected ==
    /\ stage = "find" /\ todo = {} /\ found = {}
    /\ stage' = IF \A i \in DOMAIN chosen : Consistent(chosen[i]) THEN "group" ELSE "refused"
    /\ UNCHANGED <<given, types, remainder, todo, found, chosen, walkers, elects, candidates, bad, mega, direct, compressed>>

(* group(), accept(): into the first walker that can walk it.               *)
CanAbsorb(w, p) ==
    /\ \A c \in MsChar : SameTarget(w.tm[c], p.tm[c])
    /\ Head(types) = "path_uniform" => Fit(w.entries, p.entries)

Group ==
    /\ stage = "group" /\ chosen # <<>>
    /\ LET p   == Head(chosen)
           fit == {i \in DOMAIN walkers : CanAbsorb(walkers[i], p)}
       IN walkers' =
            IF fit = {} THEN Append(walkers, [paths |-> <<p>>, tm |-> p.tm, entries |-> p.entries])
            ELSE [walkers EXCEPT ![Min(fit)] =
                    [@ EXCEPT !.paths = Append(@, p), !.entries = @ \cup p.entries]]
    /\ chosen' = Tail(chosen)
    /\ UNCHANGED <<given, types, stage, remainder, todo, found, elects, candidates, bad, mega, direct, compressed>>

-----------------------------------------------------------------------------
(* Finalization of path walkers: MegaState.finalize(), path_walker/state.py,*)
(* and the data that are written for them.  The keys are places in one      *)
(* array, in which every path has a place more, for its terminal.           *)

Terminates == 0 - 1    \* QUEX_SETTING_BUFFER_LEXATOM_PATH_TERMINATION
Padding    == DoorTo(Void, 0)

Offset(w, i)   == FoldFunctionOnSet(LAMBDA p, n : n + Len(p.states) + 1, 0, w.paths, 1..(i-1))
Place(w, i, k) == Offset(w, i) + k - 1
Keys(w) ==
    [s \in UNION {OnPath(w.paths[i]) : i \in DOMAIN w.paths} |->
        LET i == CHOOSE j \in DOMAIN w.paths : s \in OnPath(w.paths[j])
            k == CHOOSE j \in DOMAIN w.paths[i].states : w.paths[i].states[j] = s
        IN Place(w, i, k)]

(* action_db_update(): the step from one state of a path to the next gets a *)
(* door that sets no key; all others keep theirs, and set it.               *)
StepDoors(p) ==
    [k \in 1..(Len(p.states) + 1) |->
        IF k = 1 THEN Padding
        ELSE IF k <= Len(p.states) THEN DoorTo(Inside, given.ops[p.states[k]][p.states[k-1]])
        ELSE DoorTo(p.terminal, given.ops[p.terminal][p.states[k-1]])]

(* _finalize_transition_map(), _finalize_configure_global_drop_out()        *)
OwnDropOut == DoorTo(DropOut, Void)
OwnReload  == DoorTo(ToReload, Void)
Walker(w) ==
    [kind  |-> "path",
     key   |-> Keys(w),
     chars |-> FlattenSeq([i \in DOMAIN w.paths |-> Append(w.paths[i].chars, Terminates)]),
     doors |-> FlattenSeq([i \in DOMAIN w.paths |-> StepDoors(w.paths[i])]),
     tm    |-> [c \in MsChar |-> IF c = BufferLimit THEN OwnReload
                                 ELSE IF w.tm[c].to = DropOut THEN OwnDropOut ELSE w.tm[c]]]

Finalize ==
    /\ stage = "group" /\ chosen = <<>>
    /\ mega' = mega \o [i \in DOMAIN walkers |-> Walker(walkers[i])]
    /\ remainder' = remainder \ UNION {DOMAIN Keys(walkers[i]) : i \in DOMAIN walkers}
    /\ walkers' = <<>> /\ types' = Tail(types) /\ stage' = "start"
    /\ UNCHANGED <<given, todo, found, chosen, elects, candidates, bad, direct, compressed>>

-----------------------------------------------------------------------------
(* Templates: template/core.py, state.py, target.py.  An elect has states,  *)
(* and for each character a target by key; 'schemes' is target_scheme_n.    *)

Pseudo(s) == [states |-> <<s>>, schemes |-> 0, tm |-> [c \in MsChar |-> <<TransitionMap(s)[c]>>]]

(* combine_maps(), from_2_TargetByStateKeys()                               *)
Pairs(a, b)    == [c \in MsChar |-> <<a.tm[c], b.tm[c]>>]
Combined(a, b) ==
    [states  |-> a.states \o b.states,
     schemes |-> Cardinality(Range(Pairs(a, b))),
     tm      |-> [c \in MsChar |-> a.tm[c] \o b.tm[c]]]

IsUniform(scheme) == \A i \in DOMAIN scheme : scheme[i] = scheme[1]
Intervals(tm)     == 1 + Cardinality({c \in MsChar \ {BufferLimit} : tm[c] # tm[c - 1]})
MapCost(states, intervals, schemes) == intervals - 1 + intervals + schemes * states

(* gain_transition_map.py: schemes are told apart by a hash that does not   *)
(* depend on the first element.                                             *)
CombinedSchemes(a, b) == {Tail(a.tm[c] \o b.tm[c]) : c \in {x \in MsChar : ~ IsUniform(a.tm[x])}}
MapGain(a, b) ==
    LET cost(e) == MapCost(Len(e.states), Intervals(e.tm), e.schemes)
    IN cost(a) + cost(b) - MapCost(Len(a.states) + Len(b.states), Intervals(Pairs(a, b)),
                                   Cardinality(CombinedSchemes(a, b)))

(* gain_entry.py: a template has no entries before it is finalized.         *)
EntryLists(e) ==
    IF Len(e.states) > 1 THEN {}
    ELSE LET s == e.states[1] IN
         {given.ops[s][x] : x \in {y \in MsState : Triggers(y, s) # {}}}
            \cup (IF OnlyDropsOut(s) THEN {} ELSE {Loaded})
EntryGain(a, b) ==
    Cardinality(EntryLists(a)) + Cardinality(EntryLists(b)) - Cardinality(EntryLists(a) \cup EntryLists(b))
Gain(pair) == EntryGain(pair[1], pair[2]) + MapGain(pair[1], pair[2])

StartTemplates ==
    /\ stage = "start" /\ types # <<>> /\ Head(types) = "template"
    /\ stage' = "combine"
    /\ elects' = {Pseudo(s) : s \in remainder \ {MsInit}}
    /\ LET all  == {x \in elects' \X elects' : x[1].states[1] < x[2].states[1]}
           good == {x \in all : Gain(x) >= MinGain}
       IN /\ candidates' = good
          /\ bad' = UNION {{<<x[1].states, x[2].states>>, <<x[2].states, x[1].states>>} : x \in all \ good}
    /\ UNCHANGED <<given, types, remainder, todo, found, chosen, walkers, mega, direct, compressed>>

(* pop_best(), update()                                                     *)
Members(e)      == {<<e.states[i]>> : i \in DOMAIN e.states}
Company(e, B)   == {x[2] : x \in {y \in B : y[1] = e.states}}
GoodCompany(new, e, B) ==
    /\ e.states \notin Company(new, B)
    /\ Company(new, B) \cap Members(e) = {}
    /\ Company(e, B) \cap Members(new) = {}
Combine ==
    /\ stage = "combine"
    /\ \E best \in candidates :
        LET a      == best[1]
            b      == best[2]
            new    == Combined(a, b)
            rest   == elects \ {a, b}
            heir   == bad \cup {<<new.states, x>> : x \in Company(a, bad) \cup Company(b, bad)}
            tried  == {<<new, e>> : e \in {x \in rest : GoodCompany(new, x, heir)}}
            good   == {x \in tried : Gain(x) >= MinGain}
        IN /\ \A x \in candidates : Gain(x) <= Gain(best)
           /\ elects' = rest \cup {new}
           /\ candidates' = {x \in candidates : {x[1], x[2]} \cap {a, b} = {}} \cup good
           /\ bad' = heir \cup UNION {{<<x[1].states, x[2].states>>, <<x[2].states, x[1].states>>} :
                                        x \in tried \ good}
    /\ UNCHANGED <<given, types, stage, remainder, todo, found, chosen, walkers, mega, direct, compressed>>

(* finalize(): only a state's transition to itself gets a door that sets no *)
(* key; clone_adapted_self() puts it into the schemes.                      *)
Template(e) ==
    [kind |-> "template",
     key  |-> [s \in Range(e.states) |-> (CHOOSE i \in DOMAIN e.states : e.states[i] = s) - 1],
     tm   |-> [c \in MsChar |->
                IF c = BufferLimit THEN [i \in DOMAIN e.states |-> OwnReload]
                ELSE [i \in DOMAIN e.states |->
                        LET d == e.tm[c][i] IN
                        IF d.to = e.states[i] THEN DoorTo(Inside, d.ops) ELSE d]]]

FinalizeTemplates ==
    /\ stage = "combine" /\ candidates = {}
    /\ LET templates == {e \in elects : Len(e.states) > 1}
       IN /\ mega' = mega \o [i \in 1..Cardinality(templates) |-> Template(SetToSeq(templates)[i])]
          /\ remainder' = remainder \ UNION {Range(e.states) : e \in templates}
    /\ elects' = {} /\ bad' = {} /\ types' = Tail(types) /\ stage' = "start"
    /\ UNCHANGED <<given, todo, found, chosen, walkers, candidates, direct, compressed>>

-----------------------------------------------------------------------------
(* What is written: path_walker.py, template.py, transition_map/code.py,    *)
(* and the routers on state keys.                                           *)

Located(t) ==
    LET in == {m \in DOMAIN mega : t \in DOMAIN mega[m].key}
    IN IF in = {} THEN [mega |-> 0, key |-> t]
       ELSE LET m == CHOOSE x \in in : TRUE IN [mega |-> m, key |-> mega[m].key[t]]
StandsFor(here) ==
    IF here.mega = 0 THEN here.key
    ELSE CHOOSE s \in DOMAIN mega[here.mega].key : mega[here.mega].key[s] = here.key

(* The head of a path walker: the iterator is moved before the goto.  If    *)
(* the steps of all paths have one door, that is taken for all but the last.*)
OnIterator(m, k, c) == m.kind = "path" /\ m.chars[k + 1] = c
StepsOf(m)          == {d \in Range(m.doors) : d.to = Inside}
StepDoor(m, k) ==
    IF Cardinality(StepsOf(m)) = 1 /\ m.chars[k + 1] # Terminates
    THEN CHOOSE d \in StepsOf(m) : TRUE
    ELSE m.doors[k + 1]
DoorOf(here, c) ==
    IF here.mega = 0 THEN TransitionMap(here.key)[c]
    ELSE LET m == mega[here.mega] IN
         IF OnIterator(m, here.key, c) THEN StepDoor(m, here.key + 1)
         ELSE IF m.kind = "path" THEN m.tm[c] ELSE m.tm[c][here.key + 1]

(* RouterOnStateKey: from the mega state's own door to that of the state.   *)
Routed(here, d) ==
    CASE d = OwnDropOut -> DropOutDoor(StandsFor(here))
      [] d = OwnReload  -> TransitionMap(StandsFor(here))[BufferLimit]
      [] OTHER          -> d

(* Through a door; the reloader comes back by the door of the state that    *)
(* asked for it, or leaves by its drop-out.                                 *)
Behind(d, loaded) ==
    IF d.to # ToReload THEN d
    ELSE IF loaded THEN DoorTo(d.ops, Loaded) ELSE DropOutDoor(d.ops)

Start ==
    /\ stage = "start" /\ types = <<>>
    /\ stage' = "run"
    /\ direct' = DoorTo(MsInit, 0)
    /\ compressed' = [here |-> Located(MsInit), ops |-> 0]
    /\ UNCHANGED <<given, types, remainder, todo, found, chosen, walkers, elects, candidates, bad, mega>>

Run(c) ==
    /\ stage = "run" /\ direct.to # DropOut
    /\ \E loaded \in BOOLEAN :
        LET here == compressed.here
            d    == Behind(Routed(here, DoorOf(here, c)), loaded)
        IN /\ direct' = Behind(TransitionMap(direct.to)[c], loaded)
           /\ compressed' =
                [here |-> CASE d.to = Inside  ->
                                [here EXCEPT !.key = IF OnIterator(mega[here.mega], @, c) THEN @ + 1 ELSE @]
                            [] d.to = DropOut -> [mega |-> 0, key |-> DropOut]
                            [] OTHER          -> Located(d.to),
                 ops  |-> d.ops]
    /\ UNCHANGED <<given, types, stage, remainder, todo, found, chosen, walkers, elects, candidates, bad, mega>>

Idle(m, ts) ==
    /\ given = m /\ types = ts /\ stage = "start" /\ remainder = (DOMAIN m.to) \ {MsInit}
    /\ todo = {} /\ found = {} /\ chosen = <<>> /\ walkers = <<>> /\ elects = {}
    /\ candidates = {} /\ bad = {} /\ mega = <<>> /\ direct = Padding /\ compressed = Padding
MsStart == \E m \in Machines, ts \in TypeLists : Idle(m, ts)
Compress == StartFind \/ WalkPath \/ Elect \/ Selected \/ Group \/ Finalize
              \/ StartTemplates \/ Combine \/ FinalizeTemplates
MsNext == Compress \/ Start \/ \E c \in MsChar : Run(c)

(* The analyser with mega states is always in, or in a mega state that      *)
(* stands for, the state in which the original one is, after the same       *)
(* commands; it drops out where that drops out, and from the same state:    *)
(* "there is no observable change in behavior", mega_state/analyzer.py.     *)
BehavesAlike == stage = "run" => /\ StandsFor(compressed.here) = direct.to
                                 /\ compressed.ops = direct.ops
=============================================================================
