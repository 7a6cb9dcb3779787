------------------------------- MODULE Modes -------------------------------
(***************************************************************************)
(* Modes, from the definitions in the input files to the run-time:         *)
(* input/files/mode.py parses them, specifier/mode_db.py and mode.py bring *)
(* what is inherited together, specifier/ppt_list.py gives every pattern   *)
(* of a mode its priority, consistency_check.py checks the result, and     *)
(* code_base/analyzer/member/mode-handling.i changes between the modes     *)
(* that come out.  A pattern is the set of lexemes that it matches, so the *)
(* checks of engine/state_machine/check are set operations.  Dictionaries  *)
(* are walked in the order of the definitions in the file.                 *)
(***************************************************************************)
EXTENDS Integers, Sequences, FiniteSets, SequencesExt

CONSTANTS Files,      \* input files: sequences of mode definitions
          StackSize   \* QUEX_SETTING_MODE_STACK_SIZE

VARIABLES file,       \* what is still to be parsed
          parsed,     \* mode_parsed_db, in the order of definition
          next_id,    \* state_machine/index.py: ids are unique and rise
          preps,      \* mode_prep_db: name --> Mode_Prep
          phase,      \* where the generator is; "run" when it is done
          me          \* the analyser: mode, mode stack, error code

vars == <<file, parsed, next_id, preps, phase, me>>

(* An incidence id that is no number: QuexEnum.general_key() sorts it       *)
(* behind every number.                                                     *)
INDENTATION_HANDLER == 1000

Names(modes) == {modes[i].name : i \in DOMAIN modes}
Mode(modes, name) == CHOOSE m \in Range(modes) : m.name = name

-----------------------------------------------------------------------------
(* Options (mode_option.py).  A setting is [name, value].                   *)

(* mode_option_info_db *)
Info(multiple, overwrite, inherited) ==
    [multiple |-> multiple, overwrite |-> overwrite, inherited |-> inherited]
mode_option_info_db ==
    [inheritable       |-> Info(FALSE, TRUE, FALSE),
     exit              |-> Info(TRUE, FALSE, TRUE),
     entry             |-> Info(TRUE, TRUE, FALSE),
     skip              |-> Info(TRUE, FALSE, TRUE),
     skip_range        |-> Info(TRUE, FALSE, TRUE),
     skip_nested_range |-> Info(TRUE, FALSE, TRUE),
     indentation       |-> Info(FALSE, FALSE, TRUE)]

single_setting_f(name) ==
    ~ mode_option_info_db[name].multiple \/ mode_option_info_db[name].overwrite

Settings(mode, name) == SelectSeq(mode.option_db, LAMBDA s : s.name = name)
has(mode, names) == \E i \in DOMAIN mode.option_db : mode.option_db[i].name \in names
value(mode, name, default) ==
    IF has(mode, {name}) THEN Settings(mode, name)[1].value ELSE default

(* enter(): "defined more than once" is an error. *)
MayEnter(mode, name) == ~ (has(mode, {name}) /\ single_setting_f(name))
enter(mode, name, val) ==
    [mode EXCEPT !.option_db = Append(@, [name |-> name, value |-> val])]

(* OptionDB.from_BaseModeSequence(): the settings of a mode and its bases.  *)
Inherited(sequence, name) ==
    LET from == IF mode_option_info_db[name].inherited THEN sequence ELSE <<Last(sequence)>>
    IN FlattenSeq([i \in DOMAIN from |->
           [k \in DOMAIN Settings(from[i], name) |-> Settings(from[i], name)[k].value]])
DefinedTwiceInTree(sequence) ==
    \E name \in DOMAIN mode_option_info_db :
        single_setting_f(name) /\ Len(Inherited(sequence, name)) > 1

-----------------------------------------------------------------------------
(* Parsing (input/files/mode.py). *)

(* A pattern is known by the id of its machine, which is made while parsing;*)
(* marks take one, too.                                                     *)
Numbered(body, first) ==
    [i \in DOMAIN body |-> [mark |-> body[i].mark, matches |-> body[i].matches,
                            dot |-> body[i].dot, id |-> first + i - 1]]
Marked(mode, mark) == SelectSeq(mode.body, LAMBDA p : p.mark = mark)
pattern_action_pair_list(mode) == Marked(mode, "=>")

Init == /\ file \in Files
        /\ parsed = <<>> /\ next_id = 0
        /\ preps = [n \in {} |-> <<>>]
        /\ phase = "parse"
        /\ me = [mode |-> "none", stack |-> <<>>, error |-> FALSE]

(* error.log(): the generator stops. *)
Fails == phase' = "error" /\ UNCHANGED <<file, parsed, next_id, preps, me>>

ParseMode ==
    /\ phase = "parse" /\ file # <<>>
    /\ LET mode == Head(file)
           twice == \E i, k \in DOMAIN mode.option_db :
                        /\ i # k /\ mode.option_db[i].name = mode.option_db[k].name
                        /\ single_setting_f(mode.option_db[i].name)
       IN IF mode.name \in Names(parsed) \/ twice THEN Fails
          ELSE /\ parsed' = Append(parsed, [mode EXCEPT !.body = Numbered(@, next_id)])
               /\ next_id' = next_id + Len(mode.body)
               /\ file' = Tail(file)
               /\ UNCHANGED <<preps, phase, me>>

-----------------------------------------------------------------------------
(* What is inherited (mode_db.py). *)

(* _add_entry_exit_permissions_to_all_if_none_is_set() *)
AddPermissions(modes) ==
    LET others(m) == SetToSortSeq(Names(modes) \ {m.name}, LAMBDA a, b :
                        \E i, k \in DOMAIN modes : i < k /\ modes[i].name = a /\ modes[k].name = b)
    IN IF \E m \in Range(modes) : has(m, {"entry", "exit"}) THEN modes
       ELSE [i \in DOMAIN modes |->
                enter(enter(modes[i], "exit", others(modes[i])), "entry", others(modes[i]))]

(* core.py, _determine_initial_mode() and consistency_check.initial_mode(): *)
(* the user's 'start' must be one of them.                                  *)
Applicable(modes) == {m \in Range(modes) : value(m, "inheritable", "yes") # "only"}

(* _check_inheritance_relationships() *)
InheritanceAllowed(modes) ==
    \A m \in Range(modes) : \A b \in Range(m.bases) :
        b \in Names(modes) /\ value(Mode(modes, b), "inheritable", "yes") # "no"

(* detect_empty_non_abstract_modes() *)
IsEmptyMode(m) ==
    /\ value(m, "inheritable", "yes") # "only"
    /\ pattern_action_pair_list(m) = <<>> /\ m.handlers = {}
WithoutEmpty(modes) ==
    [i \in DOMAIN modes |-> IF IsEmptyMode(modes[i]) THEN enter(modes[i], "inheritable", "only")
                            ELSE modes[i]]

CheckDefinitions ==
    /\ phase = "parse" /\ file = <<>>
    /\ LET modes == AddPermissions(parsed)
       IN IF \/ Applicable(parsed) = {} \/ ~ InheritanceAllowed(modes)
             \/ \E m \in Range(modes) : IsEmptyMode(m) /\ ~ MayEnter(m, "inheritable")
          THEN Fails
          ELSE /\ \E start \in Applicable(parsed) : me' = [me EXCEPT !.mode = start.name]
               /\ parsed' = WithoutEmpty(modes)
               /\ phase' = "inherit"
               /\ UNCHANGED <<file, next_id, preps>>

(* _determine_base_mode_db_core(): modes are visited broad first, the bases *)
(* of a mode go immediately before it.                                      *)
RECURSIVE BaseWalk(_, _, _, _)
BaseWalk(modes, worklist, done, sequence) ==
    LET node == Head(worklist)
        path == node.path \cup {node.name}
        bases == Mode(modes, node.name).bases
        place == CHOOSE i \in DOMAIN sequence : sequence[i] = node.name
        insert(name, list) == IF name \in Range(list) THEN list ELSE InsertAt(list, place, name)
        nodes == [i \in DOMAIN bases |-> [name |-> bases[i], path |-> path]]
    IN CASE worklist = <<>> -> [circular |-> FALSE, sequence |-> sequence]
         [] worklist # <<>> /\ node.name \in done ->
                BaseWalk(modes, Tail(worklist), done, sequence)
         [] worklist # <<>> /\ node.name \notin done /\ Range(bases) \cap path # {} ->
                [circular |-> TRUE, sequence |-> sequence]
         [] OTHER -> BaseWalk(modes, Tail(worklist) \o nodes, done \cup {node.name},
                              FoldRight(insert, bases, sequence))

(* Mutant: the bases of the bases are not visited.                          *)
DirectBases(modes, name) ==
    [circular |-> name \in Range(Mode(modes, name).bases),
     sequence |-> Append(Mode(modes, name).bases, name)]

base_mode_sequence(modes, name) == BaseWalk(modes, <<[name |-> name, path |-> {}]>>, {}, <<name>>)

(* _determine_derived_mode_name_db(): the sets are extended in place, one   *)
(* after the other.                                                         *)
RECURSIVE DerivedWalk(_, _, _, _)
DerivedWalk(db, name, worklist, done) ==
    LET current == CHOOSE n \in worklist : TRUE
        new == db[current] \ db[name]
        after == done \cup {current}
    IN IF worklist = {} THEN db
       ELSE DerivedWalk([db EXCEPT ![name] = @ \cup new], name,
                        (worklist \ {current}) \cup (new \ after), after)

(* Mutant: only what is derived directly.                                   *)
DirectlyDerived(modes) ==
    [n \in Names(modes) |-> {n} \cup {m.name : m \in {x \in Range(modes) : n \in Range(x.bases)}}]

derived_db(modes) ==
    LET direct == [n \in Names(modes) |->
                      {n} \cup {m.name : m \in {x \in Range(modes) : n \in Range(x.bases)}}]
    IN FoldLeft(LAMBDA db, m : DerivedWalk(db, m.name, db[m.name], {m.name}), direct, modes)

(* IncidenceDB.from_BaseModeSequence(): the last handler overwrites.        *)
HandlerOf(sequence, incidence) ==
    LET having == {i \in DOMAIN sequence : incidence \in sequence[i].handlers}
    IN sequence[Max(having)].name
incidence_db(sequence) ==
    [h \in UNION {m.handlers : m \in Range(sequence)} |-> HandlerOf(sequence, h)]

(* Mode_Prep.__init__() *)
Mode_Prep(modes, mode) ==
    LET names == base_mode_sequence(modes, mode.name).sequence
        sequence == [i \in DOMAIN names |-> Mode(modes, names[i])]
        list(name) == Inherited(sequence, name)
        entries == Range(FlattenSeq(list("entry")))
    IN [name |-> mode.name, sequence |-> names, abstract_f |-> list("inheritable") = <<"only">>,
        incidence_db |-> incidence_db(sequence),
        loopers |-> [skip |-> list("skip"), skip_range |-> list("skip_range"),
                     skip_nested_range |-> list("skip_nested_range"),
                     indentation |-> list("indentation")],
        exit  |-> Range(FlattenSeq(list("exit"))),
        entry |-> entries \cup UNION {derived_db(modes)[n] : n \in entries \cap Names(modes)},
        pattern_list |-> <<>>, ready |-> FALSE]

CollectBaseModeInformation ==
    /\ phase = "inherit"
    /\ LET walk(n) == base_mode_sequence(parsed, n)
           tree(n) == [i \in DOMAIN walk(n).sequence |-> Mode(parsed, walk(n).sequence[i])]
       IN IF \E n \in Names(parsed) : walk(n).circular THEN Fails
          ELSE IF \E n \in Names(parsed) : DefinedTwiceInTree(tree(n)) THEN Fails
          ELSE /\ preps' = [n \in Names(parsed) |-> Mode_Prep(parsed, Mode(parsed, n))]
               /\ phase' = "prioritize"
               /\ UNCHANGED <<file, parsed, next_id, me>>

-----------------------------------------------------------------------------
(* Priorities (ppt_list.py).  An entry of the list is a pattern with its    *)
(* priority, mode hierarchy index and pattern index, and its incidence id.  *)

PPT(mhi, index, id, matches, dot, focus, mode) ==
    [mhi |-> mhi, index |-> index, id |-> id, matches |-> matches, dot |-> dot,
     focus |-> focus, mode |-> mode]
Before(x, y) == x.mhi < y.mhi \/ (x.mhi = y.mhi /\ x.index < y.index)

(* collect_match_pattern() *)
MatchEntries(name) ==
    LET sequence == preps[name].sequence
        list(i) == pattern_action_pair_list(Mode(parsed, sequence[i]))
    IN FlattenSeq([i \in DOMAIN sequence |->
           [k \in DOMAIN list(i) |->
               PPT(i - 1, list(i)[k].id, list(i)[k].id, list(i)[k].matches, list(i)[k].dot,
                     FALSE, sequence[i])]])

(* collect_loopers(): the handler of newlines, then the suppressed newline, *)
(* the skippers of characters, one for each of the sets that are counted    *)
(* alike, and the openers of ranges; all but the first have a new id.       *)
Looper(mhi, index, id, matches) == PPT(mhi, index, id, matches, FALSE, TRUE, "looper")
IndentationEntries(setups, id) ==
    IF setups = <<>> THEN <<>>
    ELSE <<Looper(-4, 0, INDENTATION_HANDLER, setups[1].newline)>>
         \o (IF setups[1].suppressed = {} THEN <<>>
             ELSE <<[Looper(-4, 1, id, setups[1].suppressed) EXCEPT !.focus = FALSE]>>)
SkipEntries(sets, id) ==
    LET list == SetToSeq(UNION Range(sets))
    IN [i \in DOMAIN list |-> Looper(-3, id + i, id + i, {list[i]})]
RangeEntries(mhi, openers, id) ==
    [i \in DOMAIN openers |-> Looper(mhi, i - 1, id + i, openers[i])]
LooperEntries(loopers, id) ==
    LET newline == IndentationEntries(loopers.indentation, id)
        skip == SkipEntries(loopers.skip, id + 1)
        ranges == RangeEntries(-2, loopers.skip_range, id + 1 + Len(skip))
        nested == RangeEntries(-1, loopers.skip_nested_range, id + 1 + Len(skip) + Len(ranges))
    IN newline \o skip \o ranges \o nested

(* check_indentation_setup() *)
IndentationAllowed(setups) ==
    \A i \in DOMAIN setups : LET s == setups[i]
        IN s.suppressed # {} => ~ (s.newline \subseteq s.suppressed \/ s.suppressed \subseteq s.newline)

(* The marks of the modes in a sequence, in order: [mark, mhi].             *)
MarksOf(name, mark) ==
    LET sequence == preps[name].sequence
        marks(i) == Marked(Mode(parsed, sequence[i]), mark)
    IN FlattenSeq([i \in DOMAIN sequence |->
           [k \in DOMAIN marks(i) |-> [mark |-> marks(i)[k], mhi |-> i - 1]]])

(* _pattern_deletion(): superset_check *)
Deleted(x, m) == x.mhi <= m.mhi /\ x.index < m.mark.id /\ x.matches \subseteq m.mark.matches
_pattern_deletion(list, name) ==
    FoldLeft(LAMBDA l, m : SelectSeq(l, LAMBDA x : ~ Deleted(x, m)), list, MarksOf(name, "DELETION"))

(* _pattern_reprioritization(): identity_checker *)
Demoted(x, m) == x.mhi <= m.mhi /\ x.index < m.mark.id /\ x.matches = m.mark.matches
_pattern_reprioritization(list, name) ==
    LET apply(l, m) == [i \in DOMAIN l |->
            IF Demoted(l[i], m) THEN [l[i] EXCEPT !.mhi = m.mhi, !.index = m.mark.id] ELSE l[i]]
    IN FoldLeft(apply, list, MarksOf(name, "DEMOTION"))

(* list.sort(): entries of the same priority keep their order.              *)
Sorted(list) ==
    LET insert(l, x) ==
            InsertAt(l, 1 + Cardinality({i \in DOMAIN l : ~ Before(x, l[i])}), x)
    IN FoldLeft(insert, <<>>, list)

(* Mutant: an id that rises is compared with that of the first entry only.  *)
KeepsFirst(list, id) ==
    LET one(state, x) ==
            IF state.list = <<>> \/ x.mhi < 0 \/ x.id > state.prev
            THEN [state EXCEPT !.list = Append(@, x), !.prev = IF @ = -1 THEN x.id ELSE @]
            ELSE [list |-> Append(state.list, [x EXCEPT !.id = state.next]),
                  prev |-> state.prev, next |-> state.next + 1]
    IN FoldLeft(one, [list |-> <<>>, prev |-> -1, next |-> id], Sorted(list))

(* _adapt_pattern_id_to_priority(): ids must rise; loopers are passed over. *)
_adapt_pattern_id_to_priority(list, id) ==
    LET one(state, x) ==
            CASE state.list = <<>> -> [state EXCEPT !.list = <<x>>, !.prev = x.id]
              [] state.list # <<>> /\ x.mhi < 0 -> [state EXCEPT !.list = Append(@, x)]
              [] state.list # <<>> /\ x.mhi >= 0 /\ x.id > state.prev ->
                     [state EXCEPT !.list = Append(@, x), !.prev = x.id]
              [] OTHER -> [list |-> Append(state.list, [x EXCEPT !.id = state.next]),
                           prev |-> state.next, next |-> state.next + 1]
    IN FoldLeft(one, [list |-> <<>>, prev |-> -1, next |-> id], Sorted(list))

(* collect_and_prioritize_patterns(): PPTList_Builder.do() of one mode      *)
Prioritize(name) ==
    LET loopers == LooperEntries(preps[name].loopers, next_id)
        first == next_id + 1 + Len(loopers)
        collected == loopers \o MatchEntries(name)
        marked == _pattern_reprioritization(_pattern_deletion(collected, name), name)
        adapted == _adapt_pattern_id_to_priority(marked, first)
    IN /\ phase = "prioritize" /\ ~ preps[name].ready
       /\ \A i \in DOMAIN parsed :
              (\A k \in 1 .. i : parsed[k].name # name) => preps[parsed[i].name].ready
       /\ IF ~ IndentationAllowed(preps[name].loopers.indentation) THEN Fails
          ELSE /\ preps' = [preps EXCEPT ![name].pattern_list = adapted.list,
                                         ![name].ready = TRUE]
               /\ next_id' = adapted.next
               /\ UNCHANGED <<file, parsed, phase, me>>

-----------------------------------------------------------------------------
(* Consistency (consistency_check.py). *)

implemented_f(name) == ~ preps[name].abstract_f /\ preps[name].pattern_list # <<>>
Implemented == {n \in DOMAIN preps : implemented_f(n)}

(* __entry_transitions() and __exit_transitions() *)
EntriesAgree(m) ==
    \A n \in preps[m].entry :
        n \in DOMAIN preps /\ \E b \in Range(preps[m].sequence) : b \in preps[n].exit
ExitsAgree(m) ==
    \A n \in preps[m].exit :
        n \in DOMAIN preps /\ \E b \in Range(preps[m].sequence) : b \in preps[n].entry

(* unique_pattern_pair_iterable(), with what no pair of them may be.        *)
Pairs(m) == LET list == preps[m].pattern_list
            IN {<<list[i], list[k]>> : <<i, k>> \in {q \in (DOMAIN list) \X (DOMAIN list) : q[1] < q[2]}}
_check_match_same(high, low) ==
    (high.focus \/ low.focus) /\ high.matches \cap low.matches # {} /\ ~ (high.dot \/ low.dot)
_check_dominated_pattern(high, low) == low.matches \subseteq high.matches
PatternsAllowed(m) ==
    \A pair \in Pairs(m) : /\ ~ _check_match_same(pair[1], pair[2])
                           /\ ~ _check_dominated_pattern(pair[1], pair[2])

Finalize ==
    /\ phase = "prioritize" /\ \A n \in DOMAIN preps : preps[n].ready
    /\ IF \/ \E m \in Implemented : ~ EntriesAgree(m) \/ ~ ExitsAgree(m)
          \/ \E m \in DOMAIN preps : ~ PatternsAllowed(m)
          \/ Implemented = {}
       THEN Fails
       ELSE phase' = "run" /\ UNCHANGED <<file, parsed, next_id, preps, me>>

-----------------------------------------------------------------------------
(* The analyser: mode-handling.i, with the functions that                   *)
(* output/analyzer/modes.py writes for a mode from its documentation.       *)

has_entry_from(m, n) == n \in preps[m].entry \cap Implemented
has_exit_to(m, n) == n \in preps[m].exit \cap Implemented

(* MF_enter_mode(): a transition that is not permitted sets the error code. *)
Admissible(m, n) == has_exit_to(m, n) /\ has_entry_from(n, m)
Entered(n) == [me EXCEPT !.mode = n, !.error = @ \/ ~ Admissible(me.mode, n)]
Running == phase = "run" /\ me.mode \in Implemented /\ ~ me.error

EnterMode ==
    /\ Running
    /\ \E n \in Implemented : me' = Entered(n)
    /\ UNCHANGED <<file, parsed, next_id, preps, phase>>

(* MF_push_mode() *)
PushMode ==
    /\ Running
    /\ \E n \in Implemented :
           me' = IF Len(me.stack) = StackSize THEN [me EXCEPT !.error = TRUE]
                 ELSE [Entered(n) EXCEPT !.stack = Append(@, me.mode)]
    /\ UNCHANGED <<file, parsed, next_id, preps, phase>>

(* MF_pop_mode() and MF_pop_drop_mode() *)
PopMode ==
    /\ Running
    /\ \/ me.stack = <<>> /\ me' = [me EXCEPT !.error = TRUE]
       \/ me.stack # <<>> /\ me' = [Entered(Last(me.stack)) EXCEPT !.stack = Front(@)]
       \/ me.stack # <<>> /\ me' = [me EXCEPT !.stack = Front(@)]
    /\ UNCHANGED <<file, parsed, next_id, preps, phase>>

Next == \/ ParseMode \/ CheckDefinitions \/ CollectBaseModeInformation
        \/ \E n \in DOMAIN preps : Prioritize(n)
        \/ Finalize \/ EnterMode \/ PushMode \/ PopMode

Spec == Init /\ [][Next]_vars

-----------------------------------------------------------------------------
(* Properties *)

Bases(n) == Range(Mode(parsed, n).bases)
Ancestors(n) ==
    LET up[k \in Nat] == IF k = 0 THEN Bases(n) ELSE up[k-1] \cup UNION {Bases(b) : b \in up[k-1]}
    IN up[Len(parsed)]
Position(sequence, x) == CHOOSE i \in DOMAIN sequence : sequence[i] = x
(* The bases of b are before b in the sequence of n.                        *)
Follows(n, b) ==
    \A a \in Ancestors(b) : Position(preps[n].sequence, a) < Position(preps[n].sequence, b)
Inherited_f == phase \in {"prioritize", "run"}

(* When the generator goes on with the inheritance, no mode is its own base,*)
(* and the sequence of each mode holds it at the end and before it all that *)
(* it is derived from, each once - though each walk looks for circles only  *)
(* on the way to what it has not visited yet (mode_db.py).  A handler is not*)
(* overwritten by one of a base.                                            *)
BaseSequencesRight ==
    Inherited_f => \A n \in DOMAIN preps :
        LET sequence == preps[n].sequence
        IN /\ n \notin Ancestors(n)
           /\ Range(sequence) = Ancestors(n) \cup {n}
           /\ IsInjective(sequence) /\ Last(sequence) = n
           /\ \A h \in DOMAIN preps[n].incidence_db : \A d \in Range(sequence) :
                  Follows(n, d) /\ h \in Mode(parsed, d).handlers =>
                      preps[n].incidence_db[h] \notin Ancestors(d)

(* Of two patterns that match the same lexeme the one with the higher       *)
(* priority has the lower id, whatever was marked, and so wins in the       *)
(* analyser; only a newline that an indentation handler takes does not      *)
(* (_adapt_pattern_id_to_priority()).                                       *)
EarlyWins ==
    \A n \in DOMAIN preps : LET list == preps[n].pattern_list IN
        \A i, k \in DOMAIN list :
            i < k /\ list[i].matches \cap list[k].matches # {} =>
                list[i].id < list[k].id \/ list[i].id = INDENTATION_HANDLER

(* Bases are defined first, and they are before b in the sequence of n.     *)
Ordered(n, b) ==
    LET names == [i \in DOMAIN parsed |-> parsed[i].name]
    IN Follows(n, b) /\ \A a \in Ancestors(b) : Position(names, a) < Position(names, b)
(* x is inherited by b, or defined in b before its k-th entry.              *)
HeldBefore(x, b, k) ==
    \/ x.mode \in Ancestors(b)
    \/ x.mode = b /\ \A j \in DOMAIN Mode(parsed, b).body :
           LET p == Mode(parsed, b).body[j] IN p.mark = "=>" /\ p.matches = x.matches => j < k

(* A mode that is derived from one with a DELETION mark has none of the     *)
(* patterns that the mark covers, and a pattern with a DEMOTION mark comes  *)
(* after what the marking mode defines before the mark, if bases are        *)
(* defined before what is derived from them (ppt_list.py compares ids).     *)
MarksHold ==
    \A n \in DOMAIN preps : preps[n].ready =>
        \A b \in Range(preps[n].sequence) : Ordered(n, b) =>
            \A k \in DOMAIN Mode(parsed, b).body :
                LET mark == Mode(parsed, b).body[k]
                    held == {x \in Range(preps[n].pattern_list) : HeldBefore(x, b, k)}
                IN CASE mark.mark = "DELETION" -> \A x \in held : ~ (x.matches \subseteq mark.matches)
                     [] mark.mark = "DEMOTION" ->
                            \A x \in held : x.matches = mark.matches =>
                                \A y \in held : y.mode = b /\ y.index < mark.id => y.id < x.id
                     [] OTHER -> TRUE

(* Who wins is as it is written: marks and priorities decide, also where    *)
(* ids are replaced after the marks have moved patterns (ppt_list.py), and  *)
(* the analyser, which knows the ids only, agrees with the generator.       *)
WinnersAsWritten == EarlyWins /\ MarksHold

(* The analyser never refuses to enter a mode that the current mode may exit *)
(* to: what is checked of the exits, and that an entry from a mode includes *)
(* all that is derived from it, are enough (mode-handling.i).               *)
PermittedEntered ==
    [][phase = "run" /\ me'.mode # me.mode /\ has_exit_to(me.mode, me'.mode) => ~ me'.error]_vars

=============================================================================
