-------------------------- MODULE CharacterCounter --------------------------
(***************************************************************************)
(* Line and column numbers.  For each pattern the generator finds out, by  *)
(* a walk over its state machine, how far every lexeme advances them, and  *)
(* writes an addition or an assignment                                     *)
(* (engine/state_machine/character_counter.py on misc/tree_walker.py);     *)
(* where lexemes differ, characters are counted at run-time (counter.py,   *)
(* counter_builder.py, loop/skip_character_set.py).  Columns start with 1, *)
(* 'column_index' with 0.  Characters stand for elementary trigger sets.   *)
(***************************************************************************)
EXTENDS Integers, Sequences, FiniteSets

CONSTANTS State,        \* indices of states
          Char,         \* elementary trigger sets
          NoState,      \* there is no transition
          InitState,    \* init_state_index
          Machines,     \* machines of patterns
          Loops,        \* machines of skippers: counted with AllowConstTermsF=False
          Sections,     \* counter sections: definitions by character set, and '\else'
          Sizes,        \* encodings: the number of lexatoms of a character
          MaxLength,    \* of the lexemes by which the analysis is judged
          MaxColumn     \* of the columns at which they start

CountTypes == {"COLUMN", "GRID", "LINE"}
Command    == [type: CountTypes, value: Nat]
Entry      == [type: CountTypes, value: Nat, chars: SUBSET Char]
Machine    == [move: [State -> [Char -> State \cup {NoState}]], accept: SUBSET State]

ASSUME CounterAssumption ==
    /\ InitState \in State /\ NoState \notin State
    /\ Machines \cup Loops \subseteq Machine
    /\ Sections \subseteq [defs : SUBSET Entry, else : Command]
    \* define_else() would take a grid of size 0, add() does not.
    /\ \A s \in Sections : s.else.type = "GRID" => s.else.value # 0
    /\ Sizes \subseteq [Char -> Nat \ {0}]

VARIABLES dfa,       \* SM
          ca_map,    \* CaMap
          setup,     \* BeginOfLineF, AllowConstTermsF, the encoding
          stack,     \* TreeWalker: nodes not yet entered, level by level
          by_length, \* the counts per length, global to the walk (class Count)
          known_db,  \* the counts with which states were entered first
          result,    \* what holds for all ways to accept
          abort_f

vars == <<dfa, ca_map, setup, stack, by_length, known_db, result, abort_f>>

-----------------------------------------------------------------------------
(***************************************************************************)
(* class UniqueValue: a number, or what is known about there being none.   *)
(***************************************************************************)
VIRGIN == -1
VOID   == -2
NONE   == -3
UniqueValue == Nat \cup {VIRGIN, VOID, NONE}

(* '<<=' *)
Injected(u, v) == CASE u = VIRGIN               -> v
                    [] u # VIRGIN /\ v = NONE   -> NONE
                    [] u # VIRGIN /\ v # NONE   -> IF u = v THEN u ELSE VOID

(* '+=' *)
Added(u, v) == CASE u = VIRGIN          -> v
                 [] u \in {VOID, NONE}  -> u
                 [] OTHER               -> u + v

(* '==' *)
Same(u, v) == u = v \/ {u, v} = {NONE, VIRGIN}

Count    == [line: UniqueValue, column: UniqueValue, index: UniqueValue, grid: UniqueValue]
ByLength == [line: UniqueValue, column: UniqueValue, grid: UniqueValue]
AllVoid(count) == \A f \in DOMAIN count : count[f] = VOID

-----------------------------------------------------------------------------
(***************************************************************************)
(* The count action map.                                                   *)
(***************************************************************************)

(* add(): a set may not intersect with one that is there.                   *)
Coherent(defs) == /\ \A e \in defs : e.chars # {} /\ ~ (e.type = "GRID" /\ e.value = 0)
                  /\ \A e, f \in defs : e # f => e.chars \cap f.chars = {}

(* finalize(): what remains is counted as '\else' says.                     *)
Finalized(defs, else) ==
    LET remaining == Char \ UNION {e.chars : e \in defs}
    IN  IF remaining = {} THEN defs
        ELSE defs \cup {[type |-> else.type, value |-> else.value, chars |-> remaining]}

NoCommand    == -1
Undetermined == -2

(* get_count_commands(), for one of the types.                              *)
CountCommand(type, C) ==
    IF \E e \in ca_map : C \subseteq e.chars
    THEN LET e == CHOOSE e \in ca_map : C \subseteq e.chars
         IN  IF e.type = type THEN e.value ELSE NoCommand
    ELSE IF \E e \in ca_map : e.type = type /\ e.chars \cap C # {}
         THEN Undetermined ELSE NoCommand

-----------------------------------------------------------------------------
(***************************************************************************)
(* Count.compute(): the influence of a transition on the counts along the  *)
(* path ('count') and on the counts per length ('by').                     *)
(***************************************************************************)
Voided(x, field) == [x EXCEPT !.by[field]    = Injected(@, VOID),
                              !.count[field] = Injected(@, VOID)]

AfterLine(x, line) ==
    CASE line = NoCommand    -> x
      [] line = Undetermined -> Voided(x, "line")
      [] OTHER -> [by    |-> [line   |-> Injected(x.by.line, line),
                              column |-> Injected(x.by.column, 0),
                              grid   |-> Injected(x.by.grid, 0)],
                   count |-> [line   |-> Added(x.count.line, line),
                              column |-> Injected(x.count.column, 0),
                              index  |-> 0,
                              grid   |-> VIRGIN]]

(* A step on the grid has a distance only if the column is known.           *)
AfterGrid(x, grid) ==
    CASE grid = NoCommand    -> x
      [] grid = Undetermined -> Voided(x, "grid")
      [] OTHER ->
           LET y     == [x EXCEPT !.by.line = Injected(@, 0), !.by.grid = Injected(@, grid),
                                  !.count.grid = Added(@, 1)]
               delta == grid - (x.count.index % grid)
           IN  IF x.count.index \in {VIRGIN, VOID} THEN Voided(y, "column")
               ELSE [y EXCEPT !.by.column = Injected(@, delta), !.count.index = Added(@, delta),
                              !.count.column = Added(@, delta)]

AfterColumn(x, column) ==
    CASE column = NoCommand    -> x
      [] column = Undetermined -> [Voided(x, "column") EXCEPT !.count.index = Injected(@, VOID)]
      [] OTHER -> [by    |-> [line   |-> Injected(x.by.line, 0),
                              column |-> Injected(x.by.column, column),
                              grid   |-> Injected(x.by.grid, 0)],
                   count |-> [line   |-> x.count.line,
                              column |-> Added(x.count.column, column),
                              index  |-> Added(x.count.index, column),
                              grid   |-> Injected(x.count.grid, NONE)]]

Computed(count, C) ==
    AfterColumn(AfterGrid(AfterLine([by |-> by_length, count |-> count],
                                    CountCommand("LINE", C)),
                          CountCommand("GRID", C)),
                CountCommand("COLUMN", C))

(* voidify_deviants(): what differs between two counts is not determined.   *)
Voidified(res, known, new) ==
    [f \in DOMAIN res |-> IF Same(known[f], new[f]) THEN res[f] ELSE Injected(res[f], VOID)]

(* register_result() *)
Registered(res, count) ==
    LET first == [f \in DOMAIN res |-> IF Same(res[f], VIRGIN) THEN count[f] ELSE res[f]]
    IN  Voidified(first, first, count)

-----------------------------------------------------------------------------
(***************************************************************************)
(* _analyze(): the walk.                                                   *)
(***************************************************************************)
Into(s, t) == {c \in Char : dfa.move[s][c] = t}
Node(s, C, count) == [state |-> s, chars |-> C, count |-> count]
Nodal == [state: State, chars: SUBSET Char, count: Count]
Nodes(s, count) ==
    {Node(t, Into(s, t), count) : t \in {t \in State : Into(s, t) # {}}}
Level(S) == IF S = {} THEN <<>> ELSE <<S>>

(* The count before the first character, Count(0, 0, ColumnIndex, VIRGIN).  *)
FirstCount ==
    LET first == [line |-> 0, column |-> 0, index |-> IF setup.bol THEN 0 ELSE VOID,
                  grid |-> VIRGIN]
    IN  IF setup.const THEN first ELSE [f \in DOMAIN first |-> Injected(first[f], VOID)]

Virgin == [line |-> VIRGIN, column |-> VIRGIN, index |-> VIRGIN, grid |-> VIRGIN]

Init ==
    /\ \E const \in BOOLEAN, bol \in BOOLEAN, size \in Sizes :
         /\ setup = [const |-> const, bol |-> bol, size |-> size]
         /\ dfa \in IF const THEN Machines ELSE Loops
         /\ ~const => ~bol
    /\ \E section \in Sections :
         Coherent(section.defs) /\ ca_map = Finalized(section.defs, section.else)
    /\ stack     = Level(Nodes(InitState, FirstCount))
    /\ by_length = [line |-> VIRGIN, column |-> VIRGIN, grid |-> VIRGIN]
    /\ known_db  = [s \in {} |-> Virgin]
    /\ result    = IF InitState \in dfa.accept THEN [Virgin EXCEPT !.column = 0, !.line = 0]
                                               ELSE Virgin
    /\ abort_f   = FALSE

Top     == stack[Len(stack)]
Rest(n) == SubSeq(stack, 1, Len(stack) - 1) \o Level(Top \ {n})

(* Nothing is certain anymore, neither on this path nor by the length.      *)
GiveUp(n, x) ==
    /\ AllVoid(x.count) /\ AllVoid(x.by)
    /\ result'  = Registered(result, x.count)
    /\ abort_f' = TRUE
    /\ stack'   = <<>>
    /\ UNCHANGED known_db

(* Mutant: a count that differs from the one known is not considered.       *)
MeetAgainSilently(n, x) ==
    /\ ~ (AllVoid(x.count) /\ AllVoid(x.by))
    /\ n.state \in DOMAIN known_db
    /\ result'  = IF n.state \in dfa.accept THEN Registered(result, known_db[n.state]) ELSE result
    /\ abort_f' = AllVoid(result')
    /\ stack'   = IF abort_f' THEN <<>> ELSE Rest(n)
    /\ UNCHANGED known_db

(* A state that was entered before, maybe with another count.               *)
MeetAgain(n, x) ==
    /\ ~ (AllVoid(x.count) /\ AllVoid(x.by))
    /\ n.state \in DOMAIN known_db
    /\ LET deviant == Voidified(result, known_db[n.state], x.count)
       IN  /\ result'  = IF n.state \in dfa.accept THEN Registered(deviant, known_db[n.state])
                                                   ELSE deviant
           /\ abort_f' = \/ AllVoid(deviant)
                         \/ n.state \in dfa.accept /\ AllVoid(result')
    /\ stack' = IF abort_f' THEN <<>> ELSE Rest(n)
    /\ UNCHANGED known_db

EnterFirst(n, x) ==
    /\ ~ (AllVoid(x.count) /\ AllVoid(x.by))
    /\ n.state \notin DOMAIN known_db
    /\ known_db' = [s \in DOMAIN known_db \cup {n.state} |->
                        IF s = n.state THEN x.count ELSE known_db[s]]
    /\ result'  = IF n.state \in dfa.accept THEN Registered(result, x.count) ELSE result
    /\ abort_f' = (n.state \in dfa.accept /\ AllVoid(result'))
    /\ stack'   = IF abort_f' THEN <<>> ELSE Rest(n) \o Level(Nodes(n.state, x.count))

(* on_enter(): any of the nodes on the level is the next.                   *)
Enter(n) ==
    LET x == Computed(n.count, n.chars)
    IN  /\ by_length' = x.by
        /\ GiveUp(n, x) \/ MeetAgain(n, x) \/ EnterFirst(n, x)
        /\ UNCHANGED <<dfa, ca_map, setup>>

Next == stack # <<>> /\ \E n \in Top : Enter(n)
Spec == Init /\ [][Next]_vars

-----------------------------------------------------------------------------
(***************************************************************************)
(* SmLineColumnCountInfo: what is concluded.  'per' is the number of       *)
(* lexatoms of a character by which a factor of the length is divided.     *)
(***************************************************************************)
Real(u, of_virgin) == CASE u = VIRGIN -> of_virgin [] u = NONE -> 0 [] OTHER -> u

(* lexatom_n_per_character_in_state_machine() *)
CharactersUsed == {c \in Char : \E s \in State : dfa.move[s][c] # NoState}
SizesUsed == {setup.size[c] : c \in CharactersUsed}

(* _consider_variable_character_sizes(): if sizes differ, a length in       *)
(* lexatoms says nothing about the number of characters.                    *)
Considered(info) ==
    LET differ == Cardinality(SizesUsed) # 1
        column == info.column = VOID /\ info.index = VOID /\ (info.by_column # VOID \/ info.by_grid # VOID)
        line   == info.line = VOID /\ info.by_line # VOID
        per    == IF differ THEN 1 ELSE CHOOSE n \in SizesUsed : TRUE
    IN  [info EXCEPT
           !.by_column = IF column /\ differ THEN VOID ELSE @,
           !.by_grid   = IF column /\ differ THEN VOID ELSE @,
           !.by_line   = IF line /\ differ THEN VOID ELSE @,
           !.per_column = IF column /\ info.by_column # VOID THEN per ELSE 1,
           !.per_grid   = IF column /\ info.by_column = VOID THEN per ELSE 1,
           !.per_line   = IF line THEN per ELSE 1]

Nothing == [line |-> 0, column |-> 0, index |-> 0, grid |-> 0, by_line |-> 0, by_column |-> 0,
            by_grid |-> 0, per_column |-> 1, per_grid |-> 1, per_line |-> 1]

Info ==
    IF Nodes(InitState, Virgin) = {} THEN Nothing
    ELSE LET by_grid == IF abort_f /\ by_length.grid = VIRGIN THEN VOID ELSE by_length.grid
         IN  Considered([Nothing EXCEPT
                 !.line   = Real(result.line, 0),   !.by_line   = Real(by_length.line, 0),
                 !.column = Real(result.column, 0), !.by_column = Real(by_length.column, 0),
                 !.grid   = Real(result.grid, 0),   !.by_grid   = Real(by_grid, VOID),
                 !.index  = Real(result.index, VOID)])

(* __run_time_counter_required_f() *)
RunTimeCounterRequired(info) ==
    /\ info.by_grid \in {0, VOID}
    /\ \/ info.by_line = VOID /\ info.line = VOID
       \/ info.by_column = VOID /\ info.column = VOID /\ info.index = VOID

-----------------------------------------------------------------------------
(***************************************************************************)
(* get_OpList() and the C code of the operations (dictionary.py).          *)
(***************************************************************************)

(* int(round(d / n)): a half is rounded to the even number.                 *)
Rounded(d, n) == LET down == 2 * (d % n) < n
                     half == 2 * (d % n) = n
                 IN  IF down \/ (half /\ (d \div n) % 2 = 0) THEN d \div n ELSE d \div n + 1

(* MULTIPLY_WITH(): the length times factor / per.                          *)
MultipliedWith(length, factor, per) ==
    CASE factor = 0   -> 0
      [] factor # 0 /\ factor < per  -> length \div Rounded(per, factor)
      [] factor # 0 /\ factor >= per -> (length * factor) \div per

(* get_offset(): what is added.                                             *)
Offset(increment, by, per, length) ==
    CASE by = 0 \/ increment = 0                -> 0
      [] by # 0 /\ increment \notin {0, VOID}   -> increment
      [] by # 0 /\ increment = VOID             -> MultipliedWith(length, by, per)

(* COUNTER_COLUMN_GRID_STEP(): back to the grid, then n steps.  A fixed     *)
(* power of two is written as a shift, without parentheses: 'size << k + 1'.*)
PowerOfTwo(n) == \E k \in 1..n : n = 2^k
GridSteps(column, size, n, fixed) ==
    LET cut == (column - 1) - ((column - 1) % size)
    IN  IF fixed /\ PowerOfTwo(n) THEN cut + size * (2 * n) ELSE cut + size * n + 1

AfterOps(info, line, column, length) ==
    [line   |-> line + Offset(info.line, info.by_line, info.per_line, length),
     column |-> CASE info.index # VOID -> info.index + 1
                  [] info.index = VOID /\ info.grid # 0 ->
                       GridSteps(column, info.by_grid \div info.per_grid,
                                 IF info.grid = VOID THEN length ELSE info.grid, info.grid # VOID)
                  [] info.index = VOID /\ info.grid = 0 ->
                       column + Offset(info.column, info.by_column, info.per_column, length)]

(* count_operation_db_without_reference: a character is counted.            *)
CountedCharacter(at, c) ==
    LET e == CHOOSE e \in ca_map : c \in e.chars
    IN  CASE e.type = "COLUMN" -> [at EXCEPT !.column = @ + e.value]
          [] e.type = "GRID"   -> [at EXCEPT !.column = GridSteps(@, e.value, 1, TRUE)]
          [] e.type = "LINE"   -> [line |-> at.line + e.value, column |-> 1]

-----------------------------------------------------------------------------
(***************************************************************************)
(* Properties.                                                             *)
(***************************************************************************)
TypeOK ==
    /\ dfa \in Machine
    /\ ca_map \subseteq Entry
    /\ \A e \in ca_map : e.type = "GRID" => e.value # 0
    /\ setup \in [const : BOOLEAN, bol : BOOLEAN, size : [Char -> Nat \ {0}]]
    /\ stack \in Seq((SUBSET Nodal) \ {{}})
    /\ by_length \in ByLength
    /\ known_db \in [DOMAIN known_db -> Count] /\ DOMAIN known_db \subseteq State
    /\ result \in Count /\ abort_f \in BOOLEAN

(* What is concluded of line, column and column index does not contradict   *)
(* any way to accept that was met (register_result(), voidify_deviants()).  *)
AcceptedAlike ==
    \A s \in DOMAIN known_db \cap dfa.accept, f \in {"line", "column", "index"} :
        result[f] \in {VOID, known_db[s][f]}

(* A walk that is cut short concludes nothing but factors of the length.    *)
AbortedIsVoid == abort_f => stack = <<>> /\ AllVoid(result)

Lexemes == UNION {[1..n -> Char] : n \in 1..MaxLength}

Arrival(w) ==
    LET at[n \in 0..Len(w)] == IF n = 0 THEN InitState
                               ELSE IF at[n - 1] = NoState THEN NoState
                               ELSE dfa.move[at[n - 1]][w[n]]
    IN  at[Len(w)]

Length(w) ==
    LET sum[n \in 0..Len(w)] == IF n = 0 THEN 0 ELSE sum[n - 1] + setup.size[w[n]]
    IN  sum[Len(w)]

(* Line and column behind w, one character after the other.                 *)
Counted(w, line, column) ==
    LET at[n \in 0..Len(w)] == IF n = 0 THEN [line |-> line, column |-> column]
                               ELSE CountedCharacter(at[n - 1], w[n])
    IN  at[Len(w)]

(* How much of a lexeme may have been counted before, at a reload.          *)
Parts(w) == IF setup.const THEN {0} ELSE 0..Len(w)

Columns == IF setup.bol THEN {1} ELSE 1..MaxColumn

(* Fixed grid steps whose number is a power of two are added wrongly.       *)
ShiftedTooFar(info) == info.index = VOID /\ info.grid > 1 /\ PowerOfTwo(info.grid)

(* A grid that is found later hides that characters of a set were counted   *)
(* differently, so that no run-time counter is called.                      *)
HiddenByGrid(info) ==
    /\ info.by_grid \notin {0, VOID}
    /\ \E s, t \in State : \A e \in ca_map : ~ (Into(s, t) \subseteq e.chars)

(* At the begin of a line a step on the grid has a distance.  It passes for *)
(* the width of a character, if others happen to be as wide.                *)
TakenForWidth(info) ==
    /\ setup.bol /\ info.index = VOID /\ info.column = VOID /\ info.by_column > 0
    /\ \E e \in ca_map : e.type = "GRID" /\ e.chars \cap CharactersUsed # {}

(* The run-time counter is a loop over single characters, each counted by   *)
(* operations that are derived in the same way: it never calls itself (the  *)
(* assertion in _insert_counting_commands()).  Not so if the characters of  *)
(* a grid have encodings of different lengths.                              *)
SingleCharacter == \A s \in State \ {InitState} : \A c \in Char : dfa.move[s][c] = NoState
RunTimeCounterStands ==
    stack = <<>> /\ setup.const /\ SingleCharacter =>
        \A e \in ca_map :
            CharactersUsed \subseteq e.chars /\ (e.type = "GRID" => Cardinality(SizesUsed) = 1)
                => ~ RunTimeCounterRequired(Info)

(* The operations that are derived from the state machine do to line and    *)
(* column what counting each character does: for every lexeme, and wherever *)
(* it begins; for a skipper also if it is counted piecewise, at reloads.    *)
(* Where a run-time counter is needed instead, there is one that stands.    *)
CountedRight ==
    /\ RunTimeCounterStands
    /\ stack = <<>> /\ ~ RunTimeCounterRequired(Info)
                 /\ ~ (ShiftedTooFar(Info) \/ HiddenByGrid(Info) \/ TakenForWidth(Info)) =>
        \A w \in {w \in Lexemes : Arrival(w) \in dfa.accept} :
            \A i \in Parts(w), column \in Columns :
                LET at == Counted(SubSeq(w, 1, i), 1, column)
                IN  AfterOps(Info, at.line, at.column, Length(SubSeq(w, i + 1, Len(w))))
                        = Counted(w, 1, column)
=============================================================================
