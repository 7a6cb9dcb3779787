----------------------------- MODULE WalkProofs -----------------------------
(***************************************************************************)
(* Theorems about the two walks of the generator that go through a machine *)
(* level by level (tree_walker.py).  TraceAnalysis, for every machine: no  *)
(* step from a trace that is known is overlooked.  CharacterCounter, for   *)
(* every machine, counter section and encoding: types; what is concluded   *)
(* agrees with all ways to accept.                                         *)
(***************************************************************************)
EXTENDS TraceAnalysis, SequenceTheorems, TLAPS

In(y, st) == \E i \in DOMAIN st : y \in st[i]

Walked == \E U : stack \in Seq(SUBSET (U \X State))

IInv ==
    /\ machine \in Machines
    /\ result = [s \in State |-> result[s]]
    /\ Walked
    /\ EveryStepKnown

-----------------------------------------------------------------------------
(* What is left to be visited, when levels are cut, joined and dropped.     *)

LEMMA InLevel ==
    ASSUME NEW N, NEW S \in SUBSET N
    PROVE  Level(S) \in Seq(SUBSET N) /\ \A y : In(y, Level(S)) <=> y \in S
<1>1. CASE S = {}
  <2>1. Level(S) = <<>> BY <1>1 DEF Level
  <2>2. DOMAIN <<>> = {} OBVIOUS
  <2>3. <<>> \in Seq(SUBSET N) OBVIOUS
  <2> QED BY <2>1, <2>2, <2>3, <1>1 DEF In
<1>2. CASE S # {}
  <2>1. Level(S) = <<S>> BY <1>2 DEF Level
  <2>2. DOMAIN <<S>> = {1} /\ <<S>>[1] = S OBVIOUS
  <2>3. <<S>> \in Seq(SUBSET N) OBVIOUS
  <2> QED BY <2>1, <2>2, <2>3 DEF In
<1> QED BY <1>1, <1>2

LEMMA InJoined ==
    ASSUME NEW N, NEW s \in Seq(SUBSET N), NEW t \in Seq(SUBSET N)
    PROVE  s \o t \in Seq(SUBSET N) /\ \A y : In(y, s \o t) <=> In(y, s) \/ In(y, t)
<1>1. s \o t \in Seq(SUBSET N) OBVIOUS
<1>2. Len(s) \in Nat /\ Len(t) \in Nat OBVIOUS
<1>3. ASSUME NEW y, In(y, s \o t) PROVE In(y, s) \/ In(y, t)
  <2>1. PICK i \in DOMAIN (s \o t) : y \in (s \o t)[i] BY <1>3 DEF In
  <2>2. i \in 1 .. Len(s) + Len(t) BY <2>1
  <2>3. CASE i <= Len(s)
    <3>1. i \in DOMAIN s /\ (s \o t)[i] = s[i] BY <2>2, <2>3, <1>2
    <3> QED BY <3>1, <2>1 DEF In
  <2>4. CASE i > Len(s)
    <3>1. i - Len(s) \in DOMAIN t /\ (s \o t)[i] = t[i - Len(s)] BY <2>2, <2>4, <1>2
    <3> QED BY <3>1, <2>1 DEF In
  <2> QED BY <2>2, <2>3, <2>4, <1>2
<1>4. ASSUME NEW y, In(y, s) PROVE In(y, s \o t)
  <2>1. PICK i \in DOMAIN s : y \in s[i] BY <1>4 DEF In
  <2>2. i \in DOMAIN (s \o t) /\ (s \o t)[i] = s[i] BY <2>1, <1>2
  <2> QED BY <2>1, <2>2 DEF In
<1>5. ASSUME NEW y, In(y, t) PROVE In(y, s \o t)
  <2>1. PICK i \in DOMAIN t : y \in t[i] BY <1>5 DEF In
  <2>2. Len(s) + i \in DOMAIN (s \o t) /\ (s \o t)[Len(s) + i] = t[i] BY <2>1, <1>2
  <2> QED BY <2>1, <2>2 DEF In
<1> QED BY <1>1, <1>3, <1>4, <1>5

LEMMA InCut ==
    ASSUME NEW N, NEW st \in Seq(SUBSET N), st # <<>>
    PROVE  /\ SubSeq(st, 1, Len(st) - 1) \in Seq(SUBSET N)
           /\ Len(st) \in DOMAIN st
           /\ st[Len(st)] \in SUBSET N
           /\ \A y : In(y, st) <=> In(y, SubSeq(st, 1, Len(st) - 1)) \/ y \in st[Len(st)]
<1>1. Len(st) \in Nat \ {0} /\ DOMAIN st = 1 .. Len(st) OBVIOUS
<1>2. SubSeq(st, 1, Len(st) - 1) \in Seq(SUBSET N) BY <1>1
<1>3. DOMAIN SubSeq(st, 1, Len(st) - 1) = 1 .. Len(st) - 1 BY <1>1
<1>4. \A i \in 1 .. Len(st) - 1 : SubSeq(st, 1, Len(st) - 1)[i] = st[i] BY <1>1
<1>5. st[Len(st)] \in SUBSET N BY <1>1
<1>6. 1 .. Len(st) = (1 .. Len(st) - 1) \cup {Len(st)}
  <2>1. \A n \in Nat \ {0} : 1 .. n = (1 .. n - 1) \cup {n} OBVIOUS
  <2> QED BY <2>1, <1>1
<1>7. ASSUME NEW y
      PROVE  In(y, st) <=> In(y, SubSeq(st, 1, Len(st) - 1)) \/ y \in st[Len(st)]
  <2>1. In(y, st) <=> \E i \in 1 .. Len(st) : y \in st[i] BY <1>1 DEF In
  <2>2. In(y, SubSeq(st, 1, Len(st) - 1)) <=> \E i \in 1 .. Len(st) - 1 : y \in st[i]
    BY <1>3, <1>4 DEF In
  <2>3. (\E i \in 1 .. Len(st) : y \in st[i])
           <=> (\E i \in 1 .. Len(st) - 1 : y \in st[i]) \/ y \in st[Len(st)]
    BY <1>6, Zenon
  <2> QED BY <2>1, <2>2, <2>3
<1> QED BY <1>1, <1>2, <1>5, <1>7

(* A node that is left goes; those below it come.                           *)
LEMMA Moved ==
    ASSUME NEW N, stack \in Seq(SUBSET N), stack # <<>>, NEW x \in Top, NEW S \in SUBSET N
    PROVE  /\ Without(x) \o Level(S) \in Seq(SUBSET N)
           /\ Without(x) \in Seq(SUBSET N)
           /\ \A y : In(y, stack) => y = x \/ In(y, Without(x))
           /\ \A y : In(y, Without(x)) => In(y, stack)
           /\ \A y : In(y, Without(x) \o Level(S)) <=> In(y, Without(x)) \/ y \in S
<1> DEFINE Front == SubSeq(stack, 1, Len(stack) - 1)
<1>1. /\ Front \in Seq(SUBSET N) /\ Top \in SUBSET N
      /\ \A y : In(y, stack) <=> In(y, Front) \/ y \in Top
  BY InCut DEF Top
<1>2. Top \ {x} \in SUBSET N BY <1>1
<1>3. Level(Top \ {x}) \in Seq(SUBSET N) /\ \A y : In(y, Level(Top \ {x})) <=> y \in Top \ {x}
  BY <1>2, InLevel
<1>4. Without(x) = Front \o Level(Top \ {x}) BY DEF Without
<1> HIDE DEF Front
<1>5. /\ Without(x) \in Seq(SUBSET N)
      /\ \A y : In(y, Without(x)) <=> In(y, Front) \/ In(y, Level(Top \ {x}))
  <2>1. Front \in Seq(SUBSET N) BY <1>1
  <2>2. Level(Top \ {x}) \in Seq(SUBSET N) BY <1>3
  <2>3. /\ Front \o Level(Top \ {x}) \in Seq(SUBSET N)
        /\ \A y : In(y, Front \o Level(Top \ {x})) <=> In(y, Front) \/ In(y, Level(Top \ {x}))
    BY <2>1, <2>2, InJoined
  <2> QED BY <2>3, <1>4, Zenon
<1>6. Level(S) \in Seq(SUBSET N) /\ \A y : In(y, Level(S)) <=> y \in S BY InLevel
<1>7. /\ Without(x) \o Level(S) \in Seq(SUBSET N)
      /\ \A y : In(y, Without(x) \o Level(S)) <=> In(y, Without(x)) \/ In(y, Level(S))
  BY <1>5, <1>6, InJoined
<1> QED BY <1>1, <1>3, <1>5, <1>6, <1>7

LEMMA EquivalentToItself ==
    ASSUME NEW x, NEW s
    PROVE  Equivalent(x, x, s)
BY DEF Equivalent, SameHash, SameHint

-----------------------------------------------------------------------------
(* A step changes neither the machine nor what follows from a trace.        *)
LEMMA SameMachine ==
    ASSUME machine' = machine, NEW x, NEW y, NEW s
    PROVE  /\ NextStep(x, s)' = NextStep(x, s)
           /\ Equivalent(x, y, s)' = Equivalent(x, y, s)
BY DEF NextStep, Equivalent, EndOfRoad

LEMMA TargetsAreStates ==
    ASSUME machine \in Machines, NEW s \in State
    PROVE  machine.to[s] \subseteq State
BY TraceAnalysisAssumption

LEMMA InitHolds == Init => IInv
<1> SUFFICES ASSUME Init PROVE IInv OBVIOUS
<1> DEFINE N == {InitTrace} \X State
<1>1. machine \in Machines /\ InitState \in State BY TraceAnalysisAssumption DEF Init
<1>2. Onward(InitTrace, InitState) \in SUBSET N BY <1>1, TargetsAreStates DEF Onward
<1>3. /\ stack \in Seq(SUBSET N)
      /\ \A y : In(y, stack) <=> y \in Onward(InitTrace, InitState)
  BY <1>2, InLevel DEF Init
<1>4. Walked BY <1>3 DEF Walked
<1>5. \A s \in State : result[s] = IF s = InitState THEN {InitTrace} ELSE {} BY DEF Init
<1>6. ASSUME NEW s \in State, NEW x \in result[s], NEW t \in machine.to[s]
      PROVE  Pending(x, t)
  <2>1. s = InitState /\ x = InitTrace BY <1>5, <1>6
  <2>2. <<x, t>> \in Onward(InitTrace, InitState) BY <2>1 DEF Onward
  <2> QED BY <2>2, <1>3 DEF Pending, In
<1>7. EveryStepKnown BY <1>6 DEF EveryStepKnown
<1>8. result = [s \in State |-> result[s]] BY DEF Init
<1> QED BY <1>1, <1>4, <1>7, <1>8 DEF IInv

(* A node on the stack is a trace and a state.                              *)
LEMMA NodeOfTop ==
    ASSUME Walked, stack # <<>>, NEW x \in Top
    PROVE  x[2] \in State /\ x = <<x[1], x[2]>>
<1>1. PICK U : stack \in Seq(SUBSET (U \X State)) BY DEF Walked
<1>2. Top \in SUBSET (U \X State) BY <1>1, InCut DEF Top
<1> QED BY <1>2

LEMMA TurnBackHolds ==
    ASSUME IInv, stack # <<>>, NEW x \in Top, TurnBack(x)
    PROVE  IInv'
<1>1. /\ machine' = machine /\ result' = result /\ stack' = Without(x)
      /\ Known(NextStep(x[1], x[2]), x[2])
  BY DEF TurnBack
<1>2. x[2] \in State /\ x = <<x[1], x[2]>> BY NodeOfTop DEF IInv
<1>3. PICK U : stack \in Seq(SUBSET (U \X State)) BY DEF IInv, Walked
<1>4. /\ stack' \in Seq(SUBSET (U \X State))
      /\ \A y : In(y, stack) => y = x \/ In(y, stack')
  BY <1>1, <1>3, Moved
<1>5. Walked' BY <1>4 DEF Walked
<1>6. ASSUME NEW s \in State, NEW y \in result[s], NEW t \in machine.to[s]
      PROVE  Pending(y, t)' \/ Known(NextStep(y, t), t)'
  <2>1. CASE In(<<y, t>>, stack') BY <2>1 DEF Pending, In
  <2>2. CASE Known(NextStep(y, t), t)
    BY <2>2, <1>1, SameMachine DEF Known
  <2>3. CASE <<y, t>> = x
    <3>1. Known(NextStep(y, t), t) BY <2>3, <1>1
    <3> QED BY <3>1, <2>2
  <2>4. Pending(y, t) => In(<<y, t>>, stack) BY DEF Pending, In
  <2> QED BY <2>1, <2>2, <2>3, <2>4, <1>4, <1>6 DEF IInv, EveryStepKnown
<1>7. EveryStepKnown' BY <1>1, <1>6 DEF EveryStepKnown
<1> QED BY <1>1, <1>5, <1>7 DEF IInv

LEMMA GoOnHolds ==
    ASSUME IInv, stack # <<>>, NEW x \in Top, GoOn(x)
    PROVE  IInv'
<1>0. PICK T : T = NextStep(x[1], x[2]) OBVIOUS
<1> DEFINE Below == Onward(T, x[2])
<1>1. /\ machine' = machine
      /\ result' = [result EXCEPT ![x[2]] = @ \cup {T}]
      /\ stack' = Without(x) \o Level(Below)
  BY <1>0 DEF GoOn
<1>2. x[2] \in State /\ x = <<x[1], x[2]>> BY NodeOfTop DEF IInv
<1>3. PICK U : stack \in Seq(SUBSET (U \X State)) BY DEF IInv, Walked
<1> DEFINE N == (U \cup {T}) \X State
<1>4. stack \in Seq(SUBSET N)
  <2>1. SUBSET (U \X State) \subseteq SUBSET N OBVIOUS
  <2>2. \A A, B : A \subseteq B => Seq(A) \subseteq Seq(B) OBVIOUS
  <2> QED BY <2>1, <2>2, <1>3
<1>5. Below \in SUBSET N BY <1>2, TargetsAreStates DEF IInv, Onward
<1> HIDE DEF N, Below
<1>6. /\ stack' \in Seq(SUBSET N)
      /\ \A y : In(y, stack) => y = x \/ In(y, stack')
      /\ \A y : y \in Below => In(y, stack')
  BY <1>1, <1>4, <1>5, Moved
<1>7. Walked' BY <1>6 DEF Walked, N
<1>8. result' = [s \in State |-> result'[s]] BY <1>1 DEF IInv
<1>9. \A s \in State : result'[s] = IF s = x[2] THEN result[s] \cup {T} ELSE result[s]
  BY <1>1 DEF IInv
<1>10. ASSUME NEW s \in State, NEW t, Known(t, s) PROVE Known(t, s)'
  BY <1>10, <1>9, <1>1, SameMachine DEF Known
<1>11. \E z \in result'[x[2]] : Equivalent(T, z, x[2])'
  <2>1. T \in result'[x[2]] BY <1>2, <1>9
  <2>2. Equivalent(T, T, x[2]) BY EquivalentToItself
  <2>3. Equivalent(T, T, x[2])' BY <1>1, <2>2, SameMachine
  <2> QED BY <2>1, <2>3
<1>12. ASSUME NEW s \in State, NEW y \in result'[s], NEW t \in machine.to[s]
       PROVE  Pending(y, t)' \/ Known(NextStep(y, t), t)'
  <2>1. t \in State BY TargetsAreStates DEF IInv
  <2>2. NextStep(y, t)' = NextStep(y, t) BY <1>1, SameMachine
  <2>3. CASE In(<<y, t>>, stack') BY <2>3 DEF Pending, In
  <2>4. CASE y \in result[s]
    <3>1. CASE Known(NextStep(y, t), t) BY <3>1, <2>1, <2>2, <1>10 DEF Known
    <3>2. CASE <<y, t>> = x BY <3>2, <1>0, <1>11, <2>2 DEF Known
    <3>3. Pending(y, t) => In(<<y, t>>, stack) BY DEF Pending, In
    <3> QED BY <2>3, <2>4, <3>1, <3>2, <3>3, <1>6 DEF IInv, EveryStepKnown
  <2>5. CASE y \notin result[s]
    <3>1. s = x[2] /\ y = T BY <2>5, <1>9, <1>12
    <3>2. <<y, t>> \in Below BY <3>1 DEF Below, Onward
    <3> QED BY <3>2, <1>6, <2>3
  <2> QED BY <2>4, <2>5
<1>13. EveryStepKnown' BY <1>1, <1>12 DEF EveryStepKnown
<1> QED BY <1>1, <1>7, <1>8, <1>13 DEF IInv

(* What the analysis concludes from the traces rests on this: no step from  *)
(* a known trace is overlooked, core.py, TraceFinder.on_enter().            *)
THEOREM NoStepOverlooked == Spec => []EveryStepKnown
<1>1. Init => IInv BY InitHolds
<1>2. IInv /\ [Next]_vars => IInv'
  <2> SUFFICES ASSUME IInv, [Next]_vars PROVE IInv' OBVIOUS
  <2>1. CASE UNCHANGED vars
    <3>1. machine' = machine /\ result' = result /\ stack' = stack BY <2>1 DEF vars
    <3>2. Walked' BY <3>1 DEF IInv, Walked
    <3>3. ASSUME NEW s \in State, NEW x \in result[s], NEW t \in machine.to[s]
          PROVE  Pending(x, t)' \/ Known(NextStep(x, t), t)'
      <4>1. Pending(x, t) => Pending(x, t)' BY <3>1 DEF Pending
      <4>2. Known(NextStep(x, t), t) => Known(NextStep(x, t), t)'
        BY <3>1, SameMachine DEF Known
      <4> QED BY <4>1, <4>2 DEF IInv, EveryStepKnown
    <3>4. EveryStepKnown' BY <3>1, <3>3 DEF EveryStepKnown
    <3> QED BY <3>1, <3>2, <3>4 DEF IInv
  <2>2. CASE Next
    <3>1. stack # <<>> BY <2>2 DEF Next
    <3>2. PICK x \in Top : TurnBack(x) \/ GoOn(x) BY <2>2 DEF Next
    <3> QED BY <3>1, <3>2, TurnBackHolds, GoOnHolds
  <2> QED BY <2>1, <2>2
<1>3. IInv => EveryStepKnown BY DEF IInv
<1> QED BY <1>1, <1>2, <1>3, PTL DEF Spec

-----------------------------------------------------------------------------
(***************************************************************************)
(* The walk of CharacterCounter has variables of its own.                  *)
(***************************************************************************)
CONSTANTS Char, NoState, PatternMachines, Loops, Sections, Sizes, MaxLength, MaxColumn
VARIABLES dfa, ca_map, setup, levels, by_length, known_db, info, abort_f

CC == INSTANCE CharacterCounter
        WITH Machines <- PatternMachines, stack <- levels, result <- info

(* '<<=' and '+=' stay with values; what is void remains void.              *)
LEMMA InjectedType ==
    ASSUME NEW u \in CC!UniqueValue, NEW v \in CC!UniqueValue
    PROVE  CC!Injected(u, v) \in CC!UniqueValue
BY DEF CC!Injected, CC!UniqueValue, CC!VIRGIN, CC!VOID, CC!NONE

LEMMA AddedType ==
    ASSUME NEW u \in CC!UniqueValue, NEW v \in Nat
    PROVE  CC!Added(u, v) \in CC!UniqueValue
BY DEF CC!Added, CC!UniqueValue, CC!VIRGIN, CC!VOID, CC!NONE

(* Constants of class E_Count are values.                                   *)
LEMMA ValueTypes == /\ CC!VOID \in CC!UniqueValue /\ CC!VIRGIN \in CC!UniqueValue /\ CC!NONE \in CC!UniqueValue
                    /\ Nat \subseteq CC!UniqueValue
BY DEF CC!UniqueValue, CC!VIRGIN, CC!VOID, CC!NONE

(* voidify_deviants() and register_result() return counts.                  *)
LEMMA VoidifiedType ==
    ASSUME NEW res \in CC!Count, NEW known \in CC!Count, NEW new \in CC!Count
    PROVE  CC!Voidified(res, known, new) \in CC!Count
<1>1. ASSUME NEW f \in {"line", "column", "index", "grid"}
      PROVE  (IF CC!Same(known[f], new[f]) THEN res[f] ELSE CC!Injected(res[f], CC!VOID)) \in CC!UniqueValue
  <2>1. res[f] \in CC!UniqueValue
    BY DEF CC!Count
  <2>. QED BY <2>1, InjectedType, ValueTypes
<1>2. DOMAIN res = {"line", "column", "index", "grid"}
  BY DEF CC!Count
<1>. QED BY <1>1, <1>2 DEF CC!Voidified, CC!Count

LEMMA RegisteredType ==
    ASSUME NEW res \in CC!Count, NEW count \in CC!Count
    PROVE  CC!Registered(res, count) \in CC!Count
<1>. DEFINE first == [f \in DOMAIN res |-> IF CC!Same(res[f], CC!VIRGIN) THEN count[f] ELSE res[f]]
<1>1. first \in CC!Count
  BY DEF CC!Count
<1>. QED BY <1>1, VoidifiedType DEF CC!Registered

(* get_count_commands() returns a number, or that there is none.            *)
LEMMA CommandType ==
    ASSUME CC!TypeOK, NEW type \in CC!CountTypes, NEW C \in SUBSET Char
    PROVE  /\ CC!CountCommand(type, C) \in Nat \cup {CC!NoCommand, CC!Undetermined}
           /\ type = "GRID" => CC!CountCommand(type, C) # 0
<1>1. CASE \E e \in ca_map : C \subseteq e.chars
  <2>. DEFINE e == CHOOSE e \in ca_map : C \subseteq e.chars
  <2>1. e \in ca_map
    BY <1>1
  <2>2. e.value \in Nat /\ (e.type = "GRID" => e.value # 0)
    BY <2>1 DEF CC!TypeOK, CC!Entry
  <2>3. CC!CountCommand(type, C) = IF e.type = type THEN e.value ELSE CC!NoCommand
    BY <1>1 DEF CC!CountCommand
  <2>. QED BY <2>2, <2>3 DEF CC!NoCommand
<1>2. CASE ~ \E e \in ca_map : C \subseteq e.chars
  BY <1>2 DEF CC!CountCommand, CC!NoCommand, CC!Undetermined
<1>. QED BY <1>1, <1>2

(* Pairs of counts per length and counts along the path.                    *)
Paired == [by : CC!ByLength, count : CC!Count]

LEMMA VoidedType ==
    ASSUME NEW x \in Paired, NEW field \in {"line", "column", "grid"}
    PROVE  CC!Voided(x, field) \in Paired
<1>1. x.by[field] \in CC!UniqueValue /\ x.count[field] \in CC!UniqueValue
  BY DEF Paired, CC!ByLength, CC!Count
<1>2. /\ CC!Injected(x.by[field], CC!VOID) \in CC!UniqueValue
      /\ CC!Injected(x.count[field], CC!VOID) \in CC!UniqueValue
  BY <1>1, InjectedType, ValueTypes
<1>. QED BY <1>2 DEF CC!Voided, Paired, CC!ByLength, CC!Count

LEMMA AfterLineType ==
    ASSUME NEW x \in Paired, NEW line \in Nat \cup {CC!NoCommand, CC!Undetermined}
    PROVE  CC!AfterLine(x, line) \in Paired
<1>1. CASE line = CC!NoCommand
  BY <1>1 DEF CC!AfterLine, CC!NoCommand, CC!Undetermined
<1>2. CASE line = CC!Undetermined
  BY <1>2, VoidedType DEF CC!AfterLine, CC!NoCommand, CC!Undetermined
<1>3. CASE line \in Nat
  <2>1. /\ CC!Injected(x.by.line, line) \in CC!UniqueValue
        /\ CC!Injected(x.by.column, 0) \in CC!UniqueValue
        /\ CC!Injected(x.by.grid, 0) \in CC!UniqueValue
        /\ CC!Injected(x.count.column, 0) \in CC!UniqueValue
        /\ CC!Added(x.count.line, line) \in CC!UniqueValue
    BY <1>3, InjectedType, AddedType, ValueTypes DEF Paired, CC!ByLength, CC!Count
  <2>. QED BY <1>3, <2>1, ValueTypes DEF CC!AfterLine, CC!NoCommand, CC!Undetermined, Paired, CC!ByLength, CC!Count
<1>. QED BY <1>1, <1>2, <1>3

LEMMA AfterGridType ==
    ASSUME NEW x \in Paired, NEW grid \in Nat \cup {CC!NoCommand, CC!Undetermined}, grid # 0
    PROVE  CC!AfterGrid(x, grid) \in Paired
<1>1. CASE grid = CC!NoCommand
  BY <1>1 DEF CC!AfterGrid, CC!NoCommand, CC!Undetermined
<1>2. CASE grid = CC!Undetermined
  BY <1>2, VoidedType DEF CC!AfterGrid, CC!NoCommand, CC!Undetermined
<1>3. CASE grid \in Nat
  <2>. DEFINE y     == [x EXCEPT !.by.line = CC!Injected(@, 0), !.by.grid = CC!Injected(@, grid),
                                 !.count.grid = CC!Added(@, 1)]
              delta == grid - (x.count.index % grid)
              z     == [y EXCEPT !.by.column = CC!Injected(@, delta), !.count.index = CC!Added(@, delta),
                                 !.count.column = CC!Added(@, delta)]
  <2>1. /\ CC!Injected(x.by.line, 0) \in CC!UniqueValue
        /\ CC!Injected(x.by.grid, grid) \in CC!UniqueValue
        /\ CC!Added(x.count.grid, 1) \in CC!UniqueValue
    BY <1>3, InjectedType, AddedType, ValueTypes DEF Paired, CC!ByLength, CC!Count
  <2>2. y \in Paired
    BY <2>1 DEF Paired, CC!ByLength, CC!Count
  <2>3. CC!Voided(y, "column") \in Paired
    BY <2>2, VoidedType
  <2>4. delta \in Nat
    <3>1. x.count.index \in Int
      BY DEF Paired, CC!Count, CC!UniqueValue, CC!VIRGIN, CC!VOID, CC!NONE
    <3>. QED BY <1>3, <3>1
  <2>5. /\ CC!Injected(y.by.column, delta) \in CC!UniqueValue
        /\ CC!Added(y.count.index, delta) \in CC!UniqueValue
        /\ CC!Added(y.count.column, delta) \in CC!UniqueValue
    <3>1. /\ y.by.column \in CC!UniqueValue
          /\ y.count.index \in CC!UniqueValue
          /\ y.count.column \in CC!UniqueValue
      BY <2>2 DEF Paired, CC!ByLength, CC!Count
    <3>2. delta \in CC!UniqueValue
      BY <2>4, ValueTypes
    <3>. HIDE DEF y, delta
    <3>. QED BY <2>4, <3>1, <3>2, InjectedType, AddedType
  <2>6. z \in Paired
    <3>. HIDE DEF y, delta
    <3>. QED BY <2>2, <2>5 DEF Paired, CC!ByLength, CC!Count
  <2>7. CC!AfterGrid(x, grid) = IF x.count.index \in {CC!VIRGIN, CC!VOID} THEN CC!Voided(y, "column") ELSE z
    BY <1>3 DEF CC!AfterGrid, CC!NoCommand, CC!Undetermined
  <2>. HIDE DEF y, z
  <2>. QED BY <2>3, <2>6, <2>7
<1>. QED BY <1>1, <1>2, <1>3

LEMMA AfterColumnType ==
    ASSUME NEW x \in Paired, NEW column \in Nat \cup {CC!NoCommand, CC!Undetermined}
    PROVE  CC!AfterColumn(x, column) \in Paired
<1>1. CASE column = CC!NoCommand
  BY <1>1 DEF CC!AfterColumn, CC!NoCommand, CC!Undetermined
<1>2. CASE column = CC!Undetermined
  <2>. DEFINE y == CC!Voided(x, "column")
  <2>1. y \in Paired
    BY VoidedType
  <2>2. CC!Injected(y.count.index, CC!VOID) \in CC!UniqueValue
    <3>1. y.count.index \in CC!UniqueValue
      BY <2>1 DEF Paired, CC!Count
    <3>. QED BY <3>1, InjectedType, ValueTypes
  <2>3. CC!AfterColumn(x, column) = [y EXCEPT !.count.index = CC!Injected(@, CC!VOID)]
    BY <1>2 DEF CC!AfterColumn, CC!NoCommand, CC!Undetermined
  <2>. HIDE DEF y
  <2>. QED BY <2>1, <2>2, <2>3 DEF Paired, CC!Count
<1>3. CASE column \in Nat
  <2>1. /\ CC!Injected(x.by.line, 0) \in CC!UniqueValue
        /\ CC!Injected(x.by.column, column) \in CC!UniqueValue
        /\ CC!Injected(x.by.grid, 0) \in CC!UniqueValue
        /\ CC!Injected(x.count.grid, CC!NONE) \in CC!UniqueValue
        /\ CC!Added(x.count.index, column) \in CC!UniqueValue
        /\ CC!Added(x.count.column, column) \in CC!UniqueValue
    BY <1>3, InjectedType, AddedType, ValueTypes DEF Paired, CC!ByLength, CC!Count
  <2>2. x.count.line \in CC!UniqueValue
    BY DEF Paired, CC!Count
  <2>. QED BY <1>3, <2>1, <2>2 DEF CC!AfterColumn, CC!NoCommand, CC!Undetermined, Paired, CC!ByLength, CC!Count
<1>. QED BY <1>1, <1>2, <1>3

(* compute(): the command for a set of characters keeps the types.          *)
LEMMA ComputedType ==
    ASSUME CC!TypeOK, NEW count \in CC!Count, NEW C \in SUBSET Char
    PROVE  CC!Computed(count, C) \in Paired
<1>. DEFINE x == [by |-> by_length, count |-> count]
            y == CC!AfterLine(x, CC!CountCommand("LINE", C))
            z == CC!AfterGrid(y, CC!CountCommand("GRID", C))
<1>1. x \in Paired
  BY DEF CC!TypeOK, Paired
<1>2. y \in Paired
  BY <1>1, CommandType, AfterLineType DEF CC!CountTypes
<1>3. z \in Paired
  <2>. HIDE DEF y
  <2>. QED BY <1>2, CommandType, AfterGridType DEF CC!CountTypes
<1>4. CC!AfterColumn(z, CC!CountCommand("COLUMN", C)) \in Paired
  <2>. HIDE DEF z
  <2>. QED BY <1>3, CommandType, AfterColumnType DEF CC!CountTypes
<1>. QED BY <1>4 DEF CC!Computed

-----------------------------------------------------------------------------
(* What the walk puts on its stack are levels of nodes, none of them empty. *)
Levels == Seq((SUBSET CC!Nodal) \ {{}})

LEMMA NodesType ==
    ASSUME NEW s \in State, NEW count \in CC!Count
    PROVE  CC!Nodes(s, count) \subseteq CC!Nodal
<1>1. ASSUME NEW t \in State
      PROVE  CC!Node(t, CC!Into(s, t), count) \in CC!Nodal
  BY DEF CC!Node, CC!Nodal, CC!Into
<1>. QED BY <1>1 DEF CC!Nodes

LEMMA LevelType ==
    ASSUME NEW S \in SUBSET CC!Nodal
    PROVE  CC!Level(S) \in Levels
<1>. DEFINE T == (SUBSET CC!Nodal) \ {{}}
<1>1. ASSUME S # {} PROVE S \in T
  <2>1. S \in SUBSET CC!Nodal
    OBVIOUS
  <2>2. S \notin {{}}
    BY <1>1
  <2>. QED BY <2>1, <2>2
<1>2. CC!Level(S) = IF S = {} THEN <<>> ELSE <<S>>
  BY DEF CC!Level
<1>. HIDE DEF T
<1>3. CC!Level(S) \in Seq(T)
  BY <1>1, <1>2
<1>. QED BY <1>3 DEF Levels, T

LEMMA LevelsJoin ==
    ASSUME NEW s \in Levels, NEW t \in Levels
    PROVE  <<>> \in Levels /\ s \o t \in Levels
<1>. DEFINE T == (SUBSET CC!Nodal) \ {{}}
<1>. HIDE DEF T
<1>1. s \in Seq(T) /\ t \in Seq(T)
  BY DEF Levels, T
<1>2. <<>> \in Seq(T) /\ s \o t \in Seq(T)
  BY <1>1
<1>. QED BY <1>2 DEF Levels, T

LEMMA RestType ==
    ASSUME CC!TypeOK, levels # <<>>, NEW n \in CC!Top
    PROVE  n \in CC!Nodal /\ CC!Rest(n) \in Levels
<1>. DEFINE T == (SUBSET CC!Nodal) \ {{}}
<1>1. levels \in Seq(T) /\ Len(levels) \in Nat /\ Len(levels) # 0
  BY DEF CC!TypeOK
<1>2. CC!Top \in T
  BY <1>1 DEF CC!Top
<1>3. SubSeq(levels, 1, Len(levels) - 1) \in Seq(T)
  BY <1>1
<1>4. CC!Level(CC!Top \ {n}) \in Seq(T)
  BY <1>2, LevelType DEF Levels
<1>5. CC!Rest(n) \in Seq(T)
  <2>. HIDE DEF T
  <2>. QED BY <1>3, <1>4 DEF CC!Rest
<1>. QED BY <1>2, <1>5 DEF Levels

LEMMA FinalizedType ==
    ASSUME CC!CounterAssumption, NEW section \in Sections, CC!Coherent(section.defs)
    PROVE  LET map == CC!Finalized(section.defs, section.else)
           IN  map \subseteq CC!Entry /\ \A e \in map : e.type = "GRID" => e.value # 0
<1>. DEFINE remaining == Char \ UNION {e.chars : e \in section.defs}
            rest      == [type |-> section.else.type, value |-> section.else.value,
                          chars |-> remaining]
<1>1. section \in [defs : SUBSET CC!Entry, else : CC!Command]
      /\ (section.else.type = "GRID" => section.else.value # 0)
  BY DEF CC!CounterAssumption
<1>2. rest \in CC!Entry /\ (rest.type = "GRID" => rest.value # 0)
  BY <1>1 DEF CC!Entry, CC!Command
<1>3. CC!Finalized(section.defs, section.else) \in {section.defs, section.defs \cup {rest}}
  BY DEF CC!Finalized
<1>4. section.defs \subseteq CC!Entry /\ \A e \in section.defs : e.type = "GRID" => e.value # 0
  BY <1>1 DEF CC!Coherent
<1>. HIDE DEF rest
<1>. QED BY <1>2, <1>3, <1>4

LEMMA InitTypes == CC!CounterAssumption /\ CC!Init => CC!TypeOK
<1>. SUFFICES ASSUME CC!CounterAssumption, CC!Init PROVE CC!TypeOK
  OBVIOUS
<1>1. dfa \in CC!Machine /\ setup \in [const : BOOLEAN, bol : BOOLEAN, size : [Char -> Nat \ {0}]]
  BY DEF CC!Init, CC!CounterAssumption
<1>2. ca_map \subseteq CC!Entry /\ \A e \in ca_map : e.type = "GRID" => e.value # 0
  BY FinalizedType DEF CC!Init
<1>3. CC!FirstCount \in CC!Count
  <2>1. [line |-> 0, column |-> 0, index |-> IF setup.bol THEN 0 ELSE CC!VOID, grid |-> CC!VIRGIN] \in CC!Count
    BY ValueTypes DEF CC!Count
  <2>2. ASSUME NEW c \in CC!Count
        PROVE  [f \in DOMAIN c |-> CC!Injected(c[f], CC!VOID)] \in CC!Count
    <3>1. ASSUME NEW f \in {"line", "column", "index", "grid"}
          PROVE  CC!Injected(c[f], CC!VOID) \in CC!UniqueValue
      <4>1. c[f] \in CC!UniqueValue
        BY DEF CC!Count
      <4>. QED BY <4>1, InjectedType, ValueTypes
    <3>2. DOMAIN c = {"line", "column", "index", "grid"}
      BY DEF CC!Count
    <3>. QED BY <3>1, <3>2 DEF CC!Count
  <2>. QED BY <2>1, <2>2 DEF CC!FirstCount
<1>4. levels \in Levels
  BY <1>3, NodesType, LevelType DEF CC!Init, CC!CounterAssumption
<1>5. by_length \in CC!ByLength
  BY ValueTypes DEF CC!Init, CC!ByLength
<1>6. known_db \in [DOMAIN known_db -> CC!Count] /\ DOMAIN known_db \subseteq State
  BY DEF CC!Init
<1>7. CC!Virgin \in CC!Count /\ [CC!Virgin EXCEPT !.column = 0, !.line = 0] \in CC!Count
  BY ValueTypes DEF CC!Virgin, CC!Count
<1>8. info \in CC!Count /\ abort_f \in BOOLEAN
  BY <1>7 DEF CC!Init
<1>. QED BY <1>1, <1>2, <1>4, <1>5, <1>6, <1>8 DEF CC!TypeOK, Levels

LEMMA NextTypes == CC!TypeOK /\ [CC!Next]_CC!vars => CC!TypeOK'
<1>. SUFFICES ASSUME CC!TypeOK, [CC!Next]_CC!vars PROVE CC!TypeOK'
  OBVIOUS
<1>1. CASE UNCHANGED CC!vars
  BY <1>1 DEF CC!vars, CC!TypeOK, CC!Into
<1>2. CASE CC!Next
  <2>. PICK n \in CC!Top : CC!Enter(n)
    BY <1>2 DEF CC!Next
  <2>. DEFINE x == CC!Computed(n.count, n.chars)
  <2>1. levels # <<>> /\ UNCHANGED <<dfa, ca_map, setup>> /\ by_length' = x.by
    BY <1>2 DEF CC!Next, CC!Enter
  <2>2. n \in CC!Nodal /\ CC!Rest(n) \in Levels
    BY <2>1, RestType
  <2>3. x \in Paired
    BY <2>2, ComputedType DEF CC!Nodal
  <2>4. x.count \in CC!Count /\ by_length' \in CC!ByLength
    BY <2>1, <2>3 DEF Paired
  <2>. HIDE DEF x
  <2>5. CASE CC!GiveUp(n, x)
    <3>1. info' \in CC!Count /\ abort_f' \in BOOLEAN /\ levels' = <<>> /\ known_db' = known_db
      BY <2>4, <2>5, RegisteredType DEF CC!GiveUp, CC!TypeOK
    <3>2. levels' \in Levels
      BY <2>2, <3>1, LevelsJoin
    <3>. QED BY <2>1, <2>4, <3>1, <3>2 DEF CC!TypeOK, Levels
  <2>6. CASE CC!MeetAgain(n, x)
    <3>. DEFINE deviant == CC!Voidified(info, known_db[n.state], x.count)
    <3>1. known_db[n.state] \in CC!Count
      BY <2>6 DEF CC!MeetAgain, CC!TypeOK
    <3>2. deviant \in CC!Count
      BY <2>4, <3>1, VoidifiedType DEF CC!TypeOK
    <3>3. info' = IF n.state \in dfa.accept THEN CC!Registered(deviant, known_db[n.state]) ELSE deviant
      BY <2>6 DEF CC!MeetAgain
    <3>. HIDE DEF deviant
    <3>4. info' \in CC!Count
      BY <3>1, <3>2, <3>3, RegisteredType
    <3>5. abort_f' \in BOOLEAN /\ levels' \in {<<>>, CC!Rest(n)} /\ known_db' = known_db
      BY <2>6, Zenon DEF CC!MeetAgain
    <3>6. levels' \in Levels
      BY <2>2, <3>5, LevelsJoin
    <3>. QED BY <2>1, <2>4, <3>4, <3>5, <3>6 DEF CC!TypeOK, Levels
  <2>7. CASE CC!EnterFirst(n, x)
    <3>1. /\ known_db' = [s \in DOMAIN known_db \cup {n.state} |->
                              IF s = n.state THEN x.count ELSE known_db[s]]
          /\ info' \in {info, CC!Registered(info, x.count)}
          /\ abort_f' \in BOOLEAN
          /\ levels' \in {<<>>, CC!Rest(n) \o CC!Level(CC!Nodes(n.state, x.count))}
      BY <2>7, Zenon DEF CC!EnterFirst
    <3>2. n.state \in State
      BY <2>2 DEF CC!Nodal
    <3>3. known_db' \in [DOMAIN known_db' -> CC!Count] /\ DOMAIN known_db' \subseteq State
      BY <2>4, <3>1, <3>2 DEF CC!TypeOK
    <3>4. info' \in CC!Count
      BY <2>4, <3>1, RegisteredType DEF CC!TypeOK
    <3>5. CC!Level(CC!Nodes(n.state, x.count)) \in Levels
      BY <2>4, <3>2, NodesType, LevelType
    <3>6. levels' \in Levels
      BY <2>2, <3>1, <3>5, LevelsJoin
    <3>. QED BY <2>1, <2>4, <3>1, <3>3, <3>4, <3>6 DEF CC!TypeOK, Levels
  <2>. QED BY <2>5, <2>6, <2>7 DEF CC!Enter, x
<1>. QED BY <1>1, <1>2

(* The types of what the walk keeps: counts remain numbers, or what is      *)
(* known about there being none, whatever the counter section says.         *)
THEOREM TypeCorrect ==
    ASSUME CC!CounterAssumption
    PROVE  CC!Spec => []CC!TypeOK
<1>1. CC!Init => CC!TypeOK
  BY InitTypes
<1>2. CC!TypeOK /\ [CC!Next]_CC!vars => CC!TypeOK'
  BY NextTypes
<1>. QED BY <1>1, <1>2, PTL DEF CC!Spec

-----------------------------------------------------------------------------
(* Numbers of lines, of columns and the column index are known along a path *)
(* or void, from the first node on.                                         *)
Places      == {"line", "column", "index"}
Settled     == Nat \cup {CC!VOID}
Definite(c) == \A f \in Places : c[f] \in Settled

LEMMA SettledStays ==
    ASSUME NEW u \in Settled, NEW v \in Settled
    PROVE  /\ CC!Injected(u, v) \in Settled
           /\ v # CC!VOID => CC!Added(u, v) \in Settled
BY DEF Settled, CC!Injected, CC!Added, CC!VIRGIN, CC!VOID, CC!NONE

LEMMA ComputedDefinite ==
    ASSUME CC!TypeOK, NEW count \in CC!Count, Definite(count), NEW C \in SUBSET Char
    PROVE  Definite(CC!Computed(count, C).count)
<1>. DEFINE line   == CC!CountCommand("LINE", C)
            grid   == CC!CountCommand("GRID", C)
            column == CC!CountCommand("COLUMN", C)
            x == [by |-> by_length, count |-> count]
            y == CC!AfterLine(x, line)
            z == CC!AfterGrid(y, grid)
<1>1. /\ line \in Nat \cup {CC!NoCommand, CC!Undetermined}
      /\ grid \in Nat \cup {CC!NoCommand, CC!Undetermined} /\ grid # 0
      /\ column \in Nat \cup {CC!NoCommand, CC!Undetermined}
  BY CommandType DEF CC!CountTypes
<1>2. x \in Paired /\ y \in Paired /\ z \in Paired
  <2>1. x \in Paired
    BY DEF CC!TypeOK, Paired
  <2>2. y \in Paired
    BY <1>1, <2>1, AfterLineType
  <2>. HIDE DEF y
  <2>3. z \in Paired
    BY <1>1, <2>2, AfterGridType
  <2>. QED BY <2>1, <2>2, <2>3
<1>. HIDE DEF line, grid, column
<1>3. /\ CC!VOID \in Settled /\ Nat \subseteq Settled
  BY DEF Settled
<1>4. ASSUME NEW p \in Paired, NEW field \in {"line", "column", "grid"}, Definite(p.count)
      PROVE  Definite(CC!Voided(p, field).count)
  <2>1. CC!Voided(p, field).count = [p.count EXCEPT ![field] = CC!Injected(p.count[field], CC!VOID)]
    BY DEF CC!Voided, Paired, CC!ByLength
  <2>2. p.count \in CC!Count
    BY DEF Paired
  <2>3. ASSUME NEW f \in Places
        PROVE  CC!Voided(p, field).count[f] \in Settled
    <3>1. p.count[f] \in Settled
      BY <1>4 DEF Definite
    <3>2. CC!Injected(p.count[f], CC!VOID) \in Settled
      BY <1>3, <3>1, SettledStays
    <3>. QED BY <2>1, <2>2, <3>1, <3>2 DEF CC!Count, Places
  <2>. QED BY <2>3 DEF Definite
<1>5. Definite(y.count)
  <2>1. Definite(x.count)
    OBVIOUS
  <2>2. CASE line = CC!NoCommand
    BY <2>1, <2>2 DEF CC!AfterLine, CC!NoCommand, CC!Undetermined
  <2>3. CASE line = CC!Undetermined
    <3>1. y = CC!Voided(x, "line")
      BY <2>3 DEF CC!AfterLine, CC!NoCommand, CC!Undetermined
    <3>. QED BY <1>2, <1>4, <2>1, <3>1
  <2>4. CASE line \in Nat
    <3>1. y.count = [line   |-> CC!Added(x.count.line, line),
                     column |-> CC!Injected(x.count.column, 0),
                     index  |-> 0, grid |-> CC!VIRGIN]
      BY <2>4 DEF CC!AfterLine, CC!NoCommand, CC!Undetermined
    <3>2. /\ CC!Added(x.count.line, line) \in Settled
          /\ CC!Injected(x.count.column, 0) \in Settled
      BY <1>3, <2>1, <2>4, SettledStays DEF Definite, Places, CC!VOID
    <3>. QED BY <1>3, <3>1, <3>2 DEF Definite, Places
  <2>. QED BY <1>1, <2>2, <2>3, <2>4
<1>. HIDE DEF y
<1>6. Definite(z.count)
  <2>1. CASE grid = CC!NoCommand
    BY <1>5, <2>1 DEF CC!AfterGrid, CC!NoCommand, CC!Undetermined
  <2>2. CASE grid = CC!Undetermined
    <3>1. z = CC!Voided(y, "grid")
      BY <2>2 DEF CC!AfterGrid, CC!NoCommand, CC!Undetermined
    <3>. QED BY <1>2, <1>4, <1>5, <3>1
  <2>3. CASE grid \in Nat
    <3>. DEFINE w     == [y EXCEPT !.by.line = CC!Injected(@, 0), !.by.grid = CC!Injected(@, grid),
                                   !.count.grid = CC!Added(@, 1)]
                delta == grid - (y.count.index % grid)
                v     == [w EXCEPT !.by.column = CC!Injected(@, delta),
                                   !.count.index = CC!Added(@, delta),
                                   !.count.column = CC!Added(@, delta)]
    <3>1. z = IF y.count.index \in {CC!VIRGIN, CC!VOID} THEN CC!Voided(w, "column") ELSE v
      BY <2>3 DEF CC!AfterGrid, CC!NoCommand, CC!Undetermined
    <3>2. y.count \in CC!Count /\ y.by \in CC!ByLength
      BY <1>2 DEF Paired
    <3>3. w.count = [y.count EXCEPT !.grid = CC!Added(y.count.grid, 1)] /\ w \in Paired
      <4>1. /\ CC!Injected(y.by.line, 0) \in CC!UniqueValue
            /\ CC!Injected(y.by.grid, grid) \in CC!UniqueValue
            /\ CC!Added(y.count.grid, 1) \in CC!UniqueValue
        BY <2>3, <3>2, InjectedType, AddedType, ValueTypes DEF CC!ByLength, CC!Count
      <4>. QED BY <1>2, <4>1 DEF Paired, CC!ByLength, CC!Count
    <3>4. Definite(w.count)
      BY <1>5, <3>2, <3>3 DEF Definite, Places, CC!Count
    <3>5. Definite(CC!Voided(w, "column").count)
      <4>. HIDE DEF w
      <4>. QED BY <1>4, <3>3, <3>4
    <3>6. delta \in Nat
      <4>1. y.count.index \in Int
        BY <3>2 DEF CC!Count, CC!UniqueValue, CC!VIRGIN, CC!VOID, CC!NONE
      <4>. QED BY <1>1, <2>3, <4>1
    <3>7. /\ CC!Added(w.count.index, delta) \in Settled
          /\ CC!Added(w.count.column, delta) \in Settled
      <4>1. w.count.index \in Settled /\ w.count.column \in Settled
        BY <3>4 DEF Definite, Places
      <4>2. delta \in Settled /\ delta # CC!VOID
        BY <3>6 DEF Settled, CC!VOID
      <4>. HIDE DEF w, delta
      <4>. QED BY <4>1, <4>2, SettledStays
    <3>8. Definite(v.count)
      <4>. HIDE DEF w, delta
      <4>1. w.count \in CC!Count
        BY <3>3 DEF Paired
      <4>2. v.count = [w.count EXCEPT !.index = CC!Added(w.count.index, delta),
                                      !.column = CC!Added(w.count.column, delta)]
        BY <3>3 DEF Paired
      <4>. QED BY <3>4, <3>7, <4>1, <4>2 DEF Definite, Places, CC!Count
    <3>. HIDE DEF w, v
    <3>. QED BY <3>1, <3>5, <3>8
  <2>. QED BY <1>1, <2>1, <2>2, <2>3
<1>. HIDE DEF z
<1>7. Definite(CC!AfterColumn(z, column).count)
  <2>1. CASE column = CC!NoCommand
    BY <1>6, <2>1 DEF CC!AfterColumn, CC!NoCommand, CC!Undetermined
  <2>2. CASE column = CC!Undetermined
    <3>. DEFINE w == CC!Voided(z, "column")
    <3>1. CC!AfterColumn(z, column) = [w EXCEPT !.count.index = CC!Injected(@, CC!VOID)]
      BY <2>2 DEF CC!AfterColumn, CC!NoCommand, CC!Undetermined
    <3>2. w \in Paired /\ Definite(w.count)
      BY <1>2, <1>4, <1>6, VoidedType
    <3>. HIDE DEF w
    <3>3. CC!AfterColumn(z, column).count = [w.count EXCEPT !.index = CC!Injected(w.count.index, CC!VOID)]
      BY <3>1, <3>2 DEF Paired
    <3>4. CC!Injected(w.count.index, CC!VOID) \in Settled
      BY <1>3, <3>2, SettledStays DEF Definite, Places
    <3>. QED BY <3>2, <3>3, <3>4 DEF Definite, Places, Paired, CC!Count
  <2>3. CASE column \in Nat
    <3>1. CC!AfterColumn(z, column).count
            = [line   |-> z.count.line,
               column |-> CC!Added(z.count.column, column),
               index  |-> CC!Added(z.count.index, column),
               grid   |-> CC!Injected(z.count.grid, CC!NONE)]
      BY <2>3 DEF CC!AfterColumn, CC!NoCommand, CC!Undetermined
    <3>2. /\ z.count.line \in Settled
          /\ CC!Added(z.count.column, column) \in Settled
          /\ CC!Added(z.count.index, column) \in Settled
      BY <1>3, <1>6, <2>3, SettledStays DEF Definite, Places, CC!VOID
    <3>. QED BY <3>1, <3>2 DEF Definite, Places
  <2>. QED BY <1>1, <2>1, <2>2, <2>3
<1>. QED BY <1>7 DEF CC!Computed, z, y, line, grid, column

-----------------------------------------------------------------------------
(* voidify_deviants() keeps a value or makes it void.                       *)
LEMMA VoidifiedValue ==
    ASSUME NEW res \in CC!Count, NEW known, NEW new, NEW f \in DOMAIN res
    PROVE  CC!Voidified(res, known, new)[f] \in {res[f], CC!VOID}
<1>1. CC!Injected(res[f], CC!VOID) = CC!VOID
  BY DEF CC!Injected, CC!VIRGIN, CC!VOID, CC!NONE
<1>. QED BY <1>1 DEF CC!Voidified

(* register_result(): what remains agrees with what is registered, and with *)
(* what was registered before.                                              *)
LEMMA RegisteredValue ==
    ASSUME NEW res \in CC!Count, NEW count \in CC!Count, NEW f \in DOMAIN res, count[f] \in Settled
    PROVE  /\ CC!Registered(res, count)[f] \in {CC!VOID, count[f]}
           /\ res[f] \in Settled => CC!Registered(res, count)[f] \in {CC!VOID, res[f]}
<1>. DEFINE first == [g \in DOMAIN res |-> IF CC!Same(res[g], CC!VIRGIN) THEN count[g] ELSE res[g]]
<1>1. CC!Registered(res, count)[f]
        = IF CC!Same(first[f], count[f]) THEN first[f] ELSE CC!Injected(first[f], CC!VOID)
  BY DEF CC!Registered, CC!Voidified
<1>2. first[f] = IF CC!Same(res[f], CC!VIRGIN) THEN count[f] ELSE res[f]
  OBVIOUS
<1>3. CC!Injected(first[f], CC!VOID) = CC!VOID
  BY DEF CC!Injected, CC!VIRGIN, CC!VOID, CC!NONE
<1>4. res[f] \in CC!UniqueValue
  BY DEF CC!Count
<1>5. CASE CC!Same(res[f], CC!VIRGIN)
  <2>1. res[f] \notin Settled
    BY <1>5 DEF CC!Same, Settled, CC!VIRGIN, CC!VOID, CC!NONE
  <2>2. CC!Same(first[f], count[f])
    BY <1>2, <1>5 DEF CC!Same
  <2>. QED BY <1>1, <1>2, <1>5, <2>1, <2>2
<1>6. CASE ~ CC!Same(res[f], CC!VIRGIN)
  <2>1. res[f] \in Settled
    BY <1>4, <1>6 DEF CC!Same, Settled, CC!UniqueValue
  <2>2. CC!Same(first[f], count[f]) => first[f] = count[f]
    BY <1>2, <1>6, <2>1 DEF CC!Same, Settled, CC!VIRGIN, CC!VOID, CC!NONE
  <2>. HIDE DEF first
  <2>. QED BY <1>1, <1>2, <1>3, <1>6, <2>2
<1>. QED BY <1>5, <1>6

(* The inductive invariant: settled counts wait on the stack and are known. *)
Waiting  == \A i \in DOMAIN levels : \A n \in levels[i] : Definite(n.count)
AllDefinite    == \A s \in DOMAIN known_db : Definite(known_db[s])
Agreeing == CC!TypeOK /\ Waiting /\ AllDefinite /\ CC!AcceptedAlike /\ CC!AbortedIsVoid

LEMMA CountDomain == \A c \in CC!Count : DOMAIN c = Places \cup {"grid"}
BY DEF CC!Count, Places

LEMMA InitAgrees == CC!CounterAssumption /\ CC!Init => Agreeing
<1>. SUFFICES ASSUME CC!CounterAssumption, CC!Init PROVE Agreeing
  OBVIOUS
<1>1. CC!TypeOK
  BY InitTypes
<1>2. Definite(CC!FirstCount)
  <2>1. DOMAIN [line |-> 0, column |-> 0, index |-> IF setup.bol THEN 0 ELSE CC!VOID, grid |-> CC!VIRGIN]
          = {"line", "column", "index", "grid"}
    OBVIOUS
  <2>. QED BY <2>1 DEF CC!FirstCount, Definite, Places, Settled, CC!Injected, CC!VOID, CC!VIRGIN, CC!NONE
<1>3. Waiting
  <2>1. \A n \in CC!Nodes(InitState, CC!FirstCount) : n.count = CC!FirstCount
    BY DEF CC!Nodes, CC!Node
  <2>2. levels = CC!Level(CC!Nodes(InitState, CC!FirstCount))
    BY DEF CC!Init
  <2>. QED BY <1>2, <2>1, <2>2 DEF Waiting, CC!Level
<1>4. AllDefinite /\ CC!AcceptedAlike /\ CC!AbortedIsVoid
  BY DEF CC!Init, AllDefinite, CC!AcceptedAlike, CC!AbortedIsVoid
<1>. QED BY <1>1, <1>3, <1>4 DEF Agreeing

LEMMA FrontElements ==
    ASSUME NEW T, NEW q \in Seq(T), Len(q) \in Nat \ {0}
    PROVE  LET front == SubSeq(q, 1, Len(q) - 1)
           IN  /\ front \in Seq(T) /\ Len(front) = Len(q) - 1
               /\ \A i \in DOMAIN front : front[i] = q[i] /\ i \in DOMAIN q
<1>. DEFINE front == SubSeq(q, 1, Len(q) - 1)
            m == Len(q) - 1
<1>1. m \in Nat /\ m \in Int /\ m + 1 = Len(q) /\ 1 \in Int
  OBVIOUS
<1>2. \A i \in 1 .. m : q[i] \in T
  OBVIOUS
<1>3. front = SubSeq(q, 1, m)
  OBVIOUS
<1>. HIDE DEF front, m
<1>4. /\ front \in Seq(T)
      /\ Len(front) = IF 1 <= m THEN m - 1 + 1 ELSE 0
      /\ \A i \in 1 .. m - 1 + 1 : front[i] = q[1 + i - 1]
  BY <1>1, <1>2, <1>3, SubSeqProperties
<1>5. Len(front) = m
  BY <1>1, <1>4
<1>6. DOMAIN front = 1 .. m /\ DOMAIN q = 1 .. m + 1
  BY <1>1, <1>4, <1>5
<1>7. \A i \in 1 .. m : front[i] = q[i]
  BY <1>1, <1>4
<1>. QED BY <1>1, <1>4, <1>5, <1>6, <1>7 DEF front, m

(* The nodes that remain, with those that come next, wait with their counts.*)
LEMMA RestWaits ==
    ASSUME CC!TypeOK, Waiting, levels # <<>>, NEW n \in CC!Top, NEW c \in CC!Count, Definite(c),
           NEW s \in State,
           levels' \in {<<>>, CC!Rest(n), CC!Rest(n) \o CC!Level(CC!Nodes(s, c))}
    PROVE  Waiting'
<1>. DEFINE T     == (SUBSET CC!Nodal) \ {{}}
            front == SubSeq(levels, 1, Len(levels) - 1)
            Calm(q) == \A i \in DOMAIN q : \A m \in q[i] : Definite(m.count)
<1>1. levels \in Seq(T) /\ Len(levels) \in Nat \ {0}
  BY DEF CC!TypeOK
<1>2. Len(front) = Len(levels) - 1 /\ \A i \in DOMAIN front : front[i] = levels[i] /\ i \in DOMAIN levels
  BY <1>1, FrontElements
<1>3. front \in Seq(T) /\ Calm(front)
  BY <1>1, <1>2 DEF Waiting
<1>4. \A m \in CC!Top : Definite(m.count)
  BY <1>1 DEF CC!Top, Waiting
<1>5. ASSUME NEW S \in SUBSET CC!Nodal, \A m \in S : Definite(m.count)
      PROVE  CC!Level(S) \in Seq(T) /\ Calm(CC!Level(S))
  BY <1>5, LevelType DEF CC!Level, Levels
<1>6. CC!Top \in SUBSET CC!Nodal
  <2>1. CC!Top \in T
    BY <1>1 DEF CC!Top
  <2>. QED BY <2>1
<1>7. CC!Level(CC!Top \ {n}) \in Seq(T) /\ Calm(CC!Level(CC!Top \ {n}))
  BY <1>4, <1>5, <1>6
<1>8. CC!Level(CC!Nodes(s, c)) \in Seq(T) /\ Calm(CC!Level(CC!Nodes(s, c)))
  <2>1. \A m \in CC!Nodes(s, c) : m.count = c
    BY DEF CC!Nodes, CC!Node
  <2>. QED BY <1>5, <2>1, NodesType
<1>9. ASSUME NEW p \in Seq(T), NEW q \in Seq(T), Calm(p), Calm(q)
      PROVE  p \o q \in Seq(T) /\ Calm(p \o q)
  <2>. HIDE DEF T
  <2>1. p \o q \in Seq(T)
    OBVIOUS
  <2>2. ASSUME NEW i \in DOMAIN (p \o q), NEW m \in (p \o q)[i] PROVE Definite(m.count)
    <3>1. \/ i \in DOMAIN p /\ (p \o q)[i] = p[i]
          \/ i - Len(p) \in DOMAIN q /\ (p \o q)[i] = q[i - Len(p)]
      OBVIOUS
    <3>. QED BY <1>9, <3>1
  <2>. QED BY <2>1, <2>2
<1>10. CC!Rest(n) \in Seq(T) /\ Calm(CC!Rest(n))
  <2>. HIDE DEF T, Calm
  <2>. QED BY <1>3, <1>7, <1>9 DEF CC!Rest
<1>11. Calm(CC!Rest(n) \o CC!Level(CC!Nodes(s, c)))
  <2>. HIDE DEF T, Calm
  <2>. QED BY <1>8, <1>9, <1>10
<1>12. Calm(levels')
  <2>1. Calm(<<>>)
    OBVIOUS
  <2>. HIDE DEF Calm
  <2>. QED BY <1>10, <1>11, <2>1
<1>. QED BY <1>12 DEF Waiting, Definite

LEMMA NextAgrees == Agreeing /\ [CC!Next]_CC!vars => Agreeing'
<1>. SUFFICES ASSUME Agreeing, [CC!Next]_CC!vars PROVE Agreeing'
  OBVIOUS
<1>0. CC!TypeOK /\ Waiting /\ AllDefinite /\ CC!AcceptedAlike /\ CC!AbortedIsVoid
  BY DEF Agreeing
<1>1. CC!TypeOK'
  BY <1>0, NextTypes
<1>2. CASE UNCHANGED CC!vars
  <2>. USE <1>2 DEF CC!vars
  <2>1. Waiting' /\ AllDefinite'
    BY <1>0 DEF Waiting, AllDefinite, Definite
  <2>2. CC!AcceptedAlike' /\ CC!AbortedIsVoid'
    BY <1>0 DEF CC!AcceptedAlike, CC!AbortedIsVoid, CC!AllVoid
  <2>. QED BY <1>1, <2>1, <2>2 DEF Agreeing
<1>3. CASE CC!Next
  <2>. PICK n \in CC!Top : CC!Enter(n)
    BY <1>3 DEF CC!Next
  <2>. DEFINE x == CC!Computed(n.count, n.chars)
  <2>1. levels # <<>> /\ dfa' = dfa
    BY <1>3 DEF CC!Next, CC!Enter
  <2>2. n \in CC!Nodal /\ n.state \in State
    BY <1>0, <2>1, RestType DEF CC!Nodal
  <2>3. Definite(n.count)
    <3>1. Len(levels) \in DOMAIN levels
      BY <1>0, <2>1 DEF CC!TypeOK
    <3>. QED BY <1>0, <3>1 DEF Waiting, CC!Top
  <2>4. x.count \in CC!Count /\ Definite(x.count)
    BY <1>0, <2>2, <2>3, ComputedType, ComputedDefinite DEF CC!Nodal, Paired
  <2>. HIDE DEF x
  <2>5. info \in CC!Count /\ DOMAIN info = Places \cup {"grid"}
        /\ \A s \in DOMAIN known_db : known_db[s] \in CC!Count
    BY <1>0, CountDomain DEF CC!TypeOK
  <2>6. DOMAIN info' = Places \cup {"grid"}
    BY <1>1, CountDomain DEF CC!TypeOK
  <2>7. CASE CC!GiveUp(n, x)
    <3>1. /\ CC!AllVoid(x.count) /\ info' = CC!Registered(info, x.count)
          /\ levels' = <<>> /\ known_db' = known_db
      BY <2>7 DEF CC!GiveUp
    <3>2. \A f \in DOMAIN x.count : x.count[f] = CC!VOID
      BY <3>1 DEF CC!AllVoid
    <3>3. \A f \in DOMAIN info : info'[f] = CC!VOID
      <4>1. DOMAIN x.count = DOMAIN info
        BY <2>4, <2>5, CountDomain
      <4>2. CC!VOID \in Settled
        BY DEF Settled
      <4>. QED BY <2>4, <2>5, <3>1, <3>2, <4>1, <4>2, RegisteredValue
    <3>4. CC!AcceptedAlike' /\ CC!AbortedIsVoid'
      BY <2>5, <2>6, <3>1, <3>3 DEF CC!AcceptedAlike, CC!AbortedIsVoid, CC!AllVoid, Places
    <3>5. Waiting' /\ AllDefinite'
      BY <1>0, <3>1 DEF Waiting, AllDefinite, Definite
    <3>. QED BY <1>1, <3>4, <3>5 DEF Agreeing
  <2>8. CASE CC!MeetAgain(n, x)
    <3>. DEFINE known   == known_db[n.state]
                deviant == CC!Voidified(info, known, x.count)
    <3>1. /\ n.state \in DOMAIN known_db /\ known_db' = known_db
          /\ info' = IF n.state \in dfa.accept THEN CC!Registered(deviant, known) ELSE deviant
          /\ abort_f' => CC!AllVoid(deviant) \/ CC!AllVoid(info')
          /\ abort_f' => levels' = <<>>
          /\ levels' \in {<<>>, CC!Rest(n)}
      BY <2>8 DEF CC!MeetAgain
    <3>2. known \in CC!Count /\ Definite(known)
      BY <1>0, <2>5, <3>1 DEF AllDefinite
    <3>3. deviant \in CC!Count /\ DOMAIN deviant = DOMAIN info
      BY <2>4, <2>5, <3>2, VoidifiedType, CountDomain
    <3>4. \A f \in DOMAIN info : deviant[f] \in {info[f], CC!VOID}
      BY <2>5, VoidifiedValue
    <3>. HIDE DEF deviant
    <3>5. CC!AcceptedAlike'
      <4>1. SUFFICES ASSUME NEW s \in DOMAIN known_db \cap dfa.accept, NEW f \in Places
                     PROVE  info'[f] \in {CC!VOID, known_db[s][f]}
        BY <2>1, <3>1 DEF CC!AcceptedAlike, Places
      <4>2. info[f] \in {CC!VOID, known_db[s][f]}
        BY <1>0 DEF CC!AcceptedAlike, Places
      <4>3. known_db[s][f] \in Settled /\ CC!VOID \in Settled
        BY <1>0 DEF AllDefinite, Definite, Settled
      <4>4. deviant[f] \in {CC!VOID, known_db[s][f]} /\ deviant[f] \in Settled
        BY <2>5, <3>4, <4>2, <4>3
      <4>5. CASE n.state \in dfa.accept
        <5>1. known[f] \in Settled
          BY <3>2 DEF Definite
        <5>2. CC!Registered(deviant, known)[f] \in {CC!VOID, deviant[f]}
          BY <2>5, <3>2, <3>3, <4>4, <5>1, RegisteredValue
        <5>. QED BY <3>1, <4>4, <4>5, <5>2
      <4>6. CASE n.state \notin dfa.accept
        BY <3>1, <4>4, <4>6
      <4>. QED BY <4>5, <4>6
    <3>6. CC!AbortedIsVoid'
      <4>1. SUFFICES ASSUME CC!AllVoid(deviant) PROVE CC!AllVoid(info')
        BY <3>1 DEF CC!AbortedIsVoid, CC!AllVoid
      <4>2. \A f \in DOMAIN info : deviant[f] = CC!VOID
        BY <3>3, <4>1 DEF CC!AllVoid
      <4>3. CASE n.state \in dfa.accept
        <5>. DEFINE first == [f \in DOMAIN deviant |->
                                 IF CC!Same(deviant[f], CC!VIRGIN) THEN known[f] ELSE deviant[f]]
        <5>1. info' = CC!Voidified(first, first, known)
          BY <3>1, <4>3 DEF CC!Registered
        <5>2. \A f \in DOMAIN info : first[f] = CC!VOID
          BY <3>3, <4>2 DEF CC!Same, CC!VOID, CC!VIRGIN, CC!NONE
        <5>3. first \in CC!Count /\ DOMAIN first = DOMAIN info
          BY <2>5, <3>2, <3>3 DEF CC!Count
        <5>. HIDE DEF first
        <5>4. \A f \in DOMAIN info : info'[f] = CC!VOID
          BY <5>1, <5>2, <5>3, VoidifiedValue
        <5>. QED BY <2>5, <2>6, <5>4 DEF CC!AllVoid
      <4>4. CASE n.state \notin dfa.accept
        BY <3>1, <4>1, <4>4
      <4>. QED BY <4>3, <4>4
    <3>7. Waiting'
      BY <1>0, <2>1, <2>2, <2>4, <3>1, RestWaits
    <3>8. AllDefinite'
      BY <1>0, <3>1 DEF AllDefinite, Definite
    <3>. QED BY <1>1, <3>5, <3>6, <3>7, <3>8 DEF Agreeing
  <2>9. CASE CC!EnterFirst(n, x)
    <3>1. /\ n.state \notin DOMAIN known_db
          /\ known_db' = [s \in DOMAIN known_db \cup {n.state} |->
                              IF s = n.state THEN x.count ELSE known_db[s]]
          /\ info' = IF n.state \in dfa.accept THEN CC!Registered(info, x.count) ELSE info
          /\ abort_f' => CC!AllVoid(info')
          /\ abort_f' => levels' = <<>>
          /\ levels' \in {<<>>, CC!Rest(n), CC!Rest(n) \o CC!Level(CC!Nodes(n.state, x.count))}
      BY <2>9 DEF CC!EnterFirst
    <3>2. CC!AcceptedAlike'
      <4>1. SUFFICES ASSUME NEW s \in DOMAIN known_db', s \in dfa.accept, NEW f \in Places
                     PROVE  info'[f] \in {CC!VOID, known_db'[s][f]}
        BY <2>1 DEF CC!AcceptedAlike, Places
      <4>2. x.count[f] \in Settled /\ CC!VOID \in Settled
        BY <2>4 DEF Definite, Settled
      <4>3. /\ CC!Registered(info, x.count)[f] \in {CC!VOID, x.count[f]}
            /\ info[f] \in Settled => CC!Registered(info, x.count)[f] \in {CC!VOID, info[f]}
        BY <2>4, <2>5, <4>2, RegisteredValue
      <4>4. CASE s = n.state
        BY <3>1, <4>1, <4>3, <4>4
      <4>5. CASE s # n.state
        <5>1. s \in DOMAIN known_db /\ known_db'[s] = known_db[s]
          BY <3>1, <4>5
        <5>2. info[f] \in {CC!VOID, known_db[s][f]}
          BY <1>0, <4>1, <5>1 DEF CC!AcceptedAlike, Places
        <5>3. known_db[s][f] \in Settled
          BY <1>0, <5>1 DEF AllDefinite, Definite
        <5>. QED BY <3>1, <4>2, <4>3, <5>1, <5>2, <5>3
      <4>. QED BY <4>4, <4>5
    <3>3. CC!AbortedIsVoid'
      BY <3>1 DEF CC!AbortedIsVoid, CC!AllVoid
    <3>4. Waiting'
      BY <1>0, <2>1, <2>2, <2>4, <3>1, RestWaits
    <3>5. AllDefinite'
      BY <1>0, <2>4, <3>1 DEF AllDefinite, Definite
    <3>. QED BY <1>1, <3>2, <3>3, <3>4, <3>5 DEF Agreeing
  <2>. QED BY <2>7, <2>8, <2>9 DEF CC!Enter, x
<1>. QED BY <1>2, <1>3

(* Where the generator writes a fixed number for a pattern, every way to    *)
(* accept that was met advances line and column by that number: states that *)
(* are met again with other counts, and acceptance states that differ, make *)
(* it void (CharacterCountTracer.on_enter()).                               *)
THEOREM ConclusionAgrees ==
    ASSUME CC!CounterAssumption
    PROVE  CC!Spec => []CC!AcceptedAlike
<1>1. CC!Init => Agreeing
  BY InitAgrees
<1>2. Agreeing /\ [CC!Next]_CC!vars => Agreeing'
  BY NextAgrees
<1>3. Agreeing => CC!AcceptedAlike
  BY DEF Agreeing
<1>. QED BY <1>1, <1>2, <1>3, PTL DEF CC!Spec

(* A walk that is cut short (abort_f) concludes no fixed number: the paths  *)
(* it did not take cannot contradict.                                       *)
THEOREM AbortConcludesNothing ==
    ASSUME CC!CounterAssumption
    PROVE  CC!Spec => []CC!AbortedIsVoid
<1>1. CC!Init => Agreeing
  BY InitAgrees
<1>2. Agreeing /\ [CC!Next]_CC!vars => Agreeing'
  BY NextAgrees
<1>3. Agreeing => CC!AbortedIsVoid
  BY DEF Agreeing
<1>. QED BY <1>1, <1>2, <1>3, PTL DEF CC!Spec

=============================================================================
