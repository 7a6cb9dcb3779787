--------------------------- MODULE NfaToDfaProofs ---------------------------
(***************************************************************************)
(* Proofs about the subset construction of NfaToDfa.tla, for any machines. *)
(* The invariant adds to the properties that, until orphans are removed,   *)
(* every original state is still there (ClosureMap() looks its transitions *)
(* up), that names stand for states which the epsilon closures left, and   *)
(* that a state that is off the worklist is unambiguous.  From it follows, *)
(* word by word, that the same patterns are accepted as at the begin.      *)
(***************************************************************************)
EXTENDS NfaToDfa, FiniteSetTheorems, SequenceTheorems, WellFoundedInduction, TLAPS

BaseOK == /\ base.states \subseteq State /\ InitState \in base.states
          /\ base.trig \in [State -> [Char -> SUBSET base.states]]
          /\ base.entry \in [State -> SUBSET Entry]

NamesOK == /\ phase = "subsets" => \A s \in base.states : {s} \in states
           /\ \A X \in states : X \subseteq base.states

TreatedUnambiguous == \A X \in states \ worklist : Unambiguous(tm[X])

Begun == phase # "epsilon" => BaseOK /\ NamesOK

IInv == /\ nfa \in Machine
        /\ TypeOK
        /\ Begun
        /\ StandsForItsStates
        /\ TreatedUnambiguous
        /\ DeterministicWhenDone
        /\ phase = "epsilon" => states = {}
        /\ phase = "done"    => worklist = {}

-----------------------------------------------------------------------------
(***************************************************************************)
(* The epsilon closures leave a machine none of whose transitions leads to *)
(* a state that was deleted.                                               *)
(***************************************************************************)
LEMMA CombinedIsOK ==
    ASSUME NEW m \in Machine, NEW b, b = CombinedClosures(m)
    PROVE  /\ b.states \subseteq State /\ InitState \in b.states
           /\ b.trig \in [State -> [Char -> SUBSET b.states]]
           /\ b.entry \in [State -> SUBSET Entry]
<1>0. /\ b.states = {s \in State : m.eps[s] = {} \/ s \notin PureEpsilon(m)}
      /\ b.trig = [s \in State |-> [c \in Char |->
                      UNION {m.trig[t][c] : t \in EpsilonClosure(m.eps, s)}]]
      /\ b.entry = [s \in State |-> UNION {m.entry[t] : t \in EpsilonClosure(m.eps, s)}]
      BY DEF CombinedClosures
<1>m. /\ m.trig \in [State -> [Char -> SUBSET State]]
      /\ m.entry \in [State -> SUBSET Entry]
      BY DEF Machine
<1>c. \A s \in State : EpsilonClosure(m.eps, s) \subseteq State  BY DEF EpsilonClosure
<1>1. b.states \subseteq State /\ InitState \in b.states
      BY <1>0, MachinesAssumption DEF PureEpsilon
<1>2. ASSUME NEW u \in State, NEW c \in Char, NEW t \in m.trig[u][c]  PROVE t \in b.states
  <2>1. t \in State  BY <1>m
  <2>2. t \notin PureEpsilon(m)  BY <2>1 DEF PureEpsilon
  <2>3. QED  BY <2>1, <2>2, <1>0
<1>3. ASSUME NEW s \in State, NEW c \in Char
      PROVE  UNION {m.trig[t][c] : t \in EpsilonClosure(m.eps, s)} \subseteq b.states
      BY <1>2, <1>c
<1>4. b.trig \in [State -> [Char -> SUBSET b.states]]  BY <1>0, <1>3
<1>5. ASSUME NEW s \in State
      PROVE  UNION {m.entry[t] : t \in EpsilonClosure(m.eps, s)} \subseteq Entry
      BY <1>m, <1>c
<1>6. b.entry \in [State -> SUBSET Entry]  BY <1>0, <1>5
<1>7. QED  BY <1>1, <1>4, <1>6

LEMMA InitOK == Init => IInv
<1> SUFFICES ASSUME Init  PROVE IInv
    OBVIOUS
<1>1. /\ nfa \in Machine /\ states = {} /\ worklist = {} /\ phase = "epsilon"
      /\ tm = [X \in {} |-> {}] /\ entry = [X \in {} |-> {}]
      BY MachinesAssumption DEF Init
<1>2. TypeOK  BY <1>1 DEF TypeOK, Name
<1>3. QED  BY <1>1, <1>2
           DEF IInv, Begun, StandsForItsStates, TreatedUnambiguous, DeterministicWhenDone

LEMMA CombineOK ==
    ASSUME IInv, CombineEpsilonClosures
    PROVE  IInv'
<1>0. /\ phase = "epsilon" /\ phase' = "subsets" /\ nfa' = nfa /\ nfa \in Machine
      /\ base' = CombinedClosures(nfa)
      /\ states' = {{s} : s \in base'.states}
      /\ tm' = [X \in states' |-> [c \in Char |->
                  {{t} : t \in UNION {base'.trig[s][c] : s \in X}}]]
      /\ entry' = [X \in states' |-> UNION {base'.entry[s] : s \in X}]
      /\ worklist' = states'
      BY DEF CombineEpsilonClosures, IInv
<1>1. BaseOK'
  <2>1. /\ base'.states \subseteq State /\ InitState \in base'.states
        /\ base'.trig \in [State -> [Char -> SUBSET base'.states]]
        /\ base'.entry \in [State -> SUBSET Entry]
        BY <1>0, CombinedIsOK
  <2>2. QED  BY <2>1 DEF BaseOK
<1>2. NamesOK'  BY <1>0 DEF NamesOK
<1>s. \A X \in states' : X \in Name /\ X \subseteq base'.states /\ X \subseteq State
      BY <1>0, <1>1 DEF BaseOK, Name
<1>3. ASSUME NEW X \in states', NEW c \in Char
      PROVE  /\ tm'[X][c] = {{t} : t \in UNION {base'.trig[s][c] : s \in X}}
             /\ tm'[X][c] \subseteq states'
             /\ UNION tm'[X][c] = LeadsTo(base', X, c)
  <2>1. tm'[X][c] = {{t} : t \in UNION {base'.trig[s][c] : s \in X}}  BY <1>0
  <2>2. UNION {base'.trig[s][c] : s \in X} \subseteq base'.states  BY <1>1, <1>s DEF BaseOK
  <2>3. tm'[X][c] \subseteq states'  BY <2>1, <2>2, <1>0
  <2> DEFINE U == UNION {base'.trig[s][c] : s \in X}
  <2>4. UNION {{t} : t \in U} = U
    <3> HIDE DEF U
    <3>1. QED  OBVIOUS
  <2>5. QED  BY <2>1, <2>3, <2>4 DEF LeadsTo
<1>4. tm' \in [states' -> [Char -> SUBSET states']]
  <2>1. \A X \in states' : tm'[X] = [c \in Char |->
                  {{t} : t \in UNION {base'.trig[s][c] : s \in X}}]
        BY <1>0
  <2>2. \A X \in states' : tm'[X] \in [Char -> SUBSET states']  BY <2>1, <1>3
  <2>3. QED  BY <2>2, <1>0
<1>5. entry' \in [states' -> SUBSET Entry]
  <2>1. \A X \in states' : UNION {base'.entry[s] : s \in X} \subseteq Entry
        BY <1>1, <1>s DEF BaseOK
  <2>2. QED  BY <2>1, <1>0
<1>6. TypeOK'  BY <1>0, <1>1, <1>4, <1>5, <1>s DEF TypeOK, BaseOK
<1>7. StandsForItsStates'  BY <1>0, <1>3 DEF StandsForItsStates, EntriesOf
<1>8. QED  BY <1>0, <1>1, <1>2, <1>6, <1>7
           DEF IInv, Begun, TreatedUnambiguous, DeterministicWhenDone

-----------------------------------------------------------------------------
(***************************************************************************)
(* Treating one state.                                                     *)
(***************************************************************************)
LEMMA ProcessOK ==
    ASSUME IInv, NEW X \in worklist, Process(X)
    PROVE  IInv'
<1> DEFINE new == Originated(tm[X]) \ states
<1>i. /\ nfa \in Machine /\ TypeOK /\ BaseOK /\ NamesOK /\ StandsForItsStates
      /\ TreatedUnambiguous /\ phase = "subsets" /\ phase' = "subsets"
      /\ UNCHANGED <<nfa, base>>
      BY DEF IInv, Begun, Process
<1>t. /\ states \subseteq Name /\ worklist \subseteq states /\ X \in states
      /\ tm \in [states -> [Char -> SUBSET states]] /\ entry \in [states -> SUBSET Entry]
      /\ {InitState} \in states
      BY <1>i DEF TypeOK
<1>1. CASE Unambiguous(tm[X])
  <2>1. worklist' = worklist \ {X} /\ UNCHANGED <<states, tm, entry>>
        BY <1>1 DEF Process
  <2>w. worklist' \subseteq states'  BY <2>1, <1>t
  <2>a. TypeOK'  BY <2>1, <2>w, <1>i DEF TypeOK
  <2>b. NamesOK' /\ BaseOK'  BY <2>1, <1>i DEF NamesOK, BaseOK
  <2>c. StandsForItsStates'  BY <2>1, <1>i DEF StandsForItsStates
  <2>2. TypeOK' /\ NamesOK' /\ BaseOK' /\ StandsForItsStates'  BY <2>a, <2>b, <2>c
  <2>3. TreatedUnambiguous'  BY <2>1, <1>1, <1>i DEF TreatedUnambiguous, Unambiguous
  <2>4. QED  BY <2>2, <2>3, <1>i DEF IInv, Begun, DeterministicWhenDone
<1>2. CASE ~Unambiguous(tm[X])
  <2>1. /\ states' = states \cup new /\ worklist' = (worklist \ {X}) \cup new
        /\ tm' = [Y \in states' |-> IF Y = X THEN Determined(tm[X])
                                    ELSE IF Y \in states THEN tm[Y] ELSE ClosureMap(Y)]
        /\ entry' = [Y \in states' |-> IF Y \in states THEN entry[Y] ELSE ClosureEntry(Y)]
        BY <1>2 DEF Process
  <2>n. ASSUME NEW Y \in new
        PROVE  Y \in Name /\ Y \subseteq base.states
    <3>1. PICK c \in Char : tm[X][c] # {} /\ Y = UNION tm[X][c]  BY DEF Originated
    <3>2. tm[X][c] \subseteq states  BY <1>t
    <3>3. \A T \in tm[X][c] : T \subseteq base.states /\ T # {}
          BY <3>2, <1>t, <1>i DEF NamesOK, Name
    <3>4. Y \subseteq base.states /\ Y # {}  BY <3>1, <3>3
    <3>5. QED  BY <3>4, <1>i DEF BaseOK, Name
  <2>o. ASSUME NEW Y \in new, NEW o \in Y  PROVE {o} \in states
        BY <2>n, <1>i DEF NamesOK
  <2>m. \A Y \in states' : tm'[Y] = IF Y = X THEN Determined(tm[X])
                                    ELSE IF Y \in states THEN tm[Y] ELSE ClosureMap(Y)
        BY <2>1
  <2>2. ASSUME NEW c \in Char
        PROVE  /\ Determined(tm[X])[c] \subseteq states'
               /\ UNION Determined(tm[X])[c] = UNION tm[X][c]
    <3>1. Determined(tm[X])[c] = IF tm[X][c] = {} THEN {} ELSE {UNION tm[X][c]}
          BY DEF Determined
    <3>2. CASE tm[X][c] = {}  BY <3>1, <3>2
    <3>3. CASE tm[X][c] # {}
      <4>1. UNION tm[X][c] \in Originated(tm[X])  BY <3>3 DEF Originated
      <4>2. QED  BY <3>1, <3>3, <4>1, <2>1
    <3>4. QED  BY <3>2, <3>3
  <2>3. ASSUME NEW Y \in new, NEW c \in Char
        PROVE  /\ ClosureMap(Y)[c] \subseteq states
               /\ UNION ClosureMap(Y)[c] = LeadsTo(base, Y, c)
    <3>1. ClosureMap(Y)[c] = UNION {tm[{o}][c] : o \in Y}  BY DEF ClosureMap
    <3>0. \A o \in Y : tm[{o}][c] \subseteq states  BY <2>o, <1>t
    <3>2. ClosureMap(Y)[c] \subseteq states  BY <3>1, <3>0
    <3>3. ASSUME NEW o \in Y  PROVE UNION tm[{o}][c] = base.trig[o][c]
      <4>1. UNION tm[{o}][c] = LeadsTo(base, {o}, c)
            BY <2>o, <3>3, <1>i DEF StandsForItsStates
      <4>2. QED  BY <4>1 DEF LeadsTo
    <3>4. UNION ClosureMap(Y)[c] = LeadsTo(base, Y, c)
      <4>1. ASSUME NEW t \in UNION ClosureMap(Y)[c]
            PROVE  t \in UNION {base.trig[s][c] : s \in Y}
        <5>1. PICK o \in Y : \E T \in tm[{o}][c] : t \in T  BY <3>1
        <5>2. t \in UNION tm[{o}][c]  BY <5>1
        <5>3. QED  BY <5>2, <3>3
      <4>2. ASSUME NEW t \in UNION {base.trig[s][c] : s \in Y}
            PROVE  t \in UNION ClosureMap(Y)[c]
        <5>1. PICK o \in Y : t \in base.trig[o][c]  OBVIOUS
        <5>2. PICK T \in tm[{o}][c] : t \in T  BY <5>1, <3>3
        <5>3. T \in ClosureMap(Y)[c]  BY <5>2, <3>1
        <5>4. QED  BY <5>2, <5>3
      <4>3. QED  BY <4>1, <4>2 DEF LeadsTo
    <3>5. QED  BY <3>2, <3>4
  <2>4. ASSUME NEW Y \in states', NEW c \in Char
        PROVE  /\ tm'[Y][c] \subseteq states'
               /\ UNION tm'[Y][c] = LeadsTo(base, Y, c)
    <3>1. CASE Y = X
      <4>1. tm'[Y][c] = Determined(tm[X])[c]  BY <3>1, <2>m
      <4>2. UNION tm[X][c] = LeadsTo(base, X, c)
            BY <1>t, <1>i DEF StandsForItsStates
      <4>3. QED  BY <4>1, <4>2, <2>2, <3>1
    <3>2. CASE Y # X /\ Y \in states
      <4>1. tm'[Y] = tm[Y]  BY <3>2, <2>m
      <4>2. tm[Y][c] \subseteq states  BY <3>2, <1>t
      <4>3. UNION tm[Y][c] = LeadsTo(base, Y, c)
            BY <3>2, <1>i DEF StandsForItsStates
      <4>4. QED  BY <4>1, <4>2, <4>3, <2>1
    <3>3. CASE Y \notin states
      <4>1. Y \in new /\ tm'[Y] = ClosureMap(Y)  BY <3>3, <2>m, <2>1, <1>t
      <4>2. QED  BY <4>1, <2>3, <2>1
    <3>4. QED  BY <3>1, <3>2, <3>3
  <2>5. ASSUME NEW Y \in states'
        PROVE  entry'[Y] \subseteq Entry /\ entry'[Y] = EntriesOf(base, Y)
    <3>1. CASE Y \in states
      <4>1. entry'[Y] = entry[Y]  BY <3>1, <2>1
      <4>2. QED  BY <4>1, <3>1, <1>t, <1>i DEF StandsForItsStates
    <3>2. CASE Y \notin states
      <4>1. Y \in new /\ entry'[Y] = UNION {entry[{o}] : o \in Y}
            BY <3>2, <2>1 DEF ClosureEntry
      <4>2. ASSUME NEW o \in Y  PROVE entry[{o}] = base.entry[o] /\ entry[{o}] \subseteq Entry
        <5>1. {o} \in states  BY <4>1, <4>2, <2>o
        <5>2. entry[{o}] = EntriesOf(base, {o})  BY <5>1, <1>i DEF StandsForItsStates
        <5>3. UNION {base.entry[s] : s \in {o}} = base.entry[o]  OBVIOUS
        <5>4. entry[{o}] \subseteq Entry  BY <5>1, <1>t
        <5>5. QED  BY <5>2, <5>3, <5>4 DEF EntriesOf
      <4>3. {entry[{o}] : o \in Y} = {base.entry[s] : s \in Y}  BY <4>2
      <4>4. UNION {entry[{o}] : o \in Y} \subseteq Entry  BY <4>2
      <4>5. QED  BY <4>1, <4>3, <4>4 DEF EntriesOf
    <3>3. QED  BY <3>1, <3>2
  <2>6. StandsForItsStates'
    <3>1. base' = base  BY <1>i
    <3>2. QED  BY <2>4, <2>5, <3>1 DEF StandsForItsStates
  <2>7. tm' \in [states' -> [Char -> SUBSET states']]
    <3>1. ASSUME NEW Y \in states'  PROVE tm'[Y] \in [Char -> SUBSET states']
      <4>1. tm'[Y] = [c \in Char |-> tm'[Y][c]]
            BY <2>m, <1>t DEF Determined, ClosureMap
      <4>2. QED  BY <4>1, <2>4
    <3>2. tm' = [Y \in states' |-> tm'[Y]]  BY <2>1
    <3>3. QED  BY <3>1, <3>2
  <2>8. entry' \in [states' -> SUBSET Entry]
    <3>1. entry' = [Y \in states' |-> entry'[Y]]  BY <2>1
    <3>2. QED  BY <3>1, <2>5
  <2>9. TypeOK'
    <3>1. states' \subseteq Name /\ worklist' \subseteq states' /\ {InitState} \in states'
          BY <2>1, <2>n, <1>t
    <3>2. QED  BY <3>1, <2>7, <2>8, <1>i DEF TypeOK
  <2>10. NamesOK' /\ BaseOK'  BY <2>1, <2>n, <1>i DEF NamesOK, BaseOK
  <2>11. TreatedUnambiguous'
    <3> SUFFICES ASSUME NEW Y \in states', Y \notin worklist'  PROVE Unambiguous(tm'[Y])
        BY DEF TreatedUnambiguous
    <3>1. CASE Y = X  BY <3>1, <2>m DEF Determined, Unambiguous
    <3>2. CASE Y # X
      <4>1. Y \in states /\ Y \notin worklist  BY <3>2, <2>1
      <4>2. tm'[Y] = tm[Y]  BY <4>1, <3>2, <2>m
      <4>3. QED  BY <4>1, <4>2, <1>i DEF TreatedUnambiguous
    <3>3. QED  BY <3>1, <3>2
  <2>12. QED  BY <2>6, <2>9, <2>10, <2>11, <1>i DEF IInv, Begun, DeterministicWhenDone
<1>3. QED  BY <1>1, <1>2

-----------------------------------------------------------------------------
(***************************************************************************)
(* Orphans.                                                                *)
(***************************************************************************)
LEMMA RemoveOK ==
    ASSUME IInv, RemoveOrphanedStates
    PROVE  IInv'
<1>0. /\ phase = "subsets" /\ phase' = "done" /\ worklist = {} /\ worklist' = {}
      /\ states' = ConnectedStates /\ nfa' = nfa /\ base' = base
      /\ tm' = [X \in states' |-> tm[X]] /\ entry' = [X \in states' |-> entry[X]]
      BY DEF RemoveOrphanedStates
<1>i. /\ nfa \in Machine /\ TypeOK /\ BaseOK /\ NamesOK /\ StandsForItsStates
      /\ TreatedUnambiguous
      BY <1>0 DEF IInv, Begun
<1>t. /\ states \subseteq Name /\ {InitState} \in states
      /\ tm \in [states -> [Char -> SUBSET states]] /\ entry \in [states -> SUBSET Entry]
      BY <1>0, <1>i DEF TypeOK
<1>1. states' \subseteq states /\ {InitState} \in states'
      BY <1>0, <1>t DEF ConnectedStates, Connected
<1>m. /\ \A X \in states' : tm'[X] = tm[X] /\ entry'[X] = entry[X]
      BY <1>0
<1>2. ASSUME NEW X \in states', NEW T \in Targets(X)  PROVE T \in states'
  <2>1. PICK c \in Char : T \in tm[X][c]  BY DEF Targets
  <2>2. T \in states  BY <2>1, <1>1, <1>t
  <2>3. ASSUME NEW S \in SUBSET states, Connected(S)  PROVE T \in S
    <3>1. X \in S  BY <2>3, <1>0 DEF ConnectedStates
    <3>2. QED  BY <3>1, <2>3 DEF Connected
  <2>4. QED  BY <2>2, <2>3, <1>0 DEF ConnectedStates
<1>3. ASSUME NEW X \in states', NEW c \in Char  PROVE tm[X][c] \subseteq states'
      BY <1>2 DEF Targets
<1>4. tm' \in [states' -> [Char -> SUBSET states']]
  <2>1. \A X \in states' : tm[X] \in [Char -> SUBSET states]  BY <1>1, <1>t
  <2>2. \A X \in states' : tm[X] \in [Char -> SUBSET states']  BY <2>1, <1>3
  <2>3. QED  BY <2>2, <1>0
<1>5. entry' \in [states' -> SUBSET Entry]
  <2>1. \A X \in states' : entry[X] \in SUBSET Entry  BY <1>1, <1>t
  <2>2. QED  BY <2>1, <1>0
<1>6. TypeOK'  BY <1>0, <1>1, <1>4, <1>5, <1>t DEF TypeOK
<1>7. NamesOK' /\ BaseOK'  BY <1>0, <1>1, <1>i DEF NamesOK, BaseOK
<1>8. StandsForItsStates'  BY <1>0, <1>1, <1>m, <1>i DEF StandsForItsStates
<1>9. TreatedUnambiguous'
      BY <1>0, <1>1, <1>m, <1>i DEF TreatedUnambiguous, Unambiguous
<1>10. DeterministicWhenDone'
  <2>1. \A X \in states' : Unambiguous(tm'[X])  BY <1>9, <1>0 DEF TreatedUnambiguous
  <2>2. ASSUME NEW S \in SUBSET states', Connected(S)'  PROVE S = states'
    <3>1. {InitState} \in S /\ \A X \in S : Targets(X)' \subseteq S  BY <2>2 DEF Connected
    <3>2. \A X \in S : Targets(X)' = Targets(X)  BY <1>m DEF Targets
    <3>3. Connected(S)  BY <3>1, <3>2 DEF Connected
    <3>4. S \in SUBSET states  BY <1>1
    <3>5. states' \subseteq S  BY <3>3, <3>4, <1>0 DEF ConnectedStates
    <3>6. QED  BY <3>5
  <2>3. QED  BY <2>1, <2>2 DEF DeterministicWhenDone
<1>11. QED  BY <1>0, <1>6, <1>7, <1>8, <1>9, <1>10, <1>i DEF IInv, Begun

LEMMA NextOK == IInv /\ [Next]_vars => IInv'
<1> SUFFICES ASSUME IInv, [Next]_vars  PROVE IInv'
    OBVIOUS
<1>1. CASE CombineEpsilonClosures  BY <1>1, CombineOK
<1>2. CASE \E X \in worklist : Process(X)  BY <1>2, ProcessOK
<1>3. CASE RemoveOrphanedStates  BY <1>3, RemoveOK
<1>4. CASE UNCHANGED vars
  <2>1. /\ nfa' = nfa /\ base' = base /\ states' = states /\ tm' = tm /\ entry' = entry
        /\ worklist' = worklist /\ phase' = phase
        BY <1>4 DEF vars
  <2>2. TypeOK' /\ Begun'  BY <2>1 DEF IInv, TypeOK, Begun, BaseOK, NamesOK
  <2>3. StandsForItsStates' /\ TreatedUnambiguous'
        BY <2>1 DEF IInv, StandsForItsStates, TreatedUnambiguous
  <2>4. DeterministicWhenDone'
    <3>1. \A S : Connected(S)' <=> Connected(S)  BY <2>1 DEF Connected, Targets
    <3>2. QED  BY <2>1, <3>1 DEF IInv, DeterministicWhenDone
  <2>5. QED  BY <2>1, <2>2, <2>3, <2>4 DEF IInv
<1>5. QED  BY <1>1, <1>2, <1>3, <1>4 DEF Next

-----------------------------------------------------------------------------
LEMMA Invariant == Spec => []IInv
BY InitOK, NextOK, PTL DEF Spec

(* No transition ever leads to a state that was deleted, in whatever order  *)
(* the worklist is treated.                                                 *)
THEOREM TypeCorrect == Spec => []TypeOK
<1>1. IInv => TypeOK  BY DEF IInv
<1>2. QED  BY <1>1, Invariant, PTL

(* A state that was created leads, for every machine and at every moment, to*)
(* the states to which the states of its closure lead: the machine accepts  *)
(* the same words all the time.                                             *)
THEOREM StatesStand == Spec => []StandsForItsStates
<1>1. IInv => StandsForItsStates  BY DEF IInv
<1>2. QED  BY <1>1, Invariant, PTL

(* The result is deterministic and has no orphans.                          *)
THEOREM EndsDeterministic == Spec => []DeterministicWhenDone
<1>1. IInv => DeterministicWhenDone  BY DEF IInv
<1>2. QED  BY <1>1, Invariant, PTL

-----------------------------------------------------------------------------
(***************************************************************************)
(* The determined machine accepts what was given.  What a recursive        *)
(* definition says of n is shown by the least n of which it would not hold.*)
(***************************************************************************)

(* A set of numbers that is not empty has a least member.                   *)
LEMMA LeastNumber ==
    ASSUME NEW T, T \subseteq Nat, T # {}
    PROVE  \E x \in T : \A y \in T : x <= y
<1> DEFINE R == OpToRel(<, Nat)
<1>1. IsWellFoundedOn(R, Nat)  BY NatLessThanWellFounded
<1>2. \A x, y \in Nat : <<y, x>> \in R <=> y < x  BY DEF OpToRel
<1> HIDE DEF R
<1>3. \E x \in T : \A y \in T : ~ (<<y, x>> \in R)  BY <1>1, WFMin
<1>4. PICK x \in T : \A y \in T : ~ (<<y, x>> \in R)  BY <1>3
<1>5. \A y \in T : ~ (y < x)  BY <1>4, <1>2
<1>6. \A y \in T : x <= y  BY <1>5
<1>7. QED  BY <1>6

(* What holds of 0, and of n + 1 when it holds of n, has no counterexample. *)
LEMMA NoCounterexample ==
    ASSUME NEW T \in SUBSET Nat, 0 \notin T, \A n \in Nat : n + 1 \in T => n \in T
    PROVE  T = {}
<1>1. SUFFICES ASSUME T # {}  PROVE FALSE
      OBVIOUS
<1>2. PICK m \in T : \A n \in T : m <= n  BY <1>1, LeastNumber
<1>3. m \in Nat /\ m # 0  OBVIOUS
<1>4. m - 1 \in Nat /\ (m - 1) + 1 = m /\ ~ (m <= m - 1)  BY <1>3
<1>5. m - 1 \in T  BY <1>4
<1>6. QED  BY <1>2, <1>4, <1>5

(* g goes k steps with F from the value at the begin.                       *)
Goes(F, begin, k, g) ==
    g = [n \in 0..k |-> IF n = 0 THEN begin ELSE F[n][g[n - 1]]]

LEMMA SomethingGoes ==
    ASSUME NEW U, NEW F \in [Nat -> [U -> U]], NEW begin \in U, NEW k \in Nat
    PROVE  \E g \in [0..k -> U] : Goes(F, begin, k, g)
<1> DEFINE Without == {n \in Nat : ~ \E g \in [0..n -> U] : Goes(F, begin, n, g)}
<1>1. 0 \notin Without
  <2> DEFINE g == [n \in 0..0 |-> begin]
  <2>1. g \in [0..0 -> U] /\ Goes(F, begin, 0, g)  BY DEF Goes
  <2>2. QED  BY <2>1
<1>2. ASSUME NEW m \in Nat, m \notin Without  PROVE m + 1 \notin Without
  <2>1. PICK h \in [0..m -> U] : Goes(F, begin, m, h)  BY <1>2
  <2>2. ASSUME NEW n \in 0..m
        PROVE  h[n] = IF n = 0 THEN begin ELSE F[n][h[n - 1]]
        BY <2>1 DEF Goes
  <2> DEFINE g == [n \in 0..(m + 1) |-> IF n <= m THEN h[n] ELSE F[m + 1][h[m]]]
             f == [n \in 0..(m + 1) |-> IF n = 0 THEN begin ELSE F[n][g[n - 1]]]
  <2>3. h[m] \in U /\ F[m + 1][h[m]] \in U  OBVIOUS
  <2>4. g \in [0..(m + 1) -> U]  BY <2>3
  <2>5. ASSUME NEW n \in 0..(m + 1)  PROVE g[n] = f[n]
    <3>0. n \in Nat /\ m \in Nat /\ n <= m + 1  OBVIOUS
    <3>1. CASE n <= m
      <4>1. n \in 0..m  BY <3>0, <3>1
      <4>2. g[n] = h[n]  BY <3>1
      <4>3. n # 0 => g[n - 1] = h[n - 1]  BY <3>0, <3>1
      <4>4. f[n] = IF n = 0 THEN begin ELSE F[n][g[n - 1]]  OBVIOUS
      <4> HIDE DEF f, g
      <4>5. QED  BY <4>1, <4>2, <4>3, <4>4, <2>2
    <3>2. CASE n = m + 1
      <4>1. g[m + 1] = F[m + 1][h[m]]  BY <3>0
      <4>2. g[m] = h[m]  BY <3>0
      <4>3. f[n] = IF n = 0 THEN begin ELSE F[n][g[n - 1]]  OBVIOUS
      <4>4. n - 1 = m /\ n # 0  BY <3>0, <3>2
      <4> HIDE DEF f, g
      <4>5. QED  BY <4>1, <4>2, <4>3, <4>4, <3>2
    <3>3. QED  BY <3>0, <3>1, <3>2
  <2>6. g = f
    <3>1. DOMAIN g = 0..(m + 1) /\ DOMAIN f = 0..(m + 1)  OBVIOUS
    <3>2. g = [n \in 0..(m + 1) |-> g[n]] /\ f = [n \in 0..(m + 1) |-> f[n]]  OBVIOUS
    <3> HIDE DEF g, f
    <3>3. QED  BY <3>1, <3>2, <2>5
  <2>7. Goes(F, begin, m + 1, g)  BY <2>6 DEF Goes
  <2> HIDE DEF g
  <2>8. QED  BY <2>4, <2>7
<1> HIDE DEF Without
<1>3. Without \in SUBSET Nat  BY DEF Without
<1>4. Without = {}  BY <1>1, <1>2, <1>3, NoCounterexample
<1>5. QED  BY <1>4 DEF Without

-----------------------------------------------------------------------------
(* One more epsilon transition.                                             *)
Onward(S) == S \cup UNION {nfa.eps[s] : s \in S}

LEMMA OnwardTyped ==
    ASSUME nfa \in Machine, NEW S \in SUBSET State
    PROVE  Onward(S) \in SUBSET State /\ S \subseteq Onward(S)
BY DEF Machine, Onward

(* Closure(S) is where as many epsilon transitions lead as there are states.*)
LEMMA ClosureGoes ==
    ASSUME nfa \in Machine, NEW S \in SUBSET State
    PROVE  LET N == Cardinality(State)
           IN  /\ N \in Nat
               /\ \E g \in [0..N -> SUBSET State] :
                     /\ Closure(S) = g[N] /\ g[0] = S
                     /\ \A n \in 0..(N - 1) : g[n + 1] = Onward(g[n])
<1> DEFINE N == Cardinality(State)
           U == SUBSET State
           F == [n \in Nat |-> [X \in U |-> Onward(X)]]
           Body(g) == [n \in 0..N |->
                         IF n = 0 THEN S ELSE g[n - 1] \cup UNION {nfa.eps[s] : s \in g[n - 1]}]
           reach == CHOOSE g : g = Body(g)
<1>1. N \in Nat  BY MachinesAssumption, FS_CardinalityType
<1>2. Closure(S) = reach[N]  BY DEF Closure
<1>3. F \in [Nat -> [U -> U]]  BY OnwardTyped
<1>4. \A n \in Nat, X \in U : F[n][X] = Onward(X)  OBVIOUS
<1> HIDE DEF F, N
<1>5. PICK h \in [0..N -> U] : Goes(F, S, N, h)  BY <1>1, <1>3, SomethingGoes
<1>6. ASSUME NEW n \in 0..N
      PROVE  h[n] = IF n = 0 THEN S ELSE Onward(h[n - 1])
  <2>1. h[n] = IF n = 0 THEN S ELSE F[n][h[n - 1]]  BY <1>5 DEF Goes
  <2>2. n # 0 => n - 1 \in 0..N /\ n \in Nat  BY <1>1
  <2>3. QED  BY <2>1, <2>2, <1>4
<1>7. h = Body(h)
  <2>1. h = [n \in 0..N |-> h[n]]  OBVIOUS
  <2>2. \A n \in 0..N : h[n] = Body(h)[n]  BY <1>6 DEF Onward
  <2>3. Body(h) = [n \in 0..N |-> Body(h)[n]]  OBVIOUS
  <2> HIDE DEF Body
  <2>4. QED  BY <2>1, <2>2, <2>3
<1>8. reach = Body(reach)  BY <1>7
<1> HIDE DEF reach
<1>9. ASSUME NEW n \in 0..N
      PROVE  reach[n] = IF n = 0 THEN S ELSE Onward(reach[n - 1])
      BY <1>8 DEF Onward
<1> DEFINE Astray == {n \in 0..N : reach[n] \notin U}
<1>10. Astray = {}
  <2>1. Astray \in SUBSET Nat /\ 0 \notin Astray  BY <1>1, <1>9
  <2>2. ASSUME NEW n \in Nat, n + 1 \in Astray  PROVE n \in Astray
    <3>1. n + 1 \in 0..N /\ n \in 0..N /\ n + 1 # 0 /\ (n + 1) - 1 = n  BY <1>1, <2>2
    <3>2. reach[n + 1] = Onward(reach[n])  BY <3>1, <1>9
    <3>3. reach[n] \in U => Onward(reach[n]) \in U  BY OnwardTyped
    <3>4. QED  BY <2>2, <3>1, <3>2, <3>3
  <2> HIDE DEF Astray
  <2>3. QED  BY <2>1, <2>2, NoCounterexample
<1>11. reach \in [0..N -> U]
  <2>1. DOMAIN reach = 0..N /\ reach = [n \in 0..N |-> reach[n]]  BY <1>8
  <2>2. QED  BY <2>1, <1>10
<1>12. reach[0] = S  BY <1>1, <1>9
<1>13. ASSUME NEW n \in 0..(N - 1)  PROVE reach[n + 1] = Onward(reach[n])
  <2>1. n + 1 \in 0..N /\ n + 1 # 0 /\ (n + 1) - 1 = n  BY <1>1
  <2>2. QED  BY <2>1, <1>9
<1>14. QED  BY <1>1, <1>2, <1>11, <1>12, <1>13 DEF N

(* As many steps as there are states are enough.                            *)
LEMMA ClosureIsClosed ==
    ASSUME nfa \in Machine, NEW S \in SUBSET State
    PROVE  /\ Closure(S) \in SUBSET State /\ S \subseteq Closure(S)
           /\ ClosedUnder(nfa.eps, Closure(S))
           /\ \A C \in SUBSET State : S \subseteq C /\ ClosedUnder(nfa.eps, C) => Closure(S) \subseteq C
<1> DEFINE N == Cardinality(State)
<1>1. N \in Nat  BY ClosureGoes
<1>2. PICK g \in [0..N -> SUBSET State] :
          /\ Closure(S) = g[N] /\ g[0] = S
          /\ \A n \in 0..(N - 1) : g[n + 1] = Onward(g[n])
      BY ClosureGoes
<1>n. N = Cardinality(State)  OBVIOUS
<1> HIDE DEF N
<1>3. \A n \in 0..(N - 1) : n \in 0..N /\ n + 1 \in 0..N  BY <1>1
<1>4. \A C \in SUBSET State : S \subseteq C /\ ClosedUnder(nfa.eps, C) => g[N] \subseteq C
  <2> SUFFICES ASSUME NEW C \in SUBSET State, S \subseteq C, ClosedUnder(nfa.eps, C)
               PROVE  g[N] \subseteq C
      OBVIOUS
  <2> DEFINE T == {n \in 0..N : ~ (g[n] \subseteq C)}
  <2>1. T \in SUBSET Nat /\ 0 \notin T  BY <1>1, <1>2
  <2>2. ASSUME NEW n \in Nat, n + 1 \in T  PROVE n \in T
    <3>1. n \in 0..(N - 1)  BY <1>1, <2>2
    <3>2. g[n + 1] = Onward(g[n])  BY <3>1, <1>2
    <3>3. g[n] \subseteq C => Onward(g[n]) \subseteq C  BY DEF Onward, ClosedUnder
    <3>4. QED  BY <2>2, <3>1, <3>2, <3>3, <1>3
  <2>3. T = {}
    <3> HIDE DEF T
    <3>1. QED  BY <2>1, <2>2, NoCounterexample
  <2>4. N \in 0..N  BY <1>1
  <2>5. QED  BY <2>3, <2>4
<1>5. S \subseteq g[N]
  <2> DEFINE T == {n \in 0..N : ~ (S \subseteq g[n])}
  <2>1. T \in SUBSET Nat /\ 0 \notin T  BY <1>1, <1>2
  <2>2. ASSUME NEW n \in Nat, n + 1 \in T  PROVE n \in T
    <3>1. n \in 0..(N - 1)  BY <1>1, <2>2
    <3>2. g[n + 1] = Onward(g[n])  BY <3>1, <1>2
    <3>3. QED  BY <2>2, <3>1, <3>2, <1>3 DEF Onward
  <2>3. T = {}
    <3> HIDE DEF T
    <3>1. QED  BY <2>1, <2>2, NoCounterexample
  <2>4. N \in 0..N  BY <1>1
  <2>5. QED  BY <2>3, <2>4
<1>6. Onward(g[N]) = g[N]
  <2> SUFFICES ASSUME Onward(g[N]) # g[N]  PROVE FALSE
      OBVIOUS
  <2>1. \A n \in 0..N : Onward(g[n]) # g[n]
    <3> DEFINE T == {n \in 0..N : Onward(g[N - n]) = g[N - n]}
    <3>1. T \in SUBSET Nat /\ 0 \notin T  BY <1>1
    <3>2. ASSUME NEW n \in Nat, n + 1 \in T  PROVE n \in T
      <4>1. n + 1 \in 0..N /\ n \in 0..N /\ N - (n + 1) \in 0..(N - 1)
            /\ (N - (n + 1)) + 1 = N - n
            BY <1>1, <3>2
      <4>2. g[N - n] = Onward(g[N - (n + 1)])  BY <4>1, <1>2
      <4>3. QED  BY <3>2, <4>1, <4>2
    <3>3. T = {}
      <4> HIDE DEF T
      <4>1. QED  BY <3>1, <3>2, NoCounterexample
    <3>4. ASSUME NEW n \in 0..N  PROVE N - n \in 0..N /\ N - (N - n) = n  BY <1>1
    <3>5. \A n \in 0..N : ~ (Onward(g[N - (N - n)]) = g[N - (N - n)])  BY <3>3, <3>4
    <3>6. QED  BY <3>4, <3>5
  <2>2. \A n \in 0..N : IsFiniteSet(g[n]) /\ Cardinality(g[n]) \in Nat
        BY MachinesAssumption, FS_Subset, FS_CardinalityType
  <2>3. Cardinality(g[N]) >= N
    <3> DEFINE T == {n \in 0..N : ~ (Cardinality(g[n]) >= n)}
    <3>1. T \in SUBSET Nat  BY <1>1
    <3>2. 0 \notin T  BY <1>1, <2>2
    <3>3. ASSUME NEW n \in Nat, n + 1 \in T  PROVE n \in T
      <4>1. n \in 0..(N - 1) /\ n \in 0..N /\ n + 1 \in 0..N  BY <1>1, <3>3
      <4>2. g[n + 1] = Onward(g[n]) /\ Onward(g[n]) # g[n]  BY <4>1, <1>2, <2>1
      <4>3. g[n] \subseteq g[n + 1] /\ g[n] # g[n + 1]  BY <4>2 DEF Onward
      <4>4. Cardinality(g[n]) < Cardinality(g[n + 1])
        <5>1. /\ Cardinality(g[n]) <= Cardinality(g[n + 1])
              /\ Cardinality(g[n]) = Cardinality(g[n + 1]) => g[n] = g[n + 1]
              BY <2>2, <4>1, <4>3, FS_Subset
        <5>2. Cardinality(g[n]) \in Nat /\ Cardinality(g[n + 1]) \in Nat  BY <2>2, <4>1
        <5>3. QED  BY <5>1, <5>2, <4>3
      <4>5. ~ (Cardinality(g[n + 1]) >= n + 1)  BY <3>3
      <4>6. Cardinality(g[n]) \in Nat /\ Cardinality(g[n + 1]) \in Nat  BY <2>2, <4>1
      <4>7. ~ (Cardinality(g[n]) >= n)  BY <4>4, <4>5, <4>6
      <4>8. QED  BY <4>1, <4>7
    <3>4. T = {}
      <4> HIDE DEF T
      <4>1. QED  BY <3>1, <3>2, <3>3, NoCounterexample
    <3>5. N \in 0..N  BY <1>1
    <3>6. QED  BY <3>4, <3>5
  <2>4. N \in 0..N /\ g[N] \subseteq State  BY <1>1
  <2>5. g[N] = State
    <3>1. Cardinality(g[N]) <= N /\ (Cardinality(g[N]) = N => g[N] = State)
          BY <2>4, <1>n, MachinesAssumption, FS_Subset
    <3>2. QED  BY <3>1, <2>2, <2>3, <2>4, <1>1
  <2>6. Onward(State) = State  BY OnwardTyped
  <2>7. QED  BY <2>5, <2>6
<1>7. ClosedUnder(nfa.eps, g[N])  BY <1>6 DEF Onward, ClosedUnder
<1>8. N \in 0..N  BY <1>1
<1>9. QED  BY <1>2, <1>4, <1>5, <1>7, <1>8

(* So it is the union of the epsilon closures of its states.                *)
LEMMA ClosureIsUnion ==
    ASSUME nfa \in Machine, NEW S \in SUBSET State
    PROVE  Closure(S) = UNION {EpsilonClosure(nfa.eps, s) : s \in S}
<1> DEFINE E(s) == EpsilonClosure(nfa.eps, s)
           All  == UNION {E(s) : s \in S}
<1>e. nfa.eps \in [State -> SUBSET State]  BY DEF Machine
<1>1. ASSUME NEW s \in State  PROVE s \in E(s) /\ E(s) \subseteq State /\ ClosedUnder(nfa.eps, E(s))
  <2>1. s \in E(s) /\ E(s) \subseteq State  BY DEF EpsilonClosure
  <2>2. ASSUME NEW t \in E(s), NEW u \in nfa.eps[t]  PROVE u \in E(s)
    <3>1. t \in State /\ u \in State  BY <1>e, <2>1, <2>2
    <3>2. ASSUME NEW X \in SUBSET State, s \in X, ClosedUnder(nfa.eps, X)  PROVE u \in X
      <4>1. t \in X  BY <3>2, <2>2 DEF EpsilonClosure
      <4>2. QED  BY <4>1, <3>2, <2>2 DEF ClosedUnder
    <3>3. QED  BY <3>1, <3>2 DEF EpsilonClosure
  <2>3. QED  BY <2>1, <2>2 DEF ClosedUnder
<1>2. All \in SUBSET State /\ S \subseteq All /\ ClosedUnder(nfa.eps, All)
  <2>1. \A s \in S : s \in E(s) /\ E(s) \subseteq State /\ ClosedUnder(nfa.eps, E(s))  BY <1>1
  <2> HIDE DEF E
  <2>2. QED  BY <2>1 DEF ClosedUnder
<1>3. Closure(S) \subseteq All
  <2> HIDE DEF All
  <2>1. QED  BY <1>2, ClosureIsClosed
<1>4. ASSUME NEW s \in S  PROVE E(s) \subseteq Closure(S)
  <2>1. Closure(S) \in SUBSET State /\ s \in Closure(S) /\ ClosedUnder(nfa.eps, Closure(S))
        BY ClosureIsClosed
  <2>2. QED  BY <2>1 DEF EpsilonClosure
<1>5. QED  BY <1>3, <1>4

-----------------------------------------------------------------------------
(* What is reached with a word: in the machine that was given.              *)
LEMMA GivenGoes ==
    ASSUME nfa \in Machine, NEW m \in Nat, NEW w \in [1..m -> Char]
    PROVE  \E g \in [0..m -> SUBSET State] :
              /\ g[0] = Closure({InitState})
              /\ \A n \in 0..(m - 1) :
                    g[n + 1] = Closure(UNION {nfa.trig[s][w[n + 1]] : s \in g[n]})
              /\ EntriesAsGiven(w) = UNION {nfa.entry[s] : s \in g[m]}
<1> DEFINE U == SUBSET State
           Step(X, n) == Closure(UNION {nfa.trig[s][w[n]] : s \in X})
           F == [n \in Nat |-> [X \in U |-> IF n \in 1..m THEN Step(X, n) ELSE X]]
           Body(g) == [n \in 0..Len(w) |->
                         IF n = 0 THEN Closure({InitState})
                         ELSE Closure(UNION {nfa.trig[s][w[n]] : s \in g[n - 1]})]
           at == CHOOSE g : g = Body(g)
<1>0. w \in Seq(Char) /\ Len(w) = m  BY SeqDef, LenProperties
<1>1. EntriesAsGiven(w) = UNION {nfa.entry[s] : s \in at[m]}  BY <1>0 DEF EntriesAsGiven
<1>2. Closure({InitState}) \in U  BY ClosureIsClosed, MachinesAssumption
<1>3. ASSUME NEW X \in U, NEW n \in 1..m  PROVE Step(X, n) \in U
  <2>1. w[n] \in Char  OBVIOUS
  <2>2. UNION {nfa.trig[s][w[n]] : s \in X} \in SUBSET State  BY <2>1 DEF Machine
  <2>3. QED  BY <2>2, ClosureIsClosed
<1>4. F \in [Nat -> [U -> U]]
  <2>1. \A n \in Nat, X \in U : (IF n \in 1..m THEN Step(X, n) ELSE X) \in U  BY <1>3
  <2> HIDE DEF Step
  <2>2. QED  BY <2>1
<1>5. \A n \in 1..m, X \in U : F[n][X] = Step(X, n)  OBVIOUS
<1>s. \A X, n : Step(X, n) = Closure(UNION {nfa.trig[s][w[n]] : s \in X})  OBVIOUS
<1> HIDE DEF F, Step
<1>6. PICK h \in [0..m -> U] : Goes(F, Closure({InitState}), m, h)  BY <1>2, <1>4, SomethingGoes
<1>7. ASSUME NEW n \in 0..m
      PROVE  h[n] = IF n = 0 THEN Closure({InitState}) ELSE Step(h[n - 1], n)
  <2>1. h[n] = IF n = 0 THEN Closure({InitState}) ELSE F[n][h[n - 1]]  BY <1>6 DEF Goes
  <2>2. n # 0 => n - 1 \in 0..m /\ n \in 1..m  OBVIOUS
  <2>3. QED  BY <2>1, <2>2, <1>5
<1>8. h = Body(h)
  <2>1. h = [n \in 0..m |-> h[n]]  OBVIOUS
  <2>2. \A n \in 0..m : h[n] = Body(h)[n]  BY <1>0, <1>7, <1>s
  <2>3. Body(h) = [n \in 0..m |-> Body(h)[n]]  BY <1>0
  <2> HIDE DEF Body
  <2>4. QED  BY <2>1, <2>2, <2>3
<1>9. at = Body(at)  BY <1>8
<1> HIDE DEF at
<1>10. ASSUME NEW n \in 0..m
       PROVE  at[n] = IF n = 0 THEN Closure({InitState}) ELSE Step(at[n - 1], n)
       BY <1>0, <1>9, <1>s
<1>11. DOMAIN at = 0..m /\ at = [n \in 0..m |-> at[n]]  BY <1>0, <1>9
<1> HIDE DEF Body
<1>z. 0 \in 0..m  OBVIOUS
<1>14. at[0] = Closure({InitState})  BY <1>z, <1>10
<1> DEFINE Astray == {n \in 0..m : at[n] \notin U}
<1>12. Astray = {}
  <2>1. Astray \in SUBSET Nat  OBVIOUS
  <2>z. 0 \notin Astray  BY <1>14, <1>2
  <2>2. ASSUME NEW n \in Nat, n + 1 \in Astray  PROVE n \in Astray
    <3>1. n + 1 \in 1..m /\ n + 1 \in 0..m /\ n \in 0..m /\ n + 1 # 0 /\ (n + 1) - 1 = n  BY <2>2
    <3>2. at[n + 1] = Step(at[n], n + 1)  BY <3>1, <1>10
    <3>3. at[n] \in U => Step(at[n], n + 1) \in U  BY <3>1, <1>3
    <3>4. QED  BY <2>2, <3>1, <3>2, <3>3
  <2> HIDE DEF Astray
  <2>3. QED  BY <2>1, <2>z, <2>2, NoCounterexample
<1>13. at \in [0..m -> U]  BY <1>11, <1>12
<1>15. ASSUME NEW n \in 0..(m - 1)
       PROVE  at[n + 1] = Closure(UNION {nfa.trig[s][w[n + 1]] : s \in at[n]})
  <2>1. n + 1 \in 0..m /\ n + 1 # 0 /\ (n + 1) - 1 = n  OBVIOUS
  <2>2. QED  BY <2>1, <1>10, <1>s
<1>16. QED  BY <1>1, <1>13, <1>14, <1>15

(* And in the machine as it is at this moment.                              *)
LEMMA NowGoes ==
    ASSUME TypeOK, phase # "epsilon", NEW m \in Nat, NEW w \in [1..m -> Char]
    PROVE  \E g \in [0..m -> SUBSET states] :
              /\ g[0] = {{InitState}}
              /\ \A n \in 0..(m - 1) : g[n + 1] = UNION {tm[X][w[n + 1]] : X \in g[n]}
              /\ EntriesNow(w) = UNION {entry[X] : X \in g[m]}
<1> DEFINE U == SUBSET states
           Step(S, n) == UNION {tm[X][w[n]] : X \in S}
           F == [n \in Nat |-> [S \in U |-> IF n \in 1..m THEN Step(S, n) ELSE S]]
           Body(g) == [n \in 0..Len(w) |->
                         IF n = 0 THEN {{InitState}} ELSE UNION {tm[X][w[n]] : X \in g[n - 1]}]
           at == CHOOSE g : g = Body(g)
<1>0. w \in Seq(Char) /\ Len(w) = m  BY SeqDef, LenProperties
<1>1. EntriesNow(w) = UNION {entry[X] : X \in at[m]}  BY <1>0 DEF EntriesNow
<1>2. {{InitState}} \in U  BY DEF TypeOK
<1>3. ASSUME NEW S \in U, NEW n \in 1..m  PROVE Step(S, n) \in U
  <2>1. w[n] \in Char  OBVIOUS
  <2>2. QED  BY <2>1 DEF TypeOK
<1>4. F \in [Nat -> [U -> U]]
  <2>1. \A n \in Nat, S \in U : (IF n \in 1..m THEN Step(S, n) ELSE S) \in U  BY <1>3
  <2> HIDE DEF Step
  <2>2. QED  BY <2>1
<1>5. \A n \in 1..m, S \in U : F[n][S] = Step(S, n)  OBVIOUS
<1>s. \A S, n : Step(S, n) = UNION {tm[X][w[n]] : X \in S}  OBVIOUS
<1> HIDE DEF F, Step
<1>6. PICK h \in [0..m -> U] : Goes(F, {{InitState}}, m, h)  BY <1>2, <1>4, SomethingGoes
<1>7. ASSUME NEW n \in 0..m
      PROVE  h[n] = IF n = 0 THEN {{InitState}} ELSE Step(h[n - 1], n)
  <2>1. h[n] = IF n = 0 THEN {{InitState}} ELSE F[n][h[n - 1]]  BY <1>6 DEF Goes
  <2>2. n # 0 => n - 1 \in 0..m /\ n \in 1..m  OBVIOUS
  <2>3. QED  BY <2>1, <2>2, <1>5
<1>8. h = Body(h)
  <2>1. h = [n \in 0..m |-> h[n]]  OBVIOUS
  <2>2. \A n \in 0..m : h[n] = Body(h)[n]  BY <1>0, <1>7, <1>s
  <2>3. Body(h) = [n \in 0..m |-> Body(h)[n]]  BY <1>0
  <2> HIDE DEF Body
  <2>4. QED  BY <2>1, <2>2, <2>3
<1>9. at = Body(at)  BY <1>8
<1> HIDE DEF at
<1>10. ASSUME NEW n \in 0..m
       PROVE  at[n] = IF n = 0 THEN {{InitState}} ELSE Step(at[n - 1], n)
       BY <1>0, <1>9, <1>s
<1>11. DOMAIN at = 0..m /\ at = [n \in 0..m |-> at[n]]  BY <1>0, <1>9
<1> HIDE DEF Body
<1>z. 0 \in 0..m  OBVIOUS
<1>14. at[0] = {{InitState}}  BY <1>z, <1>10
<1> DEFINE Astray == {n \in 0..m : at[n] \notin U}
<1>12. Astray = {}
  <2>1. Astray \in SUBSET Nat  OBVIOUS
  <2>z. 0 \notin Astray  BY <1>14, <1>2
  <2>2. ASSUME NEW n \in Nat, n + 1 \in Astray  PROVE n \in Astray
    <3>1. n + 1 \in 1..m /\ n + 1 \in 0..m /\ n \in 0..m /\ n + 1 # 0 /\ (n + 1) - 1 = n  BY <2>2
    <3>2. at[n + 1] = Step(at[n], n + 1)  BY <3>1, <1>10
    <3>3. at[n] \in U => Step(at[n], n + 1) \in U  BY <3>1, <1>3
    <3>4. QED  BY <2>2, <3>1, <3>2, <3>3
  <2> HIDE DEF Astray
  <2>3. QED  BY <2>1, <2>z, <2>2, NoCounterexample
<1>13. at \in [0..m -> U]  BY <1>11, <1>12
<1>15. ASSUME NEW n \in 0..(m - 1)
       PROVE  at[n + 1] = UNION {tm[X][w[n + 1]] : X \in at[n]}
  <2>1. n + 1 \in 0..m /\ n + 1 # 0 /\ (n + 1) - 1 = n  OBVIOUS
  <2>2. QED  BY <2>1, <1>10, <1>s
<1>16. QED  BY <1>1, <1>13, <1>14, <1>15

-----------------------------------------------------------------------------
(* The machine without epsilon transitions is the one that was given with   *)
(* the closures combined.                                                   *)
BaseCombined == phase # "epsilon" => base = CombinedClosures(nfa)

LEMMA BaseStays == Spec => []BaseCombined
<1>1. Init => BaseCombined  BY DEF Init, BaseCombined
<1>2. BaseCombined /\ [Next]_vars => BaseCombined'
  <2> SUFFICES ASSUME BaseCombined, [Next]_vars  PROVE BaseCombined'
      OBVIOUS
  <2>1. CASE CombineEpsilonClosures  BY <2>1 DEF CombineEpsilonClosures, BaseCombined
  <2>2. CASE \E X \in worklist : Process(X)
    <3>1. nfa' = nfa /\ base' = base /\ phase = "subsets" /\ phase' = "subsets"
          BY <2>2 DEF Process
    <3>2. QED  BY <3>1 DEF BaseCombined
  <2>3. CASE RemoveOrphanedStates
    <3>1. nfa' = nfa /\ base' = base /\ phase = "subsets"  BY <2>3 DEF RemoveOrphanedStates
    <3>2. QED  BY <3>1 DEF BaseCombined
  <2>4. CASE UNCHANGED vars  BY <2>4 DEF vars, BaseCombined
  <2>5. QED  BY <2>1, <2>2, <2>3, <2>4 DEF Next
<1>3. QED  BY <1>1, <1>2, PTL DEF Spec

(* What the closures of some states lead to, and their entries.             *)
LEMMA LeadsAsClosure ==
    ASSUME nfa \in Machine, base = CombinedClosures(nfa), NEW S \in SUBSET State
    PROVE  /\ \A c \in Char :
                 UNION {base.trig[s][c] : s \in S} = UNION {nfa.trig[t][c] : t \in Closure(S)}
           /\ UNION {base.entry[s] : s \in S} = UNION {nfa.entry[t] : t \in Closure(S)}
<1> DEFINE E(s) == EpsilonClosure(nfa.eps, s)
<1>1. ASSUME NEW s \in State
      PROVE  /\ \A c \in Char : base.trig[s][c] = UNION {nfa.trig[t][c] : t \in E(s)}
             /\ base.entry[s] = UNION {nfa.entry[t] : t \in E(s)}
      BY DEF CombinedClosures
<1>2. Closure(S) = UNION {E(s) : s \in S}  BY ClosureIsUnion
<1> HIDE DEF E
<1>3. ASSUME NEW c \in Char
      PROVE  UNION {base.trig[s][c] : s \in S} = UNION {nfa.trig[t][c] : t \in Closure(S)}
      BY <1>1, <1>2
<1>4. UNION {base.entry[s] : s \in S} = UNION {nfa.entry[t] : t \in Closure(S)}
      BY <1>1, <1>2
<1>5. QED  BY <1>3, <1>4

(* The states in which the machine is after a word stand together for       *)
(* states whose closure is where the given machine is.                      *)
LEMMA WordsAsGiven ==
    ASSUME IInv, BaseCombined, phase # "epsilon", NEW m \in Nat, NEW w \in [1..m -> Char]
    PROVE  EntriesNow(w) = EntriesAsGiven(w)
<1>i. /\ nfa \in Machine /\ TypeOK /\ BaseOK /\ NamesOK /\ StandsForItsStates
      /\ base = CombinedClosures(nfa)
      BY DEF IInv, Begun, BaseCombined
<1>1. PICK g \in [0..m -> SUBSET State] :
          /\ g[0] = Closure({InitState})
          /\ \A n \in 0..(m - 1) :
                g[n + 1] = Closure(UNION {nfa.trig[s][w[n + 1]] : s \in g[n]})
          /\ EntriesAsGiven(w) = UNION {nfa.entry[s] : s \in g[m]}
      BY <1>i, GivenGoes
<1>2. PICK h \in [0..m -> SUBSET states] :
          /\ h[0] = {{InitState}}
          /\ \A n \in 0..(m - 1) : h[n + 1] = UNION {tm[X][w[n + 1]] : X \in h[n]}
          /\ EntriesNow(w) = UNION {entry[X] : X \in h[m]}
      BY <1>i, NowGoes
<1>s. ASSUME NEW S \in SUBSET states  PROVE UNION S \in SUBSET State
      BY <1>i DEF TypeOK, Name
<1>3. ASSUME NEW S \in SUBSET states, NEW c \in Char
      PROVE  UNION (UNION {tm[X][c] : X \in S}) = UNION {nfa.trig[t][c] : t \in Closure(UNION S)}
  <2>1. ASSUME NEW X \in S  PROVE UNION tm[X][c] = UNION {base.trig[s][c] : s \in X}
        BY <1>i DEF StandsForItsStates, LeadsTo
  <2>2. ASSUME NEW t \in UNION (UNION {tm[X][c] : X \in S})
        PROVE  t \in UNION {base.trig[s][c] : s \in UNION S}
    <3>1. PICK X \in S : t \in UNION tm[X][c]  OBVIOUS
    <3>2. UNION tm[X][c] = UNION {base.trig[s][c] : s \in X}  BY <2>1
    <3>3. t \in UNION {base.trig[s][c] : s \in X}  BY <3>1, <3>2
    <3>4. QED  BY <3>3
  <2>3. ASSUME NEW t \in UNION {base.trig[s][c] : s \in UNION S}
        PROVE  t \in UNION (UNION {tm[X][c] : X \in S})
    <3>1. PICK X \in S : \E s \in X : t \in base.trig[s][c]  OBVIOUS
    <3>2. t \in UNION tm[X][c]  BY <3>1, <2>1
    <3>3. QED  BY <3>2
  <2>4. UNION S \in SUBSET State  BY <1>s
  <2>5. UNION {base.trig[s][c] : s \in UNION S} = UNION {nfa.trig[t][c] : t \in Closure(UNION S)}
        BY <2>4, <1>i, LeadsAsClosure
  <2>6. QED  BY <2>2, <2>3, <2>5
<1>e. ASSUME NEW S \in SUBSET states
      PROVE  UNION {entry[X] : X \in S} = UNION {nfa.entry[t] : t \in Closure(UNION S)}
  <2>1. ASSUME NEW X \in S  PROVE entry[X] = UNION {base.entry[s] : s \in X}
        BY <1>i DEF StandsForItsStates, EntriesOf
  <2>2. UNION {entry[X] : X \in S} = UNION {base.entry[s] : s \in UNION S}  BY <2>1
  <2>3. UNION S \in SUBSET State  BY <1>s
  <2>4. QED  BY <2>2, <2>3, <1>i, LeadsAsClosure
<1> DEFINE Together(n) == g[n] = Closure(UNION h[n])
           Apart == {n \in 0..m : ~ Together(n)}
<1>4. Apart = {}
  <2>1. Apart \in SUBSET Nat  OBVIOUS
  <2>2. 0 \notin Apart
    <3>1. UNION {{InitState}} = {InitState}  OBVIOUS
    <3>2. QED  BY <3>1, <1>1, <1>2
  <2>3. ASSUME NEW n \in Nat, n + 1 \in Apart  PROVE n \in Apart
    <3>1. n \in 0..(m - 1) /\ n \in 0..m /\ n + 1 \in 1..m  BY <2>3
    <3>2. w[n + 1] \in Char /\ h[n] \in SUBSET states  BY <3>1
    <3>3. h[n + 1] = UNION {tm[X][w[n + 1]] : X \in h[n]}  BY <3>1, <1>2
    <3>4. UNION h[n + 1] = UNION {nfa.trig[t][w[n + 1]] : t \in Closure(UNION h[n])}
      <4> DEFINE c == w[n + 1]
                 S == h[n]
      <4>1. c \in Char /\ S \in SUBSET states  BY <3>2
      <4>2. h[n + 1] = UNION {tm[X][c] : X \in S}  BY <3>3
      <4> HIDE DEF c, S
      <4>3. UNION (UNION {tm[X][c] : X \in S}) = UNION {nfa.trig[t][c] : t \in Closure(UNION S)}
            BY <4>1, <1>3
      <4>4. UNION h[n + 1] = UNION {nfa.trig[t][c] : t \in Closure(UNION S)}  BY <4>2, <4>3
      <4>5. QED  BY <4>4 DEF c, S
    <3>5. g[n + 1] = Closure(UNION {nfa.trig[s][w[n + 1]] : s \in g[n]})  BY <3>1, <1>1
    <3>6. Together(n) => Together(n + 1)  BY <3>4, <3>5
    <3>7. QED  BY <3>1, <3>6, <2>3
  <2> HIDE DEF Apart
  <2>4. QED  BY <2>1, <2>2, <2>3, NoCounterexample
<1>5. m \in 0..m /\ h[m] \in SUBSET states  OBVIOUS
<1>6. g[m] = Closure(UNION h[m])  BY <1>4, <1>5
<1>7. UNION {entry[X] : X \in h[m]} = UNION {nfa.entry[t] : t \in Closure(UNION h[m])}
      BY <1>5, <1>e
<1>8. QED  BY <1>1, <1>2, <1>6, <1>7

(* At every moment, and for every machine, every word leads to the entries  *)
(* to which it led in the machine that was given: in whatever order the     *)
(* worklist is treated, the determined machine accepts the same.            *)
THEOREM AcceptsTheSame == Spec => []AcceptsAsGiven
<1>1. IInv /\ BaseCombined => AcceptsAsGiven
  <2> SUFFICES ASSUME IInv, BaseCombined, phase \in {"subsets", "done"}, NEW w \in Words
               PROVE  EntriesNow(w) = EntriesAsGiven(w)
      BY DEF AcceptsAsGiven
  <2>1. PICK m \in 0..Cardinality(State) : w \in [1..m -> Char]  BY DEF Words
  <2>2. Cardinality(State) \in Nat  BY MachinesAssumption, FS_CardinalityType
  <2>3. m \in Nat  BY <2>1, <2>2
  <2>4. phase # "epsilon"  OBVIOUS
  <2>5. QED  BY <2>1, <2>3, <2>4, WordsAsGiven
<1>2. QED  BY <1>1, Invariant, BaseStays, PTL
=============================================================================
