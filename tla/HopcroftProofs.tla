--------------------------- MODULE HopcroftProofs ---------------------------
(***************************************************************************)
(* Proofs about the minimisation of Hopcroft.tla, for any set of states,   *)
(* characters and machines.  The inductive invariant adds two facts to the *)
(* properties.  A set with several states that is off the todo list is     *)
(* stable and triggers only to sets that are off the list too (Settled):   *)
(* this is why it may stay off when another set is broken up.  And as long *)
(* as phase (B) has split nothing, the sets it went over are stable        *)
(* (PassStable): this is why the loop may stop with sets still on the list.*)
(* At the end, the machine that is left is followed through a word side by *)
(* side with the original, by the least place where they would part.       *)
(***************************************************************************)
EXTENDS Hopcroft, FiniteSetTheorems, SequenceTheorems, WellFoundedInduction, TLAPS

Partition(sets) == /\ sets \subseteq ((SUBSET State) \ {{}})
                   /\ UNION sets = State
                   /\ \A B, C \in sets : B # C => B \cap C = {}

KeysUniform(d, sets) == \A B \in sets : \A s, t \in B : d.key[s] = d.key[t]

DoneSet(d, sets, open, B) ==
    /\ Stable(d, sets, B)
    /\ ~Single(B) => \A s \in B : TargetSets(d, sets, s) \cap open = {}

Settled(d, sets, open) == \A B \in sets \ open : DoneSet(d, sets, open, B)

ListsFit(sets, open, suspects) == suspects \subseteq open /\ open \subseteq Splittable(sets)

HomogenousBut(d, sets, suspects) == \A B \in sets \ suspects : Homogenous(d, sets, B)

Sound(d, sets, open, suspects) ==
    /\ Partition(sets)
    /\ KeysUniform(d, sets)
    /\ ListsFit(sets, open, suspects)
    /\ HomogenousBut(d, sets, suspects)
    /\ Settled(d, sets, open)

PassFits == /\ phase = "homogenise" => pass \subseteq non_homogenous /\ change_f
            /\ phase = "split"      => pass \subseteq todo
            /\ phase = "split" /\ pass # {} => non_homogenous = {}
            /\ phase = "loop"       => pass = {}

PassStable == phase \in {"split", "loop"} /\ ~change_f =>
                  \A B \in todo \ pass : Stable(dfa, state_sets, B)

IInv == /\ dfa \in Machine
        /\ phase \in {"loop", "homogenise", "split", "done", "adapted"}
        /\ change_f \in BOOLEAN
        /\ Sound(dfa, state_sets, todo, non_homogenous)
        /\ PassFits
        /\ PassStable
        /\ FinishedMeansStable

-----------------------------------------------------------------------------
(***************************************************************************)
(* Breaking up a set.                                                      *)
(***************************************************************************)

(* The parts of a broken up set take its place in the partition.            *)
LEMMA ExtractedPartition ==
    ASSUME NEW sets, Partition(sets), NEW B \in sets, NEW M, M \subseteq B, M # {}, M # B
    PROVE  Partition(Extracted(sets, B, M))
<1> DEFINE new == Extracted(sets, B, M)
<1>1. new = (sets \ {B}) \cup {M, B \ M}  BY DEF Extracted
<1>2. B \ M # {}  OBVIOUS
<1>3. new \subseteq ((SUBSET State) \ {{}})  BY <1>1, <1>2 DEF Partition
<1>4. UNION new = State
  <2>1. ASSUME NEW s \in State  PROVE s \in UNION new
    <3>1. PICK X \in sets : s \in X  BY <2>1 DEF Partition
    <3>2. CASE X = B  BY <3>1, <3>2, <1>1
    <3>3. CASE X # B  BY <3>1, <3>3, <1>1
    <3>4. QED  BY <3>2, <3>3
  <2>2. QED  BY <2>1, <1>3
<1>5. ASSUME NEW X \in new, NEW Y \in new, X # Y  PROVE X \cap Y = {}
  <2>1. CASE X \in sets \ {B} /\ Y \in sets \ {B}  BY <2>1, <1>5 DEF Partition
  <2>2. CASE X \in sets \ {B} /\ Y \in {M, B \ M}
    <3>1. X \cap B = {}  BY <2>2 DEF Partition
    <3>2. QED  BY <3>1, <2>2
  <2>3. CASE X \in {M, B \ M} /\ Y \in sets \ {B}
    <3>1. Y \cap B = {}  BY <2>3 DEF Partition
    <3>2. QED  BY <3>1, <2>3
  <2>4. CASE X \in {M, B \ M} /\ Y \in {M, B \ M}  BY <2>4, <1>5
  <2>5. QED  BY <2>1, <2>2, <2>3, <2>4, <1>1
<1>6. QED  BY <1>3, <1>4, <1>5 DEF Partition

(* A state that does not trigger into B keeps its target sets.              *)
LEMMA TargetSetsKept ==
    ASSUME NEW d, NEW sets, NEW B \in sets, NEW M, M \subseteq B, NEW s,
           Targets(d, s) \cap B = {}
    PROVE  TargetSets(d, Extracted(sets, B, M), s) = TargetSets(d, sets, s)
BY DEF TargetSets, Extracted

(* A stable set none of whose states triggers into B stays stable.          *)
LEMMA StableKept ==
    ASSUME NEW d \in Machine, NEW sets, NEW B \in sets, NEW M, M \subseteq B,
           NEW X \in SUBSET State, Stable(d, sets, X),
           \A s \in X : Targets(d, s) \cap B = {}
    PROVE  Stable(d, Extracted(sets, B, M), X)
<1> DEFINE new == Extracted(sets, B, M)
<1> SUFFICES ASSUME NEW s \in X, NEW t \in X
             PROVE  d.key[s] = d.key[t] /\ \A c \in Char : SamePlace(new, d, s, t, c)
    BY DEF Stable
<1>1. d.key[s] = d.key[t]  BY DEF Stable
<1>2. ASSUME NEW c \in Char  PROVE SamePlace(new, d, s, t, c)
  <2>1. SamePlace(sets, d, s, t, c)  BY DEF Stable
  <2>2. CASE d.move[s][c] = NoState /\ d.move[t][c] = NoState  BY <2>2 DEF SamePlace
  <2>3. CASE d.move[s][c] # NoState
    <3>1. PICK T \in sets : d.move[s][c] \in T /\ d.move[t][c] \in T
          BY <2>1, <2>3 DEF SamePlace
    <3>2. d.move[s][c] \in Targets(d, s)  BY <2>3 DEF Targets
    <3>3. T # B  BY <3>1, <3>2
    <3>4. T \in new  BY <3>3 DEF Extracted
    <3>5. QED  BY <3>1, <3>4 DEF SamePlace
  <2>4. CASE d.move[s][c] = NoState /\ d.move[t][c] # NoState
    <3>1. PICK T \in sets : d.move[s][c] \in T /\ d.move[t][c] \in T
          BY <2>1, <2>4 DEF SamePlace
    <3>2. d.move[t][c] \in Targets(d, t)  BY <2>4 DEF Targets
    <3>3. T # B  BY <3>1, <3>2
    <3>4. T \in new  BY <3>3 DEF Extracted
    <3>5. QED  BY <3>1, <3>4 DEF SamePlace
  <2>5. QED  BY <2>2, <2>3, <2>4
<1>3. QED  BY <1>1, <1>2

(* A set of one state is stable and homogenous.                             *)
LEMMA SingleIsStable ==
    ASSUME NEW d \in Machine, NEW sets, Partition(sets), NEW X \in SUBSET State, Single(X)
    PROVE  Stable(d, sets, X) /\ Homogenous(d, sets, X)
<1>1. PICK s \in X : X = {s}  BY DEF Single
<1>2. s \in State  OBVIOUS
<1>3. ASSUME NEW c \in Char  PROVE SamePlace(sets, d, s, s, c)
  <2>1. d.move[s][c] \in State \cup {NoState}  BY <1>2 DEF Machine, Target
  <2>2. QED  BY <2>1 DEF SamePlace, Partition
<1>4. Stable(d, sets, X)  BY <1>1, <1>3 DEF Stable
<1>5. Homogenous(d, sets, X)  BY <1>1 DEF Homogenous
<1>6. QED  BY <1>4, <1>5

(* In a homogenous set, states that trigger as the prototype does into each *)
(* of its target sets do the same on every character: split() is complete.  *)
LEMMA EquivalentIsStable ==
    ASSUME NEW d \in Machine, NEW sets, Partition(sets), KeysUniform(d, sets),
           NEW B \in sets, Homogenous(d, sets, B), NEW p \in B
    PROVE  Stable(d, sets, Equivalent(d, sets, B, p))
<1> DEFINE E == Equivalent(d, sets, B, p)
<1>0. E \subseteq B /\ B \subseteq State  BY DEF Equivalent, Partition
<1>1. ASSUME NEW s \in E, NEW c \in Char, NEW T \in sets
      PROVE  d.move[s][c] \in T <=> d.move[p][c] \in T
  <2>1. TargetSets(d, sets, s) = TargetSets(d, sets, p)  BY <1>0 DEF Homogenous
  <2>2. CASE T \in TargetSets(d, sets, p)
    <3>1. TriggerSet(d, s, T) = TriggerSet(d, p, T)  BY <2>2 DEF Equivalent
    <3>2. QED  BY <3>1 DEF TriggerSet
  <2>3. CASE T \notin TargetSets(d, sets, p)
    <3>0. NoState \notin T  BY MachinesAssumption DEF Partition
    <3>1. Targets(d, p) \cap T = {} /\ Targets(d, s) \cap T = {}
          BY <2>1, <2>3 DEF TargetSets
    <3>2. d.move[s][c] \in Targets(d, s) \cup {NoState}  BY DEF Targets
    <3>3. d.move[p][c] \in Targets(d, p) \cup {NoState}  BY DEF Targets
    <3>4. QED  BY <3>0, <3>1, <3>2, <3>3
  <2>4. QED  BY <2>2, <2>3
<1>2. ASSUME NEW s \in E, NEW t \in E, NEW c \in Char  PROVE SamePlace(sets, d, s, t, c)
  <2>1. /\ d.move[s][c] \in State \cup {NoState}
        /\ d.move[t][c] \in State \cup {NoState}
        BY <1>0 DEF Machine, Target
  <2>2. CASE d.move[s][c] \in State
    <3>1. PICK T \in sets : d.move[s][c] \in T  BY <2>2 DEF Partition
    <3>2. d.move[t][c] \in T  BY <3>1, <1>1
    <3>3. QED  BY <3>1, <3>2 DEF SamePlace
  <2>3. CASE d.move[t][c] \in State
    <3>1. PICK T \in sets : d.move[t][c] \in T  BY <2>3 DEF Partition
    <3>2. d.move[s][c] \in T  BY <3>1, <1>1
    <3>3. QED  BY <3>1, <3>2 DEF SamePlace
  <2>4. CASE d.move[s][c] = NoState /\ d.move[t][c] = NoState  BY <2>4 DEF SamePlace
  <2>5. QED  BY <2>1, <2>2, <2>3, <2>4
<1>3. \A s, t \in E : d.key[s] = d.key[t]  BY <1>0 DEF KeysUniform
<1>4. QED  BY <1>2, <1>3 DEF Stable

(* The step that both splits take: B is broken up into M and the rest, the  *)
(* rest and everything that triggers into B become suspects, and M goes on  *)
(* the todo list unless it is done.                                         *)
BrokenUp(d, sets, open, suspects, B, M, keep, new, open1, suspects1) ==
    /\ d \in Machine /\ Sound(d, sets, open, suspects)
    /\ B \in open /\ M \subseteq B /\ M # {} /\ M # B
    /\ Homogenous(d, sets, M)
    /\ keep \subseteq Splittable({M})
    /\ keep # Splittable({M}) => DoneSet(d, sets, open, M)
    /\ new = Extracted(sets, B, M)
    /\ open1 = (open \ {B}) \cup Splittable({B \ M}) \cup keep
    /\ suspects1 = (suspects \ {B}) \cup Splittable({B \ M}) \cup Dependents(d, new, B)

LEMMA BreakUpIsSound ==
    ASSUME NEW d, NEW sets, NEW open, NEW suspects, NEW B, NEW M, NEW keep,
           NEW new, NEW open1, NEW suspects1,
           BrokenUp(d, sets, open, suspects, B, M, keep, new, open1, suspects1)
    PROVE  Sound(d, new, open1, suspects1)
<1>a. /\ d \in Machine /\ Sound(d, sets, open, suspects)
      /\ B \in open /\ M \subseteq B /\ M # {} /\ M # B
      /\ Homogenous(d, sets, M)
      /\ keep \subseteq Splittable({M})
      /\ keep # Splittable({M}) => DoneSet(d, sets, open, M)
      /\ new = Extracted(sets, B, M)
      /\ open1 = (open \ {B}) \cup Splittable({B \ M}) \cup keep
      /\ suspects1 = (suspects \ {B}) \cup Splittable({B \ M}) \cup Dependents(d, new, B)
      BY DEF BrokenUp
<1> USE <1>a
<1>0. /\ Partition(sets) /\ KeysUniform(d, sets) /\ ListsFit(sets, open, suspects)
      /\ HomogenousBut(d, sets, suspects) /\ Settled(d, sets, open)
      BY DEF Sound
<1>b. B \in sets  BY <1>0 DEF ListsFit, Splittable
<1>n. new = (sets \ {B}) \cup {M, B \ M}  BY DEF Extracted
<1>s. B \subseteq State /\ M \subseteq State /\ B \ M # {} /\ B \ M \subseteq State
      BY <1>0, <1>b DEF Partition
<1>1. Partition(new)  BY <1>0, <1>b, ExtractedPartition
<1>2. KeysUniform(d, new)
  <2> SUFFICES ASSUME NEW X \in new  PROVE \A s, t \in X : d.key[s] = d.key[t]
      BY DEF KeysUniform
  <2>1. \E Y \in sets : X \subseteq Y  BY <1>n, <1>b
  <2>2. QED  BY <2>1, <1>0 DEF KeysUniform
<1>d. ASSUME NEW X \in new, ~Single(X), X \notin suspects1, NEW s \in X
      PROVE  Targets(d, s) \cap B = {}
      BY <1>d DEF Dependents, Splittable
<1>m. B \notin new
  <2>1. M # B /\ B \ M # B  OBVIOUS
  <2>2. QED  BY <2>1, <1>n
<1>f. ASSUME NEW X \in sets, X \notin open, X # B
      PROVE  /\ Stable(d, sets, X)
             /\ ~Single(X) => \A s \in X : TargetSets(d, sets, s) \cap open = {}
      BY <1>f, <1>0 DEF Settled, DoneSet
<1>t. ASSUME NEW s \in State, TargetSets(d, sets, s) \cap open = {}
      PROVE  Targets(d, s) \cap B = {}
      BY <1>t, <1>b DEF TargetSets
<1>k. keep = Splittable({M}) \/ (keep # Splittable({M}) /\ DoneSet(d, sets, open, M))
      OBVIOUS
<1>3. ListsFit(new, open1, suspects1)
  <2>1. open1 \subseteq Splittable(new)  BY <1>0, <1>n DEF ListsFit, Splittable
  <2>2. suspects \ {B} \subseteq open1  BY <1>0 DEF ListsFit
  <2>3. ASSUME NEW X \in Dependents(d, new, B)  PROVE X \in open1
    <3>1. X \in new /\ ~Single(X)  BY DEF Dependents, Splittable
    <3>2. PICK s \in X : Targets(d, s) \cap B # {}  BY DEF Dependents
    <3>3. CASE X = B \ M  BY <3>1, <3>3 DEF Splittable
    <3>4. CASE X = M
      <4>1. M \in Splittable({M})  BY <3>1, <3>4 DEF Splittable
      <4>2. CASE keep = Splittable({M})  BY <4>1, <4>2, <3>4
      <4>3. CASE DoneSet(d, sets, open, M)
        <5>1. TargetSets(d, sets, s) \cap open = {}  BY <4>3, <3>1, <3>4, <3>2 DEF DoneSet
        <5>2. s \in State  BY <3>4, <1>s
        <5>3. QED  BY <5>1, <5>2, <1>t, <3>2
      <4>4. QED  BY <4>2, <4>3, <1>k
    <3>5. CASE X \in sets /\ X # B
      <4>1. CASE X \in open  BY <4>1, <3>5
      <4>2. CASE X \notin open
        <5>1. TargetSets(d, sets, s) \cap open = {}  BY <1>f, <4>2, <3>5, <3>1, <3>2
        <5>2. s \in State  BY <3>5, <3>2, <1>0 DEF Partition
        <5>3. QED  BY <5>1, <5>2, <1>t, <3>2
      <4>3. QED  BY <4>1, <4>2
    <3>6. QED  BY <3>1, <3>3, <3>4, <3>5, <1>n
  <2>4. QED  BY <2>1, <2>2, <2>3 DEF ListsFit
<1>4. HomogenousBut(d, new, suspects1)
  <2> SUFFICES ASSUME NEW X \in new, X \notin suspects1  PROVE Homogenous(d, new, X)
      BY DEF HomogenousBut
  <2>0. X \in SUBSET State  BY <1>1 DEF Partition
  <2>1. CASE Single(X)  BY <2>1, <2>0, <1>1, SingleIsStable
  <2>2. CASE ~Single(X)
    <3>1. \A s \in X : Targets(d, s) \cap B = {}  BY <2>2, <1>d
    <3>2. Homogenous(d, sets, X)
      <4>1. CASE X = M  BY <4>1
      <4>2. CASE X = B \ M
        <5>1. X \in suspects1  BY <4>2, <2>2 DEF Splittable
        <5>2. QED  BY <5>1
      <4>3. CASE X \in sets \ {B}
        <5>1. X \notin suspects  BY <4>3
        <5>2. QED  BY <5>1, <4>3, <1>0 DEF HomogenousBut
      <4>4. QED  BY <4>1, <4>2, <4>3, <1>n
    <3>3. \A s \in X : TargetSets(d, new, s) = TargetSets(d, sets, s)
          BY <3>1, <1>b, TargetSetsKept
    <3>4. QED  BY <3>2, <3>3 DEF Homogenous
  <2>3. QED  BY <2>1, <2>2
<1>5. Settled(d, new, open1)
  <2> SUFFICES ASSUME NEW X \in new, X \notin open1  PROVE DoneSet(d, new, open1, X)
      BY DEF Settled
  <2>0. X \in SUBSET State  BY <1>1 DEF Partition
  <2>1. CASE Single(X)
    <3>1. Stable(d, new, X)  BY <2>1, <2>0, <1>1, SingleIsStable
    <3>2. QED  BY <3>1, <2>1 DEF DoneSet
  <2>2. CASE ~Single(X)
    <3>1. DoneSet(d, sets, open, X)
      <4>1. CASE X = M
        <5>1. keep # Splittable({M})  BY <4>1, <2>2 DEF Splittable
        <5>2. QED  BY <5>1, <4>1
      <4>2. CASE X = B \ M
        <5>1. X \in open1  BY <4>2, <2>2 DEF Splittable
        <5>2. QED  BY <5>1
      <4>3. CASE X \in sets \ {B}
        <5>1. X \notin open  BY <4>3
        <5>2. QED  BY <5>1, <4>3, <1>0 DEF Settled
      <4>4. QED  BY <4>1, <4>2, <4>3, <1>n
    <3>2. \A s \in X : TargetSets(d, sets, s) \cap open = {}  BY <3>1, <2>2 DEF DoneSet
    <3>3. \A s \in X : Targets(d, s) \cap B = {}  BY <3>2, <2>0, <1>t
    <3>4. Stable(d, new, X)
      <4>1. Stable(d, sets, X)  BY <3>1 DEF DoneSet
      <4>2. QED  BY <4>1, <3>3, <2>0, <1>b, StableKept
    <3>5. ASSUME NEW s \in X  PROVE TargetSets(d, new, s) \cap open1 = {}
      <4>1. TargetSets(d, new, s) = TargetSets(d, sets, s)  BY <3>3, <1>b, TargetSetsKept
      <4>2. ASSUME NEW T \in TargetSets(d, new, s), T \in open1  PROVE FALSE
        <5>0. T \in TargetSets(d, sets, s)  BY <4>1, <4>2
        <5>1. T \in sets /\ T \notin open  BY <5>0, <3>2 DEF TargetSets
        <5>2. T \in {M, B \ M}  BY <4>2, <5>1 DEF Splittable
        <5>3. Targets(d, s) \cap T # {}  BY <4>2 DEF TargetSets
        <5>4. QED  BY <5>2, <5>3, <3>3
      <4>3. QED  BY <4>2
    <3>6. QED  BY <3>4, <3>5 DEF DoneSet
  <2>3. QED  BY <2>1, <2>2
<1>6. QED  BY <1>1, <1>2, <1>3, <1>4, <1>5 DEF Sound

-----------------------------------------------------------------------------
(***************************************************************************)
(* The invariant, action by action.                                        *)
(***************************************************************************)
LEMMA InitSound == Init => IInv
<1> SUFFICES ASSUME Init  PROVE IInv
    OBVIOUS
<1>0. /\ dfa \in Machine
      /\ state_sets = {SameKey(dfa, s) : s \in State}
      /\ todo = Splittable(state_sets) /\ non_homogenous = Splittable(state_sets)
      /\ pass = {} /\ phase = "loop" /\ change_f = TRUE
      BY MachinesAssumption DEF Init
<1>1. ASSUME NEW s \in State  PROVE s \in SameKey(dfa, s)
      BY DEF SameKey
<1>2. Partition(state_sets)
  <2>1. ASSUME NEW B \in state_sets  PROVE B \in (SUBSET State) \ {{}}
    <3>1. PICK s \in State : B = SameKey(dfa, s)  BY <1>0
    <3>2. s \in B /\ B \subseteq State  BY <3>1, <1>1 DEF SameKey
    <3>3. B # {}  BY <3>2
    <3>4. QED  BY <3>2, <3>3
  <2>2. UNION state_sets = State  BY <1>0, <1>1, <2>1
  <2>3. ASSUME NEW B \in state_sets, NEW C \in state_sets, B \cap C # {}  PROVE B = C
    <3>1. PICK s \in State : B = SameKey(dfa, s)  BY <1>0
    <3>2. PICK t \in State : C = SameKey(dfa, t)  BY <1>0
    <3>3. dfa.key[s] = dfa.key[t]  BY <3>1, <3>2, <2>3 DEF SameKey
    <3>4. QED  BY <3>1, <3>2, <3>3 DEF SameKey
  <2>4. QED  BY <2>1, <2>2, <2>3 DEF Partition
<1>3. KeysUniform(dfa, state_sets)  BY <1>0 DEF KeysUniform, SameKey
<1>4. ListsFit(state_sets, todo, non_homogenous)  BY <1>0 DEF ListsFit
<1>5. ASSUME NEW B \in state_sets, B \notin Splittable(state_sets)
      PROVE  Single(B) /\ Stable(dfa, state_sets, B) /\ Homogenous(dfa, state_sets, B)
  <2>1. Single(B)  BY <1>5 DEF Splittable
  <2>2. B \in SUBSET State  BY <1>2 DEF Partition
  <2>3. QED  BY <2>1, <2>2, <1>0, <1>2, SingleIsStable
<1>6. HomogenousBut(dfa, state_sets, non_homogenous)  BY <1>0, <1>5 DEF HomogenousBut
<1>7. Settled(dfa, state_sets, todo)  BY <1>0, <1>5 DEF Settled, DoneSet
<1>8. Sound(dfa, state_sets, todo, non_homogenous)
      BY <1>2, <1>3, <1>4, <1>6, <1>7 DEF Sound
<1>9. PassFits /\ PassStable /\ FinishedMeansStable
      BY <1>0 DEF PassFits, PassStable, FinishedMeansStable
<1>10. QED  BY <1>0, <1>8, <1>9 DEF IInv

(* Steps that only move the loop on leave the sets and the lists alone.     *)
LEMMA ControlKeepsSound ==
    ASSUME IInv, Loop \/ NextRound \/ StartSplit \/ EndSplit \/ UNCHANGED vars
                 \/ \E P \in SUBSET State : Adapt(P)
    PROVE  IInv'
<1>0. UNCHANGED <<dfa, state_sets, todo, non_homogenous>>
      BY DEF Loop, NextRound, StartSplit, EndSplit, Adapt, vars
<1>1. Sound(dfa, state_sets, todo, non_homogenous)'  BY <1>0 DEF IInv
<1>i. /\ dfa \in Machine /\ PassFits /\ PassStable /\ FinishedMeansStable /\ change_f \in BOOLEAN
      /\ phase \in {"loop", "homogenise", "split", "done", "adapted"}
      BY DEF IInv
<1>2. CASE Loop
  <2>1. CASE todo # {} /\ change_f
    <3>1. phase' = "homogenise" /\ pass' = {} /\ change_f' = change_f
          BY <1>2, <2>1, <1>i DEF Loop, PassFits
    <3>2. QED  BY <3>1, <2>1, <1>0, <1>1, <1>i
               DEF IInv, PassFits, PassStable, FinishedMeansStable
  <2>2. CASE ~(todo # {} /\ change_f)
    <3>1. phase' = "done" /\ pass' = {} /\ pass = {} /\ change_f' = change_f
          BY <1>2, <2>2, <1>i DEF Loop, PassFits
    <3>2. ASSUME NEW B \in state_sets  PROVE Stable(dfa, state_sets, B)
      <4>1. CASE B \notin todo  BY <4>1, <1>i DEF IInv, Sound, Settled, DoneSet
      <4>2. CASE B \in todo  BY <4>2, <2>2, <3>1, <1>2, <1>i DEF PassStable, Loop
      <4>3. QED  BY <4>1, <4>2
    <3>3. FinishedMeansStable'  BY <3>2, <1>0 DEF FinishedMeansStable
    <3>4. QED  BY <3>1, <3>3, <1>0, <1>1, <1>i DEF IInv, PassFits, PassStable
  <2>3. QED  BY <2>1, <2>2
<1>3. CASE NextRound
  <2>1. phase' = "homogenise" /\ pass' = non_homogenous /\ change_f' = change_f /\ change_f
        BY <1>3, <1>i DEF NextRound, PassFits
  <2>2. QED  BY <2>1, <1>0, <1>1, <1>i DEF IInv, PassFits, PassStable, FinishedMeansStable
<1>4. CASE StartSplit
  <2>1. phase' = "split" /\ pass' = todo /\ change_f' = FALSE /\ non_homogenous = {}
        BY <1>4 DEF StartSplit
  <2>2. QED  BY <2>1, <1>0, <1>1, <1>i DEF IInv, PassFits, PassStable, FinishedMeansStable
<1>5. CASE EndSplit
  <2>1. phase = "split" /\ phase' = "loop" /\ pass' = {} /\ pass = {} /\ change_f' = change_f
        BY <1>5 DEF EndSplit
  <2>2. PassStable'  BY <2>1, <1>0, <1>i DEF PassStable
  <2>3. QED  BY <2>1, <2>2, <1>0, <1>1, <1>i DEF IInv, PassFits, FinishedMeansStable
<1>6. CASE UNCHANGED vars
  <2>1. pass' = pass /\ phase' = phase /\ change_f' = change_f  BY <1>6 DEF vars
  <2>2. PassStable' /\ FinishedMeansStable' /\ PassFits'
        BY <2>1, <1>0, <1>i DEF PassStable, FinishedMeansStable, PassFits
  <2>3. QED  BY <2>1, <2>2, <1>0, <1>1, <1>i DEF IInv
<1>7. CASE \E P \in SUBSET State : Adapt(P)
  <2>1. phase = "done" /\ phase' = "adapted" /\ pass' = pass /\ change_f' = change_f
        BY <1>7 DEF Adapt
  <2>2. PassStable' /\ FinishedMeansStable' /\ PassFits'
        BY <2>1, <1>0, <1>i DEF PassStable, FinishedMeansStable, PassFits
  <2>3. QED  BY <2>1, <2>2, <1>0, <1>1, <1>i DEF IInv
<1>8. QED  BY <1>2, <1>3, <1>4, <1>5, <1>6, <1>7

LEMMA PreSplitKeepsSound ==
    ASSUME IInv, NEW B \in pass, NEW p \in B, PreSplit(B, p)
    PROVE  IInv'
<1> DEFINE match == Matching(dfa, state_sets, B, p)
<1>i. /\ dfa \in Machine /\ PassFits /\ change_f \in BOOLEAN
      /\ Sound(dfa, state_sets, todo, non_homogenous)
      BY DEF IInv
<1>1. /\ phase = "homogenise" /\ phase' = "homogenise" /\ change_f' = change_f
      /\ dfa' = dfa /\ pass' = pass \ {B}
      BY DEF PreSplit
<1>2. B \in non_homogenous /\ B \in todo /\ B \in state_sets /\ change_f
      BY <1>1, <1>i DEF PassFits, Sound, ListsFit, Splittable
<1>3. pass' \subseteq non_homogenous \ {B}  BY <1>1, <1>i DEF PassFits
<1>4. match \subseteq B /\ p \in match  BY DEF Matching
<1>5. Homogenous(dfa, state_sets, match)  BY DEF Homogenous, Matching
<1>6. CASE match = B
  <2>1. UNCHANGED <<state_sets, todo>> /\ non_homogenous' = non_homogenous \ {B}
        BY <1>6 DEF PreSplit
  <2>2. HomogenousBut(dfa, state_sets, non_homogenous \ {B})
        BY <1>5, <1>6, <1>i DEF HomogenousBut, Sound
  <2>3. Sound(dfa, state_sets, todo, non_homogenous \ {B})
        BY <2>2, <1>i DEF Sound, ListsFit
  <2>4. Sound(dfa, state_sets, todo, non_homogenous)'  BY <2>1, <2>3, <1>1
  <2>5. QED  BY <2>4, <2>1, <1>1, <1>2, <1>3, <1>i
             DEF IInv, PassFits, PassStable, FinishedMeansStable
<1>7. CASE match # B
  <2> DEFINE keep == Splittable({match})
  <2>1. /\ state_sets' = Extracted(state_sets, B, match)
        /\ todo' = (todo \ {B}) \cup Splittable({match, B \ match})
        /\ non_homogenous' = (non_homogenous \ {B}) \cup Splittable({B \ match})
                                \cup Dependents(dfa, state_sets', B)
        BY <1>7 DEF PreSplit
  <2>2. todo' = (todo \ {B}) \cup Splittable({B \ match}) \cup keep
        BY <2>1 DEF Splittable
  <2>k. keep \subseteq Splittable({match})  OBVIOUS
  <2>l. keep # Splittable({match}) => DoneSet(dfa, state_sets, todo, match)  OBVIOUS
  <2>m. match \subseteq B /\ match # {} /\ match # B  BY <1>4, <1>7
  <2>s. Sound(dfa, state_sets, todo, non_homogenous) /\ dfa \in Machine /\ B \in todo
        BY <1>i, <1>2
  <2> HIDE DEF match, keep
  <2>b. BrokenUp(dfa, state_sets, todo, non_homogenous, B, match, keep,
                 state_sets', todo', non_homogenous')
        BY <2>s, <2>m, <1>5, <2>k, <2>l, <2>1, <2>2 DEF BrokenUp
  <2>3. Sound(dfa, state_sets', todo', non_homogenous')  BY <2>b, BreakUpIsSound
  <2>4. pass' \subseteq non_homogenous'  BY <1>3, <2>1
  <2>5. QED  BY <2>3, <2>4, <1>1, <1>2, <1>i DEF IInv, PassFits, PassStable, FinishedMeansStable
<1>8. QED  BY <1>6, <1>7

LEMMA SplitKeepsSound ==
    ASSUME IInv, NEW B \in pass, NEW p \in B, Split(B, p)
    PROVE  IInv'
<1> DEFINE eq == Equivalent(dfa, state_sets, B, p)
           all_done == AllDone(dfa, state_sets, todo, non_homogenous, p)
<1>i. /\ dfa \in Machine /\ PassFits /\ PassStable /\ change_f \in BOOLEAN
      /\ Sound(dfa, state_sets, todo, non_homogenous)
      BY DEF IInv
<1>p. /\ Partition(state_sets) /\ KeysUniform(dfa, state_sets)
      /\ ListsFit(state_sets, todo, non_homogenous)
      /\ HomogenousBut(dfa, state_sets, non_homogenous)
      /\ Settled(dfa, state_sets, todo)
      BY <1>i DEF Sound
<1>1. /\ phase = "split" /\ phase' = "split" /\ dfa' = dfa
      BY DEF Split
<1>2. B \in todo /\ B \in state_sets /\ non_homogenous = {} /\ pass \subseteq todo
      BY <1>1, <1>i, <1>p DEF PassFits, ListsFit, Splittable
<1>3. Homogenous(dfa, state_sets, B)  BY <1>2, <1>p DEF HomogenousBut
<1>4. eq \subseteq B /\ p \in eq  BY DEF Equivalent
<1>5. Homogenous(dfa, state_sets, eq)  BY <1>3, <1>4 DEF Homogenous
<1>6. Stable(dfa, state_sets, eq)  BY <1>i, <1>p, <1>2, <1>3, EquivalentIsStable
<1>7. all_done => DoneSet(dfa, state_sets, todo, eq)
  <2> SUFFICES ASSUME all_done  PROVE DoneSet(dfa, state_sets, todo, eq)
      OBVIOUS
  <2>1. todo \cap TargetSets(dfa, state_sets, p) = {}  BY DEF AllDone
  <2>2. \A s \in eq : TargetSets(dfa, state_sets, s) = TargetSets(dfa, state_sets, p)
        BY <1>5, <1>4 DEF Homogenous
  <2>3. QED  BY <2>1, <2>2, <1>6 DEF DoneSet
<1> HIDE DEF eq, all_done
<1>8. CASE eq = B
  <2>1. /\ todo' = IF all_done THEN todo \ {B} ELSE todo
        /\ non_homogenous' = {} /\ pass' = pass \ {B}
        /\ UNCHANGED <<state_sets, change_f>>
        BY <1>8, <1>2 DEF Split, eq, all_done
  <2>2. Settled(dfa, state_sets, todo')
    <3>1. CASE all_done
      <4>1. todo' = todo \ {B} /\ DoneSet(dfa, state_sets, todo, B)
            BY <3>1, <2>1, <1>7, <1>8
      <4>2. ASSUME NEW X \in state_sets \ todo'  PROVE DoneSet(dfa, state_sets, todo', X)
        <5>1. DoneSet(dfa, state_sets, todo, X)  BY <4>1, <4>2, <1>p DEF Settled
        <5>2. QED  BY <5>1, <4>1 DEF DoneSet
      <4>3. QED  BY <4>2 DEF Settled
    <3>2. CASE ~all_done  BY <3>2, <2>1, <1>p
    <3>3. QED  BY <3>1, <3>2
  <2>3. todo' \subseteq todo  BY <2>1
  <2>4. ListsFit(state_sets, todo', {}) /\ HomogenousBut(dfa, state_sets, {})
        BY <2>3, <1>p, <1>2 DEF ListsFit
  <2>5. Sound(dfa, state_sets, todo', {})  BY <2>2, <2>4, <1>p DEF Sound
  <2>6. Sound(dfa, state_sets, todo, non_homogenous)'  BY <2>5, <2>1, <1>1
  <2>7. PassStable'
    <3>1. ASSUME ~change_f', NEW X \in todo' \ pass'  PROVE Stable(dfa, state_sets, X)
      <4>1. CASE X = B  BY <4>1, <1>6, <1>8
      <4>2. CASE X # B  BY <4>2, <3>1, <2>1, <2>3, <1>1, <1>i DEF PassStable
      <4>3. QED  BY <4>1, <4>2
    <3>2. QED  BY <3>1, <2>1, <1>1 DEF PassStable
  <2>8. PassFits'
    <3>1. pass' \subseteq todo'  BY <2>1, <1>2
    <3>2. QED  BY <3>1, <2>1, <1>1 DEF PassFits
  <2>9. QED  BY <2>6, <2>7, <2>8, <2>1, <1>1, <1>i DEF IInv, FinishedMeansStable
<1>9. CASE eq # B
  <2> DEFINE keep == IF all_done THEN {} ELSE Splittable({eq})
  <2>1. /\ state_sets' = Extracted(state_sets, B, eq)
        /\ todo' = (todo \ {B}) \cup Splittable({B \ eq}) \cup keep
        /\ non_homogenous' = (non_homogenous \ {B}) \cup Splittable({B \ eq})
                                \cup Dependents(dfa, state_sets', B)
        /\ pass' = IF non_homogenous' # {} THEN {} ELSE pass \ {B}
        /\ change_f' = TRUE
        BY <1>9 DEF Split, eq, all_done
  <2>k. keep \subseteq Splittable({eq})  OBVIOUS
  <2>l. keep # Splittable({eq}) => DoneSet(dfa, state_sets, todo, eq)  BY <1>7
  <2>m. eq # {}  BY <1>4
  <2> HIDE DEF keep
  <2>b. BrokenUp(dfa, state_sets, todo, non_homogenous, B, eq, keep,
                 state_sets', todo', non_homogenous')
        BY <1>i, <1>2, <1>4, <1>5, <1>9, <2>1, <2>k, <2>l, <2>m DEF BrokenUp
  <2>3. Sound(dfa, state_sets', todo', non_homogenous')  BY <2>b, BreakUpIsSound
  <2>4. PassFits'
    <3>1. pass' \subseteq todo'  BY <2>1, <1>2
    <3>2. pass' # {} => non_homogenous' = {}  BY <2>1
    <3>3. QED  BY <3>1, <3>2, <1>1 DEF PassFits
  <2>5. PassStable'  BY <2>1, <1>1 DEF PassStable
  <2>6. QED  BY <2>3, <2>4, <2>5, <2>1, <1>1, <1>i DEF IInv, FinishedMeansStable
<1>10. QED  BY <1>8, <1>9

LEMMA NextSound == IInv /\ [Next]_vars => IInv'
<1> SUFFICES ASSUME IInv, [Next]_vars  PROVE IInv'
    OBVIOUS
<1>1. CASE Loop \/ NextRound \/ StartSplit \/ EndSplit \/ UNCHANGED vars
           \/ \E P \in SUBSET State : Adapt(P)
      BY <1>1, ControlKeepsSound
<1>2. CASE \E B \in pass : \E p \in B : PreSplit(B, p)
      BY <1>2, PreSplitKeepsSound
<1>3. CASE \E B \in Largest(pass) : \E p \in B : Split(B, p)
  <2>1. PICK B \in Largest(pass) : \E p \in B : Split(B, p)  BY <1>3
  <2>2. B \in pass  BY DEF Largest
  <2>3. QED  BY <2>1, <2>2, SplitKeepsSound
<1>4. QED  BY <1>1, <1>2, <1>3 DEF Next

-----------------------------------------------------------------------------
(***************************************************************************)
(* The theorems.                                                           *)
(***************************************************************************)

(* In every reachable state the invariant holds.                            *)
LEMMA Invariant == Spec => []IInv
BY InitSound, NextSound, PTL DEF Spec

(* The sets of states always partition the states of the machine, whatever  *)
(* the machine is: __extract() loses no state and duplicates none.          *)
THEOREM TypeCorrect == Spec => []TypeOK
<1>1. IInv => TypeOK  BY DEF IInv, TypeOK, Sound, Partition
<1>2. QED  BY <1>1, Invariant, PTL

(* The assertions about todo and non_homogenous hold for every machine.     *)
THEOREM ListsAgree == Spec => []WorkListsAgree
<1>1. IInv => WorkListsAgree
      BY DEF IInv, WorkListsAgree, Sound, ListsFit, PassFits
<1>2. QED  BY <1>1, Invariant, PTL

(* split() never meets a set whose states trigger to different sets.        *)
THEOREM UnsuspectedHomogenous == Spec => []UnsuspectedAreHomogenous
<1>1. IInv => UnsuspectedAreHomogenous
      BY DEF IInv, UnsuspectedAreHomogenous, Sound, HomogenousBut
<1>2. QED  BY <1>1, Invariant, PTL

(* When run() returns, the states of each set do the same on every          *)
(* character: combining them is right.                                      *)
THEOREM EndsStable == Spec => []FinishedMeansStable
<1>1. IInv => FinishedMeansStable  BY DEF IInv
<1>2. QED  BY <1>1, Invariant, PTL

(* A set that is off the todo list is never broken up again.                *)
THEOREM DoneStay == Spec => DoneSetsStay
<1>1. IInv /\ [Next]_vars => [state_sets \ todo \subseteq state_sets' \ todo']_vars
  <2> SUFFICES ASSUME IInv, Next  PROVE state_sets \ todo \subseteq state_sets' \ todo'
      BY DEF vars
  <2>i. ListsFit(state_sets, todo, non_homogenous) /\ PassFits /\ Partition(state_sets)
        BY DEF IInv, Sound
  <2>1. CASE Loop \/ NextRound \/ StartSplit \/ EndSplit \/ \E P \in SUBSET State : Adapt(P)
        BY <2>1 DEF Loop, NextRound, StartSplit, EndSplit, Adapt
  <2>2. ASSUME NEW B \in pass, NEW p \in B, NEW X \in state_sets \ todo,
               PreSplit(B, p) \/ Split(B, p)
        PROVE  X \in state_sets' \ todo'
    <3>1. B \in todo /\ B \in state_sets
          BY <2>2, <2>i DEF PreSplit, Split, PassFits, ListsFit, Splittable
    <3>2. X # B  BY <3>1
    <3>3. B \subseteq State /\ X # {} /\ X \cap B = {}  BY <3>1, <3>2, <2>i DEF Partition
    <3>4. X # B \ Matching(dfa, state_sets, B, p) /\ X # Matching(dfa, state_sets, B, p)
          BY <3>3 DEF Matching
    <3>5. X # B \ Equivalent(dfa, state_sets, B, p) /\ X # Equivalent(dfa, state_sets, B, p)
          BY <3>3 DEF Equivalent
    <3>6. CASE PreSplit(B, p)
          BY <3>2, <3>4, <3>6 DEF PreSplit, Extracted, Splittable
    <3>7. CASE Split(B, p)
          BY <3>2, <3>5, <3>7 DEF Split, Extracted, Splittable
    <3>8. QED  BY <2>2, <3>6, <3>7
  <2>3. CASE \E B \in pass : \E p \in B : PreSplit(B, p)  BY <2>3, <2>2
  <2>4. CASE \E B \in Largest(pass) : \E p \in B : Split(B, p)  BY <2>4, <2>2 DEF Largest
  <2>5. QED  BY <2>1, <2>3, <2>4 DEF Next
<1>2. QED  BY <1>1, Invariant, PTL DEF Spec, DoneSetsStay

-----------------------------------------------------------------------------
(***************************************************************************)
(* Minimality: states that a congruence identifies are never separated.    *)
(***************************************************************************)
Together(sets, f) ==
    \A s, t \in State : f[s] = f[t] => \E B \in sets : {s, t} \subseteq B

(* States of one colour trigger into the same sets on the same characters.  *)
LEMMA SameMoves ==
    ASSUME NEW d \in Machine, NEW sets, Partition(sets), NEW f, Congruence(d, f),
           Together(sets, f), NEW s \in State, NEW t \in State, f[s] = f[t], NEW T \in sets
    PROVE  /\ TriggerSet(d, s, T) = TriggerSet(d, t, T)
           /\ T \in TargetSets(d, sets, s) <=> T \in TargetSets(d, sets, t)
<1>0. NoState \notin T  BY MachinesAssumption DEF Partition
<1>1. ASSUME NEW c \in Char  PROVE d.move[s][c] \in T <=> d.move[t][c] \in T
  <2>1. /\ d.move[s][c] = NoState <=> d.move[t][c] = NoState
        /\ d.move[s][c] # NoState => f[d.move[s][c]] = f[d.move[t][c]]
        BY DEF Congruence
  <2>2. d.move[s][c] \in State \cup {NoState} /\ d.move[t][c] \in State \cup {NoState}
        BY DEF Machine, Target
  <2>3. CASE d.move[s][c] = NoState  BY <2>3, <2>1, <1>0
  <2>4. CASE d.move[s][c] # NoState
    <3>1. PICK B \in sets : d.move[s][c] \in B /\ d.move[t][c] \in B
          BY <2>4, <2>1, <2>2 DEF Together
    <3>2. B # T => B \cap T = {}  BY DEF Partition
    <3>3. QED  BY <3>1, <3>2
  <2>5. QED  BY <2>3, <2>4
<1>2. TriggerSet(d, s, T) = TriggerSet(d, t, T)  BY <1>1 DEF TriggerSet
<1>3. ASSUME NEW x \in State  
      PROVE  T \in TargetSets(d, sets, x) <=> \E c \in Char : d.move[x][c] \in T
  BY <1>0 DEF TargetSets, Targets
<1>4. T \in TargetSets(d, sets, s) <=> T \in TargetSets(d, sets, t)  BY <1>1, <1>3
<1>5. QED  BY <1>2, <1>4

(* A break up along a part that is closed under the colours keeps them.     *)
LEMMA BreakUpKeepsTogether ==
    ASSUME NEW sets, NEW f, Together(sets, f), NEW B, NEW M, M \subseteq B,
           \A s, t \in State : f[s] = f[t] /\ s \in M /\ t \in B => t \in M
    PROVE  Together(Extracted(sets, B, M), f)
<1> SUFFICES ASSUME NEW s \in State, NEW t \in State, f[s] = f[t]
             PROVE  \E X \in Extracted(sets, B, M) : {s, t} \subseteq X
    BY DEF Together
<1>1. PICK X \in sets : {s, t} \subseteq X  BY DEF Together
<1>2. CASE X # B  BY <1>1, <1>2 DEF Extracted
<1>3. CASE X = B
  <2>1. s \in M <=> t \in M  BY <1>1, <1>3
  <2>2. CASE s \in M  BY <2>1, <2>2 DEF Extracted
  <2>3. CASE s \notin M
    <3>1. {s, t} \subseteq B \ M  BY <2>1, <2>3, <1>1, <1>3
    <3>2. QED  BY <3>1 DEF Extracted
  <2>4. QED  BY <2>2, <2>3
<1>4. QED  BY <1>2, <1>3

AllTogether(d, sets) == \A f \in Colourings : Congruence(d, f) => Together(sets, f)

LEMMA StepKeepsTogether ==
    ASSUME IInv, AllTogether(dfa, state_sets), Next
    PROVE  AllTogether(dfa', state_sets')
<1>i. dfa \in Machine /\ Partition(state_sets)  BY DEF IInv, Sound
<1>1. CASE Loop \/ NextRound \/ StartSplit \/ EndSplit \/ \E P \in SUBSET State : Adapt(P)
      BY <1>1 DEF Loop, NextRound, StartSplit, EndSplit, Adapt
<1>2. ASSUME NEW B, NEW p \in B, PreSplit(B, p) \/ Split(B, p)
      PROVE  AllTogether(dfa', state_sets')
  <2>0. dfa' = dfa  BY <1>2 DEF PreSplit, Split
  <2> SUFFICES ASSUME NEW f \in Colourings, Congruence(dfa, f), Together(state_sets, f)
               PROVE  Together(state_sets', f)
      BY <2>0 DEF AllTogether
  <2>c. ASSUME NEW s \in State, NEW t \in State, f[s] = f[t]
        PROVE  /\ TargetSets(dfa, state_sets, s) = TargetSets(dfa, state_sets, t)
               /\ \A T \in state_sets : TriggerSet(dfa, s, T) = TriggerSet(dfa, t, T)
    <3>1. \A T \in state_sets :
             /\ TriggerSet(dfa, s, T) = TriggerSet(dfa, t, T)
             /\ T \in TargetSets(dfa, state_sets, s) <=> T \in TargetSets(dfa, state_sets, t)
          BY <2>c, <1>i, SameMoves
    <3>2. /\ TargetSets(dfa, state_sets, s) \subseteq state_sets
          /\ TargetSets(dfa, state_sets, t) \subseteq state_sets
          BY DEF TargetSets
    <3>3. QED  BY <3>1, <3>2
  <2>1. CASE PreSplit(B, p)
    <3> DEFINE M == Matching(dfa, state_sets, B, p)
    <3>1. M \subseteq B  BY DEF Matching
    <3>2. ASSUME NEW s \in State, NEW t \in State, f[s] = f[t], s \in M, t \in B
          PROVE  t \in M
      <4>1. TargetSets(dfa, state_sets, s) = TargetSets(dfa, state_sets, t)  BY <3>2, <2>c
      <4>2. QED  BY <4>1, <3>2 DEF Matching
    <3>3. Together(Extracted(state_sets, B, M), f)
      <4> HIDE DEF M
      <4>1. QED  BY <3>1, <3>2, BreakUpKeepsTogether
    <3>4. state_sets' = state_sets \/ state_sets' = Extracted(state_sets, B, M)
          BY <2>1 DEF PreSplit
    <3>5. QED  BY <3>3, <3>4
  <2>2. CASE Split(B, p)
    <3> DEFINE M == Equivalent(dfa, state_sets, B, p)
    <3>1. M \subseteq B  BY DEF Equivalent
    <3>2. ASSUME NEW s \in State, NEW t \in State, f[s] = f[t], s \in M, t \in B
          PROVE  t \in M
      <4>1. \A T \in state_sets : TriggerSet(dfa, s, T) = TriggerSet(dfa, t, T)
            BY <3>2, <2>c
      <4>2. TargetSets(dfa, state_sets, p) \subseteq state_sets  BY DEF TargetSets
      <4>3. QED  BY <4>1, <4>2, <3>2 DEF Equivalent
    <3>3. Together(Extracted(state_sets, B, M), f)
      <4> HIDE DEF M
      <4>1. QED  BY <3>1, <3>2, BreakUpKeepsTogether
    <3>4. state_sets' = state_sets \/ state_sets' = Extracted(state_sets, B, M)
          BY <2>2 DEF Split
    <3>5. QED  BY <3>3, <3>4
  <2>3. QED  BY <1>2, <2>1, <2>2
<1>3. CASE \E B \in pass : \E p \in B : PreSplit(B, p)  BY <1>3, <1>2
<1>4. CASE \E B \in Largest(pass) : \E p \in B : Split(B, p)  BY <1>4, <1>2
<1>5. QED  BY <1>1, <1>3, <1>4 DEF Next

(* No step separates states that no input can tell apart, by whatever       *)
(* colouring that is shown: the machine that is left is minimal.            *)
THEOREM StayTogether == Spec => []EquivalentStayTogether
<1> DEFINE A == AllTogether(dfa, state_sets)
<1>1. Init => A
  <2> SUFFICES ASSUME Init, NEW f \in Colourings, Congruence(dfa, f),
                      NEW s \in State, NEW t \in State, f[s] = f[t]
               PROVE  \E B \in state_sets : {s, t} \subseteq B
      BY DEF AllTogether, Together
  <2>1. {s, t} \subseteq SameKey(dfa, s)  BY DEF SameKey, Congruence
  <2>2. SameKey(dfa, s) \in state_sets  BY DEF Init
  <2>3. QED  BY <2>1, <2>2
<1>2. IInv /\ A /\ [Next]_vars => A'
  <2>1. ASSUME IInv, A, UNCHANGED vars  PROVE A'  BY <2>1 DEF vars
  <2>2. ASSUME IInv, A, Next  PROVE A'  BY <2>2, StepKeepsTogether
  <2>3. QED  BY <2>1, <2>2
<1>3. A => EquivalentStayTogether
      BY DEF EquivalentStayTogether, AllTogether, Together
<1> HIDE DEF A
<1>4. QED  BY <1>1, <1>2, <1>3, Invariant, PTL DEF Spec

-----------------------------------------------------------------------------
(***************************************************************************)
(* Equivalence: what is left after adapt_state_machine() answers every     *)
(* word as before.  The machine's way through a word is a function defined *)
(* by recursion; that it exists and that two machines go through a word    *)
(* side by side is shown by a least place where it would be otherwise.     *)
(***************************************************************************)

(* A set of numbers that is not empty has a least member.                   *)
LEMMA LeastNumber ==
    ASSUME NEW T, T \subseteq Nat, T # {}
    PROVE  \E x \in T : \A y \in T : x <= y
<1> DEFINE R == OpToRel(<, Nat)
<1>1. IsWellFoundedOn(R, Nat)  BY NatLessThanWellFounded
<1>2. \A x, y \in Nat : <<y, x>> \in R <=> y < x  BY DEF OpToRel
<1> HIDE DEF R
<1>3. \E x \in T : \A y \in T : ~ (<<y, x>> \in R)  BY <1>1, WFMin
<1>4. PICK x \in T : \A y \in T : ~ (<<y, x>> \in R)  BY <1>3
<1>5. \A y \in T : ~ (y < x)  BY <1>4, <1>2
<1>6. \A y \in T : x <= y  BY <1>5
<1>7. QED  BY <1>6

(* g lists the states through which a machine goes on the first k           *)
(* characters of word w.                                                    *)
Way(move, w, k, g) ==
    g = [n \in 0..k |->
            IF n = 0 THEN InitState
            ELSE IF g[n - 1] = NoState THEN NoState ELSE move[g[n - 1]][w[n]]]

LEMMA WayExists ==
    ASSUME NEW move, NEW w, NEW k \in Nat
    PROVE  \E g : Way(move, w, k, g)
<1> DEFINE Without == {n \in Nat : ~ \E g : Way(move, w, n, g)}
<1>1. SUFFICES ASSUME Without # {}  PROVE FALSE
      OBVIOUS
<1>2. PICK m \in Without : \A n \in Without : m <= n
  <2>1. Without \subseteq Nat  OBVIOUS
  <2> HIDE DEF Without
  <2>2. QED  BY <2>1, <1>1, LeastNumber
<1>3. m \in Nat /\ ~ \E g : Way(move, w, m, g)  OBVIOUS
<1>4. CASE m = 0
  <2> DEFINE g == [n \in 0..0 |-> InitState]
  <2>1. Way(move, w, 0, g)  BY DEF Way
  <2>2. QED  BY <2>1, <1>3, <1>4
<1>5. CASE m # 0
  <2>0. m - 1 \in Nat /\ ~ (m <= m - 1)  BY <1>3, <1>5
  <2>1. m - 1 \notin Without  BY <2>0, <1>2
  <2>2. PICK h : Way(move, w, m - 1, h)  BY <2>0, <2>1
  <2> DEFINE g == [n \in 0..m |->
                     IF n < m THEN h[n]
                     ELSE IF h[m - 1] = NoState THEN NoState ELSE move[h[m - 1]][w[m]]]
             f == [n \in 0..m |->
                     IF n = 0 THEN InitState
                     ELSE IF g[n - 1] = NoState THEN NoState ELSE move[g[n - 1]][w[n]]]
  <2>3. ASSUME NEW n \in 0..m - 1
        PROVE  h[n] = IF n = 0 THEN InitState
                      ELSE IF h[n - 1] = NoState THEN NoState ELSE move[h[n - 1]][w[n]]
        BY <2>2 DEF Way
  <2>4. ASSUME NEW n \in 0..m  PROVE g[n] = f[n]
    <3>0. n \in Nat /\ m \in Nat /\ n <= m  BY <1>3
    <3>1. CASE n < m
      <4>1. n \in 0..m - 1  BY <3>0, <3>1
      <4>2. g[n] = h[n]  BY <3>1
      <4>3. n # 0 => g[n - 1] = h[n - 1]  BY <3>0, <3>1
      <4>4. QED  BY <4>1, <4>2, <4>3, <2>3
    <3>2. CASE n = m
      <4>1. g[m] = IF h[m - 1] = NoState THEN NoState ELSE move[h[m - 1]][w[m]]
            BY <3>0
      <4>2. g[m - 1] = h[m - 1]  BY <2>0, <3>0
      <4>3. QED  BY <4>1, <4>2, <3>2, <1>5
    <3>3. QED  BY <3>0, <3>1, <3>2
  <2>5. g = f
    <3>1. DOMAIN g = 0..m /\ DOMAIN f = 0..m  OBVIOUS
    <3>2. g = [n \in 0..m |-> g[n]] /\ f = [n \in 0..m |-> f[n]]  OBVIOUS
    <3> HIDE DEF g, f
    <3>3. QED  BY <3>1, <3>2, <2>4
  <2>6. Way(move, w, m, g)  BY <2>5 DEF Way
  <2>7. QED  BY <2>6, <1>3
<1>6. QED  BY <1>4, <1>5

(* The machine's arrival is where its way through the whole word ends.      *)
LEMMA ArrivalEndsTheWay ==
    ASSUME NEW move, NEW w, Len(w) \in Nat
    PROVE  \E g : /\ Arrival(move, w) = g[Len(w)]
                  /\ g[0] = InitState
                  /\ \A n \in 1..Len(w) :
                        g[n] = IF g[n - 1] = NoState THEN NoState ELSE move[g[n - 1]][w[n]]
<1> DEFINE k == Len(w)
           g == CHOOSE h : Way(move, w, k, h)
<1>1. Way(move, w, k, g)  BY WayExists
<1>2. Arrival(move, w) = g[k]  BY DEF Arrival, Way
<1> HIDE DEF g
<1>3. g = [n \in 0..k |->
            IF n = 0 THEN InitState
            ELSE IF g[n - 1] = NoState THEN NoState ELSE move[g[n - 1]][w[n]]]
      BY <1>1 DEF Way
<1>4. ASSUME NEW n \in 0..k
      PROVE  g[n] = IF n = 0 THEN InitState
            ELSE IF g[n - 1] = NoState THEN NoState ELSE move[g[n - 1]][w[n]]
      BY <1>3
<1>5. g[0] = InitState  BY <1>4
<1>6. ASSUME NEW n \in 1..k
      PROVE  g[n] = IF g[n - 1] = NoState THEN NoState ELSE move[g[n - 1]][w[n]]
      BY <1>4
<1>7. QED  BY <1>2, <1>5, <1>6

-----------------------------------------------------------------------------
(* Two states are matched when no set keeps them apart: neither is there, or*)
(* the first one stays and both are in the same set.                        *)
Matched(sets, P, a, b) ==
    \/ a = NoState /\ b = NoState
    \/ /\ a \in P /\ b \in State
       /\ \E B \in sets : {a, b} \subseteq B

(* The result of adapt_state_machine() for the states P that stay.          *)
Adapted(P) ==
    /\ Prototypes(P)
    /\ result = [states |-> P,
                 move   |-> [s \in P |-> [c \in Char |-> Replacement(P, dfa.move[s][c])]]]

AdaptedIsMatched == phase = "adapted" => \E P \in SUBSET State : Adapted(P)

(* What replaces a target is matched with it.                               *)
LEMMA ReplacementMatches ==
    ASSUME Partition(state_sets), NEW P \in SUBSET State, Prototypes(P),
           NEW t \in State \cup {NoState}
    PROVE  Matched(state_sets, P, Replacement(P, t), t)
<1>1. CASE t = NoState  BY <1>1 DEF Matched, Replacement
<1>2. CASE t # NoState
  <2>1. PICK B \in state_sets : t \in B  BY <1>2 DEF Partition
  <2>2. PICK p \in B : P \cap B = {p}
    <3>1. Single(P \cap B)  BY <2>1 DEF Prototypes
    <3>2. QED  BY <3>1 DEF Single
  <2>3. p \in P /\ {p, t} \subseteq B  BY <2>1, <2>2
  <2>4. \E q \in P : \E C \in state_sets : {q, t} \subseteq C  BY <2>3
  <2>5. /\ Replacement(P, t) \in P
        /\ \E C \in state_sets : {Replacement(P, t), t} \subseteq C
        BY <2>4, <1>2 DEF Replacement
  <2>6. QED  BY <2>5, <1>2 DEF Matched
<1>3. QED  BY <1>1, <1>2

(* Matched states lead to matched states, since the sets are stable.        *)
LEMMA MatchedMove ==
    ASSUME dfa \in Machine, Partition(state_sets),
           \A B \in state_sets : Stable(dfa, state_sets, B),
           NEW P \in SUBSET State, Adapted(P), NEW a, NEW b, NEW c \in Char,
           Matched(state_sets, P, a, b)
    PROVE  Matched(state_sets, P, IF a = NoState THEN NoState ELSE result.move[a][c],
                                  IF b = NoState THEN NoState ELSE dfa.move[b][c])
<1>n. NoState \notin State  BY MachinesAssumption
<1>1. CASE a = NoState
  <2>1. b = NoState  BY <1>1, <1>n DEF Matched
  <2>2. QED  BY <1>1, <2>1 DEF Matched
<1>2. CASE a # NoState
  <2>0. a \in P /\ a \in State /\ b \in State /\ b # NoState  BY <1>2, <1>n DEF Matched
  <2>1. PICK B \in state_sets : {a, b} \subseteq B  BY <1>2 DEF Matched
  <2> DEFINE s == dfa.move[a][c]
             t == dfa.move[b][c]
             r == Replacement(P, s)
  <2>2. s \in State \cup {NoState} /\ t \in State \cup {NoState}
        BY <2>0 DEF Machine, Target
  <2>3. result.move[a][c] = r  BY <2>0 DEF Adapted
  <2>4. SamePlace(state_sets, dfa, a, b, c)  BY <2>1 DEF Stable
  <2>5. Matched(state_sets, P, r, s)
    <3>1. Prototypes(P)  BY DEF Adapted
    <3> HIDE DEF s
    <3>2. QED  BY <3>1, <2>2, ReplacementMatches
  <2>6. (s = NoState /\ t = NoState) \/ \E T \in state_sets : s \in T /\ t \in T
        BY <2>4 DEF SamePlace
  <2> HIDE DEF s, t, r
  <2>7. Matched(state_sets, P, r, t)
    <3>1. CASE s = NoState /\ t = NoState  BY <3>1, <2>5
    <3>2. CASE \E T \in state_sets : s \in T /\ t \in T
      <4>1. PICK T \in state_sets : s \in T /\ t \in T  BY <3>2
      <4>2. T \subseteq State  BY DEF Partition
      <4>3. s # NoState  BY <4>1, <4>2, <1>n
      <4>4. PICK C \in state_sets : {r, s} \subseteq C  BY <2>5, <4>3 DEF Matched
      <4>5. C = T  BY <4>1, <4>4 DEF Partition
      <4>6. r \in P  BY <2>5, <4>3 DEF Matched
      <4>7. t \in State /\ {r, t} \subseteq T  BY <4>1, <4>2, <4>4, <4>5
      <4>8. QED  BY <4>6, <4>7 DEF Matched
    <3>3. QED  BY <2>6, <3>1, <3>2
  <2>8. QED  BY <2>7, <2>3, <2>0, <1>2 DEF t
<1>3. QED  BY <1>1, <1>2

(* The machine that is left and the original arrive at matched states.      *)
LEMMA ArriveMatched ==
    ASSUME dfa \in Machine, Partition(state_sets),
           \A B \in state_sets : Stable(dfa, state_sets, B),
           NEW P \in SUBSET State, Adapted(P),
           NEW w, Len(w) \in Nat, \A n \in 1..Len(w) : w[n] \in Char
    PROVE  Matched(state_sets, P, Arrival(result.move, w), Arrival(dfa.move, w))
<1>1. PICK g : /\ Arrival(result.move, w) = g[Len(w)]
               /\ g[0] = InitState
               /\ \A n \in 1..Len(w) :
                     g[n] = IF g[n - 1] = NoState THEN NoState ELSE result.move[g[n - 1]][w[n]]
      BY ArrivalEndsTheWay
<1>2. PICK h : /\ Arrival(dfa.move, w) = h[Len(w)]
               /\ h[0] = InitState
               /\ \A n \in 1..Len(w) :
                     h[n] = IF h[n - 1] = NoState THEN NoState ELSE dfa.move[h[n - 1]][w[n]]
      BY ArrivalEndsTheWay
<1> DEFINE Apart == {n \in 0..Len(w) : ~ Matched(state_sets, P, g[n], h[n])}
<1>3. Apart \subseteq Nat  OBVIOUS
<1>4. ASSUME Apart # {}  PROVE FALSE
  <2>1. PICK m \in Apart : \A n \in Apart : m <= n
    <3> HIDE DEF Apart
    <3>1. QED  BY <1>3, <1>4, LeastNumber
  <2>2. m \in 0..Len(w) /\ ~ Matched(state_sets, P, g[m], h[m])  OBVIOUS
  <2>3. CASE m = 0
    <3>1. InitState \in P /\ InitState \in State
          BY MachinesAssumption DEF Adapted, Prototypes
    <3>2. PICK B \in state_sets : InitState \in B  BY <3>1 DEF Partition
    <3>3. Matched(state_sets, P, InitState, InitState)  BY <3>1, <3>2 DEF Matched
    <3>4. QED  BY <3>3, <2>2, <2>3, <1>1, <1>2
  <2>4. CASE m # 0
    <3>1. m \in 1..Len(w) /\ m - 1 \in 0..Len(w) /\ ~ (m <= m - 1)  BY <2>2, <2>4
    <3>2. m - 1 \notin Apart  BY <3>1, <2>1
    <3>3. Matched(state_sets, P, g[m - 1], h[m - 1])  BY <3>1, <3>2
    <3>4. w[m] \in Char  BY <3>1
    <3>5. Matched(state_sets, P,
                  IF g[m - 1] = NoState THEN NoState ELSE result.move[g[m - 1]][w[m]],
                  IF h[m - 1] = NoState THEN NoState ELSE dfa.move[h[m - 1]][w[m]])
          BY <3>3, <3>4, MatchedMove
    <3>6. QED  BY <3>1, <3>5, <2>2, <1>1, <1>2
  <2>5. QED  BY <2>3, <2>4
<1>5. Len(w) \in 0..Len(w)  OBVIOUS
<1>6. QED  BY <1>4, <1>5, <1>1, <1>2

(* Whatever machine is minimised and whatever word it reads: the machine    *)
(* that is left gives the verdict of the original.                          *)
THEOREM AnswersAsBefore == Spec => []ResultEquivalent
<1>1. Init => AdaptedIsMatched  BY DEF Init, AdaptedIsMatched
<1>2. AdaptedIsMatched /\ [Next]_vars => AdaptedIsMatched'
  <2> SUFFICES ASSUME AdaptedIsMatched, [Next]_vars  PROVE AdaptedIsMatched'
      OBVIOUS
  <2>1. CASE UNCHANGED vars
        BY <2>1 DEF vars, AdaptedIsMatched, Adapted, Prototypes, Replacement
  <2>2. CASE Loop \/ NextRound \/ StartSplit \/ EndSplit
        BY <2>2 DEF Loop, NextRound, StartSplit, EndSplit, AdaptedIsMatched
  <2>3. CASE \E B \in pass : \E p \in B : PreSplit(B, p)
        BY <2>3 DEF PreSplit, AdaptedIsMatched
  <2>4. CASE \E B \in Largest(pass) : \E p \in B : Split(B, p)
        BY <2>4 DEF Split, AdaptedIsMatched
  <2>5. ASSUME NEW P \in SUBSET State, Adapt(P)  PROVE AdaptedIsMatched'
    <3>1. Adapted(P)'  BY <2>5 DEF Adapt, Adapted, Prototypes, Replacement
    <3>2. QED  BY <3>1 DEF AdaptedIsMatched
  <2>6. QED  BY <2>1, <2>2, <2>3, <2>4, <2>5 DEF Next
<1>3. IInv /\ AdaptedIsMatched => ResultEquivalent
  <2> SUFFICES ASSUME IInv, AdaptedIsMatched, phase = "adapted"
               PROVE  /\ InitState \in result.states
                      /\ \A s \in result.states : \A c \in Char :
                             result.move[s][c] \in result.states \cup {NoState}
                      /\ \A w \in Words : Verdict(w, result.move) = Verdict(w, dfa.move)
      BY DEF ResultEquivalent
  <2>1. PICK P \in SUBSET State : Adapted(P)  BY DEF AdaptedIsMatched
  <2>2. /\ dfa \in Machine /\ Partition(state_sets)
        /\ \A B \in state_sets : Stable(dfa, state_sets, B)
        BY DEF IInv, Sound, FinishedMeansStable
  <2>3. result.states = P /\ InitState \in P  BY <2>1 DEF Adapted, Prototypes
  <2>4. ASSUME NEW s \in P, NEW c \in Char  PROVE result.move[s][c] \in P \cup {NoState}
    <3>1. result.move[s][c] = Replacement(P, dfa.move[s][c])  BY <2>1 DEF Adapted
    <3>2. dfa.move[s][c] \in State \cup {NoState}  BY <2>2 DEF Machine, Target
    <3>3. Matched(state_sets, P, Replacement(P, dfa.move[s][c]), dfa.move[s][c])
          BY <2>1, <2>2, <3>2, ReplacementMatches DEF Adapted
    <3>4. QED  BY <3>1, <3>3 DEF Matched
  <2>5. ASSUME NEW w \in Words  PROVE Verdict(w, result.move) = Verdict(w, dfa.move)
    <3>1. PICK n \in 0..Cardinality(State) : w \in [1..n -> Char]  BY DEF Words
    <3>2. Cardinality(State) \in Nat  BY MachinesAssumption, FS_CardinalityType
    <3>3. n \in Nat /\ Len(w) = n
      <4>1. n \in Nat  BY <3>2
      <4>2. w \in Seq(Char)  BY <4>1, <3>1, SeqDef
      <4>3. DOMAIN w = 1..n  BY <3>1
      <4>4. QED  BY <4>1, <4>2, <4>3, LenProperties
    <3>4. \A i \in 1..Len(w) : w[i] \in Char  BY <3>1, <3>3
    <3>5. Matched(state_sets, P, Arrival(result.move, w), Arrival(dfa.move, w))
          BY <2>1, <2>2, <3>3, <3>4, ArriveMatched
    <3> DEFINE a == Arrival(result.move, w)
               b == Arrival(dfa.move, w)
    <3>6. Verdict(w, result.move) = IF a = NoState THEN NoState ELSE dfa.key[a]
          BY DEF Verdict
    <3>7. Verdict(w, dfa.move) = IF b = NoState THEN NoState ELSE dfa.key[b]
          BY DEF Verdict
    <3> HIDE DEF a, b
    <3>8. CASE a = NoState /\ b = NoState  BY <3>8, <3>6, <3>7
    <3>9. CASE \E B \in state_sets : {a, b} \subseteq B
      <4>1. a # NoState /\ b # NoState  BY <3>9, MachinesAssumption, <2>2 DEF Partition
      <4>2. dfa.key[a] = dfa.key[b]  BY <3>9, <2>2 DEF Stable
      <4>3. QED  BY <4>1, <4>2, <3>6, <3>7
    <3>10. Matched(state_sets, P, a, b)  BY <3>5 DEF a, b
    <3>11. QED  BY <3>8, <3>9, <3>10 DEF Matched
  <2>6. QED  BY <2>3, <2>4, <2>5
<1>4. QED  BY <1>1, <1>2, <1>3, Invariant, PTL DEF Spec
=============================================================================
