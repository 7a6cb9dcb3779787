------------------------- MODULE PatternChecksProofs -------------------------
(***************************************************************************)
(* What a check of two patterns discovers is so, for any machines: the     *)
(* walk never leaves the places that both machines reach together.  And    *)
(* where each state is met in one company only nothing is overlooked.      *)
(***************************************************************************)
EXTENDS PatternChecks, TLAPS

(* The places a node of the walk stands for.                                *)
InPlace(x, R) ==
    IF Dives THEN x.target \in Targets(B, x.si) /\ \A p \in x.list : <<1, p, x.si>> \in R
    ELSE <<walk, x[1], x[2]>> \in R

Shown(R) == \E x \in R : Evidence(x[1], x[2], x[3])

Inside(R) ==
    /\ \A i \in DOMAIN stack : \A x \in stack[i] : InPlace(x, R)
    /\ \A x \in found : <<2, x[1], x[2]>> \in R
    /\ verdict = Discovery => Shown(R)

(* found is used by outrun only.                                            *)
FoundOfOutrun == found # {} => problem.check = "outrun"
WalkOfOutrun == walk = 2 => problem.check = "outrun"

IInv == /\ TypeOK /\ FoundOfOutrun /\ WalkOfOutrun
        /\ \A R \in SUBSET Place : Closed(R) => Inside(R)

-----------------------------------------------------------------------------
(* What a step leaves of the levels of the walk: nodes that were there, and *)
(* those of the level that is added.                                        *)
Levelled(N, st) == st \in Seq((SUBSET N) \ {{}})

FromEither(s, t) ==
    \A i \in DOMAIN (s \o t) :
        \/ \E j \in DOMAIN s : (s \o t)[i] = s[j]
        \/ \E j \in DOMAIN t : (s \o t)[i] = t[j]

LEMMA LevelIsLevelled ==
    ASSUME NEW N, NEW S \in SUBSET N
    PROVE  /\ Levelled(N, Level(S))
           /\ \A i \in DOMAIN Level(S) : Level(S)[i] = S
<1>1. CASE S = {} BY <1>1 DEF Level, Levelled
<1>2. CASE S # {}
  <2>1. Level(S) = <<S>> BY <1>2 DEF Level
  <2>2. S \in (SUBSET N) \ {{}} BY <1>2
  <2>3. <<S>> \in Seq((SUBSET N) \ {{}}) BY <2>2
  <2>4. DOMAIN <<S>> = {1} /\ <<S>>[1] = S OBVIOUS
  <2> QED BY <2>1, <2>3, <2>4 DEF Levelled
<1> QED BY <1>1, <1>2

LEMMA Joined ==
    ASSUME NEW N, NEW s, NEW t, Levelled(N, s), Levelled(N, t)
    PROVE  Levelled(N, s \o t) /\ FromEither(s, t)
<1>1. s \o t \in Seq((SUBSET N) \ {{}}) BY DEF Levelled
<1>2. ASSUME NEW i \in DOMAIN (s \o t)
      PROVE  \/ \E j \in DOMAIN s : (s \o t)[i] = s[j]
             \/ \E j \in DOMAIN t : (s \o t)[i] = t[j]
  <2>1. i \in 1 .. Len(s) + Len(t) BY <1>2 DEF Levelled
  <2>2. CASE i <= Len(s)
    <3>1. i \in DOMAIN s /\ (s \o t)[i] = s[i] BY <2>1, <2>2 DEF Levelled
    <3> QED BY <3>1
  <2>3. CASE i > Len(s)
    <3>1. Len(s) \in Nat /\ Len(t) \in Nat BY DEF Levelled
    <3>2. i - Len(s) \in 1 .. Len(t) BY <2>1, <2>3, <3>1
    <3>3. DOMAIN t = 1 .. Len(t) BY DEF Levelled
    <3>4. (s \o t)[i] = t[i - Len(s)] BY <2>1, <2>3, <3>1 DEF Levelled
    <3> QED BY <3>2, <3>3, <3>4
  <2> QED BY <2>1, <2>2, <2>3 DEF Levelled
<1> QED BY <1>1, <1>2 DEF Levelled, FromEither

LEMMA WhatIsLeft ==
    ASSUME NEW N, Levelled(N, stack), stack # <<>>, NEW x
    PROVE  /\ Levelled(N, Without(x))
           /\ \A i \in DOMAIN Without(x) : \E j \in DOMAIN stack : Without(x)[i] \subseteq stack[j]
<1> DEFINE rest == SubSeq(stack, 1, Len(stack) - 1)
           last == stack[Len(stack)] \ {x}
<1>1. /\ Levelled(N, rest)
      /\ \A i \in DOMAIN rest : i \in DOMAIN stack /\ rest[i] = stack[i]
  BY DEF Levelled
<1>2. Len(stack) \in DOMAIN stack /\ last \in SUBSET N BY DEF Levelled
<1>3. /\ Levelled(N, Level(last))
      /\ \A i \in DOMAIN Level(last) : Level(last)[i] = last
  BY <1>2, LevelIsLevelled
<1>4. Without(x) = rest \o Level(last) BY DEF Without
<1>5. last \subseteq stack[Len(stack)] OBVIOUS
<1> HIDE DEF rest, last
<1>6. Levelled(N, rest \o Level(last)) /\ FromEither(rest, Level(last))
  BY <1>1, <1>3, Joined
<1> QED BY <1>1, <1>2, <1>3, <1>4, <1>5, <1>6 DEF FromEither

LEMMA WhatIsAdded ==
    ASSUME NEW N, Levelled(N, stack), stack # <<>>, NEW x, NEW S \in SUBSET N
    PROVE  /\ Levelled(N, Without(x) \o Level(S))
           /\ \A i \in DOMAIN (Without(x) \o Level(S)) : \A y \in (Without(x) \o Level(S))[i] :
                 y \in S \/ \E j \in DOMAIN stack : y \in stack[j]
<1>1. /\ Levelled(N, Without(x))
      /\ \A i \in DOMAIN Without(x) : \E j \in DOMAIN stack : Without(x)[i] \subseteq stack[j]
  BY WhatIsLeft
<1>2. /\ Levelled(N, Level(S))
      /\ \A i \in DOMAIN Level(S) : Level(S)[i] = S
  BY LevelIsLevelled
<1>3. Levelled(N, Without(x) \o Level(S)) /\ FromEither(Without(x), Level(S))
  BY <1>1, <1>2, Joined
<1> QED BY <1>1, <1>2, <1>3 DEF FromEither

-----------------------------------------------------------------------------
(* Steps. *)

Marked(x, S) ==
    /\ stack' = Without(x) \o Level(S)
    /\ UNCHANGED <<problem, walk, verdict>>
    /\ visited' \subseteq State

LEMMA ProblemTyped ==
    ASSUME TypeOK PROVE problem \in Problem
BY ProblemsAssumption DEF TypeOK

LEMMA TargetsAreStates ==
    ASSUME TypeOK, NEW s \in State
    PROVE  /\ Targets(A, s) \subseteq State /\ Targets(B, s) \subseteq State
           /\ Moves(A, s) \subseteq Char /\ Moves(B, s) \subseteq Char
           /\ \A c \in Moves(A, s) : A.move[s][c] \in State
           /\ \A c \in Moves(B, s) : B.move[s][c] \in State
<1>1. problem \in Problem BY ProblemTyped
<1> QED BY <1>1, SMT DEF Problem, Machine, Targets, Moves, A, B

LEMMA EdgesTyped ==
    ASSUME TypeOK, NEW s \in State, NEW L \in SUBSET State, Dives
    PROVE  Edges(s, L) \in SUBSET Nodes
<1>1. Targets(B, s) \subseteq State BY TargetsAreStates
<1> QED BY <1>1 DEF Edges, Edge, Nodes

LEMMA CompanionsTyped ==
    ASSUME TypeOK, Dives, NEW e \in Nodes
    PROVE  Companions(e) \in SUBSET State
<1>1. problem \in Problem BY ProblemTyped
<1>2. e.list \subseteq State BY DEF Nodes
<1> QED BY <1>1, <1>2 DEF Companions, Resulting, Into, Problem, Machine, A

LEMMA CommonTyped ==
    ASSUME ~ Dives, NEW p, NEW s
    PROVE  Common(p, s) \in SUBSET Nodes
BY DEF Common, Nodes

(* After a node is left out, and after a level is added.                    *)
LEMMA LeftTyped ==
    ASSUME TypeOK, stack # <<>>, NEW x, stack' = Without(x),
           UNCHANGED <<problem, visited, found, walk, verdict>>
    PROVE  TypeOK'
<1>1. Levelled(Nodes, stack) BY DEF TypeOK, Levelled
<1>2. Levelled(Nodes, Without(x)) BY <1>1, WhatIsLeft
<1>3. Nodes' = Nodes BY DEF Nodes, Dives
<1> QED BY <1>2, <1>3 DEF TypeOK, Levelled

LEMMA AddedTyped ==
    ASSUME TypeOK, stack # <<>>, NEW x, NEW S \in SUBSET Nodes, Marked(x, S),
           found' \subseteq State \X State
    PROVE  TypeOK'
<1>1. Levelled(Nodes, stack) BY DEF TypeOK, Levelled
<1>2. Levelled(Nodes, Without(x) \o Level(S)) BY <1>1, WhatIsAdded
<1>3. Nodes' = Nodes BY DEF Nodes, Dives, Marked
<1> QED BY <1>2, <1>3 DEF TypeOK, Levelled, Marked

LEMMA ReturnTyped ==
    ASSUME TypeOK, NEW v \in {"yes", "no"}, Return(v)
    PROVE  TypeOK'
BY DEF TypeOK, Return, Nodes, Dives

-----------------------------------------------------------------------------
(* Each kind of step keeps the walk inside of R.                            *)

LEMMA SameMeaning ==
    ASSUME UNCHANGED <<problem, walk>>, NEW R, NEW x
    PROVE  /\ InPlace(x, R)' <=> InPlace(x, R)
           /\ Shown(R)' <=> Shown(R)
           /\ Closed(R)' <=> Closed(R)
           /\ Discovery' = Discovery
BY DEF InPlace, Dives, Shown, Evidence, Closed, Discovery, Targets, Moves, Diverts, A, B

LEMMA LeftInside ==
    ASSUME TypeOK, stack # <<>>, NEW x, NEW R, Inside(R), stack' = Without(x),
           UNCHANGED <<problem, visited, found, walk, verdict>>
    PROVE  Inside(R)'
<1>1. \A i \in DOMAIN Without(x) : \E j \in DOMAIN stack : Without(x)[i] \subseteq stack[j]
  BY WhatIsLeft DEF TypeOK, Levelled
<1>2. \A y : InPlace(y, R)' <=> InPlace(y, R) BY SameMeaning
<1>3. (Shown(R)' <=> Shown(R)) /\ Discovery' = Discovery BY SameMeaning
<1>4. \A i \in DOMAIN Without(x) : \A y \in Without(x)[i] : InPlace(y, R)
  BY <1>1 DEF Inside
<1>5. \A i \in DOMAIN stack' : \A y \in stack'[i] : InPlace(y, R)' BY <1>2, <1>4
<1>6. \A y \in found' : <<2, y[1], y[2]>> \in R BY DEF Inside
<1>7. verdict' = Discovery' => Shown(R)' BY <1>3 DEF Inside
<1> QED BY <1>5, <1>6, <1>7 DEF Inside

LEMMA AddedInside ==
    ASSUME TypeOK, stack # <<>>, NEW x, NEW S \in SUBSET Nodes, Marked(x, S),
           NEW R, Inside(R),
           \A y \in S : InPlace(y, R),
           \A y \in found' : <<2, y[1], y[2]>> \in R
    PROVE  Inside(R)'
<1> DEFINE st == Without(x) \o Level(S)
<1>1. \A i \in DOMAIN st : \A y \in st[i] :
         y \in S \/ \E j \in DOMAIN stack : y \in stack[j]
  <2>1. Levelled(Nodes, stack) BY DEF TypeOK, Levelled
  <2> QED BY <2>1, WhatIsAdded
<1>2. \A y : InPlace(y, R)' <=> InPlace(y, R) BY SameMeaning DEF Marked
<1>3. (Shown(R)' <=> Shown(R)) /\ Discovery' = Discovery BY SameMeaning DEF Marked
<1>4. stack' = st BY DEF Marked
<1> HIDE DEF st
<1>5. \A i \in DOMAIN st : \A y \in st[i] : InPlace(y, R) BY <1>1 DEF Inside
<1>6. \A i \in DOMAIN stack' : \A y \in stack'[i] : InPlace(y, R)' BY <1>2, <1>4, <1>5
<1>7. verdict' = Discovery' => Shown(R)' BY <1>3 DEF Inside, Marked
<1> QED BY <1>6, <1>7 DEF Inside

LEMMA ReturnInside ==
    ASSUME NEW v, Return(v), NEW R, Inside(R), v = Discovery => Shown(R)
    PROVE  Inside(R)'
<1>1. \A y : InPlace(y, R)' <=> InPlace(y, R) BY SameMeaning DEF Return
<1>2. (Shown(R)' <=> Shown(R)) /\ Discovery' = Discovery BY SameMeaning DEF Return
<1>3. \A i \in DOMAIN stack' : \A y \in stack'[i] : InPlace(y, R)' BY <1>1 DEF Inside, Return
<1>4. \A y \in found' : <<2, y[1], y[2]>> \in R BY DEF Inside, Return
<1>5. verdict' = Discovery' => Shown(R)' BY <1>2 DEF Return
<1> QED BY <1>3, <1>4, <1>5 DEF Inside

-----------------------------------------------------------------------------
(* Along an edge: superset and identity. *)

LEMMA EdgePlaces ==
    ASSUME TypeOK, Dives, NEW e \in Nodes, NEW R, Closed(R), InPlace(e, R)
    PROVE  \A q \in Companions(e) : <<1, q, e.target>> \in R
<1> SUFFICES ASSUME NEW p \in e.list, NEW c \in Into(B, e.si, e.target),
                    A.move[p][c] # NoState
             PROVE  <<1, A.move[p][c], e.target>> \in R
  BY DEF Companions, Resulting
<1>1. p \in State /\ e.si \in State /\ e.target \in State BY DEF Nodes
<1>2. c \in Char /\ B.move[e.si][c] = e.target BY DEF Into
<1>3. c \in Moves(A, p) \cap Moves(B, e.si) BY <1>1, <1>2, ProblemsAssumption DEF Moves
<1>4. <<1, p, e.si>> \in R BY DEF InPlace
<1>5. problem.check # "outrun" BY DEF Dives
<1> QED BY <1>1, <1>2, <1>3, <1>4, <1>5 DEF Closed

LEMMA EdgesInPlace ==
    ASSUME TypeOK, Dives, NEW s, NEW L, NEW R, \A p \in L : <<1, p, s>> \in R
    PROVE  \A y \in Edges(s, L) : InPlace(y, R)
BY DEF Edges, Edge, InPlace

LEMMA UnsupportedShows ==
    ASSUME TypeOK, Dives, NEW e \in Nodes, NEW R, InPlace(e, R), ~ Supported(e)
    PROVE  Shown(R)
<1> DEFINE C == Into(B, e.si, e.target)
<1>1. e.si \in State /\ e.target \in State /\ e.list \subseteq State BY DEF Nodes
<1>2. \A c \in C : c \in Moves(B, e.si) /\ B.move[e.si][c] = e.target
  BY <1>1, ProblemsAssumption DEF Into, Moves
<1>3. \A p \in e.list : <<1, p, e.si>> \in R BY DEF InPlace
<1>4. \A q \in Companions(e) : \E p \in e.list, c \in C : q = A.move[p][c] /\ q # NoState
  BY DEF Companions, Resulting
<1> HIDE DEF C
<1>5. CASE problem.check = "superset"
  <2>1. \/ \E p \in e.list, c \in C : c \notin Moves(A, p)
        \/ e.target \in B.accept /\ \E q \in Companions(e) : q \notin A.accept
    BY <1>5 DEF Supported, Covered, Companions, C
  <2>2. \E p \in e.list, c \in C :
           \/ c \notin Moves(A, p)
           \/ e.target \in B.accept /\ A.move[p][c] \notin A.accept
    <3>1. CASE \E p \in e.list, c \in C : c \notin Moves(A, p) BY <3>1
    <3>2. CASE e.target \in B.accept /\ \E q \in Companions(e) : q \notin A.accept
      <4> PICK q \in Companions(e) : q \notin A.accept BY <3>2
      <4> PICK r \in e.list, c \in C : q = A.move[r][c] BY <1>4
      <4> QED BY <3>2
    <3> QED BY <2>1, <3>1, <3>2
  <2>3. \E p \in e.list : Evidence(1, p, e.si) BY <2>2, <1>2, <1>5 DEF Evidence
  <2> QED BY <2>3, <1>3 DEF Shown
<1>6. CASE problem.check = "identity"
  <2>1. \E q \in Companions(e) : ~ (q \in A.accept <=> e.target \in B.accept)
    BY <1>6 DEF Supported, Companions
  <2> PICK q \in Companions(e) : ~ (q \in A.accept <=> e.target \in B.accept) BY <2>1
  <2> PICK r \in e.list, c \in C : q = A.move[r][c] BY <1>4
  <2>2. ~ (e.target \in B.accept <=> A.move[r][c] \in A.accept) OBVIOUS
  <2>3. \E p \in e.list : Evidence(1, p, e.si) BY <2>2, <1>2, <1>6 DEF Evidence
  <2> QED BY <2>3, <1>3 DEF Shown
<1> QED BY <1>5, <1>6 DEF Dives

LEMMA UnenterableShows ==
    ASSUME TypeOK, Dives, NEW s, NEW L, NEW R, \A p \in L : <<1, p, s>> \in R,
           ~ Enterable(s, L)
    PROVE  Shown(R)
<1>1. problem.check = "identity" /\ \E p \in L : Moves(A, p) # Moves(B, s)
  BY DEF Enterable, Dives
<1>2. \E p \in L : Evidence(1, p, s) BY <1>1 DEF Evidence
<1> QED BY <1>2 DEF Shown

LEMMA EdgeKeeps ==
    ASSUME TypeOK, stack # <<>>, Dives, NEW e \in Nodes, FollowEdge(e)
    PROVE  /\ TypeOK'
           /\ \A R \in SUBSET Place : Closed(R) /\ Inside(R) /\ InPlace(e, R) => Inside(R)'
<1> DEFINE S == Edges(e.target, Companions(e))
<1>1. e.target \in State BY DEF Nodes
<1>2. S \in SUBSET Nodes BY <1>1, CompanionsTyped, EdgesTyped
<1>3. CASE ~ Supported(e)
  <2>1. Return("no") BY <1>3 DEF FollowEdge
  <2> QED BY <2>1, <1>3, ReturnTyped, ReturnInside, UnsupportedShows
<1>4. CASE Supported(e) /\ e.target \in visited
  <2>1. stack' = Without(e) /\ UNCHANGED <<problem, visited, found, walk, verdict>>
    BY <1>4 DEF FollowEdge
  <2> QED BY <2>1, LeftTyped, LeftInside
<1>5. CASE Supported(e) /\ e.target \notin visited /\ ~ Enterable(e.target, Companions(e))
  <2>1. Return("no") BY <1>5 DEF FollowEdge
  <2>2. \A R : Closed(R) /\ InPlace(e, R) => Shown(R) BY <1>5, EdgePlaces, UnenterableShows
  <2> QED BY <2>1, <2>2, ReturnTyped, ReturnInside
<1>6. CASE Supported(e) /\ e.target \notin visited /\ Enterable(e.target, Companions(e))
  <2>1. Dive(e) BY <1>6 DEF FollowEdge
  <2>2. Marked(e, S) BY <2>1, <1>1 DEF Dive, Marked, TypeOK
  <2>3. found' = found /\ found' \subseteq State \X State BY <2>1 DEF Dive, TypeOK
  <2>4. \A R : Closed(R) /\ InPlace(e, R) => \A y \in S : InPlace(y, R)
    BY EdgePlaces, EdgesInPlace
  <2> HIDE DEF S
  <2>5. TypeOK' BY <1>2, <2>2, <2>3, AddedTyped
  <2>6. ASSUME NEW R \in SUBSET Place, Closed(R), Inside(R), InPlace(e, R)
        PROVE  Inside(R)'
    <3>1. \A y \in found' : <<2, y[1], y[2]>> \in R BY <2>3, <2>6 DEF Inside
    <3>2. \A y \in S : InPlace(y, R) BY <2>4, <2>6
    <3> QED BY <1>2, <2>2, <2>6, <3>1, <3>2, AddedInside
  <2> QED BY <2>5, <2>6
<1> QED BY <1>3, <1>4, <1>5, <1>6

-----------------------------------------------------------------------------
(* Over pairs of states: is_disjoint and outrun. *)

LEMMA PairsInPlace ==
    ASSUME TypeOK, ~ Dives, NEW x \in State \X State, NEW R, Closed(R), InPlace(x, R),
           ~ (problem.check = "outrun" /\ walk = 1 /\ x[1] \in A.accept)
    PROVE  \A y \in Common(x[1], x[2]) : InPlace(y, R)
<1> SUFFICES ASSUME NEW y \in State \X State, NEW c \in Char,
                    A.move[x[1]][c] = y[1], B.move[x[2]][c] = y[2]
             PROVE  <<walk, y[1], y[2]>> \in R
  BY DEF Common, Into, InPlace
<1>1. c \in Moves(A, x[1]) \cap Moves(B, x[2]) BY ProblemsAssumption DEF Moves
<1>2. <<walk, x[1], x[2]>> \in R /\ walk \in {1, 2} BY DEF InPlace, TypeOK
<1> QED BY <1>1, <1>2 DEF Closed

LEMMA PairKeeps ==
    ASSUME TypeOK, stack # <<>>, ~ Dives, NEW x \in Nodes,
           EnterSame(x) \/ EnterCommonality(x) \/ EnterDiversion(x)
    PROVE  /\ TypeOK'
           /\ \A R \in SUBSET Place : Closed(R) /\ Inside(R) /\ InPlace(x, R) => Inside(R)'
<1>1. x \in State \X State /\ Key(x) \in State BY DEF Nodes, Key
<1>2. Common(x[1], x[2]) \in SUBSET Nodes BY CommonTyped
<1>3. \A S : Descend(x, S) => Marked(x, S) BY <1>1 DEF Descend, Marked, TypeOK
<1>4. found \subseteq State \X State BY DEF TypeOK
<1>5. ASSUME NEW v \in {"yes", "no"}, Return(v), NEW i, <<i, x[1], x[2]>> = <<walk, x[1], x[2]>>,
             Evidence(i, x[1], x[2])
      PROVE  /\ TypeOK'
             /\ \A R \in SUBSET Place : Closed(R) /\ Inside(R) /\ InPlace(x, R) => Inside(R)'
  <2>1. \A R : InPlace(x, R) => Shown(R) BY <1>5 DEF InPlace, Shown
  <2> QED BY <1>5, <2>1, ReturnTyped, ReturnInside
<1>6. ASSUME Descend(x, Common(x[1], x[2])), found' = found,
             ~ (problem.check = "outrun" /\ walk = 1 /\ x[1] \in A.accept)
      PROVE  /\ TypeOK'
             /\ \A R \in SUBSET Place : Closed(R) /\ Inside(R) /\ InPlace(x, R) => Inside(R)'
  <2>1. Marked(x, Common(x[1], x[2])) BY <1>3, <1>6
  <2>2. TypeOK' BY <1>2, <1>4, <1>6, <2>1, AddedTyped
  <2>3. ASSUME NEW R \in SUBSET Place, Closed(R), Inside(R), InPlace(x, R)
        PROVE  Inside(R)'
    <3>1. \A y \in found' : <<2, y[1], y[2]>> \in R BY <1>6, <2>3 DEF Inside
    <3>2. \A y \in Common(x[1], x[2]) : InPlace(y, R) BY <1>1, <1>6, <2>3, PairsInPlace
    <3> QED BY <1>2, <2>1, <2>3, <3>1, <3>2, AddedInside
  <2> QED BY <2>2, <2>3
<1>7. CASE EnterSame(x)
  <2>1. CASE x[1] \in A.accept /\ x[2] \in B.accept
    <3>1. Return("no") /\ Evidence(walk, x[1], x[2]) BY <1>7, <2>1 DEF EnterSame, Evidence
    <3> QED BY <3>1, <1>5
  <2>2. CASE ~ (x[1] \in A.accept /\ x[2] \in B.accept)
    BY <1>7, <2>2, <1>6 DEF EnterSame
  <2> QED BY <2>1, <2>2
<1>8. CASE EnterCommonality(x)
  <2>1. CASE x[1] \in A.accept
    <3>1. Marked(x, {}) /\ found' = found \cup {x} BY <1>3, <1>8, <2>1 DEF EnterCommonality
    <3>2. TypeOK' BY <1>1, <1>4, <3>1, AddedTyped
    <3>3. ASSUME NEW R \in SUBSET Place, Closed(R), Inside(R), InPlace(x, R)
          PROVE  Inside(R)'
      <4>1. <<1, x[1], x[2]>> \in R BY <1>8, <3>3 DEF EnterCommonality, InPlace
      <4>2. problem.check = "outrun" BY <1>8 DEF EnterCommonality
      <4>3. <<2, x[1], x[2]>> \in R BY <1>1, <2>1, <3>3, <4>1, <4>2 DEF Closed
      <4>4. \A y \in found' : <<2, y[1], y[2]>> \in R BY <3>1, <3>3, <4>3 DEF Inside
      <4>5. {} \in SUBSET Nodes OBVIOUS
      <4>6. \A y \in {} : InPlace(y, R) OBVIOUS
      <4> QED BY <3>1, <3>3, <4>4, <4>5, <4>6, AddedInside
    <3> QED BY <3>2, <3>3
  <2>2. CASE x[1] \notin A.accept
    BY <1>8, <2>2, <1>6 DEF EnterCommonality
  <2> QED BY <2>1, <2>2
<1>9. CASE EnterDiversion(x)
  <2>1. CASE Diverts(x)
    <3>1. x = <<x[1], x[2]>> BY <1>1
    <3>2. Return("yes") /\ Evidence(walk, x[1], x[2])
      BY <1>9, <2>1, <3>1 DEF EnterDiversion, Evidence
    <3> QED BY <3>2, <1>5
  <2>2. CASE ~ Diverts(x)
    BY <1>9, <2>2, <1>6 DEF EnterDiversion
  <2> QED BY <2>1, <2>2
<1> QED BY <1>7, <1>8, <1>9

-----------------------------------------------------------------------------
(* The inductive invariant. *)

LEMMA InitEstablishes == Init => IInv
<1> SUFFICES ASSUME Init PROVE IInv OBVIOUS
<1>1. problem \in Problem BY ProblemsAssumption DEF Init
<1>2. InitState \in State BY ProblemsAssumption
<1>3. {InitState} \in SUBSET State BY <1>2
<1>4. found = {} /\ walk = 1 /\ visited \subseteq State BY <1>2 DEF Init
<1>5. verdict \in {"open", "yes", "no"} BY DEF Init, InitialVerdict
<1>6. CASE Dives
  <2> DEFINE S == Edges(InitState, {InitState})
  <2>1. \A t \in Targets(B, InitState) : t \in State
    BY <1>1, <1>2, SMT DEF Problem, Machine, Targets, Moves, B
  <2>2. S \in SUBSET Nodes BY <1>2, <1>3, <1>6, <2>1 DEF Edges, Edge, Nodes
  <2>3. stack = Level(S) BY <1>6 DEF Init, InitialStack
  <2>4. S = Edges(InitState, {InitState}) OBVIOUS
  <2> HIDE DEF S
  <2>5. Levelled(Nodes, stack) /\ \A i \in DOMAIN stack : stack[i] = S
    BY <2>2, <2>3, LevelIsLevelled
  <2>6. TypeOK BY <1>4, <1>5, <2>5 DEF TypeOK, Init, Levelled
  <2>7. ASSUME NEW R \in SUBSET Place, Closed(R) PROVE Inside(R)
    <3>1. \A p \in {InitState} : <<1, p, InitState>> \in R BY <2>7 DEF Closed
    <3>2. \A y \in S : InPlace(y, R) BY <1>6, <2>4, <2>6, <3>1, EdgesInPlace
    <3>3. Discovery = "no" BY <1>6 DEF Dives, Discovery
    <3>4. verdict = "no" => ~ Enterable(InitState, {InitState})
      BY <1>6 DEF Init, InitialVerdict, Dives
    <3>5. verdict = Discovery => Shown(R)
      BY <1>6, <2>6, <3>1, <3>3, <3>4, UnenterableShows
    <3> QED BY <1>4, <2>5, <3>2, <3>5 DEF Inside
  <2> QED BY <1>4, <2>6, <2>7 DEF IInv, FoundOfOutrun, WalkOfOutrun
<1>7. CASE ~ Dives
  <2>1. stack = <<{Start}>> BY <1>7 DEF Init, InitialStack
  <2>2. {Start} \in SUBSET Nodes BY <1>2, <1>7 DEF Nodes, Start
  <2>3. Level({Start}) = <<{Start}>> BY DEF Level
  <2>4. Levelled(Nodes, stack) /\ \A i \in DOMAIN stack : stack[i] = {Start}
    BY <2>1, <2>2, <2>3, LevelIsLevelled
  <2>5. TypeOK BY <1>4, <1>5, <2>4 DEF TypeOK, Init, Levelled
  <2>6. ASSUME NEW R \in SUBSET Place, Closed(R) PROVE Inside(R)
    <3>1. <<1, InitState, InitState>> \in R BY <2>6 DEF Closed
    <3>2. InPlace(Start, R) BY <1>4, <1>7, <3>1 DEF InPlace, Start
    <3>3. verdict = Discovery => FALSE
      BY <1>1, <1>7 DEF Init, InitialVerdict, Discovery, Dives
    <3> QED BY <1>4, <2>4, <3>2, <3>3 DEF Inside
  <2> QED BY <1>4, <2>5, <2>6 DEF IInv, FoundOfOutrun, WalkOfOutrun
<1> QED BY <1>6, <1>7

LEMMA VisitKeeps ==
    ASSUME TypeOK, Visit
    PROVE  /\ TypeOK'
           /\ \A R \in SUBSET Place : Closed(R) /\ Inside(R) => Inside(R)'
<1> PICK x \in stack[Len(stack)] :
        FollowEdge(x) \/ Refuse(x) \/ EnterSame(x) \/ EnterCommonality(x) \/ EnterDiversion(x)
  BY DEF Visit
<1>1. stack # <<>> BY DEF Visit
<1>2. Len(stack) \in DOMAIN stack BY <1>1 DEF TypeOK
<1>3. x \in Nodes BY <1>2 DEF TypeOK
<1>4. \A R : Inside(R) => InPlace(x, R) BY <1>2 DEF Inside
<1>5. CASE FollowEdge(x)
  <2>1. Dives BY <1>5 DEF FollowEdge
  <2> QED BY <1>1, <1>3, <1>4, <1>5, <2>1, EdgeKeeps
<1>6. CASE Refuse(x)
  <2>1. stack' = Without(x) /\ UNCHANGED <<problem, visited, found, walk, verdict>>
    BY <1>6 DEF Refuse
  <2> QED BY <1>1, <2>1, LeftTyped, LeftInside
<1>7. CASE EnterSame(x) \/ EnterCommonality(x) \/ EnterDiversion(x)
  <2>1. ~ Dives BY <1>7 DEF EnterSame, EnterCommonality, EnterDiversion, Dives
  <2> QED BY <1>1, <1>3, <1>4, <1>7, <2>1, PairKeeps
<1> QED BY <1>5, <1>6, <1>7

LEMMA DiversionKeeps ==
    ASSUME TypeOK, StartDiversion
    PROVE  /\ TypeOK'
           /\ \A R \in SUBSET Place : Closed(R) /\ Inside(R) => Inside(R)'
<1>1. problem' = problem /\ ~ Dives /\ ~ Dives' BY DEF StartDiversion, Dives
<1>2. Nodes = State \X State /\ Nodes' = State \X State BY <1>1 DEF Nodes
<1>3. found \in (SUBSET (State \X State)) \ {{}} BY DEF TypeOK, StartDiversion
<1>4. stack' = <<found>> /\ found' = found BY DEF StartDiversion
<1>5. <<found>> \in Seq((SUBSET (State \X State)) \ {{}}) BY <1>3
<1>6. TypeOK' BY <1>2, <1>4, <1>5 DEF TypeOK, StartDiversion
<1>7. ASSUME NEW R \in SUBSET Place, Inside(R) PROVE Inside(R)'
  <2>1. walk' = 2 BY DEF StartDiversion
  <2>2. \A x \in found : <<2, x[1], x[2]>> \in R BY <1>7 DEF Inside
  <2>3. \A x \in found : InPlace(x, R)' BY <1>1, <2>1, <2>2 DEF InPlace
  <2>4. DOMAIN <<found>> = {1} /\ <<found>>[1] = found OBVIOUS
  <2>5. verdict' = "open" BY DEF StartDiversion
  <2>6. Discovery' # "open" BY DEF Discovery
  <2> QED BY <1>4, <2>2, <2>3, <2>4, <2>5, <2>6 DEF Inside
<1> QED BY <1>6, <1>7

LEMMA ConcludeKeeps ==
    ASSUME TypeOK, Conclude
    PROVE  /\ TypeOK'
           /\ \A R \in SUBSET Place : Closed(R) /\ Inside(R) => Inside(R)'
<1> DEFINE v == IF problem.check = "outrun" THEN "no" ELSE "yes"
<1>1. v \in {"yes", "no"} /\ v # Discovery BY DEF Discovery
<1>2. Return(v) BY DEF Conclude
<1> HIDE DEF v
<1> QED BY <1>1, <1>2, ReturnTyped, ReturnInside

LEMMA StepKeeps == IInv /\ [Next]_vars => IInv'
<1> SUFFICES ASSUME IInv, [Next]_vars PROVE IInv' OBVIOUS
<1>1. CASE UNCHANGED vars
  BY <1>1 DEF vars, IInv, TypeOK, FoundOfOutrun, WalkOfOutrun, Closed, Inside, InPlace, Shown,
     Evidence, Discovery, Nodes, Dives, Targets, Moves, Diverts, A, B
<1>2. CASE Next
  <2>1. TypeOK' /\ \A R \in SUBSET Place : Closed(R) /\ Inside(R) => Inside(R)'
    BY <1>2, VisitKeeps, DiversionKeeps, ConcludeKeeps DEF IInv, Next
  <2>2. problem' = problem
    BY <1>2 DEF Next, Visit, StartDiversion, Conclude, Return, FollowEdge, Dive, Refuse,
       EnterSame, EnterCommonality, EnterDiversion, Descend
  <2>3. \A R : Closed(R)' <=> Closed(R) BY <2>2 DEF Closed, Moves, A, B
  <2>4. FoundOfOutrun' /\ WalkOfOutrun'
    BY <1>2, <2>2 DEF IInv, FoundOfOutrun, WalkOfOutrun, Next, Visit, StartDiversion, Conclude,
       Return, FollowEdge, Dive, Refuse, EnterSame, EnterCommonality, EnterDiversion, Descend
  <2> QED BY <2>1, <2>3, <2>4 DEF IInv
<1> QED BY <1>1, <1>2

LEMMA AlwaysIInv == Spec => []IInv
BY InitEstablishes, StepKeeps, PTL DEF Spec

(* The walks hold what their types say: levels that are never empty, nodes  *)
(* made of the machines' states.                                            *)
THEOREM TypeCorrect == Spec => []TypeOK
<1>1. IInv => TypeOK BY DEF IInv
<1> QED BY <1>1, AlwaysIInv, PTL

(* "Not a superset", "not identical", "outruns" and "not disjoint" are      *)
(* answered only where a lexeme shows it: for any machines, in any order of *)
(* the walk (superset.py, identity.py, outrun.py, is_disjoint.py).          *)
THEOREM Discovered == Spec => []DiscoveryHasEvidence
<1>1. IInv => DiscoveryHasEvidence
  <2> SUFFICES ASSUME IInv, verdict = Discovery,
                      NEW R \in Relations[problem], Closed(R)
               PROVE  Shown(R)
    BY DEF DiscoveryHasEvidence, Shown
  <2>1. R \in SUBSET Place BY ProblemsAssumption DEF IInv, TypeOK
  <2> QED BY <2>1 DEF IInv, Inside
<1> QED BY <1>1, AlwaysIInv, PTL

-----------------------------------------------------------------------------
(***************************************************************************)
(* Nothing is overlooked where states are met in one company only.  The    *)
(* invariant says of every place whose state is marked that it shows no    *)
(* evidence, and that where it leads is marked or still on the stack.      *)
(* Once the stack is empty, the marked places are closed.  The second walk *)
(* of outrun forgets the marks of the first one: the places of the first   *)
(* are remembered as some set that leads to what was found only.           *)
(***************************************************************************)
OnStack(y) == \E i \in DOMAIN stack : y \in stack[i]

(* Along an edge: t has been entered, and the condition for the edge holds. *)
EdgeDone(p, s, t) ==
    /\ t \in visited
    /\ \A c \in Into(B, s, t) :
          /\ c \in Moves(A, p)
          /\ t \in B.accept => A.move[p][c] \in A.accept
          /\ problem.check = "identity" /\ A.move[p][c] \in A.accept => t \in B.accept

SameMoves(p, s) == problem.check = "identity" => Moves(A, p) = Moves(B, s)

DiveHandled(p, s) ==
    /\ SameMoves(p, s)
    /\ \A t \in Targets(B, s) : OnStack(Edge(s, {p}, t)) \/ EdgeDone(p, s, t)

(* The states of A that an edge takes along are never lost on the way.      *)
EdgeTakesCompanions(e) == e.list # {} /\ \A p \in e.list : SameMoves(p, e.si)

DiveProgress(R) ==
    /\ InitState \in visited
    /\ \A e : OnStack(e) => EdgeTakesCompanions(e)
    /\ \A p, s \in State : <<1, p, s>> \in R /\ s \in visited => DiveHandled(p, s)

(* Over pairs: what two states have in common is marked or on the stack.    *)
Met(y)            == OnStack(y) \/ Key(y) \in visited
PairHandled(p, s) == \A y \in Common(p, s) : Met(y)

SameProgress(R) ==
    /\ Met(Start)
    /\ \A p, s \in State : <<1, p, s>> \in R /\ p \in visited =>
          ~ (p \in A.accept /\ s \in B.accept) /\ PairHandled(p, s)

CommonalityProgress(R) ==
    /\ Met(Start)
    /\ \A p, s \in State : <<1, p, s>> \in R /\ p \in visited =>
          IF p \in A.accept THEN <<p, s>> \in found ELSE PairHandled(p, s)

(* The first walk has left a set of places that leads to found only.        *)
LeadsToFound(V) ==
    /\ <<1, InitState, InitState>> \in V
    /\ \A i \in {1, 2}, p \in State, s \in State : <<i, p, s>> \in V =>
          /\ i = 1
          /\ p \in A.accept => <<p, s>> \in found
          /\ p \notin A.accept => \A c \in Moves(A, p) \cap Moves(B, s) :
                                     <<1, A.move[p][c], B.move[s][c]>> \in V

DiversionProgress(R) ==
    /\ \E V \in SUBSET R : LeadsToFound(V)
    /\ \A y \in found : Met(y)
    /\ \A p, s \in State : <<2, p, s>> \in R /\ s \in visited =>
          ~ Diverts(<<p, s>>) /\ PairHandled(p, s)

Progress(R) ==
    CASE Dives                                   -> DiveProgress(R)
      [] problem.check = "is_disjoint"           -> SameProgress(R)
      [] problem.check = "outrun" /\ walk = 1    -> CommonalityProgress(R)
      [] OTHER                                   -> DiversionProgress(R)

Cleared(R) == \E V \in SUBSET R : Closed(V) /\ \A x \in V : ~ Evidence(x[1], x[2], x[3])

Judged(R) == /\ verdict = "open" => Progress(R)
             /\ verdict \notin {"open", Discovery} => Cleared(R)

JInv == IInv /\ \A R \in SUBSET Place : Closed(R) /\ OneCompanion(R) => Judged(R)

-----------------------------------------------------------------------------
(* What stays on the stack. *)

LEMMA LevelHolds ==
    ASSUME NEW S, NEW y \in S
    PROVE  \E i \in DOMAIN Level(S) : y \in Level(S)[i]
<1>1. Level(S) = <<S>> BY DEF Level
<1>2. 1 \in DOMAIN <<S>> /\ <<S>>[1] = S OBVIOUS
<1> QED BY <1>1, <1>2

LEMMA JoinedHolds ==
    ASSUME NEW N, NEW s, NEW t, Levelled(N, s), Levelled(N, t), NEW y,
           (\E i \in DOMAIN s : y \in s[i]) \/ (\E i \in DOMAIN t : y \in t[i])
    PROVE  \E i \in DOMAIN (s \o t) : y \in (s \o t)[i]
<1>1. Len(s) \in Nat /\ Len(t) \in Nat /\ DOMAIN s = 1 .. Len(s) /\ DOMAIN t = 1 .. Len(t)
  BY DEF Levelled
<1>2. s \o t \in Seq((SUBSET N) \ {{}}) /\ DOMAIN (s \o t) = 1 .. Len(s) + Len(t)
  BY DEF Levelled
<1>3. CASE \E i \in DOMAIN s : y \in s[i]
  <2> PICK i \in DOMAIN s : y \in s[i] BY <1>3
  <2>1. i \in DOMAIN (s \o t) /\ (s \o t)[i] = s[i] BY <1>1, <1>2 DEF Levelled
  <2> QED BY <2>1
<1>4. CASE \E i \in DOMAIN t : y \in t[i]
  <2> PICK i \in DOMAIN t : y \in t[i] BY <1>4
  <2>1. i + Len(s) \in DOMAIN (s \o t) BY <1>1, <1>2
  <2>2. (s \o t)[i + Len(s)] = t[i] BY <1>1, <2>1 DEF Levelled
  <2> QED BY <2>1, <2>2
<1> QED BY <1>3, <1>4

LEMMA StillLeft ==
    ASSUME NEW N, Levelled(N, stack), stack # <<>>, NEW x, NEW y, OnStack(y), y # x
    PROVE  \E i \in DOMAIN Without(x) : y \in Without(x)[i]
<1> DEFINE rest == SubSeq(stack, 1, Len(stack) - 1)
           last == stack[Len(stack)] \ {x}
<1>1. /\ Levelled(N, rest)
      /\ DOMAIN rest = 1 .. Len(stack) - 1
      /\ \A i \in DOMAIN rest : rest[i] = stack[i]
  BY DEF Levelled
<1>2. /\ Len(stack) \in Nat /\ DOMAIN stack = 1 .. Len(stack)
      /\ last \in SUBSET N
  BY DEF Levelled
<1>3. Levelled(N, Level(last)) BY <1>2, LevelIsLevelled
<1>4. Without(x) = rest \o Level(last) BY DEF Without
<1>5. PICK i \in DOMAIN stack : y \in stack[i] BY DEF OnStack
<1>6. i # Len(stack) => i \in DOMAIN rest /\ y \in rest[i] BY <1>1, <1>2, <1>5
<1>7. i = Len(stack) => y \in last BY <1>5
<1> HIDE DEF rest, last
<1>8. i = Len(stack) => \E j \in DOMAIN Level(last) : y \in Level(last)[j]
  BY <1>7, LevelHolds
<1> QED BY <1>1, <1>3, <1>4, <1>6, <1>8, JoinedHolds

LEMMA LeftHolds ==
    ASSUME TypeOK, stack # <<>>, NEW x, stack' = Without(x), NEW y, OnStack(y), y # x
    PROVE  OnStack(y)'
<1>1. Levelled(Nodes, stack) BY DEF TypeOK, Levelled
<1>2. \E i \in DOMAIN Without(x) : y \in Without(x)[i] BY <1>1, StillLeft
<1> QED BY <1>2 DEF OnStack

LEMMA AddedHolds ==
    ASSUME TypeOK, stack # <<>>, NEW x, NEW S \in SUBSET Nodes,
           stack' = Without(x) \o Level(S), NEW y, (OnStack(y) /\ y # x) \/ y \in S
    PROVE  OnStack(y)'
<1>1. Levelled(Nodes, stack) BY DEF TypeOK, Levelled
<1>2. Levelled(Nodes, Without(x)) BY <1>1, WhatIsLeft
<1>3. Levelled(Nodes, Level(S)) BY LevelIsLevelled
<1>4. OnStack(y) /\ y # x => \E i \in DOMAIN Without(x) : y \in Without(x)[i]
  BY <1>1, StillLeft
<1>5. y \in S => \E i \in DOMAIN Level(S) : y \in Level(S)[i] BY LevelHolds
<1>6. \E i \in DOMAIN (Without(x) \o Level(S)) : y \in (Without(x) \o Level(S))[i]
  BY <1>2, <1>3, <1>4, <1>5, JoinedHolds
<1> QED BY <1>6 DEF OnStack

(* Nothing else comes on the stack.                                         *)
LEMMA LeftFromStack ==
    ASSUME TypeOK, stack # <<>>, NEW x, stack' = Without(x), NEW y, OnStack(y)'
    PROVE  OnStack(y)
<1>1. Levelled(Nodes, stack) BY DEF TypeOK, Levelled
<1>2. \A i \in DOMAIN Without(x) : \E j \in DOMAIN stack : Without(x)[i] \subseteq stack[j]
  BY <1>1, WhatIsLeft
<1> QED BY <1>2 DEF OnStack

LEMMA AddedFromStack ==
    ASSUME TypeOK, stack # <<>>, NEW x, NEW S \in SUBSET Nodes,
           stack' = Without(x) \o Level(S), NEW y, OnStack(y)'
    PROVE  OnStack(y) \/ y \in S
<1>1. Levelled(Nodes, stack) BY DEF TypeOK, Levelled
<1>2. \A i \in DOMAIN (Without(x) \o Level(S)) : \A z \in (Without(x) \o Level(S))[i] :
         z \in S \/ \E j \in DOMAIN stack : z \in stack[j]
  BY <1>1, WhatIsAdded
<1> QED BY <1>2 DEF OnStack

-----------------------------------------------------------------------------
(* Along an edge.                                                           *)

LEMMA EdgeDoneStays ==
    ASSUME UNCHANGED problem, visited \subseteq visited', NEW p, NEW s, NEW t,
           EdgeDone(p, s, t)
    PROVE  EdgeDone(p, s, t)'
BY DEF EdgeDone, Into, Moves, A, B

LEMMA ProblemKept ==
    ASSUME UNCHANGED problem, NEW p, NEW s, NEW e
    PROVE  /\ SameMoves(p, s)' <=> SameMoves(p, s)
           /\ Targets(B, s)' = Targets(B, s)
           /\ EdgeTakesCompanions(e)' <=> EdgeTakesCompanions(e)
BY DEF SameMoves, EdgeTakesCompanions, Targets, Moves, A, B

(* Where states have one companion, the edge takes along that one.          *)
LEMMA OnlyCompanion ==
    ASSUME Dives, NEW L, L # {}, NEW s, NEW R, OneCompanion(R),
           \A p \in L : <<1, p, s>> \in R
    PROVE  \A q : <<1, q, s>> \in R => L = {q}
<1> SUFFICES ASSUME NEW q, <<1, q, s>> \in R, NEW p \in L PROVE p = q
  BY Zenon
<1> DEFINE x == <<1, p, s>>
           y == <<1, q, s>>
<1>1. x[1] = y[1] /\ x[3] = y[3] OBVIOUS
<1>2. x \in R /\ y \in R OBVIOUS
<1>3. x = y
  <2> HIDE DEF x, y
  <2> QED BY <1>1, <1>2 DEF OneCompanion
<1> QED BY <1>3

(* A supported edge is done once its target has been entered.               *)
LEMMA SupportedIsDone ==
    ASSUME TypeOK, Dives, NEW e \in Nodes, Supported(e), NEW p, e.list = {p},
           SameMoves(p, e.si), e.target \in visited'
    PROVE  /\ \A c \in Into(B, e.si, e.target) :
                 c \in Moves(A, p) /\ A.move[p][c] \in Companions(e)
           /\ UNCHANGED problem => EdgeDone(p, e.si, e.target)'
<1> DEFINE C == Into(B, e.si, e.target)
<1>1. e.si \in State /\ e.target \in State /\ p \in State BY DEF Nodes
<1>2. \A c \in C : c \in Moves(B, e.si) BY <1>1, ProblemsAssumption DEF Into, Moves
<1>3. ASSUME NEW c \in C PROVE c \in Moves(A, p)
  <2>1. CASE problem.check = "superset" BY <2>1, <1>3 DEF Supported, Covered
  <2>2. CASE problem.check = "identity" BY <2>2, <1>2, <1>3 DEF SameMoves
  <2> QED BY <2>1, <2>2 DEF Dives
<1>4. ASSUME NEW c \in C PROVE A.move[p][c] \in Companions(e)
  BY <1>3, <1>4 DEF Companions, Resulting, Moves
<1>5. ASSUME NEW c \in C
      PROVE  /\ e.target \in B.accept => A.move[p][c] \in A.accept
             /\ problem.check = "identity" /\ A.move[p][c] \in A.accept => e.target \in B.accept
  <2>1. CASE problem.check = "superset"
    <3>1. e.target \in B.accept => Companions(e) \subseteq A.accept
      BY <2>1 DEF Supported, Companions
    <3> QED BY <2>1, <3>1, <1>4, <1>5
  <2>2. CASE problem.check = "identity"
    <3>1. \A q \in Companions(e) : q \in A.accept <=> e.target \in B.accept
      BY <2>2 DEF Supported, Companions
    <3> QED BY <2>2, <3>1, <1>4, <1>5
  <2> QED BY <2>1, <2>2 DEF Dives
<1>6. UNCHANGED problem => /\ A' = A /\ B' = B
                           /\ Into(B, e.si, e.target)' = C
                           /\ Moves(A, p)' = Moves(A, p)
  BY DEF A, B, Into, Moves
<1> HIDE DEF C
<1>7. UNCHANGED problem => EdgeDone(p, e.si, e.target)'
  BY <1>3, <1>5, <1>6 DEF EdgeDone
<1> QED BY <1>3, <1>4, <1>7 DEF C

LEMMA EdgeProgress ==
    ASSUME TypeOK, Dives, stack # <<>>, NEW e \in Nodes, OnStack(e), FollowEdge(e),
           verdict = "open", NEW R, Closed(R), OneCompanion(R), Inside(R), DiveProgress(R)
    PROVE  (verdict' = "open" /\ DiveProgress(R)') \/ verdict' = Discovery'
<1> DEFINE S == Edges(e.target, Companions(e))
<1>1. e.si \in State /\ e.target \in State /\ e.list \in SUBSET State
  BY DEF Nodes
<1>2. InPlace(e, R) BY DEF OnStack, Inside
<1>3. e.list # {} /\ \A p \in e.list : SameMoves(p, e.si) /\ <<1, p, e.si>> \in R
  BY <1>2 DEF DiveProgress, EdgeTakesCompanions, InPlace
<1>4. PICK p \in e.list : TRUE BY <1>3
<1>5. \A q : <<1, q, e.si>> \in R => q = p
  <2>1. \A q : <<1, q, e.si>> \in R => e.list = {q} BY <1>3, OnlyCompanion
  <2> QED BY <2>1, <1>4
<1>6. e.list = {p} BY <1>3, <1>4, <1>5
<1>7. e = Edge(e.si, {p}, e.target) BY <1>6 DEF Edge, Nodes
<1>8. SameMoves(p, e.si) BY <1>3, <1>4
<1>9. CASE verdict' # "open"
  <2>1. verdict' = "no" /\ problem' = problem BY <1>9 DEF FollowEdge, Dive, Return
  <2> QED BY <2>1 DEF Discovery, Dives
<1>10. ASSUME verdict' = "open", UNCHANGED problem, Supported(e), e.target \in visited',
              visited \subseteq visited',
              \A y : OnStack(y) /\ y # e => OnStack(y)',
              NEW q \in State, NEW s \in State, <<1, q, s>> \in R, s \in visited
       PROVE  DiveHandled(q, s)'
  <2>1. DiveHandled(q, s) BY <1>10 DEF DiveProgress
  <2>2. SameMoves(q, s)' BY <2>1, <1>10, ProblemKept DEF DiveHandled
  <2>3. ASSUME NEW t \in Targets(B, s) PROVE (OnStack(Edge(s, {q}, t)) \/ EdgeDone(q, s, t))'
    <3>1. CASE EdgeDone(q, s, t) BY <3>1, <1>10, EdgeDoneStays
    <3>2. CASE OnStack(Edge(s, {q}, t)) /\ Edge(s, {q}, t) # e
      <4>1. OnStack(Edge(s, {q}, t))' BY <3>2, <1>10 DEF Edge
      <4> QED BY <4>1
    <3>3. CASE Edge(s, {q}, t) = e
      <4>1. s = e.si /\ t = e.target BY <3>3 DEF Edge
      <4>2. q = p BY <4>1, <1>5, <1>10
      <4>3. EdgeDone(p, e.si, e.target)' BY <1>10, <1>6, <1>8, SupportedIsDone
      <4> QED BY <4>1, <4>2, <4>3
    <3> QED BY <2>1, <2>3, <3>1, <3>2, <3>3 DEF DiveHandled
  <2>4. Targets(B, s)' = Targets(B, s) BY <1>10, ProblemKept
  <2> QED BY <2>2, <2>3, <2>4 DEF DiveHandled
<1>11. CASE Supported(e) /\ e.target \in visited
  <2>1. stack' = Without(e) /\ UNCHANGED <<problem, visited, found, walk, verdict>>
    BY <1>11 DEF FollowEdge
  <2>2. \A y : OnStack(y) /\ y # e => OnStack(y)' BY <2>1, LeftHolds
  <2>3. \A q, s \in State : <<1, q, s>> \in R /\ s \in visited' => DiveHandled(q, s)'
    BY <1>10, <1>11, <2>1, <2>2
  <2>4. \A y : OnStack(y)' => EdgeTakesCompanions(y)'
    BY <2>1, LeftFromStack, ProblemKept DEF DiveProgress
  <2> QED BY <2>1, <2>3, <2>4 DEF DiveProgress
<1>12. CASE Supported(e) /\ e.target \notin visited /\ Enterable(e.target, Companions(e))
  <2>1. Dive(e) BY <1>12 DEF FollowEdge
  <2>2. /\ visited' = visited \cup {e.target} /\ stack' = Without(e) \o Level(S)
        /\ UNCHANGED <<problem, found, walk, verdict>>
    BY <2>1 DEF Dive
  <2>3. S \in SUBSET Nodes BY <1>1, CompanionsTyped, EdgesTyped
  <2>4. Companions(e) # {}
    <3>1. PICK c \in Moves(B, e.si) : B.move[e.si][c] = e.target
      BY <1>2 DEF InPlace, Targets
    <3>2. c \in Into(B, e.si, e.target) BY <3>1 DEF Into, Moves
    <3> QED BY <3>2, <2>2, <1>12, <1>6, <1>8, SupportedIsDone
  <2>5. \A q \in Companions(e) : <<1, q, e.target>> \in R BY <1>2, EdgePlaces
  <2>6. \A q : <<1, q, e.target>> \in R => Companions(e) = {q}
    BY <2>4, <2>5, OnlyCompanion
  <2>7. \A q \in Companions(e) : SameMoves(q, e.target)
    BY <1>12 DEF Enterable, SameMoves, Dives
  <2>8. \A y \in S : EdgeTakesCompanions(y)
    BY <2>4, <2>7 DEF Edges, Edge, EdgeTakesCompanions
  <2>9. \A y \in S : EdgeTakesCompanions(y)' BY <2>2, <2>8, ProblemKept
  <2>10. ASSUME NEW q \in State, <<1, q, e.target>> \in R PROVE DiveHandled(q, e.target)'
    <3>1. Companions(e) = {q} BY <2>6, <2>10
    <3>2. SameMoves(q, e.target)' BY <3>1, <2>7, <2>2, ProblemKept
    <3>3. ASSUME NEW t \in Targets(B, e.target) PROVE OnStack(Edge(e.target, {q}, t))'
      <4>1. Edge(e.target, {q}, t) \in S BY <3>1 DEF Edges
      <4> HIDE DEF S
      <4>2. \A y \in S : OnStack(y)' BY <2>2, <2>3, AddedHolds
      <4> QED BY <4>1, <4>2 DEF Edge
    <3>4. Targets(B, e.target)' = Targets(B, e.target) BY <2>2, ProblemKept
    <3> QED BY <3>2, <3>3, <3>4 DEF DiveHandled
  <2> HIDE DEF S
  <2>11. \A y : OnStack(y) /\ y # e => OnStack(y)' BY <2>2, <2>3, AddedHolds
  <2>12. \A q, s \in State : <<1, q, s>> \in R /\ s \in visited' => DiveHandled(q, s)'
    BY <1>10, <1>12, <2>2, <2>10, <2>11
  <2>13. \A y : OnStack(y)' => EdgeTakesCompanions(y)'
    <3>1. \A y : OnStack(y)' => OnStack(y) \/ y \in S BY <2>2, <2>3, AddedFromStack
    <3>2. \A y : OnStack(y) => EdgeTakesCompanions(y)' BY <2>2, ProblemKept DEF DiveProgress
    <3> QED BY <3>1, <3>2, <2>9
  <2> QED BY <2>2, <2>12, <2>13 DEF DiveProgress
<1> QED BY <1>9, <1>11, <1>12 DEF FollowEdge, Return

-----------------------------------------------------------------------------
(* Over pairs of states.                                                    *)

(* A pair is left out because its key is marked, or a level is added to the *)
(* stack when the key of the pair is marked.                                *)
PairStep(x, S) ==
    /\ UNCHANGED <<problem, walk, verdict>>
    /\ Key(x) \in visited'
    /\ \/ stack' = Without(x) /\ visited' = visited /\ S = {}
       \/ stack' = Without(x) \o Level(S) /\ visited' = visited \cup {Key(x)}

LEMMA MetStays ==
    ASSUME TypeOK, stack # <<>>, NEW x, NEW S \in SUBSET Nodes, PairStep(x, S), NEW y,
           Met(y) \/ y \in S
    PROVE  Met(y)'
<1>1. Key(y)' = Key(y) /\ visited \subseteq visited' BY DEF PairStep, Key
<1>2. CASE Key(y) \in visited' BY <1>1, <1>2 DEF Met
<1>3. CASE y \in S \/ (OnStack(y) /\ y # x)
  <2>1. OnStack(y)' BY <1>3, LeftHolds, AddedHolds DEF PairStep
  <2> QED BY <2>1 DEF Met
<1>4. y = x => Key(y) \in visited' BY DEF PairStep
<1> QED BY <1>1, <1>2, <1>3, <1>4 DEF Met

LEMMA HandledStays ==
    ASSUME TypeOK, stack # <<>>, NEW x, NEW S \in SUBSET Nodes, PairStep(x, S), NEW p, NEW s,
           PairHandled(p, s) \/ Common(p, s) \subseteq S
    PROVE  PairHandled(p, s)'
<1>1. Common(p, s)' = Common(p, s) BY DEF PairStep, Common, Into, A, B
<1>2. \A y \in Common(p, s) : Met(y) \/ y \in S BY DEF PairHandled
<1>3. \A y \in Common(p, s) : Met(y)' BY <1>2, MetStays
<1> QED BY <1>1, <1>3 DEF PairHandled

(* In the walk of R, a marked state is met with one companion only.         *)
LEMMA OneMet ==
    ASSUME ~ Dives, NEW R, OneCompanion(R), WalkOfOutrun, walk \in {1, 2},
           NEW p, NEW s, NEW q, NEW t, <<walk, p, s>> \in R, <<walk, q, t>> \in R,
           Key(<<p, s>>) = Key(<<q, t>>)
    PROVE  p = q /\ s = t
<1> DEFINE x == <<walk, p, s>>
           y == <<walk, q, t>>
<1>1. x \in R /\ y \in R /\ x[1] = walk /\ y[1] = walk OBVIOUS
<1>2. walk = 1 => x[2] = y[2] BY DEF Key
<1>3. walk = 2 => x[3] = y[3] BY DEF Key
<1>4. x = y
  <2> HIDE DEF x, y
  <2> QED BY <1>1, <1>2, <1>3 DEF OneCompanion
<1> QED BY <1>4

LEMMA RefuseProgress ==
    ASSUME TypeOK, ~ Dives, stack # <<>>, NEW x, Refuse(x), NEW R, Progress(R)
    PROVE  Progress(R)'
<1>1. PairStep(x, {}) /\ found' = found /\ visited' = visited /\ walk' = walk
  BY DEF Refuse, PairStep
<1>2. {} \in SUBSET Nodes OBVIOUS
<1>3. \A y : Met(y) => Met(y)' BY <1>1, <1>2, MetStays
<1>4. \A p, s : PairHandled(p, s) => PairHandled(p, s)' BY <1>1, <1>2, HandledStays
<1>5. /\ problem' = problem /\ A' = A /\ B' = B /\ Dives' = Dives /\ Start' = Start
      /\ \A p, s : Diverts(<<p, s>>)' <=> Diverts(<<p, s>>)
      /\ \A V : LeadsToFound(V)' <=> LeadsToFound(V)
  BY <1>1 DEF PairStep, A, B, Dives, Start, Diverts, Moves, LeadsToFound
<1>6. CASE problem.check = "is_disjoint"
  <2>1. SameProgress(R) BY <1>6 DEF Progress
  <2>2. SameProgress(R)' BY <2>1, <1>1, <1>3, <1>4, <1>5 DEF SameProgress
  <2> QED BY <2>2, <1>5, <1>6 DEF Progress
<1>7. CASE problem.check = "outrun" /\ walk = 1
  <2>1. CommonalityProgress(R) BY <1>7 DEF Progress
  <2>2. CommonalityProgress(R)' BY <2>1, <1>1, <1>3, <1>4, <1>5 DEF CommonalityProgress
  <2> QED BY <2>2, <1>1, <1>5, <1>7 DEF Progress
<1>8. CASE ~ (problem.check = "is_disjoint") /\ ~ (problem.check = "outrun" /\ walk = 1)
  <2>1. DiversionProgress(R) BY <1>8 DEF Progress
  <2>2. DiversionProgress(R)' BY <2>1, <1>1, <1>3, <1>4, <1>5 DEF DiversionProgress
  <2> QED BY <2>2, <1>1, <1>5, <1>8 DEF Progress
<1> QED BY <1>6, <1>7, <1>8

(* What all three ways to enter a pair have in common.                      *)
EntersPair(x) ==
    /\ TypeOK /\ WalkOfOutrun /\ ~ Dives /\ stack # <<>> /\ verdict = "open"
    /\ x \in Nodes /\ OnStack(x)

LEMMA Entering ==
    ASSUME NEW x, EntersPair(x), NEW R, OneCompanion(R), Inside(R),
           NEW S \in SUBSET Nodes, Descend(x, S)
    PROVE  /\ PairStep(x, S) /\ x = <<x[1], x[2]>> /\ x[1] \in State /\ x[2] \in State
           /\ \A y : Met(y) => Met(y)'
           /\ \A p, s : PairHandled(p, s) => PairHandled(p, s)'
           /\ Common(x[1], x[2]) = S => PairHandled(x[1], x[2])'
           /\ <<walk, x[1], x[2]>> \in R
           /\ \A p, s : <<walk, p, s>> \in R /\ Key(<<p, s>>) \in visited' =>
                 Key(<<p, s>>) \in visited \/ (p = x[1] /\ s = x[2])
<1>0. TypeOK /\ ~ Dives /\ stack # <<>> /\ x \in Nodes BY DEF EntersPair
<1>1. x \in State \X State BY <1>0 DEF Nodes
<1>2. PairStep(x, S) BY DEF Descend, PairStep
<1>3. \A y : Met(y) => Met(y)' BY <1>0, <1>2, MetStays
<1>4. \A p, s : PairHandled(p, s) \/ Common(p, s) \subseteq S => PairHandled(p, s)'
  BY <1>0, <1>2, HandledStays
<1>5. <<walk, x[1], x[2]>> \in R BY <1>0 DEF EntersPair, OnStack, Inside, InPlace
<1>6. ASSUME NEW p, NEW s, <<walk, p, s>> \in R, Key(<<p, s>>) \in visited',
             Key(<<p, s>>) \notin visited
      PROVE  p = x[1] /\ s = x[2]
  <2>1. Key(<<p, s>>) = Key(x) BY <1>6 DEF Descend
  <2>2. Key(<<x[1], x[2]>>) = Key(x) BY <1>1
  <2>3. walk \in {1, 2} /\ WalkOfOutrun BY DEF EntersPair, TypeOK
  <2> QED BY <1>0, <1>5, <1>6, <2>1, <2>2, <2>3, OneMet
<1> QED BY <1>1, <1>2, <1>3, <1>4, <1>5, <1>6

LEMMA SameEnters ==
    ASSUME NEW x, EntersPair(x), EnterSame(x), NEW R, OneCompanion(R), Inside(R),
           SameProgress(R)
    PROVE  (verdict' = "open" /\ SameProgress(R)') \/ verdict' = Discovery'
<1>0. ~ Dives /\ problem.check = "is_disjoint" /\ WalkOfOutrun /\ walk \in {1, 2}
  BY DEF EntersPair, EnterSame, TypeOK
<1>w. walk = 1 BY <1>0 DEF WalkOfOutrun
<1>1. CASE x[1] \in A.accept /\ x[2] \in B.accept
  <2>1. verdict' = "no" /\ problem' = problem BY <1>1 DEF EnterSame, Return
  <2> QED BY <2>1, <1>0 DEF Discovery
<1>2. CASE ~ (x[1] \in A.accept /\ x[2] \in B.accept)
  <2> DEFINE S == Common(x[1], x[2])
  <2>1. Descend(x, S) /\ S \in SUBSET Nodes /\ S = Common(x[1], x[2])
    BY <1>0, <1>2, CommonTyped DEF EnterSame
  <2>d. Descend(x, S) /\ S \in SUBSET Nodes BY <2>1
  <2> HIDE DEF S
  <2>2. verdict' = "open" /\ walk' = walk /\ problem' = problem
    BY <2>1 DEF Descend, EntersPair
  <2>3. /\ \A y : Met(y) => Met(y)'
        /\ \A p, s : PairHandled(p, s) => PairHandled(p, s)'
        /\ Common(x[1], x[2]) = S => PairHandled(x[1], x[2])'
        /\ \A p, s : <<1, p, s>> \in R /\ Key(<<p, s>>) \in visited' =>
                 Key(<<p, s>>) \in visited \/ (p = x[1] /\ s = x[2])
    BY <2>d, <1>w, Entering
  <2>4. A' = A /\ B' = B /\ Start' = Start BY <2>2 DEF A, B, Start
  <2>5. Met(Start)' BY <2>3 DEF SameProgress
  <2>6. ASSUME NEW p \in State, NEW s \in State, <<1, p, s>> \in R, p \in visited'
        PROVE  ~ (p \in A.accept /\ s \in B.accept) /\ PairHandled(p, s)'
    <3>1. Key(<<p, s>>) = p BY <1>w DEF Key
    <3>2. p \in visited \/ (p = x[1] /\ s = x[2]) BY <2>3, <2>6, <3>1
    <3>3. CASE p \in visited BY <3>3, <2>3, <2>6 DEF SameProgress
    <3>4. CASE p = x[1] /\ s = x[2] BY <3>4, <2>1, <2>3, <1>2
    <3> QED BY <3>2, <3>3, <3>4
  <2>7. SameProgress(R)' BY <2>4, <2>5, <2>6 DEF SameProgress
  <2> QED BY <2>2, <2>7
<1> QED BY <1>1, <1>2

LEMMA CommonalityEnters ==
    ASSUME NEW x, EntersPair(x), EnterCommonality(x), NEW R, OneCompanion(R), Inside(R),
           CommonalityProgress(R)
    PROVE  verdict' = "open" /\ CommonalityProgress(R)'
<1>0. ~ Dives /\ walk = 1 BY DEF EntersPair, EnterCommonality
<1> DEFINE S == IF x[1] \in A.accept THEN {} ELSE Common(x[1], x[2])
<1>1. Common(x[1], x[2]) \in SUBSET Nodes BY <1>0, CommonTyped
<1>2. Descend(x, S) /\ S \in SUBSET Nodes BY <1>1 DEF EnterCommonality
<1>3. /\ x[1] \notin A.accept => Common(x[1], x[2]) = S
      /\ found' = IF x[1] \in A.accept THEN found \cup {x} ELSE found
  BY DEF EnterCommonality
<1> HIDE DEF S
<1>4. verdict' = "open" /\ walk' = walk /\ problem' = problem
  BY <1>2 DEF Descend, EntersPair
<1>5. /\ \A y : Met(y) => Met(y)'
      /\ \A p, s : PairHandled(p, s) => PairHandled(p, s)'
      /\ Common(x[1], x[2]) = S => PairHandled(x[1], x[2])'
      /\ x = <<x[1], x[2]>>
      /\ \A p, s : <<1, p, s>> \in R /\ Key(<<p, s>>) \in visited' =>
               Key(<<p, s>>) \in visited \/ (p = x[1] /\ s = x[2])
  BY <1>2, <1>0, Entering
<1>6. A' = A /\ B' = B /\ Start' = Start BY <1>4 DEF A, B, Start
<1>7. Met(Start)' BY <1>5 DEF CommonalityProgress
<1>8. ASSUME NEW p \in State, NEW s \in State, <<1, p, s>> \in R, p \in visited'
      PROVE  IF p \in A.accept THEN <<p, s>> \in found' ELSE PairHandled(p, s)'
  <2>1. Key(<<p, s>>) = p BY <1>0 DEF Key
  <2>2. p \in visited \/ (p = x[1] /\ s = x[2]) BY <1>5, <1>8, <2>1
  <2>3. CASE p \in visited
    <3>1. IF p \in A.accept THEN <<p, s>> \in found ELSE PairHandled(p, s)
      BY <2>3, <1>8 DEF CommonalityProgress
    <3>2. found \subseteq found' BY <1>3
    <3> QED BY <3>1, <3>2, <1>5
  <2>4. CASE p = x[1] /\ s = x[2]
    <3>1. CASE p \in A.accept
      <4>1. <<p, s>> = x BY <2>4, <1>5
      <4>2. x \in found' BY <1>3, <2>4, <3>1
      <4> QED BY <3>1, <4>1, <4>2
    <3>2. CASE p \notin A.accept BY <3>2, <2>4, <1>3, <1>5
    <3> QED BY <3>1, <3>2
  <2> QED BY <2>2, <2>3, <2>4
<1>9. CommonalityProgress(R)' BY <1>6, <1>7, <1>8 DEF CommonalityProgress
<1> QED BY <1>4, <1>9

LEMMA DiversionEnters ==
    ASSUME NEW x, EntersPair(x), EnterDiversion(x), NEW R, OneCompanion(R), Inside(R),
           DiversionProgress(R)
    PROVE  (verdict' = "open" /\ DiversionProgress(R)') \/ verdict' = Discovery'
<1>0. ~ Dives /\ problem.check = "outrun" /\ walk = 2 BY DEF EntersPair, EnterDiversion
<1>w. walk = 2 BY <1>0
<1>1. CASE Diverts(x)
  <2>1. verdict' = "yes" /\ problem' = problem BY <1>1 DEF EnterDiversion, Return
  <2> QED BY <2>1, <1>0 DEF Discovery
<1>2. CASE ~ Diverts(x)
  <2> DEFINE S == Common(x[1], x[2])
  <2>1. Descend(x, S) /\ S \in SUBSET Nodes /\ S = Common(x[1], x[2]) /\ found' = found
    BY <1>0, <1>2, CommonTyped DEF EnterDiversion
  <2>d. Descend(x, S) /\ S \in SUBSET Nodes BY <2>1
  <2> HIDE DEF S
  <2>2. verdict' = "open" /\ walk' = walk /\ problem' = problem
    BY <2>1 DEF Descend, EntersPair
  <2>3. /\ \A y : Met(y) => Met(y)'
        /\ \A p, s : PairHandled(p, s) => PairHandled(p, s)'
        /\ Common(x[1], x[2]) = S => PairHandled(x[1], x[2])'
        /\ x = <<x[1], x[2]>>
        /\ \A p, s : <<2, p, s>> \in R /\ Key(<<p, s>>) \in visited' =>
                 Key(<<p, s>>) \in visited \/ (p = x[1] /\ s = x[2])
    BY <2>d, <1>w, Entering
  <2>4. /\ \A p, s : Diverts(<<p, s>>)' <=> Diverts(<<p, s>>)
        /\ \A V : LeadsToFound(V)' <=> LeadsToFound(V)
    BY <2>1, <2>2 DEF Diverts, LeadsToFound, Moves, A, B
  <2>5. ASSUME NEW p \in State, NEW s \in State, <<2, p, s>> \in R, s \in visited'
        PROVE  ~ Diverts(<<p, s>>) /\ PairHandled(p, s)'
    <3>1. Key(<<p, s>>) = s BY <1>0 DEF Key
    <3>2. s \in visited \/ (p = x[1] /\ s = x[2]) BY <2>3, <2>5, <3>1
    <3>3. CASE s \in visited BY <3>3, <2>3, <2>5 DEF DiversionProgress
    <3>4. CASE p = x[1] /\ s = x[2] BY <3>4, <2>1, <2>3, <1>2
    <3> QED BY <3>2, <3>3, <3>4
  <2>6. \A y \in found' : Met(y)' BY <2>1, <2>3 DEF DiversionProgress
  <2>7. \E V \in SUBSET R : LeadsToFound(V)' BY <2>4 DEF DiversionProgress
  <2>8. DiversionProgress(R)' BY <2>4, <2>5, <2>6, <2>7 DEF DiversionProgress
  <2> QED BY <2>2, <2>8
<1> QED BY <1>1, <1>2

-----------------------------------------------------------------------------
(* Beginning and end.                                                       *)

LEMMA InitJudged ==
    ASSUME Init, TypeOK, NEW R \in SUBSET Place, Closed(R), OneCompanion(R)
    PROVE  Judged(R)
<1>0. <<1, InitState, InitState>> \in R /\ InitState \in State
  BY ProblemsAssumption DEF Closed
<1>1. CASE Dives
  <2> DEFINE S == Edges(InitState, {InitState})
  <2>1. visited = {InitState} /\ stack = Level(S) BY <1>1 DEF Init, InitialStack
  <2>2. S \in SUBSET Nodes BY <1>0, <1>1, EdgesTyped
  <2>3. verdict = "open" \/ verdict = "no" BY <1>1 DEF Init, InitialVerdict, Dives
  <2>4. Discovery = "no" BY <1>1 DEF Dives, Discovery
  <2>5. ASSUME verdict = "open" PROVE DiveProgress(R)
    <3>1. Enterable(InitState, {InitState})
      BY <1>1, <2>5 DEF Init, InitialVerdict, Dives
    <3>2. SameMoves(InitState, InitState) BY <1>1, <3>1 DEF Enterable, SameMoves, Dives
    <3>3. \A y \in S : EdgeTakesCompanions(y)
      BY <3>2 DEF Edges, Edge, EdgeTakesCompanions
    <3>4. \A q : <<1, q, InitState>> \in R => {InitState} = {q}
      <4>1. \A p \in {InitState} : <<1, p, InitState>> \in R BY <1>0
      <4>2. {InitState} # {} OBVIOUS
      <4> DEFINE L == {InitState}
      <4> HIDE DEF L
      <4>3. L # {} /\ \A p \in L : <<1, p, InitState>> \in R BY <4>1, <4>2 DEF L
      <4>4. \A q : <<1, q, InitState>> \in R => L = {q} BY <1>1, <4>3, OnlyCompanion
      <4> QED BY <4>4 DEF L
    <3>5. \A t \in Targets(B, InitState) : Edge(InitState, {InitState}, t) \in S
      BY DEF Edges
    <3> HIDE DEF S
    <3>6. \A i \in DOMAIN stack : stack[i] = S BY <2>1, <2>2, LevelIsLevelled
    <3>7. \A y : OnStack(y) => EdgeTakesCompanions(y) BY <3>3, <3>6 DEF OnStack
    <3>8. \A y \in S : OnStack(y) BY <2>1, LevelHolds DEF OnStack
    <3>9. DiveHandled(InitState, InitState) BY <3>2, <3>5, <3>8 DEF DiveHandled
    <3>10. ASSUME NEW p \in State, NEW s \in State, <<1, p, s>> \in R, s \in visited
           PROVE  DiveHandled(p, s)
      <4>1. s = InitState BY <2>1, <3>10
      <4>2. p = InitState BY <3>4, <3>10, <4>1
      <4> QED BY <4>1, <4>2, <3>9
    <3> QED BY <2>1, <3>7, <3>10 DEF DiveProgress
  <2>6. DiveProgress(R) => Progress(R) BY <1>1 DEF Progress, Dives
  <2>7. verdict \notin {"open", Discovery} => FALSE BY <2>3, <2>4
  <2> QED BY <2>5, <2>6, <2>7 DEF Judged
<1>2. CASE ~ Dives
  <2>1. /\ visited = {} /\ found = {} /\ walk = 1 /\ stack = <<{Start}>>
    BY <1>2 DEF Init, InitialStack
  <2>2. OnStack(Start)
    <3>1. 1 \in DOMAIN <<{Start}>> /\ <<{Start}>>[1] = {Start} OBVIOUS
    <3> QED BY <2>1, <3>1 DEF OnStack
  <2>3. problem.check \in {"is_disjoint", "outrun"}
    <3>1. problem \in Problem BY ProblemTyped
    <3> QED BY <1>2, <3>1 DEF Problem, Checks, Dives
  <2>4. verdict = "open" => Progress(R)
    <3>1. SameProgress(R) /\ CommonalityProgress(R)
      BY <2>1, <2>2 DEF SameProgress, CommonalityProgress, Met
    <3> QED BY <1>2, <2>1, <2>3, <3>1 DEF Progress
  <2>5. ASSUME verdict # "open" PROVE Cleared(R)
    <3>1. problem.check = "is_disjoint" /\ (is_Empty(A) \/ is_Empty(B))
      BY <1>2, <2>5 DEF Init, InitialVerdict
    <3> DEFINE V == {<<1, InitState, InitState>>}
    <3>2. ASSUME NEW i \in {1, 2}, NEW p \in State, NEW s \in State, <<i, p, s>> \in V
          PROVE  i = 1 /\ p = InitState /\ s = InitState
      BY <3>2
    <3>3. Moves(A, InitState) \cap Moves(B, InitState) = {} BY <3>1 DEF is_Empty
    <3>4. V \in SUBSET R /\ <<1, InitState, InitState>> \in V BY <1>0
    <3>5. \A x \in V : x[2] = InitState /\ x[3] = InitState OBVIOUS
    <3>6. ~ (InitState \in A.accept /\ InitState \in B.accept) BY <3>1 DEF is_Empty
    <3> HIDE DEF V
    <3>7. Closed(V) BY <3>1, <3>2, <3>3, <3>4 DEF Closed
    <3>8. \A x \in V : ~ Evidence(x[1], x[2], x[3]) BY <3>1, <3>5, <3>6 DEF Evidence
    <3> QED BY <3>4, <3>7, <3>8 DEF Cleared
  <2> QED BY <2>4, <2>5 DEF Judged
<1> QED BY <1>1, <1>2

LEMMA DiversionJudged ==
    ASSUME TypeOK, StartDiversion, NEW R \in SUBSET Place, Closed(R), Progress(R)
    PROVE  DiversionProgress(R)'
<1>0. /\ problem.check = "outrun" /\ walk = 1 /\ stack = <<>> /\ ~ Dives
      /\ problem' = problem /\ found' = found /\ visited' = {} /\ stack' = <<found>>
      /\ A' = A /\ B' = B
  BY DEF StartDiversion, Dives, A, B
<1>1. CommonalityProgress(R) BY <1>0 DEF Progress
<1>2. \A y : ~ OnStack(y) BY <1>0 DEF OnStack
<1>3. \A y : Key(y) = y[1] BY <1>0 DEF Key
<1>5. PICK V \in SUBSET R : V = {x \in R : x[1] = 1 /\ x[2] \in visited} OBVIOUS
<1>4. ASSUME NEW i, NEW p, NEW s
      PROVE  <<i, p, s>> \in V <=> <<i, p, s>> \in R /\ i = 1 /\ p \in visited
  BY <1>5
<1>6. <<1, InitState, InitState>> \in V
  <2>1. <<1, InitState, InitState>> \in R BY DEF Closed
  <2>2. InitState \in visited BY <1>1, <1>2, <1>3 DEF CommonalityProgress, Met, Start
  <2> QED BY <1>4, <2>1, <2>2
<1>7. ASSUME NEW i \in {1, 2}, NEW p \in State, NEW s \in State, <<i, p, s>> \in V
      PROVE  /\ i = 1
             /\ p \in A.accept => <<p, s>> \in found
             /\ p \notin A.accept => \A c \in Moves(A, p) \cap Moves(B, s) :
                                        <<1, A.move[p][c], B.move[s][c]>> \in V
  <2>1. i = 1 /\ <<1, p, s>> \in R /\ p \in visited BY <1>4, <1>7
  <2>2. IF p \in A.accept THEN <<p, s>> \in found ELSE PairHandled(p, s)
    BY <1>1, <2>1 DEF CommonalityProgress
  <2>3. ASSUME p \notin A.accept, NEW c \in Moves(A, p) \cap Moves(B, s)
        PROVE  <<1, A.move[p][c], B.move[s][c]>> \in V
    <3> DEFINE y == <<A.move[p][c], B.move[s][c]>>
    <3>1. <<1, y[1], y[2]>> \in R BY <1>0, <2>1, <2>3 DEF Closed
    <3>2. y \in State \X State BY TargetsAreStates
    <3>3. y \in Common(p, s)
      BY <3>2 DEF Common, Into, Moves
    <3>4. y[1] \in visited BY <2>2, <2>3, <3>3, <1>2, <1>3 DEF PairHandled, Met
    <3> QED BY <1>4, <3>1, <3>4
  <2> QED BY <2>1, <2>2, <2>3
<1>8. LeadsToFound(V)'
  <2>1. \A p, s : (Moves(A, p) \cap Moves(B, s))' = Moves(A, p) \cap Moves(B, s)
    BY <1>0 DEF Moves
  <2> QED BY <1>0, <1>6, <1>7, <2>1 DEF LeadsToFound
<1>9. \A y \in found' : Met(y)'
  <2>1. 1 \in DOMAIN <<found>> /\ <<found>>[1] = found OBVIOUS
  <2>2. \A y \in found : OnStack(y)' BY <1>0, <2>1 DEF OnStack
  <2> QED BY <1>0, <2>2 DEF Met
<1> QED BY <1>0, <1>5, <1>8, <1>9 DEF DiversionProgress

-----------------------------------------------------------------------------
(* With nothing left on the stack, the marked places are closed.            *)

LEMMA DiveCleared ==
    ASSUME TypeOK, Dives, stack = <<>>, NEW R \in SUBSET Place, Closed(R), DiveProgress(R)
    PROVE  Cleared(R)
<1> DEFINE V == {x \in R : x[1] = 1 /\ x[3] \in visited}
<1>1. ASSUME NEW i, NEW p, NEW s
      PROVE  <<i, p, s>> \in V <=> <<i, p, s>> \in R /\ i = 1 /\ s \in visited
  OBVIOUS
<1>2. V \in SUBSET R /\ V \subseteq Place OBVIOUS
<1> HIDE DEF V
<1>3. <<1, InitState, InitState>> \in V BY <1>1 DEF Closed, DiveProgress
<1>4. \A y : ~ OnStack(y) BY DEF OnStack
<1>5. ASSUME NEW i \in {1, 2}, NEW p \in State, NEW s \in State, <<i, p, s>> \in V
      PROVE  /\ i = 1 /\ <<1, p, s>> \in R /\ SameMoves(p, s)
             /\ \A t \in Targets(B, s) : EdgeDone(p, s, t)
  <2>1. i = 1 /\ <<1, p, s>> \in R /\ s \in visited BY <1>1, <1>5
  <2>2. DiveHandled(p, s) BY <2>1 DEF DiveProgress
  <2> QED BY <2>1, <2>2, <1>4 DEF DiveHandled
<1>6. ASSUME NEW s \in State, NEW c \in Moves(B, s)
      PROVE  B.move[s][c] \in Targets(B, s) /\ c \in Into(B, s, B.move[s][c])
  BY <1>6 DEF Targets, Into, Moves
<1>7. problem.check # "outrun" /\ problem.check \in {"superset", "identity"} BY DEF Dives
<1>8. Closed(V)
  <2> SUFFICES ASSUME NEW i \in {1, 2}, NEW p \in State, NEW s \in State, <<i, p, s>> \in V,
                      NEW c \in Moves(A, p) \cap Moves(B, s)
               PROVE  <<i, A.move[p][c], B.move[s][c]>> \in V
    BY <1>3, <1>7 DEF Closed
  <2>1. i = 1 /\ <<1, p, s>> \in R /\ EdgeDone(p, s, B.move[s][c]) BY <1>5, <1>6
  <2>2. <<1, A.move[p][c], B.move[s][c]>> \in R BY <2>1, <1>7 DEF Closed
  <2>3. B.move[s][c] \in visited BY <2>1 DEF EdgeDone
  <2> QED BY <1>1, <2>1, <2>2, <2>3
<1>9. ASSUME NEW x \in V PROVE ~ Evidence(x[1], x[2], x[3])
  <2>1. x[1] \in {1, 2} /\ x[2] \in State /\ x[3] \in State /\ <<x[1], x[2], x[3]>> \in V
    BY <1>2 DEF Place
  <2>2. SameMoves(x[2], x[3]) /\ \A t \in Targets(B, x[3]) : EdgeDone(x[2], x[3], t)
    BY <1>5, <2>1
  <2>3. \A c \in Moves(B, x[3]) :
           /\ c \in Moves(A, x[2])
           /\ B.move[x[3]][c] \in B.accept => A.move[x[2]][c] \in A.accept
           /\ problem.check = "identity" /\ A.move[x[2]][c] \in A.accept
                 => B.move[x[3]][c] \in B.accept
    BY <1>6, <2>1, <2>2 DEF EdgeDone
  <2>4. CASE problem.check = "superset" BY <2>3, <2>4 DEF Evidence
  <2>5. CASE problem.check = "identity" BY <2>2, <2>3, <2>5 DEF Evidence, SameMoves
  <2> QED BY <1>7, <2>4, <2>5
<1> QED BY <1>2, <1>8, <1>9 DEF Cleared

LEMMA SameCleared ==
    ASSUME TypeOK, problem.check = "is_disjoint", walk = 1, stack = <<>>,
           NEW R \in SUBSET Place, Closed(R), SameProgress(R)
    PROVE  Cleared(R)
<1> DEFINE V == {x \in R : x[1] = 1 /\ x[2] \in visited}
<1>1. ASSUME NEW i, NEW p, NEW s
      PROVE  <<i, p, s>> \in V <=> <<i, p, s>> \in R /\ i = 1 /\ p \in visited
  OBVIOUS
<1>2. V \in SUBSET R /\ V \subseteq Place OBVIOUS
<1> HIDE DEF V
<1>3. \A y : Met(y) => y[1] \in visited BY DEF OnStack, Met, Key
<1>4. <<1, InitState, InitState>> \in V BY <1>1, <1>3 DEF Closed, SameProgress, Start
<1>5. ASSUME NEW i \in {1, 2}, NEW p \in State, NEW s \in State, <<i, p, s>> \in V
      PROVE  /\ i = 1 /\ <<1, p, s>> \in R
             /\ ~ (p \in A.accept /\ s \in B.accept) /\ PairHandled(p, s)
  BY <1>1, <1>5 DEF SameProgress
<1>6. Closed(V)
  <2> SUFFICES ASSUME NEW i \in {1, 2}, NEW p \in State, NEW s \in State, <<i, p, s>> \in V,
                      NEW c \in Moves(A, p) \cap Moves(B, s)
               PROVE  <<i, A.move[p][c], B.move[s][c]>> \in V
    BY <1>4 DEF Closed
  <2> DEFINE y == <<A.move[p][c], B.move[s][c]>>
  <2>1. i = 1 /\ <<1, p, s>> \in R /\ PairHandled(p, s) BY <1>5
  <2>2. <<1, y[1], y[2]>> \in R BY <2>1 DEF Closed
  <2>3. y \in State \X State BY TargetsAreStates
  <2>4. y \in Common(p, s) BY <2>3 DEF Common, Into, Moves
  <2>5. y[1] \in visited BY <2>1, <2>4, <1>3 DEF PairHandled
  <2> QED BY <1>1, <2>1, <2>2, <2>5
<1>7. ASSUME NEW x \in V PROVE ~ Evidence(x[1], x[2], x[3])
  <2>1. x[1] \in {1, 2} /\ x[2] \in State /\ x[3] \in State /\ <<x[1], x[2], x[3]>> \in V
    BY <1>2 DEF Place
  <2>2. ~ (x[2] \in A.accept /\ x[3] \in B.accept) BY <1>5, <2>1
  <2> QED BY <2>2 DEF Evidence
<1> QED BY <1>2, <1>6, <1>7 DEF Cleared

LEMMA DiversionCleared ==
    ASSUME TypeOK, problem.check = "outrun", walk = 2, stack = <<>>,
           NEW R \in SUBSET Place, Closed(R), OneCompanion(R), Inside(R), DiversionProgress(R)
    PROVE  Cleared(R)
<1>0. PICK U \in SUBSET R : LeadsToFound(U) BY DEF DiversionProgress
<1> DEFINE W == {x \in R : x[1] = 2 /\ x[3] \in visited}
           V == U \cup W
<1>1. ASSUME NEW i, NEW p, NEW s
      PROVE  <<i, p, s>> \in W <=> <<i, p, s>> \in R /\ i = 2 /\ s \in visited
  OBVIOUS
<1>2. V \in SUBSET R /\ V \subseteq Place OBVIOUS
<1> HIDE DEF W
<1>3. \A y : Met(y) => y[2] \in visited BY DEF OnStack, Met, Key
<1>4. \A y \in found : <<2, y[1], y[2]>> \in W BY <1>1, <1>3 DEF Inside, DiversionProgress
<1>5. ASSUME NEW i \in {1, 2}, NEW p \in State, NEW s \in State, <<i, p, s>> \in U
      PROVE  /\ i = 1
             /\ p \in A.accept => <<2, p, s>> \in W
             /\ p \notin A.accept => \A c \in Moves(A, p) \cap Moves(B, s) :
                                        <<1, A.move[p][c], B.move[s][c]>> \in U
  <2>1. /\ i = 1
        /\ p \in A.accept => <<p, s>> \in found
        /\ p \notin A.accept => \A c \in Moves(A, p) \cap Moves(B, s) :
                                   <<1, A.move[p][c], B.move[s][c]>> \in U
    BY <1>0, <1>5 DEF LeadsToFound
  <2>2. <<p, s>> \in found => <<2, p, s>> \in W BY <1>4
  <2> QED BY <2>1, <2>2
<1>6. ASSUME NEW i \in {1, 2}, NEW p \in State, NEW s \in State, <<i, p, s>> \in W
      PROVE  /\ i = 2 /\ ~ Diverts(<<p, s>>)
             /\ \A c \in Moves(A, p) \cap Moves(B, s) :
                   <<2, A.move[p][c], B.move[s][c]>> \in W
  <2>1. i = 2 /\ <<2, p, s>> \in R /\ s \in visited BY <1>1, <1>6
  <2>2. ~ Diverts(<<p, s>>) /\ PairHandled(p, s) BY <2>1 DEF DiversionProgress
  <2>3. ASSUME NEW c \in Moves(A, p) \cap Moves(B, s)
        PROVE  <<2, A.move[p][c], B.move[s][c]>> \in W
    <3> DEFINE y == <<A.move[p][c], B.move[s][c]>>
    <3>1. <<2, y[1], y[2]>> \in R BY <2>1, <2>3 DEF Closed
    <3>2. y \in State \X State BY TargetsAreStates
    <3>3. y \in Common(p, s) BY <3>2 DEF Common, Into, Moves
    <3>4. y[2] \in visited BY <2>2, <3>3, <1>3 DEF PairHandled
    <3> QED BY <1>1, <3>1, <3>4
  <2> QED BY <2>1, <2>2, <2>3
<1>7. <<1, InitState, InitState>> \in V BY <1>0 DEF LeadsToFound
<1>8. Closed(V)
  <2> SUFFICES ASSUME NEW i \in {1, 2}, NEW p \in State, NEW s \in State, <<i, p, s>> \in V
               PROVE  IF i = 1 /\ p \in A.accept THEN <<2, p, s>> \in V
                      ELSE \A c \in Moves(A, p) \cap Moves(B, s) :
                               <<i, A.move[p][c], B.move[s][c]>> \in V
    BY <1>7 DEF Closed
  <2>1. CASE <<i, p, s>> \in U BY <2>1, <1>5
  <2>2. CASE <<i, p, s>> \in W BY <2>2, <1>6
  <2> QED BY <2>1, <2>2
<1>9. ASSUME NEW x \in V PROVE ~ Evidence(x[1], x[2], x[3])
  <2>1. x[1] \in {1, 2} /\ x[2] \in State /\ x[3] \in State /\ <<x[1], x[2], x[3]>> \in V
    BY <1>2 DEF Place
  <2>2. x[1] = 1 \/ ~ Diverts(<<x[2], x[3]>>) BY <1>5, <1>6, <2>1
  <2> QED BY <2>2 DEF Evidence
<1> QED BY <1>2, <1>8, <1>9 DEF Cleared

(* outrun without anything found: the first walk alone is closed.           *)
LEMMA NothingFoundCleared ==
    ASSUME TypeOK, problem.check = "outrun", walk = 1, found = {}, stack = <<>>,
           NEW R \in SUBSET Place, Closed(R), CommonalityProgress(R)
    PROVE  Cleared(R)
<1> DEFINE V == {x \in R : x[1] = 1 /\ x[2] \in visited}
<1>1. ASSUME NEW i, NEW p, NEW s
      PROVE  <<i, p, s>> \in V <=> <<i, p, s>> \in R /\ i = 1 /\ p \in visited
  OBVIOUS
<1>2. V \in SUBSET R /\ V \subseteq Place OBVIOUS
<1> HIDE DEF V
<1>3. \A y : Met(y) => y[1] \in visited BY DEF OnStack, Met, Key
<1>4. <<1, InitState, InitState>> \in V BY <1>1, <1>3 DEF Closed, CommonalityProgress, Start
<1>5. ASSUME NEW i \in {1, 2}, NEW p \in State, NEW s \in State, <<i, p, s>> \in V
      PROVE  i = 1 /\ <<1, p, s>> \in R /\ p \notin A.accept /\ PairHandled(p, s)
  BY <1>1, <1>5 DEF CommonalityProgress
<1>6. Closed(V)
  <2> SUFFICES ASSUME NEW i \in {1, 2}, NEW p \in State, NEW s \in State, <<i, p, s>> \in V,
                      NEW c \in Moves(A, p) \cap Moves(B, s)
               PROVE  <<i, A.move[p][c], B.move[s][c]>> \in V
    BY <1>4, <1>5 DEF Closed
  <2> DEFINE y == <<A.move[p][c], B.move[s][c]>>
  <2>1. i = 1 /\ <<1, p, s>> \in R /\ p \notin A.accept /\ PairHandled(p, s) BY <1>5
  <2>2. <<1, y[1], y[2]>> \in R BY <2>1 DEF Closed
  <2>3. y \in State \X State BY TargetsAreStates
  <2>4. y \in Common(p, s) BY <2>3 DEF Common, Into, Moves
  <2>5. y[1] \in visited BY <2>1, <2>4, <1>3 DEF PairHandled
  <2> QED BY <1>1, <2>1, <2>2, <2>5
<1>7. ASSUME NEW x \in V PROVE ~ Evidence(x[1], x[2], x[3])
  <2>1. x[1] \in {1, 2} /\ x[2] \in State /\ x[3] \in State /\ <<x[1], x[2], x[3]>> \in V
    BY <1>2 DEF Place
  <2>2. x[1] = 1 BY <1>5, <2>1
  <2> QED BY <2>2 DEF Evidence
<1> QED BY <1>2, <1>6, <1>7 DEF Cleared

LEMMA WhichProgress ==
    ASSUME TypeOK, WalkOfOutrun, NEW R
    PROVE  /\ Dives => (Progress(R) <=> DiveProgress(R))
           /\ problem.check = "is_disjoint" => (Progress(R) <=> SameProgress(R)) /\ walk = 1
           /\ problem.check = "outrun" /\ walk = 1 => (Progress(R) <=> CommonalityProgress(R))
           /\ problem.check = "outrun" /\ walk = 2 => (Progress(R) <=> DiversionProgress(R))
           /\ ~ Dives => problem.check \in {"is_disjoint", "outrun"}
<1>1. problem \in Problem BY ProblemTyped
<1>2. ~ Dives => problem.check \in {"is_disjoint", "outrun"}
  BY <1>1 DEF Problem, Checks, Dives
<1>3. problem.check = "is_disjoint" => walk = 1 BY DEF WalkOfOutrun, TypeOK
<1>4. CASE Dives BY <1>4 DEF Progress, Dives
<1>5. CASE problem.check = "is_disjoint" BY <1>3, <1>5 DEF Progress, Dives
<1>6. CASE problem.check = "outrun" /\ walk = 1 BY <1>6 DEF Progress, Dives
<1>7. CASE problem.check = "outrun" /\ walk = 2 BY <1>7 DEF Progress, Dives
<1> QED BY <1>2, <1>4, <1>5, <1>6, <1>7 DEF TypeOK

(* The same after a step.                                                   *)
LEMMA WhichProgressNow ==
    ASSUME TypeOK', UNCHANGED problem, NEW R
    PROVE  /\ Dives /\ DiveProgress(R)' => Progress(R)'
           /\ problem.check = "is_disjoint" /\ SameProgress(R)' => Progress(R)'
           /\ problem.check = "outrun" /\ walk' = 1 /\ CommonalityProgress(R)' => Progress(R)'
           /\ problem.check = "outrun" /\ walk' = 2 /\ DiversionProgress(R)' => Progress(R)'
BY DEF Progress, Dives

(* Whatever a visit does: progress is kept, or the answer is a discovery.   *)
LEMMA VisitJudged ==
    ASSUME TypeOK, WalkOfOutrun, Visit, WalkOfOutrun', TypeOK',
           NEW R \in SUBSET Place, Closed(R), OneCompanion(R), Inside(R), Progress(R)
    PROVE  (verdict' = "open" /\ Progress(R)') \/ verdict' = Discovery'
<1> PICK x \in stack[Len(stack)] :
        FollowEdge(x) \/ Refuse(x) \/ EnterSame(x) \/ EnterCommonality(x) \/ EnterDiversion(x)
  BY DEF Visit
<1>1. stack # <<>> /\ verdict = "open" BY DEF Visit
<1>2. Len(stack) \in DOMAIN stack BY <1>1 DEF TypeOK
<1>3. x \in Nodes /\ OnStack(x) BY <1>2 DEF TypeOK, OnStack
<1>4. problem' = problem /\ walk' = walk
  BY DEF FollowEdge, Dive, Refuse, EnterSame, EnterCommonality, EnterDiversion, Descend, Return
<1>5. CASE FollowEdge(x)
  <2>1. Dives BY <1>5 DEF FollowEdge
  <2>2. DiveProgress(R) BY <2>1, WhichProgress
  <2>3. (verdict' = "open" /\ DiveProgress(R)') \/ verdict' = Discovery'
    BY <1>1, <1>3, <1>5, <2>1, <2>2, EdgeProgress
  <2> QED BY <1>4, <2>1, <2>3, WhichProgressNow
<1>6. CASE Refuse(x)
  <2>1. ~ Dives /\ verdict' = verdict BY <1>6 DEF Refuse
  <2> QED BY <1>1, <1>6, <2>1, RefuseProgress
<1>7. CASE EnterSame(x) \/ EnterCommonality(x) \/ EnterDiversion(x)
  <2>1. ~ Dives BY <1>7 DEF EnterSame, EnterCommonality, EnterDiversion, Dives
  <2>2. EntersPair(x) BY <1>1, <1>3, <2>1 DEF EntersPair
  <2>3. CASE EnterSame(x)
    <3>1. problem.check = "is_disjoint" BY <2>3 DEF EnterSame
    <3>2. SameProgress(R) BY <3>1, WhichProgress
    <3>3. (verdict' = "open" /\ SameProgress(R)') \/ verdict' = Discovery'
      BY <2>2, <2>3, <3>2, SameEnters
    <3> QED BY <1>4, <3>1, <3>3, WhichProgressNow
  <2>4. CASE EnterCommonality(x)
    <3>1. problem.check = "outrun" /\ walk = 1 BY <2>4 DEF EnterCommonality
    <3>2. CommonalityProgress(R) BY <3>1, WhichProgress
    <3>3. verdict' = "open" /\ CommonalityProgress(R)'
      BY <2>2, <2>4, <3>2, CommonalityEnters
    <3> QED BY <1>4, <3>1, <3>3, WhichProgressNow
  <2>5. CASE EnterDiversion(x)
    <3>1. problem.check = "outrun" /\ walk = 2 BY <2>5 DEF EnterDiversion
    <3>2. DiversionProgress(R) BY <3>1, WhichProgress
    <3>3. (verdict' = "open" /\ DiversionProgress(R)') \/ verdict' = Discovery'
      BY <2>2, <2>5, <3>2, DiversionEnters
    <3> QED BY <1>4, <3>1, <3>3, WhichProgressNow
  <2> QED BY <1>7, <2>3, <2>4, <2>5
<1> QED BY <1>5, <1>6, <1>7

LEMMA ConcludeJudged ==
    ASSUME TypeOK, WalkOfOutrun, Conclude,
           NEW R \in SUBSET Place, Closed(R), OneCompanion(R), Inside(R), Progress(R)
    PROVE  Cleared(R)
<1>1. stack = <<>> /\ (problem.check = "outrun" => walk = 2 \/ found = {}) BY DEF Conclude
<1>2. CASE Dives BY <1>1, <1>2, WhichProgress, DiveCleared
<1>3. CASE problem.check = "is_disjoint" BY <1>1, <1>3, WhichProgress, SameCleared
<1>4. CASE problem.check = "outrun" /\ walk = 2
  BY <1>1, <1>4, WhichProgress, DiversionCleared
<1>5. CASE problem.check = "outrun" /\ walk = 1
  BY <1>1, <1>5, WhichProgress, NothingFoundCleared
<1>6. ~ Dives => problem.check \in {"is_disjoint", "outrun"} BY WhichProgress
<1> QED BY <1>2, <1>3, <1>4, <1>5, <1>6 DEF TypeOK

LEMMA StepJudged == JInv /\ [Next]_vars => JInv'
<1> SUFFICES ASSUME JInv, [Next]_vars PROVE JInv' OBVIOUS
<1>1. IInv /\ IInv' BY StepKeeps DEF JInv
<1>2. /\ TypeOK /\ WalkOfOutrun /\ TypeOK' /\ WalkOfOutrun'
  BY <1>1 DEF IInv
<1>3. problem' = problem
  BY DEF Next, vars, Visit, StartDiversion, Conclude, Return, FollowEdge, Dive, Refuse,
     EnterSame, EnterCommonality, EnterDiversion, Descend
<1>4. \A R : /\ Closed(R)' <=> Closed(R)
             /\ OneCompanion(R)' <=> OneCompanion(R)
             /\ Cleared(R)' <=> Cleared(R)
  BY <1>3 DEF Closed, OneCompanion, Cleared, Evidence, Diverts, Dives, Moves, A, B
<1>5. Discovery' = Discovery /\ Discovery # "open" BY <1>3 DEF Discovery
<1> SUFFICES ASSUME NEW R \in SUBSET Place, Closed(R), OneCompanion(R) PROVE Judged(R)'
  BY <1>1, <1>4 DEF JInv
<1>6. Judged(R) /\ Inside(R) BY DEF JInv, IInv
<1>7. CASE UNCHANGED vars
  <2>1. UNCHANGED <<problem, stack, visited, found, walk, verdict>> BY <1>7 DEF vars
  <2>2. Progress(R)' <=> Progress(R)
    BY <2>1 DEF Progress, DiveProgress, SameProgress, CommonalityProgress, DiversionProgress,
       DiveHandled, PairHandled, EdgeDone, EdgeTakesCompanions, SameMoves, LeadsToFound, Met,
       OnStack, Key, Common, Into, Targets, Moves, Diverts, Dives, Start, A, B
  <2> QED BY <1>4, <1>5, <1>6, <2>1, <2>2 DEF Judged
<1>8. CASE Visit
  <2>1. Progress(R) BY <1>6, <1>8 DEF Judged, Visit
  <2>2. (verdict' = "open" /\ Progress(R)') \/ verdict' = Discovery'
    BY <1>2, <1>6, <1>8, <2>1, VisitJudged
  <2> QED BY <1>5, <2>2 DEF Judged
<1>9. CASE StartDiversion
  <2>1. Progress(R) BY <1>6, <1>9 DEF Judged, StartDiversion
  <2>2. DiversionProgress(R)' BY <1>2, <1>9, <2>1, DiversionJudged
  <2>3. verdict' = "open" /\ walk' = 2 /\ problem.check = "outrun" BY <1>9 DEF StartDiversion
  <2> QED BY <1>2, <1>3, <2>2, <2>3, WhichProgressNow DEF Judged
<1>10. CASE Conclude
  <2>1. Progress(R) BY <1>6, <1>10 DEF Judged, Conclude
  <2>2. Cleared(R) BY <1>2, <1>6, <1>10, <2>1, ConcludeJudged
  <2>3. verdict' # "open" BY <1>10 DEF Conclude, Return
  <2> QED BY <1>4, <2>2, <2>3 DEF Judged
<1> QED BY <1>7, <1>8, <1>9, <1>10 DEF Next

LEMMA AlwaysJInv == Spec => []JInv
<1>1. Init => JInv BY InitEstablishes, InitJudged DEF JInv, IInv
<1> QED BY <1>1, StepJudged, PTL DEF Spec

(* Both machines can be in the places of R for the problem q: Closed(R) for *)
(* any problem.                                                             *)
ClosedFor(q, R) ==
    /\ <<1, InitState, InitState>> \in R
    /\ \A i \in {1, 2}, p \in State, s \in State : <<i, p, s>> \in R =>
          IF q.check = "outrun" /\ i = 1 /\ p \in q.a.accept
          THEN <<2, p, s>> \in R
          ELSE \A c \in Moves(q.a, p) \cap Moves(q.b, s) :
                   <<i, q.a.move[p][c], q.b.move[s][c]>> \in R

(* Among the relations that judge a problem are the places that both        *)
(* machines really reach.                                                   *)
ReachedJudges ==
    \A q \in Problems : \E L \in Relations[q] :
        ClosedFor(q, L) /\ \A R \in SUBSET Place : ClosedFor(q, R) => L \subseteq R

(* "Superset", "identical", "does not outrun" and "disjoint" are answered   *)
(* only where no lexeme shows the contrary, for any machines whose states   *)
(* are met in one company only, in any order of the walk.                   *)
THEOREM NothingOverlooked ==
    ASSUME ReachedJudges
    PROVE  Spec => []ExactForOneCompanion
<1>1. JInv => ExactForOneCompanion
  <2> SUFFICES ASSUME JInv, verdict \notin {"open", Discovery},
                      NEW R \in Relations[problem], Closed(R), OneCompanion(R)
               PROVE  NothingToDiscover
    BY DEF ExactForOneCompanion
  <2>1. problem \in Problems BY DEF JInv, IInv, TypeOK
  <2>2. \A Q : ClosedFor(problem, Q) <=> Closed(Q) BY DEF ClosedFor, Closed, A, B
  <2>3. PICK L \in Relations[problem] :
            Closed(L) /\ \A Q \in SUBSET Place : Closed(Q) => L \subseteq Q
    BY <2>1, <2>2 DEF ReachedJudges
  <2>4. R \in SUBSET Place /\ L \in SUBSET Place BY <2>1, ProblemsAssumption
  <2>5. L \subseteq R BY <2>3, <2>4
  <2>6. OneCompanion(L) BY <2>5 DEF OneCompanion
  <2>7. Cleared(L) BY <2>3, <2>4, <2>6 DEF JInv, Judged
  <2>8. PICK V \in SUBSET L : Closed(V) /\ \A x \in V : ~ Evidence(x[1], x[2], x[3])
    BY <2>7 DEF Cleared
  <2>9. V = L BY <2>3, <2>4, <2>8
  <2> QED BY <2>8, <2>9 DEF NothingToDiscover
<1> QED BY <1>1, AlwaysJInv, PTL
=============================================================================
