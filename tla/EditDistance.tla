---------------------------- MODULE EditDistance ----------------------------
(***************************************************************************)
(* Machines that match what is similar to the lexemes of another one       *)
(* (engine/state_machine/edit_distance): made from all paths of the given  *)
(* machine, each of them adapted, or from clones of the machine, one for   *)
(* each number of operations that remain.                                  *)
(* A path is a sequence of steps: the characters that lead on, and whether *)
(* the step may be left out.                                               *)
(***************************************************************************)
EXTENDS Constructions

On(m, s, t) == {c \in Char : t \in m.trig[s][c]}
Plain(C)    == [on |-> C, skip |-> FALSE]

(* iterable_paths(1): no state is entered more than twice on a path.        *)
RECURSIVE PathsFrom(_, _)
PathsFrom(m, way) ==
    LET s == Last(way)
        Entered(t) == Cardinality({i \in DOMAIN way : way[i] = t})
    IN (IF s \in m.accept THEN {<<>>} ELSE {})
       \cup UNION {{<<Plain(On(m, s, t))>> \o p : p \in PathsFrom(m, Append(way, t))} :
                      t \in {x \in Targets(m, s) : Entered(x) <= 1}}
iterable_paths(m) == PathsFrom(m, <<m.init>>)

(* from_path_list(): every path has its own states behind the init state,   *)
(* <<p, k>> is where k steps of path p lead.                                *)
from_path_list(paths) ==
    LET steps == UNION {{<<p, k>> : k \in DOMAIN p} : p \in paths}
        init  == <<<<>>, 0>>
        all   == {init} \cup steps
        Next(s) == IF s = init THEN {x \in steps : x[2] = 1}
                   ELSE {<<s[1], k>> : k \in {s[2] + 1} \cap DOMAIN s[1]}
        Taken(x) == x[1][x[2]]
    IN IF \A x \in steps : Taken(x).on = {} THEN Empty
       ELSE [init   |-> init,
             trig   |-> [s \in all |-> [c \in Char |-> {x \in Next(s) : c \in Taken(x).on}]],
             eps    |-> [s \in all |-> {x \in Next(s) : Taken(x).skip}],
             accept |-> {x \in steps : x[2] = Len(x[1])}]

-----------------------------------------------------------------------------
(* core.py: exactly n operations on each path. *)

(* _apply(): the empty lexeme is never accepted.                            *)
Rebuilt(paths) ==
    LET m == beautifier(from_path_list(paths))
    IN [m EXCEPT !.accept = @ \ {m.init}]
LongEnough(m, n) == {p \in iterable_paths(m) : Len(p) >= n}

(* EdInsert: at any places, before, inside, and behind.                     *)
InsertOnce(paths, C) ==
    UNION {{InsertAt(p, k, Plain(C)) : k \in 1 .. Len(p) + 1} : p \in paths}
insert(m, n, C) ==
    Rebuilt(FoldLeft(LAMBDA paths, i : InsertOnce(paths, C), iterable_paths(m), Copies(0, n)))

(* EdDelete and EdSubstitute, at the places S.  Of a step that is to be     *)
(* substituted and has no concerned character, nothing remains.             *)
Concerned(step, C) == step.on \cap C # {}
Deleted(p, S, C) ==
    [k \in DOMAIN p |-> IF k \in S /\ Concerned(p[k], C) THEN [on |-> p[k].on \ C, skip |-> TRUE]
                        ELSE p[k]]
Substituted(p, S, C, D) ==
    FlattenSeq([k \in DOMAIN p |->
        IF k \notin S THEN <<p[k]>>
        ELSE IF Concerned(p[k], C) THEN <<Plain((p[k].on \ C) \cup D)>> ELSE <<>>])

(* _generate_adapted_paths(): any n places; a path on which nothing happens *)
(* remains.                                                                 *)
PlacesFor(p, n, C) == {S \in kSubset(n, DOMAIN p) : \E k \in S : Concerned(p[k], C)}
AdaptedPaths(p, done) == IF done = {} THEN {p} ELSE done
delete(m, n, C) ==
    Rebuilt(UNION {AdaptedPaths(p, {Deleted(p, S, C) : S \in PlacesFor(p, n, C)}) :
                      p \in LongEnough(m, n)})
substitute(m, n, C, D) ==
    Rebuilt(UNION {AdaptedPaths(p, {Substituted(p, S, C, D) : S \in PlacesFor(p, n, C)}) :
                      p \in LongEnough(m, n)})

-----------------------------------------------------------------------------
(* transposition.py: neighbours change their places. *)

Switched(p, k, C) ==
    [p EXCEPT ![k].on     = (@ \ C) \cup (p[k + 1].on \cap C),
              ![k + 1].on = (@ \ C) \cup (p[k].on \cap C)]
OnPivots(p, C) ==
    AdaptedPaths(p, {Switched(p, k, C) :
        k \in {i \in 1 .. Len(p) - 1 : Concerned(p[i], C) /\ Concerned(p[i + 1], C)}})
NextPaths(paths, C) == UNION {OnPivots(p, C) : p \in {q \in paths : Len(q) > 1}}
Transposed(m, n, C) ==
    FoldLeft(LAMBDA paths, i : NextPaths(paths, C), iterable_paths(m), Copies(0, n))
transpose(m, n, C)      == beautifier(from_path_list(Transposed(m, n, C)))
transpose_upto(m, n, C) == beautifier(from_path_list(UNION {Transposed(m, i, C) : i \in 0 .. n}))

-----------------------------------------------------------------------------
(* levenshtein.py: an operation leads to the clone on the next level; the   *)
(* highest one allows none.  'By' comes for what is in Sub.                 *)
levenshtein(m, n, Ins, Del, Sub, By) ==
    LET K == Max(States(m)) + 1
        Id(level, s) == level * K + s
        all == {Id(level, s) : level \in 0 .. n, s \in States(m)}
        Up(i, T) == {Id(i \div K + 1, t) : t \in {x \in T : i \div K < n}}
        Some(i, C) == {t \in Targets(m, i % K) : On(m, i % K, t) \cap C # {}}
        Instead(i, c) == {t \in Some(i, Sub) : c \in By \ On(m, i % K, t)}
    IN beautifier(
          [init   |-> Id(0, m.init),
           trig   |-> [i \in all |-> [c \in Char |->
                          {Id(i \div K, t) : t \in m.trig[i % K][c]}
                          \cup Up(i, {s \in {i % K} : c \in Ins} \cup Instead(i, c))]],
           eps    |-> [i \in all |-> Up(i, Some(i, Del))],
           accept |-> {i \in all : i % K \in m.accept}])

insert_upto(m, n, C)        == levenshtein(m, n, C, {}, {}, {})
delete_upto(m, n, C)        == levenshtein(m, n, {}, C, {}, {})
substitute_upto(m, n, C, D) == levenshtein(m, n, {}, {}, C, D)

(* pseudo_damerau.py: i of the n operations are Levenshtein's.              *)
damerau(m, n, Ins, Del, Sub, By, Switch) ==
    LET Edited(i) == IF i = 0 THEN transpose(m, n, Switch)
                     ELSE levenshtein(IF i = n THEN m ELSE transpose(m, n - i, Switch),
                                      i, Ins, Del, Sub, By)
    IN FoldLeft(LAMBDA a, i : union(a, Edited(i)), Edited(0), [i \in 1 .. n |-> i])
=============================================================================
