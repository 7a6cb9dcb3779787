----------------------------- MODULE NumberSet -----------------------------
(***************************************************************************)
(* The character sets of the generator (engine/misc/interval_handling.py): *)
(* a set of numbers is a list of intervals, sorted, without touching or    *)
(* empty members.  All state machine constructions are built on them, and  *)
(* the comparison of two sets (is_equal) compares the lists.               *)
(* The objects of the program are named by Names; an operation changes the *)
(* list of one of them in place.                                           *)
(***************************************************************************)
EXTENDS Integers, Sequences, SequencesExt, FiniteSetsExt

CONSTANTS Names,        \* the sets of a calculation
          INTEGER_MAX,  \* numbers range from -INTEGER_MAX to INTEGER_MAX - 1 (not 0)
          TrafoInfo     \* table: sequence of <<source begin, source end, target begin>>

VARIABLE intervals      \* map: name --> list of intervals

vars == intervals

Interval(b, e) == [begin |-> b, end |-> e]

(* The intervals that are not empty, and the numbers a list describes. *)
Borders == -INTEGER_MAX .. INTEGER_MAX
Intervals == {x \in [begin : Borders, end : Borders] : x.begin < x.end}
Numbers(s) == UNION {s[i].begin .. s[i].end - 1 : i \in DOMAIN s}
Universe == -INTEGER_MAX .. INTEGER_MAX - 1
NumberSet_All == <<Interval(-INTEGER_MAX, INTEGER_MAX)>>

-----------------------------------------------------------------------------
(* Operations that change a set. *)

add_interval(s, x) ==
    LET reached == {i \in DOMAIN s : s[i].end >= x.begin}
        i == Min(reached)
        eaten == {k \in i .. Len(s) : k = i \/ s[k].begin <= x.end}
        y == Interval(Min({x.begin, s[i].begin}), Max({x.end} \cup {s[k].end : k \in eaten}))
    IN CASE x.begin = x.end -> s
         [] x.begin # x.end /\ reached = {} -> Append(s, x)
         [] x.begin # x.end /\ reached # {} /\ x.end < s[i].begin -> InsertAt(s, i, x)
         [] OTHER -> SubSeq(s, 1, i - 1) \o <<y>> \o SubSeq(s, Max(eaten) + 1, Len(s))

(* When the loop over the list finds nothing the cut reaches, it ends at   *)
(* the last interval, and goes on as if that one had been reached.         *)
cut_interval(s, Y) ==
    LET reached == {i \in DOMAIN s : Y.begin < s[i].end}
        front == IF reached = {} THEN Len(s) ELSE Min(reached)
        back == Max({front} \cup {k \in front .. Len(s) : s[k].begin < Y.end})
        low == IF reached # {} /\ s[front].begin < Y.begin
               THEN <<Interval(s[front].begin, Y.begin)>> ELSE <<>>
        up == IF s[back].end > Y.end
              THEN <<Interval(Y.end, s[back].end)>> ELSE <<>>
    IN IF \/ Y.begin = Y.end
          \/ s = <<>>
          \/ Y.begin > Last(s).end
          \/ Y.end <= s[1].begin
          \/ reached # {} /\ Y.end < s[front].begin
       THEN s
       ELSE SubSeq(s, 1, front - 1) \o low \o up \o SubSeq(s, back + 1, Len(s))

unite_with(s, o) ==
    CASE o = <<>> -> s
      [] o # <<>> /\ s = <<>> -> o
      [] o # <<>> /\ s # <<>> /\ o[1].begin > Last(s).end -> s \o o
      [] o # <<>> /\ s # <<>> /\ Last(o).end < s[1].begin -> o \o s
      [] OTHER -> FoldLeft(add_interval, s, o)

(* Mutant: the member of 'o' that reached into x is not looked at again. *)
IntersectOnce(s, o) ==
    LET step(acc, x) ==
            LET reached == {i \in acc.min_i .. Len(o) : x.end >= o[i].begin}
                part(i) == Interval(Max({x.begin, o[i].begin}), Min({x.end, o[i].end}))
                hit == SetToSortSeq({i \in reached : x.begin < o[i].end
                                                     /\ part(i).begin # part(i).end}, <)
            IN [min_i |-> Max({acc.min_i} \cup {i + 1 : i \in reached}),
                result |-> acc.result \o [k \in DOMAIN hit |-> part(hit[k])]]
    IN IF o = <<>> \/ s = <<>> THEN <<>>
       ELSE FoldLeft(step, [min_i |-> 1, result |-> <<>>], s).result

(* 'min_i' follows the last member of 'o' that begins before the end of x. *)
intersect_with(s, o) ==
    LET step(acc, x) ==
            LET reached == {i \in acc.min_i .. Len(o) : x.end >= o[i].begin}
                part(i) == Interval(Max({x.begin, o[i].begin}), Min({x.end, o[i].end}))
                hit == SetToSortSeq({i \in reached : x.begin < o[i].end
                                                     /\ part(i).begin # part(i).end}, <)
            IN [min_i |-> Max({acc.min_i} \cup reached),
                result |-> acc.result \o [k \in DOMAIN hit |-> part(hit[k])]]
    IN IF o = <<>> \/ s = <<>> THEN <<>>
       ELSE FoldLeft(step, [min_i |-> 1, result |-> <<>>], s).result

subtract(s, o) ==
    IF s = <<>> THEN s
    ELSE FoldLeft(cut_interval, s,
                  SelectSeq(o, LAMBDA x : x.end > s[1].begin /\ x.begin < Last(s).end))

symmetric_difference(s, o) == subtract(unite_with(s, o), intersect_with(s, o))

get_complement(s, universe) ==
    LET low == IF s[1].begin # -INTEGER_MAX
               THEN <<Interval(-INTEGER_MAX, s[1].begin)>> ELSE <<>>
        gaps == [k \in 1 .. Len(s) - 1 |-> Interval(s[k].end, s[k + 1].begin)]
        up == IF Last(s).end # INTEGER_MAX
              THEN <<Interval(Last(s).end, INTEGER_MAX)>> ELSE <<>>
    IN IF s = <<>> THEN universe ELSE intersect_with(low \o gaps \o up, universe)

cut_lesser(s, b) ==
    LET kept == {i \in DOMAIN s : s[i].end > b}
        i == Min(kept)
    IN IF kept = {} THEN <<>>
       ELSE <<Interval(Max({b, s[i].begin}), s[i].end)>> \o SubSeq(s, i + 1, Len(s))

cut_greater_or_equal(s, e) ==
    LET kept == {i \in DOMAIN s : s[i].begin < e}
        i == Max(kept)
    IN IF kept = {} THEN <<>>
       ELSE SubSeq(s, 1, i - 1) \o <<Interval(s[i].begin, Min({e, s[i].end}))>>

mask(s, b, e) == cut_greater_or_equal(cut_lesser(s, b), e)

(* Combine what touches or intersects, in a list sorted by the begin. *)
clean(s) ==
    LET step(acc, x) ==
            IF Last(acc).end < x.begin THEN Append(acc, x)
            ELSE Front(acc) \o <<[Last(acc) EXCEPT !.end = Max({@, x.end})]>>
    IN IF Len(s) < 2 THEN s ELSE FoldLeft(step, <<s[1]>>, Tail(s))

(* The images of the parts of x that the table has an entry for. *)
transformed(x) ==
    LET image(t) == LET b == Max({x.begin, t[1]})
                        e == Min({x.end, t[2]})
                    IN IF b < e THEN <<Interval(t[3] + b - t[1], t[3] + e - t[1])>> ELSE <<>>
    IN FoldLeft(LAMBDA acc, t : acc \o image(t), <<>>, TrafoInfo)

transform_by_table(s) ==
    LET images == FoldLeft(LAMBDA acc, x : acc \o transformed(x), <<>>, s)
    IN clean(SortSeq(images, LAMBDA x, y : x.begin < y.begin))

(* The verdict: as many numbers have been transformed as there were. *)
transformation_complete(s) ==
    \A i \in DOMAIN s :
        LET images == transformed(s[i])
        IN FoldLeft(LAMBDA n, x : n + x.end - x.begin, 0, images) = s[i].end - s[i].begin

(* Sort and combine; a member that reaches into its predecessor sets its end. *)
from_IntervalList(list) ==
    LET before(x, y) == x.begin < y.begin \/ (x.begin = y.begin /\ x.end < y.end)
        sorted == SortSeq(list, before)
        step(acc, x) == IF x.begin <= Last(acc).end
                        THEN Front(acc) \o <<[Last(acc) EXCEPT !.end = x.end]>>
                        ELSE Append(acc, x)
    IN IF list = <<>> THEN <<>> ELSE FoldLeft(step, <<sorted[1]>>, Tail(sorted))
-----------------------------------------------------------------------------
(* Questions about sets. *)

RECURSIVE bisect(_, _, _, _)
bisect(s, Value, lower, upper) ==   \* upper: first index behind the part searched
    LET i == (upper + lower) \div 2
    IN IF upper - lower > 1
       THEN CASE s[i].begin > Value -> bisect(s, Value, lower, i)
              [] s[i].begin <= Value /\ s[i].end <= Value -> bisect(s, Value, i, upper)
              [] OTHER -> TRUE
       ELSE Value >= s[lower].begin /\ Value < s[lower].end

contains(s, Value) == s # <<>> /\ bisect(s, Value, 1, Len(s) + 1)

RECURSIVE covers(_, _, _, _, _)
covers(s, o, i, k, other_begin) ==
    IF s[i].end < other_begin
    THEN i # Len(s) /\ covers(s, o, i + 1, k, other_begin)
    ELSE /\ s[i].begin <= other_begin
         /\ IF s[i].end >= o[k].end
            THEN k = Len(o) \/ covers(s, o, i, k + 1, o[k + 1].begin)
            ELSE i # Len(s) /\ covers(s, o, i + 1, k, s[i].end)

is_superset(s, o) ==
    IF s = <<>> THEN o = <<>> ELSE o = <<>> \/ covers(s, o, 1, 1, o[1].begin)

has_intersection(s, o) ==
    /\ s # <<>> /\ o # <<>>
    /\ Last(o).end >= s[1].begin
    /\ o[1].begin <= Last(s).end
    /\ \E i \in DOMAIN s, k \in DOMAIN o :
          /\ o[k].end >= s[1].begin /\ o[k].begin <= Last(s).end
          /\ o[k].begin < s[i].end /\ o[k].end > s[i].begin

is_equal(s, o) ==
    /\ Len(s) = Len(o)
    /\ \A i \in DOMAIN s : s[i].begin = o[i].begin /\ s[i].end = o[i].end

has_size_one(s) == Len(s) = 1 /\ s[1].end - s[1].begin = 1
is_all(s) == Len(s) = 1 /\ s[1] = NumberSet_All[1]
minimum(s) == IF s = <<>> THEN INTEGER_MAX ELSE s[1].begin
least_greater_bound(s) == IF s = <<>> THEN -INTEGER_MAX ELSE Last(s).end

-----------------------------------------------------------------------------
(* A calculation: any operation on any set, arguments from the other sets. *)

Init == intervals = [n \in Names |-> <<>>]

Becomes(n, s) == intervals' = [intervals EXCEPT ![n] = s]

AddInterval(n, x) == Becomes(n, add_interval(intervals[n], x))
(* delete_transitions_on_number and replace_triggers cut a number they have *)
(* found in the set; surrogates are subtracted (utf16_state_split.py) from  *)
(* sets that reach beyond them.  So no cut begins where the set ends.       *)
Cut(n, x) ==
    /\ x.begin < least_greater_bound(intervals[n])
    /\ Becomes(n, cut_interval(intervals[n], x))
UniteWith(n, m) == Becomes(n, unite_with(intervals[n], intervals[m]))
IntersectWith(n, m) == Becomes(n, intersect_with(intervals[n], intervals[m]))
Subtract(n, m) == Becomes(n, subtract(intervals[n], intervals[m]))
SymmetricDifference(n, m) == Becomes(n, symmetric_difference(intervals[n], intervals[m]))
Complement(n, m) == Becomes(n, get_complement(intervals[n], intervals[m]))
ComplementInAll(n) == Becomes(n, get_complement(intervals[n], NumberSet_All))
Mask(n, x) == Becomes(n, mask(intervals[n], x.begin, x.end))
TransformByTable(n) == Becomes(n, transform_by_table(intervals[n]))
(* The union of the trigger sets of a target map, which are disjoint. *)
TriggerSetUnion(n, m) ==
    /\ ~ has_intersection(intervals[n], intervals[m])
    /\ Becomes(n, from_IntervalList(intervals[m] \o intervals[n]))

Next ==
    \/ \E n \in Names, x \in Intervals : AddInterval(n, x) \/ Cut(n, x) \/ Mask(n, x)
    \/ \E n, m \in Names : \/ UniteWith(n, m)
                           \/ IntersectWith(n, m)
                           \/ Subtract(n, m)
                           \/ SymmetricDifference(n, m)
                           \/ Complement(n, m)
                           \/ TriggerSetUnion(n, m)
    \/ \E n \in Names : ComplementInAll(n) \/ TransformByTable(n)

Spec == Init /\ [][Next]_vars

-----------------------------------------------------------------------------
(* Every set is in the normal form the comparisons rely on: sorted, no     *)
(* interval empty, none touching its neighbour (assert_consistency).       *)
NormalForm ==
    \A n \in Names :
        LET s == intervals[n]
        IN /\ \A i \in DOMAIN s : s[i] \in Intervals
           /\ \A i \in 1 .. Len(s) - 1 : s[i].end < s[i + 1].begin

(* What the operations with two sets leave is what their names say of the  *)
(* sets of numbers, for every two sets a calculation may reach: a loop     *)
(* that stops early or an interval lost at a border shows here.            *)
PairsExact ==
    \A n, m \in Names :
        LET s == intervals[n]
            o == intervals[m]
        IN /\ Numbers(unite_with(s, o)) = Numbers(s) \cup Numbers(o)
           /\ Numbers(intersect_with(s, o)) = Numbers(s) \cap Numbers(o)
           /\ Numbers(subtract(s, o)) = Numbers(s) \ Numbers(o)
           /\ Numbers(symmetric_difference(s, o))
                = (Numbers(s) \ Numbers(o)) \cup (Numbers(o) \ Numbers(s))
           /\ Numbers(get_complement(s, o)) = Numbers(o) \ Numbers(s)
           /\ ~ has_intersection(s, o)
                => Numbers(from_IntervalList(o \o s)) = Numbers(s) \cup Numbers(o)

(* The same for the operations with one set and an interval or the table:  *)
(* an added interval is in, a masked set has what lies in the range, a cut *)
(* number is out and nothing else, the transformation keeps as many        *)
(* numbers as the table maps and says so.                                  *)
SinglesExact ==
    \A n \in Names :
        LET s == intervals[n]
            image(t) == {t[3] + v - t[1] : v \in Numbers(s) \cap (t[1] .. t[2] - 1)}
            mapped == UNION {TrafoInfo[k][1] .. TrafoInfo[k][2] - 1 : k \in DOMAIN TrafoInfo}
        IN /\ \A x \in Intervals :
                /\ Numbers(add_interval(s, x)) = Numbers(s) \cup Numbers(<<x>>)
                /\ Numbers(mask(s, x.begin, x.end)) = Numbers(s) \cap Numbers(<<x>>)
           /\ \A v \in Numbers(s) :
                Numbers(cut_interval(s, Interval(v, v + 1))) = Numbers(s) \ {v}
           /\ Numbers(transform_by_table(s))
                = UNION {image(TrafoInfo[k]) : k \in DOMAIN TrafoInfo}
           /\ transformation_complete(s) <=> Numbers(s) \subseteq mapped

(* The questions have the answers the sets of numbers give.  is_equal and  *)
(* is_superset walk two lists in step: the minimization and the check of   *)
(* patterns against each other decide by them.                             *)
AnswersTrue ==
    \A n, m \in Names :
        LET s == intervals[n]
            o == intervals[m]
        IN /\ is_equal(s, o) <=> Numbers(s) = Numbers(o)
           /\ is_superset(s, o) <=> Numbers(o) \subseteq Numbers(s)
           /\ has_intersection(s, o) <=> Numbers(s) \cap Numbers(o) # {}
           /\ \A v \in Universe : contains(s, v) <=> v \in Numbers(s)
           /\ has_size_one(s) <=> Cardinality(Numbers(s)) = 1
           /\ is_all(s) <=> Numbers(s) = Universe
           /\ s # <<>> => /\ minimum(s) = Min(Numbers(s))
                         /\ least_greater_bound(s) = Max(Numbers(s)) + 1

(* All of it: whatever comes out of an operation is the set of numbers     *)
(* that its name promises, in the form that the next operation relies on,  *)
(* and no question about it is answered wrongly.                           *)
OperationsExact == NormalForm /\ PairsExact /\ SinglesExact /\ AnswersTrue
=============================================================================
