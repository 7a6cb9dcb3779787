------------------------------ MODULE MCModes ------------------------------
(* Input files for Modes.                                                   *)
(* Trees: four modes that are derived from up to two others, circles and    *)
(* all; each file gives them one pattern each, and one can be started.      *)
(* Marks: a chain or a triangle of modes Z, P, D, defined in any order; Z   *)
(* has patterns, P and D mark them; what is left empty becomes abstract.    *)
(* Permits: three modes with entry and exit permissions; C may be derived   *)
(* from B and B from A, and C may be empty.                                 *)
(* Skipping: skippers, ranges, and indentation, inherited or not, with      *)
(* patterns that they touch, and with marks that do.                        *)
(* Modes A and C handle an event.                                           *)
EXTENDS Integers, Sequences, FiniteSets, SequencesExt

Definition(name, bases, options, body) ==
    [name |-> name, bases |-> bases, option_db |-> options, body |-> body,
     handlers |-> IF name \in {"A", "C"} THEN {"on_entry"} ELSE {}]
Item(mark, matches) == [mark |-> mark, matches |-> matches, dot |-> FALSE]
Match(x)    == Item("=>", {x})
Option(name, val) == [name |-> name, value |-> val]
Only        == <<Option("inheritable", "only")>>

Upto2(S) == {<<>>} \cup {<<x>> : x \in S} \cup {q \in [1..2 -> S] : q[1] # q[2]}
Trees ==
    {<<Definition("A", a, Only, <<Match("a")>>), Definition("B", b, Only, <<Match("b")>>),
       Definition("C", c, Only, <<Match("c")>>), Definition("D", d, <<>>, <<Match("d")>>)>> :
        a \in {<<>>, <<"B">>, <<"C", "D">>}, b \in {<<>>, <<"A">>, <<"A", "C">>, <<"D">>, <<"C", "A">>},
        c \in Upto2({"A", "B", "D"}), d \in Upto2({"A", "B", "C"})}

Orders == {<<1, 2, 3>>, <<1, 3, 2>>, <<2, 1, 3>>, <<3, 2, 1>>}
InOrder(q, files) == [i \in 1..3 |-> files[q[i]]]
XY     == Item("=>", {"x", "y"})
Marks ==
    {InOrder(q, <<Definition("Z", <<>>, <<>>, z), Definition("P", p, <<>>, b),
                  Definition("D", d, <<>>, e)>>) :
        q \in Orders, p \in {<<>>, <<"Z">>}, d \in {<<"P">>, <<"Z", "P">>, <<"P", "Z">>},
        z \in {<<Match("x")>>, <<Match("x"), XY, Match("z")>>},
        b \in {<<Match("w"), Item("DELETION", {"x"})>>, <<Item("DELETION", {"x", "y"}), Match("x")>>,
               <<Match("y"), Item("DEMOTION", {"x"}), Match("w")>>,
               <<Item("DEMOTION", {"x", "y"}), Match("w"), Item("DEMOTION", {"w"})>>},
        e \in {<<>>, <<Match("v"), Item("DEMOTION", {"x"}), Match("u")>>,
               <<Match("y"), Item("DELETION", {"y", "w"})>>}}

Some(name, lists) == {<<>>} \cup {<<Option(name, l)>> : l \in lists}
Permits ==
    {<<Definition("A", <<>>, x \o a, <<Match("a")>>), Definition("B", b, y, <<Match("b")>>),
       Definition("C", c, z, m)>> :
        x \in Some("exit", {<<>>, <<"B">>, <<"B", "C">>}), a \in Some("entry", {<<>>, <<"B">>}),
        y \in {<<>>, <<Option("exit", <<"A">>), Option("entry", <<"A">>)>>, <<Option("entry", <<"A", "C">>)>>},
        b \in {<<>>, <<"A">>}, c \in {<<>>, <<"B">>}, z \in Some("entry", {<<"A">>}) \cup {<<Option("exit", <<"B">>)>>},
        m \in {<<>>, <<Match("c")>>}}

Newline(S) == Option("indentation", [newline |-> {"nl"}, suppressed |-> S])
Loops ==
    {<<>>, <<Option("skip", {"s", "t"})>>, <<Option("skip_range", {"o"})>>,
     <<Option("skip", {"s"}), Option("skip", {"t"}), Option("skip_range", {"oo"})>>,
     <<Option("skip_nested_range", {"n"}), Option("skip_range", {"o"})>>,
     <<Newline({})>>, <<Newline({"\\nl"}), Option("skip", {"s"})>>, <<Newline({"nl", "m"})>>}
Dot == [mark |-> "=>", matches |-> {"x", "s", "nl"}, dot |-> TRUE]
Skipping ==
    {<<Definition("A", <<>>, a, <<Match("a")>>), Definition("B", <<"A">>, b, m)>> :
        a \in Loops, b \in Loops,
        m \in {<<Match("x")>>, <<Match("x"), Dot>>, <<Match("s")>>,
               <<Match("x"), Item("DELETION", {"s", "o"})>>, <<Match("x"), Item("DEMOTION", {"o"}), Match("y")>>}}
MCFiles == Trees \cup Marks \cup Permits \cup Skipping
=============================================================================
