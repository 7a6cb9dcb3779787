----------------------------- MODULE MCContexts -----------------------------
(* Patterns and texts for Contexts: cores between contexts over two         *)
(* characters that are the begin, the end, or a repetition of each other,   *)
(* pairs of patterns, the settings for pre-contexts; texts of up to five    *)
(* characters and line ends, behind several others.                         *)
EXTENDS Integers, Sequences, FiniteSets

K == 1
L == 2
CR == 3
LF == 4
Characters == {K, L, CR, LF}
D == INSTANCE Constructions WITH Char <- Characters

One(C)     == D!from_character_set(C)
Then(m, n) == D!beautifier(D!sequentialize(<<m, n>>, FALSE))
Or(m, n)   == D!beautifier(D!parallelize(m, n))
Repeat(m, min, max) == D!beautifier(D!repeat(m, min, max))

k  == One({K})
l  == One({L})
kl == Then(k, l)
Any == One({K, L})
Cores == {k, kl, Repeat(k, 1, -1), Repeat(l, 1, -1), Repeat(kl, 1, -1), Then(k, Repeat(l, 0, 1)),
          Then(k, Repeat(l, 0, -1)), Or(k, Then(kl, k)), Then(k, Any), Then(Repeat(Any, 0, -1), l)}
Posts == {k, l, Repeat(k, 1, -1), Or(k, kl), Or(k, Then(l, Then(l, k))), Then(l, Repeat(k, 0, -1)),
          Repeat(kl, 1, -1), Then(Repeat(kl, 0, -1), l), Then(Any, Repeat(k, 0, -1))}
Pres  == {k, Repeat(l, 1, -1), Repeat(kl, 1, -1), Or(l, Then(kl, k))}

Opt(S) == {<<>>} \cup {<<x>> : x \in S}
Expression(bol, pre, core, post, eol) ==
    [bol |-> bol, pre |-> pre, core |-> core, post |-> post, eol |-> eol]
File(expressions, dos, implies, mandatory) ==
    [expressions |-> expressions, dos_newline |-> dos, line_implies_stream |-> implies,
     fallback_mandatory |-> mandatory]
Default(expressions) == File(expressions, TRUE, TRUE, FALSE)

Plain(m) == Expression(FALSE, <<>>, m, <<>>, FALSE)
Posted == {Expression(FALSE, <<>>, c, p, e) : c \in Cores, p \in Opt(Posts), e \in BOOLEAN}
Preceded == {Expression(f, p, c, <<>>, FALSE) :
                 c \in {k, Repeat(kl, 1, -1)}, p \in Opt(Pres), f \in BOOLEAN}
Some == {Plain(kl), Expression(FALSE, <<l>>, k, <<Then(l, k)>>, FALSE), Expression(TRUE, <<>>, kl, <<>>, FALSE),
         Expression(FALSE, <<>>, Repeat(k, 1, -1), <<Repeat(k, 1, -1)>>, FALSE),
         Expression(FALSE, <<Repeat(kl, 1, -1)>>, k, <<>>, TRUE)}
MCFiles == {Default(<<e>>) : e \in Posted \cup Preceded}
           \cup {Default(<<e, x>>) : e \in Some, x \in Some}
           \cup {File(<<e>>, dos, implies, mandatory) : e \in Preceded,
                  dos \in BOOLEAN, implies \in {FALSE}, mandatory \in BOOLEAN}
           \cup {Default(<<Plain(Repeat(k, 0, -1))>>)}

Words(S, n) == UNION {[1..length -> S] : length \in 0..n}
Lines == {v \o x \o y : v \in Words({K, L}, 2), x \in {<<CR, LF>>, <<LF>>, <<CR>>}, y \in {<<>>, <<K>>}}
MCInputs ==
    {[before |-> u, ahead |-> w] :
        u \in {<<>>, <<L, K, L>>, <<K, LF, K>>, <<LF, K, L>>}, w \in Words({K, L}, 5)}
    \cup {[before |-> u, ahead |-> w] : u \in {<<>>, <<LF>>}, w \in Lines}
=============================================================================
