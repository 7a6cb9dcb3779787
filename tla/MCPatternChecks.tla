--------------------------- MODULE MCPatternChecks ---------------------------
(* Two instances in one: a behaviour compares two patterns (PatternChecks), *)
(* or goes from patterns with pre- and post-contexts to the match of a      *)
(* lexeme (Contexts; the patterns and texts are in MCContexts).             *)
(* Pairs of patterns with up to three states over two characters.  Each     *)
(* pair is judged by the places that both machines reach together.          *)
EXTENDS PatternChecks, MCContexts

MCState == 1..3
BMoves == {<<0, 0, 0>>, <<0, 3, 1>>, <<3, 0, 2>>}
Accepts == {{2}, {3}, {2, 3}}

RECURSIVE Reach(_, _)
Reach(m, S) == LET T == S \cup UNION {Targets(m, s) : s \in S}
               IN IF T = S THEN S ELSE Reach(m, T)
(* No orphaned and no hopeless states.  *)
CleanedUp(m) ==
    LET used == Reach(m, {1})
    IN m.accept \subseteq used /\ \A s \in used : Reach(m, {s}) \cap m.accept # {}
Patterns ==
    {m \in {[move |-> [s \in MCState |-> [c \in {"a", "b"} |-> IF c = "a" THEN x[s] ELSE y[s]]],
             accept |-> F] : x \in {f \in [MCState -> 0..3] : f[1] = 2}, y \in BMoves, F \in Accepts} :
     CleanedUp(m)}
MCProblems == [check: Checks, a: Patterns, b: Patterns]

Successors(q, R) ==
    UNION {IF q.check = "outrun" /\ x[1] = 1 /\ x[2] \in q.a.accept THEN {<<2, x[2], x[3]>>}
           ELSE {<<x[1], q.a.move[x[2]][c], q.b.move[x[3]][c]>> :
                     c \in Moves(q.a, x[2]) \cap Moves(q.b, x[3])} : x \in R}
RECURSIVE Together(_, _)
Together(q, R) == LET T == R \cup Successors(q, R) IN IF T = R THEN R ELSE Together(q, T)
MCRelations == [q \in Problems |-> {Together(q, {<<1, 1, 1>>})}]

VARIABLES file, preps, patterns, engine, input, fulfilled, match, progress
Lexemes == INSTANCE Contexts WITH
    Char <- Characters, Files <- MCFiles, Inputs <- MCInputs, LineFeed <- LF, CarriageReturn <- CR
lexing == <<file, preps, patterns, engine, input, fulfilled, match, progress>>

NoProblem == /\ problem = [check |-> "none"] /\ verdict = "open" /\ stack = <<>>
             /\ visited = {} /\ found = {} /\ walk = 1
NoLexing == /\ file = <<>> /\ preps = <<>> /\ patterns = <<>> /\ engine = <<>> /\ input = <<>>
            /\ fulfilled = {} /\ match = <<>> /\ progress = "none"

MCInit == (Init /\ NoLexing) \/ (NoProblem /\ Lexemes!Init)
MCNext == \/ problem.check # "none" /\ Next /\ UNCHANGED lexing
          \/ progress # "none" /\ Lexemes!Next /\ UNCHANGED vars
MCSpec == MCInit /\ [][MCNext]_<<vars, lexing>>

(* The lexeme that is matched is the right one: see Contexts.               *)
MatchRight == Lexemes!MatchRight
(* The backward detector never drops out: see Contexts.                     *)
NoPassageHolds == Lexemes!NoPassageHolds
=============================================================================
