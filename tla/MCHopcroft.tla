----------------------------- MODULE MCHopcroft -----------------------------
(* Minimisation of machines with five states over two characters: any 'a'   *)
(* transitions of the first four states, a few shapes of 'b' transitions,   *)
(* and states of one or of two kinds.  One colouring per partition.         *)
EXTENDS Hopcroft

MCState == 1..5
MCMove  == {a \in [MCState -> 0..5] : a[1] = 2 /\ a[5] \in {0, 4}}
BShapes == {<<0, 0, 0, 0, 0>>, <<3, 4, 5, 0, 0>>, <<3, 1, 4, 2, 5>>, <<1, 1, 1, 1, 2>>}
Keys    == {<<"n", "n", "n", "n", "n">>, <<"n", "n", "n", "n", "a">>, <<"n", "n", "a", "a", "a">>}
MCMachines ==
    {[move |-> [s \in MCState |-> [c \in {"a", "b"} |-> IF c = "a" THEN a[s] ELSE b[s]]],
      key  |-> k] : a \in MCMove, b \in BShapes, k \in Keys}
MCColourings == {f \in [MCState -> MCState] : \A s \in MCState : f[s] <= s /\ f[f[s]] = f[s]}
=============================================================================
