------------------------------ MODULE MCTiers ------------------------------
(* Tiers for TLC: a project p whose full tier holds its cap and whose index  *)
(* has room for one more, and logs that have come further from there.        *)
EXTENDS Tiers, TLC

CONSTANTS s1, s2

TwoSessions == {s1, s2}
Interchangeable == Permutations(TwoSessions)
TwoEach == [k \in Kinds |-> 2]

Holds(n, exposure) ==
    [Line EXCEPT !.type = "asserted", !.at = n, !.in = "p", !.of = n, !.size = 1,
                 !.exposure = exposure, !.scope = "p"]
Moves1(n, exposure) == [Line EXCEPT !.type = "placed", !.at = n, !.in = "p", !.of = 1, !.exposure = exposure]
Asks1(n, admit) == [Moves1(n, "index") EXCEPT !.asks = TRUE, !.admits = admit]

Full == {Holds(1, "full"), Holds(2, "full"), Holds(3, "index")}

\* A new record waits to be admitted by the first one's demotion; an old one does.
Pair == Full \cup {[Holds(4, "full") EXCEPT !.type = "proposed"], Asks1(4, 4)}
Promotion == Full \cup {[Line EXCEPT !.type = "placed", !.at = 4, !.in = "p", !.of = 3,
                                    !.exposure = "full", !.asks = TRUE], Asks1(4, 3)}
\* The one to be demoted ends, and leaves its room to another.
Refilled == Pair \cup {[Line EXCEPT !.type = "done", !.at = 5, !.in = "p", !.of = 1], Holds(6, "full")}

\* The first record is q's, shown in p; p holds an instruction, and its index its cap.
Elsewhere == {[Holds(1, "full") EXCEPT !.in = "q"], [Holds(2, "full") EXCEPT !.rule = TRUE], Holds(3, "full"),
              [Holds(4, "index") EXCEPT !.size = 2]}

JustRefilled == {Refilled}
Starts == {Promotion, Refilled, Elsewhere}
=============================================================================
