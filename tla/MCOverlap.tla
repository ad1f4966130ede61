----------------------------- MODULE MCOverlap ------------------------------
(* What overlapping commands of one machine make of the files it keeps       *)
(* beside a log, for TLC: the queue and the copy, under two syncs at once    *)
(* and a reader, and the verdicts on the commits of a unit that a proposal   *)
(* gates, under two folds.  Each behaviour is one of the two.                *)
EXTENDS MCSyncTransport, Evidence

CONSTANTS g1, g2, h1, h2, unit, gate

VARIABLE half

EitherSync == Permutations({s1, s2})

TwoRepos == <<g1, g2>>
Apart == [r \in {g1, g2} |-> r]
OneUnit == <<unit>>
Gates == gate :> {unit}
Rep(h, b, r) == [unit |-> unit, hash |-> h, branch |-> b, repo |-> r]

\* The first commit is moved about, and a second report places it elsewhere;
\* the second commit stays on a branch.
SomeReports == {Rep(h1, TRUE, g1)}
In(first, second) == (h1 :> first) @@ (h2 :> second)
OneStart == {
    [place |-> (g1 :> In("branch", "absent")) @@ (g2 :> In("loose", "branch")), topic |-> {g1, g2},
     filed |-> <<Rep(h1, FALSE, g2), Rep(h2, FALSE, NoRepo)>>]}

HalvesInit == half \in {"transport", "evidence"} /\ Init /\ EvidenceInit

HalvesNext ==
    \/ half = "transport" /\ Next /\ UNCHANGED <<evidenceVars, half>>
    \/ half = "evidence" /\ EvidenceNext /\ UNCHANGED <<vars, half>>

HalvesSpec == HalvesInit /\ [][HalvesNext]_<<vars, evidenceVars, half>>
=============================================================================
