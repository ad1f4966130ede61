----------------------------- MODULE MCPlanTree -----------------------------
(* What is kept in two places, for TLC: a plan in the logs of two clones,   *)
(* which start from a small one; and the versions and lists of a mini-app   *)
(* (two keys, and a second list that revokes the first) in the files of one *)
(* machine.  Each behaviour is one of the two.                              *)
EXTENDS PlanTree, MiniApps

CONSTANTS i, l, k1, k2

VARIABLE half

\* Two objectives, a milestone under the first, a unit toward both, and a plan
\* to replace that unit toward the first objective.
SmallPlan == <<
    [Blank EXCEPT !.id = 1, !.type = "asserted", !.kind = "objective"],
    [Blank EXCEPT !.id = 2, !.type = "proposed", !.kind = "objective"],
    [Blank EXCEPT !.id = 3, !.type = "asserted", !.kind = "milestone", !.under = <<1>>],
    [Blank EXCEPT !.id = 4, !.type = "asserted", !.kind = "work"],
    [Blank EXCEPT !.id = 5, !.type = "linked", !.entity = 4, !.ref = 3],
    [Blank EXCEPT !.id = 6, !.type = "linked", !.entity = 4, !.ref = 1],
    [Blank EXCEPT !.id = 7, !.type = "proposed", !.kind = "work", !.gap = 1, !.carries = 4]>>

AllVerbs == {"objective", "confirm objective", "decline objective", "revise objective",
             "close objective", "milestone", "revise milestone", "drop milestone", "meet",
             "recheck", "reach", "work", "propose", "accept", "decline", "restate",
             "retarget", "start", "done", "retire", "link", "unlink"}

\* Any two acts, and one that builds on what they left.
AnyTwoThenOne == <<AllVerbs, AllVerbs, {"accept"}>>

EachClone == Permutations(Clones)

Lists == <<[revoked |-> {}, floor |-> 1], [revoked |-> {k1}, floor |-> 1]>>
Published == {[version |-> 1, kid |-> k1], [version |-> 2, kid |-> k2]}

HalvesInit == half \in {"plan", "apps"} /\ Init /\ AppsInit

HalvesNext ==
    \/ half = "plan" /\ Next /\ UNCHANGED <<appsVars, half>>
    \/ half = "apps" /\ AppsNext /\ UNCHANGED <<vars, half>>

HalvesSpec == HalvesInit /\ [][HalvesNext]_<<vars, appsVars, half>>
=============================================================================
