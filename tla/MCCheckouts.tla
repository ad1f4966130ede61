----------------------------- MODULE MCCheckouts ----------------------------
(* The files of one machine for TLC: its checkouts, and the stored bytes of *)
(* a project's artifacts.  Each behaviour is one of the two.                *)
EXTENDS Checkouts, Artifacts

CONSTANTS r1, c1, o1, s1, s2, a1, a2, d1, d2, p1, p2, p3, w

VARIABLE half

T_a == <<"a">>
T_b == <<"b">>
T_aw == <<"a", "w">>
AllTops == {T_a, T_b, T_aw}
AllPaths == AllTops \cup {<<"a", "s">>, <<"b", "s">>}
Identities == [x \in Repos |-> IF x = o1 THEN "j" ELSE "i"]

\* a checkout alone, and a folder that holds one
Tree(x, y) == [t \in Tops |-> IF t = T_a THEN x ELSE IF t = T_aw THEN y ELSE Gone]
Planted == {Tree(r1, Gone), Tree(Folder, r1)}

Alike == Permutations({s1, s2}) \cup Permutations({a1, a2}) \cup Permutations({d1, d2})
         \cup Permutations({p1, p2, p3})

HalvesInit ==
    \/ half = "checkouts" /\ CheckoutsInit /\ ArtifactsInit
    \/ half = "artifacts" /\ CheckoutsInit /\ ArtifactsInit /\ stands = Tree(r1, Gone)

HalvesNext ==
    \/ half = "checkouts" /\ CheckoutsNext /\ UNCHANGED <<artifactVars, half>>
    \/ half = "artifacts" /\ ArtifactsNext /\ UNCHANGED <<vars, half>>

HalvesSpec == HalvesInit /\ [][HalvesNext]_<<vars, artifactVars, half>>
=============================================================================
