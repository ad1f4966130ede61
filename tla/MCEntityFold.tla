---------------------------- MODULE MCEntityFold ----------------------------
(* A store that clones share through git, for TLC: what the fold makes of    *)
(* the logs two clones merge, and how the commands of three sessions commit  *)
(* them and sync.  Each behaviour is one of the two.                         *)
EXTENDS EntityFold, MCGitStore

CONSTANTS c1, c2

VARIABLE half

TwoClones == {c1, c2}
Interchangeable == Permutations(TwoClones)
OneClock == [c \in TwoClones |-> 0]

HalvesInit == half \in {"fold", "git"} /\ Init /\ InitGit

HalvesNext ==
    \/ half = "fold" /\ Next /\ UNCHANGED <<gitVars, half>>
    \/ half = "git" /\ NextGit /\ UNCHANGED <<vars, half>>

HalvesSpec == HalvesInit /\ [][HalvesNext]_<<vars, gitVars, half>>
=============================================================================
