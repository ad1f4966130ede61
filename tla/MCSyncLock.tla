----------------------------- MODULE MCSyncLock -----------------------------
(* synclock.ts for TLC, its two halves side by side: the lock, and the      *)
(* rewrite of a file that others append to.  Each behaviour is one of the   *)
(* two; PublishRewrite takes of the lock what its holder may count on.      *)
EXTENDS SyncLock, PublishRewrite

CONSTANTS p1, p2, r0, r1, r2

VARIABLE half

OnlyP1 == {p1}
Both == {p1, p2}
RowsAll == {r0, r1, r2}
OnlyR0 == {r0}
OnlyR2 == {r2}

HalvesInit == half \in {"lock", "rewrite"} /\ Init /\ InitRewrite

HalvesNext ==
    \/ half = "lock" /\ Next /\ UNCHANGED <<rewriteVars, half>>
    \/ half = "rewrite" /\ NextRewrite /\ UNCHANGED <<vars, half>>

HalvesSpec ==
    /\ HalvesInit /\ [][HalvesNext]_<<vars, rewriteVars, half>>
    /\ half = "lock" => Fairness
=============================================================================
