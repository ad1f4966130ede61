-------------------------- MODULE MCRegistryCache --------------------------
(* RegistryCache for TLC: one sync at a time.                               *)
EXTENDS RegistryCache

CONSTANTS s1, s2

OneSync == {s1}
\* A slug nobody registered, or one registered before the workspace was asked.
NeverPushed == {<<>>, <<NoId>>}
=============================================================================
