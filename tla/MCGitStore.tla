----------------------------- MODULE MCGitStore -----------------------------
(* GitStore for TLC: a checkout with two sessions and one with a third. *)
EXTENDS GitStore, TLC

CONSTANTS a, b, s1, s2, s3

TwoAndOne == (s1 :> a) @@ (s2 :> a) @@ (s3 :> b)
=============================================================================
