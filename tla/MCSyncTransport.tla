-------------------------- MODULE MCSyncTransport --------------------------
(* SyncTransport for TLC: one or two syncs, readers and tellers.            *)
EXTENDS SyncTransport, TLC

CONSTANTS s1, s2, r1, c1, c2

NoOne == {}
OneSync == {s1}
TwoSyncs == {s1, s2}
OneReader == {r1}
OneTeller == {c1}
First == {1}
Second == {2}
\* The syncs, and the tellers, are told apart by nothing.
Symmetry == Permutations({s1, s2}) \cup Permutations({c1, c2})
=============================================================================
