--------------------------- MODULE MCCredentials ---------------------------
(* Credentials for TLC. *)
EXTENDS Credentials, TLC

CONSTANTS p1, p2, p3
=============================================================================
