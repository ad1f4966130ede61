---------------------------- MODULE RecordStore ----------------------------
(***************************************************************************)
(* What a server-backed store promises the person who records into it, for *)
(* one project: a record that was made is read back from then on, first as *)
(* this machine's own and later as part of the log the workspace has       *)
(* agreed on, unless the workspace refuses it.  Queues, marks, pushes,     *)
(* pulls and compaction are how that is done and are not visible here.     *)
(***************************************************************************)
EXTENDS Naturals, Sequences

CONSTANTS
    N,     \* appends this machine makes, numbered in the order made
    Size   \* events in an append

VARIABLES
    local,    \* made here and not yet agreed on
    agreed,   \* the workspace's log, as far as this machine holds it
    refused   \* refused by the workspace

rvars == <<local, agreed, refused>>

EventOf(a) == {<<a, k>> : k \in 1..Size}

\* An append is one transaction: it is agreed on when all of it is.
Whole(log) == {a \in 1..N : \A e \in EventOf(a) : \E i \in DOMAIN log : log[i] = e}

Extends(log, old) == Len(old) <= Len(log) /\ \A i \in DOMAIN old : log[i] = old[i]

RInit == local = {} /\ agreed = <<>> /\ refused = {}

Make(a) ==
    /\ a \notin local \cup Whole(agreed) \cup refused
    /\ local' = local \cup {a}
    /\ UNCHANGED <<agreed, refused>>

Agree ==
    /\ Extends(agreed', agreed)
    /\ local' = local \ Whole(agreed')
    /\ refused' = refused \ Whole(agreed')

Refuse(a) ==
    /\ local' = local \ {a}
    /\ refused' = refused \cup {a}
    /\ UNCHANGED agreed

RNext == Agree \/ \E a \in 1..N : Make(a) \/ Refuse(a)

RSpec == RInit /\ [][RNext]_rvars
=============================================================================
