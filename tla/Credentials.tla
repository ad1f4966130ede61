---------------------------- MODULE Credentials ----------------------------
(***************************************************************************)
(* One profile of a machine's credential file, its lock and its pending    *)
(* marker (credentials.ts), and the commands that use them: a rail call    *)
(* with its refresh (rail.ts), `self login` and `self logout` (login.ts).  *)
(*                                                                         *)
(* A stored pair is the access and refresh token of one rotation of one    *)
(* grant.  The server hands out a pair once; a refresh token it has        *)
(* rotated, presented again, is what it takes for a theft: it revokes the  *)
(* grant and warns the owner.                                              *)
(*                                                                         *)
(* Each read or replacement of a file is a step of its own.  A lock is     *)
(* taken, or broken once its owner is dead, in one step: the race of two   *)
(* that break it is the one SyncLock has.                                  *)
(***************************************************************************)
EXTENDS Naturals

CONSTANTS
    Procs,       \* processes that run one command after another
    MaxGrants,   \* bound on the logins a person approves, the first among them
    MaxGen,      \* bound on the rotations of a grant
    MaxCommands, \* bound on the commands begun
    MaxFaults    \* bound on deaths and failed writes

Free == "free"
Dead == "dead"

ASSUME CredentialsAssumption ==
    /\ MaxGrants \in Nat \ {0}
    /\ {MaxGen, MaxCommands, MaxFaults} \subseteq Nat
    /\ {Free, Dead} \cap Procs = {}

VARIABLES
    stored,      \* the pair credentials.json holds, or NoPair
    marker,      \* the pair the pending marker's digest names, or NoPair
    lock,        \* the process that holds the lock, Free, or Dead
    pc,          \* where each process is in its command
    held,        \* the pair it works with
    replayed,    \* the processes whose call was answered credential_expired
    issued,      \* server: grants approved so far
    current,     \* server: the rotation each grant is at
    revoked,     \* server: the grants it no longer honours
    alarmed,     \* server: the grants revoked for a token presented again
    slipped,     \* has a refresh begun on a token a marker was already over
    commands,    \* commands begun
    faults       \* deaths and failed writes so far

files == <<stored, marker>>
server == <<issued, current, revoked, alarmed>>
bounds == <<commands, faults>>
vars == <<files, lock, pc, held, replayed, server, slipped, bounds>>

Grants == 1..MaxGrants
Pair == [grant : Grants, gen : 0..MaxGen]
NoPair == [grant |-> 0, gen |-> 0]
FirstOf(g) == [grant |-> g, gen |-> 0]
NextOf(t) == [t EXCEPT !.gen = @ + 1]

Points == {"idle", "marker", "confirm", "confirming", "send", "stale", "refresh",
           "ask", "rotated", "refused", "unsure", "write", "unmark", "disown",
           "approved", "commit", "clear"}

\* The points at which a process holds the lock.
Inside == {"confirming", "refresh", "ask", "rotated", "refused", "unsure", "write",
           "unmark", "commit", "clear"}

Init ==
    /\ stored = FirstOf(1) /\ marker = NoPair /\ lock = Free
    /\ pc = [p \in Procs |-> "idle"] /\ held = [p \in Procs |-> NoPair]
    /\ replayed = {}
    /\ issued = 1 /\ current = [g \in Grants |-> 0]
    /\ revoked = {} /\ alarmed = {}
    /\ slipped = FALSE /\ commands = 0 /\ faults = 0

----------------------------------------------------------------------------
(* Steps of a process                                                      *)

At(p, point) == pc[p] = point
Go(p, point) == pc' = [pc EXCEPT ![p] = point]
Hold(p, t) == held' = [held EXCEPT ![p] = t]

\* The command ends, with an answer or a refusal.
End(p) == Go(p, "idle") /\ Hold(p, NoPair) /\ replayed' = replayed \ {p}

\* A command goes on; its call has not been answered.
On(p, point, t) == Go(p, point) /\ Hold(p, t) /\ UNCHANGED replayed

Begun == commands < MaxCommands /\ commands' = commands + 1 /\ UNCHANGED faults
Fault == faults < MaxFaults /\ faults' = faults + 1 /\ UNCHANGED commands

\* Mutant of Take: a dead owner's lock is waited for like a live one's.
TakeFree(p, from, to) ==
    /\ At(p, from) /\ lock = Free
    /\ lock' = p /\ On(p, to, held[p])
    /\ UNCHANGED <<files, server, slipped, bounds>>

\* withCredentialLock: free, or left by an owner that is provably gone.
Take(p, from, to) ==
    /\ At(p, from) /\ lock \in {Free, Dead}
    /\ lock' = p /\ On(p, to, held[p])
    /\ UNCHANGED <<files, server, slipped, bounds>>
Release(p) == lock' = Free

\* writeProfile and removeProfile.
Store(t) == stored' = t

\* A call reads its profile and, in a step of its own, whether a marker is
\* there.  A pair its clock finds about to expire is refreshed before the call.
Begin(p) ==
    /\ At(p, "idle") /\ stored # NoPair /\ Begun
    /\ On(p, "marker", stored)
    /\ UNCHANGED <<files, lock, server, slipped>>
Usable(p, t) == \E next \in {"send", "stale"} : On(p, next, t)
ReadMarker(p) ==
    /\ At(p, "marker")
    /\ \/ marker = NoPair /\ Usable(p, held[p])
       \/ marker # NoPair /\ On(p, "confirm", held[p])
    /\ UNCHANGED <<files, lock, server, slipped, bounds>>

\* guardMarker, under the lock: a marker over the stored pair stops the
\* command, one over another pair has done its work.
Covered(t) == marker = t
Confirm(p) ==
    /\ At(p, "confirming") /\ Release(p)
    /\ \/ stored # NoPair /\ ~Covered(stored) /\ marker' = NoPair /\ Usable(p, stored)
       \/ (stored = NoPair \/ Covered(stored)) /\ UNCHANGED marker /\ End(p)
    /\ UNCHANGED <<stored, server, slipped, bounds>>

\* A process that waited long enough for the lock gives up, but for a login.
GiveUp(p) ==
    /\ pc[p] \in {"confirm", "stale"} /\ lock # Free
    /\ End(p)
    /\ UNCHANGED <<files, lock, server, slipped, bounds>>

\* The call goes out again, with the pair another process or this one stored.
Resume(p, t) == Release(p) /\ On(p, "send", t)

----------------------------------------------------------------------------
(* The refresh, under the lock                                             *)

\* alreadyDone: another process stored a pair since this one read its own.
AlreadyDone(p) == stored # held[p]
MarkPending(p) ==
    /\ At(p, "refresh")
    /\ \/ stored = NoPair /\ Release(p) /\ End(p) /\ UNCHANGED <<marker, slipped, faults>>
       \/ /\ stored # NoPair /\ AlreadyDone(p)
          /\ Resume(p, stored) /\ UNCHANGED <<marker, slipped, faults>>
       \/ /\ stored # NoPair /\ ~AlreadyDone(p)
          /\ marker' = stored /\ slipped' = (slipped \/ Covered(stored))
          /\ On(p, "ask", held[p]) /\ UNCHANGED <<lock, faults>>
       \/ /\ stored # NoPair /\ ~AlreadyDone(p)
          /\ Fault /\ Release(p) /\ End(p) /\ UNCHANGED <<marker, slipped>>
    /\ UNCHANGED <<stored, server, commands>>

\* The server answers a refresh: it rotates the pair it is at, and takes a
\* pair it has rotated for a theft.  Its answer may be lost, or be a failure
\* whatever it did.
Ask(p) ==
    /\ At(p, "ask")
    /\ LET t == held[p] IN
       \/ /\ t.grant \notin revoked /\ t.gen = current[t.grant] /\ t.gen < MaxGen
          /\ current' = [current EXCEPT ![t.grant] = @ + 1]
          /\ UNCHANGED <<revoked, alarmed>>
          /\ \E answer \in {"rotated", "unsure"} : On(p, answer, t)
       \/ /\ t.grant \notin revoked /\ t.gen < current[t.grant]
          /\ revoked' = revoked \cup {t.grant} /\ alarmed' = alarmed \cup {t.grant}
          /\ UNCHANGED current
          /\ \E answer \in {"refused", "unsure"} : On(p, answer, t)
       \/ /\ t.grant \in revoked
          /\ UNCHANGED <<current, revoked, alarmed>> /\ On(p, "refused", t)
       \/ UNCHANGED <<current, revoked, alarmed>> /\ On(p, "unsure", t)
    /\ UNCHANGED <<files, lock, issued, slipped, bounds>>

\* The request provably never left: the marker comes off again.
NeverSent(p) ==
    /\ At(p, "ask")
    /\ marker' = NoPair /\ Release(p) /\ End(p)
    /\ UNCHANGED <<stored, server, slipped, bounds>>

\* Mutant of Unsure: a failed refresh takes its marker along.
UnsureCleared(p) ==
    /\ At(p, "unsure") /\ Release(p) /\ End(p) /\ marker' = NoPair
    /\ UNCHANGED <<stored, server, slipped, bounds>>

\* What an unsure answer leaves: the marker.
Unsure(p) ==
    /\ At(p, "unsure") /\ Release(p) /\ End(p)
    /\ UNCHANGED <<files, server, slipped, bounds>>

\* A refusal is the server's word that it did not rotate.
Refused(p) ==
    /\ At(p, "refused")
    /\ marker' = NoPair /\ Store(NoPair) /\ Release(p) /\ End(p)
    /\ UNCHANGED <<server, slipped, bounds>>

\* rotate: the answer is for the pair that was sent; a profile that is gone
\* ends the command, one of another grant is the newer intent.
Rotated(p) ==
    /\ At(p, "rotated")
    /\ \/ stored = NoPair /\ Release(p) /\ End(p) /\ UNCHANGED marker
       \/ /\ stored.grant = held[p].grant
          /\ On(p, "write", held[p]) /\ UNCHANGED <<marker, lock>>
       \/ /\ stored # NoPair /\ stored.grant # held[p].grant
          /\ marker' = NoPair /\ Resume(p, stored)
    /\ UNCHANGED <<stored, server, slipped, bounds>>

\* commitRotation; a write that fails keeps the marker.
CommitRotation(p) ==
    /\ At(p, "write")
    /\ \/ Store(NextOf(held[p])) /\ On(p, "unmark", NextOf(held[p]))
          /\ UNCHANGED <<lock, bounds>>
       \/ UNCHANGED stored /\ Fault /\ Release(p) /\ End(p)
    /\ UNCHANGED <<marker, server, slipped>>
Unmark(p) ==
    /\ At(p, "unmark")
    /\ marker' = NoPair /\ Resume(p, held[p])
    /\ UNCHANGED <<stored, server, slipped, bounds>>

----------------------------------------------------------------------------
(* The call itself                                                         *)

\* Answered, refused for something else, out of time: the command is over.
Answered(p) ==
    /\ At(p, "send") /\ End(p)
    /\ UNCHANGED <<files, lock, server, slipped, bounds>>

\* credential_expired refreshes once; a second answer is the last.
Expired(p) ==
    /\ At(p, "send") /\ p \notin replayed
    /\ Go(p, "stale") /\ replayed' = replayed \cup {p} /\ UNCHANGED held
    /\ UNCHANGED <<files, lock, server, slipped, bounds>>

\* terminal401: a call the server disowns takes the profile away, unlocked.
Disowned(p) ==
    /\ At(p, "send") /\ p \notin replayed /\ held[p].grant \in revoked
    /\ On(p, "disown", held[p])
    /\ UNCHANGED <<files, lock, server, slipped, bounds>>
Disown(p) ==
    /\ At(p, "disown")
    /\ Store(NoPair) /\ End(p)
    /\ UNCHANGED <<marker, lock, server, slipped, bounds>>

----------------------------------------------------------------------------
(* Login and logout                                                        *)

\* A person approves a login; the device poll before it changes no file.
Approve(p) ==
    /\ At(p, "idle") /\ issued < MaxGrants /\ Begun
    /\ issued' = issued + 1 /\ On(p, "approved", FirstOf(issued + 1))
    /\ UNCHANGED <<files, lock, current, revoked, alarmed, slipped>>

\* commitLogin, under the lock it waits for without a bound.
CommitLogin(p) ==
    /\ At(p, "commit")
    /\ \/ Store(held[p]) /\ On(p, "clear", held[p]) /\ UNCHANGED <<lock, bounds>>
       \/ UNCHANGED stored /\ Fault /\ Release(p) /\ End(p)
    /\ UNCHANGED <<marker, server, slipped>>
ClearMarker(p) ==
    /\ At(p, "clear")
    /\ marker' = NoPair /\ Release(p) /\ End(p)
    /\ UNCHANGED <<stored, server, slipped, bounds>>

\* Logout takes no lock and tells the server nothing.
Logout(p) ==
    /\ At(p, "idle") /\ stored # NoPair /\ Begun
    /\ Store(NoPair) /\ marker' = NoPair
    /\ UNCHANGED <<lock, pc, held, replayed, server, slipped>>

----------------------------------------------------------------------------
(* Deaths and the owner                                                    *)

Die(p) ==
    /\ ~At(p, "idle") /\ Fault /\ End(p)
    /\ lock' = IF lock = p THEN Dead ELSE lock
    /\ UNCHANGED <<files, server, slipped>>

\* The owner revokes a grant in the console, or its account is closed.
Revoke ==
    /\ \E g \in 1..issued \ revoked : revoked' = revoked \cup {g}
    /\ UNCHANGED <<files, lock, pc, held, replayed, issued, current, alarmed, slipped, bounds>>

TakeConfirm(p) == Take(p, "confirm", "confirming")
TakeRefresh(p) == Take(p, "stale", "refresh")
\* Mutant of TakeCommit: an approved login writes without the lock.
TakeCommitUnlocked(p) ==
    /\ At(p, "approved") /\ On(p, "commit", held[p])
    /\ UNCHANGED <<files, lock, server, slipped, bounds>>
TakeCommit(p) == Take(p, "approved", "commit")

\* What a process does of itself once it has begun.
Step(p) ==
    \/ ReadMarker(p) \/ Confirm(p) \/ GiveUp(p) \/ TakeConfirm(p) \/ TakeRefresh(p)
    \/ MarkPending(p) \/ Ask(p) \/ NeverSent(p) \/ Unsure(p) \/ Refused(p) \/ Rotated(p)
    \/ CommitRotation(p) \/ Unmark(p)
    \/ Answered(p) \/ Expired(p) \/ Disowned(p) \/ Disown(p)
    \/ CommitLogin(p) \/ ClearMarker(p)

Next ==
    \/ \E p \in Procs :
          \/ Step(p) \/ TakeCommit(p)
          \/ Begin(p) \/ Approve(p) \/ Logout(p) \/ Die(p)
    \/ Revoke

\* A process that has begun goes on; one that polls a lock others take and
\* release in turn finds it free at some poll.
Fairness == \A p \in Procs : WF_vars(Step(p)) /\ SF_vars(TakeCommit(p))

Spec == Init /\ [][Next]_vars
FairSpec == Spec /\ Fairness

----------------------------------------------------------------------------
(* Properties                                                              *)

\* The server is shown a token it has rotated, and warns the owner of a
\* theft, only where a command that had passed its marker check began a
\* refresh over a marker written since: refreshUnderLock does not look again.
NoFalseAlarm == alarmed # {} => slipped

\* What is stored goes forward: the pair gives way to its own rotation, to a
\* login's first pair, or to nothing; a refresh that comes back late never
\* puts an older pair over a newer one, nor over a login.
NeverGoesBack ==
    [][stored' \in {stored, NoPair, NextOf(stored)} \/ stored = NoPair
         \/ (stored'.gen = 0 /\ stored'.grant # stored.grant)]_vars

\* Every command ends: no lock, marker or lost answer keeps one waiting, and a
\* login a person approved gets the lock, whoever died with it.
EveryCommandEnds == \A p \in Procs : ~At(p, "idle") ~> At(p, "idle")
=============================================================================
