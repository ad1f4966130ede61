------------------------------ MODULE SyncLock ------------------------------
(***************************************************************************)
(* The lock file `sync.lock` of apps/cli/src/synclock.ts: one machine, one *)
(* sync at a time.                                                         *)
(*                                                                         *)
(* An element of Proc is one ATTEMPT to take the lock: a catch-up, a push  *)
(* run or a first catch-up, with the nonce it draws (so a process is named *)
(* by its nonce, and a command that syncs twice is two elements).  Every   *)
(* system call on the lock file is a step of its own; between two of them  *)
(* any other attempt may run, the wall clock may move, and an attempt of   *)
(* Mortal may die.                                                         *)
(*                                                                         *)
(* Time is the wall clock all processes read.  Slack is the longest one    *)
(* phase of a live process lasts (the acquisition; one turn of the walk):  *)
(* the clock does not pass the deadline of a live process, unless it jumps *)
(* (MaxJumps), which is a clock step or a laptop waking from suspend.      *)
(***************************************************************************)
EXTENDS Integers

CONSTANTS
    Proc,      \* attempts to sync, each with its own nonce
    Renewing,  \* those that restamp the lock at every turn (firstCatchUp)
    Mortal,    \* those that may die at any step
    Lease,     \* SYNC_LEASE_MS: the age past which a lock may be taken away
    Bound,     \* PUSHER_LEASE_MS, PULLER_LEASE_MS: a holder's own bound
    Slack,     \* the longest phase of a live process
    Items,     \* projects one sync walks over
    MaxNow,    \* bound on the wall clock
    MaxJumps   \* bound on the clock jumps

ASSUME LockAssumption ==
    /\ Renewing \subseteq Proc /\ Mortal \subseteq Proc
    /\ Lease \in Nat /\ Bound \in Nat /\ Slack \in Nat
    /\ Items \in Nat /\ MaxNow \in Nat /\ MaxJumps \in Nat
    /\ Bound + 2 * Slack <= Lease

VARIABLES
    lock,      \* the file under the name sync.lock, or Absent
    pc,        \* what each attempt does next
    try,       \* which of its (at most two) creates an attempt is in
    left,      \* projects it still has to visit
    until,     \* where its own bound runs out
    deadline,  \* when its current phase ends at the latest
    now,       \* the wall clock
    jumps      \* clock jumps so far

vars == <<lock, pc, try, left, until, deadline, now, jumps>>

Absent == [inode |-> "none"]

\* The inode an attempt creates: its first create and the one after a steal
\* are two files, and a descriptor on the first never writes the second.
Inode == Proc \X {1, 2}

\* `written` is FALSE while the file is empty (created or truncated and not
\* yet written): it names no holder, and `at` is then its mtime.
LockFile == [inode : Inode, written : BOOLEAN, at : Nat]

Acquiring == {"create", "write", "check", "judge", "stat", "steal"}
Holding   == {"turn", "reopen", "truncate", "rewrite", "work", "rename",
              "release", "unlink"}
Ended     == {"refused", "done", "dead"}
States    == {"idle"} \cup Acquiring \cup Holding \cup Ended

Live(p) == pc[p] \in Acquiring \cup Holding

\* A holder at work: it believes it holds the lock and goes on syncing.
Working(p) == pc[p] \in Holding \ {"release", "unlink"}

Init ==
    /\ lock = Absent
    /\ pc = [p \in Proc |-> "idle"]
    /\ try = [p \in Proc |-> 1]
    /\ left = [p \in Proc |-> Items]
    /\ until = [p \in Proc |-> 0]
    /\ deadline = [p \in Proc |-> 0]
    /\ now = 0
    /\ jumps = 0

Goto(p, l) == pc' = [pc EXCEPT ![p] = l]

-----------------------------------------------------------------------------
(* What a process reads of the lock file. *)

\* The file under the name is one this attempt made.
LockOf(p) == lock # Absent /\ lock.inode[1] = p

\* heldBy: the nonce on disk is this attempt's.
HeldBy(p) == LockOf(p) /\ lock.written

\* Mutants: a threshold under what a holder may take; only a stamp is judged.
StaleTooSoon == lock # Absent /\ now - lock.at > Slack
StaleByStampOnly == lock # Absent /\ lock.written /\ now - lock.at > Lease

\* stale: age alone, the stamp where it can be read and the mtime otherwise.
Stale == lock # Absent /\ now - lock.at > Lease

-----------------------------------------------------------------------------
(* acquireSyncLock *)

Start(p) ==
    /\ pc[p] = "idle"
    /\ Goto(p, "create")
    /\ deadline' = [deadline EXCEPT ![p] = now + Slack]
    /\ UNCHANGED <<lock, try, left, until, now, jumps>>

\* openSync(path, "wx"): the create fails where the file is there.  After the
\* first failure the lock is judged; after the second the attempt gives up.
CreateFailed(p) == Goto(p, IF try[p] = 1 THEN "judge" ELSE "refused")

\* Mutant: "w" for "wx".
CreateOverwrites(p) ==
    /\ pc[p] = "create"
    /\ lock' = [inode |-> <<p, try[p]>>, written |-> FALSE, at |-> now]
    /\ Goto(p, "write")
    /\ UNCHANGED <<try, left, until, deadline, now, jumps>>

CreateOpen(p) ==
    /\ pc[p] = "create"
    /\ \/ /\ lock = Absent
          /\ lock' = [inode |-> <<p, try[p]>>, written |-> FALSE, at |-> now]
          /\ Goto(p, "write")
       \/ /\ lock # Absent
          /\ CreateFailed(p)
          /\ UNCHANGED lock
    /\ UNCHANGED <<try, left, until, deadline, now, jumps>>

\* A write through a descriptor reaches the inode it was opened on, wherever
\* a steal has moved that inode since.
WriteThrough(p, written, at) ==
    lock' = IF lock # Absent /\ lock.inode = <<p, try[p]>>
            THEN [lock EXCEPT !.written = written, !.at = at]
            ELSE lock

CreateWrite(p) ==
    /\ pc[p] = "write"
    /\ WriteThrough(p, TRUE, lock.at)
    /\ Goto(p, "check")
    /\ UNCHANGED <<try, left, until, deadline, now, jumps>>

\* A lock just created can be stolen before this read, so it is looked at
\* again before the attempt acts as the holder.
CreateCheck(p) ==
    /\ pc[p] = "check"
    /\ \/ /\ HeldBy(p)
          /\ Goto(p, "turn")
          /\ until' = [until EXCEPT ![p] = now + Bound]
       \/ /\ ~HeldBy(p)
          /\ CreateFailed(p)
          /\ UNCHANGED until
    /\ UNCHANGED <<lock, try, left, deadline, now, jumps>>

\* stale / writtenAt: the stamp is read; a file that names no stamp is
\* looked at again by stat, and one that is gone has no age.
JudgeRead(p) ==
    /\ pc[p] = "judge"
    /\ Goto(p, IF lock = Absent \/ ~lock.written THEN "stat"
               ELSE IF Stale THEN "steal" ELSE "refused")
    /\ UNCHANGED <<lock, try, left, until, deadline, now, jumps>>

JudgeStat(p) ==
    /\ pc[p] = "stat"
    /\ Goto(p, IF Stale THEN "steal" ELSE "refused")
    /\ UNCHANGED <<lock, try, left, until, deadline, now, jumps>>

\* steal: the NAME is renamed out of the way, whichever inode it is on now,
\* and the rename fails only where the name is gone.
Steal(p) ==
    /\ pc[p] = "steal"
    /\ IF lock = Absent
       THEN Goto(p, "refused") /\ UNCHANGED <<lock, try>>
       ELSE /\ lock' = Absent
            /\ try' = [try EXCEPT ![p] = 2]
            /\ Goto(p, "create")
    /\ UNCHANGED <<left, until, deadline, now, jumps>>

Acquire(p) ==
    \/ Start(p) \/ CreateOpen(p) \/ CreateWrite(p) \/ CreateCheck(p)
    \/ JudgeRead(p) \/ JudgeStat(p) \/ Steal(p)

-----------------------------------------------------------------------------
(* The walk of one sync: a turn per project until the bound runs out.      *)

\* What a turn that goes on does: the bound moves for a renewing walk only.
NextProject(p) ==
    /\ deadline' = [deadline EXCEPT ![p] = now + Slack]
    /\ until' = [until EXCEPT ![p] = IF p \in Renewing THEN now + Bound ELSE @]
    /\ Goto(p, IF p \in Renewing THEN "reopen" ELSE "work")

Turn(p) ==
    /\ pc[p] = "turn"
    /\ IF left[p] = 0 \/ now >= until[p]
       THEN Goto(p, "release") /\ UNCHANGED <<left, until, deadline>>
       ELSE left' = [left EXCEPT ![p] = @ - 1] /\ NextProject(p)
    /\ UNCHANGED <<lock, try, now, jumps>>

\* renewSyncLock: opened by name and its nonce read through the descriptor,
\* so an inode that is not this attempt's is never written.
RestampOpen(p) ==
    /\ pc[p] = "reopen"
    /\ Goto(p, IF HeldBy(p) THEN "truncate" ELSE "work")
    /\ UNCHANGED <<lock, try, left, until, deadline, now, jumps>>

\* Mutant: the stamp stays where it was.
RestampKeepsStamp(p) ==
    /\ pc[p] = "truncate"
    /\ WriteThrough(p, FALSE, lock.at)
    /\ Goto(p, "rewrite")
    /\ UNCHANGED <<try, left, until, deadline, now, jumps>>

RestampTruncate(p) ==
    /\ pc[p] = "truncate"
    /\ WriteThrough(p, FALSE, now)
    /\ Goto(p, "rewrite")
    /\ UNCHANGED <<try, left, until, deadline, now, jumps>>

RestampWrite(p) ==
    /\ pc[p] = "rewrite"
    /\ WriteThrough(p, TRUE, lock.at)
    /\ Goto(p, "work")
    /\ UNCHANGED <<try, left, until, deadline, now, jumps>>

\* One project's work: nothing to publish, or a replacement whose publish
\* asks heldBy and then renames, two system calls apart.
WorkQuietly(p) ==
    /\ pc[p] = "work"
    /\ Goto(p, "turn")
    /\ UNCHANGED <<lock, try, left, until, deadline, now, jumps>>

PublishCheck(p) ==
    /\ pc[p] = "work"
    /\ Goto(p, IF HeldBy(p) THEN "rename" ELSE "turn")
    /\ UNCHANGED <<lock, try, left, until, deadline, now, jumps>>

PublishRename(p) ==
    /\ pc[p] = "rename"
    /\ Goto(p, "turn")
    /\ UNCHANGED <<lock, try, left, until, deadline, now, jumps>>

\* releaseSyncLock: looked at, then unlinked by name.
ReleaseCheck(p) ==
    /\ pc[p] = "release"
    /\ Goto(p, IF HeldBy(p) THEN "unlink" ELSE "done")
    /\ UNCHANGED <<lock, try, left, until, deadline, now, jumps>>

ReleaseUnlink(p) ==
    /\ pc[p] = "unlink"
    /\ lock' = Absent
    /\ Goto(p, "done")
    /\ UNCHANGED <<try, left, until, deadline, now, jumps>>

Hold(p) ==
    \/ Turn(p) \/ RestampOpen(p) \/ RestampTruncate(p) \/ RestampWrite(p)
    \/ WorkQuietly(p) \/ PublishCheck(p) \/ PublishRename(p)
    \/ ReleaseCheck(p) \/ ReleaseUnlink(p)

-----------------------------------------------------------------------------
(* The environment *)

Crash(p) ==
    /\ p \in Mortal /\ Live(p)
    /\ Goto(p, "dead")
    /\ UNCHANGED <<lock, try, left, until, deadline, now, jumps>>

Tick ==
    /\ now < MaxNow
    /\ \A p \in Proc : Live(p) => now < deadline[p]
    /\ now' = now + 1
    /\ UNCHANGED <<lock, pc, try, left, until, deadline, jumps>>

\* The wall clock steps past a lease while every process stands where it was:
\* deadlines are a matter of how long a process runs, so they move with it.
Jump ==
    /\ jumps < MaxJumps
    /\ jumps' = jumps + 1
    /\ now' = now + Lease + 1
    /\ deadline' = [p \in Proc |-> deadline[p] + Lease + 1]
    /\ UNCHANGED <<lock, pc, try, left, until>>

Next ==
    \/ \E p \in Proc : Acquire(p) \/ Hold(p) \/ Crash(p)
    \/ Tick
    \/ Jump

\* A process the kernel has not killed keeps running; nothing obliges an
\* attempt to be made, a process to die or the clock to jump.
Fairness == \A p \in Proc : WF_vars((Acquire(p) /\ ~Start(p)) \/ Hold(p))

Spec == Init /\ [][Next]_vars

FairSpec == Spec /\ Fairness

-----------------------------------------------------------------------------
(* Properties *)

\* Every variable stays in its type.
TypeOK ==
    /\ lock \in LockFile \cup {Absent}
    /\ pc \in [Proc -> States]
    /\ try \in [Proc -> {1, 2}]
    /\ left \in [Proc -> Nat]
    /\ until \in [Proc -> Nat]
    /\ deadline \in [Proc -> Nat]
    /\ now \in Nat
    /\ jumps \in Nat

\* What the lock's numbers assume, so far: the clock has not jumped, nobody died.
SteadyClock == jumps = 0
NobodyDied == \A p \in Proc : pc[p] # "dead"

\* synclock.ts:5-8: two syncs at once is the whole of what can go wrong, and
\* this is the lock that says only one runs: until a holder has died, or the
\* clock has jumped, there is never a second.
MutualExclusion ==
    (SteadyClock /\ NobodyDied) => \A p, q \in Proc : Working(p) /\ Working(q) => p = q

\* synclock.ts:64-74: a lock past the lease belongs to a process that died or
\* has already stopped working, so nobody judges a live holder's lock stale
\* before the clock has jumped.
StaleMeansStopped ==
    [][\A p \in Proc :
         SteadyClock' /\ pc[p] \in {"judge", "stat"} /\ pc'[p] = "steal"
            => \A q \in Proc : Working(q) => ~LockOf(q)]_vars

\* A step that publishes p's replacement; one that takes a lock file away as p's.
Renames(p) == pc[p] = "rename" /\ pc'[p] = "turn"
Unlinks(p) == pc[p] = "unlink" /\ pc'[p] = "done" /\ lock # Absent

\* synclock.ts:210-211, 301-302: a rename is made, and the lock's name unlinked,
\* only under the lock of the one that does it, until a holder has died or the
\* clock has jumped.
OnlyTheHolderActs ==
    [][(SteadyClock /\ NobodyDied) =>
          \A p \in Proc : Renames(p) \/ Unlinks(p) => LockOf(p)]_vars

\* A lock left by a dead process keeps nobody out once it is past the lease:
\* an attempt that meets it leads to somebody holding the lock, even where
\* the death fell between the create and the write of the nonce.
LeftByTheDead == lock # Absent /\ now - lock.at > Lease /\ pc[lock.inode[1]] = "dead"
DeadHolderIsReplaced ==
    \A p \in Proc \ Mortal :
        (pc[p] = "create" /\ try[p] = 1 /\ LeftByTheDead)
            ~> \E q \in Proc : Working(q)
=============================================================================
