--------------------------- MODULE SyncLock_proofs ---------------------------
(***************************************************************************)
(* What SyncLock guarantees for every set of attempts, renewing or mortal, *)
(* and every choice of Lease, Bound, Slack, Items, MaxNow and MaxJumps, up *)
(* to the first clock jump (`jumps = 0`).                                  *)
(*                                                                         *)
(* The argument is about the attempt the file belongs to, its OWNER: while *)
(* the owner lives its deadline is at most Bound + 2 * Slack past the      *)
(* stamp, so the age of the lock cannot exceed Lease.  Until somebody dies *)
(* no lock is ever stolen, so everyone who passed its create still owns    *)
(* the file, and only one can.                                             *)
(***************************************************************************)
EXTENDS SyncLock, PublishRewrite, SequenceTheorems, FiniteSetTheorems,
        WellFoundedInduction, TLAPS

\* Where an attempt stands while the file it created is the lock.
Owning == {"write", "check"} \cup Holding

Owner == lock.inode[1]

\* The owner is somewhere an owner can be, and on the create it is in.
OwnerInv ==
    lock # Absent => /\ lock.inode[2] = try[Owner]
                     /\ pc[Owner] \in Owning \cup {"dead"}

\* A live owner's nonce can be read except while it is being (re)written.
WrittenInv ==
    lock # Absent /\ Live(Owner)
        => (lock.written <=> pc[Owner] \notin {"write", "rewrite"})

\* No live process is past its deadline, and none has more than one phase left.
LiveInv == \A p \in Proc :
    Live(p) => now <= deadline[p] /\ deadline[p] <= now + Slack

\* How far past the stamp a live owner can still be at work.
AgeInv ==
    lock # Absent /\ Live(Owner) =>
        /\ pc[Owner] \in {"write", "check"} => deadline[Owner] <= lock.at + Slack
        /\ deadline[Owner] <= lock.at + 2 * Slack + Bound
        /\ pc[Owner] \in {"reopen", "truncate"} => until[Owner] <= now + Bound
        /\ pc[Owner] \in Holding \ {"reopen", "truncate"}
              => until[Owner] <= lock.at + Slack + Bound

IInv == TypeOK /\ OwnerInv /\ WrittenInv /\ LiveInv /\ AgeInv

\* No step leaves the types.
LEMMA TypeStep == TypeOK /\ [Next]_vars => TypeOK'
<1> SUFFICES ASSUME TypeOK, [Next]_vars PROVE TypeOK'
  OBVIOUS
<1> USE LockAssumption DEF TypeOK, Goto, States, Acquiring, Holding, Ended, LockFile, Inode
<1>1. ASSUME NEW p \in Proc, Acquire(p) PROVE TypeOK'
  <2>1. CASE Start(p)
    BY <2>1 DEF Start
  <2>2. CASE CreateOpen(p)
    <3>1. [inode |-> <<p, try[p]>>, written |-> FALSE, at |-> now] \in LockFile
      OBVIOUS
    <3>2. lock' \in LockFile \cup {Absent}
      BY <2>2, <3>1 DEF CreateOpen
    <3>3. pc' \in [Proc -> States]
      BY <2>2 DEF CreateOpen, CreateFailed
    <3>4. QED
      BY <2>2, <3>2, <3>3 DEF CreateOpen
  <2>3. CASE CreateWrite(p)
    BY <2>3 DEF CreateWrite, WriteThrough
  <2>4. CASE CreateCheck(p)
    BY <2>4 DEF CreateCheck, CreateFailed
  <2>5. CASE JudgeRead(p)
    BY <2>5 DEF JudgeRead
  <2>6. CASE JudgeStat(p)
    BY <2>6 DEF JudgeStat
  <2>7. CASE Steal(p)
    BY <2>7 DEF Steal
  <2>8. QED
    BY <1>1, <2>1, <2>2, <2>3, <2>4, <2>5, <2>6, <2>7 DEF Acquire
<1>2. ASSUME NEW p \in Proc, Hold(p) PROVE TypeOK'
  <2>1. CASE Turn(p)
    <3>1. CASE left[p] = 0 \/ now >= until[p]
      BY <2>1, <3>1 DEF Turn
    <3>2. CASE ~(left[p] = 0 \/ now >= until[p])
      <4>1. left[p] - 1 \in Nat
        BY <3>2
      <4>2. now + Slack \in Nat /\ now + Bound \in Nat
        OBVIOUS
      <4>3. QED
        BY <2>1, <3>2, <4>1, <4>2 DEF Turn, NextProject
    <3>3. QED
      BY <3>1, <3>2
  <2>2. CASE RestampOpen(p)
    BY <2>2 DEF RestampOpen
  <2>3. CASE RestampTruncate(p)
    BY <2>3 DEF RestampTruncate, WriteThrough
  <2>4. CASE RestampWrite(p)
    BY <2>4 DEF RestampWrite, WriteThrough
  <2>5. CASE WorkQuietly(p) \/ PublishCheck(p) \/ PublishRename(p)
    BY <2>5 DEF WorkQuietly, PublishCheck, PublishRename
  <2>6. CASE ReleaseCheck(p) \/ ReleaseUnlink(p)
    BY <2>6 DEF ReleaseCheck, ReleaseUnlink
  <2>7. QED
    BY <1>2, <2>1, <2>2, <2>3, <2>4, <2>5, <2>6 DEF Hold
<1>3. ASSUME NEW p \in Proc, Crash(p) PROVE TypeOK'
  BY <1>3 DEF Crash
<1>4. CASE Tick
  BY <1>4 DEF Tick
<1>5. CASE Jump
  BY <1>5 DEF Jump
<1>6. CASE UNCHANGED vars
  BY <1>6 DEF vars
<1>7. QED
  BY <1>1, <1>2, <1>3, <1>4, <1>5, <1>6 DEF Next

\* Every variable stays in its type.
THEOREM TypeCorrect == Spec => []TypeOK
<1>1. Init => TypeOK
  BY LockAssumption DEF Init, TypeOK, States, LockFile
<1>2. QED
  BY <1>1, TypeStep, PTL DEF Spec

\* The invariant holds before anything has run.
LEMMA Initially == Init => IInv
<1> USE LockAssumption DEF Init
<1>1. Init => TypeOK
  BY DEF TypeOK, States, LockFile
<1>2. Init => OwnerInv /\ WrittenInv /\ AgeInv
  BY DEF OwnerInv, WrittenInv, AgeInv
<1>3. Init => LiveInv
  BY DEF LiveInv, Live, Acquiring, Holding
<1>4. QED
  BY <1>1, <1>2, <1>3 DEF IInv

\* The bound the code's numbers are chosen for: no live owner's lock is stale.
LEMMA LiveOwnerIsYoung == IInv /\ lock # Absent /\ Live(Owner) => ~Stale
<1> SUFFICES ASSUME IInv, lock # Absent, Live(Owner) PROVE ~Stale
  OBVIOUS
<1> USE LockAssumption DEF IInv, TypeOK
<1>1. lock.at \in Nat /\ Owner \in Proc
  BY DEF LockFile, Inode, Owner
<1>2. now <= deadline[Owner]
  BY <1>1 DEF LiveInv
<1>3. deadline[Owner] <= lock.at + 2 * Slack + Bound
  BY DEF AgeInv
<1>4. now - lock.at <= Lease
  BY <1>1, <1>2, <1>3
<1>5. QED
  BY <1>1, <1>4 DEF Stale

\* The invariant is kept by every step the clock does not jump in.
LEMMA Inductive == IInv /\ [Next]_vars /\ jumps' = 0 => IInv'
<1> SUFFICES ASSUME IInv, [Next]_vars, jumps' = 0 PROVE IInv'
  OBVIOUS
<1>1. TypeOK'
  BY TypeStep DEF IInv
<1> USE LockAssumption, <1>1 DEF IInv, TypeOK, Inode, LockFile, OwnerInv, WrittenInv,
        LiveInv, AgeInv, Owner, Owning, Live, Goto, States, Acquiring, Holding, Ended
<1>2. ASSUME NEW p \in Proc, Start(p) PROVE IInv'
  BY <1>2 DEF Start
<1>3. ASSUME NEW p \in Proc, CreateOpen(p) PROVE IInv'
  <2>1. CASE lock = Absent
    <3>1. /\ lock' = [inode |-> <<p, try[p]>>, written |-> FALSE, at |-> now]
          /\ pc' = [pc EXCEPT ![p] = "write"]
          /\ UNCHANGED <<try, until, deadline, now>>
      BY <1>3, <2>1 DEF CreateOpen
    <3>2. lock'.inode[1] = p /\ lock'.inode[2] = try[p] /\ ~lock'.written /\ lock'.at = now
      BY <3>1
    <3>3. OwnerInv' /\ WrittenInv' /\ LiveInv'
      BY <1>3, <3>1, <3>2 DEF CreateOpen
    <3>4. deadline[p] <= now + Slack
      BY <1>3 DEF CreateOpen
    <3>5. AgeInv'
      BY <3>1, <3>2, <3>4
    <3>6. QED
      BY <3>3, <3>5
  <2>2. CASE lock # Absent
    BY <1>3, <2>2 DEF CreateOpen, CreateFailed
  <2>3. QED
    BY <2>1, <2>2
<1>4. ASSUME NEW p \in Proc, CreateWrite(p) PROVE IInv'
  BY <1>4 DEF CreateWrite, WriteThrough
<1>5. ASSUME NEW p \in Proc, CreateCheck(p) PROVE IInv'
  BY <1>5 DEF CreateCheck, CreateFailed, HeldBy, LockOf
<1>6. ASSUME NEW p \in Proc, JudgeRead(p) PROVE IInv'
  BY <1>6 DEF JudgeRead
<1>7. ASSUME NEW p \in Proc, JudgeStat(p) PROVE IInv'
  BY <1>7 DEF JudgeStat
<1>8. ASSUME NEW p \in Proc, Steal(p) PROVE IInv'
  BY <1>8 DEF Steal
<1>9. ASSUME NEW p \in Proc, Turn(p) PROVE IInv'
  BY <1>9 DEF Turn, NextProject
<1>10. ASSUME NEW p \in Proc, RestampOpen(p) PROVE IInv'
  BY <1>10 DEF RestampOpen, HeldBy, LockOf
<1>11. ASSUME NEW p \in Proc, RestampTruncate(p) PROVE IInv'
  <2>1. CASE lock # Absent /\ lock.inode = <<p, try[p]>>
    <3>1. /\ lock' = [lock EXCEPT !.written = FALSE, !.at = now]
          /\ pc' = [pc EXCEPT ![p] = "rewrite"]
          /\ UNCHANGED <<try, until, deadline, now>>
      BY <1>11, <2>1 DEF RestampTruncate, WriteThrough
    <3>2. lock'.inode = lock.inode /\ ~lock'.written /\ lock'.at = now
      BY <2>1, <3>1
    <3>3. OwnerInv' /\ WrittenInv' /\ LiveInv'
      BY <1>11, <2>1, <3>1, <3>2 DEF RestampTruncate
    <3>4. until[p] <= now + Bound /\ deadline[p] <= now + Slack
      BY <1>11, <2>1 DEF RestampTruncate
    <3>5. AgeInv'
      BY <2>1, <3>1, <3>2, <3>4
    <3>6. QED
      BY <3>3, <3>5
  <2>2. CASE ~(lock # Absent /\ lock.inode = <<p, try[p]>>)
    BY <1>11, <2>2 DEF RestampTruncate, WriteThrough
  <2>3. QED
    BY <2>1, <2>2
<1>12. ASSUME NEW p \in Proc, RestampWrite(p) PROVE IInv'
  BY <1>12 DEF RestampWrite, WriteThrough
<1>13. ASSUME NEW p \in Proc, WorkQuietly(p) PROVE IInv'
  BY <1>13 DEF WorkQuietly
<1>14. ASSUME NEW p \in Proc, PublishCheck(p) PROVE IInv'
  BY <1>14 DEF PublishCheck
<1>15. ASSUME NEW p \in Proc, PublishRename(p) PROVE IInv'
  BY <1>15 DEF PublishRename
<1>16. ASSUME NEW p \in Proc, ReleaseCheck(p) PROVE IInv'
  BY <1>16 DEF ReleaseCheck, HeldBy, LockOf
<1>17. ASSUME NEW p \in Proc, ReleaseUnlink(p) PROVE IInv'
  BY <1>17 DEF ReleaseUnlink
<1>18. ASSUME NEW p \in Proc, Crash(p) PROVE IInv'
  BY <1>18 DEF Crash
<1>19. CASE Tick
  BY <1>19 DEF Tick
<1>20. CASE Jump
  BY <1>20 DEF Jump
<1>21. CASE UNCHANGED vars
  BY <1>21 DEF vars
<1>22. QED
  BY <1>2, <1>3, <1>4, <1>5, <1>6, <1>7, <1>8, <1>9, <1>10, <1>11, <1>12, <1>13, <1>14, <1>15, <1>16, <1>17, <1>18, <1>19, <1>20, <1>21 DEF Next, Acquire, Hold

\* Jumps are counted and the dead stay dead: neither is ever undone.
LEMMA NothingIsUndone ==
    TypeOK /\ [Next]_vars
        => (SteadyClock' => SteadyClock) /\ (NobodyDied' => NobodyDied)
<1> SUFFICES ASSUME TypeOK, [Next]_vars
             PROVE  (SteadyClock' => SteadyClock) /\ (NobodyDied' => NobodyDied)
  OBVIOUS
<1> USE DEF TypeOK, Goto, SteadyClock, NobodyDied
<1>1. ASSUME NEW p \in Proc, Acquire(p)
      PROVE  UNCHANGED jumps /\ pc[p] # "dead" /\ \A q \in Proc \ {p} : pc'[q] = pc[q]
  BY <1>1 DEF Acquire, Start, CreateOpen, CreateFailed, CreateWrite, CreateCheck, JudgeRead,
     JudgeStat, Steal
<1>2. ASSUME NEW p \in Proc, Hold(p)
      PROVE  UNCHANGED jumps /\ pc[p] # "dead" /\ \A q \in Proc \ {p} : pc'[q] = pc[q]
  BY <1>2 DEF Hold, Turn, NextProject, RestampOpen, RestampTruncate, RestampWrite, WorkQuietly,
     PublishCheck, PublishRename, ReleaseCheck, ReleaseUnlink
<1>3. ASSUME NEW p \in Proc, Crash(p)
      PROVE  UNCHANGED jumps /\ pc'[p] = "dead"
  BY <1>3 DEF Crash
<1>4. CASE Tick
  BY <1>4 DEF Tick
<1>5. CASE Jump
  BY <1>5 DEF Jump
<1>6. CASE UNCHANGED vars
  BY <1>6 DEF vars
<1>7. QED
  BY <1>1, <1>2, <1>3, <1>4, <1>5, <1>6 DEF Next

\* IInv holds of every state reached without a clock jump.
LEMMA Invariant == Spec => [](SteadyClock => IInv)
<1> DEFINE I == SteadyClock => IInv
<1>1. TypeOK /\ I /\ [Next]_vars => I'
  BY NothingIsUndone, Inductive DEF SteadyClock
<1>2. Init => I
  BY Initially
<1>3. QED
  BY <1>1, <1>2, TypeCorrect, PTL DEF Spec

\* synclock.ts:64-74, for every number of attempts, renewing or dying, and all
\* bounds with Bound + 2 * Slack <= Lease: before the clock jumps, a lock judged
\* stale is never one whose holder is still at work.
THEOREM StaleIsStopped == Spec => StaleMeansStopped
<1> DEFINE A == \A p \in Proc :
                  SteadyClock' /\ pc[p] \in {"judge", "stat"} /\ pc'[p] = "steal"
                     => \A q \in Proc : Working(q) => ~LockOf(q)
<1>1. TypeOK /\ (SteadyClock => IInv) /\ [Next]_vars => [A]_vars
  <2> SUFFICES ASSUME TypeOK, SteadyClock => IInv, Next, SteadyClock',
                      NEW p \in Proc, pc[p] \in {"judge", "stat"}, pc'[p] = "steal",
                      NEW q \in Proc, Working(q), LockOf(q)
               PROVE FALSE
    BY DEF vars
  <2> IInv
    BY NothingIsUndone
  <2>1. ~Stale
    BY LiveOwnerIsYoung DEF Working, LockOf, Owner, Live, Holding
  <2>2. PICK r \in Proc : JudgeRead(r) \/ JudgeStat(r)
    BY DEF Next, Acquire, Hold, Start, CreateOpen, CreateWrite, CreateCheck, CreateFailed,
           Steal, Turn, NextProject, RestampOpen, RestampTruncate, RestampWrite,
           WorkQuietly, PublishCheck, PublishRename, ReleaseCheck, ReleaseUnlink,
           Crash, Tick, Jump, Goto, IInv, TypeOK
  <2>3. r = p
    BY <2>2 DEF JudgeRead, JudgeStat, Goto, IInv, TypeOK
  <2>4. QED
    BY <2>1, <2>2, <2>3 DEF JudgeRead, JudgeStat, Goto, IInv, TypeOK
<1>2. QED
  BY <1>1, TypeCorrect, Invariant, PTL DEF Spec, StaleMeansStopped

\* Until somebody dies, whoever is past its create owns the file, and nobody is
\* about to steal it.
AloneInv ==
    /\ \A p \in Proc : pc[p] \in Owning => LockOf(p)
    /\ \A p \in Proc : pc[p] # "steal"

\* A file is not the absence of one.
LEMMA CreatedIsNotAbsent == \A f \in LockFile : f # Absent
BY DEF LockFile, Absent

\* A write through a descriptor neither removes the lock nor moves its inode.
LEMMA WrittenIsNotAbsent ==
    ASSUME TypeOK, NEW p \in Proc, NEW w, NEW t, WriteThrough(p, w, t), lock # Absent
    PROVE  lock' # Absent /\ lock'.inode = lock.inode
<1>1. lock \in LockFile
  BY DEF TypeOK
<1>2. CASE lock.inode = <<p, try[p]>>
  <2>1. lock' = [lock EXCEPT !.written = w, !.at = t]
    BY <1>2 DEF WriteThrough
  <2>2. DOMAIN lock' = {"inode", "written", "at"} /\ lock'.inode = lock.inode
    BY <1>1, <2>1 DEF LockFile
  <2>3. DOMAIN Absent = {"inode"}
    BY DEF Absent
  <2>4. QED
    BY <2>2, <2>3
<1>3. CASE lock.inode # <<p, try[p]>>
  BY <1>3 DEF WriteThrough
<1>4. QED
  BY <1>2, <1>3

\* The death of an attempt apart, every step keeps AloneInv.
LEMMA AloneInductive == IInv /\ NobodyDied /\ AloneInv /\ [Next]_vars /\ NobodyDied' => AloneInv'
<1> SUFFICES ASSUME IInv, NobodyDied, AloneInv, [Next]_vars, NobodyDied' PROVE AloneInv'
  OBVIOUS
<1>1. ~Stale
  BY LiveOwnerIsYoung DEF IInv, TypeOK, OwnerInv, AloneInv, NobodyDied, Owner, Owning, Live, Acquiring,
     LockFile, Inode, Stale
<1> USE DEF IInv, TypeOK, AloneInv, LockOf, HeldBy, Owning, Goto, Holding, LockFile, Inode
<1>2. ASSUME NEW p \in Proc, Acquire(p) PROVE AloneInv'
  <2>1. CASE Start(p) \/ CreateCheck(p)
    BY <2>1 DEF Start, CreateCheck, CreateFailed
  <2>2. CASE CreateOpen(p)
    <3>1. CASE lock = Absent
      <4>1. /\ lock' = [inode |-> <<p, try[p]>>, written |-> FALSE, at |-> now]
            /\ pc' = [pc EXCEPT ![p] = "write"]
        BY <2>2, <3>1 DEF CreateOpen
      <4>2. lock' # Absent /\ lock'.inode[1] = p
        BY <4>1, CreatedIsNotAbsent
      <4>3. QED
        BY <3>1, <4>1, <4>2
    <3>2. CASE lock # Absent
      BY <2>2, <3>2 DEF CreateOpen, CreateFailed
    <3>3. QED
      BY <3>1, <3>2
  <2>3. CASE CreateWrite(p)
    <3>1. lock' # Absent /\ lock'.inode = lock.inode
      BY <2>3, WrittenIsNotAbsent DEF CreateWrite
    <3>2. QED
      BY <2>3, <3>1 DEF CreateWrite
  <2>4. CASE JudgeRead(p) \/ JudgeStat(p)
    BY <1>1, <2>4 DEF JudgeRead, JudgeStat
  <2>5. CASE Steal(p)
    BY <2>5 DEF Steal
  <2>6. QED
    BY <1>2, <2>1, <2>2, <2>3, <2>4, <2>5 DEF Acquire
<1>3. ASSUME NEW p \in Proc, Turn(p) \/ RestampOpen(p) \/ RestampTruncate(p) \/ RestampWrite(p)
      PROVE AloneInv'
  <2>1. CASE Turn(p) \/ RestampOpen(p)
    BY <2>1 DEF Turn, NextProject, RestampOpen
  <2>2. CASE RestampTruncate(p) \/ RestampWrite(p)
    <3>1. lock' # Absent /\ lock'.inode = lock.inode
      BY <2>2, WrittenIsNotAbsent DEF RestampTruncate, RestampWrite
    <3>2. QED
      BY <2>2, <3>1 DEF RestampTruncate, RestampWrite
  <2>3. QED
    BY <1>3, <2>1, <2>2
<1>4. ASSUME NEW p \in Proc, WorkQuietly(p) \/ PublishCheck(p) \/ PublishRename(p)
                               \/ ReleaseCheck(p) \/ ReleaseUnlink(p)
      PROVE AloneInv'
  BY <1>4 DEF WorkQuietly, PublishCheck, PublishRename, ReleaseCheck, ReleaseUnlink
<1>5. CASE Tick \/ Jump \/ UNCHANGED vars
  BY <1>5 DEF Tick, Jump, vars
<1>6. ASSUME NEW p \in Proc, Crash(p) PROVE FALSE
  BY <1>6 DEF Crash, NobodyDied
<1>7. QED
  BY <1>2, <1>3, <1>4, <1>5, <1>6 DEF Next, Hold

\* The part of the invariant that says nobody has lost its lock, as reached.
LEMMA Alone == Spec => [](SteadyClock /\ NobodyDied => AloneInv)
<1> DEFINE A == SteadyClock /\ NobodyDied => AloneInv
<1>1. Init => A
  BY DEF Init, AloneInv, Owning, Holding
<1>2. TypeOK /\ (SteadyClock => IInv) /\ A /\ [Next]_vars => A'
  BY NothingIsUndone, AloneInductive
<1>3. QED
  BY <1>1, <1>2, TypeCorrect, Invariant, PTL DEF Spec

\* synclock.ts:5-8: until a holder dies or the clock jumps, two attempts are
\* never at work at once.
THEOREM OneAtATime == Spec => []MutualExclusion
<1>1. (SteadyClock /\ NobodyDied => AloneInv) => MutualExclusion
  BY DEF AloneInv, MutualExclusion, Working, LockOf, Owning
<1>2. QED
  BY <1>1, Alone, PTL

\* synclock.ts:210-211, 301-302: until then a rename is made, and the lock
\* unlinked, only under the lock of the one that does it.
THEOREM ActsUnderItsOwnLock == Spec => OnlyTheHolderActs
<1> DEFINE A == (SteadyClock /\ NobodyDied) =>
                  \A p \in Proc : Renames(p) \/ Unlinks(p) => LockOf(p)
<1>1. (SteadyClock /\ NobodyDied => AloneInv) => [A]_vars
  BY DEF AloneInv, Owning, Holding, Renames, Unlinks
<1>2. QED
  BY <1>1, Alone, PTL DEF OnlyTheHolderActs

-----------------------------------------------------------------------------
(***************************************************************************)
(* What publishRewrite guarantees for any number of appends and of syncs.  *)
(*                                                                         *)
(* However often the lock is taken from a live holder no line is cut or    *)
(* fused: half a line is last in a file while its append is half done, and *)
(* no publisher copies a text that ends in one.  While the lock is kept    *)
(* one publisher at a time reads a file that only grows behind it, so what *)
(* is not in the replacement is behind its second read, where the tail     *)
(* finds it; and what is in both was never written.                        *)
(***************************************************************************)

-----------------------------------------------------------------------------
(* Texts *)

Texts == Seq(Piece)

\* The first part of a line is followed by its second, or is the last there is.
Sound(text) ==
    \A i \in 1..Len(text) :
        ~text[i].ends => i = Len(text) \/ text[i + 1] = Whole("append", text[i].row)

\* No append is in the text twice.
Once(text) ==
    \A i, j \in 1..Len(text) :
        text[i].ends /\ text[i].kind = "append" /\ text[i] = text[j] => i = j

\* The one text begins with the other.
Begins(text, start) ==
    Len(start) <= Len(text) /\ \A i \in 1..Len(start) : text[i] = start[i]

-----------------------------------------------------------------------------
(* The invariant, however often the lock was taken from a live holder. *)

Steps == {"idle", "settle", "openread", "read", "reread", "temp", "nonce", "rename",
          "tail", "carry", "release", "done", "dead"}

TextOK ==
    /\ name \in FileInode \cup {NoFile}
    /\ content \in [FileInode -> Texts]
    /\ temps \subseteq Pub /\ owner \in Pub \cup {NoOwner} /\ taken \in Nat
    /\ apc \in [Row -> {"open", "half", "write", "done"}]
    /\ afd \in [Row -> FileInode \cup {NoFile}]
    /\ ppc \in [Pub -> Steps]
    /\ pfd \in [Pub -> FileInode \cup {NoFile}]
    /\ before \in [Pub -> Texts] /\ carried \in [Pub -> Texts] /\ tail \in [Pub -> Texts]
    /\ late \subseteq Row

\* A replacement nobody can have opened yet.
Hidden(p) == ppc[p] \notin {"tail", "carry", "release", "done", "dead"}

\* What a descriptor is open on: a file, and none that is hidden yet.
OpenInv ==
    /\ \A r \in Row : apc[r] = "half" => r \in Large
    /\ \A r \in Row : apc[r] \in {"half", "write"} => afd[r] # NoFile
    /\ \A p \in Pub : ppc[p] \in {"tail", "carry"} => name # NoFile
    /\ \A p \in Pub : Hidden(p) =>
          /\ name # p
          /\ \A r \in Row : afd[r] # p
          /\ \A q \in Pub : pfd[q] # p

\* A text ends with half a line where the append that writes it is half done.
HalfInv ==
    /\ \A r \in Large : apc[r] = "write" =>
          content[afd[r]] # <<>> /\ Last(content[afd[r]]) = FirstHalf(r)
    /\ \A i \in FileInode : EndsMidLine(content[i]) => Busy(i)

Fit(text) == Sound(text) /\ ~EndsMidLine(text)

SoundInv ==
    /\ \A i \in FileInode : Sound(content[i])
    /\ \A p \in Pub : ppc[p] \in {"reread", "temp"} => Fit(before[p])
    /\ \A p \in Pub : ppc[p] = "temp" => Fit(carried[p])
    /\ \A p \in Pub : Fit(tail[p])

LineInv == TextOK /\ OpenInv /\ HalfInv /\ SoundInv

-----------------------------------------------------------------------------
(* The invariant while the lock is kept. *)

Active(p) == ppc[p] \notin {"idle", "done", "dead"}
Reading(p) == ppc[p] \in {"read", "reread", "temp", "nonce", "rename"}
HasRead(p) == ppc[p] \in {"reread", "temp", "nonce", "rename"}
HasReread(p) == ppc[p] \in {"temp", "nonce", "rename"}

\* What is still to be put back.
Rest(p) == IF ppc[p] = "tail" THEN From(content[pfd[p]], Len(carried[p])) ELSE tail[p]

\* A row that is in a file has been written, and only what is stored is settled,
\* after it was written.
RowInv ==
    /\ \A i \in FileInode :
          /\ Once(content[i])
          /\ \A r \in AppendsIn(content[i]) : apc[r] = "done"
          /\ SentIn(content[i]) \subseteq Stored \cap AppendsIn(content[i])

HolderInv == \A p \in Pub : Active(p) => owner = p

\* The file a publisher reads is the one the name is bound to, and goes on
\* beginning with what was read; no mark comes behind it.
ReadInv ==
    \A p \in Pub :
        /\ Reading(p) => pfd[p] = name
        /\ HasRead(p) => /\ Begins(content[name], before[p])
                         /\ SentIn(From(content[name], Len(before[p]))) = {}
                         /\ SentIn(before[p]) \subseteq AppendsIn(before[p])
        /\ HasReread(p) => Begins(content[name], carried[p]) /\ Begins(carried[p], before[p])
        /\ ppc[p] \in {"nonce", "rename"} => content[p] = Replacement(p)

\* The rows nothing may lose.
Owed == {r \in Row \ (Stored \cup late) : apc[r] = "done"}

\* Behind a rename, what is not in the new file is what is still to be put back.
TailInv ==
    /\ \A p \in Pub : Renamed(p) =>
          /\ name = p /\ pfd[p] \in FileInode \ {p}
          /\ ppc[p] = "tail" => Begins(content[pfd[p]], carried[p])
          /\ Once(Rest(p)) /\ SentIn(Rest(p)) = {}
          /\ \A r \in AppendsIn(Rest(p)) : apc[r] = "done"
          /\ AppendsIn(content[p]) \cap AppendsIn(Rest(p)) = {}
          /\ Owed \subseteq AppendsIn(content[p]) \cup AppendsIn(Rest(p))
    /\ ~Carrying => Owed \subseteq AppendsIn(content[name])

KeptInv ==
    name # NoFile /\ (LockKept => RowInv /\ HolderInv /\ ReadInv /\ TailInv)

RInv == LineInv /\ KeptInv

-----------------------------------------------------------------------------
(* Lemmas about texts *)

\* A text is a function on an interval.
LEMMA TextOf ==
  ASSUME NEW t \in Texts
  PROVE  /\ Len(t) \in Nat /\ DOMAIN t = 1..Len(t)
         /\ \A i \in 1..Len(t) : t[i] \in Piece
  BY LenProperties, ElementOfSeq DEF Texts

\* The rows of a text by position.
LEMMA RowsOf ==
  ASSUME NEW t \in Texts, NEW r
  PROVE  /\ r \in AppendsIn(t) <=> r \in Row /\ \E i \in 1..Len(t) : t[i] = Whole("append", r)
         /\ r \in SentIn(t) <=> r \in Row /\ \E i \in 1..Len(t) : t[i] = Whole("sent", r)
  BY TextOf DEF AppendsIn, SentIn, ToSet

\* A text ends mid-line where its last piece does.
LEMMA MidLine ==
  ASSUME NEW t \in Texts
  PROVE  EndsMidLine(t) <=> Len(t) > 0 /\ ~t[Len(t)].ends
  BY EmptySeq, TextOf DEF EndsMidLine, Last, Texts

\* The pieces of two texts, one behind the other.
LEMMA Joined ==
  ASSUME NEW t \in Texts, NEW u \in Texts
  PROVE  /\ t \o u \in Texts
         /\ Len(t \o u) = Len(t) + Len(u)
         /\ \A i \in 1..Len(t) : (t \o u)[i] = t[i]
         /\ \A i \in 1..Len(u) : (t \o u)[Len(t) + i] = u[i]
<1>1. Len(t) \in Nat /\ Len(u) \in Nat
  BY TextOf
<1>2. /\ t \o u \in Texts /\ Len(t \o u) = Len(t) + Len(u)
      /\ \A i \in 1..Len(t) + Len(u) : (t \o u)[i] = IF i <= Len(t) THEN t[i] ELSE u[i - Len(t)]
  BY ConcatProperties DEF Texts
<1>3. ASSUME NEW i \in 1..Len(u) PROVE (t \o u)[Len(t) + i] = u[i]
  <2>1. Len(t) + i \in 1..Len(t) + Len(u) /\ ~(Len(t) + i <= Len(t)) /\ (Len(t) + i) - Len(t) = i
    BY <1>1
  <2>2. QED
    BY <1>2, <2>1
<1>4. ASSUME NEW i \in 1..Len(t) PROVE (t \o u)[i] = t[i]
  BY <1>1, <1>2
<1>5. QED
  BY <1>2, <1>3, <1>4

\* A position in the two is one in the first or one in the second.
LEMMA Either ==
  ASSUME NEW t \in Texts, NEW u \in Texts, NEW i \in 1..Len(t \o u)
  PROVE  \/ i \in 1..Len(t) /\ (t \o u)[i] = t[i]
         \/ \E k \in 1..Len(u) : i = Len(t) + k /\ (t \o u)[i] = u[k]
<1>1. Len(t) \in Nat /\ Len(u) \in Nat /\ Len(t \o u) = Len(t) + Len(u)
  BY TextOf, Joined
<1>2. CASE i <= Len(t)
  BY <1>1, <1>2, Joined
<1>3. CASE i > Len(t)
  <2>1. i - Len(t) \in 1..Len(u) /\ i = Len(t) + (i - Len(t))
    BY <1>1, <1>3
  <2>2. (t \o u)[Len(t) + (i - Len(t))] = u[i - Len(t)]
    BY <2>1, Joined
  <2>3. QED
    BY <2>1, <2>2
<1>4. QED
  BY <1>1, <1>2, <1>3

\* The rows of two texts, one behind the other, are those of the one and of the other.
LEMMA JoinedRows ==
  ASSUME NEW t \in Texts, NEW u \in Texts
  PROVE  /\ AppendsIn(t \o u) = AppendsIn(t) \cup AppendsIn(u)
         /\ SentIn(t \o u) = SentIn(t) \cup SentIn(u)
<1>1. t \o u \in Texts /\ Len(t \o u) = Len(t) + Len(u) /\ Len(t) \in Nat /\ Len(u) \in Nat
  BY Joined, TextOf
<1>2. ASSUME NEW x
      PROVE (\E i \in 1..Len(t \o u) : (t \o u)[i] = x)
              <=> (\E i \in 1..Len(t) : t[i] = x) \/ (\E i \in 1..Len(u) : u[i] = x)
  <2>1. ASSUME NEW i \in 1..Len(t \o u), (t \o u)[i] = x
        PROVE (\E k \in 1..Len(t) : t[k] = x) \/ (\E k \in 1..Len(u) : u[k] = x)
    BY <2>1, Either
  <2>2. ASSUME NEW i \in 1..Len(t), t[i] = x PROVE \E k \in 1..Len(t \o u) : (t \o u)[k] = x
    <3>1. i \in 1..Len(t \o u) /\ (t \o u)[i] = x
      BY <1>1, <2>2, Joined
    <3>2. QED
      BY <3>1
  <2>3. ASSUME NEW i \in 1..Len(u), u[i] = x PROVE \E k \in 1..Len(t \o u) : (t \o u)[k] = x
    <3>1. Len(t) + i \in 1..Len(t \o u) /\ (t \o u)[Len(t) + i] = x
      BY <1>1, <2>3, Joined
    <3>2. QED
      BY <3>1
  <2>4. QED
    BY <2>1, <2>2, <2>3
<1>3. ASSUME NEW r PROVE r \in AppendsIn(t \o u) <=> r \in AppendsIn(t) \/ r \in AppendsIn(u)
  BY <1>1, <1>2, RowsOf
<1>4. ASSUME NEW r PROVE r \in SentIn(t \o u) <=> r \in SentIn(t) \/ r \in SentIn(u)
  BY <1>1, <1>2, RowsOf
<1>5. QED
  BY <1>3, <1>4

\* Behind whole lines a sound text goes on being one.
LEMMA JoinedSound ==
  ASSUME NEW t \in Texts, NEW u \in Texts, Fit(t), Sound(u)
  PROVE  Sound(t \o u) /\ (~EndsMidLine(u) => ~EndsMidLine(t \o u))
<1>1. t \o u \in Texts /\ Len(t \o u) = Len(t) + Len(u) /\ Len(t) \in Nat /\ Len(u) \in Nat
  BY Joined, TextOf
<1>2. Sound(t) /\ ~(Len(t) > 0 /\ ~t[Len(t)].ends)
  BY MidLine DEF Fit
<1>3. ASSUME NEW i \in 1..Len(t \o u), ~(t \o u)[i].ends
      PROVE i = Len(t \o u) \/ (t \o u)[i + 1] = Whole("append", (t \o u)[i].row)
  <2>1. CASE i \in 1..Len(t) /\ (t \o u)[i] = t[i]
    <3>1. i # Len(t)
      BY <1>1, <1>2, <1>3, <2>1
    <3>2. t[i + 1] = Whole("append", t[i].row) /\ i + 1 \in 1..Len(t)
      BY <1>1, <1>2, <1>3, <2>1, <3>1 DEF Sound
    <3>3. QED
      BY <2>1, <3>2, Joined
  <2>2. ASSUME NEW k \in 1..Len(u), i = Len(t) + k, (t \o u)[i] = u[k]
        PROVE i = Len(t \o u) \/ (t \o u)[i + 1] = Whole("append", (t \o u)[i].row)
    <3>1. k = Len(u) \/ u[k + 1] = Whole("append", u[k].row)
      BY <1>3, <2>2 DEF Sound
    <3>2. CASE k = Len(u)
      BY <1>1, <2>2, <3>2
    <3>3. CASE k # Len(u)
      <4>1. k + 1 \in 1..Len(u) /\ Len(t) + (k + 1) = i + 1
        BY <1>1, <2>2, <3>3
      <4>2. (t \o u)[Len(t) + (k + 1)] = u[k + 1]
        BY <4>1, Joined
      <4>3. QED
        BY <2>2, <3>1, <3>3, <4>1, <4>2
    <3>4. QED
      BY <3>2, <3>3
  <2>3. QED
    BY <2>1, <2>2, Either
<1>4. ASSUME ~EndsMidLine(u) PROVE ~EndsMidLine(t \o u)
  <2>1. ~(Len(u) > 0 /\ ~u[Len(u)].ends)
    BY <1>4, MidLine
  <2>2. CASE Len(u) = 0
    <3>1. Len(t \o u) = Len(t)
      BY <1>1, <2>2
    <3>2. Len(t) > 0 => (t \o u)[Len(t)] = t[Len(t)]
      BY <1>1, Joined
    <3>3. QED
      BY <1>1, <1>2, <3>1, <3>2, MidLine
  <2>3. CASE Len(u) > 0
    <3>1. (t \o u)[Len(t) + Len(u)] = u[Len(u)]
      BY <1>1, <2>3, Joined
    <3>2. QED
      BY <1>1, <2>1, <2>3, <3>1, MidLine
  <2>4. QED
    BY <1>1, <2>2, <2>3
<1>5. QED
  BY <1>3, <1>4 DEF Sound

\* Two texts that share no append hold none twice, one behind the other.
LEMMA JoinedOnce ==
  ASSUME NEW t \in Texts, NEW u \in Texts, Once(t), Once(u),
         AppendsIn(t) \cap AppendsIn(u) = {}
  PROVE  Once(t \o u)
<1>1. t \o u \in Texts /\ Len(t) \in Nat /\ Len(u) \in Nat
  BY Joined, TextOf
<1> DEFINE v == t \o u
<1>2. SUFFICES ASSUME NEW i \in 1..Len(v), NEW j \in 1..Len(v),
                      v[i].ends, v[i].kind = "append", v[i] = v[j]
               PROVE  i = j
  BY DEF Once
<1>3. v[i] \in Piece
  BY <1>1, TextOf
<1>4. v[i] = Whole("append", v[i].row) /\ v[i].row \in Row
  BY <1>2, <1>3 DEF Piece, Whole
<1>5. ASSUME NEW k \in 1..Len(t), NEW m \in 1..Len(u), t[k] = v[i], u[m] = v[i] PROVE FALSE
  <2>1. v[i].row \in AppendsIn(t)
    BY <1>4, <1>5, RowsOf
  <2>2. v[i].row \in AppendsIn(u)
    BY <1>4, <1>5, RowsOf
  <2>3. QED
    BY <2>1, <2>2
<1>6. CASE i \in 1..Len(t) /\ v[i] = t[i]
  <2>1. CASE j \in 1..Len(t) /\ v[j] = t[j]
    BY <1>2, <1>6, <2>1 DEF Once
  <2>2. ASSUME NEW m \in 1..Len(u), v[j] = u[m] PROVE FALSE
    BY <1>2, <1>5, <1>6, <2>2
  <2>3. QED
    BY <2>1, <2>2, Either
<1>7. ASSUME NEW k \in 1..Len(u), i = Len(t) + k, v[i] = u[k] PROVE i = j
  <2>1. CASE j \in 1..Len(t) /\ v[j] = t[j]
    BY <1>2, <1>5, <1>7, <2>1
  <2>2. ASSUME NEW m \in 1..Len(u), j = Len(t) + m, v[j] = u[m] PROVE i = j
    BY <1>2, <1>7, <2>2 DEF Once
  <2>3. QED
    BY <2>1, <2>2, Either
<1>8. QED
  BY <1>6, <1>7, Either

\* The pieces of a text from a position on.
LEMMA Cut ==
  ASSUME NEW t \in Texts, NEW k \in Nat
  PROVE  /\ From(t, k) \in Texts
         /\ Len(From(t, k)) = IF k <= Len(t) THEN Len(t) - k ELSE 0
         /\ \A i \in 1..Len(From(t, k)) : k + i \in 1..Len(t) /\ From(t, k)[i] = t[k + i]
<1>1. Len(t) \in Nat
  BY TextOf
<1>2. \A i \in k + 1..Len(t) : t[i] \in Piece
  BY <1>1, TextOf
<1>3. /\ From(t, k) \in Texts
      /\ Len(From(t, k)) = IF k + 1 <= Len(t) THEN Len(t) - (k + 1) + 1 ELSE 0
      /\ \A i \in 1..Len(t) - (k + 1) + 1 : From(t, k)[i] = t[(k + 1) + i - 1]
  BY <1>1, <1>2, SubSeqProperties DEF From, Texts
<1>4. Len(From(t, k)) = IF k <= Len(t) THEN Len(t) - k ELSE 0
  BY <1>1, <1>3
<1>5. ASSUME NEW i \in 1..Len(From(t, k)) PROVE k + i \in 1..Len(t) /\ From(t, k)[i] = t[k + i]
  <2>1. i \in 1..Len(t) - (k + 1) + 1 /\ (k + 1) + i - 1 = k + i /\ k + i \in 1..Len(t)
    BY <1>1, <1>4
  <2>2. QED
    BY <1>3, <2>1
<1>6. QED
  BY <1>3, <1>4, <1>5

\* What is cut off the beginning of a text takes nothing from the rest.
LEMMA CutKeeps ==
  ASSUME NEW t \in Texts, NEW k \in Nat
  PROVE  /\ Sound(t) => Sound(From(t, k))
         /\ ~EndsMidLine(t) => ~EndsMidLine(From(t, k))
         /\ Once(t) => Once(From(t, k))
         /\ AppendsIn(From(t, k)) \subseteq AppendsIn(t)
         /\ SentIn(From(t, k)) \subseteq SentIn(t)
<1> DEFINE u == From(t, k)
<1>1. /\ u \in Texts /\ Len(t) \in Nat /\ Len(u) \in Nat
      /\ Len(u) = IF k <= Len(t) THEN Len(t) - k ELSE 0
      /\ \A i \in 1..Len(u) : k + i \in 1..Len(t) /\ u[i] = t[k + i]
  BY Cut, TextOf
<1> HIDE DEF u
<1>2. ASSUME Sound(t), NEW i \in 1..Len(u), ~u[i].ends
      PROVE i = Len(u) \/ u[i + 1] = Whole("append", u[i].row)
  <2>1. k + i \in 1..Len(t) /\ ~t[k + i].ends /\ u[i] = t[k + i]
    BY <1>1, <1>2
  <2>2. k + i = Len(t) \/ t[(k + i) + 1] = Whole("append", t[k + i].row)
    BY <1>2, <2>1 DEF Sound
  <2>3. CASE k + i = Len(t)
    BY <1>1, <2>3
  <2>4. CASE k + i # Len(t)
    <3>1. i + 1 \in 1..Len(u) /\ k + (i + 1) = (k + i) + 1
      BY <1>1, <2>1, <2>4
    <3>2. u[i + 1] = t[k + (i + 1)]
      BY <1>1, <3>1
    <3>3. QED
      BY <2>1, <2>2, <2>4, <3>1, <3>2
  <2>5. QED
    BY <2>3, <2>4
<1>3. ASSUME ~EndsMidLine(t) PROVE ~EndsMidLine(u)
  <2> SUFFICES ASSUME Len(u) > 0, ~u[Len(u)].ends PROVE FALSE
    BY <1>1, MidLine
  <2>1. k + Len(u) = Len(t) /\ Len(u) \in 1..Len(u)
    BY <1>1
  <2>2. u[Len(u)] = t[Len(t)] /\ Len(t) > 0
    BY <1>1, <2>1
  <2>3. QED
    BY <1>3, <2>2, MidLine
<1>4. ASSUME Once(t), NEW i \in 1..Len(u), NEW j \in 1..Len(u),
             u[i].ends, u[i].kind = "append", u[i] = u[j]
      PROVE  i = j
  <2>1. k + i = k + j
    BY <1>1, <1>4 DEF Once
  <2>2. QED
    BY <2>1
<1>5. ASSUME NEW r, r \in AppendsIn(u) PROVE r \in AppendsIn(t)
  <2>1. r \in Row /\ \E i \in 1..Len(u) : u[i] = Whole("append", r)
    BY <1>1, <1>5, RowsOf
  <2>2. QED
    BY <1>1, <2>1, RowsOf
<1>6. ASSUME NEW r, r \in SentIn(u) PROVE r \in SentIn(t)
  <2>1. r \in Row /\ \E i \in 1..Len(u) : u[i] = Whole("sent", r)
    BY <1>1, <1>6, RowsOf
  <2>2. QED
    BY <1>1, <2>1, RowsOf
<1>7. QED
  BY <1>2, <1>3, <1>4, <1>5, <1>6 DEF Sound, Once, u

\* A text that begins with another is that one and what is behind it.
LEMMA Parts ==
  ASSUME NEW t \in Texts, NEW s \in Texts, Begins(t, s)
  PROVE  t = s \o From(t, Len(s)) /\ From(t, Len(s)) \in Texts
<1> DEFINE u == From(t, Len(s))
<1>1. /\ Len(t) \in Nat /\ Len(s) \in Nat /\ Len(s) <= Len(t)
      /\ \A i \in 1..Len(s) : t[i] = s[i]
  BY TextOf DEF Begins
<1>2. /\ u \in Texts /\ Len(u) = Len(t) - Len(s)
      /\ \A i \in 1..Len(u) : u[i] = t[Len(s) + i]
  BY <1>1, Cut
<1> HIDE DEF u
<1>3. s \o u \in Texts /\ Len(s \o u) = Len(t)
  BY <1>1, <1>2, Joined
<1>4. ASSUME NEW i \in 1..Len(t) PROVE (s \o u)[i] = t[i]
  <2>1. CASE i \in 1..Len(s) /\ (s \o u)[i] = s[i]
    BY <1>1, <2>1
  <2>2. ASSUME NEW k \in 1..Len(u), i = Len(s) + k, (s \o u)[i] = u[k] PROVE (s \o u)[i] = t[i]
    BY <1>2, <2>2
  <2>3. QED
    BY <1>2, <1>3, <2>1, <2>2, Either
<1>5. t = [i \in 1..Len(t) |-> t[i]] /\ s \o u = [i \in 1..Len(t) |-> (s \o u)[i]]
  BY <1>3, LenProperties DEF Texts
<1>6. t = s \o u
  BY <1>4, <1>5
<1>7. QED
  BY <1>2, <1>6 DEF u

\* The rows in front of a position and behind it; none is on both sides.
LEMMA PartsRows ==
  ASSUME NEW t \in Texts, NEW s \in Texts, Begins(t, s)
  PROVE  /\ AppendsIn(t) = AppendsIn(s) \cup AppendsIn(From(t, Len(s)))
         /\ SentIn(t) = SentIn(s) \cup SentIn(From(t, Len(s)))
         /\ Once(t) => Once(s) /\ AppendsIn(s) \cap AppendsIn(From(t, Len(s))) = {}
<1> DEFINE u == From(t, Len(s))
<1>1. t = s \o u /\ u \in Texts
  BY Parts
<1>2. Len(s) \in Nat /\ Len(u) \in Nat /\ Len(t) \in Nat
  BY <1>1, TextOf
<1> HIDE DEF u
<1>3. AppendsIn(t) = AppendsIn(s) \cup AppendsIn(u) /\ SentIn(t) = SentIn(s) \cup SentIn(u)
  BY <1>1, JoinedRows
<1>4. Len(t) = Len(s) + Len(u)
  BY <1>1, Joined
<1>5. ASSUME Once(t) PROVE Once(s)
  <2>1. \A i \in 1..Len(s) : i \in 1..Len(t) /\ t[i] = s[i]
    BY <1>1, <1>2, <1>4, Joined
  <2>2. QED
    BY <1>5, <2>1 DEF Once
<1>6. ASSUME Once(t), NEW r \in AppendsIn(s), r \in AppendsIn(u) PROVE FALSE
  <2>1. PICK i \in 1..Len(s) : s[i] = Whole("append", r)
    BY RowsOf
  <2>2. PICK k \in 1..Len(u) : u[k] = Whole("append", r)
    BY <1>1, <1>6, RowsOf
  <2>3. t[i] = Whole("append", r) /\ i \in 1..Len(t)
    BY <1>1, <1>2, <1>4, <2>1, Joined
  <2>4. t[Len(s) + k] = Whole("append", r) /\ Len(s) + k \in 1..Len(t)
    BY <1>1, <1>2, <1>4, <2>2, Joined
  <2>5. t[i].ends /\ t[i].kind = "append"
    BY <2>3 DEF Whole
  <2>6. i = Len(s) + k
    BY <1>6, <2>3, <2>4, <2>5 DEF Once
  <2>7. QED
    BY <1>2, <2>6
<1>7. QED
  BY <1>3, <1>5, <1>6 DEF u

\* A text that is written on begins with what it began with.
LEMMA WrittenOn ==
  ASSUME NEW t \in Texts, NEW u \in Texts, NEW s \in Texts, Begins(t, s)
  PROVE  Begins(t \o u, s) /\ From(t \o u, Len(s)) = From(t, Len(s)) \o u
<1>1. /\ Len(t) \in Nat /\ Len(u) \in Nat /\ Len(s) \in Nat /\ Len(s) <= Len(t)
      /\ t \o u \in Texts /\ Len(t \o u) = Len(t) + Len(u)
      /\ \A i \in 1..Len(s) : t[i] = s[i]
  BY TextOf, Joined DEF Begins
<1>2. \A i \in 1..Len(s) : i \in 1..Len(t) /\ (t \o u)[i] = s[i]
  BY <1>1, Joined
<1>3. Begins(t \o u, s)
  BY <1>1, <1>2 DEF Begins
<1> DEFINE a == From(t \o u, Len(s))
           b == From(t, Len(s))
<1>4. /\ a \in Texts /\ Len(a) = Len(t) + Len(u) - Len(s)
      /\ \A i \in 1..Len(a) : a[i] = (t \o u)[Len(s) + i]
  <2>1. Len(s) <= Len(t \o u) /\ Len(t \o u) - Len(s) = Len(t) + Len(u) - Len(s)
    BY <1>1
  <2>2. /\ a \in Texts
        /\ Len(a) = IF Len(s) <= Len(t \o u) THEN Len(t \o u) - Len(s) ELSE 0
        /\ \A i \in 1..Len(a) : a[i] = (t \o u)[Len(s) + i]
    <3>1. t \o u \in Texts /\ Len(s) \in Nat
      BY <1>1
    <3>2. QED
      BY <3>1, Cut
  <2>3. QED
    BY <2>1, <2>2
<1>5. /\ b \in Texts /\ Len(b) = Len(t) - Len(s)
      /\ \A i \in 1..Len(b) : b[i] = t[Len(s) + i]
  BY <1>1, Cut
<1> HIDE DEF a, b
<1>6. b \o u \in Texts /\ Len(b \o u) = Len(a)
  <2>1. b \o u \in Texts /\ Len(b \o u) = Len(b) + Len(u)
    BY <1>5, Joined
  <2>2. Len(b) + Len(u) = Len(a)
    BY <1>1, <1>4, <1>5
  <2>3. QED
    BY <2>1, <2>2
<1>7. ASSUME NEW i \in 1..Len(a) PROVE a[i] = (b \o u)[i]
  <2>1. CASE i \in 1..Len(b) /\ (b \o u)[i] = b[i]
    <3>1. Len(s) + i \in 1..Len(t)
      BY <1>1, <1>5, <2>1
    <3>2. (t \o u)[Len(s) + i] = t[Len(s) + i]
      BY <3>1, Joined
    <3>3. QED
      BY <1>4, <1>5, <2>1, <3>2
  <2>2. ASSUME NEW k \in 1..Len(u), i = Len(b) + k, (b \o u)[i] = u[k] PROVE a[i] = (b \o u)[i]
    <3>1. Len(s) + i = Len(t) + k
      BY <1>1, <1>5, <2>2
    <3>2. (t \o u)[Len(t) + k] = u[k]
      BY Joined
    <3>3. QED
      BY <1>4, <2>2, <3>1, <3>2
  <2>3. i \in 1..Len(b \o u)
    BY <1>6
  <2>4. QED
    BY <1>5, <2>1, <2>2, <2>3, Either
<1>8. a = [i \in 1..Len(a) |-> a[i]] /\ b \o u = [i \in 1..Len(a) |-> (b \o u)[i]]
  BY <1>4, <1>6, LenProperties DEF Texts
<1>9. a = b \o u
  BY <1>7, <1>8
<1>10. QED
  BY <1>3, <1>9 DEF a, b

\* A text begins with itself.
LEMMA BeginsItself == ASSUME NEW t \in Texts PROVE Begins(t, t)
  BY TextOf DEF Begins

\* From nothing on a text is itself.
LEMMA AllOf == ASSUME NEW t \in Texts PROVE From(t, 0) = t
<1> DEFINE a == From(t, 0)
<1>1. Len(t) \in Nat
  BY TextOf
<1>2. a \in Texts /\ Len(a) = Len(t) /\ \A i \in 1..Len(a) : a[i] = t[0 + i]
  BY <1>1, Cut
<1> HIDE DEF a
<1>3. a = [i \in 1..Len(t) |-> a[i]] /\ t = [i \in 1..Len(t) |-> t[i]]
  BY <1>2, LenProperties DEF Texts
<1>4. \A i \in 1..Len(t) : a[i] = t[i]
  BY <1>1, <1>2
<1>5. QED
  BY <1>3, <1>4 DEF a

-----------------------------------------------------------------------------
(* Lemmas about compaction *)

\* The positions of a finite set of numbers, counted in their order.
LEMMA Ranks ==
  ASSUME NEW n \in Nat, NEW S \in SUBSET (1..n)
  PROVE  /\ IsFiniteSet(S) /\ Cardinality(S) \in Nat
         /\ \A i \in S : Rank(S, i) \in 1..Cardinality(S)
         /\ \A i, j \in S : Rank(S, i) = Rank(S, j) => i = j
         /\ \A k \in 1..Cardinality(S) : \E i \in S : Rank(S, i) = k
         /\ \A i \in S : i + 1 \in S => Rank(S, i + 1) = Rank(S, i) + 1
         /\ \A i \in S : Rank(S, i) = Cardinality(S) => \A j \in S : j <= i
<1> DEFINE Upto(i) == {j \in S : j <= i}
<1> \A i \in S : i \in Nat
  OBVIOUS
<1>1. IsFiniteSet(S)
  <2>1. IsFiniteSet(1..n)
    BY FS_Interval
  <2>2. QED
    BY <2>1, FS_Subset
<1>2. Cardinality(S) \in Nat
  BY <1>1, FS_CardinalityType
<1>3. ASSUME NEW i \in S
      PROVE /\ IsFiniteSet(Upto(i)) /\ Cardinality(Upto(i)) \in 1..Cardinality(S)
            /\ Cardinality(Upto(i)) = Cardinality(S) => Upto(i) = S
  <2>1. Upto(i) \in SUBSET S
    OBVIOUS
  <2>2. /\ IsFiniteSet(Upto(i)) /\ Cardinality(Upto(i)) <= Cardinality(S)
        /\ Cardinality(S) = Cardinality(Upto(i)) => S = Upto(i)
    BY <1>1, <2>1, FS_Subset
  <2>3. Cardinality(Upto(i)) \in Nat
    BY <2>2, FS_CardinalityType
  <2>4. Cardinality(Upto(i)) # 0
    <3>1. i \in Upto(i)
      OBVIOUS
    <3>2. QED
      BY <2>2, <3>1, FS_EmptySet
  <2>5. QED
    BY <1>2, <2>2, <2>3, <2>4
<1>4. ASSUME NEW i \in S, NEW j \in S, i < j PROVE Cardinality(Upto(i)) < Cardinality(Upto(j))
  <2> i \in Nat /\ j \in Nat
    OBVIOUS
  <2>1. Upto(i) \in SUBSET Upto(j)
    <3>1. ASSUME NEW k \in S, k <= i PROVE k <= j
      <4>1. k \in Nat
        OBVIOUS
      <4>2. QED
        BY <1>4, <3>1, <4>1
    <3>2. QED
      BY <3>1
  <2>2. j \in Upto(j) /\ j \notin Upto(i)
    BY <1>4
  <2>3. IsFiniteSet(Upto(j)) /\ Cardinality(Upto(i)) \in Nat /\ Cardinality(Upto(j)) \in Nat
    <3> HIDE DEF Upto
    <3>1. IsFiniteSet(Upto(i)) /\ IsFiniteSet(Upto(j))
      BY <1>3
    <3>2. QED
      BY <3>1, FS_CardinalityType
  <2>4. /\ Cardinality(Upto(i)) <= Cardinality(Upto(j))
        /\ Cardinality(Upto(j)) = Cardinality(Upto(i)) => Upto(j) = Upto(i)
    <3> HIDE DEF Upto
    <3> QED
      BY <2>1, <2>3, FS_Subset
  <2>5. QED
    BY <2>2, <2>3, <2>4
<1>5. \A i \in S : Rank(S, i) = Cardinality(Upto(i))
  BY DEF Rank
<1>6. \A i \in S : Rank(S, i) \in 1..Cardinality(S)
  BY <1>3, <1>5
<1>7. ASSUME NEW i \in S, NEW j \in S, Rank(S, i) = Rank(S, j) PROVE i = j
  <2>1. i \in Nat /\ j \in Nat
    OBVIOUS
  <2> DEFINE a == Cardinality(Upto(i))
             b == Cardinality(Upto(j))
  <2>5. a \in Nat /\ b \in Nat /\ a = b
    BY <1>2, <1>3, <1>5, <1>7
  <2>6. (i < j => a < b) /\ (j < i => b < a)
    BY <1>4
  <2> HIDE DEF a, b
  <2>2. ~(i < j)
    BY <2>5, <2>6
  <2>3. ~(j < i)
    BY <2>5, <2>6
  <2>4. QED
    BY <2>1, <2>2, <2>3
<1>8. ASSUME NEW k \in 1..Cardinality(S) PROVE \E i \in S : Rank(S, i) = k
  <2> DEFINE f == [i \in S |-> Rank(S, i)]
             c == Cardinality(S)
  <2>1. f \in [S -> 1..c]
    BY <1>6
  <2>2. f \in Injection(S, 1..c)
    <3>1. \A i, j \in S : f[i] = f[j] => i = j
      BY <1>7
    <3>2. QED
      <4> HIDE DEF f, c
      <4> QED
        BY <2>1, <3>1 DEF Injection, IsInjective
  <2>3. IsFiniteSet(1..c) /\ Cardinality(1..c) = c
    BY <1>2, FS_Interval
  <2>4. f \in Surjection(S, 1..c)
    <3>1. c = Cardinality(S)
      OBVIOUS
    <3> HIDE DEF f, c
    <3>2. QED
      BY <2>2, <2>3, <3>1, FS_Injection
  <2>5. \E i \in S : f[i] = k
    <3>1. k \in 1..c
      OBVIOUS
    <3> HIDE DEF f, c
    <3>2. QED
      BY <2>4, <3>1 DEF Surjection
  <2>6. QED
    BY <2>5
<1>9. ASSUME NEW i \in S, i + 1 \in S PROVE Rank(S, i + 1) = Rank(S, i) + 1
  <2> i \in Nat
    OBVIOUS
  <2>1. Upto(i + 1) = Upto(i) \cup {i + 1}
    <3>1. \A k \in Nat : k <= i + 1 <=> k <= i \/ k = i + 1
      OBVIOUS
    <3>2. \A k \in S : k <= i + 1 <=> k <= i \/ k = i + 1
      BY <3>1
    <3>3. QED
      BY <1>9, <3>2
  <2>2. i + 1 \notin Upto(i)
    OBVIOUS
  <2>3. IsFiniteSet(Upto(i))
    BY <1>3
  <2>4. Cardinality(Upto(i) \cup {i + 1}) = Cardinality(Upto(i)) + 1
    <3> HIDE DEF Upto
    <3> QED
      BY <2>2, <2>3, FS_AddElement
  <2>5. QED
    BY <1>5, <1>9, <2>1, <2>4
<1>10. ASSUME NEW i \in S, Rank(S, i) = Cardinality(S), NEW j \in S PROVE j <= i
  <2>1. Upto(i) = S
    BY <1>3, <1>5, <1>10
  <2>2. QED
    BY <2>1
<1>11. QED
  BY <1>1, <1>2, <1>6, <1>7, <1>8, <1>9, <1>10

\* The pieces at some positions are those pieces, in their order.
LEMMA Picked ==
  ASSUME NEW t \in Texts, NEW S \in SUBSET (1..Len(t))
  PROVE  /\ PiecesAt(t, S) \in Texts
         /\ Len(PiecesAt(t, S)) = Cardinality(S)
         /\ \A i \in S : PiecesAt(t, S)[Rank(S, i)] = t[i]
<1> DEFINE u == PiecesAt(t, S)
           at(k) == CHOOSE i \in S : Rank(S, i) = k
<1>1. Len(t) \in Nat /\ \A i \in 1..Len(t) : t[i] \in Piece
  BY TextOf
<1>2. /\ Cardinality(S) \in Nat
      /\ \A i \in S : Rank(S, i) \in 1..Cardinality(S)
      /\ \A i, j \in S : Rank(S, i) = Rank(S, j) => i = j
      /\ \A k \in 1..Cardinality(S) : \E i \in S : Rank(S, i) = k
  BY <1>1, Ranks
<1>3. ASSUME NEW k \in 1..Cardinality(S) PROVE at(k) \in S /\ Rank(S, at(k)) = k
  BY <1>2
<1>4. u = [k \in 1..Cardinality(S) |-> t[at(k)]]
  BY DEF PiecesAt
<1>5. \A k \in 1..Cardinality(S) : t[at(k)] \in Piece
  BY <1>1, <1>3
<1>6. u \in Texts /\ Len(u) = Cardinality(S)
  <2> HIDE DEF at, u
  <2>1. u \in [1..Cardinality(S) -> Piece]
    BY <1>4, <1>5
  <2>2. QED
    BY <1>2, <1>4, <2>1, SeqDef DEF Texts
<1>7. ASSUME NEW i \in S PROVE u[Rank(S, i)] = t[i]
  <2>1. Rank(S, i) \in 1..Cardinality(S)
    BY <1>2
  <2>2. at(Rank(S, i)) \in S /\ Rank(S, at(Rank(S, i))) = Rank(S, i)
    BY <1>3, <2>1
  <2>3. at(Rank(S, i)) = i
    <3> HIDE DEF at
    <3> QED
      BY <1>2, <2>2
  <2>4. u[Rank(S, i)] = t[at(Rank(S, i))]
    <3> HIDE DEF at
    <3> QED
      BY <1>4, <2>1
  <2>5. QED
    <3> HIDE DEF at, u
    <3> QED
      BY <2>3, <2>4
<1>8. QED
  BY <1>6, <1>7

\* compactedPending drops every piece of a settled row and none of another, so
\* it leaves lines whole: the two parts of one are dropped or kept together.
LEMMA Compacted ==
  ASSUME NEW t \in Texts
  PROVE  /\ Rewritten(t) \in Texts
         /\ Fit(t) => Fit(Rewritten(t))
         /\ AppendsIn(Rewritten(t)) = AppendsIn(t) \ SentIn(t)
         /\ SentIn(Rewritten(t)) = {}
         /\ Once(t) => Once(Rewritten(t))
<1> DEFINE S == KeptPositions(t)
           u == Rewritten(t)
           c == Cardinality(S)
<1>1. Len(t) \in Nat /\ DOMAIN t = 1..Len(t) /\ \A i \in 1..Len(t) : t[i] \in Piece
  BY TextOf
<1>2. \A i : i \in S <=> i \in 1..Len(t) /\ t[i].row \notin SentIn(t)
  BY <1>1 DEF KeptPositions
<1>3. S \in SUBSET (1..Len(t))
  BY <1>2
<1>4. /\ c \in Nat
      /\ \A i \in S : Rank(S, i) \in 1..c
      /\ \A i, j \in S : Rank(S, i) = Rank(S, j) => i = j
      /\ \A k \in 1..c : \E i \in S : Rank(S, i) = k
      /\ \A i \in S : i + 1 \in S => Rank(S, i + 1) = Rank(S, i) + 1
      /\ \A i \in S : Rank(S, i) = c => \A j \in S : j <= i
  BY <1>1, <1>3, Ranks
<1>5. u \in Texts /\ Len(u) = c /\ \A i \in S : u[Rank(S, i)] = t[i]
  BY <1>3, Picked DEF Rewritten
<1> HIDE DEF S, u, c
<1>6. ASSUME NEW k \in 1..Len(u)
      PROVE \E i \in S : Rank(S, i) = k /\ u[k] = t[i]
  BY <1>4, <1>5
<1>7. ASSUME Sound(t), NEW i \in S, ~t[i].ends, i # Len(t)
      PROVE i + 1 \in S /\ t[i + 1] = Whole("append", t[i].row)
  <2>1. i \in 1..Len(t)
    BY <1>3
  <2>5. t[i + 1] = Whole("append", t[i].row)
    BY <1>7, <2>1 DEF Sound
  <2>6. i + 1 \in 1..Len(t)
    <3>1. Len(t) \in Nat
      BY <1>1
    <3>2. i # Len(t)
      BY <1>7
    <3>3. QED
      BY <2>1, <3>1, <3>2
  <2>2. t[i + 1] = Whole("append", t[i].row) /\ i + 1 \in 1..Len(t)
    BY <2>5, <2>6
  <2>3. t[i + 1].row = t[i].row
    BY <2>2 DEF Whole
  <2>4. QED
    BY <1>2, <2>2, <2>3
<1>8. ASSUME Fit(t) PROVE Fit(u)
  <2>1. Sound(t) /\ ~(Len(t) > 0 /\ ~t[Len(t)].ends)
    BY <1>8, MidLine DEF Fit
  <2>2. ASSUME NEW i \in S, ~t[i].ends PROVE i + 1 \in S /\ t[i + 1] = Whole("append", t[i].row)
    <3>3. i \in 1..Len(t)
      BY <1>3
    <3>4. Len(t) \in Nat
      BY <1>1
    <3>1. ASSUME i = Len(t) PROVE FALSE
      <4>1. Len(t) > 0
        BY <3>1, <3>3, <3>4
      <4>2. ~t[Len(t)].ends
        BY <2>2, <3>1
      <4>3. QED
        BY <2>1, <4>1, <4>2
    <3>2. QED
      BY <1>7, <2>1, <2>2, <3>1
  <2>3. ASSUME NEW k \in 1..Len(u), ~u[k].ends
        PROVE k # Len(u) /\ u[k + 1] = Whole("append", u[k].row)
    <3>1. PICK i \in S : Rank(S, i) = k /\ u[k] = t[i]
      BY <1>6
    <3>2. i + 1 \in S /\ t[i + 1] = Whole("append", t[i].row)
      BY <2>2, <2>3, <3>1
    <3>3. Rank(S, i + 1) = k + 1 /\ u[k + 1] = t[i + 1]
      BY <1>4, <1>5, <3>1, <3>2
    <3>4. k + 1 \in 1..c
      BY <1>4, <3>2, <3>3
    <3>5. QED
      BY <1>4, <1>5, <3>1, <3>2, <3>3, <3>4
  <2>4. Sound(u)
    BY <2>3 DEF Sound
  <2>5. ~EndsMidLine(u)
    <3> SUFFICES ASSUME Len(u) > 0, ~u[Len(u)].ends PROVE FALSE
      BY <1>5, MidLine
    <3>1. Len(u) \in 1..Len(u)
      BY <1>4, <1>5
    <3>2. QED
      BY <2>3, <3>1
  <2>6. QED
    BY <2>4, <2>5 DEF Fit
<1>9. AppendsIn(u) = AppendsIn(t) \ SentIn(t)
  <2>1. ASSUME NEW r, r \in AppendsIn(u) PROVE r \in AppendsIn(t) \ SentIn(t)
    <3>1. PICK k \in 1..Len(u) : u[k] = Whole("append", r)
      BY <1>5, <2>1, RowsOf
    <3>2. PICK i \in S : u[k] = t[i]
      BY <1>6
    <3>3. i \in 1..Len(t) /\ t[i] = Whole("append", r) /\ t[i].row \notin SentIn(t)
      BY <1>2, <3>1, <3>2
    <3>4. r \in Row
      BY <1>5, <2>1, RowsOf
    <3>5. t[i].row = r
      BY <3>3 DEF Whole
    <3>6. QED
      BY <3>3, <3>4, <3>5, RowsOf
  <2>2. ASSUME NEW r, r \in AppendsIn(t), r \notin SentIn(t) PROVE r \in AppendsIn(u)
    <3>1. PICK i \in 1..Len(t) : t[i] = Whole("append", r)
      BY <2>2, RowsOf
    <3>2. t[i].row = r
      BY <3>1 DEF Whole
    <3>3. i \in S
      BY <1>2, <2>2, <3>2
    <3>4. Rank(S, i) \in 1..Len(u) /\ u[Rank(S, i)] = Whole("append", r)
      BY <1>4, <1>5, <3>1, <3>3
    <3>5. r \in Row
      BY <2>2, RowsOf
    <3>6. QED
      BY <1>5, <3>4, <3>5, RowsOf
  <2>3. QED
    BY <2>1, <2>2
<1>10. SentIn(u) = {}
  <2> SUFFICES ASSUME NEW r, r \in SentIn(u) PROVE FALSE
    OBVIOUS
  <2>1. PICK k \in 1..Len(u) : u[k] = Whole("sent", r)
    BY <1>5, RowsOf
  <2>2. PICK i \in S : u[k] = t[i]
    BY <1>6
  <2>3. i \in 1..Len(t) /\ t[i] = Whole("sent", r) /\ t[i].row \notin SentIn(t)
    BY <1>2, <2>1, <2>2
  <2>4. r \in Row
    BY <1>5, RowsOf
  <2>5. r \in SentIn(t)
    BY <2>3, <2>4, RowsOf
  <2>6. t[i].row = r
    BY <2>3 DEF Whole
  <2>7. QED
    BY <2>3, <2>5, <2>6
<1>11. ASSUME Once(t), NEW k \in 1..Len(u), NEW m \in 1..Len(u),
              u[k].ends, u[k].kind = "append", u[k] = u[m]
       PROVE  k = m
  <2>1. PICK i \in S : Rank(S, i) = k /\ u[k] = t[i]
    BY <1>6
  <2>2. PICK j \in S : Rank(S, j) = m /\ u[m] = t[j]
    BY <1>6
  <2>3. i \in 1..Len(t) /\ j \in 1..Len(t)
    BY <1>3
  <2>4. i = j
    BY <1>11, <2>1, <2>2, <2>3 DEF Once
  <2>5. QED
    BY <2>1, <2>2, <2>4
<1>12. Once(t) => Once(u)
  BY <1>11 DEF Once
<1>13. QED
  BY <1>5, <1>8, <1>9, <1>10, <1>12 DEF u

-----------------------------------------------------------------------------
(* Lemmas about the tail and the marks *)

\* A finite set of numbers that is not empty has a greatest one.
LEMMA GreatestExists ==
  ASSUME NEW n \in Nat, NEW S \in SUBSET (1..n), S # {}
  PROVE  \E x \in S : \A y \in S : x >= y
<1>1. Cardinality(S) \in Nat /\ IsFiniteSet(S)
  BY Ranks
<1>2. Cardinality(S) # 0
  BY <1>1, FS_EmptySet
<1>3. Cardinality(S) \in 1..Cardinality(S)
  BY <1>1, <1>2
<1>4. PICK i \in S : Rank(S, i) = Cardinality(S)
  BY <1>3, Ranks
<1>5. \A j \in S : j <= i
  BY <1>4, Ranks
<1>6. \A j \in S : i >= j
  BY <1>5
<1>7. QED
  BY <1>6

\* carryLateTail takes the lines that are whole: every append is among them.
LEMMA WholeLinesOf ==
  ASSUME NEW t \in Texts
  PROVE  /\ WholeLines(t) \in Texts
         /\ Sound(t) => Fit(WholeLines(t))
         /\ AppendsIn(WholeLines(t)) = AppendsIn(t)
         /\ SentIn(WholeLines(t)) = SentIn(t)
         /\ Once(t) => Once(WholeLines(t))
<1> DEFINE I == {i \in 1..Len(t) : t[i].ends}
           m == SelectLastInSeq(t, LAMBDA x : x.ends)
           u == WholeLines(t)
<1>1. Len(t) \in Nat /\ \A i \in 1..Len(t) : t[i] \in Piece
  BY TextOf
<1>2. m = IF I # {} THEN Max(I) ELSE 0
  BY DEF SelectLastInSeq
<1>3. I # {} => Max(I) \in I /\ \A i \in I : Max(I) >= i
  <2>1. I \in SUBSET (1..Len(t))
    OBVIOUS
  <2> HIDE DEF I
  <2>2. I # {} => \E x \in I : \A y \in I : x >= y
    BY <1>1, <2>1, GreatestExists
  <2>3. QED
    BY <2>2 DEF Max
<1> HIDE DEF m
<1>4. /\ m \in 0..Len(t)
      /\ m > 0 => t[m].ends
      /\ \A i \in 1..Len(t) : t[i].ends => i <= m
  BY <1>1, <1>2, <1>3
<1>5. u = SubSeq(t, 1, m)
  BY DEF WholeLines, m
<1>6. \A i \in 1..m : t[i] \in Piece
  BY <1>1, <1>4
<1>7. /\ u \in Texts /\ Len(u) = m
      /\ \A i \in 1..m : u[i] = t[i]
  <2>1. /\ SubSeq(t, 1, m) \in Texts
        /\ Len(SubSeq(t, 1, m)) = IF 1 <= m THEN m - 1 + 1 ELSE 0
        /\ \A i \in 1..m - 1 + 1 : SubSeq(t, 1, m)[i] = t[1 + i - 1]
    BY <1>4, <1>6, SubSeqProperties DEF Texts
  <2>2. m \in Nat
    BY <1>1, <1>4
  <2>3. \A i \in 1..m : i \in 1..m - 1 + 1 /\ 1 + i - 1 = i
    BY <2>2
  <2>4. QED
    BY <1>5, <2>1, <2>2, <2>3
<1> HIDE DEF u, I
<1>8. ASSUME Sound(t) PROVE Fit(u)
  <2>1. ASSUME NEW i \in 1..Len(u), ~u[i].ends
        PROVE i = Len(u) \/ u[i + 1] = Whole("append", u[i].row)
    <3>1. i \in 1..Len(t) /\ u[i] = t[i]
      BY <1>1, <1>4, <1>7
    <3>2. i # m /\ m \in Nat
      BY <1>1, <1>4, <1>7, <2>1, <3>1
    <3>3. i + 1 \in 1..m /\ i # Len(t)
      BY <1>1, <1>4, <1>7, <3>1, <3>2
    <3>4. t[i + 1] = Whole("append", t[i].row)
      BY <1>8, <2>1, <3>1, <3>3 DEF Sound
    <3>5. QED
      BY <1>7, <3>1, <3>3, <3>4
  <2>2. ~EndsMidLine(u)
    <3> SUFFICES ASSUME Len(u) > 0, ~u[Len(u)].ends PROVE FALSE
      BY <1>7, MidLine
    <3>1. m > 0 /\ m \in 1..m
      BY <1>1, <1>4, <1>7
    <3>2. QED
      BY <1>4, <1>7, <3>1
  <2>3. QED
    BY <2>1, <2>2 DEF Fit, Sound
<1>9. ASSUME NEW x, x.ends
      PROVE (\E i \in 1..Len(u) : u[i] = x) <=> (\E i \in 1..Len(t) : t[i] = x)
  <2>1. ASSUME NEW i \in 1..Len(u), u[i] = x PROVE \E k \in 1..Len(t) : t[k] = x
    <3>1. i \in 1..Len(t) /\ t[i] = x
      BY <1>1, <1>4, <1>7, <2>1
    <3>2. QED
      BY <3>1
  <2>2. ASSUME NEW i \in 1..Len(t), t[i] = x PROVE \E k \in 1..Len(u) : u[k] = x
    <3>1. i <= m
      BY <1>4, <1>9, <2>2
    <3>2. i \in 1..Len(u) /\ u[i] = x
      BY <1>1, <1>4, <1>7, <2>2, <3>1
    <3>3. QED
      BY <3>2
  <2>3. QED
    BY <2>1, <2>2
<1>10. ASSUME NEW r PROVE r \in AppendsIn(u) <=> r \in AppendsIn(t)
  <2>1. Whole("append", r).ends
    BY DEF Whole
  <2>2. QED
    BY <1>7, <1>9, <2>1, RowsOf
<1>11. ASSUME NEW r PROVE r \in SentIn(u) <=> r \in SentIn(t)
  <2>1. Whole("sent", r).ends
    BY DEF Whole
  <2>2. QED
    BY <1>7, <1>9, <2>1, RowsOf
<1>12. ASSUME Once(t) PROVE Once(u)
  <2>1. \A i \in 1..Len(u) : i \in 1..Len(t) /\ u[i] = t[i]
    BY <1>1, <1>4, <1>7
  <2>2. QED
    BY <1>12, <2>1 DEF Once
<1>13. QED
  BY <1>7, <1>8, <1>10, <1>11, <1>12 DEF u

\* Every row of a set has a line of its own, in some order.
LEMMA LinesOf ==
  ASSUME NEW kind \in {"append", "sent"}, NEW rs \in SUBSET Row
  PROVE  /\ Lines(kind, rs) \in Texts
         /\ Fit(Lines(kind, rs)) /\ Once(Lines(kind, rs))
         /\ AppendsIn(Lines(kind, rs)) = IF kind = "append" THEN rs ELSE {}
         /\ SentIn(Lines(kind, rs)) = IF kind = "sent" THEN rs ELSE {}
<1> DEFINE o == SetToSeq(rs)
           c == Cardinality(rs)
           u == Lines(kind, rs)
<1>1. IsFiniteSet(rs)
  BY PublishAssumption, FS_Subset
<1>2. c \in Nat /\ ExistsBijection(1..c, rs)
  BY <1>1, FS_CardinalityType
<1>3. PICK f \in [1..c -> rs] : f \in Bijection(1..c, rs)
  BY <1>2 DEF ExistsBijection, Bijection, Injection
<1>4. IsInjective(f)
  BY <1>3 DEF Bijection, Injection, IsInjective
<1>5. o \in [1..c -> rs] /\ IsInjective(o)
  BY <1>4 DEF SetToSeq
<1> HIDE DEF o, c
<1>6. \A i, j \in 1..c : o[i] = o[j] => i = j
  BY <1>5 DEF IsInjective
<1>7. \A r \in rs : \E i \in 1..c : o[i] = r
  <2>1. o \in Injection(1..c, rs)
    BY <1>5, <1>6 DEF Injection, IsInjective
  <2>2. Cardinality(1..c) = c /\ IsFiniteSet(1..c)
    BY <1>2, FS_Interval
  <2>3. o \in Surjection(1..c, rs)
    BY <1>1, <2>1, <2>2, FS_Injection DEF c
  <2>4. QED
    BY <2>3 DEF Surjection
<1>8. u = [i \in 1..c |-> Whole(kind, o[i])]
  BY <1>5 DEF Lines, o
<1>9. \A i \in 1..c : u[i] = Whole(kind, o[i]) /\ o[i] \in rs
  BY <1>5, <1>8
<1>10. u \in Texts /\ Len(u) = c
  <2>1. \A i \in 1..c : Whole(kind, o[i]) \in Piece
    BY <1>9 DEF Whole, Piece
  <2>2. u \in [1..c -> Piece]
    <3> HIDE DEF u
    <3> QED
      BY <1>8, <2>1
  <2>3. QED
    BY <1>2, <1>8, <2>2, SeqDef DEF Texts
<1> HIDE DEF u
<1>11. \A i \in 1..Len(u) : u[i].ends /\ u[i].kind = kind /\ u[i].row = o[i]
  BY <1>9, <1>10 DEF Whole
<1>12. Fit(u)
  <2>1. ~EndsMidLine(u)
    BY <1>2, <1>10, <1>11, MidLine
  <2>2. QED
    BY <1>11, <2>1 DEF Fit, Sound
<1>13. Once(u)
  BY <1>6, <1>10, <1>11 DEF Once
<1>14. ASSUME NEW k \in {"append", "sent"}, NEW r
       PROVE (\E i \in 1..Len(u) : u[i] = Whole(k, r)) <=> k = kind /\ r \in rs
  <2>1. ASSUME NEW i \in 1..Len(u), u[i] = Whole(k, r) PROVE k = kind /\ r \in rs
    BY <1>9, <1>10, <2>1 DEF Whole
  <2>2. ASSUME k = kind, r \in rs PROVE \E i \in 1..Len(u) : u[i] = Whole(k, r)
    BY <1>7, <1>9, <1>10, <2>2
  <2>3. QED
    BY <2>1, <2>2
<1>15. ASSUME NEW r
       PROVE /\ r \in AppendsIn(u) <=> kind = "append" /\ r \in rs
             /\ r \in SentIn(u) <=> kind = "sent" /\ r \in rs
  BY <1>10, <1>14, RowsOf
<1>16. QED
  BY <1>10, <1>12, <1>13, <1>15 DEF u

\* A piece on its own, as an append writes it.
LEMMA OnePiece ==
  ASSUME NEW r \in Row
  PROVE  /\ <<FirstHalf(r)>> \in Texts /\ <<Whole("append", r)>> \in Texts
         /\ AppendsIn(<<FirstHalf(r)>>) = {} /\ SentIn(<<FirstHalf(r)>>) = {}
         /\ AppendsIn(<<Whole("append", r)>>) = {r} /\ SentIn(<<Whole("append", r)>>) = {}
         /\ Once(<<FirstHalf(r)>>) /\ Once(<<Whole("append", r)>>)
<1>1. <<FirstHalf(r)>> \in Texts /\ <<Whole("append", r)>> \in Texts
  BY DEF FirstHalf, Whole, Piece, Texts
<1>2. Len(<<FirstHalf(r)>>) = 1 /\ Len(<<Whole("append", r)>>) = 1
  OBVIOUS
<1>3. \A k, q : FirstHalf(r) # Whole(k, q)
  BY DEF FirstHalf, Whole
<1>4. \A k, q : Whole("append", r) = Whole(k, q) <=> k = "append" /\ q = r
  BY DEF Whole
<1>5. ASSUME NEW q PROVE q \notin AppendsIn(<<FirstHalf(r)>>) /\ q \notin SentIn(<<FirstHalf(r)>>)
  BY <1>1, <1>2, <1>3, RowsOf
<1>6. ASSUME NEW q
      PROVE /\ q \in AppendsIn(<<Whole("append", r)>>) <=> q = r
            /\ q \notin SentIn(<<Whole("append", r)>>)
  BY <1>1, <1>2, <1>4, RowsOf
<1>7. Once(<<FirstHalf(r)>>) /\ Once(<<Whole("append", r)>>)
  BY <1>2 DEF Once
<1>8. QED
  BY <1>1, <1>5, <1>6, <1>7

-----------------------------------------------------------------------------
(* No line is cut or fused *)

\* A file that is written on: what it holds, and what the others go on holding.
LEMMA Written ==
  ASSUME TextOK, NEW i \in FileInode, NEW u \in Texts,
         content' = [content EXCEPT ![i] = @ \o u]
  PROVE  /\ content' \in [FileInode -> Texts]
         /\ content'[i] = content[i] \o u
         /\ \A j \in FileInode : j # i => content'[j] = content[j]
<1>1. content \in [FileInode -> Texts]
  BY DEF TextOK
<1>2. content[i] \o u \in Texts
  BY <1>1, Joined
<1>3. QED
  BY <1>1, <1>2

\* What each step that writes puts behind which file.
LEMMA HalfWrites ==
  ASSUME TextOK, OpenInv, NEW r \in Row, AppendHalf(r)
  PROVE  /\ afd[r] \in FileInode /\ r \in Large
         /\ content' = [content EXCEPT ![afd[r]] = @ \o <<FirstHalf(r)>>]
<1>1. afd[r] \in FileInode /\ r \in Large
  BY DEF AppendHalf, OpenInv, TextOK
<1>2. content[afd[r]] \in Texts /\ FirstHalf(r) \in Piece
  BY <1>1 DEF TextOK, FirstHalf, Piece
<1>3. Append(content[afd[r]], FirstHalf(r)) = content[afd[r]] \o <<FirstHalf(r)>>
  BY <1>2, AppendIsConcat DEF Texts
<1>4. QED
  BY <1>1, <1>3 DEF AppendHalf

\* The second of the two pieces, or the only one.
LEMMA WholeWrites ==
  ASSUME TextOK, OpenInv, NEW r \in Row, AppendWrite(r)
  PROVE  /\ afd[r] \in FileInode
         /\ content' = [content EXCEPT ![afd[r]] = @ \o <<Whole("append", r)>>]
<1>1. afd[r] \in FileInode
  BY DEF AppendWrite, OpenInv, TextOK
<1>2. content[afd[r]] \in Texts /\ Whole("append", r) \in Piece
  BY <1>1 DEF TextOK, Whole, Piece
<1>3. Append(content[afd[r]], Whole("append", r)) = content[afd[r]] \o <<Whole("append", r)>>
  BY <1>2, AppendIsConcat DEF Texts
<1>4. QED
  BY <1>1, <1>3 DEF AppendWrite

\* The marks of a settlement, where there is a file to settle.
LEMMA SettleWrites ==
  ASSUME TextOK, NEW p \in Pub, Settle(p)
  PROVE  \/ UNCHANGED content
         \/ /\ name \in FileInode /\ ~EndsMidLine(content[name])
            /\ Marks(content[name]) \in Texts
            /\ content' = [content EXCEPT ![name] = @ \o Marks(content[name])]
<1>1. ASSUME NEW t \in Texts PROVE Marks(t) \in Texts
  BY LinesOf DEF Marks, UnsentIn, AppendsIn
<1>2. QED
  BY <1>1 DEF Settle, Text, TextOK

\* The tail, behind the new file.
LEMMA TailWrites ==
  ASSUME TextOK, OpenInv, NEW p \in Pub, CarryTail(p)
  PROVE  /\ name \in FileInode /\ tail[p] \in Texts
         /\ content' = [content EXCEPT ![name] = @ \o tail[p]]
         /\ tail[p] = <<>> => UNCHANGED content
<1>1. name \in FileInode /\ tail[p] \in Texts /\ content \in [FileInode -> Texts]
  BY DEF CarryTail, OpenInv, TextOK
<1>2. content' = [content EXCEPT ![name] = @ \o tail[p]]
  BY <1>1 DEF CarryTail
<1>3. ASSUME tail[p] = <<>> PROVE content' = content
  <2>1. content[name] \in Seq(Piece)
    BY <1>1 DEF Texts
  <2>2. content[name] \o <<>> = content[name]
    BY <2>1, ConcatEmptySeq
  <2>3. QED
    BY <1>1, <1>2, <1>3, <2>2
<1>4. QED
  BY <1>1, <1>2, <1>3

\* A replacement is made of whole lines.
LEMMA Replaced ==
  ASSUME TextOK, NEW p \in Pub
  PROVE  /\ Replacement(p) \in Texts
         /\ Fit(before[p]) /\ Fit(carried[p]) => Fit(Replacement(p))
<1> DEFINE k == Len(before[p])
           u == From(carried[p], k)
           v == Rewritten(before[p])
<1>1. before[p] \in Texts /\ carried[p] \in Texts
  BY DEF TextOK
<1>2. k \in Nat
  BY <1>1, TextOf
<1>3. u \in Texts
  BY <1>1, <1>2, Cut
<1>4. v \in Texts
  BY <1>1, Compacted
<1>5. Replacement(p) = v \o u
  BY DEF Replacement
<1>6. ASSUME Fit(before[p]), Fit(carried[p]) PROVE Fit(v) /\ Fit(u)
  <2>1. Fit(v)
    BY <1>1, <1>6, Compacted
  <2>2. Fit(u)
    BY <1>1, <1>2, <1>6, CutKeeps DEF Fit
  <2>3. QED
    BY <2>1, <2>2
<1> HIDE DEF u, v, k
<1>7. Fit(v) /\ Fit(u) => Fit(v \o u)
  BY <1>3, <1>4, JoinedSound DEF Fit
<1>8. v \o u \in Texts
  BY <1>3, <1>4, Joined
<1>9. QED
  BY <1>5, <1>6, <1>7, <1>8

\* What a descriptor reads is a text.
LEMMA ReadType ==
  ASSUME TextOK, NEW p \in Pub, NEW k \in Nat
  PROVE  Read(p, k) \in Texts
<1>1. <<>> \in Texts
  BY EmptySeq DEF Texts
<1>2. pfd[p] # NoFile => content[pfd[p]] \in Texts
  BY DEF TextOK
<1>3. QED
  BY <1>1, <1>2, Cut DEF Read

\* No step leaves the types.
LEMMA TextStep ==
  ASSUME TextOK, OpenInv, [NextRewrite]_rewriteVars
  PROVE  TextOK'
<1> USE DEF AGoto, PGoto
<1> ppc \in [Pub -> Steps] /\ apc \in [Row -> {"open", "half", "write", "done"}]
  BY DEF TextOK
<1>1. ASSUME NEW r \in Row, AppendOpen(r) PROVE TextOK'
  <2>1. name' \in FileInode \cup {NoFile}
    BY <1>1 DEF AppendOpen, TextOK, FileInode
  <2>2. afd' \in [Row -> FileInode \cup {NoFile}]
    BY <1>1, <2>1 DEF AppendOpen, TextOK
  <2>3. apc' \in [Row -> {"open", "half", "write", "done"}]
    BY <1>1 DEF AppendOpen
  <2>4. QED
    BY <1>1, <2>1, <2>2, <2>3 DEF AppendOpen, TextOK
<1>2. ASSUME NEW r \in Row, AppendHalf(r) PROVE TextOK'
  <2>1. content' \in [FileInode -> Texts]
    BY <1>2, HalfWrites, OnePiece, Written
  <2>2. apc' \in [Row -> {"open", "half", "write", "done"}]
    BY <1>2 DEF AppendHalf
  <2>3. QED
    BY <1>2, <2>1, <2>2 DEF AppendHalf, TextOK
<1>3. ASSUME NEW r \in Row, AppendWrite(r) PROVE TextOK'
  <2>1. content' \in [FileInode -> Texts]
    BY <1>3, WholeWrites, OnePiece, Written
  <2>2. apc' \in [Row -> {"open", "half", "write", "done"}]
    BY <1>3 DEF AppendWrite
  <2>3. late' \subseteq Row
    BY <1>3 DEF AppendWrite, TextOK
  <2>4. QED
    BY <1>3, <2>1, <2>2, <2>3 DEF AppendWrite, TextOK
<1>4. ASSUME NEW p \in Pub, TakeLock(p) PROVE TextOK'
  <2>1. taken' \in Nat
    BY <1>4 DEF TakeLock, TextOK
  <2>2. temps' \subseteq Pub
    BY <1>4 DEF TakeLock, TextOK
  <2>3. ppc' \in [Pub -> Steps]
    BY <1>4 DEF TakeLock, Steps
  <2>4. QED
    BY <1>4, <2>1, <2>2, <2>3 DEF TakeLock, TextOK
<1>5. ASSUME NEW p \in Pub, Settle(p) PROVE TextOK'
  <2>1. content' \in [FileInode -> Texts]
    BY <1>5, SettleWrites, Written DEF TextOK
  <2>2. ppc' \in [Pub -> Steps]
    BY <1>5 DEF Settle, Steps
  <2>3. QED
    BY <1>5, <2>1, <2>2 DEF Settle, TextOK
<1>6. ASSUME NEW p \in Pub, OpenReadable(p) PROVE TextOK'
  <2>1. ppc' \in [Pub -> Steps]
    BY <1>6 DEF OpenReadable, Steps
  <2>2. QED
    BY <1>6, <2>1 DEF OpenReadable, TextOK
<1>7. ASSUME NEW p \in Pub, FirstRead(p) PROVE TextOK'
  <2>1. ppc' \in [Pub -> Steps]
    BY <1>7 DEF FirstRead, Steps
  <2>2. before' \in [Pub -> Texts]
    BY <1>7, ReadType DEF FirstRead, TextOK
  <2>3. QED
    BY <1>7, <2>1, <2>2 DEF FirstRead, TextOK
<1>8. ASSUME NEW p \in Pub, SecondRead(p) PROVE TextOK'
  <2>1. ppc' \in [Pub -> Steps]
    BY <1>8 DEF SecondRead, Steps
  <2>2. carried' \in [Pub -> Texts]
    BY <1>8, ReadType DEF SecondRead, TextOK
  <2>3. QED
    BY <1>8, <2>1, <2>2 DEF SecondRead, TextOK
<1>9. ASSUME NEW p \in Pub, WriteTemp(p) PROVE TextOK'
  <2>1. ppc' \in [Pub -> Steps]
    BY <1>9 DEF WriteTemp, Steps
  <2>2. content' \in [FileInode -> Texts]
    BY <1>9, Replaced DEF WriteTemp, TextOK
  <2>3. temps' \subseteq Pub
    BY <1>9 DEF WriteTemp, TextOK
  <2>4. QED
    BY <1>9, <2>1, <2>2, <2>3 DEF WriteTemp, TextOK
<1>10. ASSUME NEW p \in Pub, CheckNonce(p) PROVE TextOK'
  <2>1. ppc' \in [Pub -> Steps]
    BY <1>10 DEF CheckNonce, Steps
  <2>2. temps' \subseteq Pub
    BY <1>10 DEF CheckNonce, TextOK
  <2>3. QED
    BY <1>10, <2>1, <2>2 DEF CheckNonce, TextOK
<1>11. ASSUME NEW p \in Pub, Rename(p) PROVE TextOK'
  <2>1. ppc' \in [Pub -> Steps]
    BY <1>11 DEF Rename, Steps
  <2>2. name' \in FileInode \cup {NoFile}
    BY <1>11 DEF Rename, TextOK, FileInode
  <2>3. QED
    BY <1>11, <2>1, <2>2 DEF Rename, TextOK
<1>12. ASSUME NEW p \in Pub, ReadTail(p) PROVE TextOK'
  <2>1. ppc' \in [Pub -> Steps]
    BY <1>12 DEF ReadTail, Steps
  <2>2. LateTail(p) \in Texts
    <3>1. Len(carried[p]) \in Nat
      BY TextOf DEF TextOK
    <3>2. QED
      BY <3>1, ReadType, WholeLinesOf DEF LateTail
  <2>3. tail' \in [Pub -> Texts]
    BY <1>12, <2>2 DEF ReadTail, TextOK
  <2>4. QED
    BY <1>12, <2>1, <2>3 DEF ReadTail, TextOK
<1>13. ASSUME NEW p \in Pub, CarryTail(p) PROVE TextOK'
  <2>1. ppc' \in [Pub -> Steps]
    BY <1>13 DEF CarryTail, Steps
  <2>2. content' \in [FileInode -> Texts]
    BY <1>13, TailWrites, Written
  <2>3. QED
    BY <1>13, <2>1, <2>2 DEF CarryTail, TextOK
<1>14. ASSUME NEW p \in Pub, Release(p) \/ Die(p) PROVE TextOK'
  <2>1. ppc' \in [Pub -> Steps]
    BY <1>14 DEF Release, Die, Steps
  <2>2. QED
    BY <1>14, <2>1 DEF Release, Die, TextOK
<1>15. CASE UNCHANGED rewriteVars
  BY <1>15 DEF rewriteVars, TextOK
<1>16. QED
  BY <1>1, <1>2, <1>3, <1>4, <1>5, <1>6, <1>7, <1>8, <1>9, <1>10, <1>11, <1>12, <1>13,
     <1>14, <1>15 DEF NextRewrite, Publish

\* A file is opened by name, and a replacement has none before its rename.
LEMMA OpenStep ==
  ASSUME TextOK, OpenInv, [NextRewrite]_rewriteVars
  PROVE  OpenInv'
<1> USE DEF AGoto, PGoto
<1> /\ ppc \in [Pub -> Steps] /\ apc \in [Row -> {"open", "half", "write", "done"}]
    /\ afd \in [Row -> FileInode \cup {NoFile}] /\ pfd \in [Pub -> FileInode \cup {NoFile}]
  BY DEF TextOK
<1>1. ASSUME NEW r \in Row, AppendOpen(r) PROVE OpenInv'
  <2>1. /\ name' = IF name = NoFile THEN "created" ELSE name
        /\ afd' = [afd EXCEPT ![r] = name'] /\ UNCHANGED <<ppc, pfd>>
        /\ apc' = [apc EXCEPT ![r] = IF r \in Large THEN "half" ELSE "write"]
    BY <1>1 DEF AppendOpen
  <2>2. name' # NoFile /\ \A p \in Pub : Hidden(p) => name' # p
    BY <2>1, PublishAssumption DEF OpenInv, NoFile
  <2>3. QED
    BY <2>1, <2>2 DEF OpenInv, Hidden
<1>2. ASSUME NEW r \in Row, AppendHalf(r) \/ AppendWrite(r) PROVE OpenInv'
  <2>1. UNCHANGED <<name, afd, ppc, pfd>>
    BY <1>2 DEF AppendHalf, AppendWrite
  <2>2. \/ apc' = [apc EXCEPT ![r] = "write"] /\ apc[r] = "half"
        \/ apc' = [apc EXCEPT ![r] = "done"]
    BY <1>2 DEF AppendHalf, AppendWrite
  <2>3. \A q \in Row : (apc'[q] = "half" => apc[q] = "half")
                    /\ (apc'[q] \in {"half", "write"} => apc[q] \in {"half", "write"})
    BY <2>2
  <2>4. QED
    BY <2>1, <2>3 DEF OpenInv, Hidden
<1>3. ASSUME NEW p \in Pub, TakeLock(p) \/ Settle(p) \/ FirstRead(p) \/ SecondRead(p)
             \/ WriteTemp(p) \/ CheckNonce(p) \/ ReadTail(p) \/ CarryTail(p) \/ Release(p) \/ Die(p)
      PROVE OpenInv'
  <2>1. UNCHANGED <<name, apc, afd, pfd>>
    BY <1>3 DEF TakeLock, Settle, FirstRead, SecondRead, WriteTemp, CheckNonce, ReadTail,
       CarryTail, Release, Die
  <2>2. /\ \A q \in Pub : q # p => ppc'[q] = ppc[q]
        /\ ppc'[p] \in {"tail", "carry"} => ppc[p] \in {"tail", "carry"}
    BY <1>3 DEF TakeLock, Settle, FirstRead, SecondRead, WriteTemp, CheckNonce, ReadTail,
       CarryTail, Release, Die
  <2>3. ppc'[p] \in {"tail", "carry", "release", "done", "dead"} \/ Hidden(p)
    BY <1>3 DEF TakeLock, Settle, FirstRead, SecondRead, WriteTemp, CheckNonce, ReadTail,
       CarryTail, Release, Die, Hidden
  <2>4. \A q \in Pub : Hidden(q)' => Hidden(q)
    BY <2>2, <2>3 DEF Hidden
  <2>5. \A q \in Pub : ppc'[q] \in {"tail", "carry"} => ppc[q] \in {"tail", "carry"}
    BY <2>2
  <2>6. QED
    BY <2>1, <2>4, <2>5 DEF OpenInv
<1>4. ASSUME NEW p \in Pub, OpenReadable(p) PROVE OpenInv'
  <2>1. /\ UNCHANGED <<name, apc, afd>> /\ pfd' = [pfd EXCEPT ![p] = name]
        /\ ppc[p] = "openread" /\ ppc' = [ppc EXCEPT ![p] = "read"]
    BY <1>4 DEF OpenReadable
  <2>2. \A q \in Pub : Hidden(q)' <=> Hidden(q)
    BY <2>1 DEF Hidden
  <2>3. QED
    BY <2>1, <2>2 DEF OpenInv
<1>5. ASSUME NEW p \in Pub, Rename(p) PROVE OpenInv'
  <2>1. /\ UNCHANGED <<apc, afd, pfd>>
        /\ \/ name' = p /\ ppc' = [ppc EXCEPT ![p] = "tail"]
           \/ name' = name /\ ppc' = [ppc EXCEPT ![p] = "release"]
    BY <1>5 DEF Rename
  <2>2. p # NoFile
    BY PublishAssumption
  <2>3. \A q \in Pub : Hidden(q)' => Hidden(q) /\ q # p
    BY <2>1 DEF Hidden
  <2>4. \A q \in Pub : ppc'[q] \in {"tail", "carry"} => name' # NoFile
    BY <2>1, <2>2 DEF OpenInv
  <2>5. QED
    BY <2>1, <2>3, <2>4 DEF OpenInv
<1>6. CASE UNCHANGED rewriteVars
  BY <1>6 DEF rewriteVars, OpenInv, Hidden
<1>7. QED
  BY <1>1, <1>2, <1>3, <1>4, <1>5, <1>6 DEF NextRewrite, Publish

\* What a piece more makes the last of a text.
LEMMA LastJoined ==
  ASSUME NEW t \in Texts, NEW x \in Piece
  PROVE  t \o <<x>> \in Texts /\ t \o <<x>> # <<>> /\ Last(t \o <<x>>) = x
<1>1. <<x>> \in Texts /\ Len(<<x>>) = 1 /\ <<x>>[1] = x /\ Len(t) \in Nat
  BY TextOf DEF Texts
<1> DEFINE u == <<x>>
<1> HIDE DEF u
<1>2. u \in Texts /\ Len(u) = 1 /\ u[1] = x
  BY <1>1 DEF u
<1>3. t \o u \in Texts /\ Len(t \o u) = Len(t) + 1 /\ (t \o u)[Len(t) + 1] = x
  <2>1. 1 \in 1..Len(u)
    BY <1>2
  <2>2. \A i \in 1..Len(u) : (t \o u)[Len(t) + i] = u[i]
    BY <1>2, Joined
  <2>3. (t \o u)[Len(t) + 1] = u[1]
    BY <2>1, <2>2
  <2>4. t \o u \in Texts /\ Len(t \o u) = Len(t) + Len(u)
    BY <1>2, Joined
  <2>5. QED
    BY <1>2, <2>3, <2>4
<1>4. Len(t \o u) # 0
  BY <1>1, <1>3
<1>5. t \o u # <<>>
  BY <1>3, <1>4, EmptySeq DEF Texts
<1>6. QED
  BY <1>3, <1>5 DEF Last, u

\* The second part of a line, behind the first, makes a whole line of it.
LEMMA SecondHalf ==
  ASSUME NEW t \in Texts, NEW r \in Row, t # <<>>, Last(t) = FirstHalf(r), Sound(t)
  PROVE  Fit(t \o <<Whole("append", r)>>)
<1> DEFINE x == Whole("append", r)
           u == t \o <<x>>
<1>1. x \in Piece /\ x.ends
  BY DEF Whole, Piece
<1>2. u \in Texts /\ u # <<>> /\ Last(u) = x /\ Len(t) \in Nat
  BY <1>1, LastJoined, TextOf
<1>3. ~EndsMidLine(u)
  BY <1>1, <1>2 DEF EndsMidLine
<1>4. t[Len(t)] = FirstHalf(r)
  BY DEF Last
<1>5. Len(u) = Len(t) + 1 /\ (\A i \in 1..Len(t) : u[i] = t[i]) /\ u[Len(t) + 1] = x
  <2>1. <<x>> \in Texts /\ Len(<<x>>) = 1 /\ <<x>>[1] = x /\ 1 \in 1..Len(<<x>>)
    BY <1>1 DEF Texts
  <2>2. QED
    BY <2>1, Joined
<1> HIDE DEF u
<1>6. ASSUME NEW i \in 1..Len(u), ~u[i].ends
      PROVE i = Len(u) \/ u[i + 1] = Whole("append", u[i].row)
  <2>1. i # Len(t) + 1
    BY <1>1, <1>5, <1>6
  <2>2. i \in 1..Len(t)
    BY <1>2, <1>5, <2>1
  <2>3. u[i] = t[i]
    BY <1>5, <2>2
  <2>4. CASE i = Len(t)
    <3>1. u[i] = FirstHalf(r)
      BY <1>4, <2>3, <2>4
    <3>2. u[i + 1] = Whole("append", r)
      BY <1>5, <2>4
    <3>3. QED
      BY <3>1, <3>2 DEF FirstHalf
  <2>5. CASE i # Len(t)
    <3>1. t[i + 1] = Whole("append", t[i].row)
      BY <1>6, <2>2, <2>3, <2>5 DEF Sound
    <3>2. i + 1 \in 1..Len(t)
      BY <1>2, <2>2, <2>5
    <3>3. u[i + 1] = t[i + 1]
      BY <1>5, <3>2
    <3>4. QED
      BY <2>3, <3>1, <3>3
  <2>6. QED
    BY <2>4, <2>5
<1>7. Sound(u)
  BY <1>6 DEF Sound
<1>8. QED
  BY <1>3, <1>7 DEF Fit, u

\* The first part is sound, and so are no lines at all.
LEMMA SmallTexts ==
  /\ <<>> \in Texts /\ Fit(<<>>)
  /\ \A r \in Row : Sound(<<FirstHalf(r)>>) /\ Fit(<<Whole("append", r)>>)
<1>1. <<>> \in Texts /\ Len(<<>>) = 0
  BY EmptySeq DEF Texts
<1>2. Fit(<<>>)
  BY <1>1 DEF Fit, Sound, EndsMidLine
<1>3. ASSUME NEW r \in Row PROVE Sound(<<FirstHalf(r)>>) /\ Fit(<<Whole("append", r)>>)
  <2>1. \A x : Len(<<x>>) = 1 /\ <<x>>[1] = x
    OBVIOUS
  <2>2. \A i \in 1..1 : i = 1
    OBVIOUS
  <2>3. \A x : Sound(<<x>>)
    BY <2>1, <2>2 DEF Sound
  <2>4. ~EndsMidLine(<<Whole("append", r)>>)
    BY <2>1 DEF EndsMidLine, Last, Whole
  <2>5. QED
    BY <2>3, <2>4 DEF Fit
<1>4. QED
  BY <1>1, <1>2, <1>3

\* What holds of a file while something is written on it.
FileInv == HalfInv /\ \A i \in FileInode : Sound(content[i])

\* Whole lines behind a text that does not end mid-line leave no half a line.
LEMMA LinesWritten ==
  ASSUME TextOK, OpenInv, FileInv, NEW i \in FileInode, NEW u \in Texts,
         ~EndsMidLine(content[i]), Fit(u),
         content' = [content EXCEPT ![i] = @ \o u], UNCHANGED afd,
         \A q \in Large : apc'[q] = "write" <=> apc[q] = "write"
  PROVE  FileInv'
<1>1. /\ content'[i] = content[i] \o u
      /\ \A j \in FileInode : j # i => content'[j] = content[j]
  BY Written
<1>2. content[i] \in Texts /\ Fit(content[i])
  BY DEF TextOK, FileInv, Fit
<1>3. Sound(content[i] \o u) /\ ~EndsMidLine(content[i] \o u)
  BY <1>2, JoinedSound DEF Fit
<1>4. ASSUME NEW q \in Large, apc'[q] = "write"
      PROVE content'[afd'[q]] # <<>> /\ Last(content'[afd'[q]]) = FirstHalf(q)
  <2>1. apc[q] = "write" /\ q \in Row
    BY <1>4, PublishAssumption
  <2>2. afd[q] \in FileInode
    BY <2>1 DEF OpenInv, TextOK
  <2>3. content[afd[q]] # <<>> /\ Last(content[afd[q]]) = FirstHalf(q)
    BY <2>1 DEF FileInv, HalfInv
  <2>4. EndsMidLine(content[afd[q]])
    BY <2>3 DEF EndsMidLine, FirstHalf
  <2>5. afd[q] # i
    BY <2>4
  <2>6. QED
    BY <1>1, <2>2, <2>3, <2>5
<1>5. ASSUME NEW j \in FileInode, EndsMidLine(content'[j]) PROVE Busy(j)'
  <2>1. j # i /\ content'[j] = content[j]
    BY <1>1, <1>3, <1>5
  <2>2. Busy(j)
    BY <1>5, <2>1 DEF FileInv, HalfInv
  <2>3. QED
    BY <2>2 DEF Busy
<1>6. \A j \in FileInode : Sound(content'[j])
  BY <1>1, <1>3 DEF FileInv
<1>7. HalfInv'
  BY <1>4, <1>5 DEF HalfInv
<1>8. QED
  BY <1>6, <1>7 DEF FileInv

\* The first part of a large row, where no write holds the file.
LEMMA HalfStep ==
  ASSUME TextOK, OpenInv, FileInv, NEW r \in Row, AppendHalf(r)
  PROVE  FileInv'
<1> DEFINE i == afd[r]
           u == <<FirstHalf(r)>>
<1>1. i \in FileInode /\ r \in Large /\ content' = [content EXCEPT ![i] = @ \o u]
  BY HalfWrites
<1>2. /\ apc[r] = "half" /\ ~Busy(i) /\ apc' = [apc EXCEPT ![r] = "write"] /\ UNCHANGED afd
  BY DEF AppendHalf, AGoto
<1>3. u \in Texts /\ Sound(u) /\ FirstHalf(r) \in Piece
  BY OnePiece, SmallTexts DEF FirstHalf, Piece
<1>4. content[i] \in Texts /\ Fit(content[i])
  BY <1>1, <1>2 DEF TextOK, FileInv, HalfInv, Fit
<1>5. Sound(content[i] \o u) /\ content[i] \o u # <<>> /\ Last(content[i] \o u) = FirstHalf(r)
  BY <1>3, <1>4, JoinedSound, LastJoined
<1>6. /\ content'[i] = content[i] \o u
      /\ \A j \in FileInode : j # i => content'[j] = content[j]
  <2> HIDE DEF i, u
  <2> QED
    BY <1>1, <1>3, Written
<1> HIDE DEF u
<1>7. \A q \in Row : q # r => apc'[q] = apc[q]
  BY <1>2 DEF TextOK
<1>8. apc'[r] = "write"
  BY <1>2 DEF TextOK
<1>9. ASSUME NEW q \in Large, apc'[q] = "write"
      PROVE content'[afd'[q]] # <<>> /\ Last(content'[afd'[q]]) = FirstHalf(q)
  <2>1. CASE q = r
    BY <1>2, <1>5, <1>6, <2>1
  <2>2. CASE q # r
    <3>1. apc[q] = "write" /\ q \in Row
      BY <1>7, <1>9, <2>2, PublishAssumption
    <3>2. afd[q] \in FileInode /\ afd[q] # i
      BY <1>2, <3>1 DEF OpenInv, TextOK, Busy
    <3>3. content[afd[q]] # <<>> /\ Last(content[afd[q]]) = FirstHalf(q)
      BY <3>1 DEF FileInv, HalfInv
    <3>4. QED
      BY <1>2, <1>6, <3>2, <3>3
  <2>3. QED
    BY <2>1, <2>2
<1>10. ASSUME NEW j \in FileInode, EndsMidLine(content'[j]) PROVE Busy(j)'
  <2>1. CASE j = i
    BY <1>1, <1>2, <1>8, <2>1 DEF Busy
  <2>2. CASE j # i
    <3>1. Busy(j)
      BY <1>6, <1>10, <2>2 DEF FileInv, HalfInv
    <3>2. PICK q \in Large : apc[q] = "write" /\ afd[q] = j
      BY <3>1 DEF Busy
    <3>3. q \in Row /\ q # r
      BY <1>2, <3>2, PublishAssumption
    <3>4. apc'[q] = "write" /\ afd'[q] = j
      BY <1>2, <1>7, <3>2, <3>3
    <3>5. QED
      BY <3>4 DEF Busy
  <2>3. QED
    BY <2>1, <2>2
<1>11. \A j \in FileInode : Sound(content'[j])
  BY <1>5, <1>6 DEF FileInv
<1>12. HalfInv'
  BY <1>9, <1>10 DEF HalfInv
<1>13. QED
  BY <1>11, <1>12 DEF FileInv

\* The second part of a large row, or the whole of another.
LEMMA WholeStep ==
  ASSUME TextOK, OpenInv, FileInv, NEW r \in Row, AppendWrite(r)
  PROVE  FileInv'
<1> DEFINE i == afd[r]
           u == <<Whole("append", r)>>
<1>1. i \in FileInode /\ content' = [content EXCEPT ![i] = @ \o u]
  BY WholeWrites
<1>2. /\ apc[r] = "write" /\ apc' = [apc EXCEPT ![r] = "done"] /\ UNCHANGED afd
      /\ r \notin Large => ~Busy(i)
  BY DEF AppendWrite, AGoto
<1>3. u \in Texts /\ Fit(u) /\ content[i] \in Texts
  BY <1>1, OnePiece, SmallTexts DEF TextOK
<1>4. \A q \in Row : q # r => apc'[q] = apc[q]
  BY <1>2 DEF TextOK
<1>5. CASE r \notin Large
  <2>1. ~EndsMidLine(content[i])
    BY <1>1, <1>2, <1>5 DEF FileInv, HalfInv
  <2>2. \A q \in Large : apc'[q] = "write" <=> apc[q] = "write"
    BY <1>4, <1>5, PublishAssumption
  <2> HIDE DEF i, u
  <2>3. QED
    BY <1>1, <1>2, <1>3, <2>1, <2>2, LinesWritten
<1>6. CASE r \in Large
  <2>1. content[i] # <<>> /\ Last(content[i]) = FirstHalf(r) /\ Sound(content[i])
    BY <1>1, <1>2, <1>6 DEF FileInv, HalfInv
  <2>2. Fit(content[i] \o u)
    BY <1>3, <2>1, SecondHalf
  <2>3. /\ content'[i] = content[i] \o u
        /\ \A j \in FileInode : j # i => content'[j] = content[j]
    <3> HIDE DEF i, u
    <3> QED
      BY <1>1, <1>3, Written
  <2> HIDE DEF u
  <2>4. ASSUME NEW q \in Large, apc'[q] = "write"
        PROVE content'[afd'[q]] # <<>> /\ Last(content'[afd'[q]]) = FirstHalf(q)
    <3>1. q \in Row /\ q # r
      BY <1>2, <2>4, PublishAssumption DEF TextOK
    <3>2. apc[q] = "write" /\ afd[q] \in FileInode
      BY <1>4, <2>4, <3>1 DEF OpenInv, TextOK
    <3>3. content[afd[q]] # <<>> /\ Last(content[afd[q]]) = FirstHalf(q)
      BY <3>2 DEF FileInv, HalfInv
    <3>4. FirstHalf(q) # FirstHalf(r)
      BY <3>1 DEF FirstHalf
    <3>5. afd[q] # i
      BY <2>1, <3>3, <3>4
    <3>6. QED
      BY <1>2, <2>3, <3>2, <3>3, <3>5
  <2>5. ASSUME NEW j \in FileInode, EndsMidLine(content'[j]) PROVE Busy(j)'
    <3>1. j # i
      BY <2>2, <2>3, <2>5 DEF Fit
    <3>2. Busy(j)
      BY <2>3, <2>5, <3>1 DEF FileInv, HalfInv
    <3>3. PICK q \in Large : apc[q] = "write" /\ afd[q] = j
      BY <3>2 DEF Busy
    <3>4. q \in Row /\ q # r
      BY <3>1, <3>3, PublishAssumption
    <3>5. apc'[q] = "write" /\ afd'[q] = j
      BY <1>2, <1>4, <3>3, <3>4
    <3>6. QED
      BY <3>5 DEF Busy
  <2>6. \A j \in FileInode : Sound(content'[j])
    BY <2>2, <2>3 DEF FileInv, Fit
  <2>7. HalfInv'
    BY <2>4, <2>5 DEF HalfInv
  <2>8. QED
    BY <2>6, <2>7 DEF FileInv
<1>7. QED
  BY <1>5, <1>6

\* No step of an append or of a sync cuts a line.
LEMMA FileStep ==
  ASSUME LineInv, [NextRewrite]_rewriteVars
  PROVE  FileInv'
<1> TextOK /\ OpenInv /\ FileInv /\ SoundInv
  BY DEF LineInv, SoundInv, FileInv
<1> apc \in [Row -> {"open", "half", "write", "done"}] /\ Large \subseteq Row
  BY PublishAssumption DEF TextOK
<1>1. ASSUME NEW r \in Row, AppendOpen(r) PROVE FileInv'
  <2>1. /\ apc[r] = "open" /\ UNCHANGED content /\ afd' = [afd EXCEPT ![r] = name']
        /\ apc' = [apc EXCEPT ![r] = IF r \in Large THEN "half" ELSE "write"]
    BY <1>1 DEF AppendOpen, AGoto
  <2>2. \A q \in Large : apc'[q] = "write" <=> apc[q] = "write"
    BY <2>1
  <2>3. \A q \in Large : apc[q] = "write" => afd'[q] = afd[q]
    BY <2>1 DEF TextOK
  <2>4. \A i \in FileInode : Busy(i) => Busy(i)'
    BY <2>2, <2>3 DEF Busy
  <2>5. QED
    BY <2>1, <2>2, <2>3, <2>4 DEF FileInv, HalfInv
<1>2. ASSUME NEW p \in Pub, Settle(p) PROVE FileInv'
  <2>1. UNCHANGED <<apc, afd>>
    BY <1>2 DEF Settle
  <2>2. CASE UNCHANGED content
    BY <2>1, <2>2 DEF FileInv, HalfInv, Busy
  <2>3. CASE /\ name \in FileInode /\ ~EndsMidLine(content[name])
             /\ content' = [content EXCEPT ![name] = @ \o Marks(content[name])]
    <3>1. content[name] \in Texts
      BY <2>3 DEF TextOK
    <3>2. UnsentIn(content[name]) \cap Stored \in SUBSET Row
      BY DEF UnsentIn, AppendsIn
    <3>3. Marks(content[name]) \in Texts /\ Fit(Marks(content[name]))
      BY <3>2, LinesOf DEF Marks
    <3>4. QED
      BY <2>1, <2>3, <3>3, LinesWritten
  <2>4. QED
    BY <1>2, <2>2, <2>3, SettleWrites
<1>3. ASSUME NEW p \in Pub, WriteTemp(p) PROVE FileInv'
  <2>1. /\ ppc[p] = "temp" /\ UNCHANGED <<apc, afd>>
        /\ content' = [content EXCEPT ![p] = Replacement(p)] /\ p \in FileInode
    BY <1>3 DEF WriteTemp, FileInode
  <2>2. Fit(Replacement(p))
    BY <2>1, Replaced DEF SoundInv
  <2>3. \A r \in Row : afd[r] # p
    BY <2>1 DEF OpenInv, Hidden
  <2>4. content'[p] = Replacement(p) /\ \A j \in FileInode : j # p => content'[j] = content[j]
    BY <2>1 DEF TextOK
  <2>5. ASSUME NEW q \in Large, apc'[q] = "write"
        PROVE content'[afd'[q]] # <<>> /\ Last(content'[afd'[q]]) = FirstHalf(q)
    <3>1. afd[q] \in FileInode /\ apc[q] = "write"
      BY <2>1, <2>5 DEF OpenInv, TextOK
    <3>2. QED
      BY <2>1, <2>3, <2>4, <3>1 DEF FileInv, HalfInv
  <2>6. ASSUME NEW j \in FileInode, EndsMidLine(content'[j]) PROVE Busy(j)'
    <3>1. j # p
      BY <2>2, <2>4, <2>6 DEF Fit
    <3>2. Busy(j)
      BY <2>4, <2>6, <3>1 DEF FileInv, HalfInv
    <3>3. QED
      BY <2>1, <3>2 DEF Busy
  <2>7. \A j \in FileInode : Sound(content'[j])
    BY <2>2, <2>4 DEF FileInv, Fit
  <2>8. QED
    BY <2>5, <2>6, <2>7 DEF FileInv, HalfInv
<1>4. ASSUME NEW p \in Pub, CarryTail(p) PROVE FileInv'
  <2>1. UNCHANGED <<apc, afd>> /\ (tail[p] # <<>> => ~Busy(name))
    BY <1>4 DEF CarryTail
  <2>2. CASE tail[p] = <<>>
    <3>1. UNCHANGED content
      BY <1>4, <2>2, TailWrites
    <3>2. QED
      BY <2>1, <3>1 DEF FileInv, HalfInv, Busy
  <2>3. CASE tail[p] # <<>>
    <3>1. /\ name \in FileInode /\ tail[p] \in Texts
          /\ content' = [content EXCEPT ![name] = @ \o tail[p]]
      BY <1>4, TailWrites
    <3>2. ~EndsMidLine(content[name])
      BY <2>1, <2>3, <3>1 DEF FileInv, HalfInv
    <3>3. Fit(tail[p])
      BY DEF SoundInv
    <3>4. QED
      BY <2>1, <3>1, <3>2, <3>3, LinesWritten
  <2>4. QED
    BY <2>2, <2>3
<1>5. ASSUME NEW p \in Pub, TakeLock(p) \/ OpenReadable(p) \/ FirstRead(p) \/ SecondRead(p)
             \/ CheckNonce(p) \/ Rename(p) \/ ReadTail(p) \/ Release(p) \/ Die(p)
      PROVE FileInv'
  <2>1. UNCHANGED <<content, apc, afd>>
    BY <1>5 DEF TakeLock, OpenReadable, FirstRead, SecondRead, CheckNonce, Rename, ReadTail,
       Release, Die
  <2>2. QED
    BY <2>1 DEF FileInv, HalfInv, Busy
<1>6. CASE UNCHANGED rewriteVars
  BY <1>6 DEF rewriteVars, FileInv, HalfInv, Busy
<1>7. QED
  BY <1>1, <1>2, <1>3, <1>4, <1>5, <1>6, HalfStep, WholeStep DEF NextRewrite, Publish

\* What a descriptor reads of a sound file is sound.
LEMMA ReadSound ==
  ASSUME TextOK, FileInv, NEW p \in Pub, NEW k \in Nat
  PROVE  Sound(Read(p, k))
<1>1. CASE pfd[p] = NoFile
  BY <1>1, SmallTexts DEF Read, Fit
<1>2. CASE pfd[p] # NoFile
  <2>1. content[pfd[p]] \in Texts /\ Sound(content[pfd[p]])
    BY <1>2 DEF TextOK, FileInv
  <2>2. QED
    BY <1>2, <2>1, CutKeeps DEF Read
<1>3. QED
  BY <1>1, <1>2

\* What a publisher goes on with ends with a whole line.
LEMMA TakenStep ==
  ASSUME LineInv, [NextRewrite]_rewriteVars
  PROVE  /\ \A p \in Pub : ppc'[p] \in {"reread", "temp"} => Fit(before'[p])
         /\ \A p \in Pub : ppc'[p] = "temp" => Fit(carried'[p])
         /\ \A p \in Pub : Fit(tail'[p])
<1> DEFINE Good == /\ \A p \in Pub : ppc[p] \in {"reread", "temp"} => Fit(before[p])
                   /\ \A p \in Pub : ppc[p] = "temp" => Fit(carried[p])
                   /\ \A p \in Pub : Fit(tail[p])
<1> SUFFICES Good'
  OBVIOUS
<1> Good /\ TextOK /\ FileInv
  BY DEF LineInv, SoundInv, FileInv
<1> /\ ppc \in [Pub -> Steps]
    /\ before \in [Pub -> Texts] /\ carried \in [Pub -> Texts] /\ tail \in [Pub -> Texts]
  BY DEF TextOK
<1>1. ASSUME NEW p \in Pub, FirstRead(p) PROVE Good'
  <2>1. /\ before' = [before EXCEPT ![p] = Read(p, 0)] /\ UNCHANGED <<carried, tail>>
        /\ ppc' = [ppc EXCEPT ![p] = IF EndsMidLine(Read(p, 0)) THEN "release" ELSE "reread"]
    BY <1>1 DEF FirstRead, PGoto
  <2>2. Sound(Read(p, 0))
    BY ReadSound
  <2>3. ppc'[p] = "reread" => Fit(before'[p])
    BY <2>1, <2>2 DEF Fit
  <2>4. ppc'[p] # "temp"
    BY <2>1
  <2>5. \A q \in Pub : q # p => ppc'[q] = ppc[q] /\ before'[q] = before[q]
    BY <2>1
  <2>6. QED
    BY <2>1, <2>3, <2>4, <2>5
<1>2. ASSUME NEW p \in Pub, SecondRead(p) PROVE Good'
  <2>1. /\ carried' = [carried EXCEPT ![p] = Read(p, 0)] /\ UNCHANGED <<before, tail>>
        /\ ppc[p] = "reread"
        /\ ppc' = [ppc EXCEPT ![p] = IF Unpublishable(p, Read(p, 0)) THEN "release" ELSE "temp"]
    BY <1>2 DEF SecondRead, PGoto
  <2>2. Sound(Read(p, 0))
    BY ReadSound
  <2>3. ppc'[p] = "temp" => Fit(carried'[p])
    BY <2>1, <2>2 DEF Fit, Unpublishable
  <2>4. \A q \in Pub : q # p => ppc'[q] = ppc[q] /\ carried'[q] = carried[q]
    BY <2>1
  <2>5. QED
    BY <2>1, <2>3, <2>4
<1>3. ASSUME NEW p \in Pub, ReadTail(p) PROVE Good'
  <2>1. /\ tail' = [tail EXCEPT ![p] = LateTail(p)] /\ UNCHANGED <<before, carried>>
        /\ ppc' = [ppc EXCEPT ![p] = "carry"]
    BY <1>3 DEF ReadTail, PGoto
  <2>2. Len(carried[p]) \in Nat
    BY TextOf
  <2>3. Fit(LateTail(p))
    BY <2>2, ReadType, ReadSound, WholeLinesOf DEF LateTail
  <2>4. \A q \in Pub : ppc'[q] \in {"reread", "temp"} => ppc'[q] = ppc[q]
    BY <2>1
  <2>5. QED
    BY <2>1, <2>3, <2>4
<1>4. ASSUME NEW p \in Pub, TakeLock(p) \/ Settle(p) \/ OpenReadable(p) \/ WriteTemp(p)
             \/ CheckNonce(p) \/ Rename(p) \/ CarryTail(p) \/ Release(p) \/ Die(p)
      PROVE Good'
  <2>1. UNCHANGED <<before, carried, tail>>
    BY <1>4 DEF TakeLock, Settle, OpenReadable, WriteTemp, CheckNonce, Rename, CarryTail,
       Release, Die
  <2>2. \A q \in Pub : ppc'[q] \in {"reread", "temp"} => ppc'[q] = ppc[q]
    BY <1>4 DEF TakeLock, Settle, OpenReadable, WriteTemp, CheckNonce, Rename, CarryTail,
       Release, Die, PGoto
  <2>3. QED
    BY <2>1, <2>2
<1>5. ASSUME NEW r \in Row, AppendOpen(r) \/ AppendHalf(r) \/ AppendWrite(r) PROVE Good'
  BY <1>5 DEF AppendOpen, AppendHalf, AppendWrite
<1>6. CASE UNCHANGED rewriteVars
  BY <1>6 DEF rewriteVars
<1>7. QED
  BY <1>1, <1>2, <1>3, <1>4, <1>5, <1>6 DEF NextRewrite, Publish

\* At first the early appends are in the file, a line each.
LEMMA LineInit ==
  ASSUME InitRewrite
  PROVE  LineInv
<1>1. Lines("append", Early) \in Texts /\ Fit(Lines("append", Early))
  BY LinesOf, PublishAssumption
<1>2. <<>> \in Texts /\ Fit(<<>>)
  BY SmallTexts
<1>3. TextOK
  BY <1>1, <1>2, PublishAssumption DEF InitRewrite, TextOK, Steps, FileInode
<1>4. OpenInv
  BY PublishAssumption DEF InitRewrite, OpenInv, NoFile
<1>5. \A i \in FileInode : Fit(content[i])
  BY <1>1, <1>2 DEF InitRewrite
<1>6. \A r \in Large : apc[r] # "write"
  BY PublishAssumption DEF InitRewrite
<1>7. HalfInv
  BY <1>5, <1>6 DEF HalfInv, Fit
<1>8. SoundInv
  BY <1>2, <1>5 DEF SoundInv, InitRewrite, Fit
<1>9. QED
  BY <1>3, <1>4, <1>7, <1>8 DEF LineInv

\* No step leaves the invariant of the lines.
LEMMA LineStep ==
  ASSUME LineInv, [NextRewrite]_rewriteVars
  PROVE  LineInv'
<1>1. TextOK' /\ OpenInv'
  BY TextStep, OpenStep DEF LineInv
<1>2. HalfInv' /\ \A i \in FileInode : Sound(content'[i])
  BY FileStep DEF FileInv
<1>3. SoundInv'
  BY <1>2, TakenStep DEF SoundInv
<1>4. QED
  BY <1>1, <1>2, <1>3 DEF LineInv

\* The invariant of the lines, however often the lock is taken from a live holder.
THEOREM LinesKept == SpecRewrite => []LineInv
<1>1. InitRewrite => LineInv
  BY LineInit
<1>2. LineInv /\ [NextRewrite]_rewriteVars => LineInv'
  BY LineStep
<1>3. QED
  BY <1>1, <1>2, PTL DEF SpecRewrite

\* synclock.ts:543-549: no line is cut in half or fused onto another, whoever
\* holds the lock, however many appends and rewrites overlap.
THEOREM NoLineIsFused == SpecRewrite => []NoFusedLine
<1>1. LineInv => NoFusedLine
  <2>1. SUFFICES ASSUME LineInv PROVE NoFusedLine
    OBVIOUS
  <2>2. CASE name = NoFile
    BY <2>2 DEF NoFusedLine, Text
  <2>3. CASE name # NoFile
    <3>1. content[name] \in Texts /\ Sound(content[name])
      BY <2>1, <2>3 DEF LineInv, TextOK, SoundInv
    <3>2. DOMAIN content[name] = 1..Len(content[name])
      BY <3>1, TextOf
    <3>3. QED
      BY <2>3, <3>1, <3>2 DEF NoFusedLine, Text, Sound
  <2>4. QED
    BY <2>2, <2>3
<1>2. QED
  BY <1>1, LinesKept, PTL

-----------------------------------------------------------------------------
(* No row is lost while the lock is kept *)

KInv == RowInv /\ HolderInv /\ ReadInv /\ TailInv

\* What a replacement is made of two reads of a file, and what it leaves out: the
\* settled rows of the first read, and what has come behind the second.
LEMMA Replacing ==
  ASSUME NEW t \in Texts, NEW c \in Texts, NEW b \in Texts, Begins(t, c), Begins(c, b),
         Once(t), SentIn(From(t, Len(b))) = {}, SentIn(b) \subseteq AppendsIn(b)
  PROVE  /\ Once(Rewritten(b) \o From(c, Len(b)))
         /\ SentIn(Rewritten(b) \o From(c, Len(b))) = {}
         /\ AppendsIn(Rewritten(b) \o From(c, Len(b))) = AppendsIn(c) \ SentIn(b)
         /\ AppendsIn(c) \cap AppendsIn(From(t, Len(c))) = {}
         /\ AppendsIn(t) = AppendsIn(c) \cup AppendsIn(From(t, Len(c)))
         /\ SentIn(From(t, Len(c))) = {} /\ SentIn(t) = SentIn(b)
<1> DEFINE k == Rewritten(b)
           v == From(c, Len(b))
           w == From(t, Len(c))
<1>1. /\ t = c \o w /\ w \in Texts
      /\ AppendsIn(t) = AppendsIn(c) \cup AppendsIn(w) /\ SentIn(t) = SentIn(c) \cup SentIn(w)
      /\ Once(c) /\ AppendsIn(c) \cap AppendsIn(w) = {}
  BY Parts, PartsRows
<1>2. /\ v \in Texts
      /\ AppendsIn(c) = AppendsIn(b) \cup AppendsIn(v) /\ SentIn(c) = SentIn(b) \cup SentIn(v)
      /\ Once(b) /\ AppendsIn(b) \cap AppendsIn(v) = {}
  BY <1>1, Parts, PartsRows
<1> HIDE DEF w
<1>3. From(t, Len(b)) = v \o w
  <2>1. From(c \o w, Len(b)) = From(c, Len(b)) \o w
    BY <1>1, WrittenOn
  <2>2. QED
    BY <1>1, <2>1
<1> HIDE DEF v
<1>4. SentIn(v) = {} /\ SentIn(w) = {}
  BY <1>1, <1>2, <1>3, JoinedRows
<1>5. /\ k \in Texts /\ AppendsIn(k) = AppendsIn(b) \ SentIn(b) /\ SentIn(k) = {} /\ Once(k)
  BY <1>2, Compacted
<1>6. Once(v)
  BY <1>1, CutKeeps, TextOf DEF v
<1> HIDE DEF k
<1>7. AppendsIn(k \o v) = AppendsIn(k) \cup AppendsIn(v) /\ SentIn(k \o v) = SentIn(k) \cup SentIn(v)
  BY <1>2, <1>5, JoinedRows
<1>8. AppendsIn(k \o v) = AppendsIn(c) \ SentIn(b)
  BY <1>2, <1>5, <1>7
<1>9. Once(k \o v)
  BY <1>2, <1>5, <1>6, JoinedOnce
<1>10. SentIn(k \o v) = {}
  BY <1>4, <1>5, <1>7
<1>11. SentIn(t) = SentIn(b)
  BY <1>1, <1>2, <1>4
<1>12. QED
  BY <1>1, <1>4, <1>8, <1>9, <1>10, <1>11 DEF k, v, w

\* While the lock is kept the publisher that takes a step is the only one under way.
LEMMA OneAtWork ==
  ASSUME TextOK, HolderInv, NEW p \in Pub, Publish(p) \/ Die(p), LockKept'
  PROVE  \A q \in Pub : q # p => ~Active(q) /\ ~Active(q)' /\ ppc'[q] = ppc[q]
<1>1. ppc \in [Pub -> Steps]
  BY DEF TextOK
<1>2. \A q \in Pub : q # p => ppc'[q] = ppc[q]
  BY <1>1 DEF Publish, TakeLock, Settle, OpenReadable, FirstRead, SecondRead, WriteTemp,
     CheckNonce, Rename, ReadTail, CarryTail, Release, Die, PGoto
<1>3. CASE TakeLock(p)
  <2>1. owner \notin Alive
    BY <1>3 DEF TakeLock, LockKept, TextOK
  <2>2. \A q \in Pub : ~Active(q)
    BY <2>1 DEF HolderInv, Alive, Active
  <2>3. QED
    BY <1>2, <2>2 DEF Active
<1>4. CASE ~TakeLock(p)
  <2>1. Active(p)
    BY <1>4 DEF Publish, Settle, OpenReadable, FirstRead, SecondRead, WriteTemp, CheckNonce,
       Rename, ReadTail, CarryTail, Release, Die, Active
  <2>2. \A q \in Pub : q # p => ~Active(q)
    BY <2>1 DEF HolderInv
  <2>3. QED
    BY <1>2, <2>2 DEF Active
<1>5. QED
  BY <1>3, <1>4

\* The holder is the one the lock names.
LEMMA HolderStep ==
  ASSUME TextOK, HolderInv, [NextRewrite]_rewriteVars, LockKept'
  PROVE  HolderInv'
<1>1. ppc \in [Pub -> Steps]
  BY DEF TextOK
<1>2. ASSUME NEW p \in Pub, Publish(p) \/ Die(p) PROVE HolderInv'
  <2>1. \A q \in Pub : q # p => ~Active(q)'
    BY <1>2, OneAtWork
  <2>2. CASE TakeLock(p)
    BY <2>1, <2>2 DEF HolderInv, TakeLock
  <2>3. CASE Release(p) \/ Die(p)
    <3>1. ~Active(p)'
      BY <1>1, <2>3 DEF Release, Die, PGoto, Active
    <3>2. QED
      BY <2>1, <3>1 DEF HolderInv
  <2>4. CASE ~TakeLock(p) /\ ~Release(p) /\ ~Die(p)
    <3>1. owner' = owner /\ Active(p)
      BY <1>2, <2>4 DEF Publish, Settle, OpenReadable, FirstRead, SecondRead, WriteTemp,
         CheckNonce, Rename, ReadTail, CarryTail, Active
    <3>2. QED
      BY <2>1, <3>1 DEF HolderInv
  <2>5. QED
    BY <2>2, <2>3, <2>4
<1>3. ASSUME NEW r \in Row, AppendOpen(r) \/ AppendHalf(r) \/ AppendWrite(r) PROVE HolderInv'
  BY <1>3 DEF AppendOpen, AppendHalf, AppendWrite, HolderInv, Active
<1>4. CASE UNCHANGED rewriteVars
  BY <1>4 DEF rewriteVars, HolderInv, Active
<1>5. QED
  BY <1>2, <1>3, <1>4 DEF NextRewrite

\* A text written on a file adds its rows to those of that file.
LEMMA RowsGrow ==
  ASSUME TextOK, NEW i \in FileInode, NEW u \in Texts, content' = [content EXCEPT ![i] = @ \o u]
  PROVE  /\ AppendsIn(content'[i]) = AppendsIn(content[i]) \cup AppendsIn(u)
         /\ SentIn(content'[i]) = SentIn(content[i]) \cup SentIn(u)
         /\ \A j \in FileInode : j # i => content'[j] = content[j]
<1>1. content[i] \in Texts
  BY DEF TextOK
<1>2. content'[i] = content[i] \o u /\ \A j \in FileInode : j # i => content'[j] = content[j]
  BY Written
<1>3. QED
  BY <1>1, <1>2, JoinedRows

\* A text of rows that are in no file yet is written on one.
LEMMA RowsWritten ==
  ASSUME TextOK, RowInv, NEW i \in FileInode, NEW u \in Texts,
         content' = [content EXCEPT ![i] = @ \o u],
         Once(u), AppendsIn(content[i]) \cap AppendsIn(u) = {},
         \A r \in Row : apc[r] = "done" => apc'[r] = "done",
         \A r \in AppendsIn(u) : apc'[r] = "done",
         SentIn(u) \subseteq Stored \cap AppendsIn(content[i])
  PROVE  RowInv'
<1>1. /\ content'[i] = content[i] \o u /\ content[i] \in Texts
      /\ \A j \in FileInode : j # i => content'[j] = content[j]
  BY Written DEF TextOK
<1>2. /\ AppendsIn(content'[i]) = AppendsIn(content[i]) \cup AppendsIn(u)
      /\ SentIn(content'[i]) = SentIn(content[i]) \cup SentIn(u)
  BY RowsGrow
<1>3. Once(content'[i])
  BY <1>1, JoinedOnce DEF RowInv
<1>4. \A j \in FileInode : AppendsIn(content[j]) \subseteq Row
  BY DEF AppendsIn
<1>5. ASSUME NEW j \in FileInode
      PROVE /\ Once(content'[j])
            /\ \A r \in AppendsIn(content'[j]) : apc'[r] = "done"
            /\ SentIn(content'[j]) \subseteq Stored \cap AppendsIn(content'[j])
  <2>1. CASE j = i
    BY <1>2, <1>3, <1>4, <2>1 DEF RowInv
  <2>2. CASE j # i
    BY <1>1, <1>4, <2>2 DEF RowInv
  <2>3. QED
    BY <2>1, <2>2
<1>6. QED
  BY <1>5 DEF RowInv

\* The replacement of a publisher that has read twice, and what it was made from.
LEMMA ReplacementOf ==
  ASSUME TextOK, KInv, name # NoFile, NEW p \in Pub, HasReread(p)
  PROVE  /\ Once(Replacement(p)) /\ SentIn(Replacement(p)) = {}
         /\ AppendsIn(Replacement(p)) = AppendsIn(carried[p]) \ SentIn(before[p])
         /\ AppendsIn(carried[p]) \cap AppendsIn(From(content[name], Len(carried[p]))) = {}
         /\ AppendsIn(content[name])
              = AppendsIn(carried[p]) \cup AppendsIn(From(content[name], Len(carried[p])))
         /\ SentIn(From(content[name], Len(carried[p]))) = {}
         /\ SentIn(content[name]) = SentIn(before[p])
         /\ Once(From(content[name], Len(carried[p])))
<1>1. HasRead(p) /\ name \in FileInode
  BY DEF HasRead, HasReread, TextOK
<1>2. content[name] \in Texts /\ carried[p] \in Texts /\ before[p] \in Texts
  BY <1>1 DEF TextOK
<1>3. Once(content[name])
  BY <1>1 DEF KInv, RowInv
<1>4. /\ Begins(content[name], carried[p]) /\ Begins(carried[p], before[p])
      /\ SentIn(From(content[name], Len(before[p]))) = {}
      /\ SentIn(before[p]) \subseteq AppendsIn(before[p])
  BY <1>1 DEF KInv, ReadInv
<1>5. Once(From(content[name], Len(carried[p])))
  BY <1>2, <1>3, TextOf, CutKeeps
<1>6. QED
  BY <1>2, <1>3, <1>4, <1>5, Replacing DEF Replacement

\* Rows come into a file when they are written, and come once.
LEMMA RowStep ==
  ASSUME LineInv, KInv, name # NoFile, [NextRewrite]_rewriteVars, LockKept'
  PROVE  RowInv'
<1> TextOK /\ OpenInv /\ RowInv
  BY DEF LineInv, KInv
<1> name \in FileInode /\ apc \in [Row -> {"open", "half", "write", "done"}]
  BY DEF TextOK
<1>0. \A i \in FileInode : AppendsIn(content[i]) \subseteq Row
  BY DEF AppendsIn
<1>1. ASSUME NEW r \in Row, AppendHalf(r) PROVE RowInv'
  <2>1. /\ afd[r] \in FileInode /\ <<FirstHalf(r)>> \in Texts
        /\ content' = [content EXCEPT ![afd[r]] = @ \o <<FirstHalf(r)>>]
    BY <1>1, HalfWrites, OnePiece
  <2>2. apc[r] = "half" /\ apc' = [apc EXCEPT ![r] = "write"]
    BY <1>1 DEF AppendHalf, AGoto
  <2>3. \A q \in Row : apc[q] = "done" => apc'[q] = "done"
    BY <2>2
  <2>4. /\ Once(<<FirstHalf(r)>>) /\ AppendsIn(<<FirstHalf(r)>>) = {}
        /\ SentIn(<<FirstHalf(r)>>) = {}
    BY OnePiece
  <2> DEFINE u == <<FirstHalf(r)>>
  <2> HIDE DEF u
  <2>5. QED
    BY <2>1, <2>3, <2>4, RowsWritten DEF u
<1>2. ASSUME NEW r \in Row, AppendWrite(r) PROVE RowInv'
  <2>1. /\ afd[r] \in FileInode /\ <<Whole("append", r)>> \in Texts
        /\ content' = [content EXCEPT ![afd[r]] = @ \o <<Whole("append", r)>>]
    BY <1>2, WholeWrites, OnePiece
  <2>2. apc[r] = "write" /\ apc' = [apc EXCEPT ![r] = "done"]
    BY <1>2 DEF AppendWrite, AGoto
  <2>3. (\A q \in Row : apc[q] = "done" => apc'[q] = "done") /\ apc'[r] = "done"
    BY <2>2
  <2>4. r \notin AppendsIn(content[afd[r]])
    BY <2>1, <2>2 DEF RowInv
  <2>5. /\ Once(<<Whole("append", r)>>) /\ AppendsIn(<<Whole("append", r)>>) = {r}
        /\ SentIn(<<Whole("append", r)>>) = {}
    BY OnePiece
  <2> DEFINE u == <<Whole("append", r)>>
  <2>6. u \in Texts /\ Once(u) /\ AppendsIn(u) = {r} /\ SentIn(u) = {}
        /\ content' = [content EXCEPT ![afd[r]] = @ \o u]
    BY <2>1, <2>5
  <2> HIDE DEF u
  <2>7. /\ AppendsIn(content[afd[r]]) \cap AppendsIn(u) = {}
        /\ \A q \in AppendsIn(u) : apc'[q] = "done"
        /\ SentIn(u) \subseteq Stored \cap AppendsIn(content[afd[r]])
    BY <2>3, <2>4, <2>6
  <2>8. QED
    BY <2>1, <2>3, <2>6, <2>7, RowsWritten
<1>3. ASSUME NEW p \in Pub, Settle(p) PROVE RowInv'
  <2>1. apc' = apc
    BY <1>3 DEF Settle
  <2>2. CASE UNCHANGED content
    BY <2>1, <2>2 DEF RowInv
  <2>3. CASE content' = [content EXCEPT ![name] = @ \o Marks(content[name])]
    <3> DEFINE u == Marks(content[name])
    <3>1. UnsentIn(content[name]) \cap Stored \in SUBSET Row
      BY DEF UnsentIn, AppendsIn
    <3>2. /\ u \in Texts /\ Once(u) /\ AppendsIn(u) = {}
          /\ SentIn(u) = UnsentIn(content[name]) \cap Stored
      BY <3>1, LinesOf DEF Marks
    <3>3. SentIn(u) \subseteq Stored \cap AppendsIn(content[name])
      BY <3>2 DEF UnsentIn
    <3> HIDE DEF u
    <3>4. QED
      BY <2>1, <2>3, <3>2, <3>3, RowsWritten DEF u
  <2>4. QED
    BY <1>3, <2>2, <2>3, SettleWrites
<1>4. ASSUME NEW p \in Pub, WriteTemp(p) PROVE RowInv'
  <2>1. /\ ppc[p] = "temp" /\ apc' = apc /\ p \in FileInode
        /\ content' = [content EXCEPT ![p] = Replacement(p)]
    BY <1>4 DEF WriteTemp, FileInode
  <2>2. content'[p] = Replacement(p) /\ \A j \in FileInode : j # p => content'[j] = content[j]
    BY <2>1 DEF TextOK
  <2>3. /\ Once(Replacement(p)) /\ SentIn(Replacement(p)) = {}
        /\ AppendsIn(Replacement(p)) \subseteq AppendsIn(content[name])
    BY <2>1, ReplacementOf DEF HasReread
  <2>4. ASSUME NEW j \in FileInode
        PROVE /\ Once(content'[j])
              /\ \A r \in AppendsIn(content'[j]) : apc'[r] = "done"
              /\ SentIn(content'[j]) \subseteq Stored \cap AppendsIn(content'[j])
    <3>1. CASE j = p
      BY <2>1, <2>2, <2>3, <3>1 DEF RowInv
    <3>2. CASE j # p
      BY <2>1, <2>2, <3>2 DEF RowInv
    <3>3. QED
      BY <3>1, <3>2
  <2>5. QED
    BY <2>4 DEF RowInv
<1>5. ASSUME NEW p \in Pub, CarryTail(p) PROVE RowInv'
  <2>1. tail[p] \in Texts /\ content' = [content EXCEPT ![name] = @ \o tail[p]]
    BY <1>5, TailWrites
  <2>2. ppc[p] = "carry" /\ apc' = apc
    BY <1>5 DEF CarryTail
  <2>3. /\ name = p /\ Once(tail[p]) /\ SentIn(tail[p]) = {}
        /\ \A r \in AppendsIn(tail[p]) : apc[r] = "done"
        /\ AppendsIn(content[p]) \cap AppendsIn(tail[p]) = {}
    BY <2>2 DEF KInv, TailInv, Renamed, Rest
  <2>4. QED
    BY <2>1, <2>2, <2>3, RowsWritten
<1>6. ASSUME NEW r \in Row, AppendOpen(r) PROVE RowInv'
  <2>1. UNCHANGED content /\ apc[r] = "open"
        /\ apc' = [apc EXCEPT ![r] = IF r \in Large THEN "half" ELSE "write"]
    BY <1>6 DEF AppendOpen, AGoto
  <2>2. \A q \in Row : apc[q] = "done" => apc'[q] = "done"
    BY <2>1
  <2>3. QED
    BY <1>0, <2>1, <2>2 DEF RowInv
<1>7. ASSUME NEW p \in Pub, TakeLock(p) \/ OpenReadable(p) \/ FirstRead(p) \/ SecondRead(p)
             \/ CheckNonce(p) \/ Rename(p) \/ ReadTail(p) \/ Release(p) \/ Die(p)
      PROVE RowInv'
  <2>1. UNCHANGED <<content, apc>>
    BY <1>7 DEF TakeLock, OpenReadable, FirstRead, SecondRead, CheckNonce, Rename, ReadTail,
       Release, Die
  <2>2. QED
    BY <2>1 DEF RowInv
<1>8. CASE UNCHANGED rewriteVars
  BY <1>8 DEF rewriteVars, RowInv
<1>9. QED
  BY <1>1, <1>2, <1>3, <1>4, <1>5, <1>6, <1>7, <1>8 DEF NextRewrite, Publish

\* What is read of a file stays at its beginning when something without a mark is
\* written on a file.
LEMMA ReadsWritten ==
  ASSUME TextOK, ReadInv, name \in FileInode, NEW i \in FileInode, NEW u \in Texts,
         content' = [content EXCEPT ![i] = @ \o u], SentIn(u) = {},
         \A p \in Pub : Hidden(p) => i # p,
         UNCHANGED <<name, ppc, pfd, before, carried>>
  PROVE  ReadInv'
<1>1. /\ content'[i] = content[i] \o u /\ content[i] \in Texts
      /\ \A j \in FileInode : j # i => content'[j] = content[j]
  BY Written DEF TextOK
<1>2. ASSUME NEW p \in Pub, HasRead(p)
      PROVE /\ Begins(content'[name], before[p])
            /\ SentIn(From(content'[name], Len(before[p]))) = {}
  <2>1. /\ Begins(content[name], before[p]) /\ SentIn(From(content[name], Len(before[p]))) = {}
        /\ before[p] \in Texts /\ content[name] \in Texts
    BY <1>2 DEF ReadInv, TextOK
  <2>2. CASE name = i
    <3>1. /\ Begins(content[i] \o u, before[p])
          /\ From(content[i] \o u, Len(before[p])) = From(content[i], Len(before[p])) \o u
      BY <1>1, <2>1, <2>2, WrittenOn
    <3>2. From(content[i], Len(before[p])) \in Texts
      BY <1>1, <2>1, TextOf, Cut
    <3>3. SentIn(From(content[i], Len(before[p])) \o u)
            = SentIn(From(content[i], Len(before[p]))) \cup SentIn(u)
      BY <3>2, JoinedRows
    <3>4. QED
      BY <1>1, <2>1, <2>2, <3>1, <3>3
  <2>3. CASE name # i
    BY <1>1, <2>1, <2>3
  <2>4. QED
    BY <2>2, <2>3
<1>3. ASSUME NEW p \in Pub, HasReread(p) PROVE Begins(content'[name], carried[p])
  <2>1. /\ Begins(content[name], carried[p])
        /\ carried[p] \in Texts /\ content[name] \in Texts
    BY <1>3 DEF ReadInv, TextOK
  <2>2. CASE name = i
    BY <1>1, <2>1, <2>2, WrittenOn
  <2>3. CASE name # i
    BY <1>1, <2>1, <2>3
  <2>4. QED
    BY <2>2, <2>3
<1>4. ASSUME NEW p \in Pub, ppc[p] \in {"nonce", "rename"} PROVE content'[p] = Replacement(p)
  <2>1. p # i /\ p \in FileInode
    BY <1>4 DEF Hidden, FileInode
  <2>2. QED
    BY <1>1, <1>4, <2>1 DEF ReadInv
<1>5. ASSUME NEW p \in Pub
      PROVE /\ Reading(p)' <=> Reading(p)
            /\ HasRead(p)' <=> HasRead(p)
            /\ HasReread(p)' <=> HasReread(p)
            /\ Replacement(p)' = Replacement(p)
  BY DEF Reading, HasRead, HasReread, Replacement
<1>6. ASSUME NEW p \in Pub
      PROVE /\ Reading(p)' => pfd'[p] = name'
            /\ HasRead(p)' => /\ Begins(content'[name'], before'[p])
                              /\ SentIn(From(content'[name'], Len(before'[p]))) = {}
                              /\ SentIn(before'[p]) \subseteq AppendsIn(before'[p])
            /\ HasReread(p)' => /\ Begins(content'[name'], carried'[p])
                                /\ Begins(carried'[p], before'[p])
            /\ ppc'[p] \in {"nonce", "rename"} => content'[p] = Replacement(p)'
  BY <1>2, <1>3, <1>4, <1>5 DEF ReadInv
<1>7. QED
  BY <1>6 DEF ReadInv

\* A publisher reads the file the name is bound to, and nobody else rewrites it.
LEMMA ReadStep ==
  ASSUME LineInv, KInv, name # NoFile, name' # NoFile, [NextRewrite]_rewriteVars, LockKept'
  PROVE  ReadInv'
<1> TextOK /\ OpenInv /\ RowInv /\ ReadInv /\ HolderInv
  BY DEF LineInv, KInv
<1> /\ name \in FileInode /\ content \in [FileInode -> Texts]
    /\ ppc \in [Pub -> Steps] /\ pfd \in [Pub -> FileInode \cup {NoFile}]
    /\ before \in [Pub -> Texts] /\ carried \in [Pub -> Texts]
  BY DEF TextOK
<1>1. ASSUME NEW r \in Row, AppendHalf(r) PROVE ReadInv'
  <2>1. /\ afd[r] \in FileInode /\ <<FirstHalf(r)>> \in Texts /\ SentIn(<<FirstHalf(r)>>) = {}
        /\ content' = [content EXCEPT ![afd[r]] = @ \o <<FirstHalf(r)>>]
    BY <1>1, HalfWrites, OnePiece
  <2>2. \A p \in Pub : Hidden(p) => afd[r] # p
    BY DEF OpenInv
  <2>3. UNCHANGED <<name, ppc, pfd, before, carried>>
    BY <1>1 DEF AppendHalf
  <2> DEFINE u == <<FirstHalf(r)>>
  <2> HIDE DEF u
  <2>4. QED
    BY <2>1, <2>2, <2>3, ReadsWritten DEF u
<1>2. ASSUME NEW r \in Row, AppendWrite(r) PROVE ReadInv'
  <2>1. /\ afd[r] \in FileInode /\ <<Whole("append", r)>> \in Texts
        /\ SentIn(<<Whole("append", r)>>) = {}
        /\ content' = [content EXCEPT ![afd[r]] = @ \o <<Whole("append", r)>>]
    BY <1>2, WholeWrites, OnePiece
  <2>2. \A p \in Pub : Hidden(p) => afd[r] # p
    BY DEF OpenInv
  <2>3. UNCHANGED <<name, ppc, pfd, before, carried>>
    BY <1>2 DEF AppendWrite
  <2> DEFINE u == <<Whole("append", r)>>
  <2> HIDE DEF u
  <2>4. QED
    BY <2>1, <2>2, <2>3, ReadsWritten DEF u
<1>3. ASSUME NEW r \in Row, AppendOpen(r) PROVE ReadInv'
  BY <1>3 DEF AppendOpen, ReadInv, Reading, HasRead, HasReread, Replacement
<1>4. CASE UNCHANGED rewriteVars
  BY <1>4 DEF rewriteVars, ReadInv, Reading, HasRead, HasReread, Replacement
<1>5. ASSUME NEW p \in Pub, Publish(p) \/ Die(p) PROVE ReadInv'
  <2>1. \A q \in Pub : q # p => ~Active(q)'
    BY <1>5, OneAtWork
  <2>2. \A q \in Pub : Reading(q)' \/ HasRead(q)' \/ HasReread(q)' \/ ppc'[q] \in {"nonce", "rename"}
                         => q = p
    BY <2>1 DEF Active, Reading, HasRead, HasReread
  <2> DEFINE Goal == /\ Reading(p)' => pfd'[p] = name'
                     /\ HasRead(p)' => /\ Begins(content'[name'], before'[p])
                                       /\ SentIn(From(content'[name'], Len(before'[p]))) = {}
                                       /\ SentIn(before'[p]) \subseteq AppendsIn(before'[p])
                     /\ HasReread(p)' => /\ Begins(content'[name'], carried'[p])
                                         /\ Begins(carried'[p], before'[p])
                     /\ ppc'[p] \in {"nonce", "rename"} => content'[p] = Replacement(p)'
  <2> SUFFICES Goal
    BY <2>2 DEF ReadInv
  <2>3. CASE TakeLock(p) \/ Settle(p) \/ Rename(p) \/ ReadTail(p) \/ CarryTail(p) \/ Release(p)
             \/ Die(p)
    <3>1. ppc'[p] \in {"settle", "openread", "tail", "carry", "release", "done", "dead"}
      BY <2>3 DEF TakeLock, Settle, Rename, ReadTail, CarryTail, Release, Die, PGoto
    <3>2. QED
      BY <3>1 DEF Reading, HasRead, HasReread
  <2>4. CASE OpenReadable(p)
    <3>1. ppc'[p] = "read" /\ pfd'[p] = name /\ name' = name
      BY <2>4 DEF OpenReadable, PGoto
    <3>2. QED
      BY <3>1 DEF HasRead, HasReread
  <2>5. CASE FirstRead(p)
    <3>1. /\ ppc[p] = "read" /\ ppc'[p] \in {"release", "reread"} /\ UNCHANGED <<name, content, pfd>>
          /\ before'[p] = Read(p, 0)
      BY <2>5 DEF FirstRead, PGoto
    <3>2. pfd[p] = name
      BY <3>1 DEF ReadInv, Reading
    <3>3. before'[p] = content[name]
      BY <3>1, <3>2, AllOf DEF Read
    <3>4. Begins(content[name], content[name])
      BY BeginsItself
    <3> DEFINE t == content[name]
    <3>5. t \in Texts /\ Len(t) \in Nat
      BY TextOf
    <3>6. SentIn(From(t, Len(t))) = {}
      <4> HIDE DEF t
      <4>1. From(t, Len(t)) \in Texts /\ Len(From(t, Len(t))) = 0
        BY <3>5, Cut
      <4>2. \A q : q \notin SentIn(From(t, Len(t)))
        BY <4>1, RowsOf
      <4>3. QED
        BY <4>2
    <3>7. SentIn(t) \subseteq AppendsIn(t)
      BY DEF RowInv
    <3>8. QED
      BY <3>1, <3>2, <3>3, <3>4, <3>6, <3>7 DEF HasReread
  <2>6. CASE SecondRead(p)
    <3>1. /\ ppc[p] = "reread" /\ ppc'[p] \in {"release", "temp"}
          /\ UNCHANGED <<name, content, pfd, before>> /\ carried'[p] = Read(p, 0)
      BY <2>6 DEF SecondRead, PGoto
    <3>2. /\ pfd[p] = name /\ Begins(content[name], before[p])
          /\ SentIn(From(content[name], Len(before[p]))) = {}
          /\ SentIn(before[p]) \subseteq AppendsIn(before[p])
      BY <3>1 DEF ReadInv, Reading, HasRead
    <3>3. carried'[p] = content[name]
      BY <3>1, <3>2, AllOf DEF Read
    <3>4. Begins(content[name], content[name])
      BY BeginsItself
    <3>5. QED
      BY <3>1, <3>2, <3>3, <3>4
  <2>7. CASE WriteTemp(p)
    <3>1. /\ ppc[p] = "temp" /\ UNCHANGED <<name, pfd, before, carried>>
          /\ content' = [content EXCEPT ![p] = Replacement(p)] /\ p \in FileInode
      BY <2>7 DEF WriteTemp, FileInode
    <3>2. name # p
      BY <3>1 DEF OpenInv, Hidden
    <3>3. content'[name] = content[name] /\ content'[p] = Replacement(p)
      BY <3>1, <3>2
    <3>4. Replacement(p)' = Replacement(p)
      BY <3>1 DEF Replacement
    <3>5. Reading(p) /\ HasRead(p) /\ HasReread(p)
      BY <3>1 DEF Reading, HasRead, HasReread
    <3>6. QED
      BY <3>1, <3>3, <3>4, <3>5 DEF ReadInv
  <2>8. CASE CheckNonce(p)
    <3>1. ppc[p] = "nonce" /\ UNCHANGED <<name, content, pfd, before, carried>>
      BY <2>8 DEF CheckNonce
    <3>2. Replacement(p)' = Replacement(p)
      BY <3>1 DEF Replacement
    <3>3. Reading(p) /\ HasRead(p) /\ HasReread(p)
      BY <3>1 DEF Reading, HasRead, HasReread
    <3>4. QED
      BY <3>1, <3>2, <3>3 DEF ReadInv
  <2>9. QED
    BY <1>5, <2>3, <2>4, <2>5, <2>6, <2>7, <2>8 DEF Publish
<1>6. QED
  BY <1>1, <1>2, <1>3, <1>4, <1>5 DEF NextRewrite

\* What is still to be put back grows by what is written behind the second read.
LEMMA RestGrows ==
  ASSUME TextOK, TailInv, NEW p \in Pub, Renamed(p), NEW i \in FileInode, NEW u \in Texts,
         content' = [content EXCEPT ![i] = @ \o u], UNCHANGED <<ppc, pfd, carried, tail>>
  PROVE  /\ Rest(p) \in Texts
         /\ Rest(p)' = IF ppc[p] = "tail" /\ i = pfd[p] THEN Rest(p) \o u ELSE Rest(p)
         /\ ppc[p] = "tail" => Begins(content'[pfd[p]], carried[p])
<1>1. /\ content'[i] = content[i] \o u
      /\ \A j \in FileInode : j # i => content'[j] = content[j]
  BY Written
<1>2. pfd[p] \in FileInode /\ (ppc[p] = "tail" => Begins(content[pfd[p]], carried[p]))
  BY DEF TailInv
<1>3. content[pfd[p]] \in Texts /\ carried[p] \in Texts /\ tail[p] \in Texts
  BY <1>2 DEF TextOK
<1>4. From(content[pfd[p]], Len(carried[p])) \in Texts
  BY <1>3, TextOf, Cut
<1>5. Rest(p)' = IF ppc[p] = "tail" THEN From(content'[pfd[p]], Len(carried[p])) ELSE tail[p]
  BY DEF Rest
<1>6. CASE ppc[p] = "tail" /\ i = pfd[p]
  <2>1. /\ Begins(content[i] \o u, carried[p])
        /\ From(content[i] \o u, Len(carried[p])) = From(content[i], Len(carried[p])) \o u
    BY <1>2, <1>3, <1>6, WrittenOn
  <2>2. Rest(p) = From(content[i], Len(carried[p]))
    BY <1>6 DEF Rest
  <2>3. Rest(p)' = Rest(p) \o u
    BY <1>1, <1>5, <1>6, <2>1, <2>2
  <2>4. Begins(content'[pfd[p]], carried[p])
    BY <1>1, <1>6, <2>1
  <2>5. QED
    BY <1>4, <1>6, <2>2, <2>3, <2>4
<1>7. CASE ~(ppc[p] = "tail" /\ i = pfd[p])
  <2>1. ppc[p] = "tail" => content'[pfd[p]] = content[pfd[p]]
    BY <1>1, <1>2, <1>7
  <2>2. QED
    BY <1>2, <1>3, <1>4, <1>5, <1>7, <2>1 DEF Rest
<1>8. QED
  BY <1>6, <1>7

\* What one publisher behind its rename still owes.
Behind(p) ==
    /\ name = p /\ pfd[p] \in FileInode \ {p}
    /\ ppc[p] = "tail" => Begins(content[pfd[p]], carried[p])
    /\ Once(Rest(p)) /\ SentIn(Rest(p)) = {}
    /\ \A r \in AppendsIn(Rest(p)) : apc[r] = "done"
    /\ AppendsIn(content[p]) \cap AppendsIn(Rest(p)) = {}
    /\ Owed \subseteq AppendsIn(content[p]) \cup AppendsIn(Rest(p))

\* The first part of a row is no row, and owes nothing.
LEMMA TailOfHalf ==
  ASSUME TextOK, OpenInv, TailInv, name # NoFile, NEW r \in Row, AppendHalf(r)
  PROVE  TailInv'
<1> DEFINE u == <<FirstHalf(r)>>
           i == afd[r]
<1>1. /\ i \in FileInode /\ u \in Texts /\ content' = [content EXCEPT ![i] = @ \o u]
      /\ Once(u) /\ AppendsIn(u) = {} /\ SentIn(u) = {}
  BY HalfWrites, OnePiece
<1>2. /\ apc[r] = "half" /\ apc' = [apc EXCEPT ![r] = "write"]
      /\ UNCHANGED <<name, ppc, pfd, carried, tail, late>>
  BY DEF AppendHalf, AGoto
<1> HIDE DEF u, i
<1>3. \A q \in Row : apc'[q] = "done" <=> apc[q] = "done"
  BY <1>2 DEF TextOK
<1>4. Owed' = Owed
  BY <1>2, <1>3 DEF Owed
<1>5. \A j \in FileInode : AppendsIn(content'[j]) = AppendsIn(content[j])
  BY <1>1, RowsGrow
<1>6. ASSUME NEW p \in Pub, Renamed(p)' PROVE Behind(p)'
  <2>1. Renamed(p) /\ p \in FileInode
    BY <1>2, <1>6 DEF Renamed, FileInode
  <2>2. Behind(p)
    BY <2>1 DEF TailInv, Behind
  <2>3. /\ Rest(p) \in Texts
        /\ Rest(p)' = Rest(p) \/ Rest(p)' = Rest(p) \o u
        /\ ppc[p] = "tail" => Begins(content'[pfd[p]], carried[p])
    BY <1>1, <1>2, <2>1, RestGrows
  <2>4. /\ Once(Rest(p) \o u) /\ AppendsIn(Rest(p) \o u) = AppendsIn(Rest(p))
        /\ SentIn(Rest(p) \o u) = {}
    <3>1. Once(Rest(p)) /\ SentIn(Rest(p)) = {} /\ AppendsIn(Rest(p)) \cap AppendsIn(u) = {}
      BY <1>1, <2>2 DEF Behind
    <3>2. Once(Rest(p) \o u)
      BY <1>1, <2>3, <3>1, JoinedOnce
    <3>3. /\ AppendsIn(Rest(p) \o u) = AppendsIn(Rest(p)) \cup AppendsIn(u)
          /\ SentIn(Rest(p) \o u) = SentIn(Rest(p)) \cup SentIn(u)
      BY <1>1, <2>3, JoinedRows
    <3>4. QED
      BY <1>1, <3>1, <3>2, <3>3
  <2>5. /\ Once(Rest(p)') /\ AppendsIn(Rest(p)') = AppendsIn(Rest(p)) /\ SentIn(Rest(p)') = {}
    BY <2>2, <2>3, <2>4 DEF Behind
  <2>6. \A q \in AppendsIn(Rest(p)) : apc'[q] = "done"
    BY <1>3, <2>2 DEF Behind, AppendsIn
  <2>7. QED
    BY <1>2, <1>4, <1>5, <2>1, <2>2, <2>3, <2>5, <2>6 DEF Behind
<1>7. ~Carrying' => Owed' \subseteq AppendsIn(content'[name'])
  <2>1. name \in FileInode
    BY DEF TextOK
  <2>2. Carrying' <=> Carrying
    BY <1>2 DEF Carrying, Renamed
  <2>3. QED
    BY <1>2, <1>4, <1>5, <2>1, <2>2 DEF TailInv
<1>8. QED
  BY <1>6, <1>7 DEF TailInv, Behind

\* A row is written on the file of that name, or behind a read that will find it.
LEMMA TailOfWhole ==
  ASSUME TextOK, OpenInv, RowInv, HolderInv, TailInv, name # NoFile, NEW r \in Row, AppendWrite(r)
  PROVE  TailInv'
<1> DEFINE u == <<Whole("append", r)>>
           i == afd[r]
<1>1. /\ i \in FileInode /\ u \in Texts /\ content' = [content EXCEPT ![i] = @ \o u]
      /\ Once(u) /\ AppendsIn(u) = {r} /\ SentIn(u) = {}
  BY WholeWrites, OnePiece
<1>2. /\ apc[r] = "write" /\ apc' = [apc EXCEPT ![r] = "done"]
      /\ UNCHANGED <<name, ppc, pfd, carried, tail>>
      /\ late' = IF Unrecovered(r) THEN late \cup {r} ELSE late
  BY DEF AppendWrite, AGoto
<1>3. Unrecovered(r) <=> i # name /\ \A p \in Pub : pfd[p] = i => ppc[p] # "tail"
  BY DEF Unrecovered
<1> HIDE DEF u, i
<1>4. apc'[r] = "done" /\ \A q \in Row : q # r => apc'[q] = apc[q]
  BY <1>2 DEF TextOK
<1>5. Owed' \subseteq Owed \cup {r}
  BY <1>2, <1>4 DEF Owed
<1>6. r \in Owed' => i = name \/ \E p \in Pub : pfd[p] = i /\ ppc[p] = "tail"
  BY <1>2, <1>3 DEF Owed
<1>7. /\ AppendsIn(content'[i]) = AppendsIn(content[i]) \cup {r}
      /\ \A j \in FileInode : j # i => AppendsIn(content'[j]) = AppendsIn(content[j])
  BY <1>1, RowsGrow
<1>8. \A j \in FileInode : r \notin AppendsIn(content[j])
  BY <1>2 DEF RowInv
<1>9. ASSUME NEW p \in Pub, Renamed(p)' PROVE Behind(p)'
  <2>1. Renamed(p) /\ p \in FileInode /\ Active(p)
    BY <1>2, <1>9 DEF Renamed, FileInode, Active
  <2>2. Behind(p)
    BY <2>1 DEF TailInv, Behind
  <2>3. /\ Rest(p) \in Texts
        /\ Rest(p)' = IF ppc[p] = "tail" /\ i = pfd[p] THEN Rest(p) \o u ELSE Rest(p)
        /\ ppc[p] = "tail" => Begins(content'[pfd[p]], carried[p])
    BY <1>1, <1>2, <2>1, RestGrows
  <2>4. r \notin AppendsIn(Rest(p))
    BY <1>2, <2>2 DEF Behind
  <2>5. /\ Once(Rest(p) \o u) /\ AppendsIn(Rest(p) \o u) = AppendsIn(Rest(p)) \cup {r}
        /\ SentIn(Rest(p) \o u) = {}
    BY <1>1, <2>2, <2>3, <2>4, JoinedOnce, JoinedRows DEF Behind
  <2>6. /\ Once(Rest(p)') /\ SentIn(Rest(p)') = {}
        /\ AppendsIn(Rest(p)') = IF ppc[p] = "tail" /\ i = pfd[p]
                                 THEN AppendsIn(Rest(p)) \cup {r} ELSE AppendsIn(Rest(p))
    BY <2>2, <2>3, <2>5 DEF Behind
  <2>7. \A q \in AppendsIn(Rest(p)') : apc'[q] = "done"
    <3>1. \A q \in AppendsIn(Rest(p)) : q \in Row /\ apc[q] = "done"
      BY <2>2 DEF Behind, AppendsIn
    <3>2. QED
      BY <1>4, <2>6, <3>1
  <2>8. pfd[p] # p
    BY <2>2 DEF Behind
  <2>9. AppendsIn(content'[p]) \cap AppendsIn(Rest(p)') = {}
    <3>1. AppendsIn(content[p]) \cap AppendsIn(Rest(p)) = {}
      BY <2>2 DEF Behind
    <3>2. CASE i = p
      BY <1>7, <2>4, <2>6, <2>8, <3>1, <3>2
    <3>3. CASE i # p
      BY <1>7, <1>8, <2>1, <2>6, <3>1, <3>3
    <3>4. QED
      BY <3>2, <3>3
  <2>10. Owed' \subseteq AppendsIn(content'[p]) \cup AppendsIn(Rest(p)')
    <3>1. Owed \subseteq AppendsIn(content'[p]) \cup AppendsIn(Rest(p)')
      BY <1>7, <2>1, <2>2, <2>6 DEF Behind
    <3>2. ASSUME r \in Owed' PROVE r \in AppendsIn(content'[p]) \cup AppendsIn(Rest(p)')
      <4>1. CASE i = name
        BY <1>7, <2>2, <4>1 DEF Behind
      <4>2. CASE \E q \in Pub : pfd[q] = i /\ ppc[q] = "tail"
        <5>1. PICK q \in Pub : pfd[q] = i /\ ppc[q] = "tail"
          BY <4>2
        <5>2. q = p
          BY <2>1, <5>1 DEF HolderInv, Active
        <5>3. QED
          BY <2>6, <5>1, <5>2
      <4>3. QED
        BY <1>6, <3>2, <4>1, <4>2
    <3>3. QED
      BY <1>5, <3>1, <3>2
  <2>11. name' = p /\ pfd'[p] \in FileInode \ {p}
    BY <1>2, <2>2 DEF Behind
  <2>12. ppc'[p] = "tail" => Begins(content'[pfd'[p]], carried'[p])
    BY <1>2, <2>3
  <2>13. QED
    BY <2>6, <2>7, <2>9, <2>10, <2>11, <2>12 DEF Behind
<1>10. ~Carrying' => Owed' \subseteq AppendsIn(content'[name'])
  <2>1. name \in FileInode
    BY DEF TextOK
  <2>2. Carrying' <=> Carrying
    BY <1>2 DEF Carrying, Renamed
  <2>3. ASSUME ~Carrying PROVE Owed' \subseteq AppendsIn(content'[name])
    <3>1. Owed \subseteq AppendsIn(content[name])
      BY <2>3 DEF TailInv
    <3>2. r \in Owed' => i = name
      BY <1>6, <2>3 DEF Carrying, Renamed
    <3>3. QED
      BY <1>5, <1>7, <2>1, <3>1, <3>2
  <2>4. QED
    BY <1>2, <2>2, <2>3
<1>11. QED
  BY <1>9, <1>10 DEF TailInv, Behind

\* Between its rename and the tail a publisher is the only one under way, and what
\* the replacement left out is behind the second read.
LEMMA TailStep ==
  ASSUME ~DiesLate, LineInv, KInv, name # NoFile, [NextRewrite]_rewriteVars, LockKept'
  PROVE  TailInv'
<1> TextOK /\ OpenInv /\ RowInv /\ ReadInv /\ HolderInv /\ TailInv
  BY DEF LineInv, KInv
<1> /\ name \in FileInode /\ content \in [FileInode -> Texts]
    /\ ppc \in [Pub -> Steps] /\ pfd \in [Pub -> FileInode \cup {NoFile}]
    /\ carried \in [Pub -> Texts] /\ tail \in [Pub -> Texts]
    /\ apc \in [Row -> {"open", "half", "write", "done"}]
  BY DEF TextOK
<1>1. ASSUME NEW r \in Row, AppendOpen(r) PROVE TailInv'
  <2>1. /\ apc[r] = "open" /\ apc' = [apc EXCEPT ![r] = IF r \in Large THEN "half" ELSE "write"]
        /\ UNCHANGED <<name, content, ppc, pfd, carried, tail, late>>
    BY <1>1 DEF AppendOpen, AGoto
  <2>2. \A q \in Row : apc'[q] = "done" <=> apc[q] = "done"
    BY <2>1
  <2>3. Owed' = Owed
    BY <2>1, <2>2 DEF Owed
  <2>4. \A p \in Pub : Rest(p)' = Rest(p) /\ (Renamed(p)' <=> Renamed(p))
    BY <2>1 DEF Rest, Renamed
  <2>5. \A p \in Pub : AppendsIn(Rest(p)) \subseteq Row
    BY DEF AppendsIn
  <2>6. Carrying' <=> Carrying
    BY <2>4 DEF Carrying
  <2>7. ASSUME NEW p \in Pub, Renamed(p)' PROVE Behind(p)'
    <3>1. Behind(p)
      BY <2>4, <2>7 DEF TailInv, Behind
    <3>2. QED
      BY <2>1, <2>2, <2>3, <2>4, <2>5, <3>1 DEF Behind
  <2>8. ~Carrying' => Owed' \subseteq AppendsIn(content'[name'])
    BY <2>1, <2>3, <2>6 DEF TailInv
  <2>9. QED
    BY <2>7, <2>8 DEF TailInv, Behind
<1>2. CASE UNCHANGED rewriteVars
  <2>1. /\ \A p \in Pub : Rest(p)' = Rest(p) /\ (Renamed(p)' <=> Renamed(p))
        /\ Owed' = Owed
    BY <1>2 DEF rewriteVars, Rest, Renamed, Owed
  <2>2. Carrying' <=> Carrying
    BY <2>1 DEF Carrying
  <2>3. QED
    BY <1>2, <2>1, <2>2 DEF rewriteVars, TailInv
<1>3. ASSUME NEW p \in Pub, Publish(p) \/ Die(p) PROVE TailInv'
  <2>1. \A q \in Pub : q # p => ~Renamed(q) /\ ~Renamed(q)'
    BY <1>3, OneAtWork DEF Active, Renamed
  <2>2. Owed' = Owed
    <3>1. UNCHANGED <<apc, late>>
      BY <1>3 DEF Publish, TakeLock, Settle, OpenReadable, FirstRead, SecondRead, WriteTemp,
         CheckNonce, Rename, ReadTail, CarryTail, Release, Die
    <3>2. QED
      BY <3>1 DEF Owed
  <2>3. CASE ~Renamed(p) /\ ~Renamed(p)' /\ name' = name
             /\ AppendsIn(content[name]) \subseteq AppendsIn(content'[name])
    <3>1. ~Carrying /\ ~Carrying'
      BY <2>1, <2>3 DEF Carrying
    <3>2. \A q \in Pub : ~Renamed(q)'
      BY <2>1, <2>3
    <3>3. Owed' \subseteq AppendsIn(content'[name'])
      BY <2>2, <2>3, <3>1 DEF TailInv
    <3>4. QED
      BY <3>2, <3>3 DEF TailInv
  <2>4. CASE TakeLock(p) \/ OpenReadable(p) \/ FirstRead(p) \/ SecondRead(p) \/ CheckNonce(p)
             \/ Release(p) \/ Die(p)
    <3>1. UNCHANGED <<name, content>>
      BY <2>4 DEF TakeLock, OpenReadable, FirstRead, SecondRead, CheckNonce, Release, Die
    <3>2. ~Renamed(p)
      BY <2>4 DEF TakeLock, OpenReadable, FirstRead, SecondRead, CheckNonce, Release, Die, Renamed
    <3>3. ~Renamed(p)'
      BY <2>4 DEF TakeLock, OpenReadable, FirstRead, SecondRead, CheckNonce, Release, Die, Renamed,
         PGoto
    <3>4. QED
      BY <2>3, <3>1, <3>2, <3>3
  <2>5. CASE Settle(p)
    <3>1. ~Renamed(p) /\ ~Renamed(p)' /\ name' = name
      BY <2>5 DEF Settle, Renamed, PGoto
    <3>2. AppendsIn(content[name]) \subseteq AppendsIn(content'[name])
      <4>1. CASE UNCHANGED content
        BY <4>1
      <4>2. CASE /\ Marks(content[name]) \in Texts
                 /\ content' = [content EXCEPT ![name] = @ \o Marks(content[name])]
        BY <4>2, RowsGrow
      <4>3. QED
        BY <2>5, <4>1, <4>2, SettleWrites
    <3>3. QED
      BY <2>3, <3>1, <3>2
  <2>6. CASE WriteTemp(p)
    <3>1. /\ ppc[p] = "temp" /\ name' = name /\ content' = [content EXCEPT ![p] = Replacement(p)]
          /\ ~Renamed(p) /\ ~Renamed(p)'
      BY <2>6 DEF WriteTemp, Renamed, PGoto
    <3>2. name # p
      BY <3>1 DEF OpenInv, Hidden
    <3>3. content'[name] = content[name]
      BY <3>1, <3>2
    <3>4. QED
      BY <2>3, <3>1, <3>3
  <2>7. CASE Rename(p)
    <3>1. ppc[p] = "rename" /\ UNCHANGED <<content, pfd, carried, tail, apc, late>> /\ ~Renamed(p)
      BY <2>7 DEF Rename, Renamed
    <3>2. CASE p \notin temps
      <4>1. name' = name /\ ~Renamed(p)'
        BY <2>7, <3>2 DEF Rename, Renamed, PGoto
      <4>2. QED
        BY <2>3, <3>1, <4>1
    <3>3. CASE p \in temps
      <4>1. name' = p /\ ppc'[p] = "tail"
        BY <2>7, <3>3 DEF Rename, PGoto
      <4>2. name # p /\ Reading(p) /\ HasReread(p)
        BY <3>1 DEF OpenInv, Hidden, Reading, HasReread
      <4>3. pfd[p] = name /\ content[p] = Replacement(p) /\ Begins(content[name], carried[p])
        BY <3>1, <4>2 DEF ReadInv
      <4> DEFINE w == From(content[name], Len(carried[p]))
      <4>4. Rest(p)' = w
        BY <3>1, <4>1, <4>3 DEF Rest
      <4>5. /\ AppendsIn(Replacement(p)) = AppendsIn(carried[p]) \ SentIn(before[p])
            /\ AppendsIn(carried[p]) \cap AppendsIn(w) = {}
            /\ AppendsIn(content[name]) = AppendsIn(carried[p]) \cup AppendsIn(w)
            /\ SentIn(w) = {} /\ SentIn(content[name]) = SentIn(before[p]) /\ Once(w)
        BY <4>2, ReplacementOf
      <4> HIDE DEF w
      <4>6. \A r \in AppendsIn(w) : apc'[r] = "done"
        BY <3>1, <4>5 DEF RowInv
      <4>7. SentIn(before[p]) \subseteq Stored
        BY <4>5 DEF RowInv
      <4>8. Owed \cap Stored = {} /\ Owed \subseteq AppendsIn(content[name])
        <5>1. ~Carrying
          BY <2>1, <3>1 DEF Carrying
        <5>2. QED
          BY <5>1 DEF TailInv, Owed
      <4>9. Owed' \subseteq AppendsIn(content'[p]) \cup AppendsIn(w)
        BY <2>2, <3>1, <4>3, <4>5, <4>7, <4>8
      <4>10. AppendsIn(content'[p]) \cap AppendsIn(w) = {}
        BY <3>1, <4>3, <4>5
      <4>11. Begins(content'[pfd'[p]], carried'[p]) /\ pfd'[p] \in FileInode \ {p}
        BY <3>1, <4>2, <4>3
      <4>12. Behind(p)'
        BY <4>1, <4>4, <4>5, <4>6, <4>9, <4>10, <4>11 DEF Behind
      <4>13. Carrying'
        BY <4>1 DEF Carrying, Renamed
      <4>14. \A q \in Pub : Renamed(q)' => Behind(q)'
        BY <2>1, <4>12
      <4>15. QED
        BY <4>13, <4>14 DEF TailInv, Behind
    <3>4. QED
      BY <3>2, <3>3
  <2>8. CASE ReadTail(p)
    <3>1. /\ ppc[p] = "tail" /\ ppc'[p] = "carry" /\ tail'[p] = LateTail(p)
          /\ UNCHANGED <<name, content, pfd, carried, apc, late>>
      BY <2>8 DEF ReadTail, PGoto
    <3>2. Behind(p)
      BY <3>1 DEF TailInv, Behind, Renamed
    <3>3. pfd[p] \in FileInode /\ pfd[p] # NoFile
      BY <3>2, PublishAssumption DEF Behind, FileInode, NoFile
    <3>4. Rest(p) = From(content[pfd[p]], Len(carried[p])) /\ Rest(p) = Read(p, Len(carried[p]))
      BY <3>1, <3>3 DEF Rest, Read
    <3>5. Rest(p) \in Texts
      <4>1. content[pfd[p]] \in Texts /\ carried[p] \in Texts
        BY <3>3
      <4>2. Len(carried[p]) \in Nat
        BY <4>1, TextOf
      <4>3. QED
        BY <3>4, <4>1, <4>2, Cut
    <3>6. Rest(p)' = WholeLines(Rest(p))
      BY <3>1, <3>4 DEF Rest, LateTail
    <3>7. /\ AppendsIn(Rest(p)') = AppendsIn(Rest(p)) /\ SentIn(Rest(p)') = SentIn(Rest(p))
          /\ Once(Rest(p)) => Once(Rest(p)')
      BY <3>5, <3>6, WholeLinesOf
    <3>8. Behind(p)'
      BY <2>2, <3>1, <3>2, <3>7 DEF Behind
    <3>9. Carrying'
      BY <3>1 DEF Carrying, Renamed
    <3>10. \A q \in Pub : Renamed(q)' => Behind(q)'
      BY <2>1, <3>8
    <3>11. QED
      BY <3>9, <3>10 DEF TailInv, Behind
  <2>9. CASE CarryTail(p)
    <3>1. ppc[p] = "carry" /\ ppc'[p] = "release" /\ name' = name
      BY <2>9 DEF CarryTail, PGoto
    <3>2. /\ name = p /\ Owed \subseteq AppendsIn(content[p]) \cup AppendsIn(tail[p])
      BY <3>1 DEF TailInv, Renamed, Rest
    <3>3. AppendsIn(content'[name]) = AppendsIn(content[name]) \cup AppendsIn(tail[p])
      BY <2>9, TailWrites, RowsGrow
    <3>4. \A q \in Pub : ~Renamed(q)'
      BY <2>1, <3>1 DEF Renamed
    <3>5. Owed' \subseteq AppendsIn(content'[name'])
      BY <2>2, <3>1, <3>2, <3>3
    <3>6. QED
      BY <3>4, <3>5 DEF TailInv
  <2>10. QED
    BY <1>3, <2>4, <2>5, <2>6, <2>7, <2>8, <2>9 DEF Publish, Die
<1>4. QED
  BY <1>1, <1>2, <1>3, TailOfHalf, TailOfWhole DEF NextRewrite

\* At first every row that has been written is in the file.
LEMMA KeptInit ==
  ASSUME ~Missing, InitRewrite
  PROVE  KeptInv
<1>1. /\ Lines("append", Early) \in Texts /\ Once(Lines("append", Early))
      /\ AppendsIn(Lines("append", Early)) = Early /\ SentIn(Lines("append", Early)) = {}
  <2>1. Early \in SUBSET Row /\ "append" # "sent"
    BY PublishAssumption
  <2>2. QED
    BY <2>1, LinesOf
<1>2. Once(<<>>) /\ AppendsIn(<<>>) = {} /\ SentIn(<<>>) = {}
  <2>1. <<>> \in Texts /\ Len(<<>>) = 0
    BY EmptySeq DEF Texts
  <2>2. \A r : r \notin AppendsIn(<<>>) /\ r \notin SentIn(<<>>)
    BY <2>1, RowsOf
  <2>3. QED
    BY <2>1, <2>2 DEF Once
<1>3. /\ name = "original" /\ "original" \in FileInode
      /\ content = [i \in FileInode |-> IF i = "original" THEN Lines("append", Early) ELSE <<>>]
      /\ apc = [r \in Row |-> IF r \in Early THEN "done" ELSE "open"]
      /\ \A p \in Pub : ppc[p] = "idle"
  BY DEF InitRewrite, FileInode
<1>4. \A i \in FileInode : content[i] = Lines("append", Early) \/ content[i] = <<>>
  BY <1>3
<1>5. Early \subseteq Row
  BY PublishAssumption
<1>6. ASSUME NEW i \in FileInode
      PROVE /\ Once(content[i])
            /\ \A r \in AppendsIn(content[i]) : apc[r] = "done"
            /\ SentIn(content[i]) \subseteq Stored \cap AppendsIn(content[i])
  BY <1>1, <1>2, <1>3, <1>4, <1>5
<1>7. RowInv
  BY <1>6 DEF RowInv
<1>8. HolderInv /\ ReadInv
  BY <1>3 DEF HolderInv, Active, ReadInv, Reading, HasRead, HasReread
<1>9. AppendsIn(content[name]) = Early
  BY <1>1, <1>3
<1>10. Owed \subseteq Early
  BY <1>3 DEF Owed
<1>11. \A p \in Pub : ~Renamed(p)
  BY <1>3 DEF Renamed
<1>12. TailInv
  BY <1>9, <1>10, <1>11 DEF TailInv
<1>13. name # NoFile
  BY <1>3, PublishAssumption DEF NoFile
<1>14. QED
  BY <1>7, <1>8, <1>12, <1>13 DEF KeptInv

\* A file that is there goes on being there, and the lock, once taken from a live
\* holder, is never kept again.
LEMMA KeptStep ==
  ASSUME ~DiesLate, LineInv, KeptInv, [NextRewrite]_rewriteVars
  PROVE  KeptInv'
<1>1. name # NoFile
  BY DEF KeptInv
<1>2. name' # NoFile
  <2>1. \A p \in Pub : p # NoFile
    BY PublishAssumption
  <2>2. name' = name \/ name' \in Pub
    BY <1>1 DEF NextRewrite, Publish, AppendOpen, AppendHalf, AppendWrite, TakeLock, Settle,
       OpenReadable, FirstRead, SecondRead, WriteTemp, CheckNonce, Rename, ReadTail, CarryTail,
       Release, Die, rewriteVars
  <2>3. QED
    BY <1>1, <2>1, <2>2
<1>3. LockKept' => LockKept
  <2>1. taken \in Nat
    BY DEF LineInv, TextOK
  <2>2. taken' = taken \/ taken' = taken + 1
    BY DEF NextRewrite, Publish, AppendOpen, AppendHalf, AppendWrite, TakeLock, Settle,
       OpenReadable, FirstRead, SecondRead, WriteTemp, CheckNonce, Rename, ReadTail, CarryTail,
       Release, Die, rewriteVars
  <2>3. QED
    BY <2>1, <2>2 DEF LockKept
<1>4. ASSUME LockKept' PROVE RowInv' /\ HolderInv' /\ ReadInv' /\ TailInv'
  <2>1. KInv
    BY <1>3, <1>4 DEF KeptInv, KInv
  <2>2. RowInv'
    BY <1>1, <1>4, <2>1, RowStep
  <2>3. HolderInv'
    BY <1>4, <2>1, HolderStep DEF LineInv, KInv
  <2>4. ReadInv'
    BY <1>1, <1>2, <1>4, <2>1, ReadStep
  <2>5. TailInv'
    BY <1>1, <1>4, <2>1, TailStep
  <2>6. QED
    BY <2>2, <2>3, <2>4, <2>5
<1>5. QED
  BY <1>2, <1>4 DEF KeptInv

\* The invariant while the lock is kept, of a file that is there, where no publisher
\* dies between its rename and its tail.
THEOREM RowsKept ==
  ASSUME ~Missing, ~DiesLate
  PROVE  SpecRewrite => []RInv
<1>1. InitRewrite => RInv
  BY LineInit, KeptInit DEF RInv
<1>2. RInv /\ [NextRewrite]_rewriteVars => RInv'
  <2>1. LineInv /\ [NextRewrite]_rewriteVars => LineInv'
    <3>1. SUFFICES ASSUME LineInv, [NextRewrite]_rewriteVars PROVE LineInv'
      OBVIOUS
    <3>2. QED
      BY <3>1, LineStep
  <2>2. QED
    BY <2>1, KeptStep DEF RInv
<1>3. QED
  BY <1>1, <1>2, PTL DEF SpecRewrite

\* synclock.ts:415-416: neither a crash nor a concurrent append costs a record, and
\* none is there twice.
THEOREM NoRowIsLost ==
  ASSUME ~Missing, ~DiesLate
  PROVE  SpecRewrite => []EveryAppendOnce
<1>1. RInv => EveryAppendOnce
  <2>1. SUFFICES ASSUME RInv, LockKept PROVE EveryAppendOnce
    BY DEF EveryAppendOnce
  <2>2. /\ TextOK /\ name # NoFile /\ RowInv /\ TailInv
    BY <2>1 DEF RInv, LineInv, KeptInv
  <2>3. Text = content[name] /\ content[name] \in Texts /\ name \in FileInode
    BY <2>2 DEF Text, TextOK
  <2>4. DOMAIN Text = 1..Len(Text)
    BY <2>3, TextOf
  <2>5. \A i, j \in DOMAIN Text :
           Text[i].ends /\ Text[i].kind = "append" /\ Text[i] = Text[j] => i = j
    <3>1. Once(Text)
      BY <2>2, <2>3 DEF RowInv
    <3>2. QED
      BY <2>4, <3>1 DEF Once
  <2>6. ~Carrying => \A r \in Row \ (Stored \cup late) : apc[r] = "done" => r \in AppendsIn(Text)
    BY <2>2, <2>3 DEF TailInv, Owed
  <2>7. QED
    BY <2>5, <2>6 DEF EveryAppendOnce
<1>2. QED
  BY <1>1, RowsKept, PTL

\* synclock.ts:415-416: an append that has been settled is never read as unsent again.
THEOREM SettledRowsStay ==
  ASSUME ~Missing, ~DiesLate
  PROVE  SpecRewrite => SettledStaysSettled
<1>1. RInv /\ [NextRewrite]_rewriteVars
        => [LockKept' => \A r \in Row : r \in SentIn(Text) => r \notin UnsentIn(Text)']_rewriteVars
  <2>1. SUFFICES ASSUME RInv, NextRewrite, LockKept', NEW r \in Row, r \in SentIn(Text)
                 PROVE  r \notin UnsentIn(Text)'
    BY DEF rewriteVars
  <2>2. /\ LineInv /\ TextOK /\ OpenInv /\ name # NoFile
    BY <2>1 DEF RInv, LineInv, KeptInv
  <2>3. KInv /\ name' # NoFile
    <3>1. KeptInv'
      BY <2>1, KeptStep DEF RInv
    <3>2. taken \in Nat /\ (taken' = taken \/ taken' = taken + 1)
      BY <2>1, <2>2 DEF TextOK, NextRewrite, Publish, AppendOpen, AppendHalf, AppendWrite, TakeLock,
         Settle, OpenReadable, FirstRead, SecondRead, WriteTemp, CheckNonce, Rename, ReadTail,
         CarryTail, Release, Die
    <3>3. LockKept
      BY <2>1, <3>2 DEF LockKept
    <3>4. QED
      BY <2>1, <3>1, <3>3 DEF RInv, KeptInv, KInv
  <2>4. name \in FileInode /\ r \in SentIn(content[name])
    BY <2>1, <2>2 DEF Text, TextOK
  <2>5. SUFFICES r \in SentIn(content'[name']) \/ r \notin AppendsIn(content'[name'])
    BY <2>3 DEF Text, UnsentIn
  <2>6. ASSUME NEW q \in Row, AppendOpen(q)
        PROVE r \in SentIn(content'[name'])
    BY <2>2, <2>4, <2>6 DEF AppendOpen
  <2>7. ASSUME NEW q \in Row, AppendHalf(q)
        PROVE r \in SentIn(content'[name'])
    <3>1. /\ afd[q] \in FileInode /\ <<FirstHalf(q)>> \in Texts /\ name' = name
          /\ content' = [content EXCEPT ![afd[q]] = @ \o <<FirstHalf(q)>>]
      BY <2>2, <2>7, HalfWrites, OnePiece DEF AppendHalf
    <3> DEFINE u == <<FirstHalf(q)>>
    <3> HIDE DEF u
    <3>2. QED
      BY <2>2, <2>4, <3>1, RowsGrow DEF u
  <2>8. ASSUME NEW q \in Row, AppendWrite(q)
        PROVE r \in SentIn(content'[name'])
    <3>1. /\ afd[q] \in FileInode /\ <<Whole("append", q)>> \in Texts /\ name' = name
          /\ content' = [content EXCEPT ![afd[q]] = @ \o <<Whole("append", q)>>]
      BY <2>2, <2>8, WholeWrites, OnePiece DEF AppendWrite
    <3> DEFINE u == <<Whole("append", q)>>
    <3> HIDE DEF u
    <3>2. QED
      BY <2>2, <2>4, <3>1, RowsGrow DEF u
  <2>9. ASSUME NEW p \in Pub, Settle(p)
        PROVE r \in SentIn(content'[name'])
    <3>1. name' = name
      BY <2>9 DEF Settle
    <3>2. CASE UNCHANGED content
      BY <2>4, <3>1, <3>2
    <3>3. CASE /\ Marks(content[name]) \in Texts
               /\ content' = [content EXCEPT ![name] = @ \o Marks(content[name])]
      BY <2>2, <2>4, <3>1, <3>3, RowsGrow
    <3>4. QED
      BY <2>2, <2>9, <3>2, <3>3, SettleWrites
  <2>10. ASSUME NEW p \in Pub, CarryTail(p)
         PROVE r \in SentIn(content'[name'])
    <3>1. name' = name
      BY <2>10 DEF CarryTail
    <3>2. /\ tail[p] \in Texts /\ content' = [content EXCEPT ![name] = @ \o tail[p]]
      BY <2>2, <2>10, TailWrites
    <3>3. QED
      BY <2>2, <2>4, <3>1, <3>2, RowsGrow
  <2>11. ASSUME NEW p \in Pub, WriteTemp(p)
         PROVE r \in SentIn(content'[name'])
    <3>1. /\ ppc[p] = "temp" /\ name' = name
          /\ content' = [content EXCEPT ![p] = Replacement(p)]
      BY <2>11 DEF WriteTemp
    <3>2. name # p
      BY <2>2, <3>1 DEF OpenInv, Hidden
    <3>3. content'[name] = content[name]
      BY <2>2, <2>4, <3>1, <3>2 DEF TextOK
    <3>4. QED
      BY <2>4, <3>1, <3>3
  <2>12. ASSUME NEW p \in Pub, Rename(p)
         PROVE r \in SentIn(content'[name']) \/ r \notin AppendsIn(content'[name'])
    <3>1. /\ ppc[p] = "rename" /\ content' = content /\ (name' = name \/ name' = p)
      BY <2>12 DEF Rename
    <3>2. HasReread(p)
      BY <3>1 DEF HasReread
    <3>3. /\ AppendsIn(Replacement(p)) = AppendsIn(carried[p]) \ SentIn(before[p])
          /\ SentIn(content[name]) = SentIn(before[p])
      BY <2>2, <2>3, <3>2, ReplacementOf
    <3>4. content[p] = Replacement(p)
      BY <2>3, <3>1 DEF KInv, ReadInv
    <3>5. r \notin AppendsIn(content[p])
      BY <2>4, <3>3, <3>4
    <3>6. QED
      BY <2>4, <3>1, <3>5
  <2>13. ASSUME NEW p \in Pub, TakeLock(p) \/ OpenReadable(p) \/ FirstRead(p) \/ SecondRead(p)
                \/ CheckNonce(p) \/ ReadTail(p) \/ Release(p) \/ Die(p)
         PROVE r \in SentIn(content'[name'])
    <3>1. UNCHANGED <<name, content>>
      BY <2>13 DEF TakeLock, OpenReadable, FirstRead, SecondRead, CheckNonce, ReadTail, Release, Die
    <3>2. QED
      BY <2>4, <3>1
  <2>14. QED
    BY <2>1, <2>6, <2>7, <2>8, <2>9, <2>10, <2>11, <2>12, <2>13 DEF NextRewrite, Publish
<1>2. QED
  BY <1>1, RowsKept, PTL DEF SpecRewrite, SettledStaysSettled
=============================================================================
