--------------------------- MODULE Caches_proofs ----------------------------
(***************************************************************************)
(* What two caches of the logs can be relied on for: the registry's rows,  *)
(* which name the projects, and the verdicts, which say where the commits  *)
(* of reports have landed.                                                 *)
(***************************************************************************)
EXTENDS RegistryCache, Evidence, SequenceTheorems, FiniteSetTheorems, WellFoundedInduction, TLAPS

-----------------------------------------------------------------------------
(***************************************************************************)
(* That a slug with records queued stays registered, for every number of   *)
(* syncs, projects made and removed under the slug, records and deaths,    *)
(* where no command runs beside a sync (Beside is FALSE): beside one, a    *)
(* record queued after a sync looked at the queue can lose its row.        *)
(*                                                                         *)
(* A sync decides on the queue it looked at and on the rows it read, and   *)
(* writes two steps later.  What it decided is still true then, because    *)
(* it holds the lock: nothing else queues a record or touches a row.       *)
(***************************************************************************)

Alone == Beside = FALSE

Rows == Seq(Nat)

Run == [pc : {"idle", "list", "queued", "read", "publish", "pull", "send", "create", "cache"},
        listed : Nat, keep : BOOLEAN, read : Rows, memo : Rows,
        batch : SUBSET Nat, created : BOOLEAN]

\* The types of what a row is decided by; the logs decide nothing of it.
TypeInv ==
    /\ rows \in Rows /\ meant \in Seq(Nat)
    /\ queue \subseteq Nat /\ blocked \subseteq Nat
    /\ live \in Nat
    /\ init \in [pc : {"idle", "register"}, id : Nat]
    /\ run \in [Sync -> Run]

\* Whoever does anything holds the lock, and no project is being registered then.
LockInv ==
    /\ \A s \in Sync : run[s].pc # "idle" => holder = s
    /\ holder # NoHolder => init.pc = "idle"

\* A sync that is about to write the rows knows whether records are queued.
KeepInv ==
    \A s \in Sync :
        /\ run[s].pc = "read" /\ Unsent # {} => run[s].keep
        /\ run[s].pc = "publish" /\ Unsent # {} => run[s].keep /\ run[s].read # <<>>

IInv == TypeInv /\ LockInv /\ KeepInv /\ KeptWhileQueued

-----------------------------------------------------------------------------
\* A sync that does nothing has the type of one.
LEMMA IdleType == Idle \in Run
  BY DEF Idle, Run, Rows, NoId

\* The rows a rewrite leaves are rows, and there are some where one was kept.
LEMMA RewrittenRows ==
  ASSUME rows \in Rows, NEW read \in Rows, NEW listed \in Nat, NEW keep \in BOOLEAN
  PROVE  /\ Reconciled(read, listed, keep) \o Late(read) \in Rows
         /\ keep /\ read # <<>> => Reconciled(read, listed, keep) \o Late(read) # <<>>
<1>1. Late(read) \in Rows
  <2>1. Len(read) + 1 \in Nat /\ Len(rows) \in Nat
    BY LenProperties DEF Rows
  <2>2. \A i \in Len(read) + 1 .. Len(rows) : i \in 1..Len(rows)
    BY LenProperties DEF Rows
  <2>3. QED
    BY <2>1, <2>2, SubSeqProperties DEF Late, Rows
<1>2. read # <<>> => read[1] \in Nat
  BY EmptySeq DEF Rows
<1>3. Reconciled(read, listed, keep) \in Rows
  BY <1>2 DEF Reconciled, Rows
<1>4. keep /\ read # <<>> => Len(Reconciled(read, listed, keep)) = 1
  BY <1>2 DEF Reconciled, Rows
<1> DEFINE c == Reconciled(read, listed, keep)
           l == Late(read)
<1> HIDE DEF c, l
<1>5. c \o l \in Rows /\ Len(c \o l) = Len(c) + Len(l)
  BY <1>1, <1>3, ConcatProperties DEF c, l, Rows
<1>6. Len(l) \in Nat
  BY <1>1, LenProperties DEF l, Rows
<1>7. ASSUME keep, read # <<>> PROVE c \o l # <<>>
  <2>1. Len(c) = 1
    BY <1>4, <1>7 DEF c
  <2>2. Len(c \o l) # 0
    BY <1>5, <1>6, <2>1
  <2>3. QED
    BY <1>5, <2>2, EmptySeq
<1>8. QED
  BY <1>5, <1>7 DEF c, l

\* No step leaves the types.
LEMMA Types ==
  ASSUME TypeInv, [Next]_vars
  PROVE  TypeInv'
<1> USE DEF TypeInv
<1>1. CASE UNCHANGED vars
  BY <1>1 DEF vars
<1>2. CASE RemoveElsewhere \/ MakeElsewhere \/ RecordElsewhere \/ ProjectInit
  <2>1. live' \in Nat /\ init' \in [pc : {"idle", "register"}, id : Nat]
    BY <1>2, RegistryAssumption DEF RemoveElsewhere, MakeElsewhere, RecordElsewhere,
       ProjectInit, MakeProject, Ids, NoId
  <2>2. UNCHANGED <<rows, records, run>>
    BY <1>2 DEF RemoveElsewhere, MakeElsewhere, RecordElsewhere, ProjectInit
  <2>3. QED
    BY <2>1, <2>2 DEF records
<1>3. CASE RegisterProject
  <2>1. rows' \in Rows
    BY <1>3 DEF RegisterProject, Rows
  <2>2. init' \in [pc : {"idle", "register"}, id : Nat]
    BY <1>3 DEF RegisterProject, NoId
  <2>3. QED
    BY <1>3, <2>1, <2>2 DEF RegisterProject, records, server
<1>4. CASE InitDies
  BY <1>4 DEF InitDies, records, server, NoId
<1>5. CASE AppendPending
  <2>1. ProjectIdOf(rows) \in Nat
    BY <1>5, EmptySeq DEF AppendPending, ProjectIdOf, Rows
  <2>2. meant' \in Seq(Nat)
    BY <1>5, <2>1 DEF AppendPending
  <2>3. queue' \subseteq Nat
    BY <1>5, <2>2, LenProperties DEF AppendPending
  <2>4. QED
    BY <1>5, <2>2, <2>3 DEF AppendPending, server
<1>6. ASSUME NEW s \in Sync, CatchUp(s) \/ Push(s) \/ Crash(s) PROVE TypeInv'
  <2> run[s] \in Run
    OBVIOUS
  <2>1. CASE StartCatchUp(s)
    BY <2>1, IdleType DEF StartCatchUp, Step, Run, records, server
  <2>2. CASE ListProjects(s)
    BY <2>2 DEF ListProjects, Step, Run, records, server
  <2>3. CASE ListFails(s)
    BY <2>3 DEF ListFails, Step, Run, records, server
  <2>4. CASE StillQueued(s)
    BY <2>4 DEF StillQueued, Step, Run, records, server
  <2>5. CASE ReadRegistry(s)
    BY <2>5 DEF ReadRegistry, Step, Run, records, server
  <2>6. CASE ReconcileRegistry(s)
    <3>1. run[s].read \in Rows /\ run[s].listed \in Nat /\ run[s].keep \in BOOLEAN
      BY DEF Run
    <3>2. rows' \in Rows
      BY <2>6, <3>1, RewrittenRows DEF ReconcileRegistry
    <3>3. QED
      BY <2>6, <3>2 DEF ReconcileRegistry, Step, Run, records, server
  <2>7. CASE PullProject(s)
    BY <2>7, IdleType DEF PullProject, Done, Step, server
  <2>8. CASE PullFails(s) \/ LeftQueued(s) \/ CreationUnanswered(s) \/ Crash(s)
    BY <2>8, IdleType DEF PullFails, LeftQueued, CreationUnanswered, Crash, Done, Step,
       records, server
  <2>9. CASE PushStore(s)
    <3>1. Unsent \subseteq Nat
      BY DEF Unsent
    <3>2. QED
      BY <2>9, <3>1, IdleType DEF PushStore, Step, Run, records, server
  <2>10. CASE Accepted(s)
    BY <2>10, IdleType DEF Accepted, Done, Step, records
  <2>11. CASE AfterUnknownProject(s)
    <3>1. blocked' \subseteq Nat
      BY <2>11 DEF AfterUnknownProject, Run
    <3>2. run' \in [Sync -> Run]
      <4>1. run' = [run EXCEPT ![s] = Idle] \/ run' = [run EXCEPT ![s] = [run[s] EXCEPT !.pc = "create"]]
        BY <2>11 DEF AfterUnknownProject, Done, Step
      <4>2. [run[s] EXCEPT !.pc = "create"] \in Run
        BY DEF Run
      <4>3. QED
        BY <4>1, <4>2, IdleType
    <3>3. QED
      BY <2>11, <3>1, <3>2 DEF AfterUnknownProject, server
  <2>12. CASE CreateProject(s)
    <3>1. PICK p \in Ids :
             /\ MakeProject(p)
             /\ \/ Step(s, [run[s] EXCEPT !.pc = "cache", !.listed = p, !.created = TRUE])
                \/ Done(s)
      BY <2>12 DEF CreateProject
    <3>2. p \in Nat
      BY RegistryAssumption DEF Ids
    <3>3. run' \in [Sync -> Run]
      <4> DEFINE x == [run[s] EXCEPT !.pc = "cache", !.listed = p, !.created = TRUE]
      <4>1. x \in Run
        BY <3>2 DEF Run
      <4>2. run' = [run EXCEPT ![s] = x] \/ run' = [run EXCEPT ![s] = Idle]
        BY <3>1 DEF Done, Step
      <4> HIDE DEF x
      <4>3. QED
        BY <4>1, <4>2, IdleType
    <3>4. QED
      BY <2>12, <3>1, <3>2, <3>3 DEF CreateProject, MakeProject, records
  <2>13. CASE CreationRefused(s)
    BY <2>13, IdleType DEF CreationRefused, Done, Step, Run, server
  <2>14. CASE CacheProjectId(s)
    <3>1. rows' \in Rows
      <4>1. run[s].listed \in Nat
        BY DEF Run
      <4>2. rows' = [i \in 1..Len(rows) |-> run[s].listed] /\ Len(rows) \in Nat
        BY <2>14, LenProperties DEF CacheProjectId, Rows
      <4>3. QED
        BY <4>1, <4>2 DEF Rows
    <3>2. [run[s] EXCEPT !.pc = "send", !.memo = rows'] \in Run
      BY <3>1 DEF Run
    <3>3. QED
      BY <2>14, <3>1, <3>2 DEF CacheProjectId, Step, records, server
  <2>15. QED
    BY <1>6, <2>1, <2>2, <2>3, <2>4, <2>5, <2>6, <2>7, <2>8, <2>9, <2>10, <2>11,
       <2>12, <2>13, <2>14 DEF CatchUp, Push
<1>7. QED
  BY <1>1, <1>2, <1>3, <1>4, <1>5, <1>6 DEF Next

\* The lock is taken where it is free and given back by whoever has it.
LEMMA LockStep ==
  ASSUME Alone, TypeInv, LockInv, [Next]_vars
  PROVE  LockInv'
<1> run \in [Sync -> Run] /\ init \in [pc : {"idle", "register"}, id : Nat]
  BY DEF TypeInv
<1>1. CASE UNCHANGED vars
  BY <1>1 DEF vars, LockInv
<1>2. CASE RemoveElsewhere \/ MakeElsewhere \/ RecordElsewhere \/ AppendPending
  <2>1. UNCHANGED <<run, holder, init>>
    BY <1>2 DEF RemoveElsewhere, MakeElsewhere, RecordElsewhere, AppendPending
  <2>2. QED
    BY <2>1 DEF LockInv
<1>3. CASE ProjectInit \/ RegisterProject \/ InitDies
  <2>1. UNCHANGED <<run, holder>> /\ (init'.pc = "idle" \/ holder = NoHolder)
    BY <1>3 DEF ProjectInit, RegisterProject, InitDies, Undisturbed, Alone
  <2>2. QED
    BY <2>1 DEF LockInv
<1>4. ASSUME NEW s \in Sync, CatchUp(s) \/ Push(s) \/ Crash(s) PROVE LockInv'
  <2>1. /\ \A t \in Sync : t # s => run'[t] = run[t]
        /\ UNCHANGED init
    BY <1>4 DEF CatchUp, StartCatchUp, ListProjects, ListFails, StillQueued, ReadRegistry,
       ReconcileRegistry, PullProject, PullFails, Push, PushStore, Accepted, LeftQueued,
       AfterUnknownProject, CreateProject, CreationRefused, CreationUnanswered,
       CacheProjectId, Crash, Done, Step
  <2>2. CASE StartCatchUp(s) \/ PushStore(s)
    <3>1. holder = NoHolder /\ holder' = s /\ init.pc = "idle"
      BY <2>2 DEF StartCatchUp, PushStore, Free, Alone
    <3>2. QED
      BY <2>1, <3>1, RegistryAssumption DEF LockInv
  <2>3. CASE run[s].pc # "idle"
    <3>1. holder = s
      BY <2>3 DEF LockInv
    <3>2. \/ holder' = holder
          \/ run'[s] = Idle /\ holder' = NoHolder
      <4>1. ASSUME Done(s) PROVE run'[s] = Idle /\ holder' = NoHolder
        BY <3>1, <4>1 DEF Done, Step
      <4>2. QED
        BY <1>4, <2>3, <4>1 DEF CatchUp, StartCatchUp, ListProjects, ListFails, StillQueued,
           ReadRegistry, ReconcileRegistry, PullProject, PullFails, Push, PushStore, Accepted,
           LeftQueued, AfterUnknownProject, CreateProject, CreationRefused,
           CreationUnanswered, CacheProjectId, Crash
    <3>3. holder # NoHolder
      BY <3>1, RegistryAssumption
    <3>4. CASE holder' = holder
      <4>1. ASSUME NEW t \in Sync, run'[t].pc # "idle" PROVE holder' = t
        BY <2>1, <3>1, <3>4, <4>1 DEF LockInv
      <4>2. QED
        BY <2>1, <3>3, <3>4, <4>1 DEF LockInv
    <3>5. CASE run'[s] = Idle /\ holder' = NoHolder
      <4>1. ASSUME NEW t \in Sync, run'[t].pc # "idle" PROVE FALSE
        BY <2>1, <3>1, <3>5, <4>1 DEF LockInv, Idle
      <4>2. QED
        BY <2>1, <3>5, <4>1 DEF LockInv
    <3>6. QED
      BY <3>2, <3>4, <3>5
  <2>4. run[s].pc # "idle" \/ StartCatchUp(s) \/ PushStore(s)
    BY <1>4 DEF CatchUp, ListProjects, ListFails, StillQueued, ReadRegistry,
       ReconcileRegistry, PullProject, PullFails, Push, Accepted, LeftQueued,
       AfterUnknownProject, CreateProject, CreationRefused, CreationUnanswered,
       CacheProjectId, Crash
  <2>5. QED
    BY <2>2, <2>3, <2>4
<1>5. QED
  BY <1>1, <1>2, <1>3, <1>4 DEF Next

\* Only a command that records makes the queue longer.
LEMMA QueueStep ==
  ASSUME [Next]_vars
  PROVE  AppendPending \/ Unsent' \subseteq Unsent
<1>1. ASSUME NEW s \in Sync, CatchUp(s) \/ Push(s) \/ Crash(s)
      PROVE  queue' \subseteq queue /\ blocked \subseteq blocked'
  BY <1>1 DEF CatchUp, StartCatchUp, ListProjects, ListFails, StillQueued, ReadRegistry,
     ReconcileRegistry, PullProject, PullFails, Push, PushStore, Accepted, LeftQueued,
     AfterUnknownProject, CreateProject, CreationRefused, CreationUnanswered,
     CacheProjectId, Crash, records
<1>2. ASSUME RemoveElsewhere \/ MakeElsewhere \/ RecordElsewhere \/ ProjectInit
             \/ RegisterProject \/ InitDies \/ UNCHANGED vars
      PROVE  queue' \subseteq queue /\ blocked \subseteq blocked'
  BY <1>2 DEF RemoveElsewhere, MakeElsewhere, RecordElsewhere, ProjectInit,
     RegisterProject, InitDies, records, vars
<1>3. QED
  BY <1>1, <1>2 DEF Next, Unsent

\* Rows are taken away by the rewrite of a sync alone.
LEMMA RowsStep ==
  ASSUME TypeInv, [Next]_vars, rows # <<>>
  PROVE  rows' # <<>> \/ \E s \in Sync : ReconcileRegistry(s)
<1>1. rows \in Seq(Nat)
  BY DEF TypeInv, Rows
<1>2. CASE RegisterProject
  <2>1. rows' = Append(rows, init.id) /\ init.id \in Nat
    BY <1>2 DEF RegisterProject, TypeInv
  <2>2. QED
    BY <1>1, <2>1, AppendProperties, EmptySeq
<1>3. ASSUME NEW s \in Sync, CacheProjectId(s) PROVE rows' # <<>>
  <2>1. DOMAIN rows' = DOMAIN rows
    BY <1>3 DEF CacheProjectId
  <2>2. DOMAIN rows # {}
    BY <1>1, EmptySeq, LenProperties
  <2>3. QED
    BY <2>1, <2>2
<1>4. ASSUME NEW s \in Sync, CatchUp(s) \/ Push(s) \/ Crash(s), ~CacheProjectId(s),
             ~ReconcileRegistry(s)
      PROVE  UNCHANGED rows
  BY <1>4 DEF CatchUp, StartCatchUp, ListProjects, ListFails, StillQueued, ReadRegistry,
     PullProject, PullFails, Push, PushStore, Accepted, LeftQueued,
     AfterUnknownProject, CreateProject, CreationRefused, CreationUnanswered, Crash
<1>5. ASSUME RemoveElsewhere \/ MakeElsewhere \/ RecordElsewhere \/ ProjectInit
             \/ AppendPending \/ InitDies \/ UNCHANGED vars
      PROVE  UNCHANGED rows
  BY <1>5 DEF RemoveElsewhere, MakeElsewhere, RecordElsewhere, ProjectInit,
     AppendPending, InitDies, vars
<1>6. QED
  BY <1>2, <1>3, <1>4, <1>5 DEF Next

\* A rewrite drops the last row only where nothing is queued.
LEMMA KeptStep ==
  ASSUME Alone, IInv, [Next]_vars
  PROVE  KeptWhileQueued'
<1> SUFFICES ASSUME Unsent' # {} PROVE rows' # <<>>
  BY DEF KeptWhileQueued
<1>1. CASE AppendPending
  BY <1>1 DEF AppendPending
<1>2. CASE ~AppendPending
  <2>1. Unsent # {}
    BY <1>2, QueueStep
  <2>2. rows # <<>>
    BY <2>1 DEF IInv, KeptWhileQueued
  <2>3. ASSUME NEW s \in Sync, ReconcileRegistry(s) PROVE rows' # <<>>
    <3>1. run[s].keep /\ run[s].read # <<>>
      BY <2>1, <2>3 DEF ReconcileRegistry, IInv, KeepInv
    <3>2. run[s].read \in Rows /\ run[s].listed \in Nat /\ run[s].keep \in BOOLEAN /\ rows \in Rows
      BY DEF IInv, TypeInv, Run
    <3>3. QED
      BY <2>3, <3>1, <3>2, RewrittenRows DEF ReconcileRegistry
  <2>4. QED
    BY <2>2, <2>3, RowsStep DEF IInv
<1>3. QED
  BY <1>1, <1>2

\* What a sync saw of the queue and the rows is true until it writes.
LEMMA KeepStep ==
  ASSUME Alone, IInv, [Next]_vars
  PROVE  KeepInv'
<1> USE DEF IInv
<1> SUFFICES ASSUME NEW t \in Sync, run'[t].pc \in {"read", "publish"}, Unsent' # {}
    PROVE  run'[t].keep /\ (run'[t].pc = "publish" => run'[t].read # <<>>)
  BY DEF KeepInv
<1> run \in [Sync -> Run] /\ run[t] \in Run
  BY DEF TypeInv
<1>1. CASE AppendPending
  <2>1. holder = NoHolder /\ run' = run
    BY <1>1 DEF AppendPending, Undisturbed, Alone
  <2>2. holder = t
    BY <2>1 DEF LockInv
  <2>3. QED
    BY <2>1, <2>2, RegistryAssumption
<1>2. CASE ~AppendPending
  <2>1. Unsent # {} /\ rows # <<>>
    BY <1>2, QueueStep DEF KeptWhileQueued
  <2>2. CASE run'[t] = run[t]
    BY <2>1, <2>2 DEF KeepInv
  <2>3. CASE StillQueued(t)
    BY <2>1, <2>3 DEF StillQueued, Step, Run
  <2>4. CASE ReadRegistry(t)
    BY <2>1, <2>4 DEF ReadRegistry, Step, Run, KeepInv
  <2>5. run'[t] = run[t] \/ StillQueued(t) \/ ReadRegistry(t)
    <3>1. ASSUME NEW s \in Sync, CatchUp(s) \/ Push(s) \/ Crash(s)
          PROVE  run'[t] = run[t] \/ StillQueued(t) \/ ReadRegistry(t)
      <4>1. CASE s # t
        BY <3>1, <4>1 DEF CatchUp, StartCatchUp, ListProjects, ListFails, StillQueued,
           ReadRegistry, ReconcileRegistry, PullProject, PullFails, Push, PushStore, Accepted,
           LeftQueued, AfterUnknownProject, CreateProject, CreationRefused,
           CreationUnanswered, CacheProjectId, Crash, Done, Step
      <4>2. CASE s = t
        <5>1. CASE Done(t)
          BY <5>1 DEF Done, Step, Idle
        <5>2. CASE StartCatchUp(t) \/ PushStore(t)
          BY <5>2 DEF StartCatchUp, PushStore, Step, Idle
        <5>3. CASE ListProjects(t) \/ ListFails(t) \/ ReconcileRegistry(t)
          BY <5>3 DEF ListProjects, ListFails, ReconcileRegistry, Step, Run
        <5>4. CASE CreateProject(t)
          <6>1. PICK x \in Ids :
                  \/ Step(t, [run[t] EXCEPT !.pc = "cache", !.listed = x, !.created = TRUE])
                  \/ Done(t)
            BY <5>4 DEF CreateProject
          <6>2. ~Step(t, [run[t] EXCEPT !.pc = "cache", !.listed = x, !.created = TRUE])
            BY DEF Step, Run
          <6>3. QED
            BY <5>1, <6>1, <6>2
        <5>5. CASE CacheProjectId(t)
          BY <5>1, <5>5 DEF CacheProjectId, Step, Run
        <5>6. CASE AfterUnknownProject(t)
          BY <5>1, <5>6 DEF AfterUnknownProject, Step, Run
        <5>7. QED
          BY <3>1, <4>2, <5>1, <5>2, <5>3, <5>4, <5>5, <5>6 DEF CatchUp, PullProject, PullFails, Push,
             Accepted, LeftQueued, CreationRefused, CreationUnanswered, Crash
      <4>3. QED
        BY <4>1, <4>2
    <3>2. ASSUME RemoveElsewhere \/ MakeElsewhere \/ RecordElsewhere \/ ProjectInit
                 \/ RegisterProject \/ InitDies \/ UNCHANGED vars
          PROVE  run' = run
      BY <3>2 DEF RemoveElsewhere, MakeElsewhere, RecordElsewhere, ProjectInit,
         RegisterProject, InitDies, vars
    <3>3. QED
      BY <1>2, <3>1, <3>2 DEF Next
  <2>6. QED
    BY <2>2, <2>3, <2>4, <2>5
<1>3. QED
  BY <1>1, <1>2

\* The invariant holds at the start.
LEMMA InvInit == Init => IInv
<1> SUFFICES ASSUME Init PROVE IInv
  OBVIOUS
<1>1. rows \in Rows
  <2>1. rows \in Seq({NoId})
    BY RegistryAssumption DEF Init
  <2>2. QED
    BY <2>1 DEF Rows, NoId
<1>2. TypeInv
  BY <1>1, IdleType DEF Init, TypeInv, NoId
<1>3. LockInv /\ KeepInv /\ KeptWhileQueued
  BY DEF Init, LockInv, KeepInv, KeptWhileQueued, Unsent, Idle
<1>4. QED
  BY <1>2, <1>3 DEF IInv

\* The invariant of every behaviour in which no command runs beside a sync.
LEMMA Invariant == ASSUME Alone PROVE Spec => []IInv
<1>1. IInv /\ [Next]_vars => IInv'
  BY Types, LockStep, KeepStep, KeptStep DEF IInv
<1>2. QED
  BY <1>1, InvInit, PTL DEF Spec

\* registrycache.ts:47-55: a slug with records queued stays registered, whoever
\* removes the project or makes it again, whatever answers are lost and whoever
\* dies, where no command runs beside a sync.
THEOREM QueuedStaysRegistered == ASSUME Alone PROVE Spec => []KeptWhileQueued
<1>1. IInv => KeptWhileQueued
  BY DEF IInv
<1>2. QED
  BY <1>1, Invariant, PTL

-----------------------------------------------------------------------------
(***************************************************************************)
(* What the verdicts can be relied on for, for any number of folds that    *)
(* overlap, of repositories, of commits and of moves between their steps.  *)
(*                                                                         *)
(* A settled verdict was read off a default branch that reached the commit *)
(* then, whoever wrote it and whatever it was copied through since.  And a *)
(* verdict a fold passes over is the one it would reach: a listing never   *)
(* recurs, so as long as the key of a repository is its listing, no commit *)
(* of it has come to or left a branch since the verdict was reached.       *)
(***************************************************************************)

(* The invariants *)

RefsOK ==
    /\ place \in [Repos -> [Hashes -> Place]] /\ topic \subseteq Repos
    /\ listing \in [Repos -> Nat] /\ present \subseteq Repos
    /\ \A r \in Repos, h \in Hashes : place[r][h] = "main" => h \in merged

\* Verdicts that call settled only what a default branch has reached.
Honest(v) == \A h \in Hashes : v[h] = "settled" => h \in merged

Walked == {"write", "head"}
Asked == {"ask", "walk"} \cup Walked

\* What a process that folds has in hand.
HandsOK(m) ==
    /\ m.pc # "idle" => Honest(m.read)
    /\ m.pc = "open" => m.dirs \subseteq Repos
    /\ m.pc \in Asked => m.repos \subseteq Repos
    /\ m.pc = "walk" => \A h \in m.walking : m.home[h] \in m.repos
    /\ m.pc \in Walked => Honest(m.now)

LandedInv ==
    /\ RefsOK /\ filed \in Seq(Report) /\ Honest(verdicts)
    /\ DOMAIN fold = 1..Folders /\ \A f \in 1..Folders : HandsOK(fold[f])

\* The verdict is the one that item would get in the repository, if the key is
\* its listing still.
Judged(r, h, item, key, v) ==
    /\ r \in Repos /\ key.at \in Nat /\ key.at <= listing[r]
    /\ key.at = listing[r] => v = VerdictOf(r, h, item, key)

\* Whose word the verdicts v under these keys are, commit by commit.
Bears(h, word, key, v) == Judged(word[1], h, word[2], key, v)

HeadOK(rec) == \A h \in Hashes : rec.by[h] # <<>> =>
    /\ Identity[rec.by[h][1]] \in DOMAIN rec.keys
    /\ Bears(h, rec.by[h], rec.keys[Identity[rec.by[h][1]]], rec.verdicts[h])

KeysOK(m) ==
    /\ DOMAIN m.keys = m.repos
    /\ \A r \in m.repos : m.keys[r].at \in Nat /\ m.keys[r].at <= listing[r]

\* Before the walk: what is to be walked has a home, and what is passed over
\* bears the verdict that was read.
WalkOK(m) ==
    /\ m.walking \cap m.gone = {}
    /\ \A h \in Hashes : m.by[h] # <<>> =>
          /\ h \in m.walking => m.by[h] = <<m.home[h], m.items[h]>>
          /\ h \notin m.walking => /\ h \notin m.gone /\ m.by[h][1] \in m.repos
                                   /\ Bears(h, m.by[h], m.keys[m.by[h][1]], m.read[h])

\* After it: every verdict that is somebody's word.
NowOK(m) == \A h \in Hashes : m.by[h] # <<>> =>
    m.by[h][1] \in m.repos /\ Bears(h, m.by[h], m.keys[m.by[h][1]], m.now[h])

WordsOK(m) ==
    /\ m.pc \in Asked => KeysOK(m)
    /\ m.pc = "walk" => WalkOK(m)
    /\ m.pc \in Walked => NowOK(m)

WordInv == LandedInv /\ HeadOK(head) /\ \A f \in 1..Folders : WordsOK(fold[f])

-----------------------------------------------------------------------------
(* Lemmas about the order of the ledger *)

\* A set of numbers that is not empty has a least one.
LEMMA LeastExists ==
    ASSUME NEW S \in SUBSET Nat, S # {}
    PROVE  \E x \in S : \A y \in S : x =< y
<1>1. PICK x \in S : \A y \in S : ~(<<y, x>> \in OpToRel(<, Nat))
  BY NatLessThanWellFounded, WFMin
<1>2. \A y \in S : ~(y < x)
  BY <1>1 DEF OpToRel
<1>3. QED
  BY <1>2

\* So has one that is bounded a greatest one.
LEMMA GreatestExists ==
    ASSUME NEW n \in Nat, NEW S \in SUBSET (0..n), S # {}
    PROVE  \E x \in S : \A y \in S : x >= y
<1> DEFINE T == {n - y : y \in S}
<1>1. T \in SUBSET Nat /\ T # {}
  <2>1. ASSUME NEW y \in S PROVE n - y \in Nat
    <3>1. y \in 0..n
      OBVIOUS
    <3>2. QED
      BY <3>1
  <2>2. PICK y : y \in S
    OBVIOUS
  <2>3. n - y \in T
    BY <2>2
  <2>4. QED
    BY <2>1, <2>3
<1> HIDE DEF T
<1>2. PICK z \in T : \A y \in T : z =< y
  BY <1>1, LeastExists
<1>3. PICK x \in S : z = n - x
  BY <1>2 DEF T
<1>4. ASSUME NEW y \in S PROVE x >= y
  <2>1. n - y \in T
    BY DEF T
  <2>2. n - x =< n - y
    BY <1>2, <1>3, <2>1
  <2>3. x \in 0..n /\ y \in 0..n
    OBVIOUS
  <2>4. QED
    BY <2>2, <2>3
<1>5. QED
  BY <1>4

\* The first and the last of some repositories are among them.
LEMMA OneOf ==
    ASSUME NEW R \in SUBSET Repos, R # {}
    PROVE  FirstOf(R) \in R /\ LastOf(R) \in R
<1> DEFINE I == {i \in 1..Len(LinkOrder) : LinkOrder[i] \in R}
<1>1. Len(LinkOrder) \in Nat /\ DOMAIN LinkOrder = 1..Len(LinkOrder)
  BY EvidenceAssumption
<1>2. I # {} /\ I \in SUBSET Nat /\ I \in SUBSET (0..Len(LinkOrder))
  BY <1>1 DEF Repos, Range
<1>3. SelectInSeq(LinkOrder, LAMBDA r : r \in R) = Min(I)
  BY <1>2 DEF SelectInSeq
<1>4. SelectLastInSeq(LinkOrder, LAMBDA r : r \in R) = Max(I)
  BY <1>2 DEF SelectLastInSeq
<1>5. \A i \in I : LinkOrder[i] \in R
  OBVIOUS
<1> HIDE DEF I
<1>6. Min(I) \in I
  BY <1>2, LeastExists DEF Min
<1>7. Max(I) \in I
  BY <1>1, <1>2, GreatestExists DEF Max
<1>8. QED
  BY <1>3, <1>4, <1>5, <1>6, <1>7 DEF FirstOf, LastOf

\* A commit is judged in a repository that was asked, or in none.
LEMMA HomeIsAsked ==
    ASSUME NEW R \in SUBSET Repos, NEW knows, NEW h, NEW item
    PROVE  HomeOf(h, item, R, knows) \in R \cup {NoRepo}
<1> DEFINE holding == {r \in R : h \in knows[r]}
           named == {r \in holding : Identity[r] = item.repo}
           S == IF named # {} THEN named ELSE holding
<1>1. S \in SUBSET Repos /\ S \subseteq R
  OBVIOUS
<1>2. holding # {} => S # {}
  OBVIOUS
<1>3. HomeOf(h, item, R, knows) = IF holding = {} THEN NoRepo ELSE FirstOf(S)
  BY DEF HomeOf
<1> HIDE DEF S, holding
<1>4. QED
  BY <1>1, <1>2, <1>3, OneOf

-----------------------------------------------------------------------------
(* Lemmas about the steps *)

\* What the moves of the repositories leave of a listing.
Still(r) ==
    /\ listing'[r] \in Nat /\ listing[r] <= listing'[r]
    /\ listing'[r] = listing[r] => \A h \in Hashes :
          (place'[r][h] = "main" <=> place[r][h] = "main")
          /\ (place'[r][h] = "branch" <=> place[r][h] = "branch")

FoldStep == \E f \in 1..Folders :
    FoldStart(f) \/ FoldOpen(f) \/ FoldAsk(f) \/ FoldWalk(f)
    \/ FoldWrite(f) \/ FoldHead(f) \/ FoldCut(f)

\* One commit is somewhere else, in one repository.
LEMMA PlacedElsewhere ==
    ASSUME RefsOK, NEW r \in Repos, NEW h \in Hashes, NEW to \in Place, Placed(r, h, to)
    PROVE  /\ place' \in [Repos -> [Hashes -> Place]]
           /\ merged \subseteq merged'
           /\ \A q \in Repos, g \in Hashes : place'[q][g] = "main" => g \in merged'
           /\ \A q \in Repos : q # r => place'[q] = place[q]
           /\ \A g \in Hashes : place'[r][g] = IF g = h THEN to ELSE place[r][g]
<1>1. place \in [Repos -> [Hashes -> Place]]
  BY DEF RefsOK
<1>2. place' = [place EXCEPT ![r] = [place[r] EXCEPT ![h] = to]]
  BY <1>1 DEF Placed
<1>3. [place[r] EXCEPT ![h] = to] \in [Hashes -> Place]
  BY <1>1
<1>4. place' \in [Repos -> [Hashes -> Place]]
  BY <1>1, <1>2, <1>3
<1>5. place'[r] = [place[r] EXCEPT ![h] = to] /\ \A q \in Repos : q # r => place'[q] = place[q]
  BY <1>1, <1>2
<1>6. \A g \in Hashes : place'[r][g] = IF g = h THEN to ELSE place[r][g]
  BY <1>1, <1>5
<1>7. merged \subseteq merged' /\ (to = "main" => h \in merged')
  BY DEF Placed
<1>8. ASSUME NEW q \in Repos, NEW g \in Hashes, place'[q][g] = "main" PROVE g \in merged'
  <2>1. place[q][g] = "main" \/ (g = h /\ to = "main")
    BY <1>5, <1>6, <1>8
  <2>2. QED
    BY <1>7, <2>1 DEF RefsOK
<1>9. QED
  BY <1>4, <1>5, <1>6, <1>7, <1>8

\* The refs of one repository move: its listing is another.
LEMMA RefsMoved ==
    ASSUME RefsOK, NEW r \in Repos, RefsMove(r)
    PROVE  /\ listing' \in [Repos -> Nat] /\ present' \subseteq Repos
           /\ listing'[r] = listing[r] + 1
           /\ \A q \in Repos : q # r => listing'[q] = listing[q]
  BY DEF RefsMove, RefsOK

\* No step but a move of its refs changes what is on the branches of one.
LEMMA RefsStep ==
    ASSUME RefsOK, [EvidenceNext]_evidenceVars
    PROVE  RefsOK' /\ merged \subseteq merged' /\ \A q \in Repos : Still(q)
<1> USE EvidenceAssumption
<1>a. ASSUME UNCHANGED refs PROVE RefsOK' /\ merged \subseteq merged' /\ \A q \in Repos : Still(q)
  BY <1>a DEF refs, RefsOK, Still
<1>b. ASSUME NEW r \in Repos, NEW h \in Hashes, NEW to \in Place, Placed(r, h, to),
             RefsMove(r), topic' \subseteq Repos
      PROVE  RefsOK' /\ merged \subseteq merged' /\ \A q \in Repos : Still(q)
  <2>1. RefsOK' /\ merged \subseteq merged'
    BY <1>b, PlacedElsewhere, RefsMoved DEF RefsOK
  <2>2. Still(r)
    BY <1>b, RefsMoved DEF Still, RefsOK
  <2>3. ASSUME NEW q \in Repos, q # r PROVE Still(q)
    BY <1>b, <2>3, PlacedElsewhere, RefsMoved DEF Still, RefsOK
  <2>4. QED
    BY <2>1, <2>2, <2>3
<1>c. ASSUME NEW r \in Repos, NEW h \in Hashes, NEW to \in Place, Placed(r, h, to),
             ObjectsMove(r), {place[r][h], to} \subseteq {"absent", "loose"}
      PROVE  RefsOK' /\ merged \subseteq merged' /\ \A q \in Repos : Still(q)
  <2>1. RefsOK' /\ merged \subseteq merged'
    BY <1>c, PlacedElsewhere DEF RefsOK, ObjectsMove
  <2>2. listing' = listing /\ listing \in [Repos -> Nat]
    BY <1>c DEF ObjectsMove, RefsOK
  <2>3. \A g \in Hashes : place'[r][g] = IF g = h THEN to ELSE place[r][g]
    BY <1>c, PlacedElsewhere
  <2>4. Still(r)
    BY <1>c, <2>2, <2>3 DEF Still
  <2>5. ASSUME NEW q \in Repos, q # r PROVE Still(q)
    BY <1>c, <2>2, <2>5, PlacedElsewhere DEF Still
  <2>6. QED
    BY <2>1, <2>4, <2>5
<1>1. ASSUME NEW r \in Repos, NEW h \in Moving, Commit(r, h)
      PROVE  RefsOK' /\ merged \subseteq merged' /\ \A q \in Repos : Still(q)
  BY <1>1, <1>b DEF Commit, Place, RefsOK
<1>2. ASSUME NEW r \in Repos, NEW h \in Moving, Merge(r, h)
      PROVE  RefsOK' /\ merged \subseteq merged' /\ \A q \in Repos : Still(q)
  BY <1>2, <1>b DEF Merge, Place, RefsOK
<1>3. ASSUME NEW r \in Repos, NEW h \in Moving, ForcePush(r, h)
      PROVE  RefsOK' /\ merged \subseteq merged' /\ \A q \in Repos : Still(q)
  BY <1>3, <1>b DEF ForcePush, Place, RefsOK
<1>4. ASSUME NEW r \in Repos, NEW h \in Moving, FetchObject(r, h)
      PROVE  RefsOK' /\ merged \subseteq merged' /\ \A q \in Repos : Still(q)
  BY <1>4, <1>c DEF FetchObject, Place
<1>5. ASSUME NEW r \in Repos, NEW h \in Moving, Prune(r, h)
      PROVE  RefsOK' /\ merged \subseteq merged' /\ \A q \in Repos : Still(q)
  BY <1>5, <1>c DEF Prune, Place
<1>6. ASSUME NEW r \in Repos, DeleteBranch(r)
      PROVE  RefsOK' /\ merged \subseteq merged' /\ \A q \in Repos : Still(q)
  <2> DEFINE to == [h \in Hashes |-> IF place[r][h] = "branch" THEN "loose" ELSE place[r][h]]
  <2>1. to \in [Hashes -> Place]
    BY DEF RefsOK, Place
  <2>2. place' = [place EXCEPT ![r] = to] /\ merged' = merged /\ topic' \subseteq topic
    BY <1>6 DEF DeleteBranch
  <2>3. \A h \in Hashes : to[h] = "main" => place[r][h] = "main"
    OBVIOUS
  <2> HIDE DEF to
  <2>4. place'[r] = to /\ place' \in [Repos -> [Hashes -> Place]]
        /\ \A q \in Repos : q # r => place'[q] = place[q]
    BY <2>1, <2>2 DEF RefsOK
  <2>5. RefsMove(r)
    BY <1>6 DEF DeleteBranch
  <2>6. RefsOK'
    BY <2>2, <2>3, <2>4, <2>5, RefsMoved DEF RefsOK
  <2>7. \A q \in Repos : Still(q)
    BY <2>4, <2>5, RefsMoved DEF Still, RefsOK
  <2>8. QED
    BY <2>2, <2>6, <2>7
<1>7. ASSUME NEW r \in Repos, Unmount(r) \/ Mount(r)
      PROVE  RefsOK' /\ merged \subseteq merged' /\ \A q \in Repos : Still(q)
  BY <1>7 DEF Unmount, Mount, Still, RefsOK
<1>8. CASE Relink
  BY <1>8, <1>a DEF Relink
<1>9. ASSUME NEW rep \in Reports, File(rep) PROVE UNCHANGED refs
  BY <1>9 DEF File, Act
<1>10. ASSUME NEW u \in Range(Units), FinishUnit(u) \/ Reopen(u) PROVE UNCHANGED refs
  BY <1>10 DEF FinishUnit, Reopen, Act
<1>11. ASSUME NEW d \in Decisions, Propose(d) \/ Answer(d) PROVE UNCHANGED refs
  BY <1>11 DEF Propose, Answer, Act
<1>12. CASE FoldStep
  <2>1. UNCHANGED refs
    BY <1>12 DEF FoldStep, FoldStart, FoldOpen, FoldAsk, FoldWalk, FoldWrite, FoldHead,
        FoldCut, Quiet
  <2>2. QED
    BY <2>1, <1>a
<1>13. CASE UNCHANGED evidenceVars
  BY <1>13, <1>a DEF evidenceVars
<1>14. QED
  BY <1>1, <1>2, <1>3, <1>4, <1>5, <1>6, <1>7, <1>8, <1>9, <1>10, <1>11, <1>12, <1>13, <1>a
     DEF EvidenceNext, FoldStep

\* What a fold that asked its repositories goes on with.
LEMMA AskLeaves ==
    ASSUME NEW f \in 1..Folders, FoldAsk(f), ~Leave(f), fold[f].repos \in SUBSET Repos
    PROVE  \E m :
              /\ Go(f, m) /\ m.pc = "walk" /\ m.read = fold[f].read
              /\ m.repos = fold[f].repos /\ m.keys = fold[f].keys
              /\ \A h \in m.walking : m.home[h] \in m.repos
              /\ \A h \in m.gone : m.home[h] = NoRepo
              /\ \A h \in Hashes : m.by[h] # <<>> =>
                    /\ h \in m.walking => m.by[h] = <<m.home[h], m.items[h]>>
                    /\ h \notin m.walking =>
                          /\ m.by[h] = head.by[h] /\ m.home[h] = m.by[h][1]
                          /\ m.home[h] \in m.repos \cup {NoRepo}
                          /\ m.home[h] # NoRepo
                                => ~HasMoved(m.home[h], m.keys[m.home[h]], m.read, head)
<1> DEFINE me == fold[f]
           knows == [r \in me.repos |-> {h \in DOMAIN me.items : Knows(r, h)}]
           home == [h \in DOMAIN me.items |-> HomeOf(h, me.items[h], me.repos, knows)]
           walking == {h \in DOMAIN home : home[h] # NoRepo
                          /\ \/ HasMoved(home[h], me.keys[home[h]], me.read, head)
                             \/ me.read[h] \in {Unjudged, "unverifiable"}}
           gone == {h \in DOMAIN home : home[h] = NoRepo /\ me.complete}
           passed == {h \in DOMAIN home \ walking : head.by[h] # <<>> /\ head.by[h][1] = home[h]}
           by == [h \in Hashes |-> IF h \in walking THEN <<home[h], me.items[h]>>
                                   ELSE IF h \in passed THEN head.by[h] ELSE <<>>]
           m == [pc |-> "walk", items |-> me.items, read |-> me.read, keys |-> me.keys,
                 repos |-> me.repos, home |-> home, walking |-> walking, gone |-> gone,
                 by |-> by]
<1>1. Go(f, m)
  BY DEF FoldAsk
<1>2. \A h \in DOMAIN me.items : home[h] \in me.repos \cup {NoRepo}
  <2> HIDE DEF knows
  <2>1. QED
    BY HomeIsAsked
<1> HIDE DEF me, knows, home
<1>3. /\ m.pc = "walk" /\ m.read = me.read /\ m.repos = me.repos /\ m.keys = me.keys
      /\ m.items = me.items /\ m.home = home /\ m.walking = walking /\ m.gone = gone
      /\ m.by = by
  OBVIOUS
<1> HIDE DEF m
<1>4. DOMAIN home = DOMAIN me.items
  BY DEF home
<1>5. \A h \in walking : home[h] \in me.repos
  BY <1>2, <1>4
<1>6. \A h \in gone : home[h] = NoRepo
  OBVIOUS
<1>7. ASSUME NEW h \in Hashes, by[h] # <<>>
      PROVE  /\ h \in walking => by[h] = <<home[h], me.items[h]>>
             /\ h \notin walking =>
                   /\ by[h] = head.by[h] /\ home[h] = by[h][1]
                   /\ home[h] \in me.repos \cup {NoRepo}
                   /\ home[h] # NoRepo => ~HasMoved(home[h], me.keys[home[h]], me.read, head)
  <2>1. CASE h \in walking
    BY <2>1
  <2>2. CASE h \notin walking
    <3>1. by[h] = IF h \in passed THEN head.by[h] ELSE <<>>
      BY <2>2
    <3>2. h \in passed
      BY <1>7, <3>1
    <3>3. h \in DOMAIN home /\ head.by[h][1] = home[h]
      BY <3>2
    <3>4. home[h] # NoRepo => ~HasMoved(home[h], me.keys[home[h]], me.read, head)
      BY <2>2, <3>3
    <3> HIDE DEF by, passed, walking
    <3>5. QED
      BY <1>2, <1>4, <2>2, <3>1, <3>2, <3>3, <3>4
  <2>3. QED
    BY <2>1, <2>2
<1> HIDE DEF by, passed, walking, gone
<1>8. QED
  BY <1>1, <1>3, <1>5, <1>6, <1>7 DEF me

\* And one that walked their histories.
LEMMA WalkLeaves ==
    ASSUME NEW f \in 1..Folders, FoldWalk(f), ~Leave(f)
    PROVE  \E m :
              /\ Go(f, m) /\ m.pc = "write" /\ m.read = fold[f].read
              /\ m.repos = fold[f].repos /\ m.keys = fold[f].keys /\ m.by = fold[f].by
              /\ \A h \in Hashes :
                    /\ h \in fold[f].gone => m.now[h] = "unverifiable"
                    /\ h \in fold[f].walking \ fold[f].gone =>
                          m.now[h] = VerdictOf(fold[f].home[h], h, fold[f].items[h],
                                               fold[f].keys[fold[f].home[h]])
                    /\ h \notin fold[f].gone \cup fold[f].walking => m.now[h] = fold[f].read[h]
<1> DEFINE me == fold[f]
           judged == [h \in me.gone \cup me.walking |->
                         IF h \in me.gone THEN "unverifiable"
                         ELSE VerdictOf(me.home[h], h, me.items[h], me.keys[me.home[h]])]
           now == [h \in Hashes |-> IF h \in DOMAIN judged THEN judged[h] ELSE me.read[h]]
           m == [pc |-> "write", now |-> now, read |-> me.read, keys |-> me.keys,
                 repos |-> me.repos, by |-> me.by]
<1>1. Go(f, m)
  BY DEF FoldWalk
<1> HIDE DEF me
<1>2. ASSUME NEW h \in Hashes
      PROVE  /\ h \in me.gone => now[h] = "unverifiable"
             /\ h \in me.walking \ me.gone =>
                   now[h] = VerdictOf(me.home[h], h, me.items[h], me.keys[me.home[h]])
             /\ h \notin me.gone \cup me.walking => now[h] = me.read[h]
  OBVIOUS
<1> HIDE DEF now
<1>3. /\ m.pc = "write" /\ m.read = me.read /\ m.repos = me.repos /\ m.keys = me.keys
      /\ m.by = me.by /\ m.now = now
  OBVIOUS
<1> HIDE DEF m
<1>4. QED
  BY <1>1, <1>2, <1>3 DEF me

-----------------------------------------------------------------------------
(* Settled is what a default branch has reached *)

\* What a process has in hand stays so while the commits that have been merged
\* only grow.
LEMMA HandsKept ==
    ASSUME NEW m, HandsOK(m), merged \subseteq merged'
    PROVE  HandsOK(m)'
  BY DEF HandsOK, Honest

\* One process moves, to what is in order for it.
LEMMA HandsMoved ==
    ASSUME LandedInv, NEW f \in 1..Folders, NEW m, HandsOK(m), Go(f, m),
           UNCHANGED <<refs, filed>>, Honest(verdicts')
    PROVE  LandedInv'
<1>1. /\ DOMAIN fold' = 1..Folders /\ fold'[f] = m
      /\ \A g \in 1..Folders \ {f} : fold'[g] = fold[g]
  BY DEF Go, LandedInv
<1>2. UNCHANGED merged /\ RefsOK' /\ filed' \in Seq(Report)
  BY DEF refs, RefsOK, LandedInv
<1>3. Honest(verdicts)'
  BY <1>2 DEF Honest
<1>4. ASSUME NEW g \in 1..Folders PROVE HandsOK(fold[g])'
  <2>1. PICK n : n = fold'[g]
    OBVIOUS
  <2>2. HandsOK(n)
    BY <1>1, <2>1 DEF LandedInv
  <2>3. HandsOK(n)'
    BY <1>2, <2>2, HandsKept
  <2>4. QED
    BY <2>1, <2>3 DEF HandsOK, Honest
<1>5. QED
  BY <1>1, <1>2, <1>3, <1>4 DEF LandedInv

\* A fold calls settled only what the default branch of the home reaches.
LEMMA HonestWalk ==
    ASSUME RefsOK, NEW m, HandsOK(m), m.pc = "walk", NEW h \in m.walking \cap Hashes,
           VerdictOf(m.home[h], h, m.items[h], m.keys[m.home[h]]) = "settled"
    PROVE  h \in merged
<1>1. m.home[h] \in Repos
  BY DEF HandsOK, Asked
<1>2. Reached(m.home[h], h)
  BY DEF VerdictOf
<1>3. QED
  BY <1>1, <1>2 DEF Reached, RefsOK

\* It holds to begin with.
LEMMA LandedInit == EvidenceInit => LandedInv
<1> SUFFICES ASSUME EvidenceInit PROVE LandedInv
  OBVIOUS
<1> USE EvidenceAssumption
<1>1. PICK start \in Starts : place = start.place /\ topic = start.topic /\ filed = start.filed
  BY DEF EvidenceInit
<1>2. place \in [Repos -> [Hashes -> Place]] /\ topic \subseteq Repos /\ filed \in Seq(Report)
  BY <1>1
<1>3. RefsOK
  BY <1>2 DEF EvidenceInit, RefsOK
<1>4. Honest(verdicts)
  BY DEF EvidenceInit, Honest, Unjudged
<1>5. DOMAIN fold = 1..Folders /\ \A f \in 1..Folders : HandsOK(fold[f])
  BY DEF EvidenceInit, HandsOK, NotFolding, Asked, Walked
<1>6. QED
  BY <1>2, <1>3, <1>4, <1>5 DEF LandedInv

\* Every step of a fold keeps it.
LEMMA LandedFold ==
    ASSUME LandedInv, NEW f \in 1..Folders,
           FoldStart(f) \/ FoldOpen(f) \/ FoldAsk(f) \/ FoldWalk(f)
           \/ FoldWrite(f) \/ FoldHead(f) \/ FoldCut(f)
    PROVE  LandedInv'
<1> USE DEF At, Quiet, project
<1>a. /\ UNCHANGED <<refs, filed>>
  BY DEF FoldStart, FoldOpen, FoldAsk, FoldWalk, FoldWrite, FoldHead, FoldCut
<1>b. HandsOK(fold[f]) /\ Honest(verdicts) /\ RefsOK
  BY DEF LandedInv
<1>c. HandsOK(NotFolding)
  BY DEF HandsOK, NotFolding, Asked, Walked
<1>d. Leave(f) /\ Honest(verdicts') => LandedInv'
  BY <1>a, <1>c, HandsMoved DEF Leave
<1>1. CASE FoldStart(f)
  <2>1. PICK m : Go(f, m) /\ m.pc = "open" /\ m.read = verdicts /\ m.dirs = present
    BY <1>1 DEF FoldStart
  <2>2. HandsOK(m)
    BY <1>b, <2>1 DEF HandsOK, RefsOK, Asked, Walked
  <2>3. Honest(verdicts')
    BY <1>1, <1>b DEF FoldStart, record
  <2>4. QED
    BY <1>a, <2>1, <2>2, <2>3, HandsMoved
<1>2. CASE FoldOpen(f)
  <2>1. Honest(verdicts')
    BY <1>2, <1>b DEF FoldOpen, record
  <2>2. CASE ~Leave(f)
    <3>1. PICK m : Go(f, m) /\ m.pc = "ask" /\ m.read = fold[f].read
                   /\ m.repos = fold[f].dirs \cap present
      BY <1>2, <2>2 DEF FoldOpen
    <3>2. HandsOK(m)
      BY <1>b, <1>2, <3>1 DEF HandsOK, RefsOK, Asked, Walked, FoldOpen
    <3>3. QED
      BY <1>a, <2>1, <3>1, <3>2, HandsMoved
  <2>3. QED
    BY <1>d, <2>1, <2>2
<1>3. CASE FoldAsk(f)
  <2>1. Honest(verdicts')
    BY <1>3, <1>b DEF FoldAsk, record
  <2>2. CASE ~Leave(f)
    <3>1. fold[f].repos \in SUBSET Repos /\ Honest(fold[f].read)
      BY <1>3, <1>b DEF FoldAsk, HandsOK, Asked
    <3>2. PICK m : Go(f, m) /\ m.pc = "walk" /\ m.read = fold[f].read
                   /\ m.repos = fold[f].repos /\ \A h \in m.walking : m.home[h] \in m.repos
      BY <1>3, <2>2, <3>1, AskLeaves
    <3>3. HandsOK(m)
      BY <3>1, <3>2 DEF HandsOK, Asked, Walked
    <3>4. QED
      BY <1>a, <2>1, <3>2, <3>3, HandsMoved
  <2>3. QED
    BY <1>d, <2>1, <2>2
<1>4. CASE FoldWalk(f)
  <2>1. Honest(verdicts')
    BY <1>4, <1>b DEF FoldWalk, record
  <2>2. CASE ~Leave(f)
    <3>1. PICK m :
             /\ Go(f, m) /\ m.pc = "write" /\ m.read = fold[f].read /\ m.repos = fold[f].repos
             /\ \A h \in Hashes :
                   /\ h \in fold[f].gone => m.now[h] = "unverifiable"
                   /\ h \in fold[f].walking \ fold[f].gone =>
                         m.now[h] = VerdictOf(fold[f].home[h], h, fold[f].items[h],
                                              fold[f].keys[fold[f].home[h]])
                   /\ h \notin fold[f].gone \cup fold[f].walking => m.now[h] = fold[f].read[h]
      BY <1>4, <2>2, WalkLeaves
    <3>2. fold[f].repos \subseteq Repos /\ Honest(fold[f].read) /\ fold[f].pc = "walk"
      BY <1>4, <1>b DEF FoldWalk, HandsOK, Asked
    <3>3. ASSUME NEW h \in Hashes, m.now[h] = "settled" PROVE h \in merged
      <4>1. CASE h \in fold[f].walking \ fold[f].gone
        <5>1. VerdictOf(fold[f].home[h], h, fold[f].items[h],
                        fold[f].keys[fold[f].home[h]]) = "settled"
          BY <3>1, <3>3, <4>1
        <5>2. QED
          BY <1>b, <3>2, <4>1, <5>1, HonestWalk
      <4>2. CASE h \notin fold[f].gone \cup fold[f].walking
        BY <3>1, <3>2, <3>3, <4>2 DEF Honest
      <4>3. CASE h \in fold[f].gone
        BY <3>1, <3>3, <4>3
      <4>4. QED
        BY <4>1, <4>2, <4>3
    <3>4. HandsOK(m)
      BY <3>1, <3>2, <3>3 DEF HandsOK, Asked, Walked, Honest
    <3>5. QED
      BY <1>a, <2>1, <3>1, <3>4, HandsMoved
  <2>3. QED
    BY <1>d, <2>1, <2>2
<1>5. CASE FoldWrite(f)
  <2> DEFINE m == [fold[f] EXCEPT !.pc = "head"]
  <2>1. Go(f, m) /\ fold[f].pc = "write"
    BY <1>5 DEF FoldWrite
  <2>2. Honest(verdicts')
    BY <1>5, <1>b DEF FoldWrite, HandsOK, Walked
  <2>3. HandsOK(m)
    <3>1. "pc" \in DOMAIN fold[f] => m.pc = "head"
      OBVIOUS
    <3>2. QED
      BY <1>b, <2>1, <3>1 DEF HandsOK, Asked, Walked
  <2>4. QED
    BY <1>a, <2>1, <2>2, <2>3, HandsMoved
<1>6. CASE FoldHead(f)
  BY <1>6, <1>b, <1>d DEF FoldHead
<1>7. CASE FoldCut(f)
  <2>1. Honest([h \in Hashes |-> Unjudged])
    BY DEF Honest, Unjudged
  <2>2. QED
    BY <1>7, <1>b, <1>d, <2>1 DEF FoldCut
<1>8. QED
  BY <1>1, <1>2, <1>3, <1>4, <1>5, <1>6, <1>7

\* Every step keeps it.
LEMMA LandedStep == LandedInv /\ [EvidenceNext]_evidenceVars => LandedInv'
<1> SUFFICES ASSUME LandedInv, [EvidenceNext]_evidenceVars PROVE LandedInv'
  OBVIOUS
<1>a. RefsOK' /\ merged \subseteq merged'
  BY RefsStep DEF LandedInv
<1>b. ASSUME UNCHANGED <<verdicts, fold>>, filed' \in Seq(Report) PROVE LandedInv'
  <2>1. Honest(verdicts)'
    BY <1>a, <1>b DEF LandedInv, Honest
  <2>2. ASSUME NEW g \in 1..Folders PROVE HandsOK(fold[g])'
    <3>1. PICK n : n = fold[g]
      OBVIOUS
    <3>2. HandsOK(n)'
      BY <1>a, <3>1, HandsKept DEF LandedInv
    <3>3. fold'[g] = n
      BY <1>b, <3>1
    <3>4. QED
      BY <3>2, <3>3 DEF HandsOK, Honest
  <2>3. QED
    BY <1>a, <1>b, <2>1, <2>2 DEF LandedInv
<1>c. filed \in Seq(Report)
  BY DEF LandedInv
<1>1. ASSUME NEW r \in Repos, NEW h \in Moving,
             Commit(r, h) \/ Merge(r, h) \/ ForcePush(r, h) \/ FetchObject(r, h) \/ Prune(r, h)
      PROVE  LandedInv'
  <2>1. Move
    BY <1>1 DEF Commit, Merge, ForcePush, FetchObject, Prune, RefsMove, ObjectsMove
  <2>2. QED
    BY <1>b, <1>c, <2>1 DEF Move, project, record
<1>2. ASSUME NEW r \in Repos, DeleteBranch(r) \/ Unmount(r) \/ Mount(r) PROVE LandedInv'
  BY <1>2, <1>b, <1>c DEF DeleteBranch, Unmount, Mount, RefsMove, Move, project, record
<1>3. CASE Relink
  BY <1>3, <1>b, <1>c DEF Relink, project
<1>4. ASSUME NEW rep \in Reports, File(rep) PROVE LandedInv'
  <2>1. rep \in Report
    BY EvidenceAssumption
  <2>2. filed' \in Seq(Report)
    BY <1>4, <1>c, <2>1 DEF File
  <2>3. QED
    BY <1>4, <1>b, <2>2 DEF File, Act, record
<1>5. ASSUME NEW u \in Range(Units), FinishUnit(u) \/ Reopen(u) PROVE LandedInv'
  BY <1>5, <1>b, <1>c DEF FinishUnit, Reopen, Act, record
<1>6. ASSUME NEW d \in Decisions, Propose(d) \/ Answer(d) PROVE LandedInv'
  BY <1>6, <1>b, <1>c DEF Propose, Answer, Act, record
<1>7. CASE FoldStep
  BY <1>7, LandedFold DEF FoldStep
<1>8. CASE UNCHANGED evidenceVars
  BY <1>8, <1>b, <1>c DEF evidenceVars, project, record
<1>9. QED
  BY <1>1, <1>2, <1>3, <1>4, <1>5, <1>6, <1>7, <1>8 DEF EvidenceNext, FoldStep

\* The verdicts and what is filed are sound in every behaviour.
THEOREM VerdictsAreHonest == EvidenceSpec => []LandedInv
<1>1. QED
  BY LandedInit, LandedStep, PTL DEF EvidenceSpec

\* deriveAttention says in effect only of a proposal each of whose units offered
\* a commit, and all of whose commits have been on a default branch.
THEOREM InEffectIsLanded == EvidenceSpec => []InEffectHasLanded
<1>1. LandedInv => InEffectHasLanded
  <2> SUFFICES ASSUME LandedInv, NEW d \in Decisions, InEffect(d), NEW u \in Blocks[d]
               PROVE  EvidenceOfUnit(u) # {} /\ EvidenceOfUnit(u) \subseteq merged
    BY DEF InEffectHasLanded
  <2>1. /\ EvidenceOfUnit(u) # {}
        /\ \A h \in EvidenceOfUnit(u) : verdicts[h] = "settled"
    BY DEF InEffect, Landed
  <2>2. EvidenceOfUnit(u) \subseteq Hashes
    <3>1. \A i \in DOMAIN filed : filed[i] \in Report
      BY DEF LandedInv
    <3>2. \A rep \in Report : rep.hash \in Hashes
      BY DEF Report
    <3>3. QED
      BY <3>1, <3>2 DEF EvidenceOfUnit
  <2>3. QED
    BY <2>1, <2>2 DEF LandedInv, Honest
<1>2. QED
  BY <1>1, VerdictsAreHonest, PTL

-----------------------------------------------------------------------------
(* What a fold passes over it would judge the same *)

\* One root commit is one repository's: of clones the head keeps one key.
OneEach == \A q, r \in Repos : Identity[q] = Identity[r] => q = r

\* While the refs move a verdict stays somebody's word, or its key is no listing
\* any more.
LEMMA JudgedLasts ==
    ASSUME NEW r, NEW h \in Hashes, NEW item, NEW key, NEW v, Judged(r, h, item, key, v),
           RefsOK, \A q \in Repos : Still(q)
    PROVE  Judged(r, h, item, key, v)'
<1>1. r \in Repos /\ key.at \in Nat /\ key.at <= listing[r]
  BY DEF Judged
<1>2. listing[r] \in Nat /\ listing'[r] \in Nat /\ listing[r] <= listing'[r]
  BY <1>1 DEF RefsOK, Still
<1>3. key.at <= listing'[r]
  BY <1>1, <1>2
<1>4. ASSUME key.at = listing'[r] PROVE v = VerdictOf(r, h, item, key)'
  <2>1. listing'[r] = listing[r] /\ key.at = listing[r]
    BY <1>1, <1>2, <1>4
  <2>2. (place'[r][h] = "main" <=> place[r][h] = "main")
        /\ (place'[r][h] = "branch" <=> place[r][h] = "branch")
    BY <1>1, <2>1 DEF Still
  <2>3. v = VerdictOf(r, h, item, key)
    BY <2>1 DEF Judged
  <2>4. QED
    BY <2>2, <2>3 DEF VerdictOf, Reached
<1>5. QED
  BY <1>1, <1>3, <1>4 DEF Judged

\* So does what a process has in hand.
LEMMA WordsKept ==
    ASSUME NEW m, WordsOK(m), HandsOK(m), RefsOK, \A q \in Repos : Still(q)
    PROVE  WordsOK(m)'
<1>1. m.pc \in Asked => KeysOK(m)'
  <2> SUFFICES ASSUME m.pc \in Asked PROVE KeysOK(m)'
    OBVIOUS
  <2>1. KeysOK(m) /\ m.repos \subseteq Repos
    BY DEF WordsOK, HandsOK
  <2>2. ASSUME NEW r \in m.repos PROVE m.keys[r].at <= listing'[r]
    <3>1. m.keys[r].at \in Nat /\ m.keys[r].at <= listing[r] /\ r \in Repos
      BY <2>1 DEF KeysOK
    <3>2. listing[r] \in Nat /\ listing'[r] \in Nat /\ listing[r] <= listing'[r]
      BY <3>1 DEF RefsOK, Still
    <3>3. QED
      BY <3>1, <3>2
  <2>3. QED
    BY <2>1, <2>2 DEF KeysOK
<1>2. m.pc = "walk" => WalkOK(m)'
  <2> SUFFICES ASSUME WalkOK(m) PROVE WalkOK(m)'
    BY DEF WordsOK
  <2>1. ASSUME NEW h \in Hashes, m.by[h] # <<>>, h \notin m.walking
        PROVE  Bears(h, m.by[h], m.keys[m.by[h][1]], m.read[h])'
    BY <2>1, JudgedLasts DEF WalkOK, Bears
  <2>2. QED
    BY <2>1 DEF WalkOK
<1>3. m.pc \in Walked => NowOK(m)'
  <2> SUFFICES ASSUME NowOK(m) PROVE NowOK(m)'
    BY DEF WordsOK
  <2>1. ASSUME NEW h \in Hashes, m.by[h] # <<>>
        PROVE  Bears(h, m.by[h], m.keys[m.by[h][1]], m.now[h])'
    BY <2>1, JudgedLasts DEF NowOK, Bears
  <2>2. QED
    BY <2>1 DEF NowOK
<1>4. QED
  BY <1>1, <1>2, <1>3 DEF WordsOK

\* And the head.
LEMMA HeadKept ==
    ASSUME NEW rec, HeadOK(rec), RefsOK, \A q \in Repos : Still(q)
    PROVE  HeadOK(rec)'
<1>1. ASSUME NEW h \in Hashes, rec.by[h] # <<>>
      PROVE  Bears(h, rec.by[h], rec.keys[Identity[rec.by[h][1]]], rec.verdicts[h])'
  BY <1>1, JudgedLasts DEF HeadOK, Bears
<1>2. QED
  BY <1>1 DEF HeadOK

\* The same in hand is the same words.
LEMMA SameWords ==
    ASSUME NEW n, NEW g \in 1..Folders, fold'[g] = n, WordsOK(n)'
    PROVE  WordsOK(fold[g])'
<1>1. KeysOK(n)' => KeysOK(fold[g])'
  BY DEF KeysOK
<1>2. WalkOK(n)' => WalkOK(fold[g])'
  BY DEF WalkOK, Bears, Judged, VerdictOf, Reached
<1>3. NowOK(n)' => NowOK(fold[g])'
  BY DEF NowOK, Bears, Judged, VerdictOf, Reached
<1>4. QED
  BY <1>1, <1>2, <1>3 DEF WordsOK

\* One process moves, to words that are in order, and the head is in order.
LEMMA WordsMoved ==
    ASSUME WordInv, LandedInv', NEW f \in 1..Folders, NEW m, WordsOK(m), Go(f, m),
           UNCHANGED refs, NEW rec, HeadOK(rec), head' = rec
    PROVE  WordInv'
<1>1. /\ fold'[f] = m /\ \A g \in 1..Folders \ {f} : fold'[g] = fold[g]
  BY DEF Go, WordInv, LandedInv
<1>2. place' = place /\ listing' = listing
  BY DEF refs
<1>3. ASSUME NEW g \in 1..Folders PROVE WordsOK(fold[g])'
  <2>1. PICK n : n = fold'[g]
    OBVIOUS
  <2>2. WordsOK(n)
    BY <1>1, <2>1 DEF WordInv
  <2>3. WordsOK(n)'
    BY <1>2, <2>2 DEF WordsOK, KeysOK, WalkOK, NowOK, Bears, Judged, VerdictOf, Reached
  <2>4. QED
    BY <2>1, <2>3, SameWords
<1>4. HeadOK(head)'
  BY <1>2 DEF HeadOK, Bears, Judged, VerdictOf, Reached
<1>5. QED
  BY <1>3, <1>4 DEF WordInv

\* A key that was just read is no later than the listing.
LEMMA FreshKeys ==
    ASSUME RefsOK, NEW R \in SUBSET Repos, NEW m, m.repos = R,
           m.keys = [r \in R |-> Listing(r)]
    PROVE  KeysOK(m)
<1>1. ASSUME NEW r \in R PROVE m.keys[r].at = listing[r] /\ listing[r] \in Nat
  BY DEF Listing, RefsOK
<1>2. QED
  BY <1>1 DEF KeysOK

\* A fold that asked passes over only what the head has a word for.
LEMMA WordsAsked ==
    ASSUME WordInv, NEW f \in 1..Folders, FoldAsk(f), ~Leave(f)
    PROVE  \E m : Go(f, m) /\ WordsOK(m)
<1> DEFINE me == fold[f]
<1>1. /\ me.pc = "ask" /\ me.repos \in SUBSET Repos /\ KeysOK(me)
  BY DEF FoldAsk, At, WordInv, LandedInv, HandsOK, WordsOK, Asked
<1>2. PICK m :
         /\ Go(f, m) /\ m.pc = "walk" /\ m.read = me.read
         /\ m.repos = me.repos /\ m.keys = me.keys
         /\ \A h \in m.walking : m.home[h] \in m.repos
         /\ \A h \in m.gone : m.home[h] = NoRepo
         /\ \A h \in Hashes : m.by[h] # <<>> =>
               /\ h \in m.walking => m.by[h] = <<m.home[h], m.items[h]>>
               /\ h \notin m.walking =>
                     /\ m.by[h] = head.by[h] /\ m.home[h] = m.by[h][1]
                     /\ m.home[h] \in m.repos \cup {NoRepo}
                     /\ m.home[h] # NoRepo
                           => ~HasMoved(m.home[h], m.keys[m.home[h]], m.read, head)
  BY <1>1, AskLeaves
<1> HIDE DEF me
<1>3. KeysOK(m)
  BY <1>1, <1>2 DEF KeysOK
<1>4. m.walking \cap m.gone = {}
  BY <1>1, <1>2, EvidenceAssumption
<1>5. ASSUME NEW h \in Hashes, m.by[h] # <<>>, h \notin m.walking
      PROVE  /\ h \notin m.gone /\ m.by[h][1] \in m.repos
             /\ Bears(h, m.by[h], m.keys[m.by[h][1]], m.read[h])
  <2> DEFINE r == m.by[h][1]
  <2>1. m.by[h] = head.by[h] /\ m.home[h] = r
    BY <1>2, <1>5
  <2>2. /\ Identity[r] \in DOMAIN head.keys
        /\ Bears(h, m.by[h], head.keys[Identity[r]], head.verdicts[h])
    BY <1>5, <2>1 DEF WordInv, HeadOK
  <2>3. r \in Repos /\ r # NoRepo
    BY <2>2, EvidenceAssumption DEF Bears, Judged
  <2>4. r \in m.repos /\ ~HasMoved(r, m.keys[r], m.read, head)
    BY <1>2, <1>5, <2>1, <2>3
  <2>5. head.verdicts = m.read /\ head.keys[Identity[r]] = m.keys[r]
    BY <2>4 DEF HasMoved
  <2>6. h \notin m.gone
    BY <1>2, <2>1, <2>3
  <2>7. QED
    BY <2>2, <2>4, <2>5, <2>6
<1>6. WalkOK(m)
  BY <1>2, <1>4, <1>5 DEF WalkOK
<1>7. WordsOK(m)
  BY <1>2, <1>3, <1>6 DEF WordsOK, Asked, Walked
<1>8. QED
  BY <1>2, <1>7

\* A fold that walked has a verdict for every word it gives.
LEMMA WordsWalked ==
    ASSUME WordInv, NEW f \in 1..Folders, FoldWalk(f), ~Leave(f)
    PROVE  \E m : Go(f, m) /\ WordsOK(m)
<1> DEFINE me == fold[f]
<1>1. /\ me.pc = "walk" /\ me.repos \in SUBSET Repos /\ KeysOK(me) /\ WalkOK(me)
      /\ \A h \in me.walking : me.home[h] \in me.repos
  BY DEF FoldWalk, At, WordInv, LandedInv, HandsOK, WordsOK, Asked
<1>2. PICK m :
         /\ Go(f, m) /\ m.pc = "write" /\ m.read = me.read
         /\ m.repos = me.repos /\ m.keys = me.keys /\ m.by = me.by
         /\ \A h \in Hashes :
               /\ h \in me.gone => m.now[h] = "unverifiable"
               /\ h \in me.walking \ me.gone =>
                     m.now[h] = VerdictOf(me.home[h], h, me.items[h], me.keys[me.home[h]])
               /\ h \notin me.gone \cup me.walking => m.now[h] = me.read[h]
  BY WalkLeaves
<1> HIDE DEF me
<1>3. KeysOK(m)
  BY <1>1, <1>2 DEF KeysOK
<1>4. ASSUME NEW h \in Hashes, m.by[h] # <<>>
      PROVE  m.by[h][1] \in m.repos /\ Bears(h, m.by[h], m.keys[m.by[h][1]], m.now[h])
  <2>1. CASE h \in me.walking
    <3> DEFINE r == me.home[h]
    <3>1. m.by[h] = <<r, me.items[h]>> /\ r \in m.repos /\ h \notin me.gone
      BY <1>1, <1>2, <1>4, <2>1 DEF WalkOK
    <3>2. m.now[h] = VerdictOf(r, h, me.items[h], m.keys[r])
      BY <1>2, <2>1, <3>1
    <3>3. r \in Repos /\ m.keys[r].at \in Nat /\ m.keys[r].at <= listing[r]
      BY <1>1, <1>2, <1>3, <3>1 DEF KeysOK
    <3> HIDE DEF r
    <3>4. QED
      BY <3>1, <3>2, <3>3 DEF Bears, Judged
  <2>2. CASE h \notin me.walking
    <3>1. /\ h \notin me.gone /\ me.by[h][1] \in me.repos
          /\ Bears(h, me.by[h], me.keys[me.by[h][1]], me.read[h])
      BY <1>1, <1>2, <1>4, <2>2 DEF WalkOK
    <3>2. m.now[h] = me.read[h]
      BY <1>2, <2>2, <3>1
    <3>3. QED
      BY <1>2, <3>1, <3>2
  <2>3. QED
    BY <2>1, <2>2
<1>5. WordsOK(m)
  BY <1>2, <1>3, <1>4 DEF WordsOK, NowOK, Asked, Walked
<1>6. QED
  BY <1>2, <1>5

\* The head that is written then has the words of the fold that writes it.
LEMMA HeadWritten ==
    ASSUME OneEach, WordInv, NEW f \in 1..Folders, FoldHead(f)
    PROVE  \E rec : HeadOK(rec) /\ head' = rec
<1> DEFINE me == fold[f]
           rec == [verdicts |-> me.now, keys |-> KeysOf(me.repos, me.keys), by |-> me.by]
<1>1. /\ me.repos \in SUBSET Repos /\ KeysOK(me) /\ NowOK(me)
  BY DEF FoldHead, At, WordInv, LandedInv, HandsOK, WordsOK, Asked, Walked
<1>2. head' = rec
  BY DEF FoldHead
<1> HIDE DEF me
<1>3. /\ rec.verdicts = me.now /\ rec.keys = KeysOf(me.repos, me.keys) /\ rec.by = me.by
  OBVIOUS
<1> HIDE DEF rec
<1>4. ASSUME NEW r \in me.repos
      PROVE  Identity[r] \in DOMAIN rec.keys /\ rec.keys[Identity[r]] = me.keys[r]
  <2>1. {q \in me.repos : Identity[q] = Identity[r]} = {r}
    BY <1>1 DEF OneEach
  <2>2. LastOf({r}) = r
    BY <1>1, OneOf
  <2>3. QED
    BY <1>3, <2>1, <2>2 DEF KeysOf
<1>5. ASSUME NEW h \in Hashes, rec.by[h] # <<>>
      PROVE  /\ Identity[rec.by[h][1]] \in DOMAIN rec.keys
             /\ Bears(h, rec.by[h], rec.keys[Identity[rec.by[h][1]]], rec.verdicts[h])
  BY <1>1, <1>3, <1>4, <1>5 DEF NowOK
<1>6. HeadOK(rec)
  BY <1>5 DEF HeadOK
<1>7. QED
  BY <1>2, <1>6

\* Every step of a fold keeps the words.
LEMMA WordFold ==
    ASSUME OneEach, WordInv, LandedInv', NEW f \in 1..Folders,
           FoldStart(f) \/ FoldOpen(f) \/ FoldAsk(f) \/ FoldWalk(f)
           \/ FoldWrite(f) \/ FoldHead(f) \/ FoldCut(f)
    PROVE  WordInv'
<1>a. UNCHANGED refs
  BY DEF FoldStart, FoldOpen, FoldAsk, FoldWalk, FoldWrite, FoldHead, FoldCut, Quiet
<1>b. HeadOK(head) /\ RefsOK /\ HandsOK(fold[f]) /\ WordsOK(fold[f])
  BY DEF WordInv, LandedInv
<1>c. PICK rec : rec = head
  OBVIOUS
<1>d. HeadOK(rec)
  BY <1>b, <1>c
<1>e. ASSUME NEW m, WordsOK(m), Go(f, m), head' = head PROVE WordInv'
  BY <1>a, <1>c, <1>d, <1>e, WordsMoved
<1>f. WordsOK(NotFolding)
  BY DEF WordsOK, NotFolding, Asked, Walked
<1>g. Leave(f) /\ head' = head => WordInv'
  BY <1>e, <1>f DEF Leave
<1>1. CASE FoldStart(f)
  <2>1. PICK m : Go(f, m) /\ m.pc = "open"
    BY <1>1 DEF FoldStart
  <2>2. WordsOK(m)
    BY <2>1 DEF WordsOK, Asked, Walked
  <2>3. QED
    BY <1>1, <1>e, <2>1, <2>2 DEF FoldStart, record
<1>2. CASE FoldOpen(f)
  <2>1. head' = head
    BY <1>2 DEF FoldOpen, record
  <2>2. CASE ~Leave(f)
    <3>1. fold[f].dirs \cap present \in SUBSET Repos
      BY <1>2, <1>b DEF FoldOpen, At, HandsOK
    <3>2. PICK m : Go(f, m) /\ m.pc = "ask" /\ m.repos = fold[f].dirs \cap present
                   /\ m.keys = [r \in fold[f].dirs \cap present |-> Listing(r)]
      BY <1>2, <2>2 DEF FoldOpen
    <3>3. KeysOK(m)
      BY <1>b, <3>1, <3>2, FreshKeys
    <3>4. WordsOK(m)
      BY <3>2, <3>3 DEF WordsOK, Walked
    <3>5. QED
      BY <1>e, <2>1, <3>2, <3>4
  <2>3. QED
    BY <1>g, <2>1, <2>2
<1>3. CASE FoldAsk(f)
  BY <1>3, <1>e, <1>g, WordsAsked DEF FoldAsk, record
<1>4. CASE FoldWalk(f)
  BY <1>4, <1>e, <1>g, WordsWalked DEF FoldWalk, record
<1>5. CASE FoldWrite(f)
  <2> DEFINE m == [fold[f] EXCEPT !.pc = "head"]
  <2>1. Go(f, m) /\ fold[f].pc = "write" /\ head' = head
    BY <1>5 DEF FoldWrite, At
  <2>2. WordsOK(m)
    <3>1. "pc" \in DOMAIN fold[f] => m.pc = "head"
      OBVIOUS
    <3>2. QED
      BY <1>b, <2>1, <3>1 DEF WordsOK, KeysOK, NowOK, Asked, Walked
  <2> HIDE DEF m
  <2>3. QED
    BY <1>e, <2>1, <2>2
<1>6. CASE FoldHead(f)
  <2>1. PICK written : HeadOK(written) /\ head' = written
    BY <1>6, HeadWritten
  <2>2. Go(f, NotFolding)
    BY <1>6 DEF FoldHead, Leave
  <2>3. QED
    BY <1>a, <1>f, <2>1, <2>2, WordsMoved
<1>7. CASE FoldCut(f)
  BY <1>7, <1>g DEF FoldCut
<1>8. QED
  BY <1>1, <1>2, <1>3, <1>4, <1>5, <1>6, <1>7

\* Every step keeps them.
LEMMA WordStep == OneEach /\ WordInv /\ [EvidenceNext]_evidenceVars => WordInv'
<1> SUFFICES ASSUME OneEach, WordInv, [EvidenceNext]_evidenceVars PROVE WordInv'
  OBVIOUS
<1>a. LandedInv' /\ RefsOK /\ \A q \in Repos : Still(q)
  BY LandedStep, RefsStep DEF WordInv, LandedInv
<1>b. ASSUME NEW rec, HeadOK(rec), head' = rec, fold' = fold PROVE WordInv'
  <2>1. HeadOK(rec)'
    BY <1>a, <1>b, HeadKept
  <2>2. HeadOK(head)'
    BY <1>b, <2>1 DEF HeadOK, Bears, Judged, VerdictOf, Reached
  <2>3. ASSUME NEW g \in 1..Folders PROVE WordsOK(fold[g])'
    <3>1. PICK n : n = fold[g]
      OBVIOUS
    <3>2. WordsOK(n) /\ HandsOK(n)
      BY <3>1 DEF WordInv, LandedInv
    <3>3. WordsOK(n)'
      BY <1>a, <3>2, WordsKept
    <3>4. fold'[g] = n
      BY <1>b, <3>1
    <3>5. QED
      BY <3>3, <3>4, SameWords
  <2>4. QED
    BY <1>a, <2>2, <2>3 DEF WordInv
<1>c. ASSUME UNCHANGED <<head, fold>> PROVE WordInv'
  <2>1. PICK rec : rec = head
    OBVIOUS
  <2>2. HeadOK(rec)
    BY <2>1 DEF WordInv
  <2>3. QED
    BY <1>b, <1>c, <2>1, <2>2
<1>1. ASSUME NEW r \in Repos, NEW h \in Moving,
             Commit(r, h) \/ Merge(r, h) \/ ForcePush(r, h) \/ FetchObject(r, h) \/ Prune(r, h)
      PROVE  WordInv'
  <2>1. Move
    BY <1>1 DEF Commit, Merge, ForcePush, FetchObject, Prune, RefsMove, ObjectsMove
  <2>2. QED
    BY <1>c, <2>1 DEF Move, record
<1>2. ASSUME NEW r \in Repos, DeleteBranch(r) \/ Unmount(r) \/ Mount(r) PROVE WordInv'
  BY <1>2, <1>c DEF DeleteBranch, Unmount, Mount, RefsMove, Move, record
<1>3. CASE Relink
  <2>1. HeadOK(NoHead)
    BY DEF HeadOK, NoHead, NobodysWord
  <2>2. head' = NoHead /\ fold' = fold
    BY <1>3 DEF Relink
  <2>3. QED
    BY <1>b, <2>1, <2>2
<1>4. ASSUME NEW rep \in Reports, File(rep) PROVE WordInv'
  BY <1>4, <1>c DEF File, Act, record
<1>5. ASSUME NEW u \in Range(Units), FinishUnit(u) \/ Reopen(u) PROVE WordInv'
  BY <1>5, <1>c DEF FinishUnit, Reopen, Act, record
<1>6. ASSUME NEW d \in Decisions, Propose(d) \/ Answer(d) PROVE WordInv'
  BY <1>6, <1>c DEF Propose, Answer, Act, record
<1>7. CASE FoldStep
  BY <1>7, <1>a, WordFold DEF FoldStep
<1>8. CASE UNCHANGED evidenceVars
  BY <1>8, <1>c DEF evidenceVars, record
<1>9. QED
  BY <1>1, <1>2, <1>3, <1>4, <1>5, <1>6, <1>7, <1>8 DEF EvidenceNext, FoldStep

\* Nobody has a word at first.
LEMMA WordInit == EvidenceInit => WordInv
<1> SUFFICES ASSUME EvidenceInit PROVE WordInv
  OBVIOUS
<1>1. HeadOK(head)
  BY DEF EvidenceInit, HeadOK, NoHead, NobodysWord
<1>2. \A f \in 1..Folders : WordsOK(fold[f])
  BY DEF EvidenceInit, WordsOK, NotFolding, Asked, Walked
<1>3. QED
  BY <1>1, <1>2, LandedInit DEF WordInv

\* The head and every fold keep the word they give, where no two of the linked
\* repositories are clones.
THEOREM WordsAreKept == ASSUME OneEach PROVE EvidenceSpec => []WordInv
<1>1. EvidenceInit => WordInv
  BY WordInit
<1>2. WordInv /\ [EvidenceNext]_evidenceVars => WordInv'
  BY WordStep
<1>3. QED
  BY <1>1, <1>2, PTL DEF EvidenceSpec

\* updateVerdicts: what a fold passes over because nothing moved, it would judge
\* the same, however many folds overlapped before it.
THEOREM PassedOverIsRight == ASSUME OneEach PROVE EvidenceSpec => []SkippedIsRight
<1>1. WordInv => SkippedIsRight
  <2> SUFFICES ASSUME WordInv, NEW h \in TrackedHashes, Skipped(h),
                      head.by[h] = <<HomeNow(h), ItemOf(h)>>
               PROVE  RightNow(h)
    BY DEF SkippedIsRight
  <2> DEFINE r == HomeNow(h)
  <2>1. h \in Hashes /\ head.by[h] # <<>>
    BY DEF TrackedHashes
  <2>2. /\ head.verdicts = verdicts /\ head.keys[Identity[r]] = Listing(r)
    BY DEF Skipped, HasMoved
  <2>3. Judged(r, h, ItemOf(h), Listing(r), verdicts[h])
    <3> HIDE DEF r
    <3>1. head.by[h][1] = r /\ head.by[h][2] = ItemOf(h)
      BY DEF r
    <3>2. Bears(h, head.by[h], head.keys[Identity[r]], head.verdicts[h])
      BY <2>1, <3>1 DEF WordInv, HeadOK
    <3>3. QED
      BY <2>2, <3>1, <3>2 DEF Bears
  <2>4. Listing(r).at = listing[r]
    BY DEF Listing
  <2>5. QED
    BY <2>3, <2>4 DEF Judged, RightNow
<1>2. QED
  BY <1>1, WordsAreKept, PTL
=============================================================================
