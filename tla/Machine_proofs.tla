--------------------------- MODULE Machine_proofs ---------------------------
(***************************************************************************)
(* What one machine keeps for itself can be relied on for: the mini-apps   *)
(* in its key list and its caches, and which project each of its           *)
(* directories answers for.                                                *)
(***************************************************************************)
EXTENDS MiniApps, Checkouts, SequenceTheorems, FiniteSetTheorems, WellFoundedInduction, TLAPS

-----------------------------------------------------------------------------
(***************************************************************************)
(* What the key list, the mark and a load promise, for any number of       *)
(* sessions, lists and releases.                                           *)
(***************************************************************************)

Known == Releases \cup {NoRelease}
Jobs == [seen : Nat, held : Nat, judged : Nat, release : Known, entry : Known,
         mark : Nat, downgrade : BOOLEAN]
Writing == {"manifest", "signature", "entry", "current", "mark"}
Fetching == {"store", "break"} \cup {"compare", "replace", "unlock"}
Points == {"idle", "fetch", "ask", "probe", "probing", "check", "import", "stage",
           "running"} \cup Fetching \cup Writing

(* What the files and the list hold.                                       *)
FilesOK ==
    /\ published \in Nat /\ cache \in Nat /\ mark \in Nat
    /\ lock \in Sessions \cup {NoOne}
    /\ dir \in [Versions -> [manifest : Known, signature : Known, entry : Known]]
    /\ current \in Versions \cup {0}
    /\ {robbed, rewound} \subseteq BOOLEAN
TypeOK == FilesOK /\ pc \in [Sessions -> Points] /\ job \in [Sessions -> Jobs]

(* Only an install writes, and what it writes was published.               *)
WriteOK(s, x, j) ==
    /\ x \in Writing \cup {"ask"} => s \in Installers
    /\ x \in Writing => j.release \in Releases

(* Until a lock is unlinked under a session at work, who is inside holds   *)
(* it, and what it is about to store is no older than what is stored.      *)
SectionOK(s, x, j) ==
    robbed \/ /\ x \in {"compare", "replace", "unlock"} => lock = s
              /\ x = "replace" => j.held >= cache

(* The list a session carries is never older than the one it began with.   *)
ListOK(x, j) ==
    /\ x \in Fetching => j.held >= j.seen
    /\ x \in {"ask", "probe", "probing", "check"} => j.judged >= j.seen

(* What is about to run was allowed, and from its read on it is what was   *)
(* allowed.                                                                *)
LoadOK(x, j) ==
    /\ x \in {"import", "stage", "running"} => Trusted(j.release, j.judged)
    /\ x \in {"stage", "running"} => j.entry = j.release

(* A session at a point with what it holds.                                *)
Fits(s, x, j) == WriteOK(s, x, j) /\ SectionOK(s, x, j) /\ ListOK(x, j) /\ LoadOK(x, j)
IInv == TypeOK /\ \A s \in Sessions : Fits(s, pc[s], job[s])

(* One session moves; the others stay where they are.                      *)
LEMMA GoMoves ==
    ASSUME TypeOK, NEW s \in Sessions, NEW x \in Points, NEW j \in Jobs, Go(s, x, j)
    PROVE  /\ pc' \in [Sessions -> Points] /\ job' \in [Sessions -> Jobs]
           /\ pc'[s] = x /\ job'[s] = j
           /\ \A q \in Sessions \ {s} : pc'[q] = pc[q] /\ job'[q] = job[q]
  BY DEF TypeOK, Go

(* A step that leaves the list and its lock alone keeps the invariant if   *)
(* the session that takes it fits where it goes.                           *)
LEMMA MoveKeeps ==
    ASSUME IInv, NEW s \in Sessions, NEW x \in Points, NEW j \in Jobs, Go(s, x, j),
           FilesOK', UNCHANGED <<cache, lock, robbed>>, Fits(s, x, j)
    PROVE  IInv'
  <1>1. TypeOK' /\ pc'[s] = x /\ job'[s] = j
        /\ \A q \in Sessions \ {s} : pc'[q] = pc[q] /\ job'[q] = job[q]
    BY GoMoves DEF IInv, TypeOK
  <1>2. \A q \in Sessions : Fits(q, pc'[q], job'[q]) BY <1>1 DEF IInv
  <1>3. \A q \in Sessions : Fits(q, pc[q], job[q])'
    BY <1>2 DEF Fits, WriteOK, SectionOK, ListOK, LoadOK, Trusted
  <1> QED BY <1>1, <1>3 DEF IInv

(* What a session may hold, field by field.                                *)
LEMMA JobFields ==
    ASSUME NEW j \in Jobs, NEW d \in Nat, NEW r \in Known, NEW b \in BOOLEAN
    PROVE  /\ NoJob \in Jobs
           /\ [j EXCEPT !.held = d] \in Jobs /\ [j EXCEPT !.seen = d] \in Jobs
           /\ [j EXCEPT !.judged = d] \in Jobs /\ [j EXCEPT !.mark = d] \in Jobs
           /\ [j EXCEPT !.release = r] \in Jobs /\ [j EXCEPT !.entry = r] \in Jobs
           /\ [j EXCEPT !.downgrade = b] \in Jobs
  BY DEF Jobs, NoJob, Known

(* A command ends.                                                         *)
LEMMA EndKeeps ==
    ASSUME IInv, NEW s \in Sessions, End(s), FilesOK', UNCHANGED <<cache, lock, robbed>>
    PROVE  IInv'
  <1>1. NoJob \in Jobs /\ "idle" \in Points BY DEF Jobs, NoJob, Known, Points
  <1>2. Fits(s, "idle", NoJob)
    BY DEF Fits, WriteOK, SectionOK, ListOK, LoadOK, Writing, Fetching
  <1> QED BY <1>1, <1>2, MoveKeeps DEF End

(* A session goes by a list no older than the one it began with.           *)
LEMMA JudgeKeeps ==
    ASSUME IInv, NEW s \in Sessions, NEW j \in Jobs, j.judged >= j.seen, Judge(s, j),
           FilesOK', UNCHANGED <<cache, lock, robbed>>
    PROVE  IInv'
  <1> DEFINE k == [j EXCEPT !.held = 0]
             x == IF s \in Installers THEN "ask" ELSE "probe"
  <1>1. k \in Jobs /\ k.judged = j.judged /\ k.seen = j.seen BY DEF Jobs
  <1>2. x \in Points BY DEF Points
  <1>3. Fits(s, x, k)
    <2>1. WriteOK(s, x, k) BY DEF WriteOK, Writing
    <2>2. SectionOK(s, x, k) /\ LoadOK(x, k) BY DEF SectionOK, LoadOK
    <2>3. ListOK(x, k) BY <1>1 DEF ListOK, Fetching
    <2> QED BY <2>1, <2>2, <2>3 DEF Fits
  <1>4. Go(s, x, k) BY DEF Judge
  <1> HIDE DEF k, x
  <1> QED BY <1>1, <1>2, <1>3, <1>4, MoveKeeps

(* So does one that stored a list and judges by it.                        *)
LEMMA DecideKeeps ==
    ASSUME IInv, NEW s \in Sessions, NEW d \in Nat, d >= job[s].seen, Decide(s, d),
           FilesOK', UNCHANGED <<cache, lock, robbed>>
    PROVE  IInv'
  <1>1. job[s] \in Jobs BY DEF IInv, TypeOK
  <1>2. CASE End(s) BY <1>2, EndKeeps
  <1>3. CASE Judge(s, [job[s] EXCEPT !.judged = d])
    <2> DEFINE j == [job[s] EXCEPT !.judged = d]
    <2>1. j \in Jobs /\ j.judged >= j.seen BY <1>1 DEF Jobs
    <2> HIDE DEF j
    <2> QED BY <1>3, <2>1, JudgeKeeps DEF j
  <1> QED BY <1>2, <1>3 DEF Decide

(* Every step keeps the invariant: one step of the proof per action.       *)
LEMMA StepIInv == IInv /\ [AppsNext]_appsVars => IInv'
<1> SUFFICES ASSUME IInv, [AppsNext]_appsVars PROVE IInv' OBVIOUS
<1> USE MiniAppsAssumption DEF At, Quiet, trust, app
<1>a. TypeOK /\ FilesOK BY DEF IInv, TypeOK
<1>b. ASSUME NEW s \in Sessions
      PROVE  /\ job[s] \in Jobs /\ pc[s] \in Points /\ Fits(s, pc[s], job[s])
             /\ job[s].seen \in Nat /\ job[s].held \in Nat /\ job[s].judged \in Nat
             /\ job[s].mark \in Nat
             /\ job[s].release \in Known /\ job[s].entry \in Known
  BY DEF IInv, TypeOK, Jobs
<1>c. ASSUME UNCHANGED <<published, cache, mark, lock, dir, current, robbed, rewound>>
      PROVE  FilesOK'
  BY <1>a, <1>c DEF FilesOK
<1>d. Selected \in Known BY <1>a DEF Selected, FilesOK, Known
<1>e. cache \in Nat /\ mark \in Nat BY <1>a DEF FilesOK
<1>1. ASSUME NEW s \in Sessions, BeginInstall(s) PROVE IInv'
  <2> DEFINE j == [NoJob EXCEPT !.seen = cache]
  <2>1. j \in Jobs
    BY <1>1, <1>a, <1>b, <1>d, <1>e, JobFields DEF BeginInstall, Jobs, NoJob, Known,
        NoRelease
  <2>2. "fetch" \in Points BY DEF Points, Fetching, Writing
  <2>3. Fits(s, "fetch", j)
    BY <1>1, <1>a, <1>b, <1>d, <1>e DEF BeginInstall, Fits, WriteOK, SectionOK,
        ListOK, LoadOK, Writing, Fetching, Jobs, NoJob
  <2>4. Go(s, "fetch", j) BY <1>1 DEF BeginInstall
  <2>5. FilesOK' BY <1>1, <1>c DEF BeginInstall
  <2>6. UNCHANGED <<cache, lock, robbed>> BY <1>1 DEF BeginInstall
  <2> HIDE DEF j
  <2> QED BY <2>1, <2>2, <2>3, <2>4, <2>5, <2>6, MoveKeeps
<1>2. ASSUME NEW s \in Sessions, BeginLoad(s) PROVE IInv'
  <2> DEFINE i == [NoJob EXCEPT !.seen = cache, !.release = Selected]
  <2>1. CASE Go(s, "fetch", i)
    <3> DEFINE j == i
    <3>1. j \in Jobs
      BY <1>2, <2>1, <1>a, <1>b, <1>d, <1>e, JobFields DEF BeginLoad, Jobs, NoJob,
          Known, NoRelease
    <3>2. "fetch" \in Points BY DEF Points, Fetching, Writing
    <3>3. Fits(s, "fetch", j)
      BY <1>2, <2>1, <1>a, <1>b, <1>d, <1>e DEF BeginLoad, Fits, WriteOK, SectionOK,
          ListOK, LoadOK, Writing, Fetching, Jobs, NoJob
    <3>4. Go(s, "fetch", j) BY <1>2, <2>1 DEF BeginLoad
    <3>5. FilesOK' BY <1>2, <2>1, <1>c DEF BeginLoad
    <3>6. UNCHANGED <<cache, lock, robbed>> BY <1>2, <2>1 DEF BeginLoad
    <3> HIDE DEF j
    <3> QED BY <3>1, <3>2, <3>3, <3>4, <3>5, <3>6, MoveKeeps
  <2>2. CASE Judge(s, [i EXCEPT !.judged = cache])
    <3> DEFINE j == [i EXCEPT !.judged = cache]
    <3>0. i \in Jobs /\ i.seen = cache BY <1>d, <1>e DEF Jobs, NoJob, Known, NoRelease
    <3>1. j \in Jobs /\ j.judged >= j.seen
      <4>1. j.judged = cache /\ j.seen = cache BY DEF NoJob
      <4>2. j \in Jobs BY <3>0, <1>e DEF Jobs
      <4> QED BY <4>1, <4>2, <1>e
    <3>2. FilesOK' /\ UNCHANGED <<cache, lock, robbed>> BY <1>2, <1>c DEF BeginLoad
    <3> HIDE DEF j
    <3> QED BY <2>2, <3>1, <3>2, JudgeKeeps DEF j
  <2> QED BY <1>2, <2>1, <2>2 DEF BeginLoad
<1>3. ASSUME NEW s \in Sessions, Served(s) PROVE IInv'
  <2>0. FilesOK' /\ UNCHANGED <<cache, lock, robbed>> BY <1>3, <1>c DEF Served
  <2>1. CASE End(s) BY <2>0, <2>1, EndKeeps
  <2>2. CASE Judge(s, [job[s] EXCEPT !.judged = job[s].seen])
    <3> DEFINE j == [job[s] EXCEPT !.judged = job[s].seen]
    <3>1. j \in Jobs /\ j.judged >= j.seen BY <1>b DEF Jobs
    <3> HIDE DEF j
    <3> QED BY <2>0, <2>2, <3>1, JudgeKeeps DEF j
  <2>3. ASSUME NEW d \in Acceptable, ~(d < job[s].seen),
               Go(s, "store", [job[s] EXCEPT !.held = d])
        PROVE  IInv'
    <3> DEFINE j == [job[s] EXCEPT !.held = d]
    <3>1. d \in Nat BY <1>a DEF Acceptable, FilesOK
    <3>2. j \in Jobs /\ j.held >= j.seen BY <2>3, <3>1, <1>b DEF Jobs
    <3>3. "store" \in Points /\ Fits(s, "store", j)
      BY <3>2 DEF Points, Fits, WriteOK, SectionOK, ListOK, LoadOK, Writing, Fetching
    <3> HIDE DEF j
    <3> QED BY <2>0, <2>3, <3>2, <3>3, MoveKeeps DEF j
  <2> QED BY <1>3, <2>1, <2>2, <2>3 DEF Served
<1>4. ASSUME NEW s \in Sessions, NotModified(s) PROVE IInv'
  <2>0. FilesOK' /\ UNCHANGED <<cache, lock, robbed>> BY <1>4, <1>c DEF NotModified
  <2>1. CASE End(s) BY <2>0, <2>1, EndKeeps
  <2>2. CASE Go(s, "store", [job[s] EXCEPT !.held = job[s].seen])
    <3> DEFINE j == [job[s] EXCEPT !.held = job[s].seen]
    <3>1. j \in Jobs BY <1>b, <1>e DEF Jobs
    <3>2. "store" \in Points BY DEF Points, Fetching, Writing
    <3>3. Fits(s, "store", j)
      BY <1>4, <2>2, <1>b, <1>e DEF Fits, WriteOK, SectionOK, ListOK, LoadOK, Writing,
            Fetching, Jobs
    <3> HIDE DEF j
    <3> QED BY <2>0, <2>2, <3>1, <3>2, <3>3, MoveKeeps DEF j
  <2> QED BY <1>4, <2>1, <2>2 DEF NotModified
<1>5. ASSUME NEW s \in Sessions, NoList(s) PROVE IInv'
  <2>0. FilesOK' /\ UNCHANGED <<cache, lock, robbed>> BY <1>5, <1>c DEF NoList
  <2>1. CASE End(s) BY <2>0, <2>1, EndKeeps
  <2>2. CASE Judge(s, [job[s] EXCEPT !.judged = job[s].seen])
    <3> DEFINE j == [job[s] EXCEPT !.judged = job[s].seen]
    <3>1. j \in Jobs /\ j.judged >= j.seen BY <1>b, <1>e DEF Jobs
    <3> HIDE DEF j
    <3> QED BY <2>0, <2>2, <3>1, JudgeKeeps DEF j
  <2> QED BY <1>5, <2>1, <2>2 DEF NoList
<1>6. ASSUME NEW s \in Sessions, TakeLock(s) PROVE IInv'
  <2>1. Go(s, "compare", job[s]) /\ job[s] \in Jobs /\ "compare" \in Points
    BY <1>6, <1>b DEF TakeLock, Points, Fetching
  <2>2. TypeOK' /\ pc'[s] = "compare" /\ job'[s] = job[s]
        /\ \A q \in Sessions \ {s} : pc'[q] = pc[q] /\ job'[q] = job[q]
    BY <1>6, <1>a, <1>b, <2>1, GoMoves DEF TakeLock, TypeOK, FilesOK
  <2>3. Fits(s, pc[s], job[s])'
    BY <1>6, <1>b, <2>2 DEF TakeLock, Fits, WriteOK, SectionOK, ListOK, LoadOK,
        Trusted, Writing, Fetching, NoOne, Sessions
  <2>4. ASSUME NEW q \in Sessions \ {s} PROVE Fits(q, pc[q], job[q])'
    BY <1>6, <1>a, <1>b, <2>2 DEF TakeLock, Fits, WriteOK, SectionOK, ListOK, LoadOK,
          Trusted, Writing, Fetching, NoOne, Sessions
  <2> QED BY <2>2, <2>3, <2>4 DEF IInv
<1>7. ASSUME NEW s \in Sessions, JudgeLock(s) PROVE IInv'
  <2> DEFINE j == job[s]
  <2>1. j \in Jobs
    BY <1>7, <1>a, <1>b, <1>d, <1>e, JobFields DEF JudgeLock, Jobs, NoJob, Known,
        NoRelease
  <2>2. "break" \in Points BY DEF Points, Fetching, Writing
  <2>3. Fits(s, "break", j)
    BY <1>7, <1>a, <1>b, <1>d, <1>e DEF JudgeLock, Fits, WriteOK, SectionOK, ListOK,
        LoadOK, Writing, Fetching, Jobs, NoJob
  <2>4. Go(s, "break", j) BY <1>7 DEF JudgeLock
  <2>5. FilesOK' BY <1>7, <1>c DEF JudgeLock
  <2>6. UNCHANGED <<cache, lock, robbed>> BY <1>7 DEF JudgeLock
  <2> HIDE DEF j
  <2> QED BY <2>1, <2>2, <2>3, <2>4, <2>5, <2>6, MoveKeeps
<1>8. ASSUME NEW s \in Sessions, BreakLock(s) PROVE IInv'
  <2>1. Go(s, "store", job[s]) /\ job[s] \in Jobs /\ "store" \in Points
    BY <1>8, <1>b DEF BreakLock, Points, Fetching
  <2>2. TypeOK' /\ pc'[s] = "store" /\ job'[s] = job[s]
        /\ \A q \in Sessions \ {s} : pc'[q] = pc[q] /\ job'[q] = job[q]
    BY <1>8, <1>a, <1>b, <2>1, GoMoves DEF BreakLock, TypeOK, FilesOK
  <2>3. Fits(s, pc[s], job[s])'
    BY <1>8, <1>b, <2>2 DEF BreakLock, Fits, WriteOK, SectionOK, ListOK, LoadOK,
        Trusted, Writing, Fetching, InSection
  <2>4. ASSUME NEW q \in Sessions \ {s} PROVE Fits(q, pc[q], job[q])'
    BY <1>8, <1>a, <1>b, <2>2 DEF BreakLock, Fits, WriteOK, SectionOK, ListOK, LoadOK,
          Trusted, Writing, Fetching, InSection
  <2> QED BY <2>2, <2>3, <2>4 DEF IInv
<1>9. ASSUME NEW s \in Sessions, Compare(s) PROVE IInv'
  <2>0. FilesOK' /\ UNCHANGED <<cache, lock, robbed>> BY <1>9, <1>c DEF Compare
  <2>1. CASE Go(s, "unlock", [job[s] EXCEPT !.held = cache]) /\ Newer(s)
    <3> DEFINE j == [job[s] EXCEPT !.held = cache]
    <3>1. j \in Jobs BY <1>b, <1>e DEF Jobs
    <3>2. "unlock" \in Points BY DEF Points, Fetching, Writing
    <3>3. Fits(s, "unlock", j)
      BY <1>9, <2>1, <1>b, <1>e DEF Compare, Newer, Fits, WriteOK, SectionOK, ListOK,
            LoadOK, Writing, Fetching, Jobs
    <3> HIDE DEF j
    <3> QED BY <2>0, <2>1, <3>1, <3>2, <3>3, MoveKeeps DEF j
  <2>2. CASE Go(s, "replace", job[s]) /\ ~Newer(s)
    <3> DEFINE j == job[s]
    <3>1. j \in Jobs BY <1>b, <1>e DEF Jobs
    <3>2. "replace" \in Points BY DEF Points, Fetching, Writing
    <3>3. Fits(s, "replace", j)
      BY <1>9, <2>2, <1>b, <1>e DEF Compare, Newer, Fits, WriteOK, SectionOK, ListOK,
            LoadOK, Writing, Fetching, Jobs
    <3> HIDE DEF j
    <3> QED BY <2>0, <2>2, <3>1, <3>2, <3>3, MoveKeeps DEF j
  <2> QED BY <1>9, <2>1, <2>2 DEF Compare
<1>10. ASSUME NEW s \in Sessions, Replace(s) PROVE IInv'
  <2>1. Go(s, "unlock", job[s]) /\ job[s] \in Jobs /\ "unlock" \in Points
    BY <1>10, <1>b DEF Replace, Points, Fetching
  <2>2. TypeOK' /\ pc'[s] = "unlock" /\ job'[s] = job[s]
        /\ \A q \in Sessions \ {s} : pc'[q] = pc[q] /\ job'[q] = job[q]
    BY <1>10, <1>a, <1>b, <2>1, GoMoves DEF Replace, TypeOK, FilesOK
  <2>3. Fits(s, pc[s], job[s])'
    BY <1>10, <1>b, <2>2 DEF Replace, Fits, WriteOK, SectionOK, ListOK, LoadOK,
        Trusted, Writing, Fetching, FilesOK
  <2>4. ASSUME NEW q \in Sessions \ {s} PROVE Fits(q, pc[q], job[q])'
    BY <1>10, <1>a, <1>b, <2>2 DEF Replace, Fits, WriteOK, SectionOK, ListOK, LoadOK,
          Trusted, Writing, Fetching, FilesOK
  <2> QED BY <2>2, <2>3, <2>4 DEF IInv
<1>11. ASSUME NEW s \in Sessions, Unlock(s) PROVE IInv'
  <2>1. cache' = cache /\ job[s].held \in Nat /\ job[s].held >= job[s].seen
    BY <1>11, <1>b DEF Unlock, Fits, ListOK, Fetching
  <2>2. \A q \in Sessions : SectionOK(q, pc[q], job[q]) /\ q # s
        /\ InSection(q) => robbed'
    BY <1>11, <1>b DEF Unlock, SectionOK, InSection
  <2>3. \E x \in Points, j \in Jobs : Go(s, x, j) /\ x \in {"idle", "ask", "probe"}
           /\ WriteOK(s, x, j) /\ ListOK(x, j)
    <3>1. CASE End(s)
      <4>1. "idle" \in Points /\ NoJob \in Jobs BY DEF Points, Jobs, NoJob, Known
      <4>2. WriteOK(s, "idle", NoJob) /\ ListOK("idle", NoJob)
        BY DEF WriteOK, ListOK, Writing, Fetching
      <4> QED BY <3>1, <4>1, <4>2 DEF End
    <3>2. CASE Judge(s, [job[s] EXCEPT !.judged = job[s].held])
      <4> DEFINE j == [[job[s] EXCEPT !.judged = job[s].held] EXCEPT !.held = 0]
                 x == IF s \in Installers THEN "ask" ELSE "probe"
      <4>1. j \in Jobs /\ j.judged >= j.seen BY <1>b, <2>1 DEF Jobs
      <4>2. x \in Points /\ x \in {"ask", "probe"} BY DEF Points
      <4>3. WriteOK(s, x, j) BY DEF WriteOK, Writing
      <4>4. ListOK(x, j) BY <4>1, <4>2 DEF ListOK, Fetching
      <4>5. Go(s, x, j) BY <3>2 DEF Judge
      <4> HIDE DEF j, x
      <4> QED BY <4>1, <4>2, <4>3, <4>4, <4>5
    <3> QED BY <1>11, <3>1, <3>2 DEF Unlock, Decide
  <2>4. PICK x \in Points, j \in Jobs : Go(s, x, j) /\ x \in {"idle", "ask", "probe"}
           /\ WriteOK(s, x, j) /\ ListOK(x, j)
    BY <2>3
  <2>5. TypeOK' /\ pc'[s] = x /\ job'[s] = j
        /\ \A q \in Sessions \ {s} : pc'[q] = pc[q] /\ job'[q] = job[q]
    BY <1>11, <1>a, <2>4, GoMoves DEF Unlock, TypeOK, FilesOK
  <2>6. Fits(s, pc[s], job[s])'
    BY <2>4, <2>5 DEF Fits, WriteOK, SectionOK, ListOK, LoadOK, Trusted
  <2>7. ASSUME NEW q \in Sessions \ {s} PROVE Fits(q, pc[q], job[q])'
    <3>1. SectionOK(q, pc[q], job[q])'
      BY <1>11, <1>b, <2>2, <2>5 DEF Unlock, Fits, SectionOK, InSection
    <3> QED BY <1>b, <2>5, <3>1 DEF Fits, WriteOK, ListOK, LoadOK, Trusted
  <2> QED BY <2>5, <2>6, <2>7 DEF IInv
<1>12. ASSUME NEW s \in Sessions, GiveUp(s) PROVE IInv'
  <2>0. FilesOK' /\ UNCHANGED <<cache, lock, robbed>> BY <1>12, <1>c DEF GiveUp
  <2>1. job[s].held >= job[s].seen
    BY <1>12, <1>b DEF GiveUp, Fits, ListOK, Fetching
  <2>2. CASE End(s) BY <2>0, <2>2, EndKeeps
  <2>3. CASE Newer(s) /\ Decide(s, cache)
    <3>1. cache \in Nat /\ cache >= job[s].seen
      BY <2>1, <2>3, <1>a, <1>b, <1>e DEF Newer
    <3> QED BY <2>0, <2>3, <3>1, DecideKeeps
  <2>4. CASE Decide(s, job[s].held)
    <3>1. job[s].held \in Nat BY <1>b
    <3> QED BY <2>0, <2>1, <2>4, <3>1, DecideKeeps
  <2> QED BY <1>12, <2>2, <2>3, <2>4 DEF GiveUp
<1>13. ASSUME NEW s \in Sessions, AlreadyThere(s) PROVE IInv'
  <2>1. FilesOK' /\ End(s) /\ UNCHANGED <<cache, lock, robbed>>
    BY <1>13, <1>c DEF AlreadyThere
  <2> QED BY <2>1, EndKeeps
<1>14. ASSUME NEW s \in Sessions, FetchRelease(s) PROVE IInv'
  <2>0. FilesOK' /\ UNCHANGED <<cache, lock, robbed>> BY <1>14, <1>c DEF FetchRelease
  <2>1. CASE End(s) BY <2>0, <2>1, EndKeeps
  <2>2. ASSUME NEW r \in Releases, NEW allow \in BOOLEAN,
               Go(s, "manifest",
                  [NoJob EXCEPT !.release = r, !.mark = mark, !.downgrade = allow])
        PROVE  IInv'
    <3> DEFINE j == [NoJob EXCEPT !.release = r, !.mark = mark, !.downgrade = allow]
    <3>1. j \in Jobs /\ j.release \in Releases BY <1>a, <1>e DEF Jobs, NoJob, Known
    <3>2. s \in Installers BY <1>14, <1>b DEF FetchRelease, Fits, WriteOK
    <3>3. "manifest" \in Points /\ Fits(s, "manifest", j)
      BY <3>1, <3>2 DEF Points, Fits, WriteOK, SectionOK, ListOK, LoadOK, Writing,
            Fetching
    <3> HIDE DEF j
    <3> QED BY <2>0, <2>2, <3>1, <3>3, MoveKeeps DEF j
  <2> QED BY <1>14, <2>1, <2>2 DEF FetchRelease
<1>15. ASSUME NEW s \in Sessions, NoReleaseServed(s) PROVE IInv'
  <2>1. FilesOK' /\ End(s) /\ UNCHANGED <<cache, lock, robbed>>
    BY <1>15, <1>c DEF NoReleaseServed
  <2> QED BY <2>1, EndKeeps
<1>16. ASSUME NEW s \in Sessions, WriteManifest(s) PROVE IInv'
  <2>1. FilesOK' /\ UNCHANGED <<cache, lock, robbed>>
    BY <1>16, <1>a, <1>b DEF WriteManifest, WriteFile, FilesOK, Known
  <2>2. CASE Go(s, "signature", job[s])
    <3>1. "signature" \in Points BY DEF Points, Writing
    <3>2. Fits(s, "signature", job[s])
      BY <1>16, <1>b DEF WriteManifest, WriteFile, Fits, WriteOK, SectionOK, ListOK,
          LoadOK, Writing, Fetching
    <3> QED BY <1>b, <2>1, <2>2, <3>1, <3>2, MoveKeeps
  <2> QED BY <1>16, <2>2 DEF WriteManifest, WriteFile
<1>17. ASSUME NEW s \in Sessions, WriteSignature(s) PROVE IInv'
  <2>1. FilesOK' /\ UNCHANGED <<cache, lock, robbed>>
    BY <1>17, <1>a, <1>b DEF WriteSignature, WriteFile, FilesOK, Known
  <2>2. CASE Go(s, "entry", job[s])
    <3>1. "entry" \in Points BY DEF Points, Writing
    <3>2. Fits(s, "entry", job[s])
      BY <1>17, <1>b DEF WriteSignature, WriteFile, Fits, WriteOK, SectionOK, ListOK,
          LoadOK, Writing, Fetching
    <3> QED BY <1>b, <2>1, <2>2, <3>1, <3>2, MoveKeeps
  <2> QED BY <1>17, <2>2 DEF WriteSignature, WriteFile
<1>18. ASSUME NEW s \in Sessions, WriteEntry(s) PROVE IInv'
  <2>1. FilesOK' /\ UNCHANGED <<cache, lock, robbed>>
    BY <1>18, <1>a, <1>b DEF WriteEntry, WriteFile, FilesOK, Known
  <2>2. CASE Go(s, "current", job[s])
    <3>1. "current" \in Points BY DEF Points, Writing
    <3>2. Fits(s, "current", job[s])
      BY <1>18, <1>b DEF WriteEntry, WriteFile, Fits, WriteOK, SectionOK, ListOK,
          LoadOK, Writing, Fetching
    <3> QED BY <1>b, <2>1, <2>2, <3>1, <3>2, MoveKeeps
  <2>3. CASE Go(s, "mark", job[s])
    <3>1. "mark" \in Points BY DEF Points, Writing
    <3>2. Fits(s, "mark", job[s])
      BY <1>18, <1>b DEF WriteEntry, WriteFile, Fits, WriteOK, SectionOK, ListOK,
          LoadOK, Writing, Fetching
    <3> QED BY <1>b, <2>1, <2>3, <3>1, <3>2, MoveKeeps
  <2> QED BY <1>18, <2>2, <2>3 DEF WriteEntry, WriteFile, FirstStep
<1>19. ASSUME NEW s \in Sessions, WriteCurrent(s) PROVE IInv'
  <2>0. s \in Installers /\ job[s].release \in Releases
    BY <1>19, <1>b DEF WriteCurrent, Fits, WriteOK, Writing
  <2>1. FilesOK' /\ UNCHANGED <<cache, lock, robbed>>
    BY <1>19, <1>a, <1>b, <2>0 DEF WriteCurrent, FilesOK, Versions
  <2>2. CASE End(s) BY <2>1, <2>2, EndKeeps
  <2>3. CASE Go(s, "mark", job[s])
    <3>1. "mark" \in Points BY DEF Points, Writing
    <3>2. Fits(s, "mark", job[s])
      BY <2>0 DEF Fits, WriteOK, SectionOK, ListOK, LoadOK, Writing, Fetching
    <3> QED BY <1>b, <2>1, <2>3, <3>1, <3>2, MoveKeeps
  <2> QED BY <1>19, <2>2, <2>3 DEF WriteCurrent, Then, OtherStep
<1>20. ASSUME NEW s \in Sessions, SetMark(s) PROVE IInv'
  <2>0. s \in Installers /\ job[s].release \in Releases
    BY <1>20, <1>b DEF SetMark, Fits, WriteOK, Writing
  <2>1. FilesOK' /\ UNCHANGED <<cache, lock, robbed>>
    BY <1>20, <1>a, <1>b, <2>0 DEF SetMark, FilesOK, NewMark
  <2>2. CASE End(s) BY <2>1, <2>2, EndKeeps
  <2>3. CASE Go(s, "current", job[s])
    <3>1. "current" \in Points BY DEF Points, Writing
    <3>2. Fits(s, "current", job[s])
      BY <2>0 DEF Fits, WriteOK, SectionOK, ListOK, LoadOK, Writing, Fetching
    <3> QED BY <1>b, <2>1, <2>3, <3>1, <3>2, MoveKeeps
  <2> QED BY <1>20, <2>2, <2>3 DEF SetMark, Then, OtherStep
<1>21. ASSUME NEW s \in Sessions, RemovePlugin(s) PROVE IInv'
  <2>1. TypeOK'
    <3>1. Empty \in [manifest : Known, signature : Known, entry : Known]
      BY DEF Empty, Known
    <3> QED BY <1>21, <1>a, <3>1 DEF RemovePlugin, TypeOK, FilesOK
  <2>2. \A q \in Sessions : Fits(q, pc[q], job[q])'
    BY <1>21, <1>b DEF RemovePlugin, Fits, WriteOK, SectionOK, ListOK, LoadOK, Trusted
  <2> QED BY <2>1, <2>2 DEF IInv
<1>22. ASSUME NEW s \in Sessions, Probe(s) PROVE IInv'
  <2>0. FilesOK' /\ UNCHANGED <<cache, lock, robbed>> BY <1>22, <1>c DEF Probe
  <2>1. CASE Go(s, "check", job[s])
    <3> DEFINE j == job[s]
    <3>1. j \in Jobs BY <1>b, <1>e DEF Jobs
    <3>2. "check" \in Points BY DEF Points, Fetching, Writing
    <3>3. Fits(s, "check", j)
      BY <1>22, <2>1, <1>b, <1>e DEF Probe, Fits, WriteOK, SectionOK, ListOK, LoadOK,
            Writing, Fetching, Jobs
    <3> HIDE DEF j
    <3> QED BY <2>0, <2>1, <3>1, <3>2, <3>3, MoveKeeps DEF j
  <2>2. CASE Go(s, "probing", [job[s] EXCEPT !.mark = mark])
    <3> DEFINE j == [job[s] EXCEPT !.mark = mark]
    <3>1. j \in Jobs BY <1>b, <1>e DEF Jobs
    <3>2. "probing" \in Points BY DEF Points, Fetching, Writing
    <3>3. Fits(s, "probing", j)
      BY <1>22, <2>2, <1>b, <1>e DEF Probe, Fits, WriteOK, SectionOK, ListOK, LoadOK,
            Writing, Fetching, Jobs
    <3> HIDE DEF j
    <3> QED BY <2>0, <2>2, <3>1, <3>2, <3>3, MoveKeeps DEF j
  <2> QED BY <1>22, <2>1, <2>2 DEF Probe
<1>23. ASSUME NEW s \in Sessions, Probed(s) PROVE IInv'
  <2>0. FilesOK' /\ UNCHANGED <<cache, lock, robbed>>
    BY <1>23, <1>a, <1>b DEF Probed, FilesOK
  <2>1. CASE End(s) BY <2>0, <2>1, EndKeeps
  <2>2. CASE Go(s, "check", job[s])
    <3> DEFINE j == job[s]
    <3>1. j \in Jobs BY <1>b, <1>e DEF Jobs
    <3>2. "check" \in Points BY DEF Points, Fetching, Writing
    <3>3. Fits(s, "check", j)
      BY <1>23, <2>2, <1>b, <1>e DEF Probed, Fits, WriteOK, SectionOK, ListOK, LoadOK,
            Writing, Fetching, Jobs
    <3> HIDE DEF j
    <3> QED BY <2>0, <2>2, <3>1, <3>2, <3>3, MoveKeeps DEF j
  <2>3. CASE Go(s, "check", [job[s] EXCEPT !.mark = 0])
    <3> DEFINE j == [job[s] EXCEPT !.mark = 0]
    <3>1. j \in Jobs BY <1>b, <1>e DEF Jobs
    <3>2. "check" \in Points BY DEF Points, Fetching, Writing
    <3>3. Fits(s, "check", j)
      BY <1>23, <2>3, <1>b, <1>e DEF Probed, Fits, WriteOK, SectionOK, ListOK, LoadOK,
            Writing, Fetching, Jobs
    <3> HIDE DEF j
    <3> QED BY <2>0, <2>3, <3>1, <3>2, <3>3, MoveKeeps DEF j
  <2> QED BY <1>23, <2>1, <2>2, <2>3 DEF Probed
<1>24. ASSUME NEW s \in Sessions, Check(s) PROVE IInv'
  <2>0. FilesOK' /\ UNCHANGED <<cache, lock, robbed>> BY <1>24, <1>c DEF Check
  <2>1. CASE End(s) BY <2>0, <2>1, EndKeeps
  <2>2. CASE Accepted(s) /\ Go(s, "import", [NoJob EXCEPT !.release = job[s].release,
        !.judged = job[s].judged])
    <3> DEFINE j == [NoJob EXCEPT !.release = job[s].release, !.judged = job[s].judged]
    <3>1. j \in Jobs /\ j.release = job[s].release /\ j.judged = job[s].judged
      BY <1>b DEF Jobs, NoJob, Known
    <3>2. "import" \in Points /\ Trusted(j.release, j.judged)
      BY <3>1, <2>2 DEF Points, Accepted
    <3>3. Fits(s, "import", j)
      BY <3>2 DEF Fits, WriteOK, SectionOK, ListOK, LoadOK, Writing, Fetching
    <3> HIDE DEF j
    <3> QED BY <2>0, <2>2, <3>1, <3>2, <3>3, MoveKeeps DEF j
  <2> QED BY <1>24, <2>1, <2>2 DEF Check
<1>25. ASSUME NEW s \in Sessions, Read(s) PROVE IInv'
  <2>0. FilesOK' /\ UNCHANGED <<cache, lock, robbed>> BY <1>25, <1>c DEF Read
  <2>1. CASE End(s) BY <2>0, <2>1, EndKeeps
  <2>2. CASE dir[job[s].release.version].entry = job[s].release
           /\ Go(s, "stage", [job[s] EXCEPT !.entry = job[s].release])
    <3> DEFINE j == [job[s] EXCEPT !.entry = job[s].release]
    <3>1. j \in Jobs /\ j.release = job[s].release /\ j.judged = job[s].judged
          /\ j.entry = j.release
      BY <1>b DEF Jobs
    <3>2. Trusted(j.release, j.judged) BY <1>25, <1>b, <3>1 DEF Read, Fits, LoadOK
    <3>3. "stage" \in Points /\ Fits(s, "stage", j)
      BY <3>1, <3>2
         DEF Points, Fits, WriteOK, SectionOK, ListOK, LoadOK, Writing, Fetching
    <3> HIDE DEF j
    <3> QED BY <2>0, <2>2, <3>1, <3>3, MoveKeeps DEF j
  <2> QED BY <1>25, <2>1, <2>2 DEF Read
<1>26. ASSUME NEW s \in Sessions, Import(s) PROVE IInv'
  <2>0. FilesOK' /\ UNCHANGED <<cache, lock, robbed>> BY <1>26, <1>c DEF Import
  <2>1. [job[s] EXCEPT !.entry = Staged(s)] = job[s] BY <1>b DEF Staged, Jobs
  <2>2. Go(s, "running", job[s]) BY <1>26, <2>1 DEF Import
  <2>3. "running" \in Points /\ Fits(s, "running", job[s])
    BY <1>26, <1>b DEF Import, Points, Fits, WriteOK, SectionOK, ListOK, LoadOK,
          Writing, Fetching
  <2> QED BY <1>b, <2>0, <2>2, <2>3, MoveKeeps
<1>27. ASSUME NEW s \in Sessions, Ran(s) PROVE IInv'
  <2>1. FilesOK' /\ End(s) /\ UNCHANGED <<cache, lock, robbed>> BY <1>27, <1>c DEF Ran
  <2> QED BY <2>1, EndKeeps
<1>28. ASSUME NEW s \in Sessions, Die(s) PROVE IInv'
  <2>1. FilesOK' /\ End(s) /\ UNCHANGED <<cache, lock, robbed>> BY <1>28, <1>c DEF Die
  <2> QED BY <2>1, EndKeeps
<1>29. CASE LockAges
  <2>1. TypeOK' BY <1>29, <1>a DEF LockAges, TypeOK, FilesOK
  <2>2. \A q \in Sessions : Fits(q, pc[q], job[q])'
    BY <1>29, <1>b DEF LockAges, Fits, WriteOK, SectionOK, ListOK, LoadOK, Trusted
  <2> QED BY <2>1, <2>2 DEF IInv
<1>30. CASE Publish
  <2>1. TypeOK' BY <1>30, <1>a DEF Publish, TypeOK, FilesOK
  <2>2. \A q \in Sessions : Fits(q, pc[q], job[q])'
    BY <1>30, <1>b DEF Publish, Fits, WriteOK, SectionOK, ListOK, LoadOK, Trusted
  <2> QED BY <2>1, <2>2 DEF IInv
<1>31. CASE Lapse
  <2>1. TypeOK' BY <1>31, <1>a DEF Lapse, TypeOK, FilesOK
  <2>2. \A q \in Sessions : Fits(q, pc[q], job[q])'
    BY <1>31, <1>b DEF Lapse, Fits, WriteOK, SectionOK, ListOK, LoadOK, Trusted
  <2> QED BY <2>1, <2>2 DEF IInv
<1>32. CASE UNCHANGED appsVars
  BY <1>32, <1>a, <1>b DEF appsVars, IInv, TypeOK, FilesOK, Fits, WriteOK, SectionOK,
        ListOK, LoadOK, Trusted
<1> QED
  BY <1>1, <1>2, <1>3, <1>4, <1>5, <1>6, <1>7, <1>8, <1>9, <1>10, <1>11, <1>12, <1>13,
      <1>14, <1>15, <1>16, <1>17, <1>18, <1>19, <1>20, <1>21, <1>22, <1>23, <1>24,
      <1>25, <1>26, <1>27, <1>28, <1>29, <1>30, <1>31, <1>32 DEF AppsNext

(* The invariant holds in every state, for any number of sessions, lists   *)
(* and releases: each session fits where it is.                            *)
THEOREM AppsInvariant == AppsSpec => []IInv
<1>1. AppsInit => IInv
  <2> SUFFICES ASSUME AppsInit PROVE IInv OBVIOUS
  <2> USE MiniAppsAssumption DEF AppsInit
  <2>1. FilesOK
    <3>1. Empty \in [manifest : Known, signature : Known, entry : Known]
      BY DEF Empty, Known
    <3> QED BY <3>1 DEF FilesOK
  <2>2. NoJob \in Jobs /\ "idle" \in Points BY DEF Jobs, NoJob, Known, Points
  <2>3. \A s \in Sessions : Fits(s, "idle", NoJob)
    BY DEF Fits, WriteOK, SectionOK, ListOK, LoadOK, Writing, Fetching
  <2> QED BY <2>1, <2>2, <2>3 DEF IInv, TypeOK
<1> QED BY <1>1, StepIInv, PTL DEF AppsSpec

(* What runs is one release, whole, that the list the load went by allowed: *)
(* loadPlugin and importVerified against any number of installs beside it.  *)
THEOREM RunsVerified == AppsSpec => []RunsWhatItVerified
<1>1. IInv => RunsWhatItVerified BY DEF IInv, Fits, LoadOK, RunsWhatItVerified, At
<1> QED BY <1>1, AppsInvariant, PTL

(* No command goes by a list older than the one cached when it began, and  *)
(* the cache goes back only after a lock was broken under a session still  *)
(* at work (writeTrustCache, breakStaleTrustLock).                         *)
THEOREM RevocationsAreKept == AppsSpec => RevocationsStay
<1>1. IInv' => \A s \in Sessions :
                  pc'[s] \in {"ask", "check"} => job'[s].judged >= job'[s].seen
  <2> SUFFICES ASSUME IInv', NEW s \in Sessions, pc'[s] \in {"ask", "check"}
               PROVE job'[s].judged >= job'[s].seen OBVIOUS
  <2>1. Fits(s, pc[s], job[s])' BY DEF IInv
  <2>2. ListOK(pc[s], job[s])' BY <2>1 DEF Fits
  <2> QED BY <2>2 DEF ListOK
<1>2. IInv /\ [AppsNext]_appsVars => robbed' \/ cache' >= cache
  <2> SUFFICES ASSUME IInv, [AppsNext]_appsVars PROVE robbed' \/ cache' >= cache OBVIOUS
  <2>1. cache \in Nat BY DEF IInv, TypeOK, FilesOK
  <2>2. ASSUME NEW s \in Sessions, Replace(s) PROVE robbed' \/ cache' >= cache
    BY <2>2, <2>1 DEF Replace, At, Quiet, IInv, Fits, SectionOK
  <2>3. CASE UNCHANGED cache BY <2>1, <2>3
  <2> QED
    BY <2>2, <2>3
       DEF AppsNext, appsVars, trust, app, Quiet, BeginInstall, BeginLoad, Served,
           NotModified, NoList, TakeLock, JudgeLock, BreakLock, Compare, Unlock, GiveUp,
           AlreadyThere, FetchRelease, NoReleaseServed, WriteManifest, WriteSignature,
           WriteEntry, WriteFile, WriteCurrent, SetMark, RemovePlugin, Probe, Probed,
           Check, Read, Import, Ran, Die, LockAges, Publish, Lapse
<1> QED BY <1>1, <1>2, AppsInvariant, StepIInv, PTL DEF AppsSpec, RevocationsStay

----------------------------------------------------------------------------
(* The mark, with one install at a time                                    *)

(* Between its two steps an install has the one in place the other follows, *)
(* and until a load writes an entry back the mark is the one it read.       *)
MarkInv(i) == rewound \/
    /\ current = 0 \/ current >= mark
    /\ pc[i] \in Writing /\ ~(pc[i] = "current" /\ Lower(i)) => mark = job[i].mark
    /\ pc[i] = "mark" /\ ~Lower(i) => current = job[i].release.version
    /\ pc[i] = "current" /\ Lower(i) => mark = job[i].release.version
    /\ pc[i] \in Writing /\ Lower(i) => job[i].downgrade

(* What keeps it without writing: a step of another session that leaves the *)
(* selection and the mark alone, or one that leaves the install not writing. *)
LEMMA MarkKeeps ==
    ASSUME NEW i, MarkInv(i), UNCHANGED <<current, mark, rewound>>,
           pc'[i] \notin Writing \/ UNCHANGED <<pc[i], job[i]>>
    PROVE  MarkInv(i)'
  BY DEF MarkInv, Lower, Writing

(* One step of an install or of a load keeps it, and lowers the mark only    *)
(* where the install was told to.                                           *)
LEMMA StepMark ==
    ASSUME NEW i, Installers = {i}, IInv, IInv', MarkInv(i), [AppsNext]_appsVars
    PROVE  /\ MarkInv(i)'
           /\ rewound' \/ (mark' < mark => job[i].downgrade /\ At(i, "mark"))
<1> USE MiniAppsAssumption DEF At, Quiet, trust, app
<1>a. current \in Nat /\ mark \in Nat /\ i \in Sessions
  BY DEF IInv, TypeOK, FilesOK, Versions, Sessions
<1>b. ASSUME NEW s \in Sessions
      PROVE  /\ job[s] \in Jobs /\ pc[s] \in Points
             /\ pc[s] \in Writing => s = i /\ job[s].release \in Releases
             /\ pc[s] = "ask" => s = i
  BY DEF IInv, TypeOK, Fits, WriteOK
<1>c. /\ job[i].mark \in Nat
      /\ job[i].release \in Releases => job[i].release.version \in Nat \ {0}
  BY <1>a, <1>b DEF Jobs
<1>d. pc \in [Sessions -> Points] /\ job \in [Sessions -> Jobs] BY DEF IInv, TypeOK
<1> DEFINE Aside == /\ UNCHANGED <<current, mark, rewound>>
                    /\ pc'[i] \notin Writing \/ UNCHANGED <<pc[i], job[i]>>
           Goal == /\ MarkInv(i)'
                   /\ rewound' \/ (mark' < mark => job[i].downgrade /\ At(i, "mark"))
<1>e. Aside => Goal BY <1>a, MarkKeeps
<1>1. ASSUME NEW s \in Sessions, BeginInstall(s) PROVE Aside
  BY <1>1, <1>a, <1>b, <1>d DEF BeginInstall, Go, Writing
<1>2. ASSUME NEW s \in Sessions, BeginLoad(s) PROVE Aside
  BY <1>2, <1>a, <1>b, <1>d DEF BeginLoad, Go, Writing, Judge
<1>3. ASSUME NEW s \in Sessions, Served(s) PROVE Aside
  BY <1>3, <1>a, <1>b, <1>d DEF Served, Go, Writing, End, Judge
<1>4. ASSUME NEW s \in Sessions, NotModified(s) PROVE Aside
  BY <1>4, <1>a, <1>b, <1>d DEF NotModified, Go, Writing, End
<1>5. ASSUME NEW s \in Sessions, NoList(s) PROVE Aside
  BY <1>5, <1>a, <1>b, <1>d DEF NoList, Go, Writing, End, Judge
<1>6. ASSUME NEW s \in Sessions, TakeLock(s) PROVE Aside
  BY <1>6, <1>a, <1>b, <1>d DEF TakeLock, Go, Writing
<1>7. ASSUME NEW s \in Sessions, JudgeLock(s) PROVE Aside
  BY <1>7, <1>a, <1>b, <1>d DEF JudgeLock, Go, Writing
<1>8. ASSUME NEW s \in Sessions, BreakLock(s) PROVE Aside
  BY <1>8, <1>a, <1>b, <1>d DEF BreakLock, Go, Writing
<1>9. ASSUME NEW s \in Sessions, Compare(s) PROVE Aside
  BY <1>9, <1>a, <1>b, <1>d DEF Compare, Go, Writing
<1>10. ASSUME NEW s \in Sessions, Replace(s) PROVE Aside
  BY <1>10, <1>a, <1>b, <1>d DEF Replace, Go, Writing
<1>11. ASSUME NEW s \in Sessions, Unlock(s) PROVE Aside
  BY <1>11, <1>a, <1>b, <1>d DEF Unlock, Go, Writing, Decide, End, Judge
<1>12. ASSUME NEW s \in Sessions, GiveUp(s) PROVE Aside
  BY <1>12, <1>a, <1>b, <1>d DEF GiveUp, Go, Writing, Decide, End, Judge
<1>13. ASSUME NEW s \in Sessions, AlreadyThere(s) PROVE Aside
  BY <1>13, <1>a, <1>b, <1>d DEF AlreadyThere, Go, Writing, End
<1>14. ASSUME NEW s \in Sessions, NoReleaseServed(s) PROVE Aside
  BY <1>14, <1>a, <1>b, <1>d DEF NoReleaseServed, Go, Writing, End
<1>15. ASSUME NEW s \in Sessions, Probe(s) PROVE Aside
  BY <1>15, <1>a, <1>b, <1>d DEF Probe, Go, Writing
<1>16. ASSUME NEW s \in Sessions, Check(s) PROVE Aside
  BY <1>16, <1>a, <1>b, <1>d DEF Check, Go, Writing, End
<1>17. ASSUME NEW s \in Sessions, Read(s) PROVE Aside
  BY <1>17, <1>a, <1>b, <1>d DEF Read, Go, Writing, End
<1>18. ASSUME NEW s \in Sessions, Import(s) PROVE Aside
  BY <1>18, <1>a, <1>b, <1>d DEF Import, Go, Writing
<1>19. ASSUME NEW s \in Sessions, Ran(s) PROVE Aside
  BY <1>19, <1>a, <1>b, <1>d DEF Ran, Go, Writing, End
<1>20. ASSUME NEW s \in Sessions, Die(s) PROVE Aside
  BY <1>20, <1>a, <1>b, <1>d DEF Die, Go, Writing, End
<1>21. ASSUME NEW s \in Sessions, FetchRelease(s) PROVE Goal
  <2>1. s = i /\ UNCHANGED <<current, mark, rewound>> BY <1>21, <1>b DEF FetchRelease
  <2>2. CASE End(s) BY <2>1, <2>2, <1>d, <1>e DEF End, Go, Writing
  <2>3. ASSUME NEW r \in Releases, NEW allow \in BOOLEAN, Installable(s, r, allow),
               Go(s, "manifest",
                  [NoJob EXCEPT !.release = r, !.mark = mark, !.downgrade = allow])
        PROVE  Goal
    <3>1. pc'[i] = "manifest" /\ job'[i].release = r /\ job'[i].mark = mark
          /\ job'[i].downgrade = allow
      BY <2>1, <2>3, <1>a, <1>d DEF Go, NoJob
    <3>2. Lower(i)' => allow
      BY <2>1, <2>3, <3>1, <1>a DEF Lower, Installable
    <3> QED BY <2>1, <3>1, <3>2, <1>a DEF MarkInv
  <2> QED BY <1>21, <2>2, <2>3 DEF FetchRelease
<1>22. ASSUME NEW s \in Sessions, WriteManifest(s) PROVE Goal
  <2>1. s = i BY <1>22, <1>b DEF WriteManifest, WriteFile, Writing
  <2>2. pc'[i] = "signature" /\ job'[i] = job[i] /\ UNCHANGED <<current, mark, rewound>>
    BY <1>22, <2>1, <1>a, <1>d DEF WriteManifest, WriteFile, Go
  <2> QED
    BY <1>22, <2>1, <2>2, <1>a DEF WriteManifest, WriteFile, MarkInv, Lower, Writing
<1>23. ASSUME NEW s \in Sessions, WriteSignature(s) PROVE Goal
  <2>1. s = i BY <1>23, <1>b DEF WriteSignature, WriteFile, Writing
  <2>2. pc'[i] = "entry" /\ job'[i] = job[i] /\ UNCHANGED <<current, mark, rewound>>
    BY <1>23, <2>1, <1>a, <1>d DEF WriteSignature, WriteFile, Go
  <2> QED
    BY <1>23, <2>1, <2>2, <1>a DEF WriteSignature, WriteFile, MarkInv, Lower, Writing
<1>24. ASSUME NEW s \in Sessions, WriteEntry(s) PROVE Goal
  <2>1. s = i BY <1>24, <1>b DEF WriteEntry, WriteFile, Writing
  <2>2. pc'[i] = FirstStep(i) /\ job'[i] = job[i] /\ UNCHANGED <<current, mark,
        rewound>>
    BY <1>24, <2>1, <1>a, <1>d DEF WriteEntry, WriteFile, Go
  <2> QED
    BY <1>24, <2>1, <2>2, <1>a DEF WriteEntry, WriteFile, FirstStep, MarkInv, Lower,
        Writing
<1>25. ASSUME NEW s \in Sessions, WriteCurrent(s) PROVE Goal
  <2>1. s = i /\ pc[i] = "current" /\ job[i].release \in Releases
    BY <1>25, <1>b DEF WriteCurrent, Writing
  <2>2. current' = job[i].release.version /\ UNCHANGED <<mark, rewound>>
    BY <1>25, <2>1 DEF WriteCurrent
  <2>3. pc'[i] = IF Lower(i) THEN "idle" ELSE "mark"
    BY <1>25, <2>1, <1>a, <1>d DEF WriteCurrent, Then, FirstStep, OtherStep, End, Go
  <2>4. ~Lower(i) => job'[i] = job[i]
    BY <1>25, <2>1, <1>a, <1>d DEF WriteCurrent, Then, FirstStep, OtherStep, Go
  <2> QED BY <2>1, <2>2, <2>3, <2>4, <1>a, <1>c DEF MarkInv, Lower, Writing
<1>26. ASSUME NEW s \in Sessions, SetMark(s) PROVE Goal
  <2>1. s = i /\ pc[i] = "mark" /\ job[i].release \in Releases
    BY <1>26, <1>b DEF SetMark, Writing
  <2>2. mark' = NewMark(i) /\ UNCHANGED <<current, rewound>> BY <1>26, <2>1 DEF SetMark
  <2>3. pc'[i] = IF Lower(i) THEN "current" ELSE "idle"
    BY <1>26, <2>1, <1>a, <1>d DEF SetMark, Then, FirstStep, OtherStep, End, Go
  <2>4. Lower(i) => job'[i] = job[i]
    BY <1>26, <2>1, <1>a, <1>d DEF SetMark, Then, FirstStep, OtherStep, Go
  <2> QED BY <2>1, <2>2, <2>3, <2>4, <1>a, <1>c DEF MarkInv, Lower, NewMark, Writing
<1>27. ASSUME NEW s \in Sessions, RemovePlugin(s) PROVE Goal
  <2>1. s = i /\ pc[i] = "idle" /\ current' = 0 /\ UNCHANGED <<mark, rewound, pc, job>>
    BY <1>27 DEF RemovePlugin
  <2> QED BY <2>1, <1>a DEF MarkInv, Writing
<1>28. ASSUME NEW s \in Sessions, Probed(s) PROVE Goal
  <2>1. CASE rewound' BY <2>1 DEF MarkInv
  <2>2. CASE ~rewound'
    <3>1. UNCHANGED <<current, mark, rewound>>
      BY <1>28, <2>2, <1>a, <1>b DEF Probed, IInv, TypeOK, FilesOK
    <3>2. pc'[i] \notin Writing \/ UNCHANGED <<pc[i], job[i]>>
      BY <1>28, <1>a, <1>d DEF Probed, End, Go, Writing
    <3> QED BY <3>1, <3>2, <1>e
  <2> QED BY <2>1, <2>2
<1>29. CASE LockAges \/ Publish \/ Lapse \/ UNCHANGED appsVars
  BY <1>29, <1>e DEF LockAges, Publish, Lapse, appsVars
<1> QED
  BY <1>1, <1>2, <1>3, <1>4, <1>5, <1>6, <1>7, <1>8, <1>9, <1>10, <1>11, <1>12, <1>13,
        <1>14, <1>15, <1>16, <1>17, <1>18, <1>19, <1>20, <1>21, <1>22, <1>23, <1>24,
        <1>25, <1>26, <1>27, <1>28, <1>29, <1>e DEF AppsNext

(* With one install at a time the mark is lowered only by an install told   *)
(* to, and what an install that dies leaves selected is not below it        *)
(* (commitSelection), unless a load writes back an entry it read before.    *)
THEOREM MarkIsKept ==
    ASSUME NEW i, Installers = {i}
    PROVE  AppsSpec => MarkKeepsItsWord
<1>1. AppsInit => MarkInv(i) BY DEF AppsInit, MarkInv, Writing, Sessions
<1>2. IInv /\ IInv' /\ MarkInv(i) /\ [AppsNext]_appsVars => MarkInv(i)' BY StepMark
<1>3. IInv /\ IInv' /\ MarkInv(i) /\ [AppsNext]_appsVars =>
         rewound' \/
            /\ mark' < mark => \E s \in Installers : job[s].downgrade /\ At(s, "mark")
            /\ current' # 0 => current' >= mark'
  BY StepMark DEF MarkInv
<1> QED BY <1>1, <1>2, <1>3, AppsInvariant, StepIInv, PTL DEF AppsSpec, MarkKeepsItsWord

-----------------------------------------------------------------------------
(* Proofs about Checkouts: evidence is judged across the same repositories  *)
(* from every directory, a link leaves the ledger only by name, and no      *)
(* directory answers for a project nobody said what stands there is.        *)

(* Paths, as sequences of names                                             *)

Names == UNION {Range(p) : p \in Paths}
Way == Seq(Names)

\* Every non-empty set of naturals has a least element.
LEMMA LeastExists ==
    ASSUME NEW S \in SUBSET Nat, S # {}
    PROVE  \E x \in S : \A y \in S : x =< y
<1>1. PICK x \in S : \A y \in S : ~(<<y, x>> \in OpToRel(<, Nat))
  BY NatLessThanWellFounded, WFMin
<1>2. \A y \in S : ~(y < x)
  BY <1>1 DEF OpToRel
<1>3. QED
  BY <1>2

\* A path is a sequence of names, not the empty one.
LEMMA PathIsWay == ASSUME NEW p \in Paths PROVE p \in Way /\ p # <<>> /\ Len(p) \in Nat \ {0}
<1>1. p \in Seq(Range(p)) /\ p # <<>>
  BY PathsAssumption
<1>2. Range(p) \subseteq Names
  BY DEF Names
<1>3. p \in Seq(Names)
  BY <1>1, <1>2, SeqMonotonic
<1>4. QED
  BY <1>1, <1>3, EmptySeq DEF Way

\* One path holds another when it begins it.
LEMMA HoldsMeans ==
    ASSUME NEW a \in Way, NEW b \in Way
    PROVE  Holds(a, b) <=> Len(a) <= Len(b) /\ \A i \in 1..Len(a) : b[i] = a[i]
<1>1. Len(a) \in Nat /\ Len(b) \in Nat /\ \A i \in 1..Len(b) : b[i] \in Names
  BY LenProperties, ElementOfSeq DEF Way
<1>2. ASSUME Len(a) <= Len(b)
      PROVE  /\ SubSeq(b, 1, Len(a)) \in Way /\ Len(SubSeq(b, 1, Len(a))) = Len(a)
             /\ \A i \in 1..Len(a) : SubSeq(b, 1, Len(a))[i] = b[i]
  <2>1. \A i \in 1..Len(a) : b[i] \in Names
    BY <1>1, <1>2
  <2>2. /\ SubSeq(b, 1, Len(a)) \in Seq(Names)
        /\ Len(SubSeq(b, 1, Len(a))) = IF 1 <= Len(a) THEN Len(a) - 1 + 1 ELSE 0
        /\ \A i \in 1..(Len(a) - 1 + 1) : SubSeq(b, 1, Len(a))[i] = b[1 + i - 1]
    BY <1>1, <2>1, SubSeqProperties
  <2>3. QED
    BY <1>1, <2>2 DEF Way
<1>3. ASSUME Len(a) <= Len(b), \A i \in 1..Len(a) : b[i] = a[i] PROVE SubSeq(b, 1, Len(a)) = a
  BY <1>2, <1>3, SeqEqual DEF Way
<1>4. QED
  BY <1>2, <1>3 DEF Holds

\* To hold is an order, and two paths that hold one are one in the other.
LEMMA HoldsOrder ==
    ASSUME NEW a \in Way, NEW b \in Way, NEW c \in Way
    PROVE  /\ Holds(a, a)
           /\ Holds(a, b) /\ Holds(b, c) => Holds(a, c)
           /\ Holds(a, c) /\ Holds(b, c) /\ Len(a) <= Len(b) => Holds(a, b)
           /\ Holds(a, b) /\ Len(b) <= Len(a) => a = b
<1>1. Len(a) \in Nat /\ Len(b) \in Nat /\ Len(c) \in Nat
  BY LenProperties DEF Way
<1>2. Holds(a, a)
  BY <1>1, HoldsMeans
<1>3. ASSUME Holds(a, b), Holds(b, c) PROVE Holds(a, c)
  <2>1. Len(a) <= Len(b) /\ \A i \in 1..Len(a) : b[i] = a[i]
    BY <1>3, HoldsMeans
  <2>2. Len(b) <= Len(c) /\ \A i \in 1..Len(b) : c[i] = b[i]
    BY <1>3, HoldsMeans
  <2>3. Len(a) <= Len(c) /\ \A i \in 1..Len(a) : c[i] = a[i]
    BY <1>1, <2>1, <2>2
  <2>4. QED
    BY <2>3, HoldsMeans
<1>4. ASSUME Holds(a, c), Holds(b, c), Len(a) <= Len(b) PROVE Holds(a, b)
  <2>1. \A i \in 1..Len(a) : c[i] = a[i]
    BY <1>4, HoldsMeans
  <2>2. \A i \in 1..Len(b) : c[i] = b[i]
    BY <1>4, HoldsMeans
  <2>3. \A i \in 1..Len(a) : b[i] = a[i]
    BY <1>1, <1>4, <2>1, <2>2
  <2>4. QED
    BY <1>4, <2>3, HoldsMeans
<1>5. ASSUME Holds(a, b), Len(b) <= Len(a) PROVE a = b
  <2>1. Len(a) = Len(b) /\ \A i \in 1..Len(a) : b[i] = a[i]
    BY <1>1, <1>5, HoldsMeans
  <2>2. QED
    BY <2>1, SeqEqual DEF Way
<1>6. QED
  BY <1>2, <1>3, <1>4, <1>5

\* What follows a path in one that it holds, and the two put together again.
LEMMA RelativeOf ==
    ASSUME NEW a \in Way, NEW b \in Way, Holds(a, b)
    PROVE  Relative(a, b) \in Way /\ a \o Relative(a, b) = b
<1>1. Len(a) \in Nat /\ Len(b) \in Nat /\ \A i \in 1..Len(b) : b[i] \in Names
  BY LenProperties, ElementOfSeq DEF Way
<1>2. Len(a) <= Len(b) /\ \A i \in 1..Len(a) : b[i] = a[i]
  BY HoldsMeans
<1> DEFINE r == Relative(a, b)
<1>3. /\ r \in Way /\ Len(r) = Len(b) - Len(a)
      /\ \A i \in 1..(Len(b) - Len(a)) : r[i] = b[Len(a) + i]
  <2>1. \A i \in (Len(a) + 1)..Len(b) : b[i] \in Names
    BY <1>1
  <2>2. /\ r \in Seq(Names)
        /\ Len(r) = IF Len(a) + 1 <= Len(b) THEN Len(b) - (Len(a) + 1) + 1 ELSE 0
        /\ \A i \in 1..(Len(b) - (Len(a) + 1) + 1) : r[i] = b[Len(a) + 1 + i - 1]
    BY <1>1, <2>1, SubSeqProperties DEF Relative
  <2> HIDE DEF r
  <2>3. Len(r) = Len(b) - Len(a)
    BY <1>1, <1>2, <2>2
  <2>4. Len(b) - (Len(a) + 1) + 1 = Len(b) - Len(a)
    BY <1>1
  <2>5. ASSUME NEW i \in 1..(Len(b) - Len(a)) PROVE r[i] = b[Len(a) + i]
    <3>1. Len(a) + 1 + i - 1 = Len(a) + i
      BY <1>1
    <3>2. QED
      BY <2>2, <2>4, <3>1
  <2>6. QED
    BY <2>2, <2>3, <2>5 DEF Way
<1> HIDE DEF r
<1>4. /\ a \o r \in Way /\ Len(a \o r) = Len(a) + Len(r)
      /\ \A i \in 1..(Len(a) + Len(r)) : (a \o r)[i] = IF i <= Len(a) THEN a[i] ELSE r[i - Len(a)]
  BY <1>3, ConcatProperties DEF Way
<1>5. \A i \in 1..Len(b) : (a \o r)[i] = b[i]
  <2>1. ASSUME NEW i \in 1..Len(b), i <= Len(a) PROVE (a \o r)[i] = b[i]
    BY <1>1, <1>2, <1>3, <1>4, <2>1
  <2>2. ASSUME NEW i \in 1..Len(b), ~(i <= Len(a)) PROVE (a \o r)[i] = b[i]
    <3>1. i - Len(a) \in 1..(Len(b) - Len(a)) /\ Len(a) + (i - Len(a)) = i
      BY <1>1, <2>2
    <3>2. (a \o r)[i] = r[i - Len(a)]
      BY <1>1, <1>2, <1>3, <1>4, <2>2
    <3>3. QED
      BY <1>3, <3>1, <3>2
  <2>3. QED
    BY <2>1, <2>2
<1>6. Len(a \o r) = Len(b)
  BY <1>1, <1>3, <1>4
<1>7. a \o r = b
  BY <1>4, <1>5, <1>6, SeqEqual DEF Way
<1>8. QED
  BY <1>3, <1>7 DEF r

\* A path followed by another holds it, and what follows is the other.
LEMMA RelativeBack ==
    ASSUME NEW a \in Way, NEW r \in Way
    PROVE  a \o r \in Way /\ Holds(a, a \o r) /\ Relative(a, a \o r) = r
<1>1. Len(a) \in Nat /\ Len(r) \in Nat
  BY LenProperties DEF Way
<1>2. /\ a \o r \in Way /\ Len(a \o r) = Len(a) + Len(r)
      /\ \A i \in 1..(Len(a) + Len(r)) : (a \o r)[i] = IF i <= Len(a) THEN a[i] ELSE r[i - Len(a)]
  BY ConcatProperties DEF Way
<1>3. \A i \in 1..Len(a) : (a \o r)[i] = a[i]
  BY <1>1, <1>2
<1>4. Holds(a, a \o r)
  <2>1. Len(a) <= Len(a \o r)
    BY <1>1, <1>2
  <2>2. QED
    BY <1>2, <1>3, <2>1, HoldsMeans
<1>5. Relative(a, a \o r) \in Way /\ a \o Relative(a, a \o r) = a \o r
  BY <1>2, <1>4, RelativeOf
<1>6. Relative(a, a \o r) = r
  BY <1>5, ConcatSimplifications DEF Way
<1>7. QED
  BY <1>2, <1>4, <1>6

\* Under one path, one holds another as what follows it does.
LEMMA RelativeHolds ==
    ASSUME NEW a \in Way, NEW r \in Way, NEW b \in Way, Holds(a, b), Holds(a \o r, b)
    PROVE  Holds(r, Relative(a, b))
<1> DEFINE s == Relative(a, b)
<1>1. s \in Way /\ a \o s = b /\ a \o r \in Way
  BY RelativeOf, RelativeBack
<1> HIDE DEF s
<1>2. Len(a) \in Nat /\ Len(r) \in Nat /\ Len(s) \in Nat
  BY <1>1, LenProperties DEF Way
<1>3. /\ Len(a \o r) = Len(a) + Len(r)
      /\ \A i \in 1..(Len(a) + Len(r)) : (a \o r)[i] = IF i <= Len(a) THEN a[i] ELSE r[i - Len(a)]
  BY ConcatProperties DEF Way
<1>4. /\ Len(a \o s) = Len(a) + Len(s)
      /\ \A i \in 1..(Len(a) + Len(s)) : (a \o s)[i] = IF i <= Len(a) THEN a[i] ELSE s[i - Len(a)]
  BY <1>1, ConcatProperties DEF Way
<1>5. Len(a \o r) <= Len(a \o s) /\ \A i \in 1..Len(a \o r) : (a \o s)[i] = (a \o r)[i]
  <2>1. Holds(a \o r, a \o s)
    BY <1>1
  <2>2. a \o s \in Way
    BY <1>1
  <2>3. QED
    BY <1>1, <2>1, <2>2, HoldsMeans
<1>6. Len(r) <= Len(s)
  BY <1>2, <1>3, <1>4, <1>5
<1>7. ASSUME NEW i \in 1..Len(r) PROVE s[i] = r[i]
  <2>1. /\ Len(a) + i \in 1..(Len(a) + Len(r)) /\ Len(a) + i \in 1..(Len(a) + Len(s))
        /\ ~(Len(a) + i <= Len(a)) /\ Len(a) + i - Len(a) = i
    BY <1>2, <1>6
  <2>2. (a \o r)[Len(a) + i] = r[i] /\ (a \o s)[Len(a) + i] = s[i]
    BY <1>3, <1>4, <2>1
  <2>3. QED
    BY <1>3, <1>5, <2>1, <2>2
<1>8. QED
  BY <1>1, <1>6, <1>7, HoldsMeans DEF s

\* Of the paths that hold one, one is the deepest.
LEMMA DeepestOf ==
    ASSUME NEW p \in Way, NEW S \in SUBSET Way, S # {}, \A q \in S : Holds(q, p)
    PROVE  Deepest(S) \in S /\ \A q \in S : Len(q) <= Len(Deepest(S)) /\ Holds(q, Deepest(S))
<1>1. Len(p) \in Nat /\ \A q \in S : Len(q) \in Nat /\ Len(q) <= Len(p)
  BY LenProperties, HoldsMeans DEF Way
<1> DEFINE T == {Len(p) - Len(q) : q \in S}
<1>2. T \in SUBSET Nat /\ T # {}
  <2>1. \A q \in S : Len(p) - Len(q) \in Nat
    BY <1>1
  <2>2. QED
    BY <2>1
<1>3. PICK x \in T : \A y \in T : x =< y
  BY <1>2, LeastExists
<1>4. PICK d \in S : x = Len(p) - Len(d)
  BY <1>3
<1>5. ASSUME NEW q \in S PROVE Len(q) <= Len(d)
  <2>1. Len(p) - Len(d) =< Len(p) - Len(q)
    BY <1>3, <1>4
  <2>2. QED
    BY <1>1, <2>1
<1>6. Deepest(S) \in S /\ \A q \in S : Len(q) <= Len(Deepest(S))
  BY <1>5 DEF Deepest
<1>7. ASSUME NEW q \in S PROVE Holds(q, Deepest(S))
  <2>1. q \in Way /\ Deepest(S) \in Way /\ Holds(q, p) /\ Holds(Deepest(S), p)
    BY <1>6
  <2>2. QED
    BY <1>6, <2>1, HoldsOrder
<1>8. QED
  BY <1>6, <1>7

-----------------------------------------------------------------------------
(* What git and the file system answer, of any tree st                      *)

Standings == [Tops -> Repos \cup {Folder, Gone}]
ExistsIn(st, p) == st[Nearest[p]] # Gone
OverIn(st, p) == {t \in Above[p] : st[t] \in Repos}
TopIn(st, p) == IF ExistsIn(st, p) /\ OverIn(st, p) # {} THEN Deepest(OverIn(st, p)) ELSE None
PositionIn(st, p) == IF TopIn(st, p) = None THEN p ELSE Relative(TopIn(st, p), p)
IdentityIn(st, p) ==
    IF TopIn(st, p) = None THEN NoClaim
    ELSE IF st[TopIn(st, p)] = None THEN NoClaim ELSE Identity[st[TopIn(st, p)]]
Rooted(st) == \A t, u \in Tops : st[t] # Gone /\ Holds(u, t) => st[u] # Gone

\* The answers of the component are those of the tree that stands.
LEMMA Answers ==
    ASSUME NEW p
    PROVE  /\ Exists(p) <=> ExistsIn(stands, p)
           /\ TopOf(p) = TopIn(stands, p)
           /\ CommonDir(p) = IF TopIn(stands, p) = None THEN None ELSE stands[TopIn(stands, p)]
           /\ RepositoryIdentity(p) = IdentityIn(stands, p)
           /\ Position(p) = PositionIn(stands, p)
<1>1. Exists(p) <=> ExistsIn(stands, p)
  BY DEF Exists, ExistsIn
<1>2. TopOf(p) = TopIn(stands, p)
  BY DEF TopOf, TopIn, Exists, ExistsIn, OverIn
<1>3. CommonDir(p) = IF TopIn(stands, p) = None THEN None ELSE stands[TopIn(stands, p)]
  BY <1>2 DEF CommonDir
<1>4. RepositoryIdentity(p) = IdentityIn(stands, p)
  BY <1>3 DEF RepositoryIdentity, IdentityIn
<1>5. QED
  BY <1>1, <1>2, <1>3, <1>4 DEF Position, PositionIn

\* What begins a path is a path.
LEMMA Beginnings ==
    ASSUME NEW p \in Paths, NEW q \in Way, q # <<>>, Holds(q, p)
    PROVE  q \in Paths
<1>1. Len(q) \in Nat /\ Len(q) # 0 /\ Len(p) \in Nat /\ Len(q) <= Len(p)
  BY PathIsWay, EmptySeq, LenProperties, HoldsMeans DEF Way
<1>2. Len(q) \in 1..Len(p)
  BY <1>1
<1>3. SubSeq(p, 1, Len(q)) \in Paths
  BY <1>2, PathsAssumption
<1>4. QED
  BY <1>3 DEF Holds

\* The tops a directory lies in, in its nearest.
LEMMA NearestOf ==
    ASSUME NEW p \in Paths
    PROVE  /\ Above[p] = {t \in Tops : Holds(t, p)}
           /\ Nearest[p] \in Tops /\ Holds(Nearest[p], p)
           /\ \A t \in Tops : Holds(t, p) => Holds(t, Nearest[p])
<1>1. Above[p] = {t \in Tops : Holds(t, p)}
  BY DEF Above
<1>2. p \in Way /\ Above[p] \in SUBSET Way
  BY <1>1, PathIsWay, PathsAssumption
<1>3. Above[p] # {}
  <2> DEFINE t == <<p[1]>>
  <2>1. t \in Tops /\ t \in Paths
    BY PathsAssumption
  <2>2. t \in Way /\ Len(t) = 1 /\ t[1] = p[1]
    BY <2>1, PathIsWay
  <2>3. Len(p) \in Nat \ {0}
    BY PathIsWay
  <2> HIDE DEF t
  <2>4. Len(t) <= Len(p) /\ \A i \in 1..Len(t) : p[i] = t[i]
    BY <2>2, <2>3
  <2>5. Holds(t, p)
    BY <1>2, <2>2, <2>4, HoldsMeans
  <2>6. QED
    BY <1>1, <2>1, <2>5
<1>4. \A q \in Above[p] : Holds(q, p)
  BY <1>1
<1>5. Deepest(Above[p]) \in Above[p] /\ \A q \in Above[p] : Holds(q, Deepest(Above[p]))
  BY <1>2, <1>3, <1>4, DeepestOf
<1>6. Nearest[p] = Deepest(Above[p])
  BY DEF Nearest
<1>7. QED
  BY <1>1, <1>5, <1>6

\* The working tree of a directory that has one.
LEMMA TopOfDirectory ==
    ASSUME NEW st, NEW p \in Paths, TopIn(st, p) # None
    PROVE  /\ TopIn(st, p) \in Tops /\ Holds(TopIn(st, p), p) /\ st[TopIn(st, p)] \in Repos
           /\ ExistsIn(st, p)
           /\ \A t \in Tops : Holds(t, p) /\ st[t] \in Repos => Holds(t, TopIn(st, p))
<1> DEFINE over == OverIn(st, p)
<1>1. ExistsIn(st, p) /\ over # {} /\ TopIn(st, p) = Deepest(over)
  BY DEF TopIn
<1>2. over = {t \in Tops : Holds(t, p) /\ st[t] \in Repos}
  BY NearestOf DEF OverIn
<1> HIDE DEF over
<1>3. p \in Way /\ over \in SUBSET Way /\ \A q \in over : Holds(q, p)
  BY <1>2, PathIsWay, PathsAssumption
<1>4. Deepest(over) \in over /\ \A q \in over : Holds(q, Deepest(over))
  BY <1>1, <1>3, DeepestOf
<1>5. QED
  BY <1>1, <1>2, <1>4

\* It is the deepest repository a directory that exists lies in.
LEMMA TopFound ==
    ASSUME NEW st, NEW p \in Paths, NEW t \in Tops, ExistsIn(st, p), Holds(t, p), st[t] \in Repos,
           \A u \in Tops : Holds(u, p) /\ st[u] \in Repos => Holds(u, t)
    PROVE  TopIn(st, p) = t
<1>1. t \in OverIn(st, p)
  BY NearestOf DEF OverIn
<1>2. t # None
  BY PathsAssumption, ValuesAssumption
<1> DEFINE d == TopIn(st, p)
<1>3. d = Deepest(OverIn(st, p))
  BY <1>1 DEF TopIn
<1>4. d # None
  <2>1. OverIn(st, p) = {u \in Tops : Holds(u, p) /\ st[u] \in Repos}
    BY NearestOf DEF OverIn
  <2>2. p \in Way /\ OverIn(st, p) \in SUBSET Way /\ \A q \in OverIn(st, p) : Holds(q, p)
    BY <2>1, PathIsWay, PathsAssumption
  <2>3. d \in OverIn(st, p)
    BY <1>1, <1>3, <2>2, DeepestOf
  <2>4. QED
    BY <2>1, <2>3, PathsAssumption, ValuesAssumption
<1>5. d \in Tops /\ Holds(d, p) /\ st[d] \in Repos /\ Holds(t, d)
  BY <1>4, TopOfDirectory
<1>6. Holds(d, t)
  BY <1>5
<1>7. d \in Way /\ t \in Way
  BY <1>5, PathIsWay, PathsAssumption
<1>8. Len(t) <= Len(d)
  BY <1>5, <1>7, HoldsMeans
<1>9. QED
  BY <1>6, <1>7, <1>8, HoldsOrder

\* Two trees that stand alike over a directory answer alike for it.
LEMMA AlikeOver ==
    ASSUME NEW st, NEW su, NEW p \in Paths, \A t \in Tops : Holds(t, p) => su[t] = st[t]
    PROVE  /\ ExistsIn(su, p) <=> ExistsIn(st, p)
           /\ TopIn(su, p) = TopIn(st, p)
           /\ PositionIn(su, p) = PositionIn(st, p)
           /\ IdentityIn(su, p) = IdentityIn(st, p)
<1>1. ExistsIn(su, p) <=> ExistsIn(st, p)
  BY NearestOf DEF ExistsIn
<1>2. OverIn(su, p) = OverIn(st, p)
  BY NearestOf DEF OverIn
<1>3. TopIn(su, p) = TopIn(st, p)
  BY <1>1, <1>2 DEF TopIn
<1>4. TopIn(st, p) # None => su[TopIn(st, p)] = st[TopIn(st, p)]
  BY TopOfDirectory
<1>5. QED
  BY <1>1, <1>3, <1>4 DEF PositionIn, IdentityIn

\* What exists stands in tops that exist, and every directory above it exists.
LEMMA AboveExists ==
    ASSUME NEW st, Rooted(st), NEW p \in Paths, ExistsIn(st, p)
    PROVE  /\ \A t \in Tops : Holds(t, p) => st[t] # Gone
           /\ \A q \in Paths : Holds(q, p) => ExistsIn(st, q)
<1>1. \A t \in Tops : Holds(t, p) => st[t] # Gone
  BY NearestOf DEF Rooted, ExistsIn
<1>2. ASSUME NEW q \in Paths, Holds(q, p) PROVE ExistsIn(st, q)
  <2>1. Nearest[q] \in Tops /\ Holds(Nearest[q], q)
    BY NearestOf
  <2>2. Nearest[q] \in Way /\ q \in Way /\ p \in Way
    BY <2>1, PathIsWay, PathsAssumption
  <2>3. Holds(Nearest[q], p)
    BY <1>2, <2>1, <2>2, HoldsOrder
  <2>4. QED
    BY <1>1, <2>1, <2>3 DEF ExistsIn
<1>3. QED
  BY <1>1, <1>2

\* Between a directory and the top of its working tree everything is that tree's.
LEMMA WithinTop ==
    ASSUME NEW st, Rooted(st), NEW p \in Paths, NEW q \in Paths,
           TopIn(st, p) # None, Holds(TopIn(st, p), q), Holds(q, p)
    PROVE  ExistsIn(st, q) /\ TopIn(st, q) = TopIn(st, p)
<1> DEFINE t == TopIn(st, p)
<1>1. /\ t \in Tops /\ Holds(t, p) /\ st[t] \in Repos /\ ExistsIn(st, p)
      /\ \A u \in Tops : Holds(u, p) /\ st[u] \in Repos => Holds(u, t)
  BY TopOfDirectory
<1> HIDE DEF t
<1>2. ExistsIn(st, q)
  BY <1>1, AboveExists
<1>3. ASSUME NEW u \in Tops, Holds(u, q), st[u] \in Repos PROVE Holds(u, t)
  <2>1. u \in Way /\ q \in Way /\ p \in Way
    BY PathIsWay, PathsAssumption
  <2>2. Holds(u, p)
    BY <1>3, <2>1, HoldsOrder
  <2>3. QED
    BY <1>1, <1>3, <2>2
<1>4. Holds(t, q)
  BY DEF t
<1>5. TopIn(st, q) = t
  BY <1>1, <1>2, <1>3, <1>4, TopFound
<1>6. QED
  BY <1>2, <1>5 DEF t

\* Where a directory lies in its working tree, and the directory put together
\* again.
LEMMA PositionOf ==
    ASSUME NEW st, NEW p \in Paths
    PROVE  /\ PositionIn(st, p) \in Way
           /\ TopIn(st, p) # None => TopIn(st, p) \o PositionIn(st, p) = p
<1>1. CASE TopIn(st, p) = None
  BY <1>1, PathIsWay DEF PositionIn
<1>2. CASE TopIn(st, p) # None
  <2>1. TopIn(st, p) \in Tops /\ Holds(TopIn(st, p), p)
    BY <1>2, TopOfDirectory
  <2>2. TopIn(st, p) \in Way /\ p \in Way
    BY <2>1, PathIsWay, PathsAssumption
  <2>3. PositionIn(st, p) = Relative(TopIn(st, p), p)
    BY <1>2 DEF PositionIn
  <2>4. QED
    BY <2>1, <2>2, <2>3, RelativeOf
<1>3. QED
  BY <1>1, <1>2

\* A position of a working tree, carried to the one a directory lies in and over
\* that directory: it is that position there, and lies over the directory's own.
LEMMA CarriedTo ==
    ASSUME NEW st, Rooted(st), NEW p \in Paths, NEW at \in Way,
           TopIn(st, p) # None, Holds(TopIn(st, p) \o at, p)
    PROVE  /\ TopIn(st, p) \o at \in Paths
           /\ ExistsIn(st, TopIn(st, p) \o at)
           /\ TopIn(st, TopIn(st, p) \o at) = TopIn(st, p)
           /\ PositionIn(st, TopIn(st, p) \o at) = at
           /\ IdentityIn(st, TopIn(st, p) \o at) = IdentityIn(st, p)
           /\ Holds(at, PositionIn(st, p))
<1> DEFINE t == TopIn(st, p)
           q == t \o at
<1>1. t \in Tops /\ Holds(t, p) /\ t \in Paths
  BY TopOfDirectory, PathsAssumption
<1>2. t \in Way /\ t # <<>> /\ p \in Way
  BY <1>1, PathIsWay
<1>3. q \in Way /\ Holds(t, q) /\ Relative(t, q) = at
  BY <1>2, RelativeBack
<1>4. q # <<>>
  <2>1. Len(t) \in Nat \ {0} /\ Len(q) \in Nat /\ Len(t) <= Len(q)
    BY <1>1, <1>2, <1>3, PathIsWay, LenProperties, HoldsMeans DEF Way
  <2>2. QED
    BY <1>3, <2>1, EmptySeq
<1>5. q \in Paths
  BY <1>3, <1>4, Beginnings
<1>6. ExistsIn(st, q) /\ TopIn(st, q) = t
  BY <1>3, <1>5, WithinTop
<1>7. PositionIn(st, q) = at /\ PositionIn(st, p) = Relative(t, p)
  BY <1>3, <1>6 DEF PositionIn
<1>8. IdentityIn(st, q) = IdentityIn(st, p)
  BY <1>6 DEF IdentityIn
<1>9. Holds(at, Relative(t, p))
  BY <1>1, <1>2, RelativeHolds
<1>10. QED
  BY <1>5, <1>6, <1>7, <1>8, <1>9

-----------------------------------------------------------------------------
(* The ledger and the project a directory answers for                       *)

Identities == {Identity[r] : r \in Repos} \cup {NoClaim}
Link == [path : Paths, repository : Identities]
Claims == [slug : Slugs, path : Paths, identity : Identities, position : Way, said : BOOLEAN]

LinksTypeOK ==
    /\ stands \in Standings
    /\ marker \in [Paths -> Slugs \cup {None}]
    /\ links \in [Slugs -> Seq(Link)]
    /\ lines \in SUBSET Link
    /\ registry \in Seq(Slugs)
    /\ claims \in SUBSET Claims

\* What git tells a directory's repository by is one of the identities.
LEMMA IdentityType ==
    ASSUME NEW st, NEW p \in Paths PROVE IdentityIn(st, p) \in Identities
<1>1. TopIn(st, p) # None => st[TopIn(st, p)] \in Repos
  BY TopOfDirectory
<1>2. QED
  BY <1>1, ValuesAssumption DEF IdentityIn, Identities

\* The entries of a list at some places are those entries.
LEMMA KeptOf ==
    ASSUME NEW S, NEW s \in Seq(S), NEW at \in SUBSET DOMAIN s
    PROVE  Kept(s, at) \in Seq(S) /\ Range(Kept(s, at)) = {s[i] : i \in at}
<1> DEFINE rank(i) == Cardinality({j \in at : j <= i})
           c == Cardinality(at)
           place(k) == CHOOSE i \in at : rank(i) = k
<1>1. Len(s) \in Nat /\ at \in SUBSET (1..Len(s)) /\ \A i \in at : i \in Nat /\ s[i] \in S
  BY LenProperties, ElementOfSeq
<1>2. IsFiniteSet(at) /\ c \in Nat
  <2>1. IsFiniteSet(1..Len(s))
    BY <1>1, FS_Interval
  <2>2. QED
    BY <1>1, <2>1, FS_Subset, FS_CardinalityType
<1>3. ASSUME NEW i \in at PROVE rank(i) \in 1..c
  <2>1. {j \in at : j <= i} \in SUBSET at /\ i \in {j \in at : j <= i}
    BY <1>1
  <2>2. IsFiniteSet({j \in at : j <= i}) /\ rank(i) <= c
    BY <1>2, <2>1, FS_Subset
  <2>3. rank(i) \in Nat /\ rank(i) # 0
    BY <2>1, <2>2, FS_CardinalityType, FS_EmptySet
  <2>4. QED
    BY <1>2, <2>2, <2>3
<1>4. ASSUME NEW i \in at, NEW j \in at, i < j PROVE rank(i) < rank(j)
  <2> DEFINE I == {k \in at : k <= i}
             J == {k \in at : k <= j}
  <2>1. I \in SUBSET J
    <3>1. ASSUME NEW k \in at, k <= i PROVE k <= j
      BY <1>1, <1>4, <3>1
    <3>2. QED
      BY <3>1
  <2>2. j \in J /\ j \notin I
    BY <1>1, <1>4
  <2>3. J \in SUBSET at
    OBVIOUS
  <2>4. rank(i) = Cardinality(I) /\ rank(j) = Cardinality(J)
    OBVIOUS
  <2> HIDE DEF I, J, rank
  <2>5. IsFiniteSet(J)
    BY <1>2, <2>3, FS_Subset
  <2>6. Cardinality(I) <= Cardinality(J) /\ (Cardinality(J) = Cardinality(I) => J = I) /\ IsFiniteSet(I)
    BY <2>1, <2>5, FS_Subset
  <2>7. Cardinality(I) \in Nat /\ Cardinality(J) \in Nat
    BY <2>5, <2>6, FS_CardinalityType
  <2>8. QED
    BY <2>2, <2>4, <2>6, <2>7
<1> HIDE DEF rank
<1>5. \A i, j \in at : rank(i) = rank(j) => i = j
  <2>1. ASSUME NEW i \in at, NEW j \in at, rank(i) = rank(j) PROVE i = j
    <3>1. i \in Nat /\ j \in Nat /\ rank(i) \in Nat /\ rank(j) \in Nat
      BY <1>1, <1>2, <1>3
    <3>2. ~(i < j) /\ ~(j < i)
      BY <1>4, <2>1, <3>1
    <3>3. QED
      BY <3>1, <3>2
  <2>2. QED
    BY <2>1
<1>6. ASSUME NEW k \in 1..c PROVE place(k) \in at /\ rank(place(k)) = k
  <2> DEFINE f == [i \in at |-> rank(i)]
  <2>1. f \in [at -> 1..c] /\ \A i, j \in at : f[i] = f[j] => i = j
    BY <1>3, <1>5
  <2>2. \A i \in at : f[i] = rank(i)
    OBVIOUS
  <2> HIDE DEF f, c
  <2>3. f \in Injection(at, 1..c)
    BY <2>1 DEF Injection, IsInjective
  <2>4. IsFiniteSet(1..c) /\ Cardinality(1..c) = c
    BY <1>2, FS_Interval
  <2>5. f \in Surjection(at, 1..c)
    BY <2>3, <2>4, FS_Injection DEF c
  <2>6. \E i \in at : f[i] = k
    BY <2>5 DEF Surjection
  <2>7. \E i \in at : rank(i) = k
    BY <2>2, <2>6
  <2>8. QED
    BY <2>7
<1> DEFINE u == Kept(s, at)
<1>7. u = [k \in 1..c |-> s[place(k)]]
  BY DEF Kept, rank
<1> HIDE DEF u, c, place
<1>8. u \in [1..c -> S]
  BY <1>1, <1>6, <1>7
<1>9. u \in Seq(S) /\ Len(u) = c
  BY <1>2, <1>7, <1>8, SeqDef
<1>10. Range(u) = {u[k] : k \in 1..c}
  BY <1>9, RangeEquality
<1>11. \A k \in 1..c : u[k] \in {s[i] : i \in at}
  BY <1>6, <1>7
<1>12. ASSUME NEW i \in at PROVE \E k \in 1..c : u[k] = s[i]
  <2>1. rank(i) \in 1..c
    BY <1>3
  <2>2. place(rank(i)) = i
    BY <1>5, <1>6, <2>1
  <2>3. QED
    BY <1>7, <2>1, <2>2
<1>13. QED
  BY <1>9, <1>10, <1>11, <1>12 DEF u

\* The links of a list that are not at a path.
LEMMA WithoutOf ==
    ASSUME NEW linked \in Seq(Link), NEW p
    PROVE  /\ Without(linked, p) \in Seq(Link)
           /\ Range(Without(linked, p)) = {link \in Range(linked) : link.path # p}
<1> DEFINE at == {i \in DOMAIN linked : linked[i].path # p}
<1>1. Kept(linked, at) \in Seq(Link) /\ Range(Kept(linked, at)) = {linked[i] : i \in at}
  BY KeptOf
<1>2. Range(linked) = {linked[i] : i \in DOMAIN linked}
  BY LenProperties, RangeEquality
<1>3. {linked[i] : i \in at} = {link \in Range(linked) : link.path # p}
  BY <1>2
<1>4. QED
  BY <1>1, <1>3 DEF Without

\* The project a repository answers with is of a link of its own that stands
\* for what was linked.
LEMMA MatchOf ==
    ASSUME LinksTypeOK, Rooted(stands), NEW p \in Paths, CheckoutProject(p) # None
    PROVE  LET m == CheckoutProject(p) IN
           /\ m.slug \in Slugs /\ m.slug \in Range(registry)
           /\ TopIn(stands, p) # None
           /\ \E l \in Range(links[m.slug]) :
                  /\ l \in Link
                  /\ TopIn(stands, l.path) # None
                  /\ stands[TopIn(stands, l.path)] = stands[TopIn(stands, p)]
                  /\ SameRepository(l)
                  /\ m.dir = TopIn(stands, p) \o PositionIn(stands, l.path)
                  /\ Holds(m.dir, p)
<1> DEFINE over == {m \in CheckoutMatches(p) : Holds(m.dir, p)}
           here == TopIn(stands, p)
<1>1. over # {}
  BY DEF CheckoutProject
<1>2. here # None /\ TopOf(p) = here
  BY <1>1, Answers DEF CheckoutMatches
<1>3. CheckoutMatches(p) = {[slug |-> found.slug, dir |-> here \o found.at] : found \in RepositoryLinks(stands[here])}
  BY <1>2 DEF CheckoutMatches
<1>4. \A s \in Range(registry) : s \in Slugs
  BY RangeOfSeq DEF LinksTypeOK
<1>5. \A s \in Slugs : links[s] \in Seq(Link)
  BY DEF LinksTypeOK
<1>6. \A s \in Slugs : \A l \in Range(links[s]) : l \in Link
  BY <1>5, RangeOfSeq
<1>7. ASSUME NEW m \in over
      PROVE  /\ m.slug \in Slugs /\ m.slug \in Range(registry)
             /\ \E l \in Range(links[m.slug]) :
                  /\ l \in Link
                  /\ TopIn(stands, l.path) # None
                  /\ stands[TopIn(stands, l.path)] = stands[here]
                  /\ SameRepository(l)
                  /\ m.dir = here \o PositionIn(stands, l.path)
                  /\ Holds(m.dir, p)
  <2>1. PICK found \in RepositoryLinks(stands[here]) : m = [slug |-> found.slug, dir |-> here \o found.at]
    BY <1>3
  <2>2. PICK s \in Range(registry) : \E l \in Range(links[s]) :
            /\ CommonDir(l.path) = stands[here] /\ SameRepository(l)
            /\ found = [slug |-> s, top |-> TopOf(l.path), at |-> Relative(TopOf(l.path), l.path)]
    BY <2>1 DEF RepositoryLinks
  <2>21. PICK l \in Range(links[s]) :
            /\ CommonDir(l.path) = stands[here] /\ SameRepository(l)
            /\ found = [slug |-> s, top |-> TopOf(l.path), at |-> Relative(TopOf(l.path), l.path)]
    BY <2>2
  <2>3. m.slug = s /\ m.dir = here \o Relative(TopOf(l.path), l.path)
    BY <2>1, <2>21
  <2>4. s \in Slugs /\ l \in Link
    BY <1>4, <1>6
  <2>5. stands[here] # None
    <3>1. stands[here] \in Repos
      BY <1>2, TopOfDirectory
    <3>2. QED
      BY <3>1, ValuesAssumption
  <2>6. TopIn(stands, l.path) # None /\ stands[TopIn(stands, l.path)] = stands[here]
    BY <2>21, <2>5, Answers
  <2>7. Relative(TopOf(l.path), l.path) = PositionIn(stands, l.path)
    BY <2>6, Answers DEF PositionIn
  <2>8. Holds(m.dir, p)
    OBVIOUS
  <2>9. QED
    BY <2>21, <2>3, <2>4, <2>6, <2>7, <2>8
<1>8. \A m \in over : m.dir \in Way /\ Len(m.dir) \in Nat /\ Len(m.dir) <= Len(p)
  <2>1. ASSUME NEW m \in over PROVE m.dir \in Way
    <3>1. PICK l \in Range(links[m.slug]) : l \in Link /\ m.dir = here \o PositionIn(stands, l.path)
      BY <1>7
    <3>2. l.path \in Paths
      BY <3>1 DEF Link
    <3>3. PositionIn(stands, l.path) \in Way
      BY <3>2, PositionOf
    <3>4. here \in Way
      BY <1>2, TopOfDirectory, PathIsWay, PathsAssumption
    <3>5. QED
      BY <3>1, <3>3, <3>4, RelativeBack
  <2>2. QED
    BY <2>1, PathIsWay, LenProperties, HoldsMeans DEF Way
<1>9. \A m \in over : Rank(m.slug) \in Nat
  <2>1. ASSUME NEW m \in over PROVE Rank(m.slug) \in Nat
    <3>1. m.slug \in Range(registry)
      BY <1>7
    <3>2. registry \in Seq(Slugs)
      BY DEF LinksTypeOK
    <3>3. DOMAIN registry = 1..Len(registry) /\ Len(registry) \in Nat
      BY <3>2, LenProperties
    <3>4. \E i \in DOMAIN registry : registry[i] = m.slug
      BY <3>1, <3>2, <3>3, RangeEquality
    <3>5. Rank(m.slug) \in DOMAIN registry
      BY <3>4 DEF Rank
    <3>6. QED
      BY <3>3, <3>5
  <2>2. QED
    BY <2>1
<1>10. Len(p) \in Nat
  BY PathIsWay
<1> HIDE DEF over, here
<1>11. PICK d \in over : \A n \in over : Len(n.dir) <= Len(d.dir)
  <2> DEFINE T == {Len(p) - Len(m.dir) : m \in over}
  <2>1. T \in SUBSET Nat /\ T # {}
    <3>1. \A m \in over : Len(p) - Len(m.dir) \in Nat
      BY <1>8, <1>10
    <3>2. QED
      BY <1>1, <3>1
  <2>2. PICK x \in T : \A y \in T : x =< y
    BY <2>1, LeastExists
  <2>3. PICK d \in over : x = Len(p) - Len(d.dir)
    BY <2>2
  <2>4. \A n \in over : Len(p) - Len(d.dir) =< Len(p) - Len(n.dir)
    BY <2>2, <2>3
  <2>5. \A n \in over : Len(n.dir) <= Len(d.dir)
    BY <1>8, <1>10, <2>4
  <2>6. QED
    BY <2>5
<1>12. PICK m \in over : /\ Len(m.dir) = Len(d.dir)
                         /\ \A n \in over : Len(n.dir) = Len(d.dir) => Rank(m.slug) <= Rank(n.slug)
  <2> DEFINE T == {Rank(n.slug) : n \in {k \in over : Len(k.dir) = Len(d.dir)}}
  <2>1. T \in SUBSET Nat /\ T # {}
    BY <1>9
  <2>2. PICK x \in T : \A y \in T : x =< y
    BY <2>1, LeastExists
  <2>3. PICK m \in over : Len(m.dir) = Len(d.dir) /\ x = Rank(m.slug)
    BY <2>2
  <2>4. QED
    BY <2>2, <2>3
<1>13. \A n \in over : \/ Len(n.dir) < Len(m.dir)
                       \/ Len(n.dir) = Len(m.dir) /\ Rank(m.slug) <= Rank(n.slug)
  <2>1. ASSUME NEW n \in over, ~(Len(n.dir) < Len(m.dir)) PROVE Len(n.dir) = Len(m.dir)
    BY <1>8, <1>11, <1>12, <2>1
  <2>2. QED
    BY <1>12, <2>1
<1>14. CheckoutProject(p) \in over
  <2>1. CheckoutProject(p) = CHOOSE k \in over : \A n \in over :
                 \/ Len(n.dir) < Len(k.dir)
                 \/ Len(n.dir) = Len(k.dir) /\ Rank(k.slug) <= Rank(n.slug)
    BY <1>1 DEF CheckoutProject, over
  <2>2. QED
    BY <1>13, <2>1
<1>15. QED
  BY <1>2, <1>7, <1>14 DEF here

\* A bounded set of naturals that is not empty has a greatest element.
LEMMA GreatestExists ==
    ASSUME NEW n \in Nat, NEW S \in SUBSET (1..n), S # {}
    PROVE  \E x \in S : \A y \in S : x >= y
<1> DEFINE T == {n - y : y \in S}
<1>1. T \in SUBSET Nat /\ T # {}
  <2>1. ASSUME NEW y \in S PROVE n - y \in Nat
    <3>1. y \in 1..n
      OBVIOUS
    <3>2. QED
      BY <3>1
  <2>2. QED
    BY <2>1
<1>2. PICK z \in T : \A y \in T : z =< y
  BY <1>1, LeastExists
<1>3. PICK x \in S : z = n - x
  BY <1>2
<1>4. ASSUME NEW y \in S PROVE x >= y
  <2>1. n - x =< n - y
    BY <1>2, <1>3
  <2>2. x \in 1..n /\ y \in 1..n
    OBVIOUS
  <2>3. QED
    BY <2>1, <2>2
<1>5. QED
  BY <1>4

\* Where a fold run from a directory writes: at a link that stands for what was
\* linked, or at the project the directory's repository answers with.
LEMMA ResolvedAt ==
    ASSUME LinksTypeOK, Rooted(stands), NEW slug \in Slugs, NEW p \in Paths, Exists(p),
           ResolveProjectPath(slug, p) # None
    PROVE  \/ \E l \in Range(links[slug]) :
                  l \in Link /\ ResolveProjectPath(slug, p) = l.path /\ Exists(l.path) /\ SameRepository(l)
           \/ /\ CheckoutProject(p) # None /\ CheckoutProject(p).slug = slug
              /\ ResolveProjectPath(slug, p) = CheckoutProject(p).dir
<1> DEFINE linked == links[slug]
           I == {i \in 1..Len(linked) : Holds(linked[i].path, p) /\ Standing(linked[i])}
           J == {i \in 1..Len(linked) : Exists(linked[i].path) /\ SameRepository(linked[i])}
           active == IF I # {} THEN Min(I) ELSE 0
           still == IF J # {} THEN Max(J) ELSE 0
           match == CheckoutProject(p)
<1>1. linked \in Seq(Link)
  BY DEF LinksTypeOK
<1>2. Len(linked) \in Nat /\ (\A i \in 1..Len(linked) : linked[i] \in Link /\ linked[i] \in Range(linked))
  BY <1>1, LenProperties, ElementOfSeq, RangeEquality
<1>3. ResolveProjectPath(slug, p) =
          IF active # 0 THEN linked[active].path
          ELSE IF match # None /\ match.slug = slug THEN match.dir
          ELSE IF still # 0 THEN linked[still].path
          ELSE None
  BY DEF ResolveProjectPath, SelectInSeq, SelectLastInSeq
<1>4. I # {} => Min(I) \in I
  <2> HIDE DEF I
  <2>1. I \in SUBSET Nat
    BY <1>2 DEF I
  <2>2. QED
    BY <2>1, LeastExists DEF Min
<1>5. J # {} => Max(J) \in J
  <2>1. J \in SUBSET (1..Len(linked))
    OBVIOUS
  <2> HIDE DEF J, linked
  <2>2. QED
    BY <1>2, <2>1, GreatestExists DEF Max
<1>6. CASE active # 0
  <2>1. active \in I /\ active \in 1..Len(linked)
    BY <1>4, <1>6
  <2> DEFINE l == linked[active]
  <2>2. l \in Link /\ l \in Range(linked) /\ Holds(l.path, p) /\ Standing(l)
    BY <1>2, <2>1
  <2> HIDE DEF active, I, J, still, match
  <2>3. l.path \in Paths
    BY <2>2 DEF Link
  <2>4. Exists(l.path)
    BY <2>2, <2>3, AboveExists, Answers
  <2>5. SameRepository(l)
    BY <2>2, <2>4 DEF Standing
  <2>6. QED
    BY <1>3, <1>6, <2>2, <2>4, <2>5
<1>7. CASE active = 0 /\ match # None /\ match.slug = slug
  <2> HIDE DEF active, I, J, still
  <2> QED
    BY <1>3, <1>7
<1>8. CASE active = 0 /\ ~(match # None /\ match.slug = slug) /\ still # 0
  <2>1. still \in J /\ still \in 1..Len(linked)
    BY <1>5, <1>8
  <2> DEFINE l == linked[still]
  <2>2. l \in Link /\ l \in Range(linked) /\ Exists(l.path) /\ SameRepository(l)
    BY <1>2, <2>1
  <2> HIDE DEF active, I, J, still, match
  <2>3. ResolveProjectPath(slug, p) = l.path
    BY <1>3, <1>8
  <2>4. QED
    BY <2>2, <2>3
<1>9. QED
  <2> HIDE DEF active, I, J, still, match
  <2> QED
    BY <1>3, <1>6, <1>7, <1>8

-----------------------------------------------------------------------------
(* Evidence is judged the same from anywhere                                *)

\* What it is judged across: the repositories of every link that stands for
\* what was linked.
Judged(slug) ==
    UNION {RepositoriesAt(link.path) :
              link \in {l \in Range(links[slug]) : Exists(l.path) /\ SameRepository(l)}}

\* The fold takes those, and adds none by where it writes: resolveProjectPaths,
\* run from any directory that exists.
LEMMA JudgedAcross ==
    ASSUME LinksTypeOK, Rooted(stands), NEW slug \in Slugs, NEW p \in Paths, Exists(p)
    PROVE  ResolveProjectPaths(slug, p) = Judged(slug)
<1> DEFINE primary == ResolveProjectPath(slug, p)
           key == IF primary = None THEN None ELSE CommonDir(primary)
           Same == {l \in Range(links[slug]) : Exists(l.path) /\ SameRepository(l)}
           taken == {link \in Range(links[slug]) :
                        /\ Exists(link.path)
                        /\ \/ key # None /\ CommonDir(link.path) = key
                           \/ SameRepository(link)}
           at == {link.path : link \in taken} \cup ({primary} \ {None})
<1>1. ResolveProjectPaths(slug, p) = UNION {RepositoriesAt(q) : q \in {r \in at : Exists(r)}}
  BY DEF ResolveProjectPaths
<1>2. \A l \in Range(links[slug]) : l \in Link /\ l.path \in Paths
  <2>1. links[slug] \in Seq(Link)
    BY DEF LinksTypeOK
  <2>2. \A l \in Range(links[slug]) : l \in Link
    BY <2>1, RangeOfSeq
  <2>3. QED
    BY <2>2 DEF Link
<1>3. ASSUME primary # None
      PROVE \E l \in Same : RepositoriesAt(primary) \subseteq RepositoriesAt(l.path)
  <2>1. CASE \E l \in Range(links[slug]) :
                 l \in Link /\ primary = l.path /\ Exists(l.path) /\ SameRepository(l)
    BY <2>1
  <2>2. CASE CheckoutProject(p) # None /\ CheckoutProject(p).slug = slug /\ primary = CheckoutProject(p).dir
    <3>1. TopIn(stands, p) # None
      BY <2>2, MatchOf
    <3>2. PICK l \in Range(links[slug]) :
              /\ l \in Link /\ TopIn(stands, l.path) # None
              /\ stands[TopIn(stands, l.path)] = stands[TopIn(stands, p)]
              /\ SameRepository(l)
              /\ primary = TopIn(stands, p) \o PositionIn(stands, l.path)
              /\ Holds(primary, p)
      BY <2>2, MatchOf
    <3>3. Exists(l.path)
      BY <1>2, <3>2, TopOfDirectory, Answers
    <3>4. PositionIn(stands, l.path) \in Way
      BY <1>2, PositionOf
    <3> HIDE DEF primary
    <3>5. TopIn(stands, primary) = TopIn(stands, p)
      BY <3>1, <3>2, <3>4, CarriedTo
    <3>6. stands[TopIn(stands, p)] # None
      <4>1. stands[TopIn(stands, p)] \in Repos
        BY <3>1, TopOfDirectory
      <4>2. QED
        BY <4>1, ValuesAssumption
    <3>7. CommonDir(primary) = CommonDir(l.path) /\ CommonDir(primary) # None
      BY <3>1, <3>2, <3>5, <3>6, Answers
    <3>8. RepositoriesAt(primary) = RepositoriesAt(l.path)
      BY <3>7 DEF RepositoriesAt
    <3>9. QED
      BY <3>2, <3>3, <3>8
  <2>3. QED
    <3>1. ResolveProjectPath(slug, p) # None
      BY <1>3
    <3>2. QED
      BY <2>1, <2>2, <3>1, ResolvedAt
<1>4. ASSUME NEW r, NEW q \in at, Exists(q), r \in RepositoriesAt(q)
      PROVE r \in Judged(slug)
  <2>1. CASE q \in {primary} \ {None}
    <3>1. PICK l \in Same : RepositoriesAt(primary) \subseteq RepositoriesAt(l.path)
      BY <1>3, <2>1
    <3>2. r \in RepositoriesAt(l.path)
      BY <1>4, <2>1, <3>1
    <3> HIDE DEF primary, key
    <3>3. QED
      BY <3>2 DEF Judged
  <2>2. ASSUME NEW l \in taken, q = l.path PROVE r \in Judged(slug)
    <3>1. CASE SameRepository(l)
      <4> HIDE DEF primary, key
      <4> QED
        BY <1>4, <2>2, <3>1 DEF Judged
    <3>2. CASE key # None /\ CommonDir(l.path) = key
      <4>1. primary # None /\ CommonDir(primary) = key
        BY <3>2
      <4>2. PICK k \in Same : RepositoriesAt(primary) \subseteq RepositoriesAt(k.path)
        BY <1>3, <4>1
      <4> HIDE DEF primary, key
      <4>3. RepositoriesAt(q) = {key} /\ RepositoriesAt(primary) = {key}
        BY <2>2, <3>2, <4>1 DEF RepositoriesAt
      <4>4. r \in RepositoriesAt(k.path)
        BY <1>4, <4>2, <4>3
      <4>5. QED
        BY <4>4 DEF Judged
    <3>3. QED
      BY <2>2, <3>1, <3>2
  <2>3. QED
    BY <1>4, <2>1, <2>2
<1>5. ASSUME NEW r \in Judged(slug)
      PROVE \E q \in at : Exists(q) /\ r \in RepositoriesAt(q)
  <2> HIDE DEF primary, key
  <2>1. PICK l \in Same : r \in RepositoriesAt(l.path)
    BY DEF Judged
  <2>2. l \in taken /\ l.path \in at
    BY <2>1
  <2>3. QED
    BY <2>1, <2>2
<1>6. QED
  <2> HIDE DEF at, primary, key
  <2> QED
    BY <1>1, <1>4, <1>5

-----------------------------------------------------------------------------
(* The inductive invariant                                                  *)

\* What a person said of a place by name, that an answer there can rest on.
Founds(slug, identity, position) ==
    \E c \in claims :
        /\ c.said /\ c.slug = slug
        /\ \/ c.identity = NoClaim
           \/ c.identity = identity /\ Holds(c.position, position)

\* Two lines of one path that claim something claim the same: a stale claim
\* takes every line of its path with it.
LinesAgree ==
    \A a, b \in lines :
        a.path = b.path /\ a.repository # NoClaim /\ b.repository # NoClaim => a.repository = b.repository

\* A link is replayed from a line, and was asked for by a command.
LinksAreLines == \A s \in Slugs : Range(links[s]) \subseteq lines
LinksAsked ==
    \A s \in Slugs : \A l \in Range(links[s]) :
        \E k \in claims : k.slug = s /\ k.path = l.path /\ k.identity = l.repository

\* What a command was asked of a place rests on what a person said, and so does
\* what a directory is marked with.
ClaimsFounded == \A k \in claims : Founds(k.slug, k.identity, k.position)
MarkersFounded ==
    \A p \in Paths : marker[p] # None =>
        Exists(p) /\ Founds(marker[p], RepositoryIdentity(p), Position(p))

LinksInv == /\ LinksTypeOK
        /\ Rooted(stands)
        /\ LinesAgree
        /\ LinksAreLines
        /\ LinksAsked
        /\ ClaimsFounded
        /\ MarkersFounded

\* Nothing is in the empty list.
LEMMA NothingIn == Range(<<>>) = {}
<1>1. <<>> \in Seq({})
  BY EmptySeq
<1>2. Range(<<>>) \in SUBSET {}
  BY <1>1, RangeOfSeq
<1>3. QED
  BY <1>2

\* It holds at first: nothing is linked or marked.
LEMMA InitInvariant == CheckoutsInit => LinksInv
<1> SUFFICES ASSUME CheckoutsInit PROVE LinksInv
  OBVIOUS
<1>1. stands \in Standings
  BY TreesAssumption DEF CheckoutsInit, Standings
<1>2. \A s \in Slugs : links[s] = <<>> /\ links[s] \in Seq(Link) /\ Range(links[s]) = {}
  BY EmptySeq, NothingIn DEF CheckoutsInit
<1>3. LinksTypeOK
  <2>1. links \in [Slugs -> Seq(Link)]
    BY EmptySeq DEF CheckoutsInit
  <2>2. registry \in Seq(Slugs)
    BY EmptySeq DEF CheckoutsInit
  <2>3. QED
    BY <1>1, <2>1, <2>2 DEF CheckoutsInit, LinksTypeOK
<1>4. Rooted(stands)
  <2>1. ASSUME NEW t \in Tops, NEW u \in Tops, stands[t] # Gone, Holds(u, t) PROVE stands[u] # Gone
    <3>1. t \in Way /\ u \in Way /\ Len(u) \in Nat \ {0} /\ Len(t) \in Nat
      BY PathIsWay, PathsAssumption
    <3>2. Len(u) \in 1..Len(t)
      BY <2>1, <3>1, HoldsMeans
    <3>3. SubSeq(t, 1, Len(u)) = u
      BY <2>1 DEF Holds
    <3>4. QED
      BY <2>1, <3>2, <3>3, TreesAssumption DEF CheckoutsInit
  <2>2. QED
    BY <2>1 DEF Rooted
<1>5. LinesAgree /\ LinksAreLines /\ LinksAsked /\ ClaimsFounded
  BY <1>2 DEF CheckoutsInit, LinesAgree, LinksAreLines, LinksAsked, ClaimsFounded
<1>6. MarkersFounded
  BY DEF CheckoutsInit, MarkersFounded
<1>7. QED
  BY <1>3, <1>4, <1>5, <1>6 DEF LinksInv

\* recordLink: what the ledger says after a link was recorded at a path.
LEMMA Recorded ==
    ASSUME LinksTypeOK, LinesAgree, LinksAreLines,
           NEW slug \in Slugs, NEW p \in Paths, RecordLink(slug, p)
    PROVE  /\ links' \in [Slugs -> Seq(Link)] /\ lines' \in SUBSET Link
           /\ LinesAgree' /\ LinksAreLines'
           /\ \A s \in Slugs : \A l \in Range(links'[s]) :
                  \/ l \in Range(links[s])
                  \/ s = slug /\ l = [path |-> p, repository |-> RepositoryIdentity(p)]
<1> DEFINE identity == RepositoryIdentity(p)
           link == [path |-> p, repository |-> identity]
<1>1. link \in Link
  BY IdentityType, Answers DEF Link
<1>2. \A s \in Slugs : links[s] \in Seq(Link)
  BY DEF LinksTypeOK
<1>3. RecordLink(slug, p) <=>
        IF Stale(p, identity)
        THEN /\ links' = [s \in Slugs |-> Without(links[s], p) \o (IF s = slug THEN <<link>> ELSE <<>>)]
             /\ lines' = {line \in lines : line.path # p} \cup {link}
        ELSE IF p \in RecordedPaths(slug) THEN UNCHANGED <<links, lines>>
        ELSE /\ links' = [links EXCEPT ![slug] = Append(@, link)]
             /\ lines' = lines \cup {link}
  BY DEF RecordLink
<1>4. lines' \in SUBSET Link
  BY <1>1, <1>3 DEF LinksTypeOK
<1> HIDE DEF link
<1>5. <<link>> \in Seq(Link) /\ Range(<<link>>) = {link} /\ <<>> \in Seq(Link) /\ Range(<<>>) = {}
  <2>1. <<link>> \in Seq(Link) /\ Len(<<link>>) = 1 /\ <<link>>[1] = link
    BY <1>1
  <2>2. Range(<<link>>) = {<<link>>[i] : i \in 1..1}
    BY <2>1, RangeEquality
  <2>3. Range(<<link>>) = {link}
    BY <2>1, <2>2
  <2>4. <<>> \in Seq(Link) /\ Len(<<>>) = 0
    BY EmptySeq
  <2>5. Range(<<>>) = {}
    BY NothingIn
  <2>6. QED
    BY <2>1, <2>3, <2>4, <2>5
<1>6. CASE Stale(p, identity)
  <2>1. ASSUME NEW s \in Slugs
        PROVE  /\ links'[s] \in Seq(Link)
               /\ Range(links'[s]) = {l \in Range(links[s]) : l.path # p} \cup (IF s = slug THEN {link} ELSE {})
    <3> DEFINE more == IF s = slug THEN <<link>> ELSE <<>>
    <3>1. links'[s] = Without(links[s], p) \o more
      BY <1>3, <1>6 DEF link
    <3>2. more \in Seq(Link) /\ Range(more) = IF s = slug THEN {link} ELSE {}
      BY <1>5
    <3> HIDE DEF more
    <3>3. Without(links[s], p) \in Seq(Link) /\ Range(Without(links[s], p)) = {l \in Range(links[s]) : l.path # p}
      BY <1>2, WithoutOf
    <3>4. Without(links[s], p) \o more \in Seq(Link)
      BY <3>2, <3>3, ConcatProperties
    <3>5. Range(Without(links[s], p) \o more) = Range(Without(links[s], p)) \cup Range(more)
      BY <3>2, <3>3, RangeConcatenation
    <3>6. QED
      BY <3>1, <3>2, <3>3, <3>4, <3>5
  <2>2. links' \in [Slugs -> Seq(Link)]
    <3>1. links' = [s \in Slugs |-> Without(links[s], p) \o (IF s = slug THEN <<link>> ELSE <<>>)]
      BY <1>3, <1>6 DEF link
    <3>2. \A s \in Slugs : Without(links[s], p) \o (IF s = slug THEN <<link>> ELSE <<>>) \in Seq(Link)
      BY <2>1, <3>1
    <3>3. QED
      BY <3>1, <3>2
  <2>3. lines' = {line \in lines : line.path # p} \cup {link} /\ link.path = p
    BY <1>3, <1>6 DEF link
  <2>4. LinesAgree'
    BY <2>3 DEF LinesAgree
  <2>5. LinksAreLines'
    BY <2>1, <2>3 DEF LinksAreLines
  <2>6. QED
    BY <1>4, <2>1, <2>2, <2>4, <2>5 DEF link
<1>7. CASE ~Stale(p, identity) /\ p \in RecordedPaths(slug)
  <2>1. links' = links /\ lines' = lines
    BY <1>3, <1>7
  <2>2. QED
    BY <1>4, <2>1 DEF LinesAgree, LinksAreLines, LinksTypeOK
<1>8. CASE ~Stale(p, identity) /\ p \notin RecordedPaths(slug)
  <2>1. links' = [links EXCEPT ![slug] = Append(links[slug], link)] /\ lines' = lines \cup {link}
    BY <1>3, <1>8 DEF link
  <2>2. Append(links[slug], link) \in Seq(Link) /\ Append(links[slug], link) = links[slug] \o <<link>>
    BY <1>1, <1>2, AppendProperties, AppendIsConcat
  <2>3. Range(Append(links[slug], link)) = Range(links[slug]) \cup {link}
    <3>1. links[slug] \in Seq(Link)
      BY <1>2
    <3> DEFINE one == <<link>>
    <3>2. Range(links[slug] \o one) = Range(links[slug]) \cup Range(one)
      <4>1. one \in Seq(Link)
        BY <1>5
      <4> HIDE DEF one
      <4>2. QED
        BY <3>1, <4>1, RangeConcatenation
    <3>3. QED
      BY <1>5, <2>2, <3>2
  <2>4. links' \in [Slugs -> Seq(Link)]
    BY <2>1, <2>2 DEF LinksTypeOK
  <2>5. \A s \in Slugs : Range(links'[s]) = Range(links[s]) \cup (IF s = slug THEN {link} ELSE {})
    BY <2>1, <2>3 DEF LinksTypeOK
  <2>6. LinksAreLines'
    BY <2>1, <2>5 DEF LinksAreLines
  <2>7. ASSUME NEW a \in lines, a.path = p, a.repository # NoClaim, identity # NoClaim
        PROVE a.repository = identity
    BY <1>8, <2>7 DEF Stale
  <2>8. link.path = p /\ link.repository = identity
    BY DEF link
  <2>9. LinesAgree'
    <3>1. ASSUME NEW a \in lines', NEW b \in lines', a.path = b.path,
                 a.repository # NoClaim, b.repository # NoClaim
          PROVE  a.repository = b.repository
      <4>1. CASE a \in lines /\ b \in lines
        BY <3>1, <4>1 DEF LinesAgree
      <4>2. CASE a = link /\ b \in lines
        BY <2>7, <2>8, <3>1, <4>2
      <4>3. CASE a \in lines /\ b = link
        BY <2>7, <2>8, <3>1, <4>3
      <4>4. CASE a = link /\ b = link
        BY <4>4
      <4>5. QED
        BY <2>1, <4>1, <4>2, <4>3, <4>4
    <3>2. QED
      BY <3>1 DEF LinesAgree
  <2>10. QED
    BY <1>4, <2>4, <2>5, <2>6, <2>9 DEF link
<1>9. QED
  BY <1>6, <1>7, <1>8

\* Of a link that stands for what was linked, what was asked of it then: what
\* stands there now is that, at that position unless the claim is shifted.
LEMMA AskedOf ==
    ASSUME LinksInv, NEW s \in Slugs, NEW l \in Range(links[s]), l \in Link,
           Exists(l.path), SameRepository(l)
    PROVE  \E k \in claims :
               /\ k.slug = s
               /\ k.identity = NoClaim \/ k.identity = RepositoryIdentity(l.path)
               /\ k.identity # NoClaim => Shifted(k) \/ k.position = Position(l.path)
<1>1. PICK k \in claims : k.slug = s /\ k.path = l.path /\ k.identity = l.repository
  BY DEF LinksInv, LinksAsked
<1>2. k.identity # NoClaim => RepositoryIdentity(l.path) = k.identity
  BY <1>1 DEF SameRepository
<1>3. k.identity # NoClaim => Shifted(k) \/ k.position = Position(l.path)
  BY <1>1, <1>2 DEF Shifted
<1>4. QED
  BY <1>1, <1>2, <1>3

\* So the project a directory's repository answers with was found where a person
\* said it is, or at a place that has shifted since.
LEMMA MatchFounded ==
    ASSUME LinksInv, NEW p \in Paths, CheckoutProject(p) # None
    PROVE  LET m == CheckoutProject(p) IN
           /\ m.slug \in Slugs /\ m.dir \in Paths
           /\ \/ \E k \in claims : k.slug = m.slug /\ Shifted(k)
              \/ /\ Founds(m.slug, RepositoryIdentity(m.dir), Position(m.dir))
                 /\ Founds(m.slug, RepositoryIdentity(p), Position(p))
<1> DEFINE m == CheckoutProject(p)
           here == TopIn(stands, p)
<1>1. LinksTypeOK /\ Rooted(stands) /\ ClaimsFounded
  BY DEF LinksInv
<1>2. m.slug \in Slugs /\ here # None
  BY <1>1, MatchOf
<1>3. PICK l \in Range(links[m.slug]) :
          /\ l \in Link /\ TopIn(stands, l.path) # None
          /\ stands[TopIn(stands, l.path)] = stands[here]
          /\ SameRepository(l)
          /\ m.dir = here \o PositionIn(stands, l.path)
          /\ Holds(m.dir, p)
  BY <1>1, MatchOf
<1> HIDE DEF m
<1>4. l.path \in Paths
  BY <1>3 DEF Link
<1>5. PositionIn(stands, l.path) \in Way /\ Exists(l.path)
  BY <1>3, <1>4, PositionOf, TopOfDirectory, Answers
<1>6. /\ m.dir \in Paths
      /\ TopIn(stands, m.dir) = here /\ PositionIn(stands, m.dir) = PositionIn(stands, l.path)
      /\ IdentityIn(stands, m.dir) = IdentityIn(stands, p)
      /\ Holds(PositionIn(stands, l.path), PositionIn(stands, p))
  BY <1>1, <1>2, <1>3, <1>5, CarriedTo DEF here
<1>7. IdentityIn(stands, l.path) = IdentityIn(stands, p)
  BY <1>2, <1>3 DEF IdentityIn
<1>8. PICK k \in claims :
          /\ k.slug = m.slug
          /\ k.identity = NoClaim \/ k.identity = RepositoryIdentity(l.path)
          /\ k.identity # NoClaim => Shifted(k) \/ k.position = Position(l.path)
  BY <1>2, <1>3, <1>5, AskedOf
<1>9. CASE Shifted(k)
  BY <1>2, <1>6, <1>8, <1>9 DEF m
<1>10. CASE ~Shifted(k)
  <2>1. PICK c \in claims :
            /\ c.said /\ c.slug = k.slug
            /\ \/ c.identity = NoClaim
               \/ c.identity = k.identity /\ Holds(c.position, k.position)
    BY <1>1 DEF ClaimsFounded, Founds
  <2>2. CASE c.identity = NoClaim
    BY <1>2, <1>6, <1>8, <2>1, <2>2 DEF m, Founds
  <2>3. CASE c.identity # NoClaim
    <3>1. c.identity = k.identity /\ Holds(c.position, k.position)
      BY <2>1, <2>3
    <3>2. k.identity = IdentityIn(stands, l.path) /\ k.position = PositionIn(stands, l.path)
      BY <1>8, <1>10, <2>3, <3>1, Answers
    <3>3. c.position \in Way
      BY <1>1 DEF LinksTypeOK, Claims
    <3>4. PositionIn(stands, p) \in Way
      BY PositionOf
    <3>5. Holds(c.position, PositionIn(stands, p))
      BY <1>5, <1>6, <3>1, <3>2, <3>3, <3>4, HoldsOrder
    <3>6. Holds(c.position, PositionIn(stands, m.dir))
      BY <1>6, <3>1, <3>2
    <3>7. /\ c.identity = RepositoryIdentity(p) /\ Holds(c.position, Position(p))
          /\ c.identity = RepositoryIdentity(m.dir) /\ Holds(c.position, Position(m.dir))
      BY <1>6, <1>7, <3>1, <3>2, <3>5, <3>6, Answers
    <3>8. c.slug = m.slug
      BY <1>8, <2>1
    <3>9. /\ Founds(m.slug, RepositoryIdentity(m.dir), Position(m.dir))
          /\ Founds(m.slug, RepositoryIdentity(p), Position(p))
      BY <2>1, <3>7, <3>8 DEF Founds
    <3>10. QED
      BY <1>2, <1>6, <3>9 DEF m
  <2>4. QED
    BY <2>2, <2>3
<1>11. QED
  BY <1>9, <1>10

\* A command asks something of a directory, and the ledger and its marker follow.
LEMMA Asked ==
    ASSUME LinksInv, NEW slug \in Slugs, NEW p \in Paths, NEW said \in BOOLEAN,
           Exists(p), said \/ Founds(slug, RepositoryIdentity(p), Position(p)),
           stands' = stands, claims' = claims \cup {Claim(slug, p, said)},
           registry' \in Seq(Slugs),
           RecordLink(slug, p) \/ UNCHANGED <<links, lines>>,
           marker' = marker \/ marker' = [marker EXCEPT ![p] = slug]
    PROVE  LinksInv'
<1>0. PICK k : k = Claim(slug, p, said)
  OBVIOUS
<1>1. /\ LinksTypeOK /\ Rooted(stands) /\ LinesAgree /\ LinksAreLines
      /\ LinksAsked /\ ClaimsFounded /\ MarkersFounded
  BY DEF LinksInv
<1>2. /\ k \in Claims /\ k.slug = slug /\ k.path = p /\ k.said = said
      /\ k.identity = RepositoryIdentity(p) /\ k.position = Position(p)
  BY <1>0, IdentityType, PositionOf, Answers DEF Claims, Claim
<1>3. /\ links' \in [Slugs -> Seq(Link)] /\ lines' \in SUBSET Link /\ LinesAgree' /\ LinksAreLines'
      /\ \A s \in Slugs : \A l \in Range(links'[s]) :
             \/ l \in Range(links[s])
             \/ s = slug /\ l = [path |-> p, repository |-> RepositoryIdentity(p)]
  <2>1. CASE RecordLink(slug, p)
    BY <1>1, <2>1, Recorded
  <2>2. CASE UNCHANGED <<links, lines>>
    BY <1>1, <2>2 DEF LinksTypeOK, LinesAgree, LinksAreLines
  <2>3. QED
    BY <2>1, <2>2
<1>4. claims' = claims \cup {k}
  BY <1>0
<1>5. LinksTypeOK'
  <2>1. marker' \in [Paths -> Slugs \cup {None}]
    BY <1>1 DEF LinksTypeOK
  <2>2. claims' \in SUBSET Claims
    BY <1>1, <1>2, <1>4 DEF LinksTypeOK
  <2>3. QED
    BY <1>1, <1>3, <2>1, <2>2 DEF LinksTypeOK
<1>6. LinksAsked'
  <2>1. ASSUME NEW s \in Slugs, NEW l \in Range(links'[s])
        PROVE  \E j \in claims' : j.slug = s /\ j.path = l.path /\ j.identity = l.repository
    <3>1. CASE l \in Range(links[s])
      BY <1>1, <1>4, <3>1 DEF LinksAsked
    <3>2. CASE s = slug /\ l = [path |-> p, repository |-> RepositoryIdentity(p)]
      <4>1. l.path = p /\ l.repository = RepositoryIdentity(p)
        BY <3>2
      <4>2. QED
        BY <1>2, <1>4, <3>2, <4>1
    <3>3. QED
      BY <1>3, <3>1, <3>2
  <2>2. QED
    BY <2>1 DEF LinksAsked
<1>7. ASSUME NEW s, NEW i, NEW at, Founds(s, i, at) PROVE Founds(s, i, at)'
  BY <1>4, <1>7 DEF Founds
<1>8. Founds(slug, RepositoryIdentity(p), Position(p))'
  <2>1. (RepositoryIdentity(p))' = RepositoryIdentity(p) /\ Position(p)' = Position(p)
    BY DEF RepositoryIdentity, Position, CommonDir, TopOf, Exists
  <2>2. Holds(Position(p), Position(p))
    BY PositionOf, HoldsOrder, Answers
  <2>3. CASE said
    <3>1. k.said /\ k.slug = slug /\ k \in claims'
      BY <1>2, <1>4, <2>3
    <3>2. k.identity = (RepositoryIdentity(p))' /\ Holds(k.position, Position(p)')
      BY <1>2, <2>1, <2>2
    <3>3. QED
      BY <3>1, <3>2 DEF Founds
  <2>4. CASE Founds(slug, RepositoryIdentity(p), Position(p))
    BY <1>7, <2>1, <2>4
  <2>5. QED
    BY <2>3, <2>4
<1>9. ClaimsFounded'
  <2>1. (RepositoryIdentity(p))' = RepositoryIdentity(p) /\ Position(p)' = Position(p)
    BY DEF RepositoryIdentity, Position, CommonDir, TopOf, Exists
  <2>2. ASSUME NEW c \in claims PROVE Founds(c.slug, c.identity, c.position)'
    <3>1. Founds(c.slug, c.identity, c.position)
      BY <1>1 DEF ClaimsFounded
    <3>2. QED
      BY <1>4, <3>1 DEF Founds
  <2>3. Founds(k.slug, k.identity, k.position)'
    BY <1>2, <1>8, <2>1 DEF Founds
  <2>4. QED
    BY <1>4, <2>2, <2>3 DEF ClaimsFounded
<1>10. MarkersFounded'
  <2>1. \A q \in Paths : /\ Exists(q)' = Exists(q) /\ (RepositoryIdentity(q))' = RepositoryIdentity(q)
                         /\ Position(q)' = Position(q)
    BY DEF RepositoryIdentity, Position, CommonDir, TopOf, Exists
  <2>2. ASSUME NEW q \in Paths, marker'[q] # None
        PROVE  Exists(q)' /\ Founds(marker[q], RepositoryIdentity(q), Position(q))'
    <3>1. CASE marker'[q] = marker[q]
      <4>1. Exists(q) /\ Founds(marker[q], RepositoryIdentity(q), Position(q))
        BY <1>1, <2>2, <3>1 DEF MarkersFounded
      <4>2. QED
        BY <1>4, <2>1, <3>1, <4>1 DEF Founds
    <3>2. CASE q = p /\ marker'[q] = slug
      BY <1>8, <2>1, <3>2 DEF Founds
    <3>3. QED
      BY <1>1, <3>1, <3>2 DEF LinksTypeOK
  <2>3. QED
    BY <2>2 DEF MarkersFounded
<1>11. Rooted(stands)'
  BY <1>1 DEF Rooted
<1>12. QED
  BY <1>3, <1>5, <1>6, <1>9, <1>10, <1>11 DEF LinksInv

\* A change of the tree leaves what was asked and what the ledger says alone: it
\* is kept if what stands, and what the marks that are left stand on, are.
LEMMA TreeChanged ==
    ASSUME LinksInv, UNCHANGED <<links, lines, registry, claims>>,
           stands' \in Standings, Rooted(stands'), marker' \in [Paths -> Slugs \cup {None}],
           \A p \in Paths : marker'[p] # None =>
               \E q \in Paths :
                   /\ marker[q] = marker'[p]
                   /\ ExistsIn(stands, q) => ExistsIn(stands', p)
                   /\ IdentityIn(stands', p) = IdentityIn(stands, q)
                   /\ PositionIn(stands', p) = PositionIn(stands, q)
    PROVE  LinksInv'
<1>1. LinksTypeOK'
  BY DEF LinksInv, LinksTypeOK
<1>2. LinesAgree' /\ LinksAreLines' /\ LinksAsked'
  BY DEF LinksInv, LinesAgree, LinksAreLines, LinksAsked
<1>3. ClaimsFounded'
  BY DEF LinksInv, ClaimsFounded, Founds
<1>4. MarkersFounded'
  <2>1. ASSUME NEW p \in Paths, marker'[p] # None
        PROVE  Exists(p)' /\ Founds(marker[p], RepositoryIdentity(p), Position(p))'
    <3>1. PICK q \in Paths :
              /\ marker[q] = marker'[p]
              /\ ExistsIn(stands, q) => ExistsIn(stands', p)
              /\ IdentityIn(stands', p) = IdentityIn(stands, q)
              /\ PositionIn(stands', p) = PositionIn(stands, q)
      BY <2>1
    <3>2. Exists(q) /\ Founds(marker[q], RepositoryIdentity(q), Position(q))
      BY <2>1, <3>1 DEF LinksInv, MarkersFounded
    <3>3. Exists(q) /\ Founds(marker[q], IdentityIn(stands, q), PositionIn(stands, q))
      BY <3>2, Answers
    <3>4. Exists(p)' <=> ExistsIn(stands', p)
      BY DEF Exists, ExistsIn
    <3>5. (RepositoryIdentity(p))' = IdentityIn(stands', p) /\ Position(p)' = PositionIn(stands', p)
      BY DEF RepositoryIdentity, CommonDir, Position, TopOf, Exists, ExistsIn, OverIn, TopIn,
             IdentityIn, PositionIn
    <3>6. Exists(p)'
      BY <3>1, <3>3, <3>4, Answers
    <3>7. Founds(marker[p], RepositoryIdentity(p), Position(p))'
      BY <3>1, <3>3, <3>5 DEF Founds
    <3>8. QED
      BY <3>6, <3>7
  <2>2. QED
    BY <2>1 DEF MarkersFounded
<1>5. QED
  BY <1>1, <1>2, <1>3, <1>4 DEF LinksInv

\* A clone, a worktree or a folder is made where nothing stood.
LEMMA PlaceKeeps ==
    ASSUME LinksInv, NEW t \in Tops, NEW what \in Repos \cup {Folder}, Place(t, what)
    PROVE  LinksInv'
<1>1. /\ stands \in Standings /\ Rooted(stands) /\ marker \in [Paths -> Slugs \cup {None}]
      /\ stands[t] = Gone /\ stands' = [stands EXCEPT ![t] = what]
      /\ UNCHANGED <<marker, links, lines, registry, claims>>
  BY DEF LinksInv, LinksTypeOK, Place
<1>2. what # Gone /\ stands' \in Standings
  BY <1>1, ValuesAssumption DEF Standings
<1>3. t \in Way /\ Len(t) \in Nat \ {0} /\ t \in Paths
  BY PathIsWay, PathsAssumption
<1>4. ASSUME NEW u \in Tops, Holds(u, t), u # t PROVE stands[u] # Gone
  <2>1. u \in Way /\ Len(u) \in Nat \ {0} /\ u \in Paths /\ Len(u) <= Len(t)
    BY <1>3, <1>4, PathIsWay, PathsAssumption, HoldsMeans
  <2>2. Len(u) < Len(t)
    <3>1. ~(Len(t) <= Len(u))
      BY <1>3, <1>4, <2>1, HoldsOrder
    <3>2. QED
      BY <1>3, <2>1, <3>1
  <2> DEFINE q == SubSeq(t, 1, Len(t) - 1)
  <2>3. Len(t) > 1 /\ Len(t) - 1 \in 1..Len(t)
    BY <1>3, <2>1, <2>2
  <2>4. q \in Paths /\ Exists(q)
    BY <1>3, <2>3, PathsAssumption DEF Place
  <2>5. /\ Len(q) = Len(t) - 1 /\ \A i \in 1..(Len(t) - 1) : q[i] = t[i]
    <3>1. \A i \in 1..(Len(t) - 1) : t[i] \in Names
      BY <1>3, <2>3, ElementOfSeq DEF Way
    <3>2. 1 \in Int /\ Len(t) - 1 \in Int
      BY <1>3
    <3>3. /\ Len(q) = IF 1 <= Len(t) - 1 THEN Len(t) - 1 - 1 + 1 ELSE 0
          /\ \A i \in 1..(Len(t) - 1 - 1 + 1) : q[i] = t[1 + i - 1]
      BY <3>1, <3>2, SubSeqProperties
    <3>4. Len(t) - 1 - 1 + 1 = Len(t) - 1
      BY <1>3
    <3>5. \A i \in 1..(Len(t) - 1) : 1 + i - 1 = i
      BY <1>3
    <3>6. QED
      BY <1>3, <2>3, <3>3, <3>4, <3>5
  <2> HIDE DEF q
  <2>6. q \in Way
    BY <2>4, PathIsWay
  <2>7. Len(u) <= Len(q)
    BY <1>3, <2>1, <2>2, <2>5
  <2>8. \A i \in 1..Len(q) : t[i] = q[i]
    BY <2>5
  <2>9. Len(q) <= Len(t)
    BY <1>3, <2>5
  <2>10. Holds(q, t)
    BY <1>3, <2>6, <2>8, <2>9, HoldsMeans
  <2>11. Holds(u, q)
    BY <1>3, <1>4, <2>1, <2>6, <2>7, <2>10, HoldsOrder
  <2>12. QED
    BY <1>1, <2>4, <2>11, AboveExists, Answers
<1>5. Rooted(stands')
  <2>1. ASSUME NEW v \in Tops, NEW u \in Tops, stands'[v] # Gone, Holds(u, v) PROVE stands'[u] # Gone
    <3>1. CASE u = t
      BY <1>1, <1>2, <3>1 DEF Standings
    <3>2. CASE u # t /\ v = t
      BY <1>1, <1>4, <2>1, <3>2 DEF Standings
    <3>3. CASE u # t /\ v # t
      BY <1>1, <2>1, <3>3 DEF Standings, Rooted
    <3>4. QED
      BY <3>1, <3>2, <3>3
  <2>2. QED
    BY <2>1 DEF Rooted
<1>6. ASSUME NEW p \in Paths, marker'[p] # None
      PROVE  /\ ExistsIn(stands, p) => ExistsIn(stands', p)
             /\ IdentityIn(stands', p) = IdentityIn(stands, p)
             /\ PositionIn(stands', p) = PositionIn(stands, p)
  <2>1. ExistsIn(stands, p)
    BY <1>1, <1>6, Answers DEF LinksInv, MarkersFounded
  <2>2. ~Holds(t, p)
    BY <1>1, <2>1, AboveExists
  <2>3. \A u \in Tops : Holds(u, p) => stands'[u] = stands[u]
    BY <1>1, <2>2 DEF Standings
  <2>4. QED
    BY <2>3, AlikeOver
<1>7. QED
  BY <1>1, <1>2, <1>5, <1>6, TreeChanged

\* A tree is removed with everything in it.
LEMMA RemoveKeeps ==
    ASSUME LinksInv, NEW t \in Tops, RemoveTree(t) PROVE LinksInv'
<1>1. /\ stands \in Standings /\ Rooted(stands) /\ marker \in [Paths -> Slugs \cup {None}]
      /\ stands' = [u \in Tops |-> IF Holds(t, u) THEN Gone ELSE stands[u]]
      /\ marker' = [p \in Paths |-> IF Holds(t, p) THEN None ELSE marker[p]]
      /\ UNCHANGED <<links, lines, registry, claims>>
  BY DEF LinksInv, LinksTypeOK, RemoveTree, Under
<1>2. stands' \in Standings /\ marker' \in [Paths -> Slugs \cup {None}]
  BY <1>1 DEF Standings
<1>3. \A p \in Paths : p \in Way
  BY PathIsWay
<1>4. \A u \in Tops, p \in Paths : Holds(t, u) /\ Holds(u, p) => Holds(t, p)
  BY <1>3, PathsAssumption, HoldsOrder
<1>5. Rooted(stands')
  <2>1. ASSUME NEW v \in Tops, NEW u \in Tops, stands'[v] # Gone, Holds(u, v) PROVE stands'[u] # Gone
    <3>1. ~Holds(t, v) /\ stands[v] # Gone
      BY <1>1, <2>1
    <3>2. ~Holds(t, u)
      BY <1>4, <2>1, <3>1, PathsAssumption
    <3>3. QED
      BY <1>1, <2>1, <3>1, <3>2 DEF Rooted
  <2>2. QED
    BY <2>1 DEF Rooted
<1>6. ASSUME NEW p \in Paths, marker'[p] # None
      PROVE  /\ marker[p] = marker'[p]
             /\ ExistsIn(stands, p) => ExistsIn(stands', p)
             /\ IdentityIn(stands', p) = IdentityIn(stands, p)
             /\ PositionIn(stands', p) = PositionIn(stands, p)
  <2>1. ~Holds(t, p) /\ marker[p] = marker'[p]
    BY <1>1, <1>6
  <2>2. \A u \in Tops : Holds(u, p) => stands'[u] = stands[u]
    BY <1>1, <1>4, <2>1
  <2>3. QED
    BY <2>1, <2>2, AlikeOver
<1>7. QED
  BY <1>1, <1>2, <1>5, <1>6, TreeChanged

\* A checkout moves with what is in it: a marked directory of it is told apart
\* where it comes to as it was where it came from.
LEMMA TreeMoveKeeps ==
    ASSUME LinksInv, NEW t \in Tops, NEW u \in Tops, MoveTree(t, u) PROVE LinksInv'
<1>1. /\ stands \in Standings /\ Rooted(stands) /\ marker \in [Paths -> Slugs \cup {None}]
      /\ stands[t] \in Repos /\ stands[u] = Gone /\ Len(u) = 1
      /\ \A v \in Tops \ {t} : Holds(t, v) => stands[v] = Gone
      /\ \A p \in Paths : Holds(u, p) /\ Nearest[p] # u => Carried(t, u, p) = None
      /\ stands' = [stands EXCEPT ![t] = Gone, ![u] = stands[t]]
      /\ marker' = [p \in Paths |-> CASE Holds(t, p) -> None
                                      [] Holds(u, p) -> Carried(t, u, p)
                                      [] OTHER -> marker[p]]
      /\ UNCHANGED <<links, lines, registry, claims>>
  BY DEF LinksInv, LinksTypeOK, MoveTree, Under
<1>2. \A p \in Paths : p \in Way /\ Len(p) \in Nat \ {0}
  BY PathIsWay
<1>3. \A v \in Tops : v \in Way /\ v \in Paths
  BY <1>2, PathsAssumption
<1>4. stands[t] # Gone /\ t # u
  BY <1>1, ValuesAssumption
<1>5. /\ stands' \in Standings /\ stands'[t] = Gone /\ stands'[u] = stands[t]
      /\ \A v \in Tops \ {t, u} : stands'[v] = stands[v]
  BY <1>1, <1>4 DEF Standings
<1>6. ~Holds(u, t) /\ ~Holds(t, u)
  <2>1. ~Holds(u, t)
    BY <1>1, <1>4 DEF Rooted
  <2>2. Len(u) <= Len(t)
    BY <1>1, <1>2, <1>3
  <2>3. ~Holds(t, u)
    BY <1>3, <1>4, <2>2, HoldsOrder
  <2>4. QED
    BY <2>1, <2>3
<1>7. marker' = [p \in Paths |-> IF Holds(t, p) THEN None
                                  ELSE IF Holds(u, p) THEN Carried(t, u, p) ELSE marker[p]]
  <2>1. ASSUME NEW p \in Paths, Holds(t, p), Holds(u, p) PROVE FALSE
    <3>1. Len(t) <= Len(u) \/ Len(u) <= Len(t)
      BY <1>2, <1>3
    <3>2. QED
      BY <1>2, <1>3, <1>6, <2>1, <3>1, HoldsOrder
  <2>2. ASSUME NEW p \in Paths
        PROVE (CASE Holds(t, p) -> None [] Holds(u, p) -> Carried(t, u, p) [] OTHER -> marker[p])
              = IF Holds(t, p) THEN None ELSE IF Holds(u, p) THEN Carried(t, u, p) ELSE marker[p]
    BY <2>1
  <2>3. QED
    BY <1>1, <2>2
<1>8. marker' \in [Paths -> Slugs \cup {None}]
  <2>1. \A p \in Paths : Carried(t, u, p) \in Slugs \cup {None}
    BY <1>1 DEF Carried
  <2>2. \A p \in Paths : marker[p] \in Slugs \cup {None}
    BY <1>1
  <2>3. \A p \in Paths : marker'[p] \in Slugs \cup {None}
    BY <1>7, <2>1, <2>2
  <2>4. marker' = [p \in Paths |-> marker'[p]]
    BY <1>7
  <2>5. QED
    BY <2>3, <2>4
<1>9. \A v \in Tops : Holds(v, u) => v = u
  <2>1. ASSUME NEW v \in Tops, Holds(v, u) PROVE v = u
    <3>1. Len(u) <= Len(v)
      BY <1>1, <1>2, <1>3
    <3>2. QED
      BY <1>3, <2>1, <3>1, HoldsOrder
  <2>2. QED
    BY <2>1
<1>10. Rooted(stands')
  <2>1. ASSUME NEW v \in Tops, NEW w \in Tops, stands'[v] # Gone, Holds(w, v) PROVE stands'[w] # Gone
    <3>1. v # t
      BY <1>5, <2>1
    <3>2. CASE v = u
      BY <1>9, <2>1, <3>2
    <3>3. CASE v # u
      <4>1. stands[v] # Gone /\ stands[w] # Gone
        BY <1>1, <1>5, <2>1, <3>1, <3>3 DEF Rooted
      <4>2. w # u
        BY <1>1, <4>1
      <4>3. w # t
        BY <1>1, <2>1, <3>1, <4>1
      <4>4. QED
        BY <1>5, <4>1, <4>2, <4>3
    <3>4. QED
      BY <3>2, <3>3
  <2>2. QED
    BY <2>1 DEF Rooted
<1>11. ASSUME NEW p \in Paths, marker'[p] # None
       PROVE  \E q \in Paths :
                   /\ marker[q] = marker'[p]
                   /\ ExistsIn(stands, q) => ExistsIn(stands', p)
                   /\ IdentityIn(stands', p) = IdentityIn(stands, q)
                   /\ PositionIn(stands', p) = PositionIn(stands, q)
  <2>1. ~Holds(t, p)
    BY <1>7, <1>11
  <2>2. CASE Holds(u, p)
    <3>1. marker'[p] = Carried(t, u, p) /\ Nearest[p] = u
      BY <1>1, <1>7, <1>11, <2>1, <2>2
    <3> DEFINE at == Relative(u, p)
               q == t \o at
    <3>2. q \in Paths /\ marker[q] = marker'[p]
      BY <1>11, <3>1 DEF Carried
    <3>3. at \in Way /\ Holds(t, q) /\ Relative(t, q) = at
      BY <1>2, <1>3, <2>2, RelativeOf, RelativeBack
    <3> HIDE DEF q, at
    <3>4. ExistsIn(stands, q)
      BY <1>11, <3>2, Answers DEF LinksInv, MarkersFounded
    <3>5. \A v \in Tops : Holds(v, q) /\ stands[v] \in Repos => Holds(v, t)
      <4>1. ASSUME NEW v \in Tops, Holds(v, q), stands[v] \in Repos PROVE Holds(v, t)
        <5>1. CASE Len(v) <= Len(t)
          BY <1>3, <3>2, <3>3, <4>1, <5>1, <1>2, HoldsOrder
        <5>2. CASE Len(t) <= Len(v)
          <6>1. Holds(t, v)
            BY <1>2, <1>3, <3>2, <3>3, <4>1, <5>2, HoldsOrder
          <6>2. v = t
            BY <1>1, <4>1, <6>1, ValuesAssumption
          <6>3. QED
            BY <1>3, <6>2, HoldsOrder
        <5>3. QED
          BY <1>2, <1>3, <5>1, <5>2
      <4>2. QED
        BY <4>1
    <3>6. TopIn(stands, q) = t
      BY <1>1, <3>2, <3>3, <3>4, <3>5, TopFound
    <3>7. ExistsIn(stands', p)
      BY <1>4, <1>5, <3>1 DEF ExistsIn
    <3>8. \A v \in Tops : Holds(v, p) => Holds(v, u)
      BY <3>1, NearestOf
    <3>9. TopIn(stands', p) = u
      BY <1>1, <1>5, <2>2, <3>7, <3>8, TopFound
    <3>10. t # None /\ u # None
      BY <1>3, ValuesAssumption
    <3>11. PositionIn(stands, q) = at /\ PositionIn(stands', p) = at
      BY <3>3, <3>6, <3>9, <3>10 DEF PositionIn, at
    <3>12. IdentityIn(stands', p) = IdentityIn(stands, q)
      BY <1>5, <3>6, <3>9, <3>10 DEF IdentityIn
    <3>13. QED
      BY <3>2, <3>7, <3>11, <3>12
  <2>3. CASE ~Holds(u, p)
    <3>1. marker[p] = marker'[p]
      BY <1>7, <2>1, <2>3
    <3>2. \A v \in Tops : Holds(v, p) => stands'[v] = stands[v]
      BY <1>5, <2>1, <2>3
    <3>3. QED
      BY <3>1, <3>2, AlikeOver
  <2>4. QED
    BY <2>2, <2>3
<1>12. QED
  BY <1>1, <1>5, <1>8, <1>10, <1>11, TreeChanged

\* Links that leave leave what was asked alone, and the lines.
LEMMA LinksLeave ==
    ASSUME LinksInv, links' \in [Slugs -> Seq(Link)],
           \A s \in Slugs : Range(links'[s]) \subseteq Range(links[s]),
           marker' \in [Paths -> Slugs \cup {None}],
           \A p \in Paths : marker'[p] # None => marker'[p] = marker[p],
           UNCHANGED <<stands, lines, registry, claims>>
    PROVE  LinksInv'
<1>1. LinksTypeOK' /\ Rooted(stands)' /\ LinesAgree'
  BY DEF LinksInv, LinksTypeOK, Rooted, LinesAgree
<1>2. LinksAreLines'
  BY DEF LinksInv, LinksAreLines
<1>3. LinksAsked'
  <2>1. ASSUME NEW s \in Slugs, NEW l \in Range(links'[s])
        PROVE  \E k \in claims' : k.slug = s /\ k.path = l.path /\ k.identity = l.repository
    BY DEF LinksInv, LinksAsked
  <2>2. QED
    BY <2>1 DEF LinksAsked
<1>4. ClaimsFounded'
  BY DEF LinksInv, ClaimsFounded, Founds
<1>5. MarkersFounded'
  <2>1. ASSUME NEW p \in Paths, marker'[p] # None
        PROVE  Exists(p)' /\ Founds(marker[p], RepositoryIdentity(p), Position(p))'
    <3>1. Exists(p) /\ Founds(marker'[p], RepositoryIdentity(p), Position(p))
      BY <2>1 DEF LinksInv, MarkersFounded
    <3>2. QED
      BY <3>1 DEF Founds, RepositoryIdentity, Position, CommonDir, TopOf, Exists
  <2>2. QED
    BY <2>1 DEF MarkersFounded
<1>6. QED
  BY <1>1, <1>2, <1>3, <1>4, <1>5 DEF LinksInv

\* Registering a project, as far as it came: what it is for is said.
LEMMA InitKeeps ==
    ASSUME LinksInv, NEW p \in Paths, NEW slug \in Slugs,
           NEW upto \in {"row", "link", "marker"}, ProjectInit(p, slug, upto)
    PROVE  LinksInv'
<1>1. /\ Exists(p) /\ registry' = Append(registry, slug)
      /\ claims' = claims \cup {Claim(slug, p, TRUE)} /\ stands' = stands
      /\ RecordLink(slug, p) \/ UNCHANGED <<links, lines>>
      /\ marker' = marker \/ marker' = [marker EXCEPT ![p] = slug]
  BY DEF ProjectInit, LinkProject
<1>2. registry' \in Seq(Slugs)
  BY <1>1, AppendProperties DEF LinksInv, LinksTypeOK
<1>3. QED
  BY <1>1, <1>2, Asked

\* Linking a project: by name, or the one the directory's repository answers with.
LEMMA LinkKeeps ==
    ASSUME LinksInv, NEW p \in Paths, NEW named \in Slugs \cup {None},
           NEW force \in BOOLEAN, ProjectLink(p, named, force)
    PROVE  LinksInv'
<1> DEFINE slug == IF named = None THEN InferredSlug(p) ELSE named
           shifted == \E c \in claims : c.slug = slug /\ Shifted(c)
           said == named # None \/ shifted
<1>1. /\ Exists(p) /\ slug \in Range(registry)
      /\ claims' = claims \cup {Claim(slug, p, said)} /\ stands' = stands
      /\ RecordLink(slug, p) /\ marker' = [marker EXCEPT ![p] = slug]
      /\ registry' = registry
  BY DEF ProjectLink, LinkProject
<1>2. slug \in Slugs /\ registry' \in Seq(Slugs)
  <2>1. registry \in Seq(Slugs)
    BY DEF LinksInv, LinksTypeOK
  <2> HIDE DEF slug
  <2>2. QED
    BY <1>1, <2>1, RangeOfSeq
<1>3. said \in BOOLEAN
  OBVIOUS
<1>4. said \/ Founds(slug, RepositoryIdentity(p), Position(p))
  <2>1. CASE named # None
    BY <2>1
  <2>2. CASE named = None
    <3>1. CheckoutProject(p) # None /\ slug = CheckoutProject(p).slug
      BY <1>2, <2>2, ValuesAssumption DEF InferredSlug
    <3>2. \/ \E k \in claims : k.slug = slug /\ Shifted(k)
          \/ Founds(slug, RepositoryIdentity(p), Position(p))
      BY <3>1, MatchFounded
    <3>3. QED
      BY <3>2
  <2>3. QED
    BY <2>1, <2>2
<1>5. PICK s : s = slug
  OBVIOUS
<1>6. PICK b \in BOOLEAN : b = said
  BY <1>3
<1> HIDE DEF slug, said
<1>7. QED
  BY <1>1, <1>2, <1>4, <1>5, <1>6, Asked

\* Detaching a path, and the sweep of the links whose path is gone.
LEMMA LeaveKeeps ==
    ASSUME LinksInv,
           \/ \E p \in Paths, slug \in Slugs, force \in BOOLEAN : ProjectUnlink(slug, p, force)
           \/ PruneDeadLinks
    PROVE  LinksInv'
<1>1. \A s \in Slugs : links[s] \in Seq(Link)
  BY DEF LinksInv, LinksTypeOK
<1>2. ASSUME NEW p \in Paths, NEW slug \in Slugs, NEW force \in BOOLEAN, ProjectUnlink(slug, p, force)
      PROVE  LinksInv'
  <2>1. /\ links' = [links EXCEPT ![slug] = Without(links[slug], p)]
        /\ marker' = IF marker[p] = slug THEN [marker EXCEPT ![p] = None] ELSE marker
        /\ UNCHANGED <<stands, lines, registry, claims>>
    BY <1>2 DEF ProjectUnlink
  <2>2. /\ Without(links[slug], p) \in Seq(Link)
        /\ Range(Without(links[slug], p)) \subseteq Range(links[slug])
    BY <1>1, WithoutOf
  <2>3. links' \in [Slugs -> Seq(Link)] /\ \A s \in Slugs : Range(links'[s]) \subseteq Range(links[s])
    BY <2>1, <2>2 DEF LinksInv, LinksTypeOK
  <2>4. /\ marker' \in [Paths -> Slugs \cup {None}]
        /\ \A q \in Paths : marker'[q] # None => marker'[q] = marker[q]
    BY <2>1 DEF LinksInv, LinksTypeOK
  <2>5. QED
    BY <2>1, <2>3, <2>4, LinksLeave
<1>3. ASSUME PruneDeadLinks PROVE LinksInv'
  <2>1. /\ links' = [s \in Slugs |-> Kept(links[s], {i \in DOMAIN links[s] : Exists(links[s][i].path)})]
        /\ UNCHANGED <<marker, stands, lines, registry, claims>>
    BY <1>3 DEF PruneDeadLinks
  <2>2. ASSUME NEW s \in Slugs
        PROVE links'[s] \in Seq(Link) /\ Range(links'[s]) \subseteq Range(links[s])
    <3> DEFINE at == {i \in DOMAIN links[s] : Exists(links[s][i].path)}
    <3>1. links'[s] = Kept(links[s], at) /\ at \in SUBSET DOMAIN links[s]
      BY <2>1
    <3> HIDE DEF at
    <3>2. Kept(links[s], at) \in Seq(Link) /\ Range(Kept(links[s], at)) = {links[s][i] : i \in at}
      BY <1>1, <3>1, KeptOf
    <3>3. Range(links[s]) = {links[s][i] : i \in DOMAIN links[s]}
      BY <1>1, LenProperties, RangeEquality
    <3>4. QED
      BY <3>1, <3>2, <3>3
  <2>3. links' \in [Slugs -> Seq(Link)]
    BY <2>1, <2>2
  <2>4. marker' \in [Paths -> Slugs \cup {None}]
    BY <2>1 DEF LinksInv, LinksTypeOK
  <2>5. QED
    BY <2>1, <2>2, <2>3, <2>4, LinksLeave
<1>4. QED
  BY <1>2, <1>3

\* Every step keeps the invariant.
LEMMA NextKeeps == LinksInv /\ [CheckoutsNext]_vars => LinksInv'
<1> SUFFICES ASSUME LinksInv, [CheckoutsNext]_vars PROVE LinksInv'
  OBVIOUS
<1>1. ASSUME NEW p \in Paths, NEW slug \in Slugs,
             NEW upto \in {"row", "link", "marker"}, ProjectInit(p, slug, upto)
      PROVE  LinksInv'
  BY <1>1, InitKeeps
<1>2. ASSUME NEW p \in Paths, NEW named \in Slugs \cup {None}, NEW force \in BOOLEAN,
             ProjectLink(p, named, force)
      PROVE  LinksInv'
  BY <1>2, LinkKeeps
<1>3. ASSUME NEW p \in Paths, NEW slug \in Slugs, NEW force \in BOOLEAN, ProjectUnlink(slug, p, force)
      PROVE  LinksInv'
  BY <1>3, LeaveKeeps
<1>4. ASSUME PruneDeadLinks PROVE LinksInv'
  BY <1>4, LeaveKeeps
<1>5. ASSUME NEW t \in Tops, NEW what \in Repos \cup {Folder}, Place(t, what) PROVE LinksInv'
  BY <1>5, PlaceKeeps
<1>6. ASSUME NEW t \in Tops, RemoveTree(t) PROVE LinksInv'
  BY <1>6, RemoveKeeps
<1>7. ASSUME NEW t \in Tops, NEW u \in Tops, MoveTree(t, u) PROVE LinksInv'
  BY <1>7, TreeMoveKeeps
<1>8. ASSUME UNCHANGED vars PROVE LinksInv'
  <2>1. UNCHANGED <<stands, lines, registry, claims, links, marker>>
    BY <1>8 DEF vars
  <2>2. links' \in [Slugs -> Seq(Link)] /\ marker' \in [Paths -> Slugs \cup {None}]
    BY <2>1 DEF LinksInv, LinksTypeOK
  <2>3. QED
    BY <2>1, <2>2, LinksLeave
<1>9. QED
  BY <1>1, <1>2, <1>3, <1>4, <1>5, <1>6, <1>7, <1>8 DEF CheckoutsNext

\* The invariant of every run of the commands and of the tree around them.
THEOREM InductiveInvariant == CheckoutsSpec => []LinksInv
<1>1. CheckoutsInit => LinksInv
  BY InitInvariant
<1>2. LinksInv /\ [CheckoutsNext]_vars => LinksInv'
  BY NextKeeps
<1>3. QED
  BY <1>1, <1>2, PTL DEF CheckoutsSpec

-----------------------------------------------------------------------------
(* What the invariant shows                                                 *)

\* A place a person's word founds is said to be the project's.
LEMMA FoundedIsSaid ==
    ASSUME NEW slug, NEW p, Founds(slug, RepositoryIdentity(p), Position(p)) PROVE Said(slug, p)
  BY DEF Founds, Said

\* No directory answers for a project of another place.
LEMMA AnswersAreSaid == LinksInv => AnswersForItsOwn
<1> SUFFICES ASSUME LinksInv PROVE AnswersForItsOwn
  OBVIOUS
<1>1. LinksTypeOK /\ Rooted(stands) /\ MarkersFounded
  BY DEF LinksInv
<1>2. ASSUME NEW p \in Paths, CheckoutProject(p) # None
      PROVE  Said(CheckoutProject(p).slug, CheckoutProject(p).dir)
  <2>1. CASE \E k \in claims : k.slug = CheckoutProject(p).slug /\ Shifted(k)
    BY <2>1 DEF Said
  <2>2. CASE Founds(CheckoutProject(p).slug, RepositoryIdentity(CheckoutProject(p).dir),
                    Position(CheckoutProject(p).dir))
    BY <2>2, FoundedIsSaid
  <2>3. QED
    BY <1>2, <2>1, <2>2, MatchFounded
<1>3. ASSUME NEW p \in Here, ProjectAt(p) # None
      PROVE  Said(ProjectAt(p).slug, ProjectAt(p).dir)
  <2> DEFINE m == FindUp(p)
             governs == Governing(p, m)
             over == {q \in Paths : Holds(q, p) /\ marker[q] # None}
  <2>1. p \in Paths /\ p \in Way
    BY PathIsWay DEF Here
  <2>2. m # None => m \in Paths /\ Holds(m, p) /\ marker[m] # None
    <3>1. over # {} => Deepest(over) \in over
      <4>1. over \in SUBSET Way /\ \A q \in over : Holds(q, p)
        BY PathIsWay
      <4> HIDE DEF over
      <4>2. QED
        BY <2>1, <4>1, DeepestOf
    <3>2. QED
      BY <3>1 DEF FindUp
  <2>3. governs = None \/ governs = m
    BY DEF Governing
  <2>4. CASE governs # None
    <3>1. ProjectAt(p) = [slug |-> marker[m], dir |-> m] /\ m # None
      BY <2>3, <2>4 DEF ProjectAt
    <3>2. Founds(marker[m], RepositoryIdentity(m), Position(m))
      BY <1>1, <2>2, <3>1 DEF MarkersFounded
    <3>3. ProjectAt(p).slug = marker[m] /\ ProjectAt(p).dir = m
      BY <3>1
    <3> HIDE DEF m
    <3>4. QED
      BY <3>2, <3>3, FoundedIsSaid
  <2>5. CASE governs = None /\ CheckoutProject(p) # None
    <3>1. ProjectAt(p) = CheckoutProject(p)
      BY <2>5 DEF ProjectAt
    <3>2. QED
      BY <1>2, <2>1, <2>5, <3>1
  <2>6. CASE governs = None /\ CheckoutProject(p) = None
    <3> DEFINE at == TopOf(p) \o Relative(TopOf(m), m)
    <3>1. ProjectAt(p) = Relocated(p, m)
      BY <2>6 DEF ProjectAt
    <3>2. /\ m # None /\ TopOf(p) # None /\ TopOf(m) # None /\ Holds(at, p)
          /\ Relocated(p, m) = [slug |-> marker[m], dir |-> at]
      BY <1>3, <3>1 DEF Relocated
    <3>3. CommonDir(p) = CommonDir(m)
      BY <2>6, <3>2 DEF Governing
    <3>4. m \in Paths /\ marker[m] # None
      BY <2>2, <3>2
    <3>5. ProjectAt(p).slug = marker[m] /\ ProjectAt(p).dir = at
      BY <3>1, <3>2
    <3> HIDE DEF m
    <3>6. /\ TopIn(stands, p) # None /\ TopIn(stands, m) # None
          /\ at = TopIn(stands, p) \o PositionIn(stands, m)
      <4>1. TopOf(p) = TopIn(stands, p) /\ TopOf(m) = TopIn(stands, m)
        BY Answers
      <4>2. PositionIn(stands, m) = Relative(TopOf(m), m)
        BY <3>2, <4>1 DEF PositionIn
      <4>3. QED
        BY <3>2, <4>1, <4>2
    <3>7. Founds(marker[m], RepositoryIdentity(m), Position(m))
      BY <1>1, <3>4 DEF MarkersFounded
    <3> HIDE DEF at
    <3>8. IdentityIn(stands, m) = IdentityIn(stands, p)
      BY <3>3, <3>6, Answers DEF IdentityIn
    <3>9. PositionIn(stands, m) \in Way
      BY <3>4, PositionOf
    <3>10. PositionIn(stands, at) = PositionIn(stands, m) /\ IdentityIn(stands, at) = IdentityIn(stands, p)
      BY <1>1, <2>1, <3>2, <3>6, <3>9, CarriedTo
    <3>11. RepositoryIdentity(at) = RepositoryIdentity(m) /\ Position(at) = Position(m)
      BY <3>8, <3>10, Answers
    <3>12. QED
      BY <3>5, <3>7, <3>11, FoundedIsSaid
  <2>7. QED
    BY <2>4, <2>5, <2>6
<1>4. ASSUME NEW p \in Here, NEW slug \in Range(registry), ResolveProjectPath(slug, p) # None,
             Exists(ResolveProjectPath(slug, p))
      PROVE  Said(slug, ResolveProjectPath(slug, p))
  <2> DEFINE at == ResolveProjectPath(slug, p)
  <2>1. p \in Paths /\ Exists(p)
    BY DEF Here
  <2>2. slug \in Slugs
    BY <1>1, RangeOfSeq DEF LinksTypeOK
  <2>3. CASE CheckoutProject(p) # None /\ CheckoutProject(p).slug = slug /\ at = CheckoutProject(p).dir
    BY <1>2, <2>1, <2>3
  <2>4. ASSUME NEW l \in Range(links[slug]), l \in Link, at = l.path, Exists(l.path), SameRepository(l)
        PROVE  Said(slug, at)
    <3>1. PICK k \in claims :
               /\ k.slug = slug
               /\ k.identity = NoClaim \/ k.identity = RepositoryIdentity(l.path)
               /\ k.identity # NoClaim => Shifted(k) \/ k.position = Position(l.path)
      BY <2>2, <2>4, AskedOf
    <3>2. CASE Shifted(k)
      BY <3>1, <3>2 DEF Said
    <3>3. CASE ~Shifted(k)
      <4>1. PICK c \in claims :
                /\ c.said /\ c.slug = k.slug
                /\ \/ c.identity = NoClaim
                   \/ c.identity = k.identity /\ Holds(c.position, k.position)
        BY DEF LinksInv, ClaimsFounded, Founds
      <4>2. CASE c.identity = NoClaim
        BY <3>1, <4>1, <4>2 DEF Said
      <4>3. CASE c.identity # NoClaim
        <5>1. c.identity = RepositoryIdentity(l.path) /\ Holds(c.position, Position(l.path))
          BY <3>1, <3>3, <4>1, <4>3
        <5>2. c.slug = slug /\ at = l.path
          BY <2>4, <3>1, <4>1
        <5> HIDE DEF at
        <5>3. QED
          BY <4>1, <5>1, <5>2 DEF Said
      <4>4. QED
        BY <4>2, <4>3
    <3>4. QED
      BY <3>2, <3>3
  <2>5. QED
    BY <1>1, <1>4, <2>1, <2>2, <2>3, <2>4, ResolvedAt
<1>5. QED
  BY <1>3, <1>4 DEF AnswersForItsOwn

\* projectAt, checkoutProject, resolveProjectPath: whatever is registered, linked
\* and moved about on a machine, no directory answers for a project nobody
\* registered or linked what stands there for.
THEOREM DirectoriesAnswerForTheirOwn == CheckoutsSpec => []AnswersForItsOwn
<1>1. LinksInv => AnswersForItsOwn
  BY AnswersAreSaid
<1>2. QED
  BY <1>1, InductiveInvariant, PTL

\* resolveProjectPaths: a project's evidence is judged across the same
\* repositories from every directory a fold can be run in.
THEOREM EvidenceIsJudgedTheSame == CheckoutsSpec => []JudgedTheSameFromAnywhere
<1>1. LinksInv => JudgedTheSameFromAnywhere
  <2> SUFFICES ASSUME LinksInv, NEW slug \in Range(registry)
               PROVE  Cardinality({ResolveProjectPaths(slug, p) : p \in Here}) <= 1
    BY DEF JudgedTheSameFromAnywhere
  <2>1. slug \in Slugs
    BY RangeOfSeq DEF LinksInv, LinksTypeOK
  <2>2. \A p \in Here : ResolveProjectPaths(slug, p) = Judged(slug)
    BY <2>1, JudgedAcross DEF LinksInv, Here
  <2> DEFINE S == {ResolveProjectPaths(slug, p) : p \in Here}
  <2>3. S = {} \/ S = {Judged(slug)}
    BY <2>2
  <2> HIDE DEF S
  <2>4. Cardinality(S) = 0 \/ Cardinality(S) = 1
    BY <2>3, FS_EmptySet, FS_Singleton
  <2>5. QED
    BY <2>4 DEF S
<1>2. QED
  BY <1>1, InductiveInvariant, PTL

\* recordLink, recordUnlink, pruneDeadLinks: a link is detached, swept when its
\* path is gone, or replaced at its path when what it claimed stands there no
\* more, or claimed nothing beside a claim that is stale.
THEOREM ALinkLeavesByName == CheckoutsSpec => LinksLeaveByName
<1> DEFINE Leaves ==
       \A slug \in Slugs : \A link \in Range(links[slug]) :
          link.path \notin RecordedPaths(slug)' =>
              \/ \E force \in BOOLEAN : ProjectUnlink(slug, link.path, force)
              \/ PruneDeadLinks /\ ~Exists(link.path)
              \/ /\ \E s \in Slugs : Linking(link.path, s)
                 /\ \/ ~SameRepository(link)
                    \/ /\ link.repository = NoClaim
                       /\ \E line \in lines : line.path = link.path /\ ~SameRepository(line)
<1>1. ASSUME LinksInv, [CheckoutsNext]_vars PROVE [Leaves]_vars
  <2> SUFFICES ASSUME CheckoutsNext, NEW slug \in Slugs, NEW link \in Range(links[slug]),
                      link.path \notin RecordedPaths(slug)'
               PROVE  \/ \E force \in BOOLEAN : ProjectUnlink(slug, link.path, force)
                      \/ PruneDeadLinks /\ ~Exists(link.path)
                      \/ /\ \E s \in Slugs : Linking(link.path, s)
                         /\ \/ ~SameRepository(link)
                            \/ /\ link.repository = NoClaim
                               /\ \E line \in lines : line.path = link.path /\ ~SameRepository(line)
    BY <1>1
  <2>1. /\ links[slug] \in Seq(Link) /\ links \in [Slugs -> Seq(Link)] /\ link \in lines
        /\ link \notin Range(links'[slug])
    BY <1>1 DEF LinksInv, LinksTypeOK, LinksAreLines, RecordedPaths
  <2>2. ASSUME NEW p \in Paths, NEW s \in Slugs, RecordLink(s, p), Linking(p, s)
        PROVE  /\ \E r \in Slugs : Linking(link.path, r)
               /\ \/ ~SameRepository(link)
                  \/ /\ link.repository = NoClaim
                     /\ \E line \in lines : line.path = link.path /\ ~SameRepository(line)
    <3> DEFINE identity == RepositoryIdentity(p)
    <3>1. CASE ~Stale(p, identity)
      <4>1. links' = links \/ links' = [links EXCEPT ![s] = Append(@, [path |-> p, repository |-> identity])]
        BY <2>2, <3>1 DEF RecordLink
      <4> DEFINE new == [path |-> p, repository |-> identity]
      <4>2. new \in Link
        BY IdentityType, Answers DEF Link
      <4> HIDE DEF new
      <4>3. links[s] \in Seq(Link)
        BY <2>1
      <4>4. Range(links[s]) \subseteq Range(Append(links[s], new))
        <5> DEFINE one == <<new>>
        <5>1. one \in Seq(Link) /\ Append(links[s], new) = links[s] \o one
          BY <4>2, <4>3, AppendIsConcat
        <5> HIDE DEF one
        <5>2. QED
          BY <4>3, <5>1, RangeConcatenation
      <4>5. Range(links[slug]) \subseteq Range(links'[slug])
        BY <2>1, <4>1, <4>4 DEF new
      <4>6. QED
        BY <2>1, <4>5
    <3>2. CASE Stale(p, identity)
      <4> DEFINE more == IF slug = s THEN <<[path |-> p, repository |-> identity]>> ELSE <<>>
      <4>1. links'[slug] = Without(links[slug], p) \o more
        BY <2>2, <3>2 DEF RecordLink
      <4>2. more \in Seq(Link)
        <5>1. [path |-> p, repository |-> identity] \in Link
          BY IdentityType, Answers DEF Link
        <5>2. QED
          BY <5>1
      <4> HIDE DEF more
      <4>3. Without(links[slug], p) \in Seq(Link) /\ Range(Without(links[slug], p)) = {l \in Range(links[slug]) : l.path # p}
        BY <2>1, WithoutOf
      <4>4. Range(links'[slug]) = Range(Without(links[slug], p)) \cup Range(more)
        BY <4>1, <4>2, <4>3, RangeConcatenation
      <4>5. link.path = p
        BY <2>1, <4>3, <4>4
      <4>6. PICK line \in lines : line.path = p /\ line.repository \notin {NoClaim, identity}
        BY <3>2 DEF Stale
      <4>7. ~SameRepository(line)
        BY <4>6 DEF SameRepository
      <4>8. link.repository = NoClaim \/ link.repository = line.repository
        BY <1>1, <2>1, <4>5, <4>6 DEF LinksInv, LinesAgree
      <4>9. link.repository = line.repository => ~SameRepository(link)
        BY <4>5, <4>6 DEF SameRepository
      <4>10. QED
        BY <2>2, <4>5, <4>6, <4>7, <4>8, <4>9
    <3>3. QED
      BY <3>1, <3>2
  <2>3. CASE \E p \in Paths, s \in Slugs, upto \in {"row", "link", "marker"} : ProjectInit(p, s, upto)
    <3>1. PICK p \in Paths, s \in Slugs, upto \in {"row", "link", "marker"} : ProjectInit(p, s, upto)
      BY <2>3
    <3>2. links' = links \/ RecordLink(s, p)
      BY <3>1 DEF ProjectInit, LinkProject
    <3>3. Linking(p, s)
      BY <3>1 DEF Linking
    <3>4. QED
      BY <2>1, <2>2, <3>2, <3>3
  <2>4. CASE \E p \in Paths, named \in Slugs \cup {None}, force \in BOOLEAN : ProjectLink(p, named, force)
    <3>1. PICK p \in Paths, named \in Slugs \cup {None}, force \in BOOLEAN : ProjectLink(p, named, force)
      BY <2>4
    <3> DEFINE s == IF named = None THEN InferredSlug(p) ELSE named
    <3>2. RecordLink(s, p) /\ s \in Range(registry)
      BY <3>1 DEF ProjectLink, LinkProject
    <3>3. PICK r \in Slugs : r = s
      <4> HIDE DEF s
      <4> QED
        BY <1>1, <3>2, RangeOfSeq DEF LinksInv, LinksTypeOK
    <3>4. Linking(p, r)
      BY <3>1, <3>3 DEF Linking
    <3> HIDE DEF s
    <3>5. QED
      BY <2>2, <3>2, <3>3, <3>4
  <2>5. CASE \E p \in Paths, s \in Slugs, force \in BOOLEAN : ProjectUnlink(s, p, force)
    <3>1. PICK p \in Paths, s \in Slugs, force \in BOOLEAN : ProjectUnlink(s, p, force)
      BY <2>5
    <3>2. links' = [links EXCEPT ![s] = Without(links[s], p)]
      BY <3>1 DEF ProjectUnlink
    <3>3. s = slug /\ link \notin Range(Without(links[slug], p))
      BY <2>1, <3>2
    <3>4. link.path = p
      BY <2>1, <3>3, WithoutOf
    <3>5. QED
      BY <3>1, <3>3, <3>4
  <2>6. CASE PruneDeadLinks
    <3> DEFINE at == {i \in DOMAIN links[slug] : Exists(links[slug][i].path)}
    <3>1. links'[slug] = Kept(links[slug], at) /\ at \in SUBSET DOMAIN links[slug]
      BY <2>6 DEF PruneDeadLinks
    <3>2. Range(links'[slug]) = {links[slug][i] : i \in at}
      BY <2>1, <3>1, KeptOf
    <3>3. Range(links[slug]) = {links[slug][i] : i \in DOMAIN links[slug]}
      BY <2>1, LenProperties, RangeEquality
    <3>4. ~Exists(link.path)
      BY <2>1, <3>2, <3>3
    <3>5. QED
      BY <2>6, <3>4
  <2>7. CASE \E t \in Tops : \/ \E what \in Repos \cup {Folder} : Place(t, what)
                             \/ RemoveTree(t)
                             \/ \E u \in Tops : MoveTree(t, u)
    <3>1. links' = links
      BY <2>7 DEF Place, RemoveTree, MoveTree
    <3>2. QED
      BY <2>1, <3>1
  <2>8. QED
    BY <2>3, <2>4, <2>5, <2>6, <2>7 DEF CheckoutsNext
<1>2. QED
  BY <1>1, InductiveInvariant, PTL DEF CheckoutsSpec, LinksLeaveByName
=============================================================================
