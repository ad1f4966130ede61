----------------------------- MODULE MiniApps ------------------------------
(***************************************************************************)
(* One mini-app on one machine: the signed key list that says which keys   *)
(* may have signed a release (trust.ts), the release an install writes and *)
(* selects, the mark of the highest version ever installed, and the loads  *)
(* of it (plugins.ts, app.ts).  Commands run beside each other and die;    *)
(* the rail serves any list and any release it ever published, or nothing. *)
(*                                                                         *)
(* A list is known by its place in Documents, which is the order of        *)
(* issued_at; an older one is what the rail may not go back to.            *)
(***************************************************************************)
EXTENDS Naturals, Sequences, FiniteSets

CONSTANTS
    Installers,  \* sessions that install, update and remove
    Loaders,     \* sessions that load the app, or read the list
    Documents,   \* the lists in the order issued: [revoked, floor]
    Releases,    \* what was ever published: [version, kid]
    MaxLapsed,   \* how many of the lists may expire
    MaxFaults    \* bound on deaths and suspended lock holders

NoOne == "no one"

ASSUME MiniAppsAssumption ==
    /\ Installers \cap Loaders = {} /\ NoOne \notin Installers \cup Loaders
    /\ {MaxLapsed, MaxFaults} \subseteq Nat
    /\ Documents \in Seq([revoked : SUBSET {r.kid : r \in Releases}, floor : Nat])
    /\ \A r \in Releases : r.version \in Nat \ {0}

Sessions == Installers \cup Loaders

VARIABLES
    published,   \* the newest list the operator has published
    lapsed,      \* the lists up to this one have expired
    cache,       \* trust.json: the list this machine holds, 0 for none
    lock,        \* trust.lock: who created it
    stale,       \* whether it is older than the break age
    dir,         \* per version: the release of manifest, signature and entry
    current,     \* the version selected, 0 for none
    mark,        \* plugin-state.json: the highest version, 0 for no entry
    major,       \* plugin-state.json: whether the rail's major is recorded
    pc, job,     \* where each session is, and what it holds
    robbed,      \* a lock was unlinked under a session at work
    rewound,     \* a load wrote back an entry an install had replaced
    faults

trust == <<cache, lock, stale>>
app == <<dir, current, mark, major>>
appsVars == <<published, lapsed, trust, app, pc, job, robbed, rewound, faults>>

NoRelease == [version |-> 0, kid |-> NoOne]
Versions == {r.version : r \in Releases}
Empty == [manifest |-> NoRelease, signature |-> NoRelease, entry |-> NoRelease]

\* seen: the list cached when the command began; held: the one it is about to
\* store; judged: the one it goes by; release: the manifest a load read, or what
\* an install was served; entry: the bytes read; mark: the entry it read.
NoJob == [seen |-> 0, held |-> 0, judged |-> 0, release |-> NoRelease, entry |-> NoRelease,
          mark |-> 0, downgrade |-> FALSE]

AppsInit ==
    /\ published = 1 /\ lapsed = 0
    /\ cache = 0 /\ lock = NoOne /\ stale = FALSE
    /\ dir = [v \in Versions |-> Empty] /\ current = 0 /\ mark = 0 /\ major = FALSE
    /\ pc = [s \in Sessions |-> "idle"] /\ job = [s \in Sessions |-> NoJob]
    /\ robbed = FALSE /\ rewound = FALSE /\ faults = 0

At(s, point) == pc[s] = point
Go(s, point, j) == pc' = [pc EXCEPT ![s] = point] /\ job' = [job EXCEPT ![s] = j]
End(s) == Go(s, "idle", NoJob)
Fault == faults < MaxFaults /\ faults' = faults + 1
InSection(s) == pc[s] \in {"compare", "replace", "unlock"}

Quiet == UNCHANGED <<published, lapsed, robbed, rewound, faults>>

----------------------------------------------------------------------------
(* The key list                                                            *)

Expired(d) == d <= lapsed

\* Judged next: an install asks the rail for a release, a load checks what is
\* installed, `app trust` prints.
Judge(s, j) == Go(s, IF s \in Installers THEN "ask" ELSE "probe", [j EXCEPT !.held = 0])

\* installedPlugins: a load knows the manifest before it has a list.
Selected == IF current = 0 THEN NoRelease ELSE dir[current].manifest
BeginInstall(s) ==
    /\ At(s, "idle") /\ s \in Installers
    /\ Go(s, "fetch", [NoJob EXCEPT !.seen = cache])
    /\ Quiet /\ UNCHANGED <<trust, app>>
\* A load goes by its cache until that is a day old, or has expired.
BeginLoad(s) ==
    /\ At(s, "idle") /\ s \in Loaders /\ Selected # NoRelease
    /\ LET j == [NoJob EXCEPT !.seen = cache, !.release = Selected] IN
       \/ Go(s, "fetch", j)
       \/ cache # 0 /\ ~Expired(cache) /\ Judge(s, [j EXCEPT !.judged = cache])
    /\ Quiet /\ UNCHANGED <<trust, app>>

\* What passes for a list: whole, signed by a pinned root that was valid then.
Acceptable == 1..published

\* 200 with a list some root signed, which may be an old one; an older one is
\* refused by an install, and a load keeps what it has.
Served(s) ==
    /\ At(s, "fetch")
    /\ \E d \in Acceptable :
          IF d < job[s].seen
          THEN IF s \in Installers THEN End(s) ELSE Judge(s, [job[s] EXCEPT !.judged = job[s].seen])
          ELSE IF s \in Installers /\ Expired(d) THEN End(s)
          ELSE Go(s, "store", [job[s] EXCEPT !.held = d])
    /\ Quiet /\ UNCHANGED <<trust, app>>
NotModified(s) ==
    /\ At(s, "fetch") /\ job[s].seen # 0
    /\ IF s \in Installers /\ Expired(job[s].seen) THEN End(s)
       ELSE Go(s, "store", [job[s] EXCEPT !.held = job[s].seen])
    /\ Quiet /\ UNCHANGED <<trust, app>>
\* The rail is down, or its answer is not one this machine accepts.
NoList(s) ==
    /\ At(s, "fetch")
    /\ IF s \in Installers \/ job[s].seen = 0 THEN End(s)
       ELSE Judge(s, [job[s] EXCEPT !.judged = job[s].seen])
    /\ Quiet /\ UNCHANGED <<trust, app>>

\* takeTrustLock, breakStaleTrustLock: the age is read, then the name unlinked.
TakeLock(s) ==
    /\ At(s, "store") /\ lock = NoOne
    /\ lock' = s /\ stale' = FALSE /\ Go(s, "compare", job[s])
    /\ Quiet /\ UNCHANGED <<cache, app>>
JudgeLock(s) ==
    /\ At(s, "store") /\ lock # NoOne /\ stale
    /\ Go(s, "break", job[s])
    /\ Quiet /\ UNCHANGED <<trust, app>>
BreakLock(s) ==
    /\ At(s, "break")
    /\ lock' = NoOne /\ stale' = FALSE
    /\ robbed' = (robbed \/ \E o \in Sessions : lock = o /\ InSection(o))
    /\ Go(s, "store", job[s])
    /\ UNCHANGED <<published, lapsed, cache, app, rewound, faults>>

\* What an install stored, it is judged under: it must not have expired.
Decide(s, d) ==
    IF s \in Installers /\ Expired(d) THEN End(s) ELSE Judge(s, [job[s] EXCEPT !.judged = d])

\* Mutant of Newer: what this process fetched is what it goes by.
NewerIgnored(s) == FALSE
\* What is on disk governs when it is newer than what this process holds.
Newer(s) == job[s].held < cache

\* writeTrustCache: compared and replaced inside the lock.
Compare(s) ==
    /\ At(s, "compare")
    /\ IF Newer(s) THEN Go(s, "unlock", [job[s] EXCEPT !.held = cache])
       ELSE Go(s, "replace", job[s])
    /\ Quiet /\ UNCHANGED <<trust, app>>
Replace(s) ==
    /\ At(s, "replace")
    /\ cache' = job[s].held /\ Go(s, "unlock", job[s])
    /\ Quiet /\ UNCHANGED <<lock, stale, app>>
Unlock(s) ==
    /\ At(s, "unlock")
    /\ lock' = NoOne /\ stale' = FALSE
    /\ robbed' = (robbed \/ \E o \in Sessions \ {s} : lock = o /\ InSection(o))
    /\ Decide(s, job[s].held)
    /\ UNCHANGED <<published, lapsed, cache, app, rewound, faults>>
\* unserialized: the wait for the lock ran out.
GiveUp(s) ==
    /\ At(s, "store") /\ lock # NoOne
    /\ \/ Newer(s) /\ Decide(s, cache)
       \/ ~Newer(s) /\ s \in Installers /\ cache = 0 /\ End(s)
       \/ ~Newer(s) /\ (s \in Loaders \/ cache # 0) /\ Decide(s, job[s].held)
    /\ Quiet /\ UNCHANGED <<trust, app>>

----------------------------------------------------------------------------
(* Installing                                                              *)

\* releaseKeyOf, assertVersionFloor.
Trusted(r, d) == r.kid \notin Documents[d].revoked /\ r.version >= Documents[d].floor

\* Nothing to download: what is installed is judged all the same.
AlreadyThere(s) ==
    /\ At(s, "ask") /\ Selected # NoRelease
    /\ End(s)
    /\ Quiet /\ UNCHANGED <<trust, app>>
\* What an install takes: the list allows it, and it is not below the mark
\* unless that was asked for.
Installable(s, r, allow) == Trusted(r, job[s].judged) /\ (mark = 0 \/ r.version >= mark \/ allow)
\* A release of any version, asked for by its pin or answered as the latest;
\* leave to go down matters only where it does.
FetchRelease(s) ==
    /\ At(s, "ask")
    /\ \E r \in Releases, allow \in BOOLEAN :
          /\ allow => r.version < mark
          /\ IF Installable(s, r, allow)
             THEN Go(s, "manifest", [NoJob EXCEPT !.release = r, !.mark = mark, !.downgrade = allow])
             ELSE End(s)
    /\ Quiet /\ UNCHANGED <<trust, app>>
NoReleaseServed(s) ==
    /\ At(s, "ask") /\ End(s)
    /\ Quiet /\ UNCHANGED <<trust, app>>

\* writeVersionDir: three files, in place.
WriteFile(s, point, file, next) ==
    /\ At(s, point)
    /\ dir' = [dir EXCEPT ![job[s].release.version][file] = job[s].release]
    /\ Go(s, next, job[s])
    /\ Quiet /\ UNCHANGED <<trust, current, mark, major>>
WriteManifest(s) == WriteFile(s, "manifest", "manifest", "signature")
WriteSignature(s) == WriteFile(s, "signature", "signature", "entry")

\* Whether the release is below the mark the install read.
Lower(s) == job[s].mark > job[s].release.version
\* Mutant of FirstStep: the order of an upgrade, whichever way it goes.
FirstStepOfUpgrade(s) == "current"
\* commitSelection: an upgrade selects first, a downgrade lowers the mark first.
FirstStep(s) == IF Lower(s) THEN "mark" ELSE "current"
OtherStep(step) == IF step = "mark" THEN "current" ELSE "mark"
WriteEntry(s) == WriteFile(s, "entry", "entry", FirstStep(s))

Then(s, step) == IF step = FirstStep(s) THEN Go(s, OtherStep(step), job[s]) ELSE End(s)
WriteCurrent(s) ==
    /\ At(s, "current")
    /\ current' = job[s].release.version /\ Then(s, "current")
    /\ Quiet /\ UNCHANGED <<trust, dir, mark, major>>
NewMark(s) ==
    IF Lower(s) \/ job[s].mark < job[s].release.version THEN job[s].release.version ELSE job[s].mark
\* The answer to the release request may have told the rail's major.
SetMark(s) ==
    /\ At(s, "mark")
    /\ mark' = NewMark(s) /\ \E told \in BOOLEAN : major' = (major \/ told)
    /\ Then(s, "mark")
    /\ Quiet /\ UNCHANGED <<trust, dir, current>>

\* The directory goes, the mark stays.
RemovePlugin(s) ==
    /\ At(s, "idle") /\ s \in Installers /\ current # 0
    /\ dir' = [v \in Versions |-> Empty] /\ current' = 0
    /\ Quiet /\ UNCHANGED <<trust, mark, major, pc, job>>

----------------------------------------------------------------------------
(* Loading                                                                 *)

\* resolveRailMajor: the entry is read, the rail asked, and the entry written
\* back with the major.
Probe(s) ==
    /\ At(s, "probe")
    /\ IF major THEN Go(s, "check", job[s]) ELSE Go(s, "probing", [job[s] EXCEPT !.mark = mark])
    /\ Quiet /\ UNCHANGED <<trust, app>>
Probed(s) ==
    /\ At(s, "probing")
    /\ \/ End(s) /\ UNCHANGED <<mark, major, rewound>>
       \/ job[s].mark = 0 /\ Go(s, "check", job[s]) /\ UNCHANGED <<mark, major, rewound>>
       \/ /\ job[s].mark # 0 /\ Go(s, "check", [job[s] EXCEPT !.mark = 0])
          /\ mark' = job[s].mark /\ major' = TRUE
          /\ rewound' = (rewound \/ mark # job[s].mark)
    /\ UNCHANGED <<published, lapsed, trust, dir, current, robbed, faults>>

\* loadPlugin up to the import: the floor, the signature against the manifest
\* it knows, the mark; the versions of CLI and rail may refuse it too.
Accepted(s) ==
    LET r == job[s].release IN
    /\ Trusted(r, job[s].judged)
    /\ dir[r.version].signature = r
    /\ mark # 0 /\ r.version >= mark
Check(s) ==
    /\ At(s, "check")
    /\ \/ /\ Accepted(s)
          /\ Go(s, "import", [NoJob EXCEPT !.release = job[s].release, !.judged = job[s].judged])
       \/ End(s)
    /\ Quiet /\ UNCHANGED <<trust, app>>

\* importVerified: the entry is read once, and what was read is what runs.
Read(s) ==
    /\ At(s, "import")
    /\ LET bytes == dir[job[s].release.version].entry IN
       IF bytes = job[s].release THEN Go(s, "stage", [job[s] EXCEPT !.entry = bytes]) ELSE End(s)
    /\ Quiet /\ UNCHANGED <<trust, app>>
\* Mutant of Staged: the path is opened again after it was hashed.
StagedAgain(s) == dir[job[s].release.version].entry
Staged(s) == job[s].entry
Import(s) ==
    /\ At(s, "stage")
    /\ Go(s, "running", [job[s] EXCEPT !.entry = Staged(s)])
    /\ Quiet /\ UNCHANGED <<trust, app>>
Ran(s) ==
    /\ At(s, "running") /\ End(s)
    /\ Quiet /\ UNCHANGED <<trust, app>>

----------------------------------------------------------------------------
(* What else happens                                                       *)

Die(s) ==
    /\ ~At(s, "idle") /\ Fault /\ End(s)
    /\ UNCHANGED <<published, lapsed, trust, app, robbed, rewound>>
\* A lock grows stale once its holder is gone, or held up.
LockAges ==
    /\ lock # NoOne /\ ~stale /\ stale' = TRUE
    /\ IF \E s \in Sessions : s = lock /\ InSection(s) THEN Fault ELSE UNCHANGED faults
    /\ UNCHANGED <<published, lapsed, cache, lock, app, pc, job, robbed, rewound>>
Publish ==
    /\ published < Len(Documents) /\ published' = published + 1
    /\ UNCHANGED <<lapsed, trust, app, pc, job, robbed, rewound, faults>>
Lapse ==
    /\ lapsed < published /\ lapsed < MaxLapsed /\ lapsed' = lapsed + 1
    /\ UNCHANGED <<published, trust, app, pc, job, robbed, rewound, faults>>

AppsNext ==
    \/ \E s \in Sessions :
          \/ BeginInstall(s) \/ BeginLoad(s) \/ Served(s) \/ NotModified(s) \/ NoList(s)
          \/ TakeLock(s) \/ JudgeLock(s) \/ BreakLock(s) \/ Compare(s) \/ Replace(s) \/ Unlock(s) \/ GiveUp(s)
          \/ AlreadyThere(s) \/ FetchRelease(s) \/ NoReleaseServed(s)
          \/ WriteManifest(s) \/ WriteSignature(s) \/ WriteEntry(s) \/ WriteCurrent(s) \/ SetMark(s) \/ RemovePlugin(s)
          \/ Probe(s) \/ Probed(s) \/ Check(s) \/ Read(s) \/ Import(s) \/ Ran(s) \/ Die(s)
    \/ LockAges \/ Publish \/ Lapse

AppsSpec == AppsInit /\ [][AppsNext]_appsVars

----------------------------------------------------------------------------
(* Properties                                                              *)

\* A revocation this machine has seen stays seen: no command goes by a list
\* older than the one cached when it began, and the cache itself goes back only
\* after a lock was broken under a session that was still at work.
RevocationsStay ==
    [][/\ \A s \in Sessions : pc'[s] \in {"ask", "check"} => job'[s].judged >= job'[s].seen
       /\ robbed' \/ cache' >= cache]_appsVars

\* What runs is one release, whole: the manifest known, the signature and the
\* bytes are of it, its key stood and its version was allowed by the list the
\* load went by, whatever an install wrote over it meanwhile.
RunsWhatItVerified ==
    \A s \in Sessions : At(s, "running") =>
       job[s].entry = job[s].release /\ Trusted(job[s].release, job[s].judged)

\* The mark guards against going back without ever locking the app out: it is
\* lowered by nobody but an install told to, and wherever one dies what it left
\* selected is not below it.  Only a load that writes back an entry it read
\* before an install may break this.
MarkKeepsItsWord ==
    [][rewound' \/ (/\ mark' < mark => \E s \in Installers : job[s].downgrade /\ At(s, "mark")
                    /\ current' # 0 => current' >= mark')]_appsVars
=============================================================================
