# superself, in TLA+

superself (`self`) is a local-first record keeper for people and agents that
work on code: commands append events to a JSONL log per project, and everything
a person reads is a fold of that log. A store is shared through git, or through
a workspace server; beside the log a machine keeps files of its own:
credentials, installed mini-apps, the stored bytes of artifacts, a ledger of
checkouts, verdicts on commits, a ledger of sessions.

This directory models the parts where the order of steps, the merge of two
logs, or a death between two writes decides whether a record survives and reads
as it was meant. TLC checks each model on small instances, and TLAPS proves the
safety properties of all of them but the plan for every value of the constants.
Paths below are under `src/apps/`.

## 1. Inventory

| Component | State it keeps | Operations | What is hard about it | What makes it correct | Here |
|---|---|---|---|---|---|
| Sync lock (`cli/src/synclock.ts`) | `sync.lock`: an inode, a nonce, a stamp | acquire, judge, steal, renew, release | processes race, die, sleep through a clock jump | one sync at a time; a stale lock is nobody's at work; the dead keep nobody out | `SyncLock` |
| Rewrites beside appenders (`synclock.ts`, `pending.ts`) | `pending.jsonl`, `registry.jsonl`, a temp file, descriptors | two reads, temp, rename, late tail | appenders take no lock; a large write shows in two pieces; deaths | no append lost, doubled, cut or unsettled | `PublishRewrite` |
| Queue and transport (`pending.ts`, `pusher.ts`, `puller.ts`, `logfile.ts`, `transport.ts`) | queue rows and marks, `log.jsonl`, cursor | append, push, split, block, pull, settle, compact, surface | lost answers, late transactions, cut deltas, refusals, deaths | no record lost; marks follow the copy; all is settled or blocked and told | `SyncTransport`, `RecordStore` |
| Registry cache (`registrycache.ts`, `puller.ts`, `pusher.ts`) | a slug's row, its cached id | reconcile, cache an id, create on a 404, init | three files and a server read one after the other | a slug with records queued stays; all behind a row settles | `RegistryCache` |
| Entity fold, verbs, undo (`fold/src/entities.ts`, `cli/src/state.ts`, `undo.ts`) | a record's status, links, working state, claim | passes over the log; add, propose, confirm, retract, start, block, done, undo | union merges put lines in any order; undos of what others were built on | the fold is what the events mean; nothing revives; an undo restores | `EntityFold` |
| Tiers (`cli/src/state.ts`, `fold/src/entities.ts`) | where each record renders, caps in tokens | add, place, demote, propose, confirm a pair, retract | what a tier has room for is judged on a fold others write past; a unit moves several records | a command fits the room it read and moves what it names | `Tiers` |
| Older lines (`fold/src/model.ts`, `objectives.ts`) | a statement record and an entity for each line of an older CLI | fold the older lines, settle entity lines over both, project back | either generation's line may stand above the record it names | both readings agree; what is withdrawn is out | `Cutover` |
| Plan (`cli/src/goals.ts`, `main.ts`, `fold/src/objectives.ts`, `model.ts`) | objectives, milestones, proposals, contributions | 21 verbs | a revision carries what hung under it; clones close and build at once | nothing left behind; what is over stays over | `PlanTree` |
| Work units (`main.ts`, `design.ts`, `ledger.ts`, `fold/src/completion.ts`) | criteria, coverage, reports, designs, approvals, process, session ledger | dispatch, report, judge, cover, block, done, undo | gates judged on one clone's fold, undone on another's | a done unit is accounted for; a dispatch stood on an approval | `WorkUnits` |
| Git-backed store, write pipeline (`pipeline.ts`, `gitutil.ts`, `sync.ts`, `fold.ts`) | working tree, index, HEAD, remote, pages | append, fold, stage, commit, pull with rebase, push | two sessions share one index; a rebase stops; a death in between | a recorded line stays; a sync says what it pushed | `GitStore` |
| Credentials (`credentials.ts`, `rail.ts`, `login.ts`) | profile, marker, lock; the server's grants | refresh, login, logout | a rotated token may be shown once; answers get lost | no false theft alarm; never backwards; every command ends | `Credentials` |
| Artifacts (`artifact.ts`, `registry.ts`) | records, bytes under paths | attach, share, roll back, prune | bytes shared by records while a person decides | a live record has its bytes | `Artifacts` |
| Mini-apps (`trust.ts`, `plugins.ts`, `app.ts`) | key list, versions on disk, selection, mark | refresh, install, update, remove, load | files written in place while read; an old list served | a revocation stays; what runs was verified; the mark keeps its word | `MiniApps` |
| Checkouts (`paths.ts`, `main.ts`, `gitutil.ts`) | link ledger, markers, registry | init, link, unlink, sweep; resolve | the tree changes under the ledger; deaths between three writes | a directory answers for what was registered | `Checkouts` |
| Evidence (`reachability.ts`, `fold/src/overlay.ts`) | verdicts, heads | fold: list, probe, walk, write | refs move and folds overlap between any two reads | in effect only when landed; a skipped walk changes nothing | `Evidence` |
| Retirement, archive, sweep; views, output, redaction, parsing, setup, dsh plugin | none of their own beyond events | one event on a confirmed choice; text | formatting | tests say | not modelled |

How they meet: a command of a server-backed store catches up (under the sync
lock: list, reconcile the registry, pull each project, settle, fold, compact),
runs, appends to the queue outside the lock, folds, and starts a pusher that
takes the same lock. In a git-backed store it appends to the log in the
checkout, folds, commits, and `self sync` rebases and pushes. Either way the
record model is a fold of the merged log, and verbs judge by one clone's fold
while every clone folds their line.

## 2. The modules

| Module | Models | Checked by |
|---|---|---|
| `SyncLock`, `PublishRewrite` | `synclock.ts`: one step per system call | `one_sync` |
| `RecordStore` | abstract: what a person is promised of a project's records | refined by `SyncTransport` |
| `SyncTransport` | queue, push, pull, readers and tellers of one project | `transport_overlap`, `transport_live` |
| `RegistryCache` | one slug's row, from `project init` to a push answered 404 | `registry_reused` |
| `LogFold` | folding a log in turn; the base of the fold modules | |
| `EntityFold` | two clones, the verbs of `state`, the passes of the fold, undo | `fold_merge` |
| `Tiers` | `state add`, `place`, `confirm` and the caps they keep, in the logs of two projects | `tiers_room` |
| `Cutover` | one log of lines of two generations, folded once | `work_and_cutover` |
| `GitStore` | checkouts, sessions, commits and syncs | `fold_merge`, `git_beside` |
| `PlanTree` | the plan's verbs on two clones | `plan_and_apps` |
| `WorkUnits` | one unit from dispatch to done | `work_and_cutover` |
| `Credentials` | one profile, its lock and marker, and the server | `credentials_calls` |
| `Artifacts` | records and bytes of one project | `machine_files` |
| `MiniApps` | one app: list, install, load | `plan_and_apps` |
| `Checkouts` | link ledger and markers against a changing tree | `machine_files` |
| `Evidence` | verdicts on commits and proposals in effect | `transport_overlap` |
| `SyncLock_proofs` | theorems about `SyncLock` and `PublishRewrite` | `tlapm` |
| `SyncTransport_proofs`, `Artifacts_proofs` | theorems about the module named | `tlapm` |
| `Commands_proofs` | theorems about `Credentials` and `Tiers` | `tlapm` |
| `Caches_proofs` | theorems about `RegistryCache` and `Evidence` | `tlapm` |
| `SharedLog_proofs` | theorems about `EntityFold` and `GitStore` | `tlapm` |
| `Machine_proofs` | theorems about `MiniApps` and `Checkouts` | `tlapm` |
| `Readings_proofs` | theorems about `WorkUnits` and `Cutover` | `tlapm` |

Models are stacked rather than multiplied. `SyncLock` shows when a second sync
can run; `PublishRewrite` takes that as its own lock (`Takeovers`) and shows
what a rewrite does to the file; `SyncTransport` makes the rewrite one step and
takes both results as `Overlap` and the death of a sync; `RegistryCache` models
the one answer of the push table (a 404) that `SyncTransport` leaves to "left
queued" or "blocked". `GitStore` says which lines a clone's log gets, in which
order; `EntityFold`, `PlanTree` and `WorkUnits` take any order of merge and say
what the fold makes of it. Where two modules share an MC module, a variable
`half` chooses one of them for a behaviour: two state spaces side by side, not
their product.

**SyncLock.** `pc[p]` is where attempt `p` stands; `lock` is the file under the
name, its inode the pair of an attempt and which of its creates made it, so a
write through an old descriptor never reaches a newer file (`WriteThrough`).
`CreateOpen` (`wx`), `CreateWrite`, `CreateCheck`, `JudgeRead`, `JudgeStat`,
`Steal` (a rename of the name, whichever inode is on it), `Turn`, `Restamp*`,
`PublishCheck` then `PublishRename`, `ReleaseCheck` then `ReleaseUnlink`,
`Crash`, `Tick`, `Jump`. `Slack` is the longest phase of a live process, and
`Bound + 2 * Slack <= Lease` the relation between the lease constants that
`synclock.ts:64-74` argues from.

**PublishRewrite.** A name is bound to an inode, an inode holds pieces of lines.
An appender opens by name and writes through its descriptor; a row of `Large`
shows in two pieces. A publisher settles, opens, reads twice, writes its temp,
checks its nonce, renames, and carries the late tail.

**SyncTransport, RecordStore.** `queue` holds the appends with the marks against
them, `logged` the `server_seq`s of `log.jsonl`, `slog` the server's log,
`flight` what is left of requests whose client is gone. A push is a batch,
answered by a row of the push table; a pull is a delta that may be cut anywhere,
appended, settled, folded, compacted, each a step. `RecordStore` has no queue
and no marks: a record is made, agreed on, or refused. `ImplementsRecordStore`
maps `local` to the unsent appends the copy does not hold, `agreed` to the copy,
`refused` to the blocked ones it does not.

**RegistryCache.** One slug, whose projects are numbered as they are made. A
catch-up is `ListProjects`, `StillQueued`, `ReadRegistry`, `ReconcileRegistry`,
`PullProject`; a push reads the row once and is answered `Accepted`,
`LeftQueued` or 404.

**EntityFold.** Each clone holds the shared log as far as pulled and its own
tail; `view[c]` is what it folded last. `DeriveEntities` runs the passes in the
code's order, each in `(ts, id)` order: a pass over a set of events is a fold by
the rank of each in that order, not by its place in the log. `Meaning` says what
a record's status should be from the events alone, without passes.

**Tiers.** The lines of all projects' logs are one set, each line with the log it
is in and the number of the write that made it, which is the order a placement is
read in. A session looks (`Look` keeps the records it folded in `read`), and its
command judges by that: `RequireRoom` is `requireTokenRoom` with the demotion a
full tier demands, `RequireDemotionRoom` the index seat a demoted record needs,
`RequireUnitRoom` the net movement of a pair answered at once. `Tokens` rounds up
as `tokensOf` does.

**Cutover.** A behaviour writes a log line by line, each line anywhere a merge
may put it. `Statements` folds the older lines (`Applied`) and then their links
once more (`Relinked`), as `reconcileLifecycle` does; `MadeOf` makes an entity
of each record and each native line, three passes by the clock settle the entity
lines over all of them (`DeriveEntities`), and `BroughtBack` carries the result
to the records of the kind. `Readings(history)` is what any clone reads.

**PlanTree, WorkUnits.** The same clones and merges over richer events. A verb
is an operator that gives the events its handler appends where its refusals do
not apply (`goals.ts`, `main.ts`); the fold is the one both clones run.
`WorkUnits` keeps, in each event, what its writer had read: the properties use
it to say who could have known what, and no code reads it. `ledger` is one
machine's `sessions.jsonl`: only there is a session's end known.

**GitStore.** A tree is the set of lines of the log and whether the unit's page
is there. One step per git command, between taking and releasing
`index.lock`; `orig` and `base` are a rebase in progress. The log merges by
union, the page by the driver that keeps ours (`merge=derived`).

**Credentials.** A pair is `<<grant, rotation>>`. Refresh is marker check, lock,
read again, marker written, request, answer or none, profile written, marker
removed; the server rotates, alarms on a token it has rotated, revokes.

**Artifacts, MiniApps, Checkouts, Evidence.** One step per write of a file that
others read in between; commands of `Checkouts` are whole, but a registration
may be cut between its writes. Ghost variables (`crossed`, `robbed`, `rewound`,
`slipped`) record that a named flaw of the code has been met; each is listed in
section 5 with the line. The ghosts `claims` (what a person said of a directory)
and `by` (which fold's reading of a repository a head was written from) are what
the properties compare the code's answers with.

## 3. What the runs check

| Run | Instance | States, about | Properties |
|---|---|---|---|
| `one_sync` | 2 attempts, one renewing and mortal; Lease 4, Bound 2, Slack 1, 4 projects, 5 ticks, one jump; 2 publishers, 1 takeover, 3 rows (1 settled, 1 large) | 400 k | `MutualExclusion`, `OnlyTheHolderActs` until something dies or jumps, `StaleMeansStopped` until the clock jumps, `DeadHolderIsReplaced`; `EveryAppendOnce`, `NoFusedLine`, `SettledStaysSettled` while the lock is kept |
| `transport_overlap` | 2 syncs at once and a reader over 2 appends of 2 events, one foreign, any refusal, 1 remote event; 2 repositories (one with no default branch), 2 commits, 1 unit, 1 proposal, 2 folds at once, 2 moves, 2 records | 1.1 M | `SentMeansStored`, `ReadsNeverShrink`, `ImplementsRecordStore`; `InEffectHasLanded`, `SkippedIsRight` |
| `transport_live` | 1 sync, 1 teller, 2 appends (one in conflict, both too large for one request), 1 remote event, a death, any refusal, under fairness | | `Delivered`, `EveryBlockIsTold` |
| `registry_reused` | 1 sync, 2 projects in turn, 2 records here, 1 elsewhere, lost answers, a death, under fairness | | `KeptWhileQueued`, `Settled` |
| `fold_merge` | 2 clones, 1 clock, 4 events of every verb; 3 sessions in 2 checkouts, 2 lines of report or done, deaths | 784 k | `FoldsToItsMeaning`, `NothingRevives`, `UndoRestores`; `RecordedIsKept`, `SyncedMeansShared` |
| `plan_and_apps` | 2 clones over a plan of 7 lines; any two verbs, then an accept; 1 installer, 1 loader, 2 lists (the second revokes a key), 3 releases, 1 lapse, 1 fault | 2.1 M | `RevisionCarries`, `OutcomesStayClosed`; `RevocationsStay`, `RunsWhatItVerified`, `MarkKeepsItsWord` |
| `tiers_room` | 2 sessions, 2 projects, records of 1 or 2 characters, caps of 2 tokens, 1 character to a token, 3 starting logs (a promotion that waits; a pair whose seat was taken; a record shown from another project, beside an instruction), one more write by each verb after each session has read | 512 k | `KeepsToItsRoom`, `OnlyTheNamedMove` |
| `work_and_cutover` | 3 sessions on 2 machines, 3 starting logs, 2 criteria; any two verbs, then a done, start or undo; a log of 4 lines of decisions, conventions or objectives | 1.4 M | `DoneIsAccounted`, `DispatchStandsOnApproval`, `ReadsAsItsMeaning`; `ReadingsAgree`, `WithdrawnIsOut` |
| `credentials_calls` | 2 processes, 2 grants, 2 rotations, 4 commands, 1 fault, under fairness | 230 k | `NoFalseAlarm`, `NeverGoesBack`, `EveryCommandEnds` |
| `machine_files` | 3 commands, 2 slugs, 3 repositories (one a clone), 5 paths, 3 of them tops, 2 starting trees, 2 moves, 1 death; 2 sessions, 2 contents, 3 stored paths, 2 records, 1 fault | 683 k | `AnswersForItsOwn`, `JudgedTheSameFromAnywhere`, `LinksLeaveByName`; `LiveHasItsBytes` |
| `tiers_refilled` | 1 session, 1 confirm, on a log where the seat of a record that is done was taken | | violated: `CapsHold` |
| `git_beside` | as the git half of `fold_merge`, with a session at work beside a sync of its checkout | | violated: `RecordedIsKept` |

Each property of a passing run has a mutant of the code's definition that
breaks it.

**Bounds.** Two actors suffice for the races here because each is between one
that checked and one that acts. A lock run's clock reaches one past the lease,
the first moment a lock can be judged stale, and four projects are the fewest
with which a holder whose restamp did nothing is at work past the lease. Three
pieces of a file give every position of a row against the two reads. Appends of
two events are the smallest a delta can cut; two appends with a limit of one
give a batch that is split, of which one part conflicts and the other goes. Two
projects in a slug's life are a removal and a remaking. Four events are a
record, its replacement, and two acts on them from two clones; in `plan_and_apps`
and `work_and_cutover` the starting logs hold what longer runs would first have to
make, and three verbs are two that meet unseen and one that builds on their
merge. A pair that is rotated twice tells the present token, the one before and
an older one apart. Two records over three paths give sharing, a collision and a
free name. Behaviours beyond the bounds were sampled by simulation, with no
violation: seven events in the folds, seven lines in `Cutover`, five verbs over
the plan and over a work unit, six commands over checkouts that move six times.
Deadlock is not checked: every system here may really stop, when its commands
have ended.

**Fairness.** `SyncLock!FairSpec`: a process the kernel has not killed goes on;
nobody has to start, die, or jump. `SyncTransport!FairSpec`: the steps of a
process are weakly fair, and so is some answer to each request. Strong fairness
stands for a person who goes on running commands: each catches up and pushes
when the lock is free (`StartPush`, `StartPull`), some pull is answered
(`Pulled`), and a request sent again and again, alone or in a batch, is sent in
time and answered with what it deserves some time (`Post`, `Take`, `Split`,
`Refused` of a foreign append): a server that is down for ever delivers nothing,
and the code promises no more. `RegistryCache!FairSpec` is the same: weak for a
started process, strong for starts, the list, the pull and the answers.
`Credentials!FairSpec`: a command begun goes on; one that polls a lock others
take and release in turn finds it free at some poll (strong fairness of the
login's take), as polling in milliseconds against holds of a file write does.

## 4. What is proved

For every set of processes and every value of the constants. Besides what a
theorem's own `ASSUME` says, the proofs rest on the named assumptions of the
modules alone (`LockAssumption`, `PublishAssumption`, `TransportAssumption`, and
so on), which say what kind of value each constant has and, for the lock, how
its bounds relate; TLC evaluates them in the runs. Each inductive invariant was
checked by TLC, as an invariant of its module's instance, before it was proved.

| Module | Property of a run | Theorem | Supposing |
|---|---|---|---|
| `SyncLock_proofs` | `StaleMeansStopped`, `MutualExclusion`, `OnlyTheHolderActs` | `StaleIsStopped`, `OneAtATime`, `ActsUnderItsOwnLock` | |
| | `NoFusedLine` | `NoLineIsFused` | |
| | `EveryAppendOnce`, `SettledStaysSettled` | `NoRowIsLost`, `SettledRowsStay` | `~Missing`, `~DiesLate` |
| `SyncTransport_proofs` | `SentMeansStored`, `ReadsNeverShrink`, `ImplementsRecordStore` | `MarkedIsStored`, `ReadsStay`, `PromiseIsKept` | |
| | | `AppendsAreKept`: no append is lost | |
| `Caches_proofs` | `KeptWhileQueued` | `QueuedStaysRegistered` | `Alone` |
| | `InEffectHasLanded` | `InEffectIsLanded` | |
| | `SkippedIsRight` | `PassedOverIsRight` | `OneEach` |
| `SharedLog_proofs` | `FoldsToItsMeaning`, `NothingRevives`, `UndoRestores` | `TheFoldIsItsMeaning`, `WhatIsGoneStaysGone`, `AnUndoTakesBackOneEvent` | |
| | `RecordedIsKept`, `SyncedMeansShared` | `RecordedStays`, `SyncedIsShared` | `~Beside` |
| `Readings_proofs` | `ReadsAsItsMeaning`, `DoneIsAccounted`, `DispatchStandsOnApproval` | `UnitsReadTheirMeaning`, `DoneIsComplete`, `DispatchIsApproved` | |
| | `ReadingsAgree`, `WithdrawnIsOut` | `BothReadingsAgree`, `WithdrawnStaysOut` | |
| `Commands_proofs` | `NoFalseAlarm`, `NeverGoesBack` | `NoFalseAlarms`, `StoredGoesForward` | |
| | `OnlyTheNamedMove` | `ACommandMovesOnlyWhatItNames` | |
| `Artifacts_proofs` | `LiveHasItsBytes` | `LiveKeepsItsBytes` | |
| | | `RemovalIsOnTheLog`: what is missing was pruned by a line | |
| `Machine_proofs` | `RunsWhatItVerified`, `RevocationsStay` | `RunsVerified`, `RevocationsAreKept` | |
| | `MarkKeepsItsWord` | `MarkIsKept` | one installer |
| | `AnswersForItsOwn`, `JudgedTheSameFromAnywhere`, `LinksLeaveByName` | `DirectoriesAnswerForTheirOwn`, `EvidenceIsJudgedTheSame`, `ALinkLeavesByName` | |

What a theorem supposes is what the code needs, not what the prover does:
without any one of these hypotheses TLC finds the property violated within
seconds, and section 5 gives the line. `~Missing`: the file is there when a
rewrite begins. `~DiesLate`: no rewrite dies between its rename and the tail.
`Alone`: no record is queued between `stillQueued` and the rewrite of the rows.
`~Beside`: who syncs a checkout is alone in it, which `git_beside` denies.
`OneEach`: no two linked repositories share a root commit. One installer: two at
once can leave the mark of one over the selection of the other.

**The lock.** `MutualExclusion` is not inductive: nothing in it says why a lock
is not stale. The invariant `IInv` is about the attempt the file belongs to.
While it lives, its deadline is at most `Bound + 2 * Slack` past the stamp
(`AgeInv`, with what it still knows of its bound at each program counter), and
no live process is past its deadline (`LiveInv`); so the age of its lock stays
within `Lease` (`LiveOwnerIsYoung`). `IInv` is kept by every step but a jump
(`Inductive`), jumps are never undone (`NothingIsUndone`), hence
`SteadyClock => IInv` always. Until somebody dies, then, no lock is ever judged
stale, nobody reaches `steal`, and all who passed their create own the file
(`AloneInv`); the file has one owner.

**Rewrites.** `LineInv` is about the text of every inode a name or a descriptor
can reach: no piece follows the open half of another's line (`SoundInv`), and an
appender with half a line out is the only one who can end it (`HalfInv`). It
needs no lock, so `NoLineIsFused` holds of overlapping rewrites, deaths and
missing files too. `KeptInv` holds while the lock is kept: rows are written once
and settled after (`RowInv`), what a publisher has read is a prefix of the file
it replaces (`ReadInv`), and every finished append is under the name, in the new
text, or still to be carried (`TailInv`).

**Transport.** The server's log only grows; `log.jsonl` is `1..last` for a
`last` within it (`CopyIsPrefix`); a running pull's cursor is one the copy has
reached, so what it appends joins on; and the appends a pull is about to mark
are in the copy already, which never shrinks. A compaction drops only what is
marked sent. For `PromiseIsKept`, `RInv` adds that nothing in any hand was not
made here (`MadeInv`) and that what a command is telling is refused still or in
the copy (`TellerInv`); every step is then a step of `RecordStore` or none.

**Registry.** Who does anything holds the lock, and a sync about to write the
rows knows whether records are queued (`KeepInv`).

**Folds.** An induction over the lines of a log would need the library's
theorems that take an operator, which the provers cannot use. Every fold is
therefore a recursive function, of which two facts suffice. It has a run: the
sequence of its values exists (`RunExists`). And a set of steps at which a claim
fails has a least member, by the well-foundedness of `<` on the naturals
(`LeastExists`, `EveryTick`), so a claim true at the start and kept by each step
is true at the end. Each pass over a log is characterised once in that way, by
what the table says after it, and the passes are composed in the code's order.

**Entity fold.** `FoldInv` says that ids are distinct and times of their own
(`LogsOK`), that an event speaks of a record its writer had (`Sound(Written)`),
and that each view is the fold of its log (`Reflects`). `ConfirmsMean`,
`RetractionsMean`, `SupersessionsMean` and `ExecutionsMean` say of each pass what
it decides from the set of its events alone; `FoldMeans` composes them into
`Meaning`. For `NothingRevives`, a log only grows, and what was taken out in the
shorter log and stands in the longer was given back by an undo of what took it
(`GivenBack`). For `UndoRestores`, the fold of the log with the
annulled event and the undo runs in step with the fold of the log without either
(`Alike`).

**Work units.** `IInv` says that each clone's view is the fold of its log
(`Folded`), that who has an event has all its writer had read and the whole of
its append (`Whole`), and that every event was sound when it was written: the
report a done rests on, the coverage it counted and the approval a dispatch
stood on were in the log its writer had read (`Records(Written)`). Later lines
only add to what was read, so what a log says of a done or a start is the
refusals of its verb, read again on that part of it.

**Older lines.** `SoundLog` says that each line of a log has an id of its own and
names a record that some line of the log made, above it or below. `Onward` orders the states a record can go through; each pass moves a
record forward and says what moved it (`AppliedIs`, `RelinkedIs`,
`DisplacedMeans`, `PassMeans`). The first pass over the older lines may meet a
line above the record it names; the second may not, and closes what such lines
withdrew (`ClosedStays`). `ReadingMeans` then compares the two readings record
by record.

**Git.** Outside a rebase what is committed is staged, what is staged is in the
checkout, and so is every recorded line; within one, the branch it began from has
them all (`TreeOK`). The lines a sync set out to share go from the checkout to
the branch to the remote (`SessionOK`).

**Credentials.** `MarkerInv`: until a refresh slips under a marker, a stored
pair the server has rotated is under its marker, and who asks holds a pair never
rotated. It needs that the lock has one holder (`LockInv`), that a login's grant
is its own until stored (`LoginInv`), and that who refreshes works on the stored
pair (`WorkInv`).

**Tiers.** `TiersInv`: every line's number is one of a write that was, a line that
creates a record has the record's number, and `view` is the fold of `log`. A
record's entry depends on the lines that name it and on the records that would
replace it (`FoldIsLocal`); a write adds none of the first for a record it does
not name, and of the second only proposals that displace nothing until their
confirm, which then names them.

**Artifacts.** A record's bytes are there or a prune line says they were removed
(`Held`); and they stay while it stands (`Spared`), but at a path where an
adopter that had not recorded yet met a prune that counted no sharer (`crossed`).
What a session made and has not recorded is nobody else's (`Apart`, `LeftAlone`).

**Mini-apps.** `Fits` says of each program point what a session there holds: a
list no older than the one it began with, and from the check on an entry which
that list allows. Until a lock is unlinked under a session, who is inside holds
it, so what it stores is no older than what is stored.

**Checkouts.** `LinksInv` ties what is stored to what a person has said. A
checkout stands only where the one around it does (`Rooted`), and two lines of
the ledger that claim a repository for one path claim the same one
(`LinesAgree`). A link is replayed from a line (`LinksAreLines`) and a command
asked for it (`LinksAsked`); what a command asked, and what a directory is marked
with, rests on a claim a person made of that repository (`ClaimsFounded`,
`MarkersFounded`). A registration cut between its writes leaves each part true.

**Evidence.** Refs only add to what a default branch has reached, so a settled
verdict stays true (`LandedInv`). `WordInv` gives each verdict an author, the
repository and the report it was judged from: while that repository's listing is
the one in the head's key, a fold that judged again would say the same. A listing
never recurs in the model, so a key equal to the listing means that nothing moved.

**Model-checked only.** Liveness (`DeadHolderIsReplaced`, `Delivered`,
`EveryBlockIsTold`, `Settled`, `EveryCommandEnds`): fairness and `ENABLED` are
out of the prover's reach. `RevisionCarries` and `OutcomesStayClosed` of
`PlanTree`: what its verbs append is a set put in some order (`SetToSeq`) and
its passes sort what they filter (`SortSeq`, `SelectSeq`), of which the library
states no facts. `KeepsToItsRoom`: what a tier holds is a sum over a set
(`MapThenSumSet`), which is a recursion; and it holds where
a token is one character alone (section 5).

## 5. What the checks found

Two runs expect a violation; `PROJECT.json` quotes the line each contradicts.
`git_beside`: a rebase in progress that stops is aborted, and the abort resets the working
tree: a line another session of the checkout appended meanwhile and has not
committed is gone from `log.jsonl` (`sync.ts:84`).

`tiers_refilled`: `unitMoves` credits a waiting demotion with the seat of its
record though the record is done and another sits there (`state.ts:977`), so a
confirm leaves the tier over its cap.

The rest was met while modelling. Each is reachable in a model and either kept
out by a constant or a guard of the property, which names it, or plainly
allowed; none is a claim about how often it happens.

*Lock and rewrites.* `steal()` renames the name, whichever inode is on it: of
two that judge one dead lock stale, the slower moves away the lock the faster
has just made, and both go on (`synclock.ts:284`). A clock that jumps between
the nonce check and the act lets a holder that was stolen from publish (`:623`)
or unlink its successor's lock (`:305`). A sync that dies between its rename and
the append of the tail takes the appends of the second window with it (`:496`;
constant `DiesLate`). Rewrites that overlap after a takeover can lose an append,
put one twice or unsettle one (`:624`); a file made between `existsSync` and the
rename is replaced (`:519`; constant `Missing`).

*Transport.* A reader reads `log.jsonl`, a sync moves a record out of the queue
into it and compacts, and the reader finds it in neither (`logfile.ts:20`). An
append the server took can be refused when it is sent again, be marked blocked,
and come back with the next pull (`pusher.ts:234`). Order is not kept across a
split batch (`pusher.ts:268`). Two commands can both tell one refusal
(`puller.ts:523`); a pull that dies before its fold leaves rows unfolded until
something new arrives (`puller.ts:413`).

*Registry.* A record queued between `stillQueued` and the rewrite can have its
row dropped (`puller.ts:486`; constant `Beside`); a death before an id is cached
lets a removed project be raised (`pusher.ts:300`); a queue joins the project
made again under its slug (`registrycache.ts:99`) and the cursor skips that
project's first rows (`logfile.ts:228`); `project init` beside a reconciliation
can leave two rows (`main.ts:2209`).

*Entity fold.* Of two successors the order of the lines picks the one a record
names (`entities.ts:2034`); a narrow undo merged with a plain one lets the
record stand again (`:776`); a clock that runs ahead makes the fold drop what a
verb accepted (`:1571`) and hides from an undo what was built on its target
(`undo.ts:259`). The run has one clock (`Skew`).

*Tiers.* A record named by both `--supersedes` and `--demote` frees its seat
twice, once in `vacatedTokens` (`state.ts:463`) and once in
`requireDemotionsEnough` (`:904`). An answer that a later placement overrides is
credited with the seat it would have left. What is held, what leaves and what
comes are rounded to tokens apart (`:874`), so an exact swap can end a token
over; the run has one character to a token. `pairedUnit` goes one step from the
half it is given (`:1240`): a record admitted by one pair and demoted for another
is demoted when the first is confirmed, though the second still waits (against
`:1229-1234`, "no ordering exists to get wrong"). An instruction's move to another scope is judged by no cap, and two
sessions that read the same room both enter it; `KeepsToItsRoom` excepts these
and the four above by name (`Miscounted`). A placement and the demotion it names
are lines of two projects' logs where the records are, and a death between the
two appends leaves one (`state.ts:561`).

*Older lines.* An objective proposed in one generation's words and superseded
before anyone confirmed it still displaces its predecessor (`entities.ts:1862`
counts it as once confirmed). An older proposal confirmed by an entity line and
then retracted reads "declined" where a native one reads retracted. An
objective's older confirm merged above its decline revives it. The second pass
of `applySupersededObjectives` reads a dropped objective as superseded
(`objectives.ts:322`). `ReadingsAgree` excepts objectives that an unheld
proposal displaced (`DisplacedUnheld`).

*Plan.* An objective proposed with `--supersedes` and declined displaces the
active one (`objectives.ts:328` against `entities.ts:1998`). A plan restated
after its target ended cannot be accepted (`goals.ts:2121`, `:2160`). A milestone
added on another clone beside a revision stays under the record revised. `work
unlink` from a successor revives the membership in its predecessor. Closing an
objective that was superseded or only proposed is not refused, nor reaching a
milestone of a closed one. A plan may contribute to more than its gap
(`goals.ts:2319`), and an open milestone stand under a closed objective
(`goals.ts:1598`).

*Git.* Pages: modify against delete conflicts (`sync.ts:12`), and the pages of
objectives and runbooks have no `merge=derived`. With nothing staged a commit
exits 1 and the command says so though its line is committed
(`gitutil.ts:294`). Readers during a rebase see the log without the checkout's
own unpushed lines. A pull killed at its deadline leaves its rebase in progress.
A stale `index.lock` makes every command say "committed with the next write" for
ever. A fold that began earlier and ends later overwrites newer pages.

*Credentials.* `refreshUnderLock` does not look at the marker again: a command
that passed the check before another's refresh lost its answer presents the
rotated token a second time, and the server revokes the grant and warns of a
theft (against `credentials.ts:44-48`; `slipped` in `NoFalseAlarm`). Such a
refresh whose own request never leaves removes the marker that covered the lost
rotation. A late 401 removes by name the profile a newer login stored
(`rail.ts:1210`); a logout takes no lock, so a rotation written right after it
brings the profile back.

*Artifacts.* A prune counts who shares the bytes before the person answers and
not again, so a record that adopted them meanwhile loses them
(`artifact.ts:1739`, `:1772`; `crossed`). Across clones a prune and an adoption
merge cleanly and do the same. Two prunes of two sharers at once keep the bytes.
`requireOwnArtifact` (`:1258`) accepts a pruned artifact.

*Mini-apps.* `resolveRailMajor` reads the app's entry, awaits a probe and writes
the entry back: it can lower the mark with no `--allow-downgrade`, or raise it
over a downgrade and lock the app out (`plugins.ts:979`, against `:906-911`;
`rewound`). Of two installers at once, one can set the mark over the version the
other selected. A stale `trust.lock` is judged and unlinked by name in two steps
(`robbed`). A version written in place and cut by a death is refused until
`--force`; `plugin-state.json` is one file for all apps.

*Work units.* A reported exit frees the unit for every session after it
(`ledger.ts:200`). A coverage claim, or the only evidence report, may be undone
after `done`. A criterion declared, covered, undeclared by an undo and declared
again is born covered. `work block` on a blocked unit, and `unblock` on one that
is not, record lines the fold drops; two sessions that start at once both
record, and the last line wins. `requireOpenWork` passes undone units
(`main.ts:3858`).

*Checkouts.* A fold in a worktree nested inside a linked checkout writes the
parent's managed block (`paths.ts:1289`). A link's identity says nothing of
where in the repository it stood, so a root checked out where a registered
subdirectory was answers for it (`Shifted`); a link made over a folder or an
empty repository answers for whatever is put at its path. A registration cut
between its writes, or a marker lost, lets `project init` register a directory a
second time (`main.ts:2076`). Unlinking a checkout inside a linked folder says
nothing though the directory still answers (`main.ts:2630`). A link that claimed
no repository, of another project at the same path, goes with the stale claim
beside it when a third project is linked there (`paths.ts:1026`, against
`:1067`, "linking it to a second project never took it from the first"): found
by TLC with a fourth move, which the run does not reach in its time, and
excepted in `LinksLeaveByName`.

*Evidence.* A commit that was not tracked, or was homed elsewhere, during a fold
that renewed its repository's key keeps its stale verdict when it returns, until
the next ref move (`reachability.ts:427`, against `:80-81`): `SkippedIsRight`
speaks of the commits the head was written for. Nothing more holds with three
folds at once. A report that adds a branch to a commit judged unknown does not
judge it again. Two linked clones of one repository share a key, so one's
unmoved listing vouches for the other's (`OneEach` in section 4).

## 6. Abstractions, and what is not modelled

* A message, a name, a payload is a number or a model value; lines are not
  strings; torn lines of `log.jsonl` are left out (the queue's are in
  `PublishRewrite`). The rewrite of the queue is one step in `SyncTransport`.
* A batch of several authors is refused whole, as 424-transport.md documents.
  `SUPERSELF_SYNC=inline` is not modelled. `RegistryCache` has one slug.
* `EntityFold` keeps of a record its status, replacement, working state and
  claim. Tags and search are left out everywhere.
* `Tiers`: a write is one step though its lines may be in two logs; an undo of a
  placement, priorities, reasons and links are left out, and a command demotes
  at most one record.
* `PlanTree`: one exit criterion per milestone; no caps, dates, assumptions,
  placements, foreign objectives or undo (which `EntityFold` and `WorkUnits`
  have). `WorkUnits`: one unit of the project itself and one decision; plan
  review, successors and scopes are `PlanTree`'s, an artifact's bytes
  `Artifacts`'; friction, notes and the runner's attempts are left out.
* `GitStore`: one project with one page; changes over two projects, archive
  checks, the first push, holds and stamps are left out.
* `Credentials`: one profile; a lock is taken, or broken after a death, in one
  step (the race is `SyncLock`'s); the marker's age, the stealing of a lock from
  a suspended holder, device polling and the journal are left out.
* `Artifacts`: links, bundle members, collisions of ids, health signals are left
  out. `MiniApps`: one app, one installer; dependencies, the dev path, reaping
  of loaded copies and torn single files are left out; what a compatibility
  check says is any answer.
* `Checkouts`: commands are whole; the repositories' histories do not change;
  read scopes and archives are left out. `Evidence`: a head and whether its ref
  exists are read in one step, one topic branch per repository, listings do not
  recur; unshipped branches, waiting lists and attention flags are left out.
* Rendering, parsing, redaction, help, first-run prompts, the managed block and
  the dsh plugin have no state whose order could go wrong.
