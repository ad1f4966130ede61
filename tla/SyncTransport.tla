--------------------------- MODULE SyncTransport ---------------------------
(***************************************************************************)
(* One project of a server-backed store on one machine: its queue          *)
(* pending.jsonl, its copy log.jsonl, the syncs that push the one and pull *)
(* the other (pusher.ts, puller.ts), the commands that read both           *)
(* (logfile.ts) and those that say what was refused, and the workspace     *)
(* server as far as the client depends on it (external).                   *)
(*                                                                         *)
(* Appends are numbered in the order they are made; each carries Size      *)
(* events, <<a, 1>> .. <<a, Size>>.  Events of other machines are <<0, n>>. *)
(* A file is the set of its rows where their order does not matter: marks  *)
(* and appends are found by their id, and a copy of a row changes nothing. *)
(* The rewrite of the queue is one step here, which PublishRewrite shows   *)
(* it to be up to the windows listed there; the lock admits one sync, or   *)
(* several (Overlap), as SyncLock shows it can after a race or a jump.     *)
(***************************************************************************)
EXTENDS Naturals, Sequences, FiniteSets

CONSTANTS
    N,           \* appends this machine makes
    Size,        \* events an append carries
    Remote,      \* events other machines make
    Sync,        \* processes that push or pull
    Reader,      \* commands that read
    Teller,      \* commands that say what was refused
    Foreign,     \* appends whose author is another account: 400
    Bad,         \* appends whose content the server disagrees with: 409
    MaxEvents,   \* events a request may carry: 413 above
    MayRefuse,   \* TRUE: any request may be answered by another 4xx
    Overlap,     \* TRUE: two syncs may run at once
    MaxCrashes   \* bound on deaths of a process

ASSUME TransportAssumption ==
    /\ N \in Nat /\ Size \in Nat \ {0} /\ Remote \in Nat
    /\ Foreign \subseteq 1..N /\ Bad \subseteq 1..N
    /\ MaxEvents \in Nat /\ MayRefuse \in BOOLEAN /\ Overlap \in BOOLEAN
    /\ MaxCrashes \in Nat

VARIABLES
    made,     \* appends made so far
    queue,    \* pending.jsonl: the rows of each shape
    logged,   \* log.jsonl: the server_seqs of its rows
    last,     \* the server_seq of its last row, 0 where it is empty
    folded,   \* the rows of log.jsonl the derived pages reflect
    slog,     \* the server's log
    flight,   \* what is left of requests nobody waits for any more
    holder,   \* who holds sync.lock
    run,      \* what each sync is doing
    reader,   \* what each reader is doing
    teller,   \* what each command that surfaces refusals is doing
    said,     \* how often each append's refusal was said, up to 2
    crashes   \* deaths so far

vars == <<made, queue, logged, last, folded, slog, flight, holder, run,
          reader, teller, said, crashes>>

Appends == 1..N
Event == (0..N) \X Nat
NoHolder == "nobody"

States == {"idle", "send", "posted", "block",
           "pulling", "append", "settle", "mark", "fold", "compact"}

\* batch: the appends of the request; rest: those of them the server has not
\* come to; todo: those a split has still to send; again: sendBatch's retried.
Run == [pc : States, batch : SUBSET Appends, rest : SUBSET Appends,
        todo : SUBSET Appends, again : BOOLEAN,
        after : Nat, upto : Nat, arrived : SUBSET Appends]

Idle == [pc |-> "idle", batch |-> {}, rest |-> {}, todo |-> {}, again |-> FALSE,
         after |-> 0, upto |-> 0, arrived |-> {}]

ReaderIdle == [pc |-> "idle", log |-> {}, since |-> {}]
TellerIdle == [pc |-> "idle", blocks |-> {}]

Init ==
    /\ made = 0
    /\ queue = [append |-> {}, sent |-> {}, blocked |-> {}, told |-> {}]
    /\ logged = {} /\ last = 0 /\ folded = {}
    /\ slog = <<>> /\ flight = {}
    /\ holder = NoHolder
    /\ run = [s \in Sync |-> Idle]
    /\ reader = [r \in Reader |-> ReaderIdle]
    /\ teller = [c \in Teller |-> TellerIdle]
    /\ said = [a \in Appends |-> 0]
    /\ crashes = 0

store   == <<made, queue, logged, last, folded>>
server  == <<slog, flight>>
readers == <<reader, teller, said>>

Earliest(S) == CHOOSE a \in S : \A b \in S : a <= b

-----------------------------------------------------------------------------
(* What is read of the files. *)

\* unsentAppends, pendingEvents: every append with neither mark against it.
Unsent == queue.append \ (queue.sent \cup queue.blocked)

HasIn(rows, a) == \A k \in 1..Size : \E i \in rows : slog[i] = <<a, k>>

\* Mutant: most of an append's events are enough.
ArrivedInPart(a) == \E i \in logged : slog[i][1] = a

\* Every event id of the append is in log.jsonl.
Arrived(a) == HasIn(logged, a)

\* readEvents: the stored copy and this machine's unsent tail.
Readable == {a \in Appends : Arrived(a) \/ a \in Unsent}

-----------------------------------------------------------------------------
(* The foreground: a command appends to the queue and folds what it holds. *)

AppendPending ==
    /\ made < N
    /\ made' = made + 1
    /\ queue' = [queue EXCEPT !.append = @ \cup {made + 1}]
    /\ folded' = logged
    /\ UNCHANGED <<logged, last, server, holder, run, readers, crashes>>

-----------------------------------------------------------------------------
(* The server (external): each append of a request is a transaction of its *)
(* own, deduplicated by event id; a request is refused as a whole, the     *)
(* size before the author before the content.                              *)

TooLarge(b) == Cardinality(b) * Size > MaxEvents
Mismatch(b) == ~TooLarge(b) /\ b \cap Foreign # {}
Conflict(b) == ~TooLarge(b) /\ ~Mismatch(b) /\ b \cap Bad # {}
Accepts(b)  == ~TooLarge(b) /\ ~Mismatch(b) /\ ~Conflict(b)

EventsOf(a) == [k \in 1..Size |-> <<a, k>>]

Held(a) == HasIn(DOMAIN slog, a)

TakenBy(a) == slog' = IF Held(a) THEN slog ELSE slog \o EventsOf(a)

\* What the server may still do for a request whose client is gone.
Orphaned(s) ==
    IF run[s].pc = "posted" /\ Accepts(run[s].batch) /\ run[s].rest # {}
    THEN {run[s].rest} ELSE {}

Take(s) ==
    /\ run[s].pc = "posted" /\ Accepts(run[s].batch) /\ run[s].rest # {}
    /\ TakenBy(Earliest(run[s].rest))
    /\ run' = [run EXCEPT ![s].rest = @ \ {Earliest(@)}]
    /\ UNCHANGED <<store, flight, holder, readers, crashes>>

TakeLate ==
    /\ \E r \in flight :
         /\ TakenBy(Earliest(r))
         /\ flight' = (flight \ {r}) \cup ({r \ {Earliest(r)}} \ {{}})
    /\ UNCHANGED <<store, holder, run, readers, crashes>>

FromRemote == {i \in DOMAIN slog : slog[i][1] = 0}

TakeRemote ==
    /\ Cardinality(FromRemote) < Remote
    /\ slog' = Append(slog, <<0, Cardinality(FromRemote) + 1>>)
    /\ UNCHANGED <<store, flight, holder, run, readers, crashes>>

-----------------------------------------------------------------------------
(* pusher.ts *)

Free == holder = NoHolder \/ Overlap

Released(s) == IF holder = s THEN NoHolder ELSE holder

Finish(s) ==
    /\ run' = [run EXCEPT ![s] = Idle]
    /\ holder' = Released(s)

\* The next append of a split batch, or the end of the run.
Continue(s) ==
    IF run[s].todo = {}
    THEN Finish(s)
    ELSE /\ run' = [run EXCEPT
                      ![s] = [Idle EXCEPT !.pc = "send", !.again = TRUE,
                                          !.batch = {Earliest(run[s].todo)},
                                          !.todo = run[s].todo \ {Earliest(run[s].todo)}]]
         /\ UNCHANGED holder

StartPush(s) ==
    /\ run[s].pc = "idle" /\ Free /\ Unsent # {}
    /\ holder' = s
    /\ run' = [run EXCEPT ![s].pc = "send", ![s].batch = Unsent]
    /\ UNCHANGED <<store, server, readers, crashes>>

Post(s) ==
    /\ run[s].pc = "send"
    /\ run' = [run EXCEPT ![s].pc = "posted", ![s].rest = run[s].batch]
    /\ UNCHANGED <<store, server, holder, readers, crashes>>

\* The run's own bound has passed: every batch that is left is left queued.
OutOfTime(s) ==
    /\ run[s].pc = "send"
    /\ Finish(s)
    /\ UNCHANGED <<store, server, readers, crashes>>

\* P1: nothing changes here.
Accepted(s) ==
    /\ run[s].pc = "posted" /\ Accepts(run[s].batch) /\ run[s].rest = {}
    /\ Continue(s)
    /\ UNCHANGED <<store, server, readers, crashes>>

\* P2, P3, P6, P8: every append of the request is blocked.
Refused(s) ==
    /\ run[s].pc = "posted" /\ run[s].rest = run[s].batch
    /\ Mismatch(run[s].batch) \/ MayRefuse
    /\ run' = [run EXCEPT ![s].pc = "block"]
    /\ UNCHANGED <<store, server, holder, readers, crashes>>

\* P4, P5: re-sent one append at a time; a single one is blocked.
Split(s) ==
    /\ run[s].pc = "posted"
    /\ TooLarge(run[s].batch) \/ Conflict(run[s].batch)
    /\ run' = IF Cardinality(run[s].batch) = 1
              THEN [run EXCEPT ![s].pc = "block"]
              ELSE [run EXCEPT
                      ![s] = [Idle EXCEPT !.pc = "send", !.again = TRUE,
                                          !.batch = {Earliest(run[s].batch)},
                                          !.todo = run[s].batch \ {Earliest(run[s].batch)}]]
    /\ UNCHANGED <<store, server, holder, readers, crashes>>

\* P9: waited out once.
WaitAndRetry(s) ==
    /\ run[s].pc = "posted" /\ run[s].rest = run[s].batch
    /\ ~run[s].again
    /\ run' = [run EXCEPT ![s].pc = "send", ![s].rest = {}, ![s].again = TRUE]
    /\ UNCHANGED <<store, server, holder, readers, crashes>>

\* P7, P10: left queued.  Where no answer came, the server may have taken
\* some of the request and may yet take the rest.
LeftQueued(s) ==
    /\ run[s].pc = "posted"
    /\ flight' = flight \cup Orphaned(s)
    /\ Continue(s)
    /\ UNCHANGED <<store, slog, readers, crashes>>

\* blockAll: a row for each append of the request.
Block(s) ==
    /\ run[s].pc = "block"
    /\ LET a == Earliest(run[s].batch) IN
         /\ queue' = [queue EXCEPT !.blocked = @ \cup {a}]
         /\ IF run[s].batch = {a}
            THEN Continue(s)
            ELSE run' = [run EXCEPT ![s].batch = @ \ {a}] /\ UNCHANGED holder
    /\ UNCHANGED <<made, logged, last, folded, server, readers, crashes>>

Push(s) ==
    \/ StartPush(s) \/ Post(s) \/ OutOfTime(s) \/ Accepted(s) \/ Refused(s)
    \/ Split(s) \/ WaitAndRetry(s) \/ LeftQueued(s) \/ Block(s)

-----------------------------------------------------------------------------
(* puller.ts *)

\* Mutant: the cursor names the first row that is missing.
NextServerSeq == last + 1

\* lastServerSeq: read off the file's own last row.
LastServerSeq == last

StartPull(s) ==
    /\ run[s].pc = "idle" /\ Free
    /\ holder' = s
    /\ run' = [run EXCEPT ![s].pc = "pulling", ![s].after = LastServerSeq]
    /\ UNCHANGED <<store, server, readers, crashes>>

\* L1: a delta answers after the cursor, gapless, and may be cut off.
Pulled(s) ==
    /\ run[s].pc = "pulling"
    /\ \E upto \in run[s].after..Len(slog) :
         /\ upto = run[s].after => upto = Len(slog)
         /\ run' = [run EXCEPT ![s].pc = "append", ![s].upto = upto]
    /\ UNCHANGED <<store, server, holder, readers, crashes>>

\* L2 to L5: the command goes on with what this machine holds.
PullFailed(s) ==
    /\ run[s].pc = "pulling"
    /\ Finish(s)
    /\ UNCHANGED <<store, server, readers, crashes>>

AppendStoredEvents(s) ==
    /\ run[s].pc = "append"
    /\ logged' = logged \cup ((run[s].after + 1)..run[s].upto)
    /\ last' = IF run[s].upto = run[s].after THEN last ELSE run[s].upto
    /\ run' = [run EXCEPT ![s].pc = "settle"]
    /\ UNCHANGED <<made, queue, folded, server, holder, readers, crashes>>

\* settleArrived: the files are read, then the marks are appended.
SettleArrived(s) ==
    /\ run[s].pc = "settle"
    /\ run' = [run EXCEPT ![s].pc = "mark",
                          ![s].arrived = {a \in Unsent : Arrived(a)}]
    /\ UNCHANGED <<store, server, holder, readers, crashes>>

\* A delta of nothing that settled nothing changed nothing.
MarkSent(s) ==
    /\ run[s].pc = "mark"
    /\ queue' = [queue EXCEPT !.sent = @ \cup run[s].arrived]
    /\ IF run[s].upto = run[s].after /\ run[s].arrived = {}
       THEN Finish(s)
       ELSE run' = [run EXCEPT ![s].pc = "fold"] /\ UNCHANGED holder
    /\ UNCHANGED <<made, logged, last, folded, server, readers, crashes>>

FoldProject(s) ==
    /\ run[s].pc = "fold"
    /\ folded' = logged
    /\ run' = [run EXCEPT ![s].pc = "compact"]
    /\ UNCHANGED <<made, queue, logged, last, server, holder, readers, crashes>>

\* Mutants: a block settles an append away as a sent mark does; the whole
\* queue goes; the rows that say a block was told are not among the shapes.
CompactedBlocks ==
    [append |-> queue.append \ (queue.sent \cup queue.blocked),
     sent |-> {}, blocked |-> {}, told |-> {}]
CompactedAll == [queue EXCEPT !.append = {}, !.sent = {}]

\* compactedPending: every row about a sent append is dropped.
CompactedPending ==
    [append |-> queue.append \ queue.sent, sent |-> {},
     blocked |-> queue.blocked \ queue.sent, told |-> queue.told \ queue.sent]

\* publishRewrite: nothing is published under a lock that was taken away.
CompactQueue(s) ==
    /\ run[s].pc = "compact"
    /\ queue' = IF holder = s THEN CompactedPending ELSE queue
    /\ Finish(s)
    /\ UNCHANGED <<made, logged, last, folded, server, readers, crashes>>

Pull(s) ==
    \/ StartPull(s) \/ Pulled(s) \/ PullFailed(s) \/ AppendStoredEvents(s)
    \/ SettleArrived(s) \/ MarkSent(s) \/ FoldProject(s) \/ CompactQueue(s)

\* A process dies; its lock goes to the next sync once the lease is past.
Crash(s) ==
    /\ run[s].pc # "idle" /\ crashes < MaxCrashes
    /\ crashes' = crashes + 1
    /\ flight' = flight \cup Orphaned(s)
    /\ Finish(s)
    /\ UNCHANGED <<store, slog, readers>>

-----------------------------------------------------------------------------
(* readEvents: log.jsonl is read, then pending.jsonl. *)

ReadLog(r) ==
    /\ reader[r].pc = "idle"
    /\ reader' = [reader EXCEPT ![r] = [pc |-> "queue", log |-> logged,
                                        since |-> 1..made \ queue.blocked]]
    /\ UNCHANGED <<store, server, holder, run, teller, said, crashes>>

\* withUnsent: what the reader answers from.
ViewOf(r) == {a \in Appends : HasIn(reader[r].log, a) \/ a \in Unsent}

ReadQueue(r) ==
    /\ reader[r].pc = "queue"
    /\ reader' = [reader EXCEPT ![r] = ReaderIdle]
    /\ UNCHANGED <<store, server, holder, run, teller, said, crashes>>

-----------------------------------------------------------------------------
(* surfaceBlocked: said by a command outside the lock, then marked. *)

UnsurfacedBlocks == queue.blocked \ queue.told

SurfaceBlocked(c) ==
    /\ teller[c].pc = "idle" /\ UnsurfacedBlocks # {}
    /\ said' = [a \in Appends |-> IF a \in UnsurfacedBlocks /\ said[a] < 2
                                  THEN said[a] + 1 ELSE said[a]]
    /\ teller' = [teller EXCEPT ![c] = [pc |-> "mark", blocks |-> UnsurfacedBlocks]]
    /\ UNCHANGED <<store, server, holder, run, reader, crashes>>

MarkSurfaced(c) ==
    /\ teller[c].pc = "mark"
    /\ queue' = [queue EXCEPT !.blocked = @ \cup teller[c].blocks,
                              !.told = @ \cup teller[c].blocks]
    /\ teller' = [teller EXCEPT ![c] = TellerIdle]
    /\ UNCHANGED <<made, logged, last, folded, server, holder, run, reader, said, crashes>>

-----------------------------------------------------------------------------
Next ==
    \/ AppendPending \/ TakeLate \/ TakeRemote
    \/ \E s \in Sync : Push(s) \/ Pull(s) \/ Take(s) \/ Crash(s)
    \/ \E r \in Reader : ReadLog(r) \/ ReadQueue(r)
    \/ \E c \in Teller : SurfaceBlocked(c) \/ MarkSurfaced(c)

Spec == Init /\ [][Next]_vars

-----------------------------------------------------------------------------
(* A process the kernel has not killed goes on; a person goes on running   *)
(* commands, each of which pulls, pushes and says what was refused where   *)
(* the lock is free; what is asked of the server again and again, in the   *)
(* re-sending of a split batch too, is sent and answered some time.        *)

OwnSteps(s) ==
    \/ Block(s) \/ AppendStoredEvents(s) \/ SettleArrived(s) \/ MarkSent(s)
    \/ FoldProject(s) \/ CompactQueue(s)

\* A request that carries one append.
Alone(s) == Cardinality(run[s].batch) = 1

Answered(s) == Pulled(s) \/ PullFailed(s) \/ LeftQueued(s) \/ Accepted(s) \/ Split(s)

Fairness ==
    /\ \A s \in Sync :
         /\ WF_vars(OwnSteps(s)) /\ WF_vars(Answered(s))
         /\ SF_vars(StartPush(s)) /\ SF_vars(StartPull(s)) /\ SF_vars(Pulled(s))
         /\ SF_vars(Post(s)) /\ SF_vars(Alone(s) /\ Post(s))
         /\ SF_vars(Take(s)) /\ SF_vars(Split(s)) /\ SF_vars(Alone(s) /\ Split(s))
         /\ SF_vars(Mismatch(run[s].batch) /\ Refused(s))
    /\ \A c \in Teller : WF_vars(SurfaceBlocked(c)) /\ WF_vars(MarkSurfaced(c))

FairSpec == Spec /\ Fairness

-----------------------------------------------------------------------------
(* Properties *)

\* Every variable stays in its type.
TypeOK ==
    /\ made \in 0..N
    /\ queue \in [append : SUBSET Appends, sent : SUBSET Appends,
                  blocked : SUBSET Appends, told : SUBSET Appends]
    /\ logged \subseteq Nat /\ last \in Nat /\ folded \subseteq Nat
    /\ slog \in Seq(Event)
    /\ flight \subseteq (SUBSET Appends) \ {{}}
    /\ holder \in Sync \cup {NoHolder}
    /\ run \in [Sync -> Run]
    /\ reader \in [Reader -> [pc : {"idle", "queue"}, log : SUBSET Nat, since : SUBSET Appends]]
    /\ teller \in [Teller -> [pc : {"idle", "mark"}, blocks : SUBSET Appends]]
    /\ said \in [Appends -> 0..2]
    /\ crashes \in 0..MaxCrashes

InCopy(a) == HasIn(logged, a)

\* pending.ts:42-48: a sent mark goes down only once log.jsonl holds every
\* event of the append, whatever a push was answered, whoever died in between
\* and however the delta was cut.
SentMeansStored == \A a \in queue.sent : InCopy(a)

\* The queue owns an event until the copy does (pending.ts:22-26): an append
\* that was made is read from one of the two files, or the workspace refused it.
NothingLost == \A a \in 1..made : InCopy(a) \/ a \in Unsent \/ a \in queue.blocked

\* What one command read the next one reads too: no settling, compaction,
\* crash or pull takes a record out of sight, only a refusal does.
ReadsNeverShrink ==
    [][\A a \in Appends : InCopy(a) \/ a \in Unsent
         => (InCopy(a) \/ a \in Unsent \/ a \in queue.blocked)']_vars

\* The copy is a prefix of the server's log with no row left out, and the
\* cursor read off its last row never skips one (logfile.ts:219-232).
NoGap ==
    /\ \A i \in logged : i <= Len(slog) /\ 1..i \subseteq logged
    /\ last \in logged \cup {0}

\* A refusal a background push wrote down is said by some later command: no
\* compaction drops a block nobody was told about.
EveryBlockIsTold == \A a \in Appends : a \in queue.blocked ~> said[a] > 0

\* Every append leaves the queue in the end: it is settled, or it is blocked.
Delivered == \A a \in Appends : made >= a ~> a \in queue.blocked \/ (InCopy(a) /\ a \notin Unsent)

\* The machinery implements what a person is promised.
Abstract == INSTANCE RecordStore WITH
    local   <- {a \in Unsent : ~InCopy(a)},
    agreed  <- [i \in 1..Cardinality(logged) |-> slog[i]],
    refused <- {a \in queue.blocked : ~InCopy(a)}

ImplementsRecordStore == Abstract!RSpec
=============================================================================
