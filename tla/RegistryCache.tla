--------------------------- MODULE RegistryCache ---------------------------
(***************************************************************************)
(* registry.jsonl in a server-backed store, and the one fact it decides by *)
(* (registrycache.ts): the server's id of a project.  One slug is modelled *)
(* as it is registered here, listed by the workspace, removed and made     *)
(* again by somebody else, and as the queue behind it is pushed (pusher.ts *)
(* row P6) and its log pulled (puller.ts).                                 *)
(*                                                                         *)
(* The slug's projects are numbered in the order they are made; a row of   *)
(* the registry is the id it caches, NoId where it caches none.            *)
(***************************************************************************)
EXTENDS Naturals, Sequences

CONSTANTS
    Projects,    \* bound on the projects the slug names in turn
    N,           \* records this machine makes
    Theirs,      \* bound on the length of a project's log
    Sync,        \* processes that push or pull
    FirstRows,   \* the rows the registry may start with
    Beside,      \* TRUE: commands run beside a sync
    MayLose,     \* TRUE: the answer to a creation may be lost
    MayDie       \* TRUE: one process may die

NoId == 0
NoHolder == "nobody"

ASSUME RegistryAssumption ==
    /\ Projects \in Nat /\ N \in Nat /\ Theirs \in Nat
    /\ NoHolder \notin Sync
    /\ FirstRows \subseteq Seq({NoId})
    /\ Beside \in BOOLEAN /\ MayLose \in BOOLEAN /\ MayDie \in BOOLEAN

VARIABLES
    rows,      \* registry.jsonl
    meant,     \* for each record made here, the id the registry then named
    queue,     \* records made here and not settled
    blocked,   \* records refused
    copy,      \* log.jsonl: the project and server_seq of each row
    made,      \* projects the slug has named
    live,      \* the one it names, NoId where there is none
    log,       \* the server's log of each: a record of ours, or 0
    holder,    \* who holds sync.lock
    run,       \* what each sync is doing
    init,      \* what project init is doing
    faults     \* what has gone wrong: an answer lost, a process dead

vars == <<rows, meant, queue, blocked, copy, made, live, log, holder, run,
          init, faults>>
server == <<made, live, log>>
records == <<meant, queue, blocked>>

Ids == 1..Projects

Idle == [pc |-> "idle", listed |-> NoId, keep |-> FALSE, read |-> <<>>,
         memo |-> <<>>, batch |-> {}, created |-> FALSE]

Init ==
    /\ rows \in FirstRows
    /\ meant = <<>> /\ queue = {} /\ blocked = {} /\ copy = <<>>
    /\ made = 0 /\ live = NoId /\ log = [p \in Ids |-> <<>>]
    /\ holder = NoHolder
    /\ run = [s \in Sync |-> Idle]
    /\ init = [pc |-> "idle", id |-> NoId]
    /\ faults = {}

-----------------------------------------------------------------------------
(* The workspace server (external). *)

MakeProject(p) == made < Projects /\ p = made + 1 /\ made' = p /\ live' = p

RemoveElsewhere ==
    /\ live # NoId
    /\ live' = NoId
    /\ UNCHANGED <<rows, records, copy, made, log, holder, run, init, faults>>

MakeElsewhere ==
    /\ live = NoId
    /\ \E p \in Ids : MakeProject(p)
    /\ UNCHANGED <<rows, records, copy, log, holder, run, init, faults>>

RecordElsewhere ==
    /\ live # NoId /\ Len(log[live]) < Theirs
    /\ log' = [log EXCEPT ![live] = Append(@, 0)]
    /\ UNCHANGED <<rows, records, copy, made, live, holder, run, init, faults>>

-----------------------------------------------------------------------------
(* The commands: project init (main.ts), and one that records. *)

Undisturbed == Beside \/ holder = NoHolder

\* createWorkspaceProject: the workspace makes the project first.
ProjectInit ==
    /\ Undisturbed /\ init.pc = "idle" /\ rows = <<>> /\ live = NoId
    /\ \E p \in Ids : /\ MakeProject(p)
                      /\ init' = [pc |-> "register", id |-> p]
    /\ UNCHANGED <<rows, records, copy, log, holder, run, faults>>

\* registerProject: an append outside the lock.
RegisterProject ==
    /\ init.pc = "register"
    /\ rows' = Append(rows, init.id)
    /\ init' = [pc |-> "idle", id |-> NoId]
    /\ UNCHANGED <<records, copy, server, holder, run, faults>>

InitDies ==
    /\ init.pc = "register" /\ MayDie /\ "died" \notin faults
    /\ faults' = faults \cup {"died"}
    /\ init' = [pc |-> "idle", id |-> NoId]
    /\ UNCHANGED <<rows, records, copy, server, holder, run>>

\* projectIdOf: the first row wins.
ProjectIdOf(registry) == IF registry = <<>> THEN NoId ELSE registry[1]

AppendPending ==
    /\ Undisturbed /\ rows # <<>> /\ Len(meant) < N
    /\ meant' = Append(meant, ProjectIdOf(rows))
    /\ queue' = queue \cup {Len(meant')}
    /\ UNCHANGED <<rows, blocked, copy, server, holder, run, init, faults>>

-----------------------------------------------------------------------------
(* The catch-up: the workspace's list, then the delta (puller.ts). *)

Free == holder = NoHolder /\ (Beside \/ init.pc = "idle")

Step(s, r) == run' = [run EXCEPT ![s] = r]

StartCatchUp(s) ==
    /\ run[s].pc = "idle" /\ Free
    /\ holder' = s
    /\ Step(s, [Idle EXCEPT !.pc = "list"])
    /\ UNCHANGED <<rows, records, copy, server, init, faults>>

ListProjects(s) ==
    /\ run[s].pc = "list"
    /\ Step(s, [run[s] EXCEPT !.pc = "queued", !.listed = live])
    /\ UNCHANGED <<rows, records, copy, server, holder, init, faults>>

\* Any other answer is the pull's to say.
ListFails(s) ==
    /\ run[s].pc = "list"
    /\ Step(s, [run[s] EXCEPT !.pc = "pull"])
    /\ UNCHANGED <<rows, records, copy, server, holder, init, faults>>

Unsent == queue \ blocked

\* Mutant: a queue keeps nothing registered.
KeepNothing(s) ==
    /\ run[s].pc = "queued"
    /\ Step(s, [run[s] EXCEPT !.pc = "read"])
    /\ UNCHANGED <<rows, records, copy, server, holder, init, faults>>

StillQueued(s) ==
    /\ run[s].pc = "queued"
    /\ Step(s, [run[s] EXCEPT !.pc = "read", !.keep = rows # <<>> /\ Unsent # {}])
    /\ UNCHANGED <<rows, records, copy, server, holder, init, faults>>

ReadRegistry(s) ==
    /\ run[s].pc = "read"
    /\ Step(s, [run[s] EXCEPT !.pc = "publish", !.read = rows])
    /\ UNCHANGED <<rows, records, copy, server, holder, init, faults>>

\* The registrations appended since the rewrite read the file (carryLateTail).
Late(read) == SubSeq(rows, Len(read) + 1, Len(rows))

\* reconcileRegistry: one row of a slug; what is listed takes the listed id,
\* what is not stays where it was never registered or records are queued.
Reconciled(read, listed, keep) ==
    IF listed # NoId THEN <<listed>>
    ELSE IF read = <<>> \/ (read[1] # NoId /\ ~keep) THEN <<>> ELSE <<read[1]>>

ReconcileRegistry(s) ==
    /\ run[s].pc = "publish"
    /\ rows' = Reconciled(run[s].read, run[s].listed, run[s].keep) \o Late(run[s].read)
    /\ Step(s, [run[s] EXCEPT !.pc = "pull"])
    /\ UNCHANGED <<records, copy, server, holder, init, faults>>

Done(s) ==
    /\ Step(s, Idle)
    /\ holder' = IF holder = s THEN NoHolder ELSE holder

LastServerSeq == IF copy = <<>> THEN 0 ELSE copy[Len(copy)].seq

\* The rows a pull is answered with: those past the copy's last.
Delta ==
    LET past == IF live # NoId /\ LastServerSeq < Len(log[live])
                THEN Len(log[live]) - LastServerSeq ELSE 0
    IN  [i \in 1..past |-> [of |-> live, seq |-> LastServerSeq + i]]

Ours(rs) == {log[rs[i].of][rs[i].seq] : i \in DOMAIN rs} \ {0}

\* pullProject and applyDelta, where the slug is registered and answered.
PullProject(s) ==
    /\ run[s].pc = "pull"
    /\ IF rows = <<>> THEN UNCHANGED <<copy, queue>>
       ELSE /\ copy' = copy \o Delta
            /\ queue' = queue \ Ours(copy')
    /\ Done(s)
    /\ UNCHANGED <<rows, meant, blocked, server, init, faults>>

PullFails(s) ==
    /\ run[s].pc = "pull"
    /\ Done(s)
    /\ UNCHANGED <<rows, records, copy, server, init, faults>>

-----------------------------------------------------------------------------
(* The push, as far as the project behind the slug decides it (pusher.ts). *)

\* pushStore: a process of its own, which reads the registry under the lock
\* and remembers it.
PushStore(s) ==
    /\ run[s].pc = "idle" /\ Free /\ rows # <<>> /\ Unsent # {}
    /\ holder' = s
    /\ Step(s, [Idle EXCEPT !.pc = "send", !.batch = Unsent, !.memo = rows])
    /\ UNCHANGED <<rows, records, copy, server, init, faults>>

Expected(s) == ProjectIdOf(run[s].memo)

\* The server finds the project, and it is the one the sender means.
Found(s) == live # NoId /\ Expected(s) \in {NoId, live}

InLog(p) == {log[p][i] : i \in DOMAIN log[p]}

\* Every record of the batch the log has not, in the order made.
NewOf(s) == SelectSeq([i \in 1..Len(meant) |-> i],
                      LAMBDA i : i \in run[s].batch \ InLog(live))

Accepted(s) ==
    /\ run[s].pc = "send" /\ Found(s)
    /\ log' = [log EXCEPT ![live] = @ \o NewOf(s)]
    /\ Done(s)
    /\ UNCHANGED <<rows, records, copy, made, live, init, faults>>

\* P7, P10: left queued.
LeftQueued(s) ==
    /\ run[s].pc = "send"
    /\ Done(s)
    /\ UNCHANGED <<rows, records, copy, server, init, faults>>

\* P6, afterUnknownProject: the cached id is the whole of the decision.
AfterUnknownProject(s) ==
    /\ run[s].pc = "send" /\ ~Found(s)
    /\ IF Expected(s) # NoId \/ run[s].created
       THEN blocked' = blocked \cup run[s].batch /\ Done(s)
       ELSE Step(s, [run[s] EXCEPT !.pc = "create"]) /\ UNCHANGED <<blocked, holder>>
    /\ UNCHANGED <<rows, meant, queue, copy, server, init, faults>>

\* createThenPush: 201.
CreateProject(s) ==
    /\ run[s].pc = "create" /\ live = NoId
    /\ \E p \in Ids :
         /\ MakeProject(p)
         /\ \/ Step(s, [run[s] EXCEPT !.pc = "cache", !.listed = p, !.created = TRUE])
               /\ UNCHANGED <<holder, faults>>
            \/ MayLose /\ Done(s) /\ faults' = faults \cup {"lost"}
    /\ UNCHANGED <<rows, records, copy, log, init>>

\* createThenPush: the slug is taken, or this machine may not create it.
CreationRefused(s) ==
    /\ run[s].pc = "create"
    /\ blocked' = blocked \cup run[s].batch
    /\ Done(s)
    /\ UNCHANGED <<rows, meant, queue, copy, server, init, faults>>

\* createThenPush: a 426, a 503, or nothing answered.
CreationUnanswered(s) ==
    /\ run[s].pc = "create"
    /\ Done(s)
    /\ UNCHANGED <<rows, records, copy, server, init, faults>>

\* cacheProjectId: on every row of the slug; the memo is forgotten.
CacheProjectId(s) ==
    /\ run[s].pc = "cache"
    /\ rows' = [i \in DOMAIN rows |-> run[s].listed]
    /\ Step(s, [run[s] EXCEPT !.pc = "send", !.memo = rows'])
    /\ UNCHANGED <<records, copy, server, holder, init, faults>>

\* The lock of the dead goes to the next sync once its lease is past.
Crash(s) ==
    /\ run[s].pc # "idle" /\ MayDie /\ "died" \notin faults
    /\ faults' = faults \cup {"died"}
    /\ Done(s)
    /\ UNCHANGED <<rows, records, copy, server, init>>

-----------------------------------------------------------------------------
CatchUp(s) ==
    \/ StartCatchUp(s) \/ ListProjects(s) \/ ListFails(s) \/ StillQueued(s)
    \/ ReadRegistry(s) \/ ReconcileRegistry(s) \/ PullProject(s) \/ PullFails(s)

Push(s) ==
    \/ PushStore(s) \/ Accepted(s) \/ LeftQueued(s)
    \/ AfterUnknownProject(s) \/ CreateProject(s) \/ CreationRefused(s)
    \/ CreationUnanswered(s) \/ CacheProjectId(s)

Next ==
    \/ RemoveElsewhere \/ MakeElsewhere \/ RecordElsewhere
    \/ ProjectInit \/ RegisterProject \/ InitDies \/ AppendPending
    \/ \E s \in Sync : CatchUp(s) \/ Push(s) \/ Crash(s)

Spec == Init /\ [][Next]_vars

\* A process goes on; commands go on being run, each of which catches up and
\* pushes where the lock is free; a request is answered in the end.
Fairness ==
    /\ WF_vars(RegisterProject)
    /\ \A s \in Sync :
         /\ WF_vars(run[s].pc # "idle" /\ (CatchUp(s) \/ Push(s)))
         /\ SF_vars(StartCatchUp(s)) /\ SF_vars(PushStore(s))
         /\ SF_vars(ListProjects(s)) /\ SF_vars(PullProject(s)) /\ SF_vars(Accepted(s))
         /\ SF_vars(AfterUnknownProject(s)) /\ SF_vars(CreateProject(s) \/ CreationRefused(s))

FairSpec == Spec /\ Fairness

-----------------------------------------------------------------------------
(* Properties *)

\* registrycache.ts:47-55: a slug with records queued stays registered, for
\* nothing iterates a slug the registry does not list.
KeptWhileQueued == Unsent # {} => rows # <<>>

\* Every record leaves the queue in the end or is blocked, where the slug is
\* not removed and made again.
Settled == [](made <= 1) =>
    \A r \in 1..N : (r \in queue ~> r \notin queue \/ r \in blocked)
=============================================================================
