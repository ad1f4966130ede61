------------------------------ MODULE GitStore ------------------------------
(***************************************************************************)
(* A git-backed store: sessions append to the log in a checkout, fold its  *)
(* pages and commit (pipeline.ts, fold.ts, commitAll in gitutil.ts), and   *)
(* `self sync` rebases the checkout onto a shared remote and pushes it     *)
(* (sync.ts).  A checkout may have several sessions and nothing of the     *)
(* program's own keeps them apart: only git's index.lock does, for the     *)
(* length of one git command.                                              *)
(*                                                                         *)
(* One project with one unit of work is modelled.  An append is one line,  *)
(* whatever events it holds; the unit's page is there until a line ends    *)
(* the unit.  A tree is the log and the page; a branch is its last tree.   *)
(***************************************************************************)
EXTENDS Naturals, FiniteSets

CONSTANTS
    Trees,      \* checkouts of the store
    Sessions,    \* processes that run commands
    Home,        \* the checkout each of them stands in
    Kinds,       \* what a line may say: "report", or "done", which ends the unit
    Beside,      \* may a session run while another of its checkout syncs
    MayDie,      \* may a session be killed between two git commands
    MaxLines     \* bound on the appends, after the one all have

Unlocked == "none"

ASSUME StoreAssumption ==
    /\ Home \in [Sessions -> Trees] /\ Unlocked \notin Sessions
    /\ Kinds \subseteq {"report", "done"}
    /\ {Beside, MayDie} \subseteq BOOLEAN /\ MaxLines \in Nat

VARIABLES
    work,        \* the tree in each checkout
    index,       \* what is staged in it
    head,        \* what its HEAD holds
    lock,        \* the session whose git command holds index.lock, or Unlocked
    orig,        \* the branch and the tip a rebase in progress began from
    base,        \* the version of the remote each branch stands on
    remote,      \* the pushed branch
    recorded,    \* the lines each checkout's sessions have appended
    pc,          \* where each session is in its command
    local        \* what it holds there: see Idle

gitVars == <<work, index, head, lock, orig, base, remote, recorded, pc, local>>
trees == <<work, index, head>>

Line == [n : 0..MaxLines, kind : {"report", "done"}]
Tree == [lines : SUBSET Line, page : SUBSET Line]
Version == [n : Nat, tree : Tree]

\* mine: the lines of this command; seen: the log its fold read; tried: it
\* has found index.lock held once; then: where commitAll returns to; said:
\* "synced" behind a sync that succeeded.
Idle == [mine |-> {}, seen |-> {}, tried |-> FALSE, then |-> "write", said |-> "nothing"]

\* All checkouts are cloned from a store with one line in it.
First == [n |-> 0, kind |-> "report"]
FirstTree == [lines |-> {First}, page |-> {First}]
FirstVersion == [n |-> 1, tree |-> FirstTree]
NoRebase == [on |-> FALSE, tree |-> FirstTree, onto |-> FirstVersion]

Appended == UNION {recorded[c] : c \in Trees}
Syncing(s) == local[s].then # "write"
Others(s) == {o \in Sessions \ {s} : Home[o] = Home[s]}

InitGit ==
    /\ work = [c \in Trees |-> FirstTree] /\ index = work /\ head = work
    /\ lock = [c \in Trees |-> Unlocked] /\ orig = [c \in Trees |-> NoRebase]
    /\ remote = FirstVersion /\ base = [c \in Trees |-> remote]
    /\ recorded = [c \in Trees |-> {}]
    /\ pc = [s \in Sessions |-> "idle"] /\ local = [s \in Sessions |-> Idle]

Goto(s, at) == pc' = [pc EXCEPT ![s] = at]
Hold(s, r) == local' = [local EXCEPT ![s] = r]
\* Of what a command said at its end, and of the lines it was about, only a sync
\* that succeeded is held against it.
End(s, said) ==
    /\ Goto(s, "idle")
    /\ Hold(s, IF said = "synced" THEN [Idle EXCEPT !.mine = local[s].mine, !.said = said] ELSE Idle)

-----------------------------------------------------------------------------
(* Recording: one append, then the fold, then commitAll.                     *)

\* foldWorkPages: an open unit keeps its page, an ended one loses it.
Rendered(L) == IF \E l \in L : l.kind = "done" THEN {} ELSE L

\* recordEvents, appendLog: what is recorded is in the log from here on.
Write(s) == \E kind \in Kinds :
    LET c == Home[s] line == [n |-> Cardinality(Appended) + 1, kind |-> kind] IN
    /\ pc[s] = "idle" /\ Cardinality(Appended) < MaxLines
    /\ Beside \/ \A o \in Others(s) : ~Syncing(o)
    /\ \A l \in work[c].lines : l.kind # "done"
    /\ work' = [work EXCEPT ![c].lines = @ \cup {line}]
    /\ recorded' = [recorded EXCEPT ![c] = @ \cup {line}]
    /\ Goto(s, "fold") /\ Hold(s, [Idle EXCEPT !.mine = {line}])
    /\ UNCHANGED <<index, head, lock, orig, base, remote>>

\* foldProject reads the log, and writes the pages later.
FoldRead(s) ==
    /\ pc[s] = "fold" /\ Goto(s, "page")
    /\ Hold(s, [local[s] EXCEPT !.seen = work[Home[s]].lines])
    /\ UNCHANGED <<trees, lock, orig, base, remote, recorded>>

FoldWrite(s) ==
    /\ pc[s] = "page" /\ Goto(s, "add")
    /\ work' = [work EXCEPT ![Home[s]].page = Rendered(local[s].seen)]
    /\ UNCHANGED <<index, head, lock, orig, base, remote, recorded, local>>

\* A session is killed between two git commands; the next one of its kind
\* starts over.
Die(s) ==
    /\ MayDie /\ pc[s] \in {"fold", "page", "add", "status", "commit", "pull", "push"}
    /\ End(s, "died")
    /\ UNCHANGED <<trees, lock, orig, base, remote, recorded>>

-----------------------------------------------------------------------------
(* commitAll: add -A, status --porcelain, commit.                            *)

\* Where commitAll returns to: the end of a write, or the next step of a sync.
Return(s, said) ==
    IF Syncing(s) THEN Goto(s, local[s].then) /\ Hold(s, [local[s] EXCEPT !.tried = FALSE])
    ELSE End(s, said)

\* A git command takes index.lock, works and lets go.
TakeLock(s, from, at) ==
    /\ pc[s] = from /\ lock[Home[s]] = Unlocked
    /\ lock' = [lock EXCEPT ![Home[s]] = s] /\ Goto(s, at)
    /\ UNCHANGED <<trees, orig, base, remote, recorded, local>>

\* tookTheIndex: a held lock is tried twice, and then the session says that
\* the line will be committed with the next write.
LockedOut(s) ==
    /\ pc[s] \in {"add", "commit"} /\ lock[Home[s]] # Unlocked
    /\ IF local[s].tried THEN Return(s, "noticed")
       ELSE Goto(s, pc[s]) /\ Hold(s, [local[s] EXCEPT !.tried = TRUE])
    /\ UNCHANGED <<trees, lock, orig, base, remote, recorded>>

Release(c) == lock' = [lock EXCEPT ![c] = Unlocked]

StageAll(s) ==
    LET c == Home[s] IN
    /\ pc[s] = "adding" /\ Release(c)
    /\ index' = [index EXCEPT ![c] = work[c]]
    /\ Goto(s, "status") /\ Hold(s, [local[s] EXCEPT !.tried = FALSE])
    /\ UNCHANGED <<work, head, orig, base, remote, recorded>>

\* Nothing to commit: another session has committed it all.
Status(s) ==
    LET c == Home[s] IN
    /\ pc[s] = "status"
    /\ IF work[c] = index[c] /\ index[c] = head[c] THEN Return(s, "committed")
       ELSE Goto(s, "commit") /\ UNCHANGED local
    /\ UNCHANGED <<trees, lock, orig, base, remote, recorded>>

\* A commit with nothing staged fails, and its failure is raised.
Commit(s) ==
    LET c == Home[s] IN
    /\ pc[s] = "committing" /\ Release(c)
    /\ head' = [head EXCEPT ![c] = index[c]]
    /\ IF index[c] = head[c] THEN End(s, "commit failed") ELSE Return(s, "committed")
    /\ UNCHANGED <<work, index, orig, base, remote, recorded>>

-----------------------------------------------------------------------------
(* syncStore: commit what is here, pull --rebase, refold, commit and push.   *)

SyncStart(s) ==
    /\ pc[s] = "idle" /\ (Beside \/ \A o \in Others(s) : pc[o] = "idle")
    /\ Goto(s, "add") /\ Hold(s, [Idle EXCEPT !.mine = work[Home[s]].lines, !.then = "pull"])
    /\ UNCHANGED <<trees, lock, orig, base, remote, recorded>>

ResetTo(c, tree) ==
    /\ work' = [work EXCEPT ![c] = tree]
    /\ index' = [index EXCEPT ![c] = tree]
    /\ head' = [head EXCEPT ![c] = tree]

\* rebase --abort puts the branch back as it was before the rebase that is in
\* progress, whoever began it; git refuses while the index is locked.
Abort(c) ==
    IF ~orig[c].on \/ lock[c] # Unlocked THEN UNCHANGED <<trees, orig>>
    ELSE ResetTo(c, orig[c].tree) /\ orig' = [orig EXCEPT ![c] = NoRebase]

PullFails(s) == Abort(Home[s]) /\ End(s, "failed") /\ UNCHANGED base

Clean(c) == work[c] = index[c] /\ index[c] = head[c]

\* The branch is up to date, goes forward, or is checked out anew at the
\* remote's tip with its own commits to be replayed.
PullBegin(s) ==
    LET c == Home[s] IN
    /\ pc[s] = "pull" /\ UNCHANGED <<lock, remote, recorded>>
    /\ IF ~Clean(c) \/ orig[c].on \/ lock[c] # Unlocked THEN PullFails(s)
       ELSE IF base[c].n = remote.n
       THEN UNCHANGED <<trees, orig, base>> /\ Goto(s, "fold") /\ Hold(s, [local[s] EXCEPT !.then = "push"])
       ELSE /\ ResetTo(c, remote.tree)
            /\ IF head[c] = base[c].tree
               THEN /\ base' = [base EXCEPT ![c] = remote] /\ UNCHANGED orig
                    /\ Goto(s, "fold") /\ Hold(s, [local[s] EXCEPT !.then = "push"])
               ELSE /\ orig' = [orig EXCEPT ![c] = [on |-> TRUE, tree |-> head[c], onto |-> remote]]
                    /\ Goto(s, "replay") /\ UNCHANGED <<base, local>>

\* A log is merged by union.  A page both sides changed is merged as derived,
\* which keeps the upstream's; one that one side dropped and the other
\* rewrote is a conflict no merge driver is asked about.
Conflicts(old, up, own) ==
    up.page # old.page /\ own.page # old.page /\ up.page # own.page /\ {} \in {up.page, own.page}

\* Mutant: the log is merged as the pages are.
MergedAsDerived(old, up, own) ==
    [lines |-> IF up.lines = old.lines THEN own.lines ELSE up.lines,
     page |-> IF up.page = old.page THEN own.page ELSE up.page]

Merged(old, up, own) ==
    [lines |-> up.lines \cup own.lines,
     page |-> IF up.page = old.page THEN own.page ELSE up.page]

\* What another session left in the checkout since stops the replay; what it
\* committed may stop it or stay below the replayed commits.
Replay(s) ==
    LET c == Home[s] IN
    /\ pc[s] = "replay" /\ UNCHANGED <<lock, remote, recorded>>
    /\ \/ /\ orig[c].on /\ Clean(c) /\ lock[c] = Unlocked
          /\ ~Conflicts(base[c].tree, head[c], orig[c].tree)
          /\ ResetTo(c, Merged(base[c].tree, head[c], orig[c].tree))
          /\ base' = [base EXCEPT ![c] = orig[c].onto]
          /\ orig' = [orig EXCEPT ![c] = NoRebase]
          /\ Goto(s, "fold") /\ Hold(s, [local[s] EXCEPT !.then = "push"])
       \/ /\ \/ ~orig[c].on \/ ~Clean(c) \/ lock[c] # Unlocked
             \/ head[c] # orig[c].onto.tree
             \/ Conflicts(base[c].tree, head[c], orig[c].tree)
          /\ PullFails(s)

\* Mutant: a push does not ask where the remote stands.
PushForced(s) ==
    LET c == Home[s] next == [n |-> remote.n + 1, tree |-> head[c]] IN
    /\ pc[s] = "push" /\ UNCHANGED <<trees, lock, orig, recorded>>
    /\ End(s, "synced") /\ remote' = next /\ base' = [base EXCEPT ![c] = next]

\* A push is rejected unless the remote still stands where the branch does.
PushHead(s) ==
    LET c == Home[s] next == [n |-> remote.n + 1, tree |-> head[c]] IN
    /\ pc[s] = "push" /\ UNCHANGED <<trees, lock, orig, recorded>>
    /\ IF orig[c].on \/ base[c].n # remote.n THEN End(s, "failed") /\ UNCHANGED <<base, remote>>
       ELSE IF head[c] = remote.tree THEN End(s, "synced") /\ UNCHANGED <<base, remote>>
       ELSE End(s, "synced") /\ remote' = next /\ base' = [base EXCEPT ![c] = next]

Step(s) ==
    \/ FoldRead(s) \/ FoldWrite(s)
    \/ TakeLock(s, "add", "adding") \/ TakeLock(s, "commit", "committing") \/ LockedOut(s)
    \/ StageAll(s) \/ Status(s) \/ Commit(s)
    \/ PullBegin(s) \/ Replay(s) \/ PushHead(s)

NextGit == \E s \in Sessions : Write(s) \/ SyncStart(s) \/ Step(s) \/ Die(s)

SpecGit == InitGit /\ [][NextGit]_gitVars
-----------------------------------------------------------------------------
(* Properties *)

\* What a session has recorded stays in the log of its checkout, whatever is
\* pulled, aborted or pushed (writeThrough: a failure below the append costs a
\* refold, never the events).
RecordedIsKept == \A c \in Trees : ~orig[c].on => recorded[c] \subseteq work[c].lines

\* A sync that says so has pushed every line the checkout held when it began,
\* also those whose own session lost the index to another.
SyncedMeansShared == \A s \in Sessions :
    (pc[s] = "idle" /\ local[s].said = "synced") => local[s].mine \subseteq remote.tree.lines
=============================================================================
