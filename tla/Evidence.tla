------------------------------ MODULE Evidence ------------------------------
(***************************************************************************)
(* What one machine says of the commits a project's reports name: whether  *)
(* each has landed (reachability.ts), kept in evidence.json beside the     *)
(* pages, with a head record of what it was judged against (paths.ts), and *)
(* the proposals that are in effect by it (overlay.ts).                    *)
(*                                                                         *)
(* A fold reads the log, the verdicts, the refs of every linked            *)
(* repository and the head, asks each repository which commits it knows,   *)
(* walks the history of those that moved, and writes the verdicts and then *)
(* the head; refs move, the log grows, objects go and other folds run      *)
(* between any two of these.  Of a repository's refs a verdict sees which  *)
(* commits its default branch reaches, which only its topic branch, and    *)
(* whether that branch is there.                                           *)
(***************************************************************************)
EXTENDS Naturals, FiniteSets, SequencesExt

CONSTANTS
    LinkOrder,   \* the linked repositories, in the order of the link ledger
    Identity,    \* the root commit of each
    Mainless,    \* those with no default branch
    Hashes,      \* commits
    Moving,      \* those that are moved about
    Units,        \* work units, in the order they were created
    Reports,     \* reports that may be filed: the unit, the commit, and what
                 \* the report says of its branch and of its repository
    Decisions,   \* proposals
    Blocks,      \* the units each of them gates
    Starts,      \* where the commits may be to begin with, and what is filed
    Folders,     \* how many processes may fold at once
    MaxMoves,    \* bound on moves of refs, objects and checkouts
    MaxActs,     \* bound on records
    MaxFolds     \* bound on folds

Repos == Range(LinkOrder)
NoRepo == "no repository"

\* Where a commit is in a repository: nowhere, an object no ref reaches, on the
\* topic branch only, on the default branch.
Place == {"absent", "loose", "branch", "main"}

Report == [unit : Range(Units), hash : Hashes, branch : BOOLEAN,
           repo : Range(Identity) \cup {NoRepo}]

ASSUME EvidenceAssumption ==
    /\ DOMAIN Identity = Range(LinkOrder)
    /\ LinkOrder \in Seq(Repos) /\ NoRepo \notin Repos
    /\ Moving \subseteq Hashes /\ Mainless \subseteq Range(LinkOrder)
    /\ Blocks \in [Decisions -> SUBSET Range(Units)]
    /\ Reports \subseteq Report
    /\ \A start \in Starts : /\ start.place \in [Repos -> [Hashes -> Place]]
                            /\ start.topic \subseteq Repos /\ start.filed \in Seq(Report)
    /\ {Folders, MaxMoves, MaxActs, MaxFolds} \subseteq Nat

VARIABLES
    place,       \* where each commit is in each repository
    topic,       \* the repositories whose topic branch is there
    listing,     \* how often the refs of each have moved: no listing recurs
    present,     \* the repositories whose path is there
    merged,      \* the commits a default branch has ever reached
    filed,       \* the reports, in the order of the log
    closed,      \* the units that are done
    proposed,    \* the proposals nobody has answered
    verdicts,    \* evidence.json
    head,        \* the head record, or NoHead
    fold,        \* what each process is at
    moves, appends, folds

refs == <<place, topic, listing, present, merged>>
project == <<filed, closed, proposed>>
record == <<verdicts, head>>
evidenceVars == <<refs, project, record, fold, moves, appends, folds>>

Unjudged == "unjudged"
Verdict == {"settled", "provisional", "abandoned", "unknown", "unverifiable"}

\* by is not in the file: where each commit was judged, and by which report,
\* for as long as the folds that write the head still find it there.
NobodysWord == [h \in Hashes |-> <<>>]
NoHead == [verdicts |-> <<>>, keys |-> <<>>, by |-> NobodysWord]
NotFolding == [pc |-> "idle"]

EvidenceInit ==
    /\ \E start \in Starts :
          place = start.place /\ topic = start.topic /\ filed = start.filed
    /\ listing = [r \in Repos |-> 0] /\ present = Repos
    /\ merged = {h \in Hashes : \E r \in Repos : place[r][h] = "main"}
    /\ closed = {} /\ proposed = {}
    /\ verdicts = [h \in Hashes |-> Unjudged] /\ head = NoHead
    /\ fold = [f \in 1..Folders |-> NotFolding]
    /\ moves = 0 /\ appends = 0 /\ folds = 0

-----------------------------------------------------------------------------
(* The repositories: a person works in them at any time.                   *)

Move == moves < MaxMoves /\ moves' = moves + 1 /\ UNCHANGED <<project, record, fold, appends, folds>>

Knows(r, h) == place[r][h] # "absent"

\* A commit is made on the topic branch or fetched with it, merged to the
\* default branch, reset away; an object comes with no ref, or is pruned.
Placed(r, h, to) ==
    /\ place' = [place EXCEPT ![r][h] = to]
    /\ merged' = IF to = "main" THEN merged \cup {h} ELSE merged
RefsMove(r) == Move /\ r \in present /\ listing' = [listing EXCEPT ![r] = @ + 1] /\ UNCHANGED present
ObjectsMove(r) == Move /\ r \in present /\ UNCHANGED <<topic, listing, present>>

Commit(r, h) ==
    /\ place[r][h] \in {"absent", "loose"} /\ RefsMove(r)
    /\ Placed(r, h, "branch") /\ topic' = topic \cup {r}
Merge(r, h) ==
    /\ r \notin Mainless /\ place[r][h] \in {"branch", "absent"} /\ RefsMove(r)
    /\ Placed(r, h, "main") /\ UNCHANGED topic
ForcePush(r, h) ==
    /\ place[r][h] \in {"main", "branch"} /\ RefsMove(r)
    /\ Placed(r, h, "loose") /\ UNCHANGED topic
DeleteBranch(r) ==
    /\ r \in topic /\ RefsMove(r) /\ topic' = topic \ {r}
    /\ place' = [place EXCEPT ![r] = [h \in Hashes |-> IF @[h] = "branch" THEN "loose" ELSE @[h]]]
    /\ UNCHANGED merged
FetchObject(r, h) == place[r][h] = "absent" /\ ObjectsMove(r) /\ Placed(r, h, "loose")
Prune(r, h) == place[r][h] = "loose" /\ ObjectsMove(r) /\ Placed(r, h, "absent")

\* A checkout's path goes, and comes back.
Unmount(r) ==
    /\ Move /\ r \in present /\ present' = present \ {r} /\ UNCHANGED <<place, topic, listing, merged>>
Mount(r) ==
    /\ Move /\ r \notin present /\ present' = present \cup {r} /\ UNCHANGED <<place, topic, listing, merged>>

-----------------------------------------------------------------------------
(* The log                                                                 *)

\* evidenceOf: the units that are open, or gated by a live proposal.
GatedBy(u) == {d \in proposed : u \in Blocks[d]}
Tracked == {u \in Range(Units) : u \notin closed \/ GatedBy(u) # {}}

\* The reports of the tracked units that name a commit, a unit after another.
Naming(h) == FlattenSeq([i \in DOMAIN Units |->
    SelectSeq(filed, LAMBDA rep : rep.unit = Units[i] /\ rep.unit \in Tracked /\ rep.hash = h)])

\* The first that says its branch speaks for the commit, or else the last.
ItemOf(h) == LET saying == SelectSeq(Naming(h), LAMBDA rep : rep.branch)
             IN  IF saying # <<>> THEN Head(saying) ELSE Last(Naming(h))
TrackedHashes == {h \in Hashes : Naming(h) # <<>>}

Act == appends < MaxActs /\ appends' = appends + 1 /\ UNCHANGED <<refs, record, fold, moves, folds>>

File(rep) ==
    /\ Act /\ rep \notin Range(filed) /\ rep.unit \notin closed
    /\ \E r \in present : Knows(r, rep.hash)
    /\ filed' = Append(filed, rep) /\ UNCHANGED <<closed, proposed>>
FinishUnit(u) ==
    /\ Act /\ u \notin closed /\ \E i \in DOMAIN filed : filed[i].unit = u
    /\ closed' = closed \cup {u} /\ UNCHANGED <<filed, proposed>>
\* An undo of the completion.
Reopen(u) ==
    /\ Act /\ u \in closed /\ closed' = closed \ {u} /\ UNCHANGED <<filed, proposed>>
Propose(d) ==
    /\ Act /\ d \notin proposed /\ proposed' = proposed \cup {d} /\ UNCHANGED <<filed, closed>>
\* Confirmed, declined, or expired.
Answer(d) ==
    /\ Act /\ d \in proposed /\ proposed' = proposed \ {d} /\ UNCHANGED <<filed, closed>>

-----------------------------------------------------------------------------
(* The fold: updateVerdicts and what it calls                              *)

At(f, point) == fold[f].pc = point
Go(f, rec) == fold' = [fold EXCEPT ![f] = rec]
Leave(f) == Go(f, NotFolding)
Quiet == UNCHANGED <<refs, project, moves, appends, folds>>

\* The items, the paths and the stored verdicts.  The processes are alike: the
\* one that starts takes the first number that is free.
FoldStart(f) ==
    /\ At(f, "idle") /\ \A g \in 1..(f - 1) : ~At(g, "idle")
    /\ folds < MaxFolds /\ folds' = folds + 1
    /\ LET pending == {h \in TrackedHashes : verdicts[h] # "settled"} IN
       Go(f, [pc |-> "open", items |-> [h \in pending |-> ItemOf(h)], read |-> verdicts,
              dirs |-> present])
    /\ UNCHANGED <<refs, project, record, moves, appends>>

\* refListing, and the branches in it.
Listing(r) == [at |-> listing[r], topic |-> r \in topic]

\* Every linked repository answered, or is one of those that did.
Complete(dirs, opened) ==
    /\ opened = dirs
    /\ \A r \in Repos \ dirs : Identity[r] \in {Identity[o] : o \in opened}

FoldOpen(f) ==
    /\ At(f, "open") /\ Quiet /\ UNCHANGED record
    /\ LET me == fold[f] opened == me.dirs \cap present IN
       IF opened = {} THEN Leave(f)
       ELSE Go(f, [pc |-> "ask", items |-> me.items, read |-> me.read, repos |-> opened,
                   complete |-> Complete(me.dirs, opened),
                   keys |-> [r \in opened |-> Listing(r)]])

\* The first of a set of repositories in the order of the ledger, and the last.
FirstOf(repos) == LinkOrder[SelectInSeq(LinkOrder, LAMBDA r : r \in repos)]
LastOf(repos) == LinkOrder[SelectLastInSeq(LinkOrder, LAMBDA r : r \in repos)]

\* homeOf: the repository a report named if it knows the commit, else the
\* first that does.
HomeOf(h, item, repos, knows) ==
    LET holding == {r \in repos : h \in knows[r]}
        named == {r \in holding : Identity[r] = item.repo}
    IN  IF holding = {} THEN NoRepo ELSE FirstOf(IF named # {} THEN named ELSE holding)

\* Mutant of HasMoved: only the verdicts are compared.
HasMovedByVerdicts(r, key, read, known) == known = NoHead \/ known.verdicts # read

\* Has anything that this repository's verdicts turn on moved since the head?
HasMoved(r, key, read, known) ==
    \/ known = NoHead \/ known.verdicts # read
    \/ Identity[r] \notin DOMAIN known.keys \/ known.keys[Identity[r]] # key

\* resolveEverywhere, and which commits are to be walked where.
FoldAsk(f) ==
    /\ At(f, "ask") /\ Quiet /\ UNCHANGED record
    /\ LET me == fold[f]
           knows == [r \in me.repos |-> {h \in DOMAIN me.items : Knows(r, h)}]
           home == [h \in DOMAIN me.items |-> HomeOf(h, me.items[h], me.repos, knows)]
           walking == {h \in DOMAIN home : home[h] # NoRepo
                          /\ \/ HasMoved(home[h], me.keys[home[h]], me.read, head)
                             \/ me.read[h] \in {Unjudged, "unverifiable"}}
           gone == {h \in DOMAIN home : home[h] = NoRepo /\ me.complete}
           passed == {h \in DOMAIN home \ walking : head.by[h] # <<>> /\ head.by[h][1] = home[h]}
       IN  IF me.repos \subseteq present
           THEN Go(f, [pc |-> "walk", items |-> me.items, read |-> me.read, keys |-> me.keys,
                       repos |-> me.repos, home |-> home, walking |-> walking, gone |-> gone,
                       by |-> [h \in Hashes |->
                                  IF h \in walking THEN <<home[h], me.items[h]>>
                                  ELSE IF h \in passed THEN head.by[h] ELSE <<>>]])
           ELSE Leave(f)

\* Mutant of Reached: with no default branch, what HEAD reaches is merged.
ReachedFromHead(r, h) == place[r][h] = "main" \/ (r \in Mainless /\ place[r][h] = "branch")

\* unmergedOids: does the default branch reach the commit?
Reached(r, h) == place[r][h] = "main"

\* verdictOf: where a commit that exists sits.
VerdictOf(r, h, item, key) ==
    CASE Reached(r, h) -> "settled"
      [] place[r][h] = "branch" -> "provisional"
      [] item.branch /\ key.topic -> "abandoned"
      [] OTHER -> "unknown"

\* walkVerdicts: git fails where an object has gone since it was asked for.
FoldWalk(f) ==
    /\ At(f, "walk") /\ Quiet /\ UNCHANGED record
    /\ LET me == fold[f]
           judged == [h \in me.gone \cup me.walking |->
                         IF h \in me.gone THEN "unverifiable"
                         ELSE VerdictOf(me.home[h], h, me.items[h], me.keys[me.home[h]])]
       IN  IF \A h \in me.walking : me.home[h] \in present /\ Knows(me.home[h], h)
           THEN Go(f, [pc |-> "write", now |-> [h \in Hashes |->
                           IF h \in DOMAIN judged THEN judged[h] ELSE me.read[h]],
                       read |-> me.read, keys |-> me.keys, repos |-> me.repos, by |-> me.by])
           ELSE Leave(f)

\* commitVerdicts: the file, where a verdict moved; then the head.
FoldWrite(f) ==
    /\ At(f, "write") /\ Quiet /\ UNCHANGED head
    /\ verdicts' = IF fold[f].now = fold[f].read THEN verdicts ELSE fold[f].now
    /\ Go(f, [fold[f] EXCEPT !.pc = "head"])

\* headOf: one key for each identity, that of the last repository with it.
KeysOf(repos, keys) ==
    [id \in {Identity[r] : r \in repos} |-> keys[LastOf({r \in repos : Identity[r] = id})]]

FoldHead(f) ==
    /\ At(f, "head") /\ Quiet /\ UNCHANGED verdicts
    /\ head' = [verdicts |-> fold[f].now, keys |-> KeysOf(fold[f].repos, fold[f].keys),
                by |-> fold[f].by]
    /\ Leave(f)

\* The process dies, or git could not be asked; a file cut short reads as
\* holding nothing.
FoldCut(f) ==
    /\ ~At(f, "idle") /\ Quiet /\ Leave(f) /\ UNCHANGED head
    /\ \/ UNCHANGED verdicts
       \/ At(f, "write") /\ verdicts' = [h \in Hashes |-> Unjudged]

-----------------------------------------------------------------------------
\* `project link` and `unlink` drop the head.
Relink ==
    /\ moves < MaxMoves /\ moves' = moves + 1 /\ head # NoHead /\ head' = NoHead
    /\ UNCHANGED <<refs, project, verdicts, fold, appends, folds>>

EvidenceNext ==
    \/ \E r \in Repos :
          \/ \E h \in Moving : \/ Commit(r, h) \/ Merge(r, h) \/ ForcePush(r, h)
                               \/ FetchObject(r, h) \/ Prune(r, h)
          \/ DeleteBranch(r) \/ Unmount(r) \/ Mount(r)
    \/ Relink
    \/ \E rep \in Reports : File(rep)
    \/ \E u \in Range(Units) : FinishUnit(u) \/ Reopen(u)
    \/ \E d \in Decisions : Propose(d) \/ Answer(d)
    \/ \E f \in 1..Folders : \/ FoldStart(f) \/ FoldOpen(f) \/ FoldAsk(f) \/ FoldWalk(f)
                          \/ FoldWrite(f) \/ FoldHead(f) \/ FoldCut(f)

EvidenceSpec == EvidenceInit /\ [][EvidenceNext]_evidenceVars

-----------------------------------------------------------------------------
(* The band of live proposals (deriveAttention)                            *)

EvidenceOfUnit(u) == {filed[i].hash : i \in {j \in DOMAIN filed : filed[j].unit = u}}

\* Mutant of Landed: one commit that settled speaks for the unit.
LandedInPart(u) == u \in closed /\ \E h \in EvidenceOfUnit(u) : verdicts[h] = "settled"

\* A unit landed when it is done and every commit it offered is settled.
Landed(u) ==
    /\ u \in closed /\ EvidenceOfUnit(u) # {}
    /\ \A h \in EvidenceOfUnit(u) : verdicts[h] = "settled"

\* A proposal that gates nothing is never in effect.
InEffect(d) == d \in proposed /\ Blocks[d] # {} /\ \A u \in Blocks[d] : Landed(u)

-----------------------------------------------------------------------------
(* Properties                                                              *)

\* A proposal reads as in effect only on work whose every commit has been on a
\* default branch, whatever the folds overlapped with, lost or found gone.
InEffectHasLanded == \A d \in Decisions : InEffect(d) =>
    \A u \in Blocks[d] : EvidenceOfUnit(u) # {} /\ EvidenceOfUnit(u) \subseteq merged

\* What the next fold, begun now, would find: the repositories that are there,
\* each commit's home in them, and whether it would be left as it stands.
HomeNow(h) == HomeOf(h, ItemOf(h), present, [r \in present |-> {g \in Hashes : Knows(r, g)}])
Skipped(h) ==
    /\ verdicts[h] \notin {"settled", Unjudged, "unverifiable"} /\ HomeNow(h) # NoRepo
    /\ ~HasMoved(HomeNow(h), Listing(HomeNow(h)), verdicts, head)
RightNow(h) == verdicts[h] = VerdictOf(HomeNow(h), h, ItemOf(h), Listing(HomeNow(h)))

\* reachability.ts:80-81: that a fold walks only where something moved changes
\* no verdict, of a commit the head was written for where it now is and by the
\* report that now speaks for it.
SkippedIsRight == \A h \in TrackedHashes :
    Skipped(h) /\ head.by[h] = <<HomeNow(h), ItemOf(h)>> => RightNow(h)
=============================================================================
