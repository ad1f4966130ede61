----------------------------- MODULE Artifacts -----------------------------
(***************************************************************************)
(* The artifacts of one project in one store: bytes a report or `artifact  *)
(* add` copies in, or finds there and shares, the records the log keeps of *)
(* them, and `artifact prune`, which a person confirms (artifact.ts,       *)
(* registry.ts).  Sessions run beside each other; lines of other machines  *)
(* arrive without their bytes.                                             *)
(*                                                                         *)
(* A digest stands for the bytes of a file or of a bundle, a path for      *)
(* artifacts/<slug>/<id>-<name>.  Links hold no bytes and are left out.    *)
(***************************************************************************)
EXTENDS Naturals, Sequences, FiniteSets, SequencesExt

CONSTANTS
    Sessions,    \* processes that attach or prune
    Digests,     \* contents a source may have
    StorePaths,       \* names an artifact may get
    Units,       \* work units a report may be on
    MaxRecords,  \* bound on the records
    MaxFaults    \* bound on deaths, failed copies, removals and folds

Nothing == "nothing"
Part == "part"
NoUnit == "no unit"

ASSUME ArtifactsAssumption ==
    /\ IsFiniteSet(Digests) /\ {Nothing, Part} \cap Digests = {}
    /\ Nothing \notin StorePaths /\ {MaxRecords, MaxFaults} \subseteq Nat

VARIABLES
    log,         \* the artifact records, in the order of the log
    pruned,      \* the records a prune line names
    done,        \* the units that are done or retired
    disk,        \* what is under each path: Nothing, Part, or a digest
    pc,          \* where each session is in its command
    job,         \* what it works on: see NoJob
    crossed,     \* paths that were adopted and decided on side by side
    faults       \* faults so far

artifactVars == <<log, pruned, done, disk, pc, job, crossed, faults>>

\* todo: the digests still to copy; put: the records to append; made: the
\* paths this command has created; record, path, shared: what a prune is of,
\* and whether another record shares its bytes.
NoJob == [todo |-> {}, put |-> {}, made |-> {}, unit |-> NoUnit,
          record |-> 0, path |-> Nothing, shared |-> FALSE]

Records == 1..Len(log)
Live == Records \ pruned
Named == {log[i].path : i \in Records}

ArtifactsInit ==
    /\ log = <<>> /\ pruned = {} /\ done = {}
    /\ disk = [p \in StorePaths |-> Nothing]
    /\ pc = [s \in Sessions |-> "idle"] /\ job = [s \in Sessions |-> NoJob]
    /\ crossed = {} /\ faults = 0

At(s, point) == pc[s] = point
Go(s, point, j) == pc' = [pc EXCEPT ![s] = point] /\ job' = [job EXCEPT ![s] = j]
End(s) == Go(s, "idle", NoJob)
Fault == faults < MaxFaults /\ faults' = faults + 1

\* The sessions that set out to remove the bytes at a path, and those that
\* have adopted them and not recorded it yet.
Pruning(p) == {s \in Sessions : job[s].path = p /\ ~job[s].shared}
Adopting(p) == {s \in Sessions :
    pc[s] \in {"copy", "copying"} /\ p \in {r.path : r \in job[s].put} \ job[s].made}

----------------------------------------------------------------------------
(* Attaching: stageArtifacts and commitStaged                              *)

\* storedIndex, heldBytes: the first live record of a digest, if its bytes
\* are here and whole.
IndexOf(d) == {i \in Live : log[i].digest = d /\ \A j \in Live : log[j].digest = d => i <= j}
Holder(d) == {i \in IndexOf(d) : log[i].home /\ disk[log[i].path] = d}

\* adoptHeld: the path the new record shares.
Adopted(d) == log[CHOOSE i \in Holder(d) : TRUE].path
Record(d, p, u) == [digest |-> d, path |-> p, unit |-> u, home |-> TRUE]

\* A report is on a unit still open; a registration answers to none.
Attach(s) ==
    /\ At(s, "idle")
    /\ \E items \in SUBSET Digests \ {{}}, u \in {NoUnit} \cup (Units \ done) :
          LET held == {d \in items : Holder(d) # {}} IN
          /\ Len(log) + Cardinality(items) <= MaxRecords
          /\ Go(s, "copy", [NoJob EXCEPT !.todo = items \ held, !.unit = u,
                              !.put = {Record(d, Adopted(d), u) : d \in held}])
          /\ crossed' = crossed \cup {p \in {Adopted(d) : d \in held} : Pruning(p) # {}}
    /\ UNCHANGED <<log, pruned, done, disk, faults>>

\* Every target is created, never written over: a name that is taken ends the
\* command, and is not among those its rollback removes.
CopyBegin(s) ==
    /\ At(s, "copy")
    /\ \E d \in job[s].todo, p \in StorePaths \ Named :
          /\ disk[p] = Nothing
          /\ disk' = [disk EXCEPT ![p] = Part]
          /\ Go(s, "copying", [job[s] EXCEPT !.todo = @ \ {d}, !.made = @ \cup {p},
                                 !.put = @ \cup {Record(d, p, job[s].unit)}])
    /\ UNCHANGED <<log, pruned, done, crossed, faults>>
Taken(s) ==
    /\ At(s, "copy") /\ job[s].todo # {} /\ \E p \in StorePaths : disk[p] # Nothing
    /\ Fault /\ Go(s, "undo", job[s])
    /\ UNCHANGED <<log, pruned, done, disk, crossed>>
CopyEnd(s) ==
    /\ At(s, "copying")
    /\ \/ disk' = [p \in StorePaths |-> IF \E r \in job[s].put : r.path = p /\ disk[p] = Part
                                   THEN (CHOOSE r \in job[s].put : r.path = p).digest
                                   ELSE disk[p]]
          /\ Go(s, "copy", job[s]) /\ UNCHANGED faults
       \/ Fault /\ Go(s, "undo", job[s]) /\ UNCHANGED disk
    /\ UNCHANGED <<log, pruned, done, crossed>>

\* The line that makes it true; the writer may refuse it before it appends.
Write(s) ==
    /\ At(s, "copy") /\ job[s].todo = {}
    /\ \/ /\ log' = log \o SetToSeq(job[s].put) /\ Len(log') <= MaxRecords
          /\ Go(s, "fold", job[s]) /\ UNCHANGED faults
       \/ Fault /\ Go(s, "undo", job[s]) /\ UNCHANGED log
    /\ UNCHANGED <<pruned, done, disk, crossed>>

\* The fold and the commit may fail; the bytes the log names stay.
Finish(s) ==
    /\ At(s, "fold")
    /\ \/ End(s) /\ UNCHANGED faults
       \/ Fault /\ Go(s, "undo", job[s])
    /\ UNCHANGED <<log, pruned, done, disk, crossed>>

\* Mutant of Recorded: the rollback does not ask whether the line was written.
RecordedUnasked(s) == FALSE
\* commitStaged: whether this command's line has reached the log.
Recorded(s) == \E i \in Records : log[i] \in job[s].put /\ log[i].path \in job[s].made

\* removeStaged: what this command made, and nothing else.
Discarded(s) == IF Recorded(s) THEN {} ELSE job[s].made
Undo(s) ==
    /\ At(s, "undo") /\ End(s)
    /\ disk' = [p \in StorePaths |-> IF p \in Discarded(s) THEN Nothing ELSE disk[p]]
    /\ UNCHANGED <<log, pruned, done, crossed, faults>>

----------------------------------------------------------------------------
(* Pruning                                                                 *)

\* sourceRefusal.  A design approval or a live entity that leans on the bytes
\* refuses the prune too; without those refusals more is pruned here.
Spare(i) == log[i].unit # NoUnit => log[i].unit \in done

\* Mutant of Sharers: only records of one unit are taken to share bytes.
SharersOfTheUnit(i) == {i} \cup {j \in Live : log[j] = log[i] /\ log[j].home}
\* liveSharers.
Sharers(i) == {i} \cup {j \in Live : log[j].path = log[i].path /\ log[j].home}

\* Judged before a person is asked, and not again after the answer.
Prune(s) ==
    /\ At(s, "idle")
    /\ \E i \in Live :
          /\ Spare(i)
          /\ Go(s, "asked", [NoJob EXCEPT !.record = i, !.path = log[i].path,
                               !.shared = Sharers(i) # {i}])
          /\ crossed' = crossed \cup {p \in {log[i].path} \cap StorePaths :
                                       Sharers(i) = {i} /\ Adopting(p) # {}}
    /\ UNCHANGED <<log, pruned, done, disk, faults>>

\* The write order: append, then remove.
Then == [asked |-> "record", record |-> "remove", remove |-> "idle"]

Answer(s) ==
    /\ At(s, "asked")
    /\ \/ Go(s, Then.asked, job[s])
       \/ End(s)
    /\ UNCHANGED <<log, pruned, done, disk, crossed, faults>>
PruneLine(s) ==
    /\ At(s, "record")
    /\ pruned' = pruned \cup {job[s].record}
    /\ Go(s, Then.record, IF Then.record = "idle" THEN NoJob ELSE job[s])
    /\ UNCHANGED <<log, done, disk, crossed, faults>>

\* removeBytesOf, unless another live record named the bytes; a removal that
\* fails is said and left.
RemoveBytes(s) ==
    /\ At(s, "remove")
    /\ Go(s, Then.remove, IF Then.remove = "idle" THEN NoJob ELSE job[s])
    /\ LET p == job[s].path IN
       \/ job[s].shared /\ UNCHANGED <<disk, faults>>
       \/ /\ ~job[s].shared /\ p \in StorePaths /\ UNCHANGED faults
          /\ disk' = [disk EXCEPT ![p] = Nothing]
       \/ ~job[s].shared /\ Fault /\ UNCHANGED disk
    /\ UNCHANGED <<log, pruned, done, crossed>>

----------------------------------------------------------------------------
(* Deaths, and what else the log says                                      *)

Die(s) ==
    /\ ~At(s, "idle") /\ Fault /\ End(s)
    /\ UNCHANGED <<log, pruned, done, disk, crossed>>

\* work done, and its undo.
Settle ==
    /\ \/ \E u \in Units \ done : done' = done \cup {u}
       \/ \E u \in done : done' = done \ {u}
    /\ UNCHANGED <<log, pruned, disk, pc, job, crossed, faults>>

\* A line of another machine: a record whose bytes are there and not here, or
\* a prune that removed none here.
ArriveRecord ==
    /\ Len(log) < MaxRecords
    /\ \E d \in Digests :
          log' = Append(log, [digest |-> d, path |-> Nothing, unit |-> NoUnit, home |-> FALSE])
    /\ UNCHANGED <<pruned, done, disk, pc, job, crossed, faults>>
ArrivePrune ==
    /\ \E i \in Live : pruned' = pruned \cup {i}
    /\ UNCHANGED <<log, done, disk, pc, job, crossed, faults>>

ArtifactsNext ==
    \/ \E s \in Sessions :
          \/ Attach(s) \/ CopyBegin(s) \/ Taken(s) \/ CopyEnd(s) \/ Write(s) \/ Finish(s)
          \/ Undo(s) \/ Prune(s) \/ Answer(s) \/ PruneLine(s) \/ RemoveBytes(s) \/ Die(s)
    \/ Settle \/ ArriveRecord \/ ArrivePrune

ArtifactsSpec == ArtifactsInit /\ [][ArtifactsNext]_artifactVars

----------------------------------------------------------------------------
(* Properties                                                              *)

\* Every record of this store that was not pruned has its bytes, whole: no
\* rollback, prune of a sharer, collision or death takes them.  Only where a
\* session adopted the bytes while another waited for the answer to its prune
\* may they be gone.
LiveHasItsBytes ==
    \A i \in Live : log[i].home => disk[log[i].path] = log[i].digest \/ log[i].path \in crossed

\* Bytes a record names are missing only where the log says that they were
\* removed, wherever a session died.
RemovalIsAccounted ==
    \A i \in Records : log[i].home =>
       \/ disk[log[i].path] = log[i].digest
       \/ \E j \in pruned : log[j].path = log[i].path
=============================================================================
