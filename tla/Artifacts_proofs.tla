-------------------------- MODULE Artifacts_proofs --------------------------
(***************************************************************************)
(* What becomes of the bytes of a project's artifacts, for any number of   *)
(* sessions, contents, paths, records and faults.                          *)
(***************************************************************************)
EXTENDS Artifacts, FiniteSetTheorems, TLAPS

Points == {"idle", "copy", "copying", "fold", "undo", "asked", "record", "remove"}
Copying == {"copy", "copying"}
Attaching == {"copy", "copying", "fold", "undo"}
Asking == {"asked", "record", "remove"}
Rec == [digest : Digests, path : StorePaths \cup {Nothing}, unit : Units \cup {NoUnit},
        home : BOOLEAN]
Jobs == [todo : SUBSET Digests, put : SUBSET Rec, made : SUBSET StorePaths,
         unit : Units \cup {NoUnit}, record : Nat, path : StorePaths \cup {Nothing},
         shared : BOOLEAN]

TypeOK ==
    /\ log \in Seq(Rec) /\ pruned \subseteq Records /\ done \subseteq Units
    /\ disk \in [StorePaths -> Digests \cup {Nothing, Part}]
    /\ pc \in [Sessions -> Points] /\ job \in [Sessions -> Jobs] /\ crossed \subseteq StorePaths

PathsOf(P) == {r.path : r \in P}

(* A record's bytes are there, or a prune line says that they were removed; *)
(* and they were not removed while the record stands, but at a crossed path.*)
Held(r) ==
    \/ disk[r.path] = r.digest
    \/ disk[r.path] = Nothing /\ \E j \in pruned : log[j].path = r.path
Spared(r) == disk[r.path] = r.digest \/ r.path \in crossed

RecordOK(i) ==
    /\ log[i].home <=> log[i].path \in StorePaths
    /\ log[i].home => Held(log[i]) /\ (i \notin pruned => Spared(log[i]))

(* Who attaches has a record to put for each path it made, and one only.    *)
Makes(j) ==
    /\ \A r \in j.put : r.home /\ r.path \in StorePaths
    /\ j.made \subseteq PathsOf(j.put)
    /\ \A q, r \in j.put : q.path = r.path /\ q.path \in j.made => q = r
    /\ IsFiniteSet(j.put) /\ j.path = Nothing

Written(j) == \A r \in j.put : \E i \in Records : log[i] = r

(* Before its line is written no record names what it made, and the bytes   *)
(* it adopted are a record's.                                               *)
Unwritten(x, j) ==
    /\ \A p \in j.made : p \notin Named
    /\ \A r \in j.put : r.path \in j.made =>
          disk[r.path] = r.digest \/ (x = "copying" /\ disk[r.path] = Part)
    /\ \A r \in j.put : r.path \notin j.made => r.path \in Named /\ Held(r) /\ Spared(r)

(* Who undoes has written its line, or leaves nothing that a record names.  *)
Undoable(j) ==
    \/ Written(j)
    \/ \A p \in j.made : p \notin Named /\ disk[p] # Nothing

(* Who prunes without a sharer is of the only record of its path.           *)
Prunes(j) ==
    /\ j.put = {} /\ j.made = {} /\ j.record \in Records /\ j.path = log[j.record].path
    /\ j.path \in StorePaths /\ j.path \notin crossed /\ ~j.shared =>
          \A i \in Live : log[i].path = j.path => i = j.record

Fits(x, j) ==
    /\ x = "idle" => j = NoJob
    /\ x \in Attaching => Makes(j)
    /\ x \in Copying => Unwritten(x, j)
    /\ x = "fold" => Written(j)
    /\ x = "undo" => Undoable(j)
    /\ x \in Asking => Prunes(j)
    /\ x = "remove" => j.record \in pruned

(* No two sessions make one path, and bytes adopted beside a prune of them  *)
(* are at a crossed path.                                                   *)
Crosses(j, x, k, C) ==
    ~j.shared /\ x \in Copying /\ j.path \in PathsOf(k.put) => j.path \in C
Apart ==
    \A s, q \in Sessions : s # q =>
        job[s].made \cap job[q].made = {} /\ Crosses(job[s], pc[q], job[q], crossed)

IInv ==
    /\ TypeOK /\ (\A i \in Records : RecordOK(i))
    /\ (\A s \in Sessions : Fits(pc[s], job[s])) /\ Apart

(* The sequence of a finite set has its members and no other.               *)
LEMMA AsSequence ==
    ASSUME NEW S, IsFiniteSet(S)
    PROVE  SetToSeq(S) \in Seq(S) /\ \A x \in S : \E i \in 1..Len(SetToSeq(S)) : SetToSeq(S)[i] = x
  <1> DEFINE n == Cardinality(S)
             q == SetToSeq(S)
  <1>1. n \in Nat /\ ExistsBijection(1..n, S) BY FS_CardinalityType
  <1>2. PICK f \in Bijection(1..n, S) : TRUE BY <1>1 DEF ExistsBijection
  <1>3. f \in [1..n -> S] /\ IsInjective(f)
    BY <1>2 DEF Bijection, Injection
  <1>4. q \in [1..n -> S] /\ IsInjective(q)
    BY <1>3 DEF SetToSeq
  <1>5. IsFiniteSet(1..n) /\ Cardinality(1..n) = n BY <1>1, FS_Interval
  <1>6. q \in Injection(1..n, S) BY <1>4 DEF Injection
  <1> HIDE DEF q
  <1>7. q \in Surjection(1..n, S) BY <1>5, <1>6, FS_Injection
  <1>8. \A x \in S : \E i \in 1..n : q[i] = x BY <1>7 DEF Surjection
  <1>9. q \in Seq(S) /\ Len(q) = n BY <1>1, <1>4
  <1> QED BY <1>8, <1>9 DEF q

(* The store goes on: the log and the prunes grow, crossings stay, and what *)
(* a record may count on still holds.                                       *)
Later ==
    /\ Records \subseteq Records' /\ \A i \in Records : log'[i] = log[i]
    /\ pruned \subseteq pruned' /\ crossed \subseteq crossed'
    /\ \A r \in Rec : r.path \in StorePaths \cap Named /\ Held(r) => Held(r)'
    /\ \A i \in Records \ pruned' : log[i].path \in StorePaths /\ Spared(log[i]) => Spared(log[i])'

(* A step of others leaves alone what a session made and has not recorded,  *)
(* takes none of the bytes it adopted but at a crossed path, and records    *)
(* nothing at a path that it prunes as the only one.                        *)
LeftAlone(x, j) ==
    /\ \A p \in j.made \ Named : disk'[p] = disk[p] /\ p \notin Named'
    /\ x \in Copying =>
          \A r \in j.put : r.path \in StorePaths \ j.made /\ Spared(r) => Spared(r)'
    /\ j.path \in StorePaths /\ j.path \notin crossed' /\ ~j.shared =>
          \A i \in Records' \ Records : log'[i].path # j.path

(* A name once recorded stays one.                                          *)
LEMMA NamedGrows == ASSUME Later PROVE Named \subseteq Named'
  BY DEF Later, Named

(* Then a session that takes no part in the step still fits.                *)
LEMMA OthersFit ==
    ASSUME TypeOK, Later, NEW x \in Points, NEW j \in Jobs, Fits(x, j), LeftAlone(x, j)
    PROVE  Fits(x, j)'
  <1>1. \A r \in j.put : r \in Rec BY DEF Jobs
  <1>2. Makes(j)' <=> Makes(j) BY DEF Makes
  <1>3. Written(j) => Written(j)' BY DEF Written, Later
  <1>4. x \in Copying => Unwritten(x, j)'
    <2> SUFFICES ASSUME x \in Copying PROVE Unwritten(x, j)' OBVIOUS
    <2>0. Unwritten(x, j) /\ \A r \in j.put : r.path \in StorePaths
      BY DEF Fits, Makes, Copying, Attaching
    <2>1. \A p \in j.made : p \notin Named' /\ disk'[p] = disk[p]
      BY <2>0 DEF Unwritten, LeftAlone
    <2>2. \A r \in j.put : r.path \notin j.made => r.path \in Named' /\ Held(r)' /\ Spared(r)'
      BY <1>1, <2>0, NamedGrows DEF Unwritten, Later, LeftAlone
    <2> QED BY <2>0, <2>1, <2>2 DEF Unwritten
  <1>5. Undoable(j) => Undoable(j)' BY <1>3 DEF Undoable, LeftAlone
  <1>6. Prunes(j) => Prunes(j)'
    <2> SUFFICES ASSUME Prunes(j) PROVE Prunes(j)' OBVIOUS
    <2>1. j.record \in Records' /\ j.path = log'[j.record].path BY DEF Prunes, Later
    <2>2. ASSUME j.path \in StorePaths, j.path \notin crossed', ~j.shared, NEW i \in Live',
                 log'[i].path = j.path
          PROVE  i = j.record
      <3>1. i \in Records BY <2>2 DEF LeftAlone, Live
      <3>2. i \in Live /\ log[i].path = j.path BY <2>2, <3>1 DEF Later, Live
      <3> QED BY <2>2, <3>2 DEF Prunes, Later
    <2> QED BY <2>1, <2>2 DEF Prunes
  <1>7. j.record \in pruned => j.record \in pruned' BY DEF Later
  <1> QED BY <1>2, <1>3, <1>4, <1>5, <1>6, <1>7 DEF Fits

(* Whether a session fits depends on nothing but where it is and its job.   *)
LEMMA FitsThere ==
    ASSUME NEW q \in Sessions, NEW x \in Points, NEW j \in Jobs,
           pc'[q] = x, job'[q] = j, Fits(x, j)'
    PROVE  Fits(pc[q], job[q])'
  BY DEF Fits, Makes, Written, Unwritten, Undoable, Prunes

(* A step of the sessions in M, one of them or none, keeps the invariant if *)
(* they fit where they get and what it records is held.                     *)
LEMMA StepKeeps ==
    ASSUME IInv, TypeOK', Later, NEW M \in SUBSET Sessions,
           \A q \in Sessions \ M : pc'[q] = pc[q] /\ job'[q] = job[q] /\ LeftAlone(pc[q], job[q]),
           \A s \in M : Fits(pc[s], job[s])',
           \A i \in Records' \ Records : RecordOK(i)', Apart'
    PROVE  IInv'
  <1>1. ASSUME NEW i \in Records PROVE RecordOK(i)'
    <2>1. log[i] \in Rec /\ log'[i] = log[i] /\ log[i].path \in Named
      BY DEF IInv, TypeOK, Later, Named, Records
    <2>2. RecordOK(i) BY DEF IInv
    <2>3. i \notin pruned' => i \notin pruned BY DEF Later
    <2>4. log[i].home /\ Held(log[i]) => Held(log[i])'
      BY <2>1, <2>2 DEF Later, Held, RecordOK
    <2>5. log[i].home /\ i \notin pruned' /\ Spared(log[i]) => Spared(log[i])'
      BY <2>2 DEF Later, RecordOK
    <2> QED BY <2>1, <2>2, <2>3, <2>4, <2>5 DEF RecordOK
  <1>2. ASSUME NEW q \in Sessions \ M PROVE Fits(pc[q], job[q])'
    <2>1. Fits(pc[q], job[q]) /\ pc[q] \in Points /\ job[q] \in Jobs /\ TypeOK
      BY DEF IInv, TypeOK
    <2>2. PICK x \in Points, j \in Jobs : x = pc[q] /\ j = job[q] BY <2>1
    <2>3. Fits(x, j) /\ LeftAlone(x, j) BY <2>1, <2>2
    <2>4. Fits(x, j)' BY <2>1, <2>3, OthersFit
    <2> QED BY <2>2, <2>4, FitsThere
  <1>3. \A s \in Sessions : Fits(pc[s], job[s])' BY <1>2
  <1> QED BY <1>1, <1>3 DEF IInv

(* Where only crossings are added every record and session is as it was.    *)
LEMMA StandingStill ==
    ASSUME UNCHANGED <<log, pruned, disk>>, crossed \subseteq crossed'
    PROVE  Later /\ Records' = Records /\ \A x \in Points, j \in Jobs : LeftAlone(x, j)
  BY DEF Later, LeftAlone, Records, Held, Spared, Named

(* One session moves.                                                       *)
LEMMA Goes ==
    ASSUME TypeOK, NEW s \in Sessions, NEW x \in Points, NEW j \in Jobs, Go(s, x, j)
    PROVE  /\ pc' \in [Sessions -> Points] /\ job' \in [Sessions -> Jobs]
           /\ pc'[s] = x /\ job'[s] = j
           /\ \A q \in Sessions \ {s} : pc'[q] = pc[q] /\ job'[q] = job[q]
  BY DEF TypeOK, Go

(* Sessions stay apart where the one that moves is apart from the others.   *)
LEMMA ApartThere ==
    ASSUME IInv, NEW s \in Sessions, NEW x \in Points, NEW j \in Jobs, Go(s, x, j),
           crossed \subseteq crossed',
           \A q \in Sessions \ {s} :
              /\ j.made \cap job[q].made = {}
              /\ Crosses(j, pc[q], job[q], crossed') /\ Crosses(job[q], x, j, crossed')
    PROVE  Apart'
  <1>1. /\ pc'[s] = x /\ job'[s] = j
        /\ \A q \in Sessions \ {s} : pc'[q] = pc[q] /\ job'[q] = job[q]
    BY Goes DEF IInv
  <1>2. SUFFICES ASSUME NEW a \in Sessions, NEW b \in Sessions, a # b
                 PROVE  /\ job'[a].made \cap job'[b].made = {}
                        /\ Crosses(job'[a], pc'[b], job'[b], crossed')
    BY DEF Apart, Crosses
  <1>3. CASE a # s /\ b # s
    BY <1>1, <1>2, <1>3 DEF IInv, Apart, Crosses
  <1>4. CASE a = s BY <1>1, <1>2, <1>4
  <1>5. CASE b = s BY <1>1, <1>2, <1>5
  <1> QED BY <1>3, <1>4, <1>5

(* As it does where it makes, adopts and prunes no path it did not before.  *)
LEMMA SmallStep ==
    ASSUME IInv, TypeOK', Later, NEW s \in Sessions, NEW x \in Points, NEW j \in Jobs,
           Go(s, x, j), \A q \in Sessions \ {s} : LeftAlone(pc[q], job[q]),
           Fits(x, j)', \A i \in Records' \ Records : RecordOK(i)',
           j.made \subseteq job[s].made, j.put = {} \/ j.put = job[s].put,
           j.path = Nothing \/ (j.path = job[s].path /\ j.shared = job[s].shared),
           x \notin Copying \/ pc[s] \in Copying
    PROVE  IInv'
  <1>1. /\ pc'[s] = x /\ job'[s] = j
        /\ \A q \in Sessions \ {s} : pc'[q] = pc[q] /\ job'[q] = job[q]
    BY Goes DEF IInv
  <1>2. ASSUME NEW q \in Sessions \ {s}
        PROVE  /\ j.made \cap job[q].made = {}
               /\ Crosses(j, pc[q], job[q], crossed') /\ Crosses(job[q], x, j, crossed')
    <2>1. /\ job[s].made \cap job[q].made = {}
          /\ Crosses(job[s], pc[q], job[q], crossed) /\ Crosses(job[q], pc[s], job[s], crossed)
      BY DEF IInv, Apart
    <2>2. pc[q] \in Copying => Nothing \notin PathsOf(job[q].put)
      BY ArtifactsAssumption DEF IInv, Fits, Makes, PathsOf, Copying, Attaching
    <2>3. PathsOf(j.put) \subseteq PathsOf(job[s].put) BY DEF PathsOf
    <2> QED BY <2>1, <2>2, <2>3 DEF Crosses, Later
  <1>3. Apart' BY <1>2, ApartThere DEF Later
  <1>4. Fits(pc[s], job[s])' BY <1>1, FitsThere
  <1>5. /\ {s} \in SUBSET Sessions /\ \A q \in {s} : Fits(pc[q], job[q])'
        /\ \A q \in Sessions \ {s} :
              pc'[q] = pc[q] /\ job'[q] = job[q] /\ LeftAlone(pc[q], job[q])
    BY <1>1, <1>4
  <1> QED BY <1>3, <1>5, StepKeeps

(* A command that has ended fits,                                           *)
LEMMA EndFits == NoJob \in Jobs /\ "idle" \in Points /\ Fits("idle", NoJob)'
  BY DEF Jobs, NoJob, Points, Fits, Attaching, Copying, Asking

(* A step that changes nothing but where a session is, or ends its command. *)
LEMMA MoveKeeps ==
    ASSUME IInv, UNCHANGED <<log, pruned, done, disk, crossed>>,
           NEW s \in Sessions, NEW x \in Points, NEW j \in Jobs, Go(s, x, j),
           j = NoJob \/ j = job[s], Fits(x, j), x \notin Copying \/ pc[s] \in Copying
    PROVE  IInv'
  <1>1. TypeOK' BY Goes DEF IInv, TypeOK, Records
  <1>2. Later /\ Records' = Records /\ \A q \in Sessions : LeftAlone(pc[q], job[q])
    BY StandingStill DEF IInv, TypeOK
  <1>3. LeftAlone(x, j) BY StandingStill
  <1>4. Fits(x, j)' BY <1>2, <1>3, OthersFit DEF IInv
  <1> QED BY <1>1, <1>2, <1>4, SmallStep DEF NoJob

(* The end of a command, by itself or by a kill.                            *)
LEMMA EndKeeps ==
    ASSUME IInv, UNCHANGED <<log, pruned, done, disk, crossed>>, NEW s \in Sessions, End(s)
    PROVE  IInv'
  <1>1. Fits("idle", NoJob) BY DEF Fits, Attaching, Copying, Asking
  <1> QED BY <1>1, EndFits, MoveKeeps DEF End, Copying

(* What a session made and has not recorded is there.                       *)
LEMMA Occupied ==
    ASSUME IInv, NEW s \in Sessions, NEW p \in job[s].made
    PROVE  p \in Named \/ disk[p] # Nothing
  <1>1. Fits(pc[s], job[s]) /\ pc[s] \in Points /\ job[s] \in Jobs /\ TypeOK
    BY DEF IInv, TypeOK
  <1>2. pc[s] \in Attaching
    BY <1>1 DEF Fits, Prunes, NoJob, Points, Attaching, Asking
  <1>3. PICK r \in job[s].put : r.path = p /\ r \in Rec
    BY <1>1, <1>2 DEF Fits, Makes, PathsOf, Jobs
  <1>4. Written(job[s]) => p \in Named BY <1>3 DEF Written, Named
  <1>5. pc[s] \in Copying => disk[p] # Nothing
    BY <1>1, <1>3, ArtifactsAssumption DEF Fits, Unwritten, Rec, Nothing, Part
  <1> QED BY <1>1, <1>2, <1>4, <1>5 DEF Fits, Undoable, Attaching, Copying

(* Bytes change at paths that no record names and no other session made.    *)
LEMMA DiskStep ==
    ASSUME IInv, UNCHANGED <<log, pruned, crossed>>, NEW s \in Sessions, NEW D \in SUBSET StorePaths,
           \A p \in StorePaths \ D : disk'[p] = disk[p], D \cap Named = {},
           \A q \in Sessions \ {s} : D \cap job[q].made = {}
    PROVE  Later /\ Records' = Records /\ \A q \in Sessions \ {s} : LeftAlone(pc[q], job[q])
  <1>1. \A p \in StorePaths \cap Named : disk'[p] = disk[p] OBVIOUS
  <1>2. Records' = Records /\ Named' = Named BY DEF Records, Named
  <1>3. Later
    <2>1. \A i \in Records : log[i].path \in Named BY DEF Named
    <2> QED BY <1>1, <1>2, <2>1 DEF Later, Held, Spared
  <1>4. ASSUME NEW q \in Sessions \ {s} PROVE LeftAlone(pc[q], job[q])
    <2>1. job[q].made \subseteq StorePaths BY DEF IInv, TypeOK, Jobs
    <2>2. pc[q] \in Copying => \A r \in job[q].put : r.path \notin job[q].made => r.path \in Named
      BY DEF IInv, Fits, Unwritten
    <2> QED BY <1>1, <1>2, <2>1, <2>2 DEF LeftAlone, Spared
  <1> QED BY <1>2, <1>3, <1>4

(* Every step keeps the invariant: one step of the proof per action.        *)
LEMMA StepIInv == IInv /\ [ArtifactsNext]_artifactVars => IInv'
<1> SUFFICES ASSUME IInv, [ArtifactsNext]_artifactVars PROVE IInv' OBVIOUS
<1> USE ArtifactsAssumption
<1>a. TypeOK BY DEF IInv
<1>b. ASSUME NEW s \in Sessions
      PROVE  pc[s] \in Points /\ job[s] \in Jobs /\ Fits(pc[s], job[s])
  BY DEF IInv, TypeOK
<1>1. ASSUME NEW s \in Sessions, Attach(s) PROVE IInv'
  <2>1. PICK items \in SUBSET Digests \ {{}}, u \in {NoUnit} \cup (Units \ done) :
          LET held == {d \in items : Holder(d) # {}} IN
          /\ Go(s, "copy", [NoJob EXCEPT !.todo = items \ held, !.unit = u,
                              !.put = {Record(d, Adopted(d), u) : d \in held}])
          /\ crossed' = crossed \cup {p \in {Adopted(d) : d \in held} : Pruning(p) # {}}
    BY <1>1 DEF Attach
  <2> DEFINE held == {d \in items : Holder(d) # {}}
             put == {Record(d, Adopted(d), u) : d \in held}
             k == [NoJob EXCEPT !.todo = items \ held, !.unit = u, !.put = put]
  <2>2. UNCHANGED <<log, pruned, done, disk>> /\ crossed \subseteq crossed'
    BY <1>1, <2>1 DEF Attach
  <2>3. ASSUME NEW d \in held
        PROVE  Adopted(d) \in StorePaths \cap Named /\ disk[Adopted(d)] = d
    <3>1. (CHOOSE i \in Holder(d) : TRUE) \in Holder(d) OBVIOUS
    <3>2. PICK i \in Records : Adopted(d) = log[i].path /\ log[i].home /\ disk[log[i].path] = d
      BY <3>1 DEF Adopted, Holder, IndexOf, Live
    <3> QED BY <3>2 DEF IInv, RecordOK, Named
  <2>4. held \subseteq Digests /\ u \in Units \cup {NoUnit} BY <1>a DEF TypeOK
  <2>5. \A r \in put : /\ r \in Rec /\ r.home /\ r.path \in StorePaths \cap Named
                       /\ disk[r.path] = r.digest /\ \E d \in held : r.path = Adopted(d)
    <3>1. ASSUME NEW d \in held
          PROVE  LET r == Record(d, Adopted(d), u) IN
                 /\ r \in Rec /\ r.home /\ r.path = Adopted(d) /\ r.digest = d
      <4>1. d \in Digests /\ Adopted(d) \in StorePaths BY <2>3, <2>4
      <4> QED BY <2>4, <4>1 DEF Record, Rec
    <3> QED BY <2>3, <3>1
  <2>6. IsFiniteSet(put)
    <3> DEFINE f == [d \in held |-> Record(d, Adopted(d), u)]
    <3>1. IsFiniteSet(held) BY <2>4, FS_Subset
    <3>2. f \in Surjection(held, put) BY DEF Surjection
    <3> HIDE DEF f, held, put
    <3> QED BY <3>1, <3>2, FS_Surjection
  <2>7. k \in Jobs /\ k.put = put /\ k.made = {} /\ k.path = Nothing /\ "copy" \in Points
    BY <2>4, <2>5 DEF NoJob, Jobs, Points
  <2>8. \A p \in {Adopted(d) : d \in held} : Pruning(p) # {} => p \in crossed'
    BY <2>1
  <2>9. crossed' \subseteq StorePaths BY <1>a, <2>1, <2>3 DEF TypeOK
  <2>10. Go(s, "copy", k) BY <2>1
  <2> HIDE DEF k, put
  <2>11. PICK j \in Jobs : j = k BY <2>7
  <2>12. Later /\ Records' = Records /\ \A q \in Sessions : LeftAlone(pc[q], job[q])
    BY <1>b, <2>2, StandingStill
  <2>13. TypeOK' BY <1>a, <2>2, <2>7, <2>9, <2>10, <2>12, Goes DEF TypeOK
  <2>14. Fits("copy", j)'
    <3>1. Makes(j)' BY <2>5, <2>6, <2>7, <2>11 DEF Makes
    <3>2. Named' = Named BY <2>2, <2>12 DEF Named
    <3>3. Unwritten("copy", j)'
      BY <2>2, <2>5, <2>7, <2>11, <3>2 DEF Unwritten, Held, Spared
    <3> QED BY <3>1, <3>3 DEF Fits, Attaching, Copying, Asking
  <2>15. ASSUME NEW q \in Sessions \ {s}
         PROVE  /\ j.made \cap job[q].made = {}
                /\ Crosses(j, pc[q], job[q], crossed') /\ Crosses(job[q], "copy", j, crossed')
    <3>1. pc[q] \in Copying => Nothing \notin PathsOf(job[q].put)
      BY <1>b DEF Fits, Makes, PathsOf, Copying, Attaching
    <3>2. Crosses(j, pc[q], job[q], crossed') BY <2>7, <2>11, <3>1 DEF Crosses
    <3>3. Crosses(job[q], "copy", j, crossed')
      <4> SUFFICES ASSUME ~job[q].shared, job[q].path \in PathsOf(put)
                   PROVE  job[q].path \in crossed'
        BY <2>7, <2>11 DEF Crosses
      <4>1. q \in Pruning(job[q].path) BY DEF Pruning
      <4>2. job[q].path \in {Adopted(d) : d \in held} BY <2>5 DEF PathsOf
      <4> QED BY <2>8, <4>1, <4>2
    <3> QED BY <2>7, <2>11, <3>2, <3>3
  <2>16. Apart' BY <2>2, <2>7, <2>10, <2>11, <2>15, ApartThere
  <2>17. /\ Fits(pc[s], job[s])'
         /\ \A q \in Sessions \ {s} : pc'[q] = pc[q] /\ job'[q] = job[q]
    BY <1>a, <2>7, <2>10, <2>11, <2>14, Goes, FitsThere
  <2>18. {s} \in SUBSET Sessions OBVIOUS
  <2> QED BY <2>12, <2>13, <2>16, <2>17, <2>18, StepKeeps
<1>2. ASSUME NEW s \in Sessions, CopyBegin(s) PROVE IInv'
  <2>1. PICK d \in job[s].todo, p \in StorePaths \ Named :
          /\ disk[p] = Nothing /\ disk' = [disk EXCEPT ![p] = Part]
          /\ Go(s, "copying", [job[s] EXCEPT !.todo = @ \ {d}, !.made = @ \cup {p},
                                 !.put = @ \cup {Record(d, p, job[s].unit)}])
    BY <1>2 DEF CopyBegin
  <2> DEFINE R == Record(d, p, job[s].unit)
             k == [job[s] EXCEPT !.todo = @ \ {d}, !.made = @ \cup {p}, !.put = @ \cup {R}]
  <2>2. /\ pc[s] = "copy" /\ UNCHANGED <<log, pruned, done, crossed>>
        /\ Makes(job[s]) /\ Unwritten("copy", job[s])
    BY <1>2, <1>b DEF CopyBegin, At, Fits, Attaching, Copying
  <2>3. R \in Rec /\ R.path = p /\ R.home /\ R.digest = d
    BY <1>b, <2>1 DEF Record, Rec, Jobs
  <2> HIDE DEF R
  <2>4. /\ k \in Jobs /\ k.put = job[s].put \cup {R} /\ k.made = job[s].made \cup {p}
        /\ k.path = Nothing /\ "copying" \in Points
    <3>1. job[s] \in Jobs /\ job[s].path = Nothing BY <1>b, <2>2 DEF Makes
    <3>2. k.put = job[s].put \cup {R} /\ k.made = job[s].made \cup {p} /\ k.path = Nothing
      BY <3>1 DEF Jobs
    <3>3. k \in Jobs BY <2>3, <3>1 DEF Jobs
    <3> QED BY <3>2, <3>3 DEF Points
  <2>5. Go(s, "copying", k) BY <2>1 DEF R
  <2> HIDE DEF k
  <2>6. PICK j \in Jobs : j = k BY <2>4
  <2>7. \A q \in Sessions : p \notin job[q].made BY <2>1, Occupied
  <2>8. \A r \in job[s].put : r.path # p /\ r.path \in StorePaths
    BY <2>1, <2>2, <2>7 DEF Unwritten, Makes
  <2>9. disk'[p] = Part /\ \A o \in StorePaths \ {p} : disk'[o] = disk[o]
    BY <1>a, <2>1 DEF TypeOK
  <2>10. Later /\ Records' = Records /\ \A q \in Sessions \ {s} : LeftAlone(pc[q], job[q])
    <3>1. {p} \in SUBSET StorePaths /\ {p} \cap Named = {} BY <2>1
    <3>2. \A q \in Sessions \ {s} : {p} \cap job[q].made = {} BY <2>7
    <3> QED BY <2>2, <2>9, <3>1, <3>2, DiskStep
  <2>11. TypeOK' BY <1>a, <2>1, <2>2, <2>4, <2>5, <2>10, Goes DEF TypeOK
  <2>12. Fits("copying", j)'
    <3>1. Makes(j)
      <4>0. IsFiniteSet(job[s].put) BY <2>2 DEF Makes
      <4>1. IsFiniteSet(j.put) BY <2>4, <2>6, <4>0, FS_AddElement
      <4>2. j.made \subseteq PathsOf(j.put) BY <2>2, <2>3, <2>4, <2>6 DEF Makes, PathsOf
      <4>3. \A a, b \in j.put : a.path = b.path /\ a.path \in j.made => a = b
        BY <2>2, <2>3, <2>4, <2>6, <2>8 DEF Makes
      <4> QED BY <2>1, <2>2, <2>3, <2>4, <2>6, <4>1, <4>2, <4>3 DEF Makes
    <3>2. Named' = Named BY <2>2, <2>10 DEF Named
    <3>3. \A r \in j.put : r.path \in j.made =>
             disk'[r.path] = r.digest \/ disk'[r.path] = Part
      BY <2>2, <2>3, <2>4, <2>6, <2>8, <2>9 DEF Unwritten
    <3>4. \A r \in j.put : r.path \notin j.made =>
             r.path \in Named' /\ Held(r)' /\ Spared(r)'
      BY <2>2, <2>3, <2>4, <2>6, <2>8, <2>9, <3>2 DEF Unwritten, Held, Spared
    <3>5. \A o \in j.made : o \notin Named' BY <2>1, <2>2, <2>4, <2>6, <3>2 DEF Unwritten
    <3>6. Unwritten("copying", j)' BY <3>3, <3>4, <3>5 DEF Unwritten
    <3>7. Makes(j)' BY <3>1 DEF Makes
    <3> QED BY <3>6, <3>7 DEF Fits, Attaching, Copying, Asking
  <2>13. ASSUME NEW q \in Sessions \ {s}
         PROVE  /\ j.made \cap job[q].made = {}
                /\ Crosses(j, pc[q], job[q], crossed') /\ Crosses(job[q], "copying", j, crossed')
    <3>1. pc[q] \in Copying => Nothing \notin PathsOf(job[q].put)
      BY <1>b DEF Fits, Makes, PathsOf, Copying, Attaching
    <3>2. Crosses(j, pc[q], job[q], crossed') BY <2>4, <2>6, <3>1 DEF Crosses
    <3>3. /\ job[s].made \cap job[q].made = {}
          /\ Crosses(job[q], "copy", job[s], crossed)
      BY <2>2 DEF IInv, Apart
    <3>4. job[q].path # p
      <4>1. pc[q] \in Asking => job[q].path \in Named
        BY <1>b DEF Fits, Prunes, Named
      <4>2. pc[q] \notin Asking => job[q].path = Nothing
        BY <1>b DEF Fits, Makes, NoJob, Points, Attaching, Asking
      <4> QED BY <2>1, <4>1, <4>2
    <3>5. Crosses(job[q], "copying", j, crossed')
      BY <2>2, <2>3, <2>4, <2>6, <3>3, <3>4 DEF Crosses, PathsOf, Copying
    <3> QED BY <2>4, <2>6, <2>7, <3>2, <3>3, <3>5
  <2>14. Apart' BY <2>2, <2>4, <2>5, <2>6, <2>13, ApartThere
  <2>15. /\ Fits(pc[s], job[s])'
         /\ \A q \in Sessions \ {s} : pc'[q] = pc[q] /\ job'[q] = job[q]
    BY <1>a, <2>4, <2>5, <2>6, <2>12, Goes, FitsThere
  <2>16. {s} \in SUBSET Sessions OBVIOUS
  <2> QED BY <2>10, <2>11, <2>14, <2>15, <2>16, StepKeeps
<1>3. ASSUME NEW s \in Sessions, Taken(s) PROVE IInv'
  <2>1. /\ Go(s, "undo", job[s]) /\ UNCHANGED <<log, pruned, done, disk, crossed>>
        /\ pc[s] = "copy"
    BY <1>3 DEF Taken, At
  <2>2. Makes(job[s]) /\ Unwritten("copy", job[s])
    BY <1>b, <2>1 DEF Fits, Attaching, Copying
  <2>3. Undoable(job[s]) BY <2>2, Occupied DEF Undoable, Unwritten
  <2>4. Fits("undo", job[s]) /\ "undo" \in Points
    BY <2>2, <2>3 DEF Fits, Attaching, Copying, Asking, Points
  <2> QED BY <1>b, <2>1, <2>4, MoveKeeps DEF Copying
<1>4. ASSUME NEW s \in Sessions, CopyEnd(s) PROVE IInv'
  <2>1. /\ pc[s] = "copying" /\ UNCHANGED <<log, pruned, done, crossed>>
        /\ Makes(job[s]) /\ Unwritten("copying", job[s])
    BY <1>4, <1>b DEF CopyEnd, At, Fits, Attaching, Copying
  <2>2. CASE /\ disk' = [p \in StorePaths |-> IF \E r \in job[s].put : r.path = p /\ disk[p] = Part
                            THEN (CHOOSE r \in job[s].put : r.path = p).digest ELSE disk[p]]
             /\ Go(s, "copy", job[s])
    <3> DEFINE D == job[s].made
    <3>1. \A r \in job[s].put : r \in Rec /\ r.path \in StorePaths BY <1>b, <2>1 DEF Jobs, Makes
    <3>2. \A r \in job[s].put : disk[r.path] = Part => r.path \in D
      BY <2>1, <3>1 DEF Unwritten, Held, Rec, Nothing, Part
    <3>3. \A r \in job[s].put : r.path \in D => disk'[r.path] = r.digest
      BY <2>1, <2>2, <3>1 DEF Makes, Unwritten
    <3>4. \A p \in StorePaths \ D : disk'[p] = disk[p] BY <2>2, <3>2
    <3>5. D \cap Named = {} /\ D \in SUBSET StorePaths BY <1>b, <2>1 DEF Unwritten, Jobs
    <3>6. \A q \in Sessions \ {s} : D \cap job[q].made = {} BY DEF IInv, Apart
    <3>7. Later /\ Records' = Records /\ \A q \in Sessions \ {s} : LeftAlone(pc[q], job[q])
      BY <2>1, <3>4, <3>5, <3>6, DiskStep
    <3>8. TypeOK'
      <4>1. \A p \in StorePaths : disk'[p] \in Digests \cup {Nothing, Part}
        BY <1>a, <3>1, <3>3, <3>4, <2>1 DEF TypeOK, Makes, PathsOf, Rec
      <4>2. "copy" \in Points BY DEF Points
      <4> QED BY <1>a, <1>b, <2>1, <2>2, <4>1, <4>2, Goes DEF TypeOK, Records
    <3>9. PICK j \in Jobs : j = job[s] BY <1>b
    <3>10. Fits("copy", j)'
      <4>1. Makes(j)' BY <2>1, <3>9 DEF Makes
      <4>2. \A r \in j.put : r.path \notin j.made =>
                r.path \in Named' /\ Held(r)' /\ Spared(r)'
        BY <2>1, <3>1, <3>4, <3>9 DEF Unwritten, Held, Spared, Named, Records
      <4>3. \A p \in j.made : p \notin Named'
        BY <2>1, <3>9 DEF Unwritten, Named, Records
      <4>4. Unwritten("copy", j)' BY <3>3, <3>9, <4>2, <4>3 DEF Unwritten
      <4> QED BY <4>1, <4>4 DEF Fits, Attaching, Copying, Asking
    <3> QED BY <2>1, <2>2, <3>7, <3>8, <3>9, <3>10, SmallStep DEF Copying, Points
  <2>3. CASE Go(s, "undo", job[s]) /\ UNCHANGED disk
    <3>1. Undoable(job[s]) BY <2>1, Occupied DEF Undoable, Unwritten
    <3>2. Fits("undo", job[s]) /\ "undo" \in Points
      BY <2>1, <3>1 DEF Fits, Attaching, Copying, Asking, Points
    <3> QED BY <1>b, <2>1, <2>3, <3>2, MoveKeeps DEF Copying
  <2> QED BY <1>4, <2>2, <2>3 DEF CopyEnd
<1>5. ASSUME NEW s \in Sessions, Write(s) PROVE IInv'
  <2>1. /\ pc[s] = "copy" /\ UNCHANGED <<pruned, done, disk, crossed>>
        /\ Makes(job[s]) /\ Unwritten("copy", job[s])
    BY <1>5, <1>b DEF Write, At, Fits, Attaching, Copying
  <2>2. CASE log' = log \o SetToSeq(job[s].put) /\ Go(s, "fold", job[s])
    <3> DEFINE more == SetToSeq(job[s].put)
    <3>1. /\ more \in Seq(job[s].put)
          /\ \A r \in job[s].put : \E i \in 1..Len(more) : more[i] = r
      BY <2>1, AsSequence DEF Makes
    <3> HIDE DEF more
    <3>2. \A r \in job[s].put : r \in Rec /\ r.path \in StorePaths /\ r.home
      BY <1>b, <2>1 DEF Jobs, Makes
    <3>3. /\ log' \in Seq(Rec) /\ Records \subseteq Records'
          /\ \A i \in Records : log'[i] = log[i]
          /\ \A i \in Records' \ Records : log'[i] \in job[s].put
          /\ \A r \in job[s].put : \E i \in Records' : log'[i] = r
      <4>1. log \in Seq(Rec) /\ Len(log) \in Nat BY <1>a DEF TypeOK
      <4>2. more \in Seq(Rec) /\ Len(more) \in Nat BY <3>1, <3>2
      <4>3. log' = log \o more BY <2>2 DEF more
      <4>4. log' \in Seq(Rec) /\ Len(log') = Len(log) + Len(more) BY <4>1, <4>2, <4>3
      <4>5. \A i \in 1..Len(log) : log'[i] = log[i] BY <4>1, <4>2, <4>3
      <4>6. \A i \in 1..Len(more) : log'[Len(log) + i] = more[i] BY <4>1, <4>2, <4>3
      <4>7. ASSUME NEW i \in Records' \ Records PROVE log'[i] \in job[s].put
        <5>1. i - Len(log) \in 1..Len(more) /\ i = Len(log) + (i - Len(log))
          BY <4>1, <4>2, <4>4 DEF Records
        <5>2. log'[i] = more[i - Len(log)] BY <4>6, <5>1
        <5> QED BY <3>1, <5>1, <5>2
      <4>8. ASSUME NEW r \in job[s].put PROVE \E i \in Records' : log'[i] = r
        <5>1. PICK i \in 1..Len(more) : more[i] = r BY <3>1
        <5>2. Len(log) + i \in 1..Len(log') BY <4>1, <4>2, <4>4
        <5> QED BY <4>6, <5>1, <5>2 DEF Records
      <4>9. Records \subseteq Records' BY <4>1, <4>2, <4>4 DEF Records
      <4> QED BY <4>4, <4>5, <4>7, <4>8, <4>9 DEF Records
    <3>4. Named' \subseteq Named \cup PathsOf(job[s].put) BY <3>3 DEF Named, PathsOf
    <3>5. Later
      <4>1. \A r \in Rec : Held(r) => Held(r)'
        BY <1>a, <2>1, <3>3 DEF Held, TypeOK
      <4> QED BY <2>1, <3>3, <4>1 DEF Later, Spared
    <3>6. ASSUME NEW q \in Sessions \ {s} PROVE LeftAlone(pc[q], job[q])
      <4>1. /\ job[s].made \cap job[q].made = {}
            /\ Crosses(job[q], "copy", job[s], crossed)
        BY <2>1 DEF IInv, Apart
      <4>2. \A o \in job[q].made \ Named : o \notin Named'
        BY <2>1, <3>4, <4>1 DEF Unwritten, PathsOf
      <4>3. ASSUME job[q].path \notin crossed', ~job[q].shared, NEW i \in Records' \ Records
            PROVE  log'[i].path # job[q].path
        BY <2>1, <3>3, <4>1, <4>3 DEF Crosses, PathsOf, Copying
      <4> QED BY <2>1, <4>2, <4>3 DEF LeftAlone, Spared
    <3>7. "fold" \in Points BY DEF Points
    <3>8. TypeOK' BY <1>a, <1>b, <2>1, <2>2, <3>3, <3>7, Goes DEF TypeOK
    <3>9. PICK j \in Jobs : j = job[s] BY <1>b
    <3>10. Fits("fold", j)'
      <4>1. Makes(j)' BY <2>1, <3>9 DEF Makes
      <4>2. Written(j)' BY <3>3, <3>9 DEF Written
      <4> QED BY <4>1, <4>2 DEF Fits, Attaching, Copying, Asking
    <3>11. ASSUME NEW i \in Records' \ Records PROVE RecordOK(i)'
      <4>1. PICK r \in job[s].put : log'[i] = r BY <3>3
      <4>2. r \in Rec /\ r.home /\ r.path \in StorePaths BY <3>2
      <4>3. Spared(r) /\ Held(r) BY <2>1, <4>1 DEF Unwritten, Held, Spared
      <4>4. Held(r)' BY <1>a, <2>1, <3>3, <4>3 DEF Held, TypeOK
      <4>5. Spared(r)' BY <2>1, <4>3 DEF Spared
      <4> QED BY <4>1, <4>2, <4>4, <4>5 DEF RecordOK, Held, Spared
    <3> QED BY <2>2, <3>5, <3>6, <3>7, <3>8, <3>9, <3>10, <3>11, SmallStep DEF Copying
  <2>3. CASE Go(s, "undo", job[s]) /\ UNCHANGED log
    <3>1. Undoable(job[s]) BY <2>1, Occupied DEF Undoable, Unwritten
    <3>2. Fits("undo", job[s]) /\ "undo" \in Points
      BY <2>1, <3>1 DEF Fits, Attaching, Copying, Asking, Points
    <3> QED BY <1>b, <2>1, <2>3, <3>2, MoveKeeps DEF Copying
  <2> QED BY <1>5, <2>2, <2>3 DEF Write
<1>6. ASSUME NEW s \in Sessions, Finish(s) PROVE IInv'
  <2>1. UNCHANGED <<log, pruned, done, disk, crossed>> /\ pc[s] = "fold"
    BY <1>6 DEF Finish, At
  <2>2. CASE End(s) BY <2>1, <2>2, EndKeeps
  <2>3. CASE Go(s, "undo", job[s])
    <3>1. Fits("undo", job[s]) /\ "undo" \in Points
      BY <1>b, <2>1 DEF Fits, Undoable, Attaching, Copying, Asking, Points
    <3> QED BY <1>b, <2>1, <2>3, <3>1, MoveKeeps DEF Copying
  <2> QED BY <1>6, <2>2, <2>3 DEF Finish
<1>7. ASSUME NEW s \in Sessions, Undo(s) PROVE IInv'
  <2> DEFINE D == Discarded(s)
  <2>1. /\ pc[s] = "undo" /\ UNCHANGED <<log, pruned, done, crossed>> /\ End(s)
        /\ disk' = [p \in StorePaths |-> IF p \in D THEN Nothing ELSE disk[p]]
    BY <1>7 DEF Undo, At
  <2>2. Makes(job[s]) /\ Undoable(job[s]) BY <1>b, <2>1 DEF Fits, Attaching, Copying
  <2>3. D \subseteq job[s].made /\ job[s].made \subseteq StorePaths
    BY <1>b DEF Discarded, Jobs
  <2>4. D \cap Named = {}
    <3>1. CASE Written(job[s])
      <4>1. ASSUME NEW p \in job[s].made PROVE Recorded(s)
        <5>1. PICK r \in job[s].put : r.path = p BY <2>2 DEF Makes, PathsOf
        <5>2. PICK i \in Records : log[i] = r BY <3>1 DEF Written
        <5> QED BY <5>1, <5>2 DEF Recorded
      <4> QED BY <2>3, <4>1 DEF Discarded
    <3>2. CASE ~Written(job[s]) BY <2>2, <2>3, <3>2 DEF Undoable
    <3> QED BY <3>1, <3>2
  <2>5. \A q \in Sessions \ {s} : D \cap job[q].made = {} BY <2>3 DEF IInv, Apart
  <2>6. \A p \in StorePaths \ D : disk'[p] = disk[p] BY <2>1
  <2> HIDE DEF D
  <2>7. Later /\ Records' = Records /\ \A q \in Sessions \ {s} : LeftAlone(pc[q], job[q])
    BY <2>1, <2>3, <2>4, <2>5, <2>6, DiskStep
  <2>8. TypeOK' BY <1>a, <2>1, EndFits, Goes DEF TypeOK, Records, End
  <2> QED BY <2>1, <2>7, <2>8, EndFits, SmallStep DEF End, NoJob, Copying
<1>8. ASSUME NEW s \in Sessions, Prune(s) PROVE IInv'
  <2>1. PICK i \in Live :
          /\ Go(s, "asked", [NoJob EXCEPT !.record = i, !.path = log[i].path,
                               !.shared = Sharers(i) # {i}])
          /\ crossed' = crossed \cup {p \in {log[i].path} \cap StorePaths :
                                       Sharers(i) = {i} /\ Adopting(p) # {}}
    BY <1>8 DEF Prune
  <2> DEFINE p == log[i].path
             k == [NoJob EXCEPT !.record = i, !.path = p, !.shared = Sharers(i) # {i}]
  <2>2. /\ UNCHANGED <<log, pruned, done, disk>>
        /\ crossed \subseteq crossed' /\ crossed' \subseteq StorePaths
    BY <1>8, <1>a, <2>1 DEF Prune, TypeOK
  <2>3. i \in Records /\ i \in Nat /\ p \in StorePaths \cup {Nothing} /\ p \in Named
    <3>1. i \in Records /\ i \in Nat BY DEF Live, Records
    <3>2. log[i] \in Rec BY <1>a, <3>1 DEF TypeOK, Records
    <3> QED BY <3>1, <3>2 DEF Rec, Named
  <2>4. /\ k \in Jobs /\ k.put = {} /\ k.made = {} /\ k.record = i /\ k.path = p
        /\ k.shared = (Sharers(i) # {i}) /\ "asked" \in Points
    BY <2>3 DEF NoJob, Jobs, Points
  <2>5. Go(s, "asked", k) BY <2>1
  <2> HIDE DEF k
  <2>6. PICK j \in Jobs : j = k BY <2>4
  <2>7. Later /\ Records' = Records /\ \A q \in Sessions : LeftAlone(pc[q], job[q])
    BY <1>b, <2>2, StandingStill
  <2>8. TypeOK' BY <1>a, <2>2, <2>4, <2>5, <2>7, Goes DEF TypeOK
  <2>9. Fits("asked", j)'
    <3>1. ASSUME p \in StorePaths, ~j.shared, NEW n \in Live, log[n].path = p PROVE n = i
      <4>1. log[n].home BY <3>1 DEF IInv, RecordOK, Live
      <4>2. n \in Sharers(i) BY <3>1, <4>1 DEF Sharers
      <4> QED BY <2>4, <2>6, <3>1, <4>2
    <3>2. Prunes(j)'
      BY <2>2, <2>3, <2>4, <2>6, <2>7, <3>1 DEF Prunes, Live
    <3> QED BY <3>2 DEF Fits, Attaching, Copying, Asking
  <2>10. ASSUME NEW q \in Sessions \ {s}
         PROVE  /\ j.made \cap job[q].made = {}
                /\ Crosses(j, pc[q], job[q], crossed') /\ Crosses(job[q], "asked", j, crossed')
    <3>1. ASSUME ~j.shared, pc[q] \in Copying, p \in PathsOf(job[q].put) PROVE p \in crossed'
      <4>1. p \notin job[q].made
        BY <1>b, <2>3, <3>1 DEF Fits, Unwritten
      <4>2. q \in Adopting(p) BY <3>1, <4>1 DEF Adopting, PathsOf, Copying
      <4>3. p \in StorePaths BY <1>b, <3>1 DEF Fits, Makes, PathsOf, Copying, Attaching
      <4> QED BY <2>1, <2>4, <2>6, <3>1, <4>2, <4>3
    <3> QED BY <2>4, <2>6, <3>1 DEF Crosses, Copying
  <2>11. Apart' BY <2>2, <2>4, <2>5, <2>6, <2>10, ApartThere
  <2>12. /\ Fits(pc[s], job[s])'
         /\ \A q \in Sessions \ {s} : pc'[q] = pc[q] /\ job'[q] = job[q]
    BY <1>a, <2>4, <2>5, <2>6, <2>9, Goes, FitsThere
  <2>13. {s} \in SUBSET Sessions OBVIOUS
  <2> QED BY <2>7, <2>8, <2>11, <2>12, <2>13, StepKeeps
<1>9. ASSUME NEW s \in Sessions, Answer(s) PROVE IInv'
  <2>1. UNCHANGED <<log, pruned, done, disk, crossed>> /\ pc[s] = "asked"
    BY <1>9 DEF Answer, At
  <2>2. CASE End(s) BY <2>1, <2>2, EndKeeps
  <2>3. CASE Go(s, Then.asked, job[s])
    <3>1. Fits("record", job[s]) /\ "record" \in Points
      BY <1>b, <2>1 DEF Fits, Attaching, Copying, Asking, Points
    <3>2. Then.asked = "record" BY DEF Then
    <3> QED BY <1>b, <2>1, <2>3, <3>1, <3>2, MoveKeeps DEF Copying
  <2> QED BY <1>9, <2>2, <2>3 DEF Answer
<1>10. ASSUME NEW s \in Sessions, PruneLine(s) PROVE IInv'
  <2>1. /\ pc[s] = "record" /\ UNCHANGED <<log, disk, done, crossed>>
        /\ pruned' = pruned \cup {job[s].record} /\ Go(s, "remove", job[s])
    BY <1>10 DEF PruneLine, At, Then
  <2>2. Prunes(job[s]) BY <1>b, <2>1 DEF Fits, Asking
  <2>3. Records' = Records /\ Named' = Named BY <2>1 DEF Records, Named
  <2>4. Later BY <2>1, <2>3 DEF Later, Held, Spared
  <2>5. \A q \in Sessions : LeftAlone(pc[q], job[q])
    BY <2>1, <2>3 DEF LeftAlone, Spared
  <2>6. "remove" \in Points BY DEF Points
  <2>7. TypeOK' BY <1>a, <1>b, <2>1, <2>2, <2>3, <2>6, Goes DEF TypeOK, Prunes
  <2>8. PICK j \in Jobs : j = job[s] BY <1>b
  <2>9. Fits("remove", j)'
    <3>1. Prunes(j)' BY <2>1, <2>2, <2>3, <2>8 DEF Prunes, Live
    <3>2. j.record \in pruned' BY <2>1, <2>8
    <3> QED BY <3>1, <3>2 DEF Fits, Attaching, Copying, Asking
  <2> QED BY <2>1, <2>3, <2>4, <2>5, <2>6, <2>7, <2>8, <2>9, SmallStep DEF Copying
<1>11. ASSUME NEW s \in Sessions, RemoveBytes(s) PROVE IInv'
  <2> DEFINE p == job[s].path
  <2>1. /\ pc[s] = "remove" /\ UNCHANGED <<log, pruned, done, crossed>> /\ End(s)
    BY <1>11 DEF RemoveBytes, At, Then, End
  <2>2. Prunes(job[s]) /\ job[s].record \in pruned
    BY <1>b, <2>1 DEF Fits, Asking
  <2>3. CASE UNCHANGED disk BY <2>1, <2>3, EndKeeps
  <2>4. CASE ~job[s].shared /\ p \in StorePaths /\ disk' = [disk EXCEPT ![p] = Nothing]
    <3>1. Records' = Records /\ Named' = Named BY <2>1 DEF Records, Named
    <3>2. disk'[p] = Nothing /\ \A o \in StorePaths \ {p} : disk'[o] = disk[o]
      BY <1>a, <2>4 DEF TypeOK
    <3>3. log[job[s].record].path = p /\ p \in Named BY <2>2 DEF Prunes, Named
    <3>4. \A r \in Rec : r.path \in StorePaths /\ Held(r) => Held(r)'
      BY <2>1, <2>2, <3>2, <3>3 DEF Held
    <3>5. \A r \in Rec : r.path \in StorePaths /\ Spared(r) /\ (r.path = p => p \in crossed)
             => Spared(r)'
      BY <2>1, <3>2 DEF Spared
    <3>6. ASSUME NEW i \in Records \ pruned', log[i].path \in StorePaths, Spared(log[i])
          PROVE  Spared(log[i])'
      <4>1. log[i].path = p => p \in crossed BY <2>1, <2>2, <2>4, <3>6 DEF Prunes, Live
      <4> QED BY <2>1, <3>2, <3>6, <4>1 DEF Spared
    <3>7. Later BY <2>1, <3>1, <3>4, <3>6 DEF Later
    <3>8. ASSUME NEW q \in Sessions \ {s} PROVE LeftAlone(pc[q], job[q])
      <4>1. \A o \in job[q].made \ Named : disk'[o] = disk[o]
        BY <1>b, <3>2, <3>3 DEF Jobs
      <4>2. pc[q] \in Copying => \A r \in job[q].put : r.path = p => p \in crossed
        BY <2>4 DEF IInv, Apart, Crosses, PathsOf
      <4>3. \A r \in job[q].put : r \in Rec BY <1>b DEF Jobs
      <4> QED BY <3>1, <3>5, <4>1, <4>2, <4>3 DEF LeftAlone
    <3>9. TypeOK' BY <1>a, <2>1, <2>4, <3>1, EndFits, Goes DEF TypeOK, End
    <3> QED BY <2>1, <3>1, <3>7, <3>8, <3>9, EndFits, SmallStep DEF End, NoJob, Copying
  <2> QED BY <1>11, <2>3, <2>4 DEF RemoveBytes
<1>12. ASSUME NEW s \in Sessions, Die(s) PROVE IInv'
  BY <1>12, EndKeeps DEF Die
<1>13. CASE Settle
  <2>1. UNCHANGED <<log, pruned, disk, pc, job, crossed>> /\ done' \subseteq Units
    BY <1>13, <1>a DEF Settle, TypeOK
  <2>2. Later /\ Records' = Records /\ \A q \in Sessions : LeftAlone(pc[q], job[q])
    BY <1>b, <2>1, StandingStill
  <2>3. TypeOK' /\ Apart' BY <1>a, <2>1, <2>2 DEF TypeOK, IInv, Apart
  <2> QED BY <2>1, <2>2, <2>3, StepKeeps
<1>14. CASE ArriveRecord
  <2>1. PICK d \in Digests :
           log' = Append(log, [digest |-> d, path |-> Nothing, unit |-> NoUnit, home |-> FALSE])
    BY <1>14 DEF ArriveRecord
  <2> DEFINE r == [digest |-> d, path |-> Nothing, unit |-> NoUnit, home |-> FALSE]
             n == Len(log) + 1
  <2>2. UNCHANGED <<pruned, done, disk, pc, job, crossed>> BY <1>14 DEF ArriveRecord
  <2>3. r \in Rec BY DEF Rec
  <2>4. /\ log' \in Seq(Rec) /\ Records' = Records \cup {n} /\ n \notin Records
        /\ log'[n] = r /\ \A i \in Records : log'[i] = log[i]
    <3>1. log \in Seq(Rec) /\ Len(log) \in Nat BY <1>a DEF TypeOK
    <3> HIDE DEF r
    <3> QED BY <2>1, <2>3, <3>1 DEF Records, r
  <2>5. Named' = Named \cup {Nothing} BY <2>4 DEF Named
  <2>6. TypeOK' BY <1>a, <2>2, <2>4 DEF TypeOK
  <2>7. Later
    <3>1. \A q \in Rec : Held(q) => Held(q)'
      BY <1>a, <2>2, <2>4 DEF Held, TypeOK
    <3> QED BY <2>2, <2>4, <3>1 DEF Later, Spared
  <2>8. ASSUME NEW q \in Sessions PROVE LeftAlone(pc[q], job[q])
    <3>1. job[q].made \subseteq StorePaths BY <1>b DEF Jobs
    <3> QED BY <2>2, <2>4, <2>5, <3>1 DEF LeftAlone, Spared
  <2>9. \A i \in Records' \ Records : RecordOK(i)' BY <2>4 DEF RecordOK
  <2>10. Apart' BY <2>2 DEF IInv, Apart
  <2> QED BY <2>2, <2>6, <2>7, <2>8, <2>9, <2>10, StepKeeps
<1>15. CASE ArrivePrune
  <2>1. PICK i \in Live : pruned' = pruned \cup {i} BY <1>15 DEF ArrivePrune
  <2>2. UNCHANGED <<log, done, disk, pc, job, crossed>> BY <1>15 DEF ArrivePrune
  <2>3. Records' = Records /\ Named' = Named BY <2>2 DEF Records, Named
  <2>4. Later BY <2>1, <2>2, <2>3 DEF Later, Held, Spared
  <2>5. \A q \in Sessions : LeftAlone(pc[q], job[q]) BY <2>2, <2>3 DEF LeftAlone, Spared
  <2>6. TypeOK' BY <1>a, <2>1, <2>2, <2>3 DEF TypeOK, Live
  <2>7. Apart' BY <2>2 DEF IInv, Apart
  <2> QED BY <2>2, <2>3, <2>4, <2>5, <2>6, <2>7, StepKeeps
<1>16. CASE UNCHANGED artifactVars
  <2>1. UNCHANGED <<log, pruned, done, disk, pc, job, crossed>> BY <1>16 DEF artifactVars
  <2>2. Later /\ Records' = Records /\ \A q \in Sessions : LeftAlone(pc[q], job[q])
    BY <1>b, <2>1, StandingStill
  <2>3. TypeOK' /\ Apart' BY <1>a, <2>1, <2>2 DEF TypeOK, IInv, Apart
  <2> QED BY <2>1, <2>2, <2>3, StepKeeps
<1> QED BY <1>1, <1>2, <1>3, <1>4, <1>5, <1>6, <1>7, <1>8, <1>9, <1>10, <1>11, <1>12,
           <1>13, <1>14, <1>15, <1>16 DEF ArtifactsNext

(* Every path that a record of this store names has its bytes, whole, or a  *)
(* prune line says that they were removed, whoever dies and whatever fails. *)
THEOREM ArtifactsInvariant == ArtifactsSpec => []IInv
<1>1. ArtifactsInit => IInv
  <2> SUFFICES ASSUME ArtifactsInit PROVE IInv OBVIOUS
  <2>1. Records = {} /\ NoJob \in Jobs /\ "idle" \in Points
    BY DEF ArtifactsInit, Records, Jobs, NoJob, Points
  <2>2. TypeOK BY <2>1 DEF TypeOK, ArtifactsInit
  <2>3. Fits("idle", NoJob) BY DEF Fits, Attaching, Copying, Asking
  <2>4. Apart BY DEF Apart, Crosses, ArtifactsInit, NoJob, Copying
  <2> QED BY <2>1, <2>2, <2>3, <2>4 DEF IInv, ArtifactsInit
<1> QED BY <1>1, StepIInv, PTL DEF ArtifactsSpec

(* A record that was not pruned keeps its bytes: no rollback, no prune of a *)
(* sharer, no collision and no death takes them, but where a session adopts *)
(* them beside a prune that was judged without it.                          *)
THEOREM LiveKeepsItsBytes == ArtifactsSpec => []LiveHasItsBytes
<1>1. IInv => LiveHasItsBytes
  BY DEF IInv, RecordOK, Spared, LiveHasItsBytes, Live
<1> QED BY <1>1, ArtifactsInvariant, PTL

(* Bytes a record names are missing only where the log says so, wherever a  *)
(* session died: the prune line comes before the removal.                   *)
THEOREM RemovalIsOnTheLog == ArtifactsSpec => []RemovalIsAccounted
<1>1. IInv => RemovalIsAccounted
  BY DEF IInv, RecordOK, Held, RemovalIsAccounted
<1> QED BY <1>1, ArtifactsInvariant, PTL
=============================================================================
