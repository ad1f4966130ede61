----------------------------- MODULE WorkUnits ------------------------------
(***************************************************************************)
(* One work unit from its dispatch to its completion: who holds it, the    *)
(* criteria it declares, the reports and designs filed on it, the decision *)
(* its design implements, the gate of `work done` and the gate of `work    *)
(* start` (main.ts, state.ts, design.ts, completion.ts, ledger.ts), the    *)
(* undo of any of it (undo.ts), and the fold every clone reads it from     *)
(* (model.ts, entities.ts).                                                *)
(*                                                                         *)
(* Two clones append to logs of their own and syncs put one behind the     *)
(* other; a session runs on one of the machines, whose ledger alone knows  *)
(* when it ended.  The clocks are one: an event's id is its place in time. *)
(* The unit is an asserted one of the project itself: plans under review,  *)
(* successors and scopes are PlanTree's, an artifact's bytes Artifacts'.   *)
(***************************************************************************)
EXTENDS LogFold, FiniteSets

CONSTANTS
    Clones,      \* checkouts with a log of their own
    Session,     \* agent sessions
    Home,        \* the clone each runs in
    Criteria,    \* the texts a criterion may have
    Verbs,       \* the verbs the first act of a run may be, the second, ...
    Seeds        \* the logs both may have pulled before the run begins

VARIABLES
    acts,        \* how many verbs have been run: the bound is Len(Verbs)
    shared,      \* the log the clones push to
    known,       \* how much of it each clone has pulled
    tail,        \* what each clone has appended and not pushed
    unit,        \* what each clone last folded its log to
    ledger       \* sessions.jsonl: what the session's machine knows of it

vars == <<acts, shared, known, tail, unit, ledger>>

None == 0
Work == "work"
Decision == "decision"
Terminal == {"done", "retired"}

\* The fields an event may have.  batch: the first event of its append; read:
\* the events its writer had before it, which no reader sees.
Blank == [id |-> None, type |-> "none", of |-> Work, criterion |-> None, session |-> None,
          evidence |-> FALSE, design |-> FALSE, digest |-> FALSE, confirms |-> None,
          annuls |-> None, batch |-> None, read |-> {}]

Types == {"created", "retracted", "declared", "covered", "criterion-blocked",
          "criterion-unblocked", "started", "blocked", "unblocked", "done", "retired",
          "run-started", "run-exited", "report", "approved", "annulled"}

Events == [id : Nat, type : Types, of : {Work, Decision}, criterion : Criteria \cup {None},
           session : Session \cup {None}, evidence : BOOLEAN, design : BOOLEAN, digest : BOOLEAN,
           confirms : Nat, annuls : Nat, batch : Nat, read : SUBSET Nat]

\* Both may have pulled the creations, and a unit's criteria, the claims of them,
\* and reports on it, answered or not: one event an append, each read by the next.
ASSUME SeedsAssumption ==
    \A L \in Seeds :
        /\ L \in Seq(Events)
        /\ \A i \in DOMAIN L :
               /\ L[i].id = i /\ L[i].read = 1..(i - 1) /\ L[i].batch = None /\ L[i].annuls = None
               /\ L[i].type \in {"created", "declared", "covered", "report", "approved"}
               /\ L[i].type = "approved" => L[i].of = Work

Ids(E) == {ev.id : ev \in E}
ReadEvents(c) == SubSeq(shared, 1, known[c]) \o tail[c]

-----------------------------------------------------------------------------
(* The fold.  What an undo took back was never said: the passes read, of the *)
(* events E of a log, those S that stand, oldest first, and only the process  *)
(* reads the log itself.                                                      *)

AnnulledIds(E) == {ev.annuls : ev \in E} \ {None}
Standing(E) == {ev \in E : ev.id \notin AnnulledIds(E)}
Said(S, type) == {ev \in S : ev.type = type}

\* applyDeclarations: a text is one criterion, however often it is declared.
Declared(S) == {ev.criterion : ev \in Said(S, "declared")}

\* Mutant: a block stands on a criterion that was covered.
SettleAgain(t, ev) ==
    IF ev.criterion \notin DOMAIN t THEN t
    ELSE [t EXCEPT ![ev.criterion] =
             CASE ev.type = "covered" -> "covered"
               [] ev.type = "criterion-blocked" -> "blocked"
               [] OTHER -> IF @ = "blocked" THEN "open" ELSE @]

\* settleCriterion: a claim ends a block, and nothing blocks what is covered.
SettleCriterion(t, ev) ==
    IF ev.criterion \notin DOMAIN t THEN t
    ELSE [t EXCEPT ![ev.criterion] =
             CASE ev.type = "covered" -> "covered"
               [] ev.type = "criterion-blocked" -> IF @ = "open" THEN "blocked" ELSE @
               [] OTHER -> IF @ = "blocked" THEN "open" ELSE @]

SettleCriteria(S) ==
    OverTime(SettleCriterion, [x \in Declared(S) |-> "open"],
             {ev \in S : ev.type \in {"covered", "criterion-blocked", "criterion-unblocked"}})

\* applyExecution: a start claims the unit whatever it does to its state.
ApplyExecution(t, ev) ==
    IF t.status \in Terminal THEN t
    ELSE [claim |-> IF ev.type = "started" THEN ev.session ELSE t.claim,
          status |-> CASE ev.type = "started" -> IF t.status = "blocked" THEN "blocked" ELSE "active"
                       [] ev.type = "blocked" -> "blocked"
                       [] ev.type = "unblocked" -> IF t.status = "blocked" THEN "active" ELSE t.status
                       [] OTHER -> ev.type]

Execution(S) ==
    OverTime(ApplyExecution, [claim |-> None, status |-> "next"],
             {ev \in S : ev.type \in {"started", "blocked", "unblocked", "done", "retired"}})

\* applyProcess: the last one in the log, which an undo never takes back.
Process(L) ==
    LET runs == SelectSeq(L, LAMBDA ev : ev.type \in {"run-started", "run-exited"}) IN
    IF runs = <<>> THEN "none" ELSE Last(runs).type

\* applyReport and applyReportConfirmed, which binds to the report it names.
Reports(S) ==
    {[id |-> r.id, evidence |-> r.evidence, design |-> r.design, digest |-> r.digest,
      approved |-> \E a \in Said(S, "approved") : a.confirms = r.id] : r \in Said(S, "report")}

\* The record's own status: taken back, withdrawn, or standing.
StatusOf(S, record) ==
    IF ~\E ev \in Said(S, "created") : ev.of = record THEN "undone"
    ELSE IF \E ev \in Said(S, "retracted") : ev.of = record THEN "retracted"
    ELSE "confirmed"

\* workStatusOf: an undone unit reads so whatever was recorded on it.
WorkStatus(S, status) == IF StatusOf(S, Work) = "undone" THEN "undone" ELSE status

FoldUnit(L) ==
    LET S == Standing(Range(L)) execution == Execution(S) IN
    [status |-> WorkStatus(S, execution.status), claim |-> execution.claim, process |-> Process(L),
     criteria |-> SettleCriteria(S), reports |-> Reports(S), decision |-> StatusOf(S, Decision)]

-----------------------------------------------------------------------------
(* The verbs.  Each reads the clone's fold u, refuses or appends its events  *)
(* in one write, and folds again.                                            *)

\* The clock: the id of the newest event anywhere.
Written == Range(shared) \cup UNION {Range(tail[c]) : c \in Clones}
Newest == Max(Ids(Written) \cup {None})

Init == /\ acts = 0 /\ shared \in Seeds
        /\ known = [c \in Clones |-> Len(shared)] /\ tail = [c \in Clones |-> <<>>]
        /\ unit = [c \in Clones |-> FoldUnit(shared)]
        /\ ledger = [s \in Session |-> "unknown"]

Act(verb) == acts < Len(Verbs) /\ verb \in Verbs[acts + 1] /\ acts' = acts + 1

\* recordEvents, stampBatch: the events of one append carry its first one's id.
Record(c, verb, events) ==
    /\ Act(verb)
    /\ tail' = [tail EXCEPT ![c] = @ \o [i \in DOMAIN events |->
                   [events[i] EXCEPT !.id = Newest + i, !.read = Ids(Range(ReadEvents(c))),
                                     !.batch = IF Len(events) = 1 THEN None ELSE Newest + 1]]]
    /\ unit' = [unit EXCEPT ![c] = FoldUnit(SubSeq(shared, 1, known[c]) \o tail'[c])]
    /\ UNCHANGED <<shared, known>>

Event(type) == [Blank EXCEPT !.type = type]
On(type, x) == [Blank EXCEPT !.type = type, !.criterion = x]

\* requireOpenWork.
OpenWork(u) == u.status \notin Terminal

\* requireDeclarable, recordDeclaration.
CriteriaAdd(c, u) == \E x \in Criteria \ DOMAIN u.criteria :
    /\ u.status \notin Terminal \cup {"undone"}
    /\ Record(c, "declare", <<On("declared", x)>>) /\ UNCHANGED ledger

\* requireCoverable, coverRecord: done or retired, a unit can still be covered.
Cover(c, u) == \E x \in DOMAIN u.criteria :
    /\ u.status # "undone" /\ u.criteria[x] # "covered"
    /\ Record(c, "cover", <<On("covered", x)>>) /\ UNCHANGED ledger

BlockCriterion(c, u) == \E x \in DOMAIN u.criteria :
    /\ OpenWork(u)
    /\ \/ u.criteria[x] = "open" /\ Record(c, "block criterion", <<On("criterion-blocked", x)>>)
       \/ u.criteria[x] = "blocked" /\ Record(c, "release criterion", <<On("criterion-unblocked", x)>>)
    /\ UNCHANGED ledger

\* transitionWork: the fold drops a block on a blocked unit, the verb does not.
TransitionWork(c, u) == \E type \in {"blocked", "unblocked"} :
    OpenWork(u) /\ Record(c, "block", <<Event(type)>>) /\ UNCHANGED ledger

\* work started, work exited.
WorkProcess(c, u) == \E type \in {"run-started", "run-exited"} :
    OpenWork(u) /\ Record(c, "process", <<Event(type)>>) /\ UNCHANGED ledger

\* judge, closedRefusal: a decision taken back as a mistake is not refused.
Citable(u) == u.decision # "retracted"

\* dispatchRefusal, designProblem: some design must be approved and its
\* decision hold; a unit without one is not asked.
DesignsOf(u) == {r \in u.reports : r.design}
Dispatchable(u) == DesignsOf(u) # {} => \E r \in DesignsOf(u) : r.approved /\ Citable(u)

\* judgeSession: only the machine the session ran on can answer.
KnownEnded(c, s) == Home[s] = c /\ ledger[s] = "ended"

\* claimMoves: the unit is free, or its holder's process or session ended.
ClaimMoves(c, u, s) ==
    \/ u.claim = None
    \/ u.claim \notin {None, s} /\ (u.process = "run-exited" \/ KnownEnded(c, u.claim))

\* work start: a start that moves no claim records nothing and notes the session.
WorkStart(c, u) == \E s \in Session :
    /\ Home[s] = c /\ ledger[s] # "ended" /\ OpenWork(u) /\ Dispatchable(u)
    /\ \/ ClaimMoves(c, u, s)
          /\ Record(c, "start", <<[Event("started") EXCEPT !.session = s]>>)
       \/ ~ClaimMoves(c, u, s)
          /\ Act("start") /\ UNCHANGED <<shared, known, tail, unit>>
    /\ ledger' = [ledger EXCEPT ![s] = "running"]

SessionEnds(s) ==
    /\ ledger[s] = "running"
    /\ Act("end") /\ ledger' = [ledger EXCEPT ![s] = "ended"]
    /\ UNCHANGED <<shared, known, tail, unit>>

\* self report: an ordinary one with evidence or without, or a design, which
\* cites the decision and may carry the artifact an approval binds to.
Report(c, u) ==
    /\ OpenWork(u)
    /\ \/ \E evidence \in BOOLEAN :
              Record(c, "report", <<[Event("report") EXCEPT !.evidence = evidence]>>)
       \/ \E artifact \in BOOLEAN :
              /\ Citable(u)
              /\ Record(c, "design", <<[Event("report") EXCEPT !.design = TRUE, !.digest = artifact,
                                                               !.evidence = artifact]>>)
    /\ UNCHANGED ledger

ReportConfirm(c, u) == \E r \in DesignsOf(u) :
    /\ r.digest /\ ~r.approved
    /\ Record(c, "approve", <<[Event("approved") EXCEPT !.confirms = r.id]>>) /\ UNCHANGED ledger

\* Mutant: the criteria are not asked for.
CompletableOnEvidence(u, told) == told \/ \E r \in u.reports : r.evidence

\* completionRefusal: every criterion covered, and something checkable.
Completable(u, told) ==
    /\ \A x \in DOMAIN u.criteria : u.criteria[x] = "covered"
    /\ told \/ \E r \in u.reports : r.evidence

\* work done [--report]: the report and the claim are one append.
WorkDone(c, u) == \E told \in BOOLEAN :
    /\ OpenWork(u) /\ Completable(u, told)
    /\ Record(c, "done", IF told THEN <<Event("report"), Event("done")>> ELSE <<Event("done")>>)
    /\ UNCHANGED ledger

WorkRetire(c, u) ==
    OpenWork(u) /\ Record(c, "retire", <<Event("retired")>>) /\ UNCHANGED ledger

DecideRetract(c, u) ==
    /\ u.decision = "confirmed"
    /\ Record(c, "retract", <<[Event("retracted") EXCEPT !.of = Decision]>>) /\ UNCHANGED ledger

-----------------------------------------------------------------------------
(* self undo: the append an event came in is taken back whole, or refused    *)
(* with what was built on it.                                                *)

\* coupledUnit: every record of an append here is the one unit's.
CoupledUnit(E, b) == {a \in E : a = b \/ (b.batch # None /\ a.batch = b.batch)}

\* namedIds: what a report, a ruling or a transition is about; a process has none.
Named(a) == IF a.type \in {"run-started", "run-exited"} THEN {} ELSE {a.of}

OrderedTransitions == {"started", "blocked", "unblocked", "done", "retired", "retracted"}
Created(B) == {b.of : b \in {x \in B : x.type = "created"}}

\* Mutant: an approval moves nothing.
MovedByTransitions(B) == {b.of : b \in {x \in B : x.type \in OrderedTransitions}} \ Created(B)

\* movedRecords: a dispatch stands on the approval it read.
Moved(B) == {b.of : b \in {x \in B : x.type \in OrderedTransitions \cup {"approved"}}} \ Created(B)

\* citedEvents: an approval names its report, a design the decision's creation.
Cites(a, b) == (a.confirms # None /\ a.confirms = b.id) \/ (a.design /\ b.type = "created" /\ b.of = Decision)

DependsOn(a, B) == (\E b \in B : Cites(a, b)) \/ Named(a) \cap (Created(B) \cup Moved(B)) # {}

DependentsOf(E, B) ==
    {a \in Standing(E) \ B : /\ a.type # "annulled" /\ \A b \in B : a.id > b.id
                             /\ DependsOn(a, B)}

\* requireUndoable: neither an undo nor a process transition.
Undoable(E) == {b \in Standing(E) : b.type \notin {"annulled", "run-started", "run-exited"}}

\* cmdUndo: one annulment for each member that still stands.
Annulment(E, b) == CoupledUnit(E, b) \cap Standing(E)

CmdUndo(c) == \E E \in {Range(ReadEvents(c))} : \E b \in Undoable(E) : \E B \in {Annulment(E, b)} :
    /\ DependentsOf(E, B) = {}
    /\ \E order \in {SetToSeq(B)} :
           Record(c, "undo", [i \in DOMAIN order |-> [Event("annulled") EXCEPT !.annuls = order[i].id]])
    /\ UNCHANGED ledger

-----------------------------------------------------------------------------

\* syncStore: what is pulled goes ahead of the tail, is folded and is pushed.
Sync(c) ==
    /\ tail[c] # <<>> \/ known[c] < Len(shared)
    /\ shared' = shared \o tail[c]
    /\ known' = [known EXCEPT ![c] = Len(shared')]
    /\ tail' = [tail EXCEPT ![c] = <<>>]
    /\ unit' = [unit EXCEPT ![c] = FoldUnit(shared')]
    /\ UNCHANGED <<acts, ledger>>

Next ==
    \/ \E c \in Clones :
        \/ Sync(c) \/ CmdUndo(c)
        \/ \E u \in {unit[c]} :
            \/ CriteriaAdd(c, u) \/ Cover(c, u) \/ BlockCriterion(c, u) \/ TransitionWork(c, u)
            \/ WorkProcess(c, u) \/ WorkStart(c, u) \/ Report(c, u) \/ ReportConfirm(c, u)
            \/ WorkDone(c, u) \/ WorkRetire(c, u) \/ DecideRetract(c, u)
    \/ \E s \in Session : SessionEnds(s)

Spec == Init /\ [][Next]_vars
-----------------------------------------------------------------------------
(* Properties *)

\* The terminal transition a unit's state rests on: the first that stands.
Endings(S) == Said(S, "done") \cup Said(S, "retired")
Ending(S) == CHOOSE ev \in Endings(S) : \A other \in Endings(S) : ev.id <= other.id

\* A claim or a report the writer of ev had read and somebody took back.
TakenBack(E, ev, B) == \E b \in B : b.id \in ev.read /\ b.id \in AnnulledIds(E)

\* A unit that reads done is complete, on every clone and after every merge:
\* a criterion that is not covered was declared by a clone that did not know of
\* it, or its claim was taken back; evidence is missing only where it was taken
\* back (completionRefusal and what may be undone under it).
DoneIsAccounted == \A c \in Clones : unit[c].status = "done" =>
    LET E == Range(ReadEvents(c)) S == Standing(E) done == Ending(S) IN
    /\ \A x \in {y \in DOMAIN unit[c].criteria : unit[c].criteria[y] # "covered"} :
        \/ \A ev \in Said(S, "declared") : ev.criterion = x => ev.id \notin done.read
        \/ TakenBack(E, done, {ev \in E : ev.type = "covered" /\ ev.criterion = x})
    /\ \/ \E r \in Said(S, "report") : r.evidence \/ (done.batch # None /\ r.batch = done.batch)
       \/ TakenBack(E, done, {ev \in E : ev.type = "report" /\ ev.evidence})

\* A unit taken up while designs were filed on it stands on an approval: nobody
\* who had read the start can have taken back the approval it read, of a design
\* whose decision was not withdrawn then, or was taken back as a mistake itself
\* (dispatchRefusal, judge, movedBy).
DispatchStandsOnApproval == \A c \in Clones : LET E == Range(ReadEvents(c)) IN
    \A start \in Said(Standing(E), "started") :
        LET Read(type) == {ev \in E : ev.type = type /\ ev.id \in start.read}
            Undone(ev) == \E a \in Read("annulled") : a.annuls = ev.id
        IN (\E r \in Read("report") : r.design /\ ~Undone(r)) =>
            /\ \/ \A ev \in Read("retracted") : Undone(ev)
               \/ \A ev \in Read("created") : ev.of = Decision => Undone(ev)
            /\ \E a \in Read("approved") : /\ ~Undone(a)
                   /\ \A undo \in E : undo.annuls = a.id => start.id \notin undo.read

\* Every clone reads the same from the same events, whatever order they came
\* in and were taken back in: covered by any standing claim, else blocked where
\* the last word is a block; ended by the first ending, else likewise.
Blocks(S, on, off, x) == \E b \in Said(S, on) : b.criterion = x
    /\ \A r \in Said(S, off) : r.criterion = x => r.id < b.id

ReadsAsItsMeaning == \A c \in Clones : LET S == Standing(Range(ReadEvents(c))) IN
    /\ \A x \in Declared(S) : unit[c].criteria[x] =
          IF \E ev \in Said(S, "covered") : ev.criterion = x THEN "covered"
          ELSE IF Blocks(S, "criterion-blocked", "criterion-unblocked", x) THEN "blocked" ELSE "open"
    /\ unit[c].status # "undone" => unit[c].status =
          IF Endings(S) # {} THEN Ending(S).type
          ELSE IF Blocks(S, "blocked", "unblocked", None) THEN "blocked"
          ELSE IF Said(S, "started") \cup Said(S, "blocked") # {} THEN "active" ELSE "next"

=============================================================================
