------------------------------ MODULE PlanTree ------------------------------
(***************************************************************************)
(* The plan: objectives, the milestones under them and the work that moves *)
(* them (goals.ts and the work verbs of main.ts), as every clone folds it  *)
(* from its log (entities.ts, then the projection of model.ts, then        *)
(* objectives.ts).  A revision of an outcome is a new record that replaces *)
(* the old one and carries what hung under it; a plan is proposed toward a *)
(* gap, accepted or declined, and retargeted until it has started.         *)
(*                                                                         *)
(* Two clones write to logs of their own and syncs put one behind the      *)
(* other.  The clocks are one: an event's id is its place in time, and the *)
(* creation's id names the record.  Every milestone has one exit criterion *)
(* and no clock decides: dates, caps and placements are left out.          *)
(***************************************************************************)
EXTENDS LogFold, FiniteSets

CONSTANTS
    Clones,      \* checkouts with a log of their own
    Verbs,       \* the verbs the first act of a run may be, the second, ...
    Seed         \* the log both have pulled before the run begins

VARIABLES
    acts,        \* how many verbs have been run: the bound is Len(Verbs)
    shared,      \* the log the clones push to
    known,       \* how much of it each clone has pulled
    tail,        \* what each clone has appended and not pushed
    plan         \* the records each clone folded its log to, last

vars == <<acts, shared, known, tail, plan>>

None == 0
Creations == {"proposed", "asserted"}
Executions == {"started", "done", "retired"}
Ended == {"done", "retired"}
Live == {"proposed", "confirmed"}

\* The fields an event may have, each with its absent value.
Blank == [id |-> None, type |-> "none", entity |-> None, kind |-> "none", under |-> <<>>,
          replaces |-> {}, gap |-> None, carries |-> None, ref |-> None, why |-> FALSE]

ReadEvents(c) == SubSeq(shared, 1, known[c]) \o tail[c]

-----------------------------------------------------------------------------
(* The entity fold, in the passes the plan reads.  A unit's plan is its      *)
(* creation and its restatements; an acceptance names the one it approves.   *)

NewRecord(t, ev) ==
    [kind |-> ev.kind, bornProposed |-> ev.type = "proposed",
     status |-> IF ev.type = "proposed" THEN "proposed" ELSE "confirmed",
     confirmedOnce |-> ev.type = "asserted",
     links |-> ev.under, replaces |-> ev.replaces, supersededBy |-> None,
     gap |-> ev.gap, carries |-> ev.carries, current |-> ev.id, accepted |-> FALSE,
     judgedUnder |-> None, work |-> "next", startedOnce |-> FALSE, successor |-> None,
     place |-> Cardinality(DOMAIN t) + 1]

Created(L) == InTurn(LAMBDA t, ev : IF ev.type \in Creations THEN t @@ (ev.id :> NewRecord(t, ev)) ELSE t, <<>>, L)

\* statedRevisions: the last restatement is the current one, and the last to
\* name a gap says which gap the plan closes now (applyPlans reads both).
Revise(t, ev) ==
    [t EXCEPT ![ev.entity].current = ev.id, ![ev.entity].gap = IF ev.ref = None THEN @ ELSE ev.ref]

\* applyConfirms: an acceptance answers only a proposal, and names a revision.
Confirm(t, ev) ==
    IF t[ev.entity].status = "proposed"
    THEN [t EXCEPT ![ev.entity].status = "confirmed", ![ev.entity].confirmedOnce = TRUE]
    ELSE t

\* Mutant: only a proposal can be withdrawn.
RetractProposal(t, ev) ==
    IF t[ev.entity].status = "proposed" THEN [t EXCEPT ![ev.entity].status = "retracted"] ELSE t

\* applyRetractions: after the acceptances, so that a withdrawal wins.
Retract(t, ev) ==
    IF t[ev.entity].status \in Live THEN [t EXCEPT ![ev.entity].status = "retracted"] ELSE t

\* applyLinks: an edge is held once, in the order it was first stated.
Link(t, ev) ==
    LET held == t[ev.entity].links IN
    CASE ev.type = "unlinked" -> [t EXCEPT ![ev.entity].links = Remove(held, ev.ref)]
      [] ev.type = "linked" /\ ev.ref \notin Range(held) -> [t EXCEPT ![ev.entity].links = Append(held, ev.ref)]
      [] OTHER -> t

Supersede(t, ev) ==
    IF t[ev.id].confirmedOnce
    THEN [e \in {x \in t[ev.id].replaces : t[x].status \in Live} |->
             [t[e] EXCEPT !.status = "superseded", !.supersededBy = ev.id]] @@ t
    ELSE t

\* applyPlans: accepted is that some acceptance names the current revision, and
\* a plan restated past its acceptance is proposed again.
ApplyPlans(L, t) ==
    LET approved == {ev.ref : ev \in {a \in Range(L) : a.type = "confirmed"}} IN
    [e \in DOMAIN t |->
        IF ~(t[e].kind = "work" /\ t[e].bornProposed /\ t[e].status \in Live) THEN t[e]
        ELSE [t[e] EXCEPT !.accepted = t[e].current \in approved,
                          !.status = IF @ = "confirmed" /\ t[e].current \notin approved THEN "proposed" ELSE @]]

Cover(t, ev) == [t EXCEPT ![ev.entity].judgedUnder = ev.ref]

\* applyExecution: done and retired are terminal.
Execute(t, ev) ==
    IF t[ev.entity].work \in Ended THEN t
    ELSE [t EXCEPT ![ev.entity].work = ev.type,
                   ![ev.entity].startedOnce = @ \/ ev.type = "started",
                   ![ev.entity].successor = IF ev.type = "retired" THEN ev.ref ELSE @]

DeriveEntities(L) ==
    LET revised   == InTurn(Revise, Created(L), OldestFirst(L, {"revised"}))
        confirmed == InTurn(Confirm, revised, OldestFirst(L, {"confirmed"}))
        retracted == InTurn(Retract, confirmed, OldestFirst(L, {"retracted"}))
        linked    == InTurn(Link, retracted, OldestFirst(L, {"linked", "unlinked"}))
        replaced  == InTurn(Supersede, linked, SelectSeq(L, LAMBDA ev : ev.type \in Creations))
        covered   == InTurn(Cover, ApplyPlans(L, replaced), OldestFirst(L, {"covered"}))
    IN InTurn(Execute, covered, OldestFirst(L, Executions))

-----------------------------------------------------------------------------
(* The plan as the readers see it: the records P of one fold, projected.     *)

OfKind(P, kind) == {e \in DOMAIN P : P[e].kind = kind}
Objectives(P) == OfKind(P, "objective")

\* objectiveStatusOf: what was reached or given up outranks the assertion.
StatedStatus(P, o) ==
    CASE P[o].work = "done" -> "reached"
      [] P[o].work = "retired" -> "dropped"
      [] OTHER -> CASE P[o].status = "proposed" -> "proposed"
                    [] P[o].status = "confirmed" -> "active"
                    [] P[o].status = "superseded" -> "superseded"
                    [] OTHER -> IF P[o].confirmedOnce THEN "dropped" ELSE "declined"

\* applySupersededObjectives: whatever names o and is not itself proposed.
Displacers(P, o) == {s \in Objectives(P) : o \in P[s].replaces /\ StatedStatus(P, s) # "proposed"}

ObjectiveStatus(P, o) ==
    IF Displacers(P, o) # {} /\ StatedStatus(P, o) \notin {"reached", "declined"}
    THEN "superseded" ELSE StatedStatus(P, o)

\* Of several, the one last in the log.
ObjectiveHeir(P, o) ==
    IF Displacers(P, o) = {} THEN P[o].supersededBy
    ELSE CHOOSE s \in Displacers(P, o) : \A other \in Displacers(P, o) : P[other].place <= P[s].place

Heir(P, x) == IF P[x].kind = "objective" THEN ObjectiveHeir(P, x) ELSE P[x].supersededBy
IsOpenObjective(P, o) == ObjectiveStatus(P, o) \in {"proposed", "active"}
IsTerminalObjective(P, o) == ObjectiveStatus(P, o) \in {"reached", "dropped", "declined"}

\* memberObjectives: every objective a milestone's edges name, oldest first.
MemberObjectives(P, m) == SelectSeq(P[m].links, LAMBDA e : e \in Objectives(P))

\* projectMilestone: it hangs under the one its newest edge names.
Parent(P, m) == LET parents == MemberObjectives(P, m) IN parents[Len(parents)]

Milestones(P) == OfKind(P, "milestone")
Under(P, o) == {m \in Milestones(P) : Parent(P, m) = o}
MilestoneDropped(P, m) == P[m].work = "retired" \/ P[m].status = "retracted"

\* milestoneClosure: reached, closed with its objective or by itself, or open.
MilestoneClosure(P, m) ==
    IF P[m].work = "done" THEN "reached"
    ELSE IF \/ ObjectiveStatus(P, Parent(P, m)) \in {"dropped", "superseded"}
            \/ P[m].supersededBy # None
            \/ MilestoneDropped(P, m)
    THEN "closed"
    ELSE "open"
IsOpenMilestone(P, m) == MilestoneClosure(P, m) = "open"

\* exitStanding and carriedJudgments of the one criterion.
Open(P, m) == P[m].judgedUnder = None
Moved(P, m) == ~Open(P, m) /\ P[m].judgedUnder # Parent(P, m)

\* lineageCurrent: an edge to a replaced record is history once the unit also
\* names something further down that record's chain.
LineageCurrent(P, ids) ==
    LET succeeded[x \in DOMAIN P] ==
            P[x].supersededBy # None /\ (P[x].supersededBy \in ids \/ succeeded[P[x].supersededBy])
    IN {x \in ids : ~succeeded[x]}

ContributesTo(P, w) ==
    LineageCurrent(P, Range(P[w].links) \cap Objectives(P))
        \cup LineageCurrent(P, Range(P[w].links) \cap Milestones(P))

\* awaitsReview, workStatusOf, and which work records are units at all.
AwaitsReview(P, w) == P[w].bornProposed /\ P[w].status \in Live /\ ~P[w].accepted
WorkStatus(P, w) == IF P[w].work = "next" /\ AwaitsReview(P, w) THEN "review" ELSE P[w].work
Works(P) == {w \in OfKind(P, "work") : P[w].confirmedOnce \/ AwaitsReview(P, w)}
OpenWorks(P) == {w \in Works(P) : WorkStatus(P, w) \notin Ended}

\* targetClosure: what a contribution may name.
IsOpen(P, x) == IF P[x].kind = "objective" THEN IsOpenObjective(P, x) ELSE IsOpenMilestone(P, x)

\* terminalObjective and currentMilestone: the live end of a record's chain.
Terminal(P, x) ==
    LET end[e \in DOMAIN P] == IF Heir(P, e) = None THEN e ELSE end[Heir(P, e)] IN end[x]

-----------------------------------------------------------------------------
(* The verbs.  Each reads the clone's fold P, refuses or appends its events  *)
(* at once, and folds again.                                                 *)

Total == Len(shared) + Len(FlattenSeq(SetToSeq({tail[c] : c \in Clones})))

Init == /\ acts = 0 /\ shared = Seed
        /\ known = [c \in Clones |-> Len(Seed)] /\ tail = [c \in Clones |-> <<>>]
        /\ plan = [c \in Clones |-> DeriveEntities(Seed)]

\* writeThrough: one append, then the fold.
Record(c, verb, events) ==
    /\ acts < Len(Verbs) /\ verb \in Verbs[acts + 1]
    /\ acts' = acts + 1
    /\ tail' = [tail EXCEPT ![c] = @ \o [i \in DOMAIN events |-> [events[i] EXCEPT !.id = Total + i]]]
    /\ plan' = [plan EXCEPT ![c] = DeriveEntities(SubSeq(shared, 1, known[c]) \o tail'[c])]
    /\ UNCHANGED <<shared, known>>

New == Total + 1
Create(type, kind) == [Blank EXCEPT !.type = type, !.kind = kind]
Event(type, e, ref) == [Blank EXCEPT !.type = type, !.entity = e, !.ref = ref]

\* Mutant: only the checkpoints are carried.
CarryEventsOfMilestones(P, records) ==
    [i \in DOMAIN SetToSeq(records \cap Milestones(P)) |-> Event("linked", SetToSeq(records \cap Milestones(P))[i], New)]

\* carryEvents: one edge to the successor for each record carried.
CarryEvents(P, records) == [i \in DOMAIN SetToSeq(records) |-> Event("linked", SetToSeq(records)[i], New)]

LiveMilestones(P, o) == {m \in Under(P, o) : ~MilestoneDropped(P, m) /\ P[m].supersededBy = None}
CarriedUnits(P, x) == {w \in Works(P) : x \in ContributesTo(P, w) /\ WorkStatus(P, w) # "retired"}

ObjectiveAdd(c, P) == \E type \in Creations, old \in {{}} \cup {{o} : o \in Objectives(P)} :
    Record(c, "objective", <<[Create(type, "objective") EXCEPT !.replaces = old]>>)

ConfirmObjective(c, P) == \E o \in Objectives(P) :
    /\ ObjectiveStatus(P, o) = "proposed"
    /\ Record(c, "confirm objective", <<Event("confirmed", o, o)>>)

DeclineObjective(c, P) == \E o \in Objectives(P) :
    /\ ObjectiveStatus(P, o) = "proposed"
    /\ Record(c, "decline objective", <<Event("retracted", o, None)>>)

ObjectiveRevise(c, P) == \E o \in Objectives(P) :
    /\ ~IsTerminalObjective(P, o) /\ ObjectiveStatus(P, o) # "superseded"
    /\ Record(c, "revise objective",
           <<[Create("asserted", "objective") EXCEPT !.replaces = {o}, !.why = TRUE]>>
               \o CarryEvents(P, LiveMilestones(P, o) \cup CarriedUnits(P, o)))

\* Reached is refused while a checkpoint under it is open, dropped is not.
ObjectiveClose(c, P) == \E o \in Objectives(P), as \in Ended :
    /\ ~IsTerminalObjective(P, o)
    /\ as = "done" => \A m \in Under(P, o) : ~IsOpenMilestone(P, m)
    /\ Record(c, "close objective", <<Event(as, o, None)>>)

MilestoneAdd(c, P) == \E o \in Objectives(P) : \E old \in {{}} \cup {{m} : m \in Under(P, o)} :
    Record(c, "milestone", <<[Create("asserted", "milestone") EXCEPT !.under = <<o>>, !.replaces = old]>>)

\* The successor hangs under the current parent, its criterion uncovered.
MilestoneRevise(c, P) == \E m \in Milestones(P) :
    /\ P[m].supersededBy = None /\ ~MilestoneDropped(P, m)
    /\ Record(c, "revise milestone",
           <<[Create("asserted", "milestone") EXCEPT !.under = <<Parent(P, m)>>, !.replaces = {m}, !.why = TRUE]>>
               \o CarryEvents(P, CarriedUnits(P, m)))

MilestoneDrop(c, P) == \E m \in Milestones(P) :
    IsOpenMilestone(P, m) /\ Record(c, "drop milestone", <<Event("retired", m, None)>>)

\* coveragePayload: a judgment states the objective it was made under.
MilestoneMet(c, P) == \E m \in Milestones(P) :
    Open(P, m) /\ Record(c, "meet", <<Event("covered", m, Parent(P, m))>>)

\* The judgment lands on the live end of the named record's chain.
MilestoneRecheck(c, P) == \E m \in Milestones(P) :
    /\ P[Terminal(P, m)].judgedUnder # Parent(P, Terminal(P, m))
    /\ Record(c, "recheck", <<Event("covered", Terminal(P, m), Parent(P, Terminal(P, m)))>>)

MilestoneReach(c, P) == \E m \in Milestones(P) :
    /\ P[m].work # "done" /\ ~Open(P, m)
    /\ Record(c, "reach", <<Event("done", m, None)>>)

\* requireSupersedableWork: a unit that has not ended and is not under review.
Supersedable(P) == {w \in OpenWorks(P) : WorkStatus(P, w) # "review"}

WorkAdd(c, P) ==
    \/ Record(c, "work", <<Create("asserted", "work")>>)
    \/ \E old \in Supersedable(P) :
           Record(c, "work", <<Create("asserted", "work"), Event("retired", old, New)>>)

Outcomes(P) == {x \in Objectives(P) \cup Milestones(P) : IsOpen(P, x)}

CmdPropose(c, P) == \E gap \in {None} \cup Outcomes(P), old \in {None} \cup Supersedable(P) :
    Record(c, "propose", <<[Create("proposed", "work") EXCEPT !.gap = gap, !.carries = old]>>)

\* requireOpenGap and acceptedTarget: what an acceptance is refused for.
GapOpen(P, w) == \A x \in {P[w].gap} \ {None} : IsOpen(P, x)
TargetStands(P, w) == \A x \in {P[w].carries} \ {None} : WorkStatus(P, x) \notin Ended

\* acceptEvents and recordAcceptance: the acceptance, the edge toward its gap
\* and the retirement it carries are one append.
AcceptEvents(P, w) ==
    <<Event("confirmed", w, P[w].current)>>
    \o (IF P[w].gap = None \/ P[w].gap \in Range(P[w].links) THEN <<>> ELSE <<Event("linked", w, P[w].gap)>>)
    \o (IF P[w].carries = None THEN <<>> ELSE <<Event("retired", P[w].carries, w)>>)

WorkConfirm(c, P) == \E w \in OfKind(P, "work") :
    /\ AwaitsReview(P, w) /\ GapOpen(P, w) /\ TargetStands(P, w)
    /\ Record(c, "accept", AcceptEvents(P, w))

WorkDecline(c, P) == \E w \in OfKind(P, "work") :
    AwaitsReview(P, w) /\ Record(c, "decline", <<Event("retracted", w, None)>>)

\* refuseUnrevisable: a proposal that has neither started nor ended.
Revisable(P) == {w \in OfKind(P, "work") :
    P[w].bornProposed /\ P[w].status \in Live /\ P[w].work \notin Ended /\ ~P[w].startedOnce}

\* A restatement, and with a gap named the edge an acceptance wrote withdrawn.
CmdWorkRevise(c, P) == \E w \in Revisable(P) :
    \/ Record(c, "restate", <<Event("revised", w, None)>>)
    \/ \E gap \in Outcomes(P) :
        /\ P[w].gap # None
        /\ Record(c, "retarget", <<Event("revised", w, gap)>>
               \o (IF P[w].gap \in Range(P[w].links) THEN <<Event("unlinked", w, P[w].gap)>> ELSE <<>>))

WorkStart(c, P) == \E w \in OpenWorks(P) :
    WorkStatus(P, w) # "review" /\ Record(c, "start", <<Event("started", w, None)>>)

WorkDone(c, P) == \E w \in OpenWorks(P) : Record(c, "done", <<Event("done", w, None)>>)

WorkRetire(c, P) == \E w \in OpenWorks(P) :
    \E heir \in {None} \cup {v \in Works(P) \ {w} : WorkStatus(P, v) # "retired"} :
        Record(c, "retire", <<Event("retired", w, heir)>>)

WorkLink(c, P) == \E w \in Works(P), x \in Outcomes(P) :
    x \notin Range(P[w].links) /\ Record(c, "link", <<Event("linked", w, x)>>)

WorkUnlink(c, P) == \E w \in Works(P) : \E x \in Range(P[w].links) :
    Record(c, "unlink", <<Event("unlinked", w, x)>>)

\* syncStore: what is pulled goes ahead of the tail, is folded and is pushed.
Sync(c) ==
    /\ tail[c] # <<>> \/ known[c] < Len(shared)
    /\ shared' = shared \o tail[c]
    /\ known' = [known EXCEPT ![c] = Len(shared')]
    /\ tail' = [tail EXCEPT ![c] = <<>>]
    /\ plan' = [plan EXCEPT ![c] = DeriveEntities(shared')]
    /\ UNCHANGED acts

Next == \E c \in Clones :
    \/ Sync(c)
    \/ \E P \in {plan[c]} :
        \/ ObjectiveAdd(c, P) \/ ConfirmObjective(c, P) \/ DeclineObjective(c, P)
        \/ ObjectiveRevise(c, P) \/ ObjectiveClose(c, P)
        \/ MilestoneAdd(c, P) \/ MilestoneRevise(c, P) \/ MilestoneDrop(c, P)
        \/ MilestoneMet(c, P) \/ MilestoneRecheck(c, P) \/ MilestoneReach(c, P)
        \/ WorkAdd(c, P) \/ CmdPropose(c, P) \/ WorkConfirm(c, P) \/ WorkDecline(c, P)
        \/ CmdWorkRevise(c, P) \/ WorkStart(c, P) \/ WorkDone(c, P) \/ WorkRetire(c, P)
        \/ WorkLink(c, P) \/ WorkUnlink(c, P)

Spec == Init /\ [][Next]_vars
-----------------------------------------------------------------------------
(* Properties *)

Appended(c) == SubSeq(tail'[c], Len(tail[c]) + 1, Len(tail'[c]))
Recorded(c) == acts' # acts /\ tail'[c] # tail[c]
Replaced(ev) == CHOOSE x \in ev.replaces : TRUE

\* A revision of an outcome leaves nothing behind: every live checkpoint stands
\* under the successor as it stood, and every unit that contributed to the old
\* record contributes to the new one instead, and to all else as before.
RevisionCarries == [][\A c \in Clones : (Recorded(c) /\ Appended(c)[1].why) =>
    LET new == Appended(c)[1].id old == Replaced(Appended(c)[1]) P == plan[c] Q == plan'[c] IN
    /\ P[old].kind = "milestone" => Parent(Q, new) = Parent(P, old)
    /\ P[old].kind = "objective" => \A m \in LiveMilestones(P, old) :
          Parent(Q, m) = new /\ MilestoneClosure(Q, m) = MilestoneClosure(P, m)
    /\ \A w \in Works(P) : ContributesTo(Q, w) =
          IF w \in CarriedUnits(P, old) THEN (ContributesTo(P, w) \ {old}) \cup {new} ELSE ContributesTo(P, w)]_vars

\* What is over stays over, whatever a merge brings: a closed objective never
\* reads open again, nor a milestone that was reached, dropped or replaced
\* (a milestone closed with its objective may be carried to an open one).
OutcomesStayClosed == [][\A c \in {d \in Clones : plan'[d] # plan[d]} : LET P == plan[c] Q == plan'[c] IN
    /\ \A o \in Objectives(P) : ~IsOpenObjective(P, o) => ~IsOpenObjective(Q, o)
    /\ \A m \in Milestones(P) :
          (P[m].work \in Ended \/ P[m].status \notin Live) => ~IsOpenMilestone(Q, m)]_vars

=============================================================================
