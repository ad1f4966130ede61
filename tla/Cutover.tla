------------------------------ MODULE Cutover -------------------------------
(***************************************************************************)
(* A log of two generations, folded once (fold/src/model.ts).  An older CLI *)
(* wrote lines of each kind's own (decision.confirmed, convention.dropped,  *)
(* objective.closed); a current one writes entity.* lines for records of    *)
(* every kind, and on the records of the older lines too.  The older lines  *)
(* fold to statement records, those to entities, the entity lines settle    *)
(* over all entities, and what they settled goes back onto the records.     *)
(*                                                                         *)
(* The records of a log are of one kind, kind, each named by the line that  *)
(* made it.  A merge puts a line anywhere, so a line may be written in any  *)
(* place of the log; its id is its time.                                    *)
(***************************************************************************)
EXTENDS LogFold, FiniteSets

CONSTANTS
    Kinds,       \* which kinds of statement
    MaxLines     \* bound on the lines of a log

ASSUME CutoverAssumption == Kinds \subseteq {"decision", "convention", "objective"} /\ MaxLines \in Nat

VARIABLES
    kind,        \* the kind of the records of this log
    history      \* its lines

cutoverVars == <<kind, history>>

NoLine == 0

-----------------------------------------------------------------------------
(* The statement records (applyDecision, applyConvention, applyObjective):  *)
(* what each says of itself, and what it replaces.                          *)

Stands == [decision |-> "confirmed", convention |-> "current", objective |-> "active"][kind]
Withdrawn == [decision |-> "retracted", convention |-> "dropped", objective |-> "dropped"][kind]

Statement(ev) ==
    [status |-> IF ev.type = "old proposed" THEN "proposed" ELSE Stands, links |-> ev.replaces]

Set(m, ids, status) ==
    [id \in DOMAIN m |-> IF id \in ids THEN [m[id] EXCEPT !.status = status] ELSE m[id]]
With(m, ev) == [id \in DOMAIN m \cup {ev.id} |-> IF id = ev.id THEN Statement(ev) ELSE m[id]]

\* applySupersedes and closeConventions: what may still be replaced.
Replaceable(m, ids) ==
    {id \in ids \cap DOMAIN m : IF kind = "convention" THEN m[id].status = "current"
                                ELSE m[id].status \notin {"retracted", "declined"}}

\* linkDecision, linkConvention and applyToObjective: the half of a line that
\* speaks about another record.
Link(m, ev) ==
    LET t == ev.of is == IF t \in DOMAIN m THEN m[t].status ELSE "absent" IN
    CASE ev.type = "old confirmed" /\ is = "proposed" ->
            Set(IF kind = "decision" THEN Set(m, Replaceable(m, m[t].links), "superseded") ELSE m,
                {t}, Stands)
      [] ev.type = "old declined" /\ is \in (IF kind = "decision" THEN {"proposed", Stands} ELSE {"proposed"}) ->
            Set(m, {t}, "declined")
      [] ev.type \in {"old retracted", "old reached"} /\ is \in {"proposed", Stands} ->
            Set(m, {t}, IF ev.type = "old reached" THEN "reached" ELSE Withdrawn)
      [] ev.type = "old added" /\ kind = "convention" -> Set(m, Replaceable(m, ev.replaces), "superseded")
      [] OTHER -> m

ApplyEvent(m, ev) ==
    CASE ev.type = "old proposed" -> With(m, ev)
      [] ev.type = "old added" ->
            CASE kind = "decision" -> With(Set(m, Replaceable(m, ev.replaces), "superseded"), ev)
              [] kind = "convention" -> Link(With(m, ev), ev)
              [] OTHER -> With(m, ev)
      [] OTHER -> Link(m, ev)

Applied(L) == InTurn(ApplyEvent, <<>>, L)

\* applySupersededObjectives: a record that is not proposed displaces.
SupersededObjectives(m) ==
    IF kind # "objective" THEN m
    ELSE Set(m, {id \in DOMAIN m : /\ m[id].status \notin {"reached", "declined"}
                                   /\ \E s \in DOMAIN m : id \in m[s].links /\ m[s].status # "proposed"},
             "superseded")

\* Mutant of Statements: the lines are read once.
StatementsOnce(L) == SupersededObjectives(Applied(L))

\* foldLog and reconcileLifecycle: the links once more, over every record.
Relinked(m, L) == InTurn(Link, m, L)
Statements(L) == SupersededObjectives(Relinked(Applied(L), L))

-----------------------------------------------------------------------------
(* The entities (deriveEntities), the statement records among them          *)

Live == {"proposed", "confirmed"}
Annulled(L) == {ev.annuls : ev \in {a \in Range(L) : a.type = "annulled"}}

OfStatement(r) ==
    [status |-> CASE r.status = Stands -> "confirmed" [] r.status \in {"proposed", "superseded"} -> r.status
                  [] OTHER -> "retracted",
     links |-> r.links, once |-> r.status \notin {"proposed", "declined"}, work |-> "open"]

OfCreation(L, ev) ==
    LET undone == ev.id \in Annulled(L) IN
    [status |-> IF undone THEN "undone" ELSE IF ev.type = "added" THEN "confirmed" ELSE "proposed",
     links |-> IF undone THEN {} ELSE ev.replaces, once |-> ev.type = "added", work |-> "open"]

Natives(L) == {ev \in Range(L) : ev.type \in {"proposed", "added"}}

Confirm(e, ev) == IF e[ev.of].status = "proposed"
                  THEN [e EXCEPT ![ev.of].status = "confirmed", ![ev.of].once = TRUE] ELSE e
Retract(e, ev) == IF e[ev.of].status \in Live THEN [e EXCEPT ![ev.of].status = "retracted"] ELSE e
Execute(e, ev) == IF e[ev.of].work = "open" THEN [e EXCEPT ![ev.of].work = ev.type] ELSE e

\* One of the three, by what the event says; and what some of them settle, in
\* the order of the clock.
Settled(e, ev) == CASE ev.type = "confirmed" -> Confirm(e, ev)
                    [] ev.type = "retracted" -> Retract(e, ev)
                    [] ev.type \in {"done", "retired"} -> Execute(e, ev)
Passed(e, E) == OverTime(Settled, e, E)

\* The events of these types that no undo took back.
InForce(L, types) == {ev \in Range(L) : ev.type \in types /\ ev.id \notin Annulled(L)}

Supersessions(e) ==
    Set(e, {id \in DOMAIN e : e[id].status \in Live /\ \E s \in DOMAIN e : e[s].once /\ id \in e[s].links},
        "superseded")

MadeOf(L, m) ==
    [id \in DOMAIN m \cup {ev.id : ev \in Natives(L)} |->
        IF id \in DOMAIN m THEN OfStatement(m[id])
        ELSE OfCreation(L, CHOOSE ev \in Natives(L) : ev.id = id)]

DeriveEntities(L, m) ==
    LET answered == Passed(MadeOf(L, m), InForce(L, {"confirmed"}))
        withdrawn == Passed(answered, InForce(L, {"retracted"}))
    IN  Passed(Supersessions(withdrawn), InForce(L, {"done", "retired"}))

-----------------------------------------------------------------------------
(* The joint: what the entity lines settled, back onto the records          *)

\* Mutant of Synced: an acceptance is not brought back.
SyncedUnanswered(r, e) ==
    IF r.status \notin {"proposed", Stands} \/ e.status \in Live THEN r.status
    ELSE IF e.status = "superseded" /\ r.status = Stands THEN "superseded" ELSE Withdrawn

Finished(e) == IF e.work = "done" THEN "reached" ELSE "dropped"

\* syncDecision, syncConvention, syncObjective: only a record that stands.
Synced(r, e) ==
    IF r.status \notin {"proposed", Stands} THEN r.status
    ELSE IF e.work # "open" THEN Finished(e)
    ELSE CASE e.status = "superseded" -> "superseded"
           [] e.status = "retracted" -> IF r.status = "proposed" THEN "declined" ELSE Withdrawn
           [] e.status = "confirmed" -> Stands
           [] OTHER -> r.status

\* projectDecision, projectConvention, objectiveStatusOf: a native record.
Projected(e) ==
    IF e.status # "undone" /\ e.work # "open" THEN Finished(e)
    ELSE CASE e.status \in {"undone", "superseded"} -> e.status
           [] e.status = "confirmed" -> Stands
           [] e.status = "proposed" -> IF kind = "convention" THEN Stands ELSE "proposed"
           [] OTHER -> IF kind = "convention" \/ e.once THEN Withdrawn ELSE "declined"

BroughtBack(m, e) ==
    [id \in DOMAIN e |->
        [status |-> IF id \in DOMAIN m THEN Synced(m[id], e[id]) ELSE Projected(e[id]),
         links |-> e[id].links]]

\* What every fold of a log says of it.
Readings(L) ==
    LET m == Statements(L) e == DeriveEntities(L, m) IN
    [entity |-> e, record |-> SupersededObjectives(BroughtBack(m, e))]

-----------------------------------------------------------------------------
(* The log                                                                 *)

Line(type) == [id |-> Len(history) + 1, type |-> type, of |-> NoLine, replaces |-> {}, annuls |-> NoLine]
Made == {ev.id : ev \in {a \in Range(history) : a.type \in {"old proposed", "old added", "proposed", "added"}}}
OldMade == {ev.id : ev \in {a \in Range(history) : a.type \in {"old proposed", "old added"}}}

Write(line) ==
    /\ Len(history) < MaxLines /\ UNCHANGED kind
    /\ \E at \in 1..(Len(history) + 1) : history' = InsertAt(history, at, line)

\* The lines an older CLI wrote of each kind.
OldTypes == CASE kind = "decision" -> {"old confirmed", "old declined", "old retracted"}
              [] kind = "convention" -> {"old retracted"}
              [] OTHER -> {"old confirmed", "old declined", "old retracted", "old reached"}
OldCreate == \E type \in {"old added"} \cup (IF kind = "convention" THEN {} ELSE {"old proposed"}),
                old \in {{}} \cup {{id} : id \in OldMade} :
    Write([Line(type) EXCEPT !.replaces = old])
OldLink == \E type \in OldTypes, ev \in Range(history) :
    /\ ev.type = "old proposed" \/ (ev.type = "old added" /\ type \in {"old retracted", "old reached"})
    /\ Write([Line(type) EXCEPT !.of = ev.id])

\* The preset verbs.
Create == \E type \in {"proposed", "added"}, old \in {{}} \cup {{id} : id \in Made} :
    Write([Line(type) EXCEPT !.replaces = old])
Settle == \E type \in {"confirmed", "retracted"} \cup (IF kind = "objective" THEN {"done", "retired"} ELSE {}),
             id \in Made : Write([Line(type) EXCEPT !.of = id])
Undo == \E ev \in Range(history) :
    /\ ev.type \in {"proposed", "added", "confirmed", "retracted", "done", "retired"}
    /\ ev.id \notin Annulled(history)
    /\ Write([Line("annulled") EXCEPT !.annuls = ev.id])

CutoverInit == kind \in Kinds /\ history = <<>>
CutoverNext == OldCreate \/ OldLink \/ Create \/ Settle \/ Undo
CutoverSpec == CutoverInit /\ [][CutoverNext]_cutoverVars

-----------------------------------------------------------------------------
(* Properties                                                              *)

StandsIn(status) == status \in {"proposed", Stands}

\* Replaced by a record that never held, whose status has come to be other
\* than proposed (objectives.ts:321).
DisplacedUnheld(e, id) == kind = "objective" /\ \E s \in DOMAIN e : id \in e[s].links /\ ~e[s].once

\* model.ts:900-905: the entities and the records of both generations say the
\* same of what stands, and of a decision or a convention the same of what was
\* replaced, wherever a merge put the lines.  Only an objective that a proposal
\* was to replace, and the proposal was turned down or replaced itself, stands
\* for the one and is superseded for the other.
ReadingsAgree ==
    LET now == Readings(history) IN
    \A id \in DOMAIN now.record : LET r == now.record[id] e == now.entity[id] IN
        /\ (StandsIn(r.status) <=> e.status \in Live /\ e.work = "open") \/ DisplacedUnheld(now.entity, id)
        /\ kind # "objective" => (r.status = "superseded" <=> e.status = "superseded")

\* model.ts:857-867: what any clone withdrew, closed or finished stands on no
\* clone that has the line, though the line be above the record it names and
\* whichever generation wrote either.
WithdrawnIsOut ==
    LET now == Readings(history).record IN
    \A ev \in Range(history) :
        /\ ev.type \in {"old retracted", "old reached", "retracted", "done", "retired"}
        /\ ev.id \notin Annulled(history)
        => ~StandsIn(now[ev.of].status)
=============================================================================
