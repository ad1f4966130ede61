----------------------------- MODULE EntityFold -----------------------------
(***************************************************************************)
(* The records `self state` keeps (state.ts), what an undo takes back      *)
(* (undo.ts), and the fold both read (entities.ts): every clone of a       *)
(* project appends events to its own log, pulls the shared one ahead of    *)
(* what it has not pushed, and folds what it holds.                        *)
(*                                                                         *)
(* Events are numbered in the order they are made; the event that creates  *)
(* a record is its id.  A clone's clock runs Skew[c] events ahead, and the *)
(* fold orders by (timestamp, id), as the undo does.  Of a record the      *)
(* model keeps its status, what it replaces and by what it is replaced,    *)
(* whether it was ever confirmed, its working state and its claim.         *)
(***************************************************************************)
EXTENDS LogFold, FiniteSets

CONSTANTS
    Clones,      \* checkouts with a log of their own, one session in each
    Skew,        \* how far each clone's clock runs ahead
    Verbs,       \* the verbs a run lets the clones use
    MaxEvents    \* bound on the events made

ASSUME FoldAssumption == Skew \in [Clones -> Nat] /\ MaxEvents \in Nat

VARIABLES
    made,        \* how many events have been made: the next one's id
    shared,      \* the log the clones push to
    known,       \* how much of it each clone has pulled
    tail,        \* what each clone has appended and not pushed
    view         \* the records each clone folded its log to, last

vars == <<made, shared, known, tail, view>>

None == 0
Nobody == "nobody"
Creations == {"add", "propose"}
Executions == {"started", "blocked", "unblocked", "done", "retired"}
Live == {"proposed", "confirmed"}
Terminal == {"done", "retired"}


\* What a clone holds: the shared log as pulled, then its own unpushed tail.
ReadEvents(c) == SubSeq(shared, 1, known[c]) \o tail[c]

-----------------------------------------------------------------------------
(* The fold (entities.ts), pass by pass. *)

\* (ts, event id): the order every collected transition is applied in.
After(a, b) == a.ts > b.ts \/ (a.ts = b.ts /\ a.id > b.id)
Place(E, ev) == Cardinality({x \in E : ~After(x, ev)})
Ordered(E) == [n \in 1..Cardinality(E) |-> CHOOSE ev \in E : Place(E, ev) = n]

\* collectAnnulled, before anything folds.
Annulments(L) == {ev \in Range(L) : ev.type = "annulled"}
Annulled(L) == {a.annuls : a \in Annulments(L)}
Narrowed(L) == {a.annuls : a \in {b \in Annulments(L) : b.narrow}}

UndoneCreation(L, ev) == ev.id \in Annulled(L) /\ ev.id \notin Narrowed(L)

\* Mutant: an annulled creation keeps what it claims to replace.
CreatedLinksAlways(L, ev) == ev.replaces
CreatedLinks(L, ev) == IF ev.id \in Annulled(L) THEN {} ELSE ev.replaces

NewEntity(L, ev) ==
    [status |-> IF UndoneCreation(L, ev) THEN "undone"
                ELSE IF ev.type = "add" THEN "confirmed" ELSE "proposed",
     confirmedOnce |-> ev.type = "add",
     links |-> CreatedLinks(L, ev),
     supersededBy |-> None,
     work |-> "open",
     claim |-> Nobody]

\* createEntity: a record is named by the one event that creates it.
CreatedBy(L) == {ev \in Range(L) : ev.type \in Creations}
Created(L) ==
    [e \in {ev.id : ev \in CreatedBy(L)} |-> NewEntity(L, CHOOSE ev \in CreatedBy(L) : ev.id = e)]

\* applyConfirms: an acceptance answers only a proposal.
Confirm(t, ev) ==
    IF ev.entity \in DOMAIN t /\ t[ev.entity].status = "proposed"
    THEN [t EXCEPT ![ev.entity].status = "confirmed", ![ev.entity].confirmedOnce = TRUE]
    ELSE t

Retract(t, ev) ==
    IF ev.entity \in DOMAIN t /\ t[ev.entity].status \in Live
    THEN [t EXCEPT ![ev.entity].status = "retracted"]
    ELSE t

Replace(t, s) == [e \in DOMAIN t |->
    IF e \in t[s].links /\ t[e].status \in Live
    THEN [t[e] EXCEPT !.status = "superseded", !.supersededBy = s] ELSE t[e]]

\* Mutant: only a record that still stands replaces another.
SupersedeIfLive(t, ev) ==
    IF ev.type \in Creations /\ t[ev.id].confirmedOnce /\ t[ev.id].status \in Live
    THEN Replace(t, ev.id) ELSE t

\* One record's links: a single step, from a record once confirmed onto live ones.
Supersede(t, ev) == IF ev.type \in Creations /\ t[ev.id].confirmedOnce THEN Replace(t, ev.id) ELSE t

\* nextExecution: what the verbs would have refused is dropped.
NextExecution(work, type) ==
    CASE type = "started" /\ work # "blocked" -> "in-progress"
      [] type = "blocked" -> "blocked"
      [] type = "unblocked" /\ work = "blocked" -> "in-progress"
      [] type \in Terminal -> type
      [] OTHER -> work

\* applyExecution: done and retired are terminal.
Execute(t, ev) ==
    IF ev.entity \in DOMAIN t /\ t[ev.entity].work \notin Terminal
    THEN [t EXCEPT ![ev.entity].work = NextExecution(@, ev.type),
                   ![ev.entity].claim = IF ev.type = "started" THEN ev.by ELSE @]
    ELSE t

\* A collected transition; a replacement is settled in the order of the lines.
Settle(t, ev) ==
    CASE ev.type = "confirmed" -> Confirm(t, ev)
      [] ev.type = "retracted" -> Retract(t, ev)
      [] OTHER -> Execute(t, ev)

Standing(L, types) == {ev \in Range(L) : ev.type \in types /\ ev.id \notin Annulled(L)}

SettleAll(t, events) == InTurn(Settle, t, events)
ApplyConfirms(L, t) == SettleAll(t, Ordered(Standing(L, {"confirmed"})))
ApplyRetractions(L, t) == SettleAll(t, Ordered(Standing(L, {"retracted"})))
ApplySupersessions(L, t) == InTurn(Supersede, t, L)
ApplyExecutions(L, t) == SettleAll(t, Ordered(Standing(L, Executions)))

\* Mutant: a replacement is settled before a withdrawal.
DeriveSupersededFirst(L) ==
    ApplyExecutions(L, ApplyRetractions(L, ApplySupersessions(L, ApplyConfirms(L, Created(L)))))
DeriveEntities(L) ==
    ApplyExecutions(L, ApplySupersessions(L, ApplyRetractions(L, ApplyConfirms(L, Created(L)))))

-----------------------------------------------------------------------------
(* The verbs: each folds the log it reads, refuses or appends, and folds    *)
(* again (writeThrough).                                                    *)

Init == /\ made = 0 /\ shared = <<>>
        /\ known = [c \in Clones |-> 0] /\ tail = [c \in Clones |-> <<>>]
        /\ view = [c \in Clones |-> <<>>]

FoldProject(c, log) == view' = [view EXCEPT ![c] = DeriveEntities(log)]

Event(c, type, e) ==
    [id |-> made + 1, type |-> type, entity |-> e, replaces |-> {}, annuls |-> None,
     narrow |-> FALSE, by |-> c, ts |-> made + 1 + Skew[c]]

Record(c, verb, event) ==
    /\ verb \in Verbs /\ made < MaxEvents
    /\ made' = made + 1
    /\ tail' = [tail EXCEPT ![c] = Append(@, event)]
    /\ FoldProject(c, Append(ReadEvents(c), event))
    /\ UNCHANGED <<shared, known>>

InStatus(c, statuses) == {e \in DOMAIN view[c] : view[c][e].status \in statuses}

\* state add, --proposed and --supersedes <a live record>.
Add(c) == \E type \in Creations, old \in {{}} \cup {{e} : e \in InStatus(c, Live)} :
    Record(c, type, [Event(c, type, made + 1) EXCEPT !.replaces = old])

StateConfirm(c) == \E e \in InStatus(c, {"proposed"}) :
    Record(c, "confirm", Event(c, "confirmed", e))

StateRetract(c) == \E e \in InStatus(c, Live) :
    Record(c, "retract", Event(c, "retracted", e))

\* executionTarget and requireMovable.
Movable(c, works) == {e \in InStatus(c, {"confirmed"}) : view[c][e].work \in works}

\* A start by the session that holds the claim records nothing; one by another
\* records where the holder's session has ended.
StateStart(c) == \E e \in Movable(c, {"open", "in-progress"}) :
    view[c][e].claim # c /\ Record(c, "start", Event(c, "started", e))

StateBlock(c) == \E e \in Movable(c, {"open", "in-progress"}) :
    Record(c, "block", Event(c, "blocked", e))

StateUnblock(c) == \E e \in Movable(c, {"blocked"}) :
    Record(c, "block", Event(c, "unblocked", e))

\* state done, and the execution that retires the work.
StateDone(c) == \E e \in Movable(c, {"open", "in-progress", "blocked"}), type \in Terminal :
    Record(c, "done", Event(c, type, e))

\* The records an event names, and what stands on event b: every kind here is
\* one whose record has moved on since (undo.ts).
Names(a) == {a.entity} \cup a.replaces
Dependents(L, b) ==
    {a \in Range(L) : /\ a.type # "annulled" /\ a.id \notin Annulled(L)
                      /\ After(a, b) /\ b.entity \in Names(a)}

\* self undo [--supersession]: what was built on is refused, and so is an undo.
Undo(c) ==
    LET L == ReadEvents(c) IN
    \E b \in {a \in Range(L) : a.type # "annulled" /\ a.id \notin Annulled(L)}, narrow \in BOOLEAN :
        /\ Dependents(L, b) = {}
        /\ Record(c, IF narrow THEN "narrow" ELSE "undo",
                  [Event(c, "annulled", b.entity) EXCEPT !.annuls = b.id, !.narrow = narrow])

-----------------------------------------------------------------------------
(* syncStore (sync.ts): a rebase puts the shared log ahead of the tail and   *)
(* folds it again; a push is refused until nothing is left to pull.         *)

Pull(c) ==
    /\ known[c] < Len(shared)
    /\ known' = [known EXCEPT ![c] = Len(shared)]
    /\ FoldProject(c, shared \o tail[c])
    /\ UNCHANGED <<made, shared, tail>>

Push(c) ==
    /\ known[c] = Len(shared) /\ tail[c] # <<>>
    /\ shared' = shared \o tail[c]
    /\ known' = [known EXCEPT ![c] = Len(shared')]
    /\ tail' = [tail EXCEPT ![c] = <<>>]
    /\ UNCHANGED <<made, view>>

Next == \E c \in Clones :
    \/ Add(c) \/ StateConfirm(c) \/ StateRetract(c)
    \/ StateStart(c) \/ StateBlock(c) \/ StateUnblock(c) \/ StateDone(c)
    \/ Undo(c) \/ Push(c) \/ Pull(c)

Spec == Init /\ [][Next]_vars
-----------------------------------------------------------------------------
(* Properties *)

Statuses == {"proposed", "confirmed", "superseded", "retracted", "undone"}
Works == {"open", "in-progress", "blocked", "done", "retired"}

\* What a log says of a record whatever its order: undone before withdrawn,
\* withdrawn before replaced, replaced only by what was once confirmed.
Standers(L) == {ev \in Range(L) : ev.id \notin Annulled(L)}
Says(L, type, e) == \E ev \in Standers(L) : ev.type = type /\ ev.entity = e
Accepted(L, ev) == ev.type = "add" \/ (~UndoneCreation(L, ev) /\ Says(L, "confirmed", ev.id))
Replaced(L, e) == \E ev \in Standers(L) : e \in ev.replaces /\ Accepted(L, ev)
Meaning(L, ev) ==
    CASE UndoneCreation(L, ev) -> "undone"
      [] ~UndoneCreation(L, ev) /\ Says(L, "retracted", ev.id) -> "retracted"
      [] ~UndoneCreation(L, ev) /\ ~Says(L, "retracted", ev.id) /\ Replaced(L, ev.id) -> "superseded"
      [] OTHER -> IF Accepted(L, ev) THEN "confirmed" ELSE "proposed"

\* The passes of the fold, each over records the one before it changed, come
\* to what the events say taken together: deriveEntities and its order.
FoldsToItsMeaning == \A c \in Clones : LET L == ReadEvents(c) IN
    \A ev \in Range(L) : ev.type \in Creations => view[c][ev.id].status = Meaning(L, ev)

\* The events that take record e out of the live set.
TookOut(L, e) == {ev \in Range(L) :
    \/ ev.type = "retracted" /\ ev.entity = e
    \/ e \in ev.replaces
    \/ ev.type = "confirmed" /\ \E s \in Range(L) : s.id = ev.entity /\ e \in s.replaces}
Became(c) == Annulled(ReadEvents(c)') \ Annulled(ReadEvents(c))

\* On no clone does a record that was undone, withdrawn or replaced stand
\* again, or work that ended go on, whatever a merge brings, unless what took
\* it out or ended it has been annulled: an undo is never undone, but that one
\* of its links alone gives a record back that another clone undid whole.
NothingRevives == [][\A c \in Clones : LET t == view[c] now == view'[c] IN \A e \in DOMAIN t :
    /\ t[e].status = "undone" /\ e \notin Narrowed(ReadEvents(c)') => now[e].status = "undone"
    /\ (t[e].status \in {"retracted", "superseded"} /\ now[e].status \in Live) =>
           \E ev \in TookOut(ReadEvents(c)', e) : ev.id \in Became(c)
    /\ (t[e].work \in Terminal /\ now[e].work \notin Terminal) =>
           \E ev \in Range(ReadEvents(c)') :
               ev.id \in Became(c) /\ ev.entity = e /\ ev.type \in Terminal]_vars

Recorded(c) == tail'[c][Len(tail'[c])]
RecordedBy(c) == made' # made /\ tail'[c] # tail[c]
Without(L, i) == [n \in DOMAIN L |-> IF L[n].id = i THEN [L[n] EXCEPT !.type = "none"] ELSE L[n]]

\* An undo leaves every other record as if the event had never been written,
\* and its own record undone, or as it stood where only its links went.
UndoRestores == [][\A c \in Clones : (RecordedBy(c) /\ Recorded(c).annuls # None) =>
    LET ev == Recorded(c) without == DeriveEntities(Without(ReadEvents(c), ev.annuls)) now == view'[c] IN
    /\ \A e \in DOMAIN without : now[e] = without[e]
    /\ \A e \in DOMAIN now \ DOMAIN without :
          now[e].status = IF ev.narrow THEN view[c][e].status ELSE "undone"]_vars
=============================================================================
