------------------------------- MODULE Tiers -------------------------------
(***************************************************************************)
(* Where the records of `self state` render, and the room they are allowed *)
(* (state.ts, entities.ts): an exposure at a target is a tier with a cap   *)
(* in tokens, an instruction charges a cap of its own, and a record enters *)
(* a full tier only by naming what demotes.                                *)
(*                                                                         *)
(* A session folds the logs of every project, judges its command on what   *)
(* it read and appends: another may have written in between.  The lines of *)
(* all logs are one set, each with the log it is in and the number of the  *)
(* write that made it; that number names the record a write creates, and   *)
(* with its record a placement.  A scope is kept resolved.  A command      *)
(* demotes at most one record.                                             *)
(***************************************************************************)
EXTENDS Integers, FiniteSets, FiniteSetsExt

CONSTANTS
    Sessions,    \* command lines open on the machine
    Projects,    \* registered projects, each with a log
    Scopes,      \* the targets a command of a run may name
    Sizes,       \* characters of the records added
    Cap,         \* tokens each tier may hold, by kind, at every target
    PerToken,    \* characters to a token
    Verbs,       \* the verbs a run lets the sessions use
    Seeds,       \* the logs a run starts from
    MaxWrites    \* bound on the writes before a command is begun

Workspace == "workspace"
Tierless == "search"
Exposures == {"full", "index", Tierless}
Kinds == {"full", "index", "instruction"}
Same == "same"
None == 0
Unread == <<>>

ASSUME TiersAssumption ==
    /\ Scopes \subseteq Projects \cup {Workspace} /\ Sizes \subseteq Nat
    /\ Cap \in [Kinds -> Nat] /\ PerToken \in Nat \ {0} /\ MaxWrites \in Nat
    /\ \A seed \in Seeds :
          /\ \E last \in seed : last.at \in Nat /\ \A l \in seed : {l.at, l.of} \subseteq 0..last.at
          /\ \A l \in seed : l.type \in {"asserted", "proposed"} => l.at = l.of

VARIABLES
    log,         \* every line written
    writes,      \* how many writes there were
    view,        \* the records they fold to
    read         \* the records each session judges its command by

tiersVars == <<log, writes, view, read>>

Line == [type |-> "none", at |-> None, in |-> Workspace, of |-> None, answers |-> None, size |-> 0,
         rule |-> FALSE, exposure |-> Same, scope |-> Same, asks |-> FALSE, admits |-> None,
         replaces |-> {}]
-----------------------------------------------------------------------------
(* The fold (entities.ts), as far as placement reads it. *)

CreatedBy(L) == {l \in L : l.type \in {"asserted", "proposed"}}
Created(L, e) == CHOOSE l \in CreatedBy(L) : l.of = e
Says(L, type, e) == \E l \in L : l.type = type /\ l.of = e
IsAnswered(L, ask) == \E l \in L : l.type = "confirmed" /\ l.of = ask.of /\ l.answers = ask.at
Accepted(L, made) == made.type = "asserted" \/ IsAnswered(L, made)
\* Mutant: what a proposal would replace is displaced while it waits.
StatusAtOnce(L, made) ==
    IF Says(L, "retracted", made.of) THEN "retracted"
    ELSE IF \E by \in CreatedBy(L) : made.of \in by.replaces THEN "superseded"
    ELSE IF Accepted(L, made) THEN "confirmed" ELSE "proposed"
Status(L, made) ==
    IF Says(L, "retracted", made.of) THEN "retracted"
    ELSE IF \E by \in CreatedBy(L) : made.of \in by.replaces /\ Accepted(L, by) THEN "superseded"
    ELSE IF Accepted(L, made) THEN "confirmed" ELSE "proposed"

\* The placements of a record, and those in force: one that is proposed pends
\* until its confirm and is then read where it stands in the order.
Placements(L, e) == {l \in L : l.type = "placed" /\ l.of = e}
InForce(L, e) == {l \in Placements(L, e) : ~l.asks \/ IsAnswered(L, l)}
Latest(lines) == CHOOSE l \in lines : \A k \in lines : k.at <= l.at
Pending(L, e) == Latest({Line} \cup (Placements(L, e) \ InForce(L, e)))
Stated(L, made, field) == Latest({made} \cup {l \in InForce(L, made.of) : l[field] # Same})[field]

Entity(L, made) ==
    [in |-> made.in, size |-> made.size, rule |-> made.rule, status |-> Status(L, made),
     current |-> ~Says(L, "done", made.of),
     exposure |-> Stated(L, made, "exposure"), scope |-> Stated(L, made, "scope"),
     pending |-> Pending(L, made.of)]

DeriveEntities(L) == [e \in {l.of : l \in CreatedBy(L)} |-> Entity(L, Created(L, e))]
-----------------------------------------------------------------------------
(* What the caps hold (state.ts).  A tier a command enters is a set of at    *)
(* most one, empty where the record goes to search.                          *)

Tokens(characters) == (characters + PerToken - 1) \div PerToken
Characters(t, E) == MapThenSumSet(LAMBDA e : t[e].size, E)
Weight(t, E) == Tokens(Characters(t, E))

TierAt(target, kind) == [target |-> target, tier |-> kind]
TierOf(target, exposure) == IF exposure = Tierless THEN {} ELSE {TierAt(target, exposure)}
ChargedCap(rule, target, exposure) ==
    IF rule THEN {TierAt(target, "instruction")} ELSE TierOf(target, exposure)

\* occupiesTier, and holdsSeat: an instruction charges its own cap and no tier.
Occupies(r) == r.status = "confirmed" /\ r.current
Seat(r) == IF Occupies(r) THEN ChargedCap(r.rule, r.scope, r.exposure) ELSE {}
Seated(t, at) == {e \in DOMAIN t : at \in Seat(t[e])}
Usage(t, at) == Weight(t, Seated(t, at))

Live == {"proposed", "confirmed"}
DemotionTarget(exposure) == IF exposure = "full" THEN "index" ELSE Tierless
Rank(exposure) == CASE exposure = "full" -> 0 [] exposure = "index" -> 1 [] exposure = Tierless -> 2

\* requireDemotable, requireDemotableSeat: what may be named to free room.
Demotable(t, at, except) == {e \in DOMAIN t \ except :
    ~t[e].rule /\ t[e].status = "confirmed" /\ t[e].scope = at.target /\ t[e].exposure = at.tier}
Demotions(t, entered, except) ==
    {{}} \cup UNION {{{e} : e \in Demotable(t, at, except)} : at \in {k \in entered : k.tier # "instruction"}}

\* requireTokenRoom: a demotion is named where the cap demands one, and only there.
RequireRoom(t, entered, adding, demoted, vacates, proposed) == \A at \in entered :
    LET wanted == Usage(t, at) - vacates + Tokens(adding) IN
    IF wanted <= Cap[at.tier] THEN demoted = {}
    ELSE \/ proposed
         \/ /\ at.tier # "instruction" /\ demoted # {}
            /\ wanted - Weight(t, demoted \cap Seated(t, at)) <= Cap[at.tier]

\* Mutant: a full record demoted finds its index seat unasked.
RequireNoDemotionRoom(t, target, demoted, vacates) == TRUE
RequireDemotionRoom(t, target, demoted, vacates) ==
    LET arriving == {e \in demoted : t[e].exposure = "full"} index == TierAt(target, "index") IN
    arriving # {} => Usage(t, index) + Weight(t, arriving) - Tokens(vacates) <= Cap["index"]

\* The placement beside the line it makes room for, in the demoted record's log.
DemotionLines(t, demoted, admit, proposed) ==
    {[Line EXCEPT !.type = "placed", !.in = t[e].in, !.of = e, !.asks = proposed, !.admits = admit,
                  !.exposure = DemotionTarget(t[e].exposure)] : e \in demoted}
-----------------------------------------------------------------------------
(* The commands. *)

TiersInit == /\ log \in Seeds /\ writes = Latest(log).at /\ view = DeriveEntities(log)
        /\ read = [s \in Sessions |-> Unread]

\* workspaceModels: the one fold a command judges by.
Look(s) ==
    /\ read[s] = Unread
    /\ \E seed \in Seeds : seed \subseteq log /\ writes < Latest(seed).at + MaxWrites
    /\ read' = [read EXCEPT ![s] = view]
    /\ UNCHANGED <<log, writes, view>>

Write(s, verb, lines) ==
    /\ verb \in Verbs
    /\ writes' = writes + 1
    /\ log' = log \cup {[l EXCEPT !.at = writes'] : l \in lines}
    /\ view' = DeriveEntities(log')
    /\ read' = [read EXCEPT ![s] = Unread]

AddLine(p, x, size, rule, exposure, target, old, proposed) ==
    [Line EXCEPT !.type = IF proposed THEN "proposed" ELSE "asserted", !.in = p, !.of = x, !.size = size,
                 !.rule = rule, !.exposure = exposure, !.scope = target, !.replaces = old]

\* entityAdd: state add, --proposed, --supersedes <a live record>, --demote.
AddRecord(s, p, size, rule, exposure, target, old, proposed, demoted) ==
    LET t == read[s] x == writes + 1
        entered == ChargedCap(rule, target, exposure)
        vacates == Weight(t, UNION {old \cap Seated(t, at) : at \in entered}) IN
    /\ RequireRoom(t, entered, size, demoted, vacates, proposed)
    /\ \A at \in entered : RequireDemotionRoom(t, at.target, demoted, 0)
    /\ Write(s, IF proposed THEN "propose" ELSE "add",
            {AddLine(p, x, size, rule, exposure, target, old, proposed)} \cup DemotionLines(t, demoted, x, proposed))

Add(s) ==
    /\ read[s] # Unread
    /\ \E p \in Projects, size \in Sizes, exposure \in Exposures, target \in Scopes, proposed \in BOOLEAN,
          rule \in IF "rule" \in Verbs THEN BOOLEAN ELSE {FALSE} :
       \E old \in {{}} \cup {{e} : e \in {r \in DOMAIN read[s] : read[s][r].in = p /\ read[s][r].status \in Live}},
          demoted \in Demotions(read[s], ChargedCap(rule, target, exposure), {}) :
          AddRecord(s, p, size, rule, exposure, target, old, proposed, demoted)

PlaceLine(t, e, exposure, target, asks) ==
    [Line EXCEPT !.type = "placed", !.in = t[e].in, !.of = e, !.exposure = exposure, !.scope = target,
                 !.asks = asks]

\* enteredTier: an instruction enters none, nor does what stays where it is.
Goes(r, exposure, target) ==
    TierAt(IF target = Same THEN r.scope ELSE target, IF exposure = Same THEN r.exposure ELSE exposure)
EnteredTier(r, exposure, target) ==
    LET goes == Goes(r, exposure, target) IN
    IF r.rule \/ goes = TierAt(r.scope, r.exposure) THEN {} ELSE TierOf(goes.target, goes.tier)
VacatedSeat(r, entered) == IF r.exposure = "index" /\ \E at \in entered : at.target = r.scope THEN r.size ELSE 0

\* statePlace: what p's session resolves, moved by exposure, scope or priority.
RendersIn(r, p) == r.scope \in {p, Workspace}
PlaceRecord(s, p, e, exposure, target, reorder, asks, demoted) ==
    LET t == read[s] r == t[e]
        goes == Goes(r, exposure, target)
        entered == EnteredTier(r, exposure, target) IN
    /\ r.in = p \/ RendersIn(r, p)
    /\ r.status \in Live
    /\ reorder \/ goes # TierAt(r.scope, r.exposure)
    /\ r.status = "proposed" => Rank(goes.tier) <= Rank(r.exposure)
    /\ RequireRoom(t, entered, r.size, demoted, 0, r.status = "proposed")
    /\ RequireDemotionRoom(t, goes.target, demoted, VacatedSeat(r, entered))
    /\ Write(s, IF asks THEN "ask" ELSE "place",
            {PlaceLine(t, e, exposure, target, asks)} \cup DemotionLines(t, demoted, e, asks))

Place(s) ==
    /\ read[s] # Unread
    /\ \E p \in Projects, e \in DOMAIN read[s], exposure \in Exposures \cup {Same}, target \in Scopes \cup {Same},
          reorder \in BOOLEAN, asks \in BOOLEAN :
       \E demoted \in Demotions(read[s], EnteredTier(read[s][e], exposure, target), {e}) :
          PlaceRecord(s, p, e, exposure, target, reorder, asks, demoted)

\* waitingMember, pairedUnit: what one confirm answers, within one project's log.
WaitsAsRecord(t, e) == t[e].status = "proposed"
WaitsAsPlacement(t, e) == t[e].status = "confirmed" /\ t[e].pending # Line
Waiting(t, p) == {e \in DOMAIN t : t[e].in = p /\ (WaitsAsRecord(t, e) \/ WaitsAsPlacement(t, e))}
Centre(t, e) ==
    LET admitted == t[e].pending.admits IN
    IF WaitsAsPlacement(t, e) /\ admitted \in Waiting(t, t[e].in) THEN admitted ELSE e

PairedUnit(t, e) ==
    {e, Centre(t, e)} \cup {r \in Waiting(t, t[e].in) : t[r].pending.admits = Centre(t, e)}

\* unitMoves: the seat a member leaves, and the one it takes.
Destination(r) == TierAt(IF r.pending.scope = Same THEN r.scope ELSE r.pending.scope,
                     IF r.pending.exposure = Same THEN r.exposure ELSE r.pending.exposure)
Moves(t, e) == WaitsAsPlacement(t, e) /\ ~t[e].rule /\ Destination(t[e]) # TierAt(t[e].scope, t[e].exposure)
From(t, e) == IF Moves(t, e) THEN TierOf(t[e].scope, t[e].exposure) ELSE {}
To(t, e) ==
    IF WaitsAsRecord(t, e) THEN ChargedCap(t[e].rule, t[e].scope, t[e].exposure)
    ELSE IF Moves(t, e) THEN TierOf(Destination(t[e]).target, Destination(t[e]).tier) ELSE {}

\* requireUnitRoom: every tier the unit enters, by the unit's net movement.
RequireUnitRoom(t, unit) == \A at \in UNION {To(t, e) : e \in unit} :
    LET weigh(E) == MapThenSumSet(LAMBDA e : Tokens(t[e].size), E)
        entering == weigh({e \in unit : at \in To(t, e)})
        leaving == weigh({e \in unit : at \in From(t, e)}) IN
    Usage(t, at) + entering - leaving <= Cap[at.tier]

\* confirmEvent
Answer(t, e) == [Line EXCEPT !.type = "confirmed", !.in = t[e].in, !.of = e,
                             !.answers = IF WaitsAsRecord(t, e) THEN e ELSE t[e].pending.at]

StateConfirm(s) ==
    /\ read[s] # Unread
    /\ LET t == read[s] IN \E p \in Projects : \E e \in Waiting(t, p) :
       /\ RequireUnitRoom(t, PairedUnit(t, e))
       /\ Write(s, "confirm", {Answer(t, r) : r \in PairedUnit(t, e)})

\* stateRetract, stateDone: what takes a record out of its seat.
Leave(s) ==
    /\ read[s] # Unread
    /\ LET t == read[s] IN \E e \in DOMAIN t, type \in {"retracted", "done"} :
       /\ IF type = "done" THEN t[e].status = "confirmed" /\ t[e].current ELSE t[e].status \in Live
       /\ Write(s, type, {[Line EXCEPT !.type = type, !.in = t[e].in, !.of = e]})

TiersNext == \E s \in Sessions : Look(s) \/ Add(s) \/ Place(s) \/ StateConfirm(s) \/ Leave(s)
TiersSpec == TiersInit /\ [][TiersNext]_tiersVars
-----------------------------------------------------------------------------
(* Properties *)

\* The step in which session s writes, its lines, and whether it had read all.
Writes(s) == read[s] # Unread /\ read'[s] = Unread
Written == log' \ log
Fresh(s) == read[s] = view

\* The records a write answers for: its own, and those its records replace.
Lands(l) == l.type = "asserted" \/ (l.type = "confirmed" /\ l.answers = l.of)
Named(W) == {l.of : l \in W} \cup UNION {l.replaces :
    l \in {k \in CreatedBy(log') : \E w \in W : w.of = k.of /\ Lands(w)}}

\* A command moves the records it answers for and no other, whatever was
\* written since it read: what is proposed displaces nothing, and a pending
\* placement is answered alone (applyPlacements, applySupersessions).
OnlyTheNamedMove == [][\A e \in DOMAIN view \ Named(Written) : view'[e] = view[e]]_tiersVars

\* Where the rules count a seat no one gives up: an instruction's move is not
\* judged; one record is both replaced and demoted; the seat credited to a move
\* is not held; a later placement stands over the one that is answered.
UnjudgedMove(t, W) == \E l \in W : l.of \in DOMAIN t /\ t[l.of].rule /\ l.type \in {"placed", "confirmed"}
FreedTwice(W) == \E l \in W, d \in W : d.type = "placed" /\ d.of \in l.replaces
CreditsNoSeat(t, W) == \E l \in W :
    /\ (l.type = "placed" /\ l.admits = None) \/ (l.type = "confirmed" /\ l.answers # l.of)
    /\ ~Occupies(t[l.of])
Restated(W) == \E l \in W : l.type = "confirmed" /\ \E k \in InForce(log, l.of) : k.at > l.answers
Miscounted(t, W) == UnjudgedMove(t, W) \/ FreedTwice(W) \/ CreditsNoSeat(t, W) \/ Restated(W)

\* The tiers a step leaves over their cap by more than they had room for in t.
Entered(t, now) == UNION {Seat(now[e]) \ (IF e \in DOMAIN t THEN Seat(t[e]) ELSE {}) : e \in DOMAIN now}
Room(t, at) == Max({0, Cap[at.tier] - Usage(t, at)})
Overfilled(t) == {at \in Entered(view, view') : Usage(view', at) - Usage(view, at) > Room(t, at)}

\* A command brings no more to a tier than it had room for when it read, so a
\* tier is overfilled only by two that read the same room, or where the rules
\* miscount, or where what it moves was moved after it read.
KeepsToItsRoom == [][\A s \in Sessions : Writes(s) =>
    LET t == read[s] W == Written IN
    \/ Overfilled(t) = {} \/ Miscounted(t, W)
    \/ \E e \in Named(W) \cap DOMAIN t : view[e] # t[e]]_tiersVars

\* What the comments of state.ts say of the caps: a command that read what
\* stands leaves every tier it enters within its cap, or no fuller.
CapsHold == [][\A s \in Sessions : Writes(s) /\ Fresh(s) =>
    Overfilled(view) = {} \/ UnjudgedMove(view, Written)]_tiersVars
=============================================================================
