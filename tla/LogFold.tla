------------------------------ MODULE LogFold -------------------------------
(***************************************************************************)
(* What every fold over an append-only log is built from: a pass that reads *)
(* the events in turn, and a log written behind another.                    *)
(***************************************************************************)
EXTENDS Naturals, SequencesExt

\* FoldLeft, with every step's result bound before the next reads it: TLC
\* evaluates an operator's argument again wherever it is named.
InTurn(Apply(_, _), t, events) ==
    LET after[n \in 0..Len(events)] ==
            IF n = 0 THEN t
            ELSE CHOOSE u \in {Apply(r, ev) : r \in {after[n - 1]}, ev \in {events[n]}} : TRUE
    IN after[Len(events)]

\* The same of a set of events, in the order of the clock, each tick of which is
\* the id of one event at most.
OverTime(Apply(_, _), t, E) ==
    LET last == Max({ev.id : ev \in E} \cup {0})
        after[n \in 0..last] ==
            IF n = 0 THEN t
            ELSE LET now == {ev \in E : ev.id = n} IN
                 IF now = {} THEN after[n - 1]
                 ELSE CHOOSE u \in {Apply(r, ev) : r \in {after[n - 1]}, ev \in now} : TRUE
    IN after[last]

\* The events of these types, oldest first: one clock, so the id is the time.
OldestFirst(L, types) ==
    SortSeq(SelectSeq(L, LAMBDA a : a.type \in types), LAMBDA a, b : a.id < b.id)
=============================================================================
