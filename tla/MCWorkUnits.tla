---------------------------- MODULE MCWorkUnits -----------------------------
(* A unit and the records older than it, for TLC: two sessions on one       *)
(* machine and one on another, over one unit; and a log with lines of two   *)
(* generations.  Each behaviour is one of the two.                          *)
EXTENDS WorkUnits, Cutover

CONSTANTS a, b, s1, s2, s3, x, y

VARIABLE half

TwoClones == {a, b}
Sessions == {s1, s2, s3}
Homes == [s \in Sessions |-> IF s = s3 THEN b ELSE a]

\* A seed's events, numbered, each written with all before it read.
Log(events) == [i \in DOMAIN events |-> [events[i] EXCEPT !.id = i, !.read = 1..(i - 1)]]

Fresh == <<[Blank EXCEPT !.type = "created", !.of = Decision], [Blank EXCEPT !.type = "created"]>>
Design == [Blank EXCEPT !.type = "report", !.design = TRUE, !.digest = TRUE, !.evidence = TRUE]

\* Bare, with one criterion and a design filed, and with both answered.
SomeLogs == {
    Log(Fresh),
    Log(Fresh \o <<[Blank EXCEPT !.type = "declared", !.criterion = x], Design>>),
    Log(Fresh \o <<[Blank EXCEPT !.type = "declared", !.criterion = x],
                   [Blank EXCEPT !.type = "covered", !.criterion = x], Design,
                   [Blank EXCEPT !.type = "approved", !.confirms = 5]>>)}

AllVerbs == {"declare", "cover", "block criterion", "release criterion", "block", "process",
             "start", "end", "report", "design", "approve", "done", "retire", "retract", "undo"}

AnyTwoThenOne == <<AllVerbs, AllVerbs, {"done", "start", "undo"}>>

HalvesInit ==
    \/ half = "work" /\ Init /\ CutoverInit /\ kind = "decision"
    \/ half = "cutover" /\ Init /\ CutoverInit /\ shared = Log(Fresh)

HalvesNext ==
    \/ half = "work" /\ Next /\ UNCHANGED <<cutoverVars, half>>
    \/ half = "cutover" /\ CutoverNext /\ UNCHANGED <<vars, half>>

HalvesSpec == HalvesInit /\ [][HalvesNext]_<<vars, cutoverVars, half>>
=============================================================================
