---------------------------- MODULE Readings_proofs ----------------------------
(***************************************************************************)
(* What a reader of a log can rely on: of a unit of work, and of a log with *)
(* lines of two generations.                                               *)
(***************************************************************************)
EXTENDS WorkUnits, Cutover, FiniteSetTheorems, SequenceTheorems, WellFoundedInduction, TLAPS

-----------------------------------------------------------------------------
(* Numbers *)

\* Every non-empty set of naturals has a least element.
LEMMA LeastExists ==
    ASSUME NEW S \in SUBSET Nat, S # {}
    PROVE  \E x \in S : \A y \in S : x =< y
<1>1. PICK x \in S : \A y \in S : ~(<<y, x>> \in OpToRel(<, Nat))
  BY NatLessThanWellFounded, WFMin
<1>2. \A y \in S : ~(y < x)
  BY <1>1 DEF OpToRel
<1>3. QED
  BY <1>2

\* A non-empty set of naturals that a number bounds has a greatest element.
LEMMA GreatestExists ==
    ASSUME NEW S \in SUBSET Nat, S # {}, NEW B \in Nat, \A y \in S : y <= B
    PROVE  Max(S) \in S /\ \A y \in S : y <= Max(S)
<1> DEFINE above == {k \in 0..B : \A y \in S : y <= k}
<1>1. B \in above /\ above \in SUBSET Nat
  OBVIOUS
<1>2. PICK m \in above : \A k \in above : m =< k
  BY <1>1, LeastExists
<1>3. m \in S
  <2>1. SUFFICES ASSUME m \notin S PROVE FALSE
    OBVIOUS
  <2>2. \A y \in S : y < m
    BY <1>2, <2>1
  <2>3. m \in 0..B /\ m # 0
    <3>1. PICK y \in S : TRUE
      OBVIOUS
    <3>2. y \in Nat /\ y < m
      BY <2>2, <3>1
    <3>3. QED
      BY <1>2, <3>2
  <2>6. m - 1 \in 0..B /\ \A y \in S : y <= m - 1
    BY <2>2, <2>3
  <2>4. m - 1 \in above
    BY <2>6
  <2>5. QED
    BY <1>2, <2>3, <2>4
<1>4. \E x \in S : \A y \in S : y <= x
  BY <1>2, <1>3
<1>5. QED
  BY <1>4 DEF Max

\* What is so at first, and at every tick it was so at the one before, is so at
\* the last: of the ticks it is not so at there would be a first.
LEMMA EveryTick ==
    ASSUME NEW n \in Nat, NEW Good \in SUBSET Nat, 0 \in Good,
           \A i \in 1..n : i - 1 \in Good => i \in Good
    PROVE  0..n \subseteq Good
<1> DEFINE bad == (0..n) \ Good
<1>1. SUFFICES ASSUME bad # {} PROVE FALSE
  OBVIOUS
<1>2. PICK m \in bad : \A k \in bad : m =< k
  <2>1. bad \in SUBSET Nat
    OBVIOUS
  <2> HIDE DEF bad
  <2>2. QED
    BY <1>1, <2>1, LeastExists
<1>3. m \in 1..n /\ m - 1 \in 0..n /\ m - 1 \notin bad
  BY <1>2
<1>4. QED
  BY <1>2, <1>3

\* A run of a number of steps from a value has its results one by one.
LEMMA RunExists ==
    ASSUME NEW T, NEW t \in T, NEW n \in Nat, NEW step \in [1..n -> [T -> T]]
    PROVE  \E f \in [0..n -> T] : f[0] = t /\ \A i \in 1..n : f[i] = step[i][f[i - 1]]
<1> DEFINE Runs(k) == \E f \in [0..k -> T] : f[0] = t /\ \A i \in 1..k : f[i] = step[i][f[i - 1]]
           Good == {k \in 0..n : Runs(k)}
<1>1. 0 \in Good
  <2> DEFINE g == [i \in 0..0 |-> t]
  <2>1. g \in [0..0 -> T] /\ g[0] = t /\ \A i \in 1..0 : g[i] = step[i][g[i - 1]]
    OBVIOUS
  <2> HIDE DEF g
  <2>2. QED
    BY <2>1
<1>2. ASSUME NEW i \in 1..n, i - 1 \in Good PROVE i \in Good
  <2>1. PICK f \in [0..(i - 1) -> T] :
            f[0] = t /\ \A j \in 1..(i - 1) : f[j] = step[j][f[j - 1]]
    BY <1>2
  <2> DEFINE g == [j \in 0..i |-> IF j = i THEN step[i][f[i - 1]] ELSE f[j]]
  <2>2. step[i] \in [T -> T] /\ f[i - 1] \in T
    OBVIOUS
  <2>3. g \in [0..i -> T]
    <3>1. ASSUME NEW j \in 0..i, j # i PROVE f[j] \in T
      <4>1. j \in 0..(i - 1)
        BY <3>1
      <4>2. QED
        BY <4>1
    <3>2. QED
      BY <2>2, <3>1
  <2>4. g[0] = t
    BY <2>1
  <2>5. ASSUME NEW j \in 1..i PROVE g[j] = step[j][g[j - 1]]
    <3>1. CASE j = i
      BY <3>1
    <3>2. CASE j # i
      BY <2>1, <3>2
    <3>3. QED
      BY <3>1, <3>2
  <2> HIDE DEF g
  <2>6. Runs(i)
    BY <2>3, <2>4, <2>5
  <2> HIDE DEF Runs
  <2>7. QED
    BY <2>6
<1>3. 0..n \subseteq Good
  <2>1. Good \in SUBSET Nat
    OBVIOUS
  <2> HIDE DEF Good
  <2>2. QED
    BY <1>1, <1>2, <2>1, EveryTick
<1>4. QED
  BY <1>3

-----------------------------------------------------------------------------
(***************************************************************************)
(* What a unit of work can be relied on for, for any number of clones and  *)
(* sessions, any criteria, any logs pulled before and any run of verbs,    *)
(* undos and syncs after.                                                  *)
(*                                                                         *)
(* Who has an event has whatever its writer had read, and the whole of the *)
(* append it came in; so what was true of the log an event was written on  *)
(* can be asked of every log it reaches.  Each claim of completion, each   *)
(* dispatch and each undo was sound on the log it was written on, and that *)
(* no later event undoes.  The fold is one pass in the order of the clock: *)
(* its meaning holds at the first tick, and the first tick it failed at    *)
(* would be a step that breaks it.                                         *)
(***************************************************************************)

-----------------------------------------------------------------------------
(* The two passes *)

\* The ids of E tell its events apart, and end.
Timed(E) == /\ E \subseteq Events /\ \A e \in E : e.id > 0
            /\ \A e \in E, f \in E : e.id = f.id => e = f
            /\ \E B \in Nat : \A e \in E : e.id <= B

LastOf(E) == Max({ev.id : ev \in E} \cup {0})

\* The last tick.
LEMMA LastTick ==
    ASSUME NEW E, Timed(E) PROVE LastOf(E) \in Nat /\ \A e \in E : e.id \in 1..LastOf(E)
<1> DEFINE ids == {ev.id : ev \in E} \cup {0}
<1>1. PICK B \in Nat : \A e \in E : e.id <= B
  BY DEF Timed
<1>2. ids \in SUBSET Nat /\ ids # {} /\ \A y \in ids : y <= B
  BY <1>1 DEF Timed, Events
<1>3. Max(ids) \in ids /\ \A y \in ids : y <= Max(ids)
  <2> HIDE DEF ids
  <2>1. QED
    BY <1>2, GreatestExists
<1>4. QED
  BY <1>2, <1>3 DEF LastOf, Timed, Events

\* What is said of the criteria, and the states they may be in.
Settlings(S) == {ev \in S : ev.type \in {"covered", "criterion-blocked", "criterion-unblocked"}}
CriterionStates(S) == [Declared(S) -> {"open", "blocked", "covered"}]

\* What a tick makes of what the one before left.
SettledAt(E, n, x) ==
    LET now == {ev \in E : ev.id = n} IN
    IF now = {} THEN x
    ELSE CHOOSE u \in {SettleCriterion(r, ev) : r \in {x}, ev \in now} : TRUE

\* The pass over the criteria goes tick by tick.
LEMMA SettledInTurn ==
    ASSUME NEW S, Timed(S)
    PROVE  \E after \in [0..LastOf(Settlings(S)) -> CriterionStates(S)] :
               /\ after[0] = [x \in Declared(S) |-> "open"]
               /\ \A n \in 1..LastOf(Settlings(S)) :
                      /\ (\A e \in Settlings(S) : e.id # n) => after[n] = after[n - 1]
                      /\ \A e \in Settlings(S) : e.id = n => after[n] = SettleCriterion(after[n - 1], e)
               /\ SettleCriteria(S) = after[LastOf(Settlings(S))]
<1> DEFINE T == CriterionStates(S)
           E == Settlings(S)
           t == [x \in Declared(S) |-> "open"]
           last == LastOf(E)
           step == [n \in 1..last |-> [x \in T |-> SettledAt(E, n, x)]]
           Says(g) == g = [n \in 0..last |-> IF n = 0 THEN t ELSE SettledAt(E, n, g[n - 1])]
<1>0. Timed(E)
  BY DEF Timed, Settlings
<1>1. last \in Nat
  BY <1>0, LastTick
<1>2. ASSUME NEW x, NEW n, NEW e \in E, e.id = n PROVE SettledAt(E, n, x) = SettleCriterion(x, e)
  <2> DEFINE now == {ev \in E : ev.id = n}
  <2>1. now = {e}
    BY <1>0, <1>2 DEF Timed
  <2> HIDE DEF now
  <2>2. {SettleCriterion(r, ev) : r \in {x}, ev \in now} = {SettleCriterion(x, e)}
    BY <2>1
  <2> USE DEF now
  <2>3. QED
    BY <2>1, <2>2 DEF SettledAt
<1>3. ASSUME NEW x, NEW n, \A e \in E : e.id # n PROVE SettledAt(E, n, x) = x
  BY <1>3 DEF SettledAt
<1>4. ASSUME NEW x \in T, NEW n PROVE SettledAt(E, n, x) \in T
  <2>1. ASSUME NEW e \in E PROVE SettleCriterion(x, e) \in T
    BY DEF SettleCriterion, CriterionStates
  <2> HIDE DEF T
  <2>2. QED
    BY <1>2, <1>3, <2>1
<1>5. t \in T /\ step \in [1..last -> [T -> T]]
  <2>1. t \in T
    BY DEF CriterionStates
  <2> HIDE DEF T, last, t
  <2>2. QED
    BY <1>4, <2>1
<1> HIDE DEF T, E, t, last
<1>6. PICK f \in [0..last -> T] : f[0] = t /\ \A i \in 1..last : f[i] = SettledAt(E, i, f[i - 1])
  <2> HIDE DEF step
  <2>1. PICK f \in [0..last -> T] : f[0] = t /\ \A i \in 1..last : f[i] = step[i][f[i - 1]]
    BY <1>1, <1>5, RunExists
  <2>2. ASSUME NEW i \in 1..last PROVE f[i] = SettledAt(E, i, f[i - 1])
    <3>1. i - 1 \in 0..last
      BY <1>1
    <3>2. f[i - 1] \in T
      BY <3>1
    <3>3. step[i][f[i - 1]] = SettledAt(E, i, f[i - 1])
      BY <3>2 DEF step
    <3>4. QED
      BY <2>1, <3>3
  <2>3. QED
    BY <2>1, <2>2
<1>7. Says(f)
  <2>1. ASSUME NEW n \in 0..last PROVE f[n] = IF n = 0 THEN t ELSE SettledAt(E, n, f[n - 1])
    <3>1. n = 0 \/ n \in 1..last
      BY <1>1
    <3>2. QED
      BY <1>6, <3>1
  <2>2. QED
    BY <2>1
<1> DEFINE g == CHOOSE h : Says(h)
<1>8. Says(g)
  <2> HIDE DEF Says
  <2>1. QED
    BY <1>7
<1>9. SettleCriteria(S) = g[last]
  BY DEF SettleCriteria, OverTime, LastOf, SettledAt, Settlings, last, E, t
<1> HIDE DEF g
<1>10. DOMAIN g = 0..last /\ \A n \in 0..last : g[n] = IF n = 0 THEN t ELSE SettledAt(E, n, g[n - 1])
  BY <1>8
<1>11. g \in [0..last -> T]
  <2> DEFINE good == {n \in 0..last : g[n] = f[n]}
  <2>1. 0 \in good /\ good \in SUBSET Nat
    BY <1>1, <1>6, <1>10
  <2>2. ASSUME NEW n \in 1..last, n - 1 \in good PROVE n \in good
    BY <1>1, <1>6, <1>10, <2>2
  <2>3. 0..last \subseteq good
    <3> HIDE DEF good
    <3>1. QED
      BY <1>1, <2>1, <2>2, EveryTick
  <2>4. \A n \in 0..last : g[n] \in T
    BY <1>6, <2>3
  <2>5. g = [n \in 0..last |-> g[n]]
    BY <1>8
  <2>6. QED
    BY <2>4, <2>5
<1>12. g[0] = t
  BY <1>1, <1>10
<1>13. ASSUME NEW n \in 1..last PROVE n \in 0..last /\ n # 0
  BY <1>1
<1>14. ASSUME NEW n \in 1..last, \A e \in E : e.id # n PROVE g[n] = g[n - 1]
  BY <1>3, <1>10, <1>13, <1>14
<1>15. ASSUME NEW n \in 1..last, NEW e \in E, e.id = n PROVE g[n] = SettleCriterion(g[n - 1], e)
  BY <1>2, <1>10, <1>13, <1>15
<1>16. QED
  BY <1>9, <1>11, <1>12, <1>14, <1>15 DEF T, E, t, last
\* What is recorded of the unit itself, and the states it may be in.
Executing(S) == {ev \in S : ev.type \in {"started", "blocked", "unblocked", "done", "retired"}}
Executions == [claim : Session \cup {None},
               status : {"next", "active", "blocked", "done", "retired"}]

\* The same of what was recorded of the unit itself.
ExecutedAt(E, n, x) ==
    LET now == {ev \in E : ev.id = n} IN
    IF now = {} THEN x
    ELSE CHOOSE u \in {ApplyExecution(r, ev) : r \in {x}, ev \in now} : TRUE

\* And so does that pass.
LEMMA ExecutedInTurn ==
    ASSUME NEW S, Timed(S)
    PROVE  \E after \in [0..LastOf(Executing(S)) -> Executions] :
               /\ after[0] = [claim |-> None, status |-> "next"]
               /\ \A n \in 1..LastOf(Executing(S)) :
                      /\ (\A e \in Executing(S) : e.id # n) => after[n] = after[n - 1]
                      /\ \A e \in Executing(S) : e.id = n => after[n] = ApplyExecution(after[n - 1], e)
               /\ Execution(S) = after[LastOf(Executing(S))]
<1> DEFINE T == Executions
           E == Executing(S)
           t == [claim |-> None, status |-> "next"]
           last == LastOf(E)
           step == [n \in 1..last |-> [x \in T |-> ExecutedAt(E, n, x)]]
           Says(g) == g = [n \in 0..last |-> IF n = 0 THEN t ELSE ExecutedAt(E, n, g[n - 1])]
<1>0. Timed(E)
  BY DEF Timed, Executing
<1>1. last \in Nat
  BY <1>0, LastTick
<1>2. ASSUME NEW x, NEW n, NEW e \in E, e.id = n PROVE ExecutedAt(E, n, x) = ApplyExecution(x, e)
  <2> DEFINE now == {ev \in E : ev.id = n}
  <2>1. now = {e}
    BY <1>0, <1>2 DEF Timed
  <2> HIDE DEF now
  <2>2. {ApplyExecution(r, ev) : r \in {x}, ev \in now} = {ApplyExecution(x, e)}
    BY <2>1
  <2> USE DEF now
  <2>3. QED
    BY <2>1, <2>2 DEF ExecutedAt
<1>3. ASSUME NEW x, NEW n, \A e \in E : e.id # n PROVE ExecutedAt(E, n, x) = x
  BY <1>3 DEF ExecutedAt
<1>4. ASSUME NEW x \in T, NEW n PROVE ExecutedAt(E, n, x) \in T
  <2>1. ASSUME NEW e \in E PROVE ApplyExecution(x, e) \in T
    BY DEF ApplyExecution, Executions, Executing, Terminal, Timed, Events
  <2> HIDE DEF T
  <2>2. QED
    BY <1>2, <1>3, <2>1
<1>5. t \in T /\ step \in [1..last -> [T -> T]]
  <2>1. t \in T
    BY DEF Executions
  <2> HIDE DEF T, last, t
  <2>2. QED
    BY <1>4, <2>1
<1> HIDE DEF T, E, t, last
<1>6. PICK f \in [0..last -> T] : f[0] = t /\ \A i \in 1..last : f[i] = ExecutedAt(E, i, f[i - 1])
  <2> HIDE DEF step
  <2>1. PICK f \in [0..last -> T] : f[0] = t /\ \A i \in 1..last : f[i] = step[i][f[i - 1]]
    BY <1>1, <1>5, RunExists
  <2>2. ASSUME NEW i \in 1..last PROVE f[i] = ExecutedAt(E, i, f[i - 1])
    <3>1. i - 1 \in 0..last
      BY <1>1
    <3>2. f[i - 1] \in T
      BY <3>1
    <3>3. step[i][f[i - 1]] = ExecutedAt(E, i, f[i - 1])
      BY <3>2 DEF step
    <3>4. QED
      BY <2>1, <3>3
  <2>3. QED
    BY <2>1, <2>2
<1>7. Says(f)
  <2>1. ASSUME NEW n \in 0..last PROVE f[n] = IF n = 0 THEN t ELSE ExecutedAt(E, n, f[n - 1])
    <3>1. n = 0 \/ n \in 1..last
      BY <1>1
    <3>2. QED
      BY <1>6, <3>1
  <2>2. QED
    BY <2>1
<1> DEFINE g == CHOOSE h : Says(h)
<1>8. Says(g)
  <2> HIDE DEF Says
  <2>1. QED
    BY <1>7
<1>9. Execution(S) = g[last]
  BY DEF Execution, OverTime, LastOf, ExecutedAt, Executing, last, E, t
<1> HIDE DEF g
<1>10. DOMAIN g = 0..last /\ \A n \in 0..last : g[n] = IF n = 0 THEN t ELSE ExecutedAt(E, n, g[n - 1])
  BY <1>8
<1>11. g \in [0..last -> T]
  <2> DEFINE good == {n \in 0..last : g[n] = f[n]}
  <2>1. 0 \in good /\ good \in SUBSET Nat
    BY <1>1, <1>6, <1>10
  <2>2. ASSUME NEW n \in 1..last, n - 1 \in good PROVE n \in good
    BY <1>1, <1>6, <1>10, <2>2
  <2>3. 0..last \subseteq good
    <3> HIDE DEF good
    <3>1. QED
      BY <1>1, <2>1, <2>2, EveryTick
  <2>4. \A n \in 0..last : g[n] \in T
    BY <1>6, <2>3
  <2>5. g = [n \in 0..last |-> g[n]]
    BY <1>8
  <2>6. QED
    BY <2>4, <2>5
<1>12. g[0] = t
  BY <1>1, <1>10
<1>13. ASSUME NEW n \in 1..last PROVE n \in 0..last /\ n # 0
  BY <1>1
<1>14. ASSUME NEW n \in 1..last, \A e \in E : e.id # n PROVE g[n] = g[n - 1]
  BY <1>3, <1>10, <1>13, <1>14
<1>15. ASSUME NEW n \in 1..last, NEW e \in E, e.id = n PROVE g[n] = ApplyExecution(g[n - 1], e)
  BY <1>2, <1>10, <1>13, <1>15
<1>16. QED
  BY <1>9, <1>11, <1>12, <1>14, <1>15 DEF T, E, t, last
-----------------------------------------------------------------------------
(* What the passes mean *)

Upto(S, n) == {ev \in S : ev.id <= n}

\* A tick adds its event to what was said, and that is the newest.
LEMMA OneMore ==
    ASSUME NEW S, Timed(S), NEW n \in Nat \ {0}, NEW type
    PROVE  /\ (\A e \in S : e.id = n => e.type # type) => Said(Upto(S, n), type) = Said(Upto(S, n - 1), type)
           /\ \A e \in S : e.id = n /\ e.type = type =>
                  Said(Upto(S, n), type) = Said(Upto(S, n - 1), type) \cup {e}
           /\ \A e \in Said(Upto(S, n - 1), type) : e.id < n
<1>1. \A e \in S : e.id \in Nat
  BY DEF Timed, Events
<1>2. \A e \in S : e.id <= n <=> e.id <= n - 1 \/ e.id = n
  BY <1>1
<1>3. \A e, f \in S : e.id = n /\ f.id = n => e = f
  BY DEF Timed
<1>4. QED
  BY <1>1, <1>2, <1>3 DEF Said, Upto

\* What was said in the end is what was said by the last tick, and at first
\* nothing was.
LEMMA AllSaid ==
    ASSUME NEW S, Timed(S), NEW E \in SUBSET S, NEW type, {e \in S : e.type = type} \subseteq E
    PROVE  Said(Upto(S, LastOf(E)), type) = Said(S, type) /\ Said(Upto(S, 0), type) = {}
<1>1. Timed(E)
  BY DEF Timed
<1>2. LastOf(E) \in Nat /\ \A e \in E : e.id \in 1..LastOf(E)
  BY <1>1, LastTick
<1>3. \A e \in S : e.id \in Nat \ {0}
  BY DEF Timed, Events
<1>4. QED
  BY <1>2, <1>3 DEF Said, Upto

\* What a criterion reads as: covered by any standing claim, else blocked where
\* the last word is a block.
CriterionOf(S, x) ==
    IF \E ev \in Said(S, "covered") : ev.criterion = x THEN "covered"
    ELSE IF Blocks(S, "criterion-blocked", "criterion-unblocked", x) THEN "blocked" ELSE "open"

\* The criteria are those declared, and each reads as what was said of it means.
LEMMA CriteriaMean ==
    ASSUME NEW S, Timed(S)
    PROVE  /\ DOMAIN SettleCriteria(S) = Declared(S)
           /\ \A x \in Declared(S) : SettleCriteria(S)[x] = CriterionOf(S, x)
<1> DEFINE E == Settlings(S)
           T == CriterionStates(S)
           last == LastOf(E)
<1>1. Timed(E)
  BY DEF Timed, Settlings
<1>2. PICK after \in [0..last -> T] :
          /\ after[0] = [x \in Declared(S) |-> "open"]
          /\ \A n \in 1..last :
                 /\ (\A e \in E : e.id # n) => after[n] = after[n - 1]
                 /\ \A e \in E : e.id = n => after[n] = SettleCriterion(after[n - 1], e)
          /\ SettleCriteria(S) = after[last]
  BY SettledInTurn
<1>3. SettleCriteria(S) = after[last]
  BY <1>2
<1>4. last \in Nat /\ \A e \in E : e.id \in 1..last
  <2> HIDE DEF E
  <2>1. QED
    BY <1>1, LastTick
<1>5. ASSUME NEW x \in Declared(S) PROVE SettleCriteria(S)[x] = CriterionOf(S, x)
  <2> DEFINE good == {n \in 0..last : after[n][x] = CriterionOf(Upto(S, n), x)}
             cov(n) == Said(Upto(S, n), "covered")
             on(n) == Said(Upto(S, n), "criterion-blocked")
             off(n) == Said(Upto(S, n), "criterion-unblocked")
  <2>1. 0 \in good
    <3>1. after[0][x] = "open"
      BY <1>2
    <3>2. cov(0) = {} /\ on(0) = {}
      BY AllSaid
    <3>3. QED
      BY <1>4, <3>1, <3>2 DEF CriterionOf, Blocks
  <2>2. ASSUME NEW n \in 1..last, n - 1 \in good PROVE n \in good
    <3>0. n \in Nat \ {0} /\ n \in 0..last /\ n - 1 \in 0..last
      BY <1>4
    <3>1. after[n - 1] \in T /\ after[n - 1][x] = CriterionOf(Upto(S, n - 1), x)
      BY <2>2, <3>0
    <3>2. CASE \A e \in E : e.id # n
      <4>1. after[n] = after[n - 1]
        BY <1>2, <3>2
      <4>2. \A e \in S : e.id = n => e.type \notin {"covered", "criterion-blocked", "criterion-unblocked"}
        BY <3>2 DEF Settlings
      <4>3. cov(n) = cov(n - 1) /\ on(n) = on(n - 1) /\ off(n) = off(n - 1)
        BY <3>0, <4>2, OneMore
      <4>4. CriterionOf(Upto(S, n), x) = CriterionOf(Upto(S, n - 1), x)
        BY <4>3 DEF CriterionOf, Blocks
      <4>5. QED
        BY <3>0, <3>1, <4>1, <4>4
    <3>3. CASE \E e \in E : e.id = n
      <4>1. PICK e \in E : e.id = n
        BY <3>3
      <4>2. after[n] = SettleCriterion(after[n - 1], e)
        BY <1>2, <4>1
      <4>3. \A f \in S : f.id = n => f = e
        BY <4>1 DEF Timed, Settlings
      <4> DEFINE was == after[n - 1][x]
      <4>4. after[n][x] =
                IF e.criterion # x THEN was
                ELSE CASE e.type = "covered" -> "covered"
                       [] e.type = "criterion-blocked" -> IF was = "open" THEN "blocked" ELSE was
                       [] OTHER -> IF was = "blocked" THEN "open" ELSE was
        BY <3>1, <4>2 DEF SettleCriterion, CriterionStates
      <4>5. /\ \A f \in on(n - 1) : f.id \in Nat /\ f.id < n
            /\ \A f \in off(n - 1) : f.id \in Nat /\ f.id < n
        <5>1. \A f \in S : f.id \in Nat
          BY DEF Timed, Events
        <5>2. QED
          BY <3>0, <5>1, OneMore DEF Said, Upto
      <4>6. CASE e.type = "covered"
        <5>1. cov(n) = cov(n - 1) \cup {e} /\ on(n) = on(n - 1) /\ off(n) = off(n - 1)
          BY <3>0, <4>1, <4>3, <4>6, OneMore DEF Settlings
        <5> HIDE DEF cov, on, off, was
        <5>2. CriterionOf(Upto(S, n), x) = IF e.criterion = x THEN "covered" ELSE was
          BY <3>1, <5>1 DEF CriterionOf, Blocks, cov, on, off, was
        <5>3. QED
          BY <3>0, <4>4, <4>6, <5>2
      <4>7. CASE e.type = "criterion-blocked"
        <5>1. cov(n) = cov(n - 1) /\ on(n) = on(n - 1) \cup {e} /\ off(n) = off(n - 1)
          BY <3>0, <4>1, <4>3, <4>7, OneMore DEF Settlings
        <5>2. CASE e.criterion # x
          <6>1. CriterionOf(Upto(S, n), x) = was
            BY <3>1, <5>1, <5>2 DEF CriterionOf, Blocks
          <6>2. QED
            BY <3>0, <4>4, <5>2, <6>1
        <5>3. CASE e.criterion = x
          <6>1. Blocks(Upto(S, n), "criterion-blocked", "criterion-unblocked", x)
            BY <4>1, <4>5, <5>1, <5>3 DEF Blocks
          <6>2. CriterionOf(Upto(S, n), x) = IF was = "open" THEN "blocked" ELSE was
            BY <3>1, <5>1, <6>1 DEF CriterionOf
          <6>3. QED
            BY <3>0, <4>4, <4>7, <5>3, <6>2
        <5>4. QED
          BY <5>2, <5>3
      <4>8. CASE e.type = "criterion-unblocked"
        <5>1. cov(n) = cov(n - 1) /\ on(n) = on(n - 1) /\ off(n) = off(n - 1) \cup {e}
          BY <3>0, <4>1, <4>3, <4>8, OneMore DEF Settlings
        <5>2. CASE e.criterion # x
          <6>1. CriterionOf(Upto(S, n), x) = was
            BY <3>1, <5>1, <5>2 DEF CriterionOf, Blocks
          <6>2. QED
            BY <3>0, <4>4, <5>2, <6>1
        <5>3. CASE e.criterion = x
          <6>1. ~Blocks(Upto(S, n), "criterion-blocked", "criterion-unblocked", x)
            BY <3>0, <4>1, <4>5, <5>1, <5>3 DEF Blocks
          <6>2. CriterionOf(Upto(S, n), x) = IF was = "blocked" THEN "open" ELSE was
            BY <3>1, <5>1, <6>1 DEF CriterionOf
          <6>3. QED
            BY <3>0, <4>4, <4>8, <5>3, <6>2
        <5>4. QED
          BY <5>2, <5>3
      <4>9. QED
        BY <4>1, <4>6, <4>7, <4>8 DEF Settlings
    <3>4. QED
      BY <3>2, <3>3
  <2>3. last \in good
    <3>1. good \in SUBSET Nat
      BY <1>4
    <3> HIDE DEF good, last
    <3>2. QED
      BY <1>4, <2>1, <2>2, <3>1, EveryTick
  <2>4. CriterionOf(Upto(S, last), x) = CriterionOf(S, x)
    <3>1. /\ cov(last) = Said(S, "covered") /\ on(last) = Said(S, "criterion-blocked")
          /\ off(last) = Said(S, "criterion-unblocked")
      <4>1. /\ E \in SUBSET S /\ {e \in S : e.type = "covered"} \subseteq E
            /\ {e \in S : e.type = "criterion-blocked"} \subseteq E
            /\ {e \in S : e.type = "criterion-unblocked"} \subseteq E
        BY DEF Settlings
      <4> HIDE DEF E
      <4>2. QED
        BY <4>1, AllSaid
    <3>2. QED
      BY <3>1 DEF CriterionOf, Blocks
  <2>5. QED
    BY <1>3, <2>3, <2>4
<1>6. DOMAIN SettleCriteria(S) = Declared(S)
  BY <1>2, <1>3, <1>4 DEF CriterionStates
<1>7. QED
  BY <1>5, <1>6

\* The first ending is one, and the only one as early.
LEMMA FirstEnding ==
    ASSUME NEW S, Timed(S)
    PROVE  /\ Endings(S) # {} => /\ Ending(S) \in Endings(S)
                                 /\ \A other \in Endings(S) : Ending(S).id <= other.id
           /\ \A e \in Endings(S) : (\A other \in Endings(S) : e.id <= other.id) => Ending(S) = e
<1>1. Endings(S) \subseteq S /\ \A e \in S : e.id \in Nat
  BY DEF Endings, Said, Timed, Events
<1>2. \A e, f \in S : e.id <= f.id /\ f.id <= e.id => e = f
  BY <1>1 DEF Timed
<1>3. ASSUME Endings(S) # {} PROVE \E e \in Endings(S) : \A other \in Endings(S) : e.id <= other.id
  <2> DEFINE ids == {e.id : e \in Endings(S)}
  <2>1. ids \in SUBSET Nat /\ ids # {}
    BY <1>1, <1>3
  <2> HIDE DEF ids
  <2>2. PICK i \in ids : \A j \in ids : i =< j
    BY <2>1, LeastExists
  <2> USE DEF ids
  <2>3. PICK e \in Endings(S) : e.id = i
    BY <2>2
  <2>4. QED
    BY <2>2, <2>3
<1>4. ASSUME NEW e \in Endings(S), \A other \in Endings(S) : e.id <= other.id PROVE Ending(S) = e
  <2>1. \A f \in Endings(S) : (\A other \in Endings(S) : f.id <= other.id) => f = e
    BY <1>1, <1>2, <1>4
  <2>2. QED
    BY <1>4, <2>1 DEF Ending
<1>5. QED
  BY <1>3, <1>4

\* What a unit reads as: ended as it ended first, else blocked where the last
\* word is a block, else active once anything took it up.
StatusMeant(S) ==
    IF Endings(S) # {} THEN Ending(S).type
    ELSE IF Blocks(S, "blocked", "unblocked", None) THEN "blocked"
    ELSE IF Said(S, "started") \cup Said(S, "blocked") # {} THEN "active" ELSE "next"

\* A block of the unit names no criterion.
Plain(S) == \A ev \in S : ev.type \in {"blocked", "unblocked"} => ev.criterion = None

\* It is read off what was said of these kinds alone.
LEMMA SameMeaning ==
    ASSUME NEW S, NEW Q,
           \A type \in {"started", "blocked", "unblocked", "done", "retired"} : Said(S, type) = Said(Q, type)
    PROVE  StatusMeant(S) = StatusMeant(Q)
<1>1. Endings(S) = Endings(Q)
  BY DEF Endings
<1>2. Ending(S) = Ending(Q)
  BY <1>1 DEF Ending
<1>3. Blocks(S, "blocked", "unblocked", None) <=> Blocks(Q, "blocked", "unblocked", None)
  BY DEF Blocks
<1>4. QED
  BY <1>1, <1>2, <1>3 DEF StatusMeant

\* The unit's status is what was recorded of it means.
LEMMA ExecutionMeans ==
    ASSUME NEW S, Timed(S), Plain(S)
    PROVE  Execution(S) \in Executions /\ Execution(S).status = StatusMeant(S)
<1> DEFINE E == Executing(S)
           last == LastOf(E)
           started(n) == Said(Upto(S, n), "started")
           on(n) == Said(Upto(S, n), "blocked")
           off(n) == Said(Upto(S, n), "unblocked")
           done(n) == Said(Upto(S, n), "done")
           retired(n) == Said(Upto(S, n), "retired")
           Meant(n) == StatusMeant(Upto(S, n))
<1>1. Timed(E)
  BY DEF Timed, Executing
<1>2. PICK after \in [0..last -> Executions] :
          /\ after[0] = [claim |-> None, status |-> "next"]
          /\ \A n \in 1..last :
                 /\ (\A e \in E : e.id # n) => after[n] = after[n - 1]
                 /\ \A e \in E : e.id = n => after[n] = ApplyExecution(after[n - 1], e)
          /\ Execution(S) = after[last]
  BY ExecutedInTurn
<1>3. Execution(S) = after[last]
  BY <1>2
<1>4. last \in Nat /\ \A e \in E : e.id \in 1..last
  <2> HIDE DEF E
  <2>1. QED
    BY <1>1, LastTick
<1> DEFINE good == {n \in 0..last : after[n].status = Meant(n)}
<1>5. 0 \in good
  <2>1. after[0].status = "next"
    BY <1>2
  <2>2. started(0) = {} /\ on(0) = {} /\ done(0) = {} /\ retired(0) = {}
    BY AllSaid
  <2>3. Meant(0) = "next"
    BY <2>2 DEF StatusMeant, Blocks, Endings
  <2>4. QED
    BY <1>4, <2>1, <2>3
<1>6. ASSUME NEW n \in 1..last, n - 1 \in good PROVE n \in good
  <2>1. n \in Nat \ {0} /\ n \in 0..last /\ n - 1 \in 0..last
    BY <1>4
  <2> DEFINE was == after[n - 1].status
  <2>2. after[n - 1] \in Executions /\ was = Meant(n - 1)
    BY <1>6, <2>1
  <2>3. was \in {"next", "active", "blocked", "done", "retired"}
    BY <2>2 DEF Executions
  <2>4. CASE \A e \in E : e.id # n
    <3>1. after[n] = after[n - 1]
      BY <1>2, <2>4
    <3>2. \A e \in S : e.id = n => e.type \notin {"started", "blocked", "unblocked", "done", "retired"}
      BY <2>4 DEF Executing
    <3>3. /\ started(n) = started(n - 1) /\ on(n) = on(n - 1) /\ off(n) = off(n - 1)
          /\ done(n) = done(n - 1) /\ retired(n) = retired(n - 1)
      BY <2>1, <3>2, OneMore
    <3>4. Meant(n) = Meant(n - 1)
      BY <3>3, SameMeaning
    <3>5. QED
      BY <2>1, <2>2, <3>1, <3>4
  <2>5. CASE \E e \in E : e.id = n
    <3>1. PICK e \in E : e.id = n
      BY <2>5
    <3>2. after[n] = ApplyExecution(after[n - 1], e)
      BY <1>2, <3>1
    <3>3. \A f \in S : f.id = n => f = e
      BY <3>1 DEF Timed, Executing
    <3>4. e \in S /\ e.type \in {"started", "blocked", "unblocked", "done", "retired"}
      BY <3>1 DEF Executing
    <3>5. after[n].status =
              IF was \in Terminal THEN was
              ELSE CASE e.type = "started" -> IF was = "blocked" THEN "blocked" ELSE "active"
                     [] e.type = "blocked" -> "blocked"
                     [] e.type = "unblocked" -> IF was = "blocked" THEN "active" ELSE was
                     [] OTHER -> e.type
      BY <3>2 DEF ApplyExecution
    <3>6. \A f \in on(n - 1) \cup off(n - 1) \cup done(n - 1) \cup retired(n - 1) : f.id \in Nat /\ f.id < n
      <4>1. \A f \in S : f.id \in Nat
        BY DEF Timed, Events
      <4>2. QED
        BY <2>1, <4>1, OneMore DEF Said, Upto
    <3>7. /\ started(n) = IF e.type = "started" THEN started(n - 1) \cup {e} ELSE started(n - 1)
          /\ on(n) = IF e.type = "blocked" THEN on(n - 1) \cup {e} ELSE on(n - 1)
          /\ off(n) = IF e.type = "unblocked" THEN off(n - 1) \cup {e} ELSE off(n - 1)
          /\ done(n) = IF e.type = "done" THEN done(n - 1) \cup {e} ELSE done(n - 1)
          /\ retired(n) = IF e.type = "retired" THEN retired(n - 1) \cup {e} ELSE retired(n - 1)
      BY <2>1, <3>1, <3>3, <3>4, OneMore
    <3>8. /\ \A f \in on(n) \cup off(n) : f.criterion = None
          /\ \A f \in done(n) : f.type = "done"
          /\ \A f \in retired(n) : f.type = "retired"
          /\ Timed(Upto(S, n)) /\ Timed(Upto(S, n - 1))
      BY DEF Plain, Said, Upto, Timed
    <3> HIDE DEF started, on, off, done, retired
    <3>9. CASE Endings(Upto(S, n - 1)) # {}
      <4>1. /\ Ending(Upto(S, n - 1)) \in Endings(Upto(S, n - 1))
            /\ \A other \in Endings(Upto(S, n - 1)) : Ending(Upto(S, n - 1)).id <= other.id
        BY <3>8, <3>9, FirstEnding
      <4>2. was = Ending(Upto(S, n - 1)).type /\ was \in Terminal
        BY <2>2, <3>8, <3>9, <4>1 DEF StatusMeant, Endings, Said, Terminal
      <4>3. Ending(Upto(S, n)) = Ending(Upto(S, n - 1)) /\ Endings(Upto(S, n)) # {}
        <5>1. Ending(Upto(S, n - 1)).id < n /\ Ending(Upto(S, n - 1)).id \in Nat
          BY <3>6, <4>1 DEF Endings, done, retired
        <5>2. \A other \in Endings(Upto(S, n)) : other \in Endings(Upto(S, n - 1)) \/ other = e
          BY <3>7 DEF Endings, done, retired
        <5>3. /\ Ending(Upto(S, n - 1)) \in Endings(Upto(S, n))
              /\ \A other \in Endings(Upto(S, n)) : Ending(Upto(S, n - 1)).id <= other.id
          BY <2>1, <3>1, <3>7, <4>1, <5>1, <5>2 DEF Endings, done, retired
        <5>4. QED
          BY <3>8, <5>3, FirstEnding
      <4>4. Meant(n) = was
        BY <4>2, <4>3 DEF StatusMeant
      <4>5. QED
        BY <2>1, <3>5, <4>2, <4>4
    <3>10. CASE Endings(Upto(S, n - 1)) = {}
      <4>1. was \notin Terminal
        BY <2>2, <3>10 DEF StatusMeant, Terminal
      <4>2. CASE e.type \in Terminal
        <5>1. Endings(Upto(S, n)) = {e}
          BY <3>7, <3>10, <4>2 DEF Endings, done, retired, Terminal
        <5>2. Ending(Upto(S, n)) = e
          BY <5>1 DEF Ending
        <5>3. Meant(n) = e.type
          BY <5>1, <5>2 DEF StatusMeant
        <5>4. after[n].status = e.type
          BY <3>5, <4>1, <4>2 DEF Terminal
        <5>5. QED
          BY <2>1, <5>3, <5>4
      <4>3. CASE e.type \notin Terminal
        <5>1. Endings(Upto(S, n)) = {}
          BY <3>7, <3>10, <4>3 DEF Endings, done, retired, Terminal
        <5>2. was = IF Blocks(Upto(S, n - 1), "blocked", "unblocked", None) THEN "blocked"
                    ELSE IF started(n - 1) \cup on(n - 1) # {} THEN "active" ELSE "next"
          BY <2>2, <3>10 DEF StatusMeant, started, on
        <5>3. Meant(n) = IF Blocks(Upto(S, n), "blocked", "unblocked", None) THEN "blocked"
                         ELSE IF started(n) \cup on(n) # {} THEN "active" ELSE "next"
          BY <5>1 DEF StatusMeant, started, on
        <5>4. /\ Blocks(Upto(S, n - 1), "blocked", "unblocked", None)
                     <=> \E b \in on(n - 1) : b.criterion = None
                             /\ \A r \in off(n - 1) : r.criterion = None => r.id < b.id
              /\ Blocks(Upto(S, n), "blocked", "unblocked", None)
                     <=> \E b \in on(n) : b.criterion = None
                             /\ \A r \in off(n) : r.criterion = None => r.id < b.id
          BY DEF Blocks, on, off
        <5> HIDE DEF Meant
        <5>5. CASE e.type = "started"
          <6>1. Blocks(Upto(S, n), "blocked", "unblocked", None)
                     <=> Blocks(Upto(S, n - 1), "blocked", "unblocked", None)
            BY <3>7, <5>4, <5>5
          <6>2. after[n].status = IF was = "blocked" THEN "blocked" ELSE "active"
            BY <3>5, <4>1, <5>5
          <6>3. Meant(n) = after[n].status
            BY <3>7, <5>2, <5>3, <5>5, <6>1, <6>2
          <6>4. QED
            BY <2>1, <6>3
        <5>6. CASE e.type = "blocked"
          <6>1. Blocks(Upto(S, n), "blocked", "unblocked", None)
            BY <3>1, <3>6, <3>7, <3>8, <5>4, <5>6
          <6>2. QED
            BY <2>1, <3>5, <4>1, <5>3, <5>6, <6>1
        <5>7. CASE e.type = "unblocked"
          <6>1. ~Blocks(Upto(S, n), "blocked", "unblocked", None)
            BY <2>1, <3>1, <3>6, <3>7, <3>8, <5>4, <5>7
          <6>2. after[n].status = IF was = "blocked" THEN "active" ELSE was
            BY <3>5, <4>1, <5>7
          <6>3. was = "blocked" => on(n - 1) # {}
            BY <5>2, <5>4
          <6>4. Meant(n) = after[n].status
            BY <3>7, <5>2, <5>3, <5>7, <6>1, <6>2, <6>3
          <6>5. QED
            BY <2>1, <6>4
        <5>8. QED
          BY <3>4, <4>3, <5>5, <5>6, <5>7 DEF Terminal
      <4>4. QED
        BY <4>2, <4>3
    <3>11. QED
      BY <3>9, <3>10
  <2>6. QED
    BY <2>4, <2>5
<1>7. last \in good
  <2>1. good \in SUBSET Nat
    BY <1>4
  <2> HIDE DEF good, last
  <2>2. QED
    BY <1>4, <1>5, <1>6, <2>1, EveryTick
<1>8. Meant(last) = StatusMeant(S)
  <2>1. /\ E \in SUBSET S /\ {e \in S : e.type = "started"} \subseteq E
        /\ {e \in S : e.type = "blocked"} \subseteq E /\ {e \in S : e.type = "unblocked"} \subseteq E
        /\ {e \in S : e.type = "done"} \subseteq E /\ {e \in S : e.type = "retired"} \subseteq E
    BY DEF Executing
  <2>2. /\ started(last) = Said(S, "started") /\ on(last) = Said(S, "blocked")
        /\ off(last) = Said(S, "unblocked") /\ done(last) = Said(S, "done")
        /\ retired(last) = Said(S, "retired")
    <3> HIDE DEF E
    <3>1. QED
      BY <2>1, AllSaid
  <2>3. QED
    BY <2>2, SameMeaning
<1>9. QED
  BY <1>2, <1>3, <1>4, <1>7, <1>8

-----------------------------------------------------------------------------
(* The invariant *)

View(c) == Range(ReadEvents(c))

\* Of the events E: those a writer had read, and those of the same append.
Before(E, e) == {x \in E : x.id \in e.read}
WithIt(E, e) == {x \in E : e.batch # None /\ x.batch = e.batch}

TypeOK == /\ shared \in Seq(Events) /\ tail \in [Clones -> Seq(Events)]
          /\ known \in [Clones -> Nat] /\ \A c \in Clones : known[c] <= Len(shared)
          /\ ledger \in [Session -> {"unknown", "running", "ended"}]

\* What a clone holds is what its log folds to.
Folded == unit = [c \in Clones |-> FoldUnit(ReadEvents(c))]

\* Who has an event has what its writer had read, and the whole of its append.
WholeIn(V) == \A e \in V : Before(Written, e) \cup WithIt(Written, e) \subseteq V
Whole == WholeIn(Range(shared)) /\ \A c \in Clones : WholeIn(View(c))

Shaped(e) ==
    /\ e \in Events /\ e.id > 0 /\ e.batch <= e.id /\ e.annuls < e.id /\ \A i \in e.read : i < e.id
    /\ e.annuls # None <=> e.type = "annulled"
    /\ e.type \in {"blocked", "unblocked"} => e.criterion = None
    /\ e.type = "retracted" => e.of = Decision
    /\ e.type \in {"started", "approved"} => e.of = Work
    /\ e.type = "approved" => e.batch = None

\* A claim of completion had every criterion covered, and something checkable.
DoneSound(E, e) == e.type = "done" =>
    LET S == Standing(Before(E, e)) IN
    /\ \A d \in Said(S, "declared") : \E v \in Said(S, "covered") : v.criterion = d.criterion
    /\ (\E r \in Said(S, "report") : r.evidence) \/ Said(WithIt(E, e), "report") # {}

\* A dispatch under designs had one approved, whose decision held.
StartSound(E, e) == e.type = "started" =>
    LET S == Standing(Before(E, e)) IN (\E r \in Said(S, "report") : r.design) =>
        /\ Said(S, "approved") # {}
        /\ Said(S, "retracted") = {} \/ \A ev \in Said(S, "created") : ev.of # Decision

\* An undo takes its append whole, with those before it, and an approval only
\* from under no dispatch that its writer had read.
UndoSound(E, e) == \A r \in E : r.id = e.annuls =>
    /\ \A m \in {r} \cup WithIt(E, r) : \E a \in Before(E, e) \cup {e} \cup WithIt(E, e) : a.annuls = m.id
    /\ r.type = "approved" => \A s \in Said(Standing(Before(E, e)), "started") : s.id <= r.id

Sound(E, e) == Shaped(e) /\ DoneSound(E, e) /\ StartSound(E, e) /\ UndoSound(E, e)

Records(E) == Timed(E) /\ \A e \in E : Sound(E, e)

IInv == TypeOK /\ Folded /\ Whole /\ Records(Written)

-----------------------------------------------------------------------------
(* Logs and the sets of their events *)

\* The events of the first part of a sequence, whatever is written behind it.
LEMMA Beginning ==
    ASSUME NEW T, NEW s \in Seq(T), NEW k \in Nat, k <= Len(s)
    PROVE  /\ SubSeq(s, 1, k) \in Seq(T) /\ Range(SubSeq(s, 1, k)) \subseteq Range(s)
           /\ \A t \in Seq(T) : SubSeq(s \o t, 1, k) = SubSeq(s, 1, k)
           /\ SubSeq(s, 1, Len(s)) = s
<1>1. Len(s) \in Nat /\ DOMAIN s = 1..Len(s) /\ \A i \in 1..Len(s) : s[i] \in T
  BY LenProperties, ElementOfSeq
<1>2. ASSUME NEW u \in Seq(T), NEW j \in Nat, j <= Len(u)
      PROVE  /\ SubSeq(u, 1, j) \in Seq(T) /\ Len(SubSeq(u, 1, j)) = j
             /\ \A i \in 1..j : SubSeq(u, 1, j)[i] = u[i]
  <2>1. Len(u) \in Nat /\ \A i \in 1..Len(u) : u[i] \in T
    BY LenProperties, ElementOfSeq
  <2>2. \A i \in 1..j : u[i] \in T
    BY <1>2, <2>1
  <2>3. /\ SubSeq(u, 1, j) \in Seq(T)
        /\ Len(SubSeq(u, 1, j)) = IF 1 <= j THEN j - 1 + 1 ELSE 0
        /\ \A i \in 1..(j - 1 + 1) : SubSeq(u, 1, j)[i] = u[1 + i - 1]
    BY <2>2, SubSeqProperties
  <2>4. QED
    BY <2>3
<1>3. SubSeq(s, 1, k) \in Seq(T) /\ Len(SubSeq(s, 1, k)) = k /\ \A i \in 1..k : SubSeq(s, 1, k)[i] = s[i]
  BY <1>2
<1>4. Range(SubSeq(s, 1, k)) \subseteq Range(s)
  <2>1. Range(SubSeq(s, 1, k)) = {SubSeq(s, 1, k)[i] : i \in 1..k}
    BY <1>3, RangeEquality
  <2>2. Range(s) = {s[i] : i \in 1..Len(s)}
    BY RangeEquality
  <2>3. QED
    BY <1>1, <1>3, <2>1, <2>2
<1>5. ASSUME NEW t \in Seq(T) PROVE SubSeq(s \o t, 1, k) = SubSeq(s, 1, k)
  <2>1. /\ s \o t \in Seq(T) /\ Len(s \o t) = Len(s) + Len(t)
        /\ \A i \in 1..Len(s) : (s \o t)[i] = s[i]
    <3>1. /\ s \o t \in Seq(T) /\ Len(s \o t) = Len(s) + Len(t)
          /\ \A i \in 1..(Len(s) + Len(t)) : (s \o t)[i] = IF i <= Len(s) THEN s[i] ELSE t[i - Len(s)]
      BY ConcatProperties
    <3>2. Len(t) \in Nat
      BY LenProperties
    <3>3. QED
      BY <1>1, <3>1, <3>2
  <2>2. k <= Len(s \o t)
    <3>1. Len(t) \in Nat
      BY LenProperties
    <3>2. QED
      BY <1>1, <2>1, <3>1
  <2>3. /\ SubSeq(s \o t, 1, k) \in Seq(T) /\ Len(SubSeq(s \o t, 1, k)) = k
        /\ \A i \in 1..k : SubSeq(s \o t, 1, k)[i] = (s \o t)[i]
    BY <1>2, <2>1, <2>2
  <2>4. \A i \in 1..k : SubSeq(s \o t, 1, k)[i] = SubSeq(s, 1, k)[i]
    BY <1>1, <1>3, <2>1, <2>3
  <2>5. QED
    BY <1>3, <2>3, <2>4, SeqEqual
<1>6. SubSeq(s, 1, Len(s)) = s
  <2>1. /\ SubSeq(s, 1, Len(s)) \in Seq(T) /\ Len(SubSeq(s, 1, Len(s))) = Len(s)
        /\ \A i \in 1..Len(s) : SubSeq(s, 1, Len(s))[i] = s[i]
    BY <1>1, <1>2
  <2>2. QED
    BY <2>1, SeqEqual
<1>7. QED
  BY <1>3, <1>4, <1>5, <1>6

\* What a clone reads is of the shared log and of its tail.
LEMMA Reads ==
    ASSUME TypeOK, NEW c \in Clones
    PROVE  /\ ReadEvents(c) \in Seq(Events)
           /\ View(c) = Range(SubSeq(shared, 1, known[c])) \cup Range(tail[c])
           /\ Range(SubSeq(shared, 1, known[c])) \subseteq Range(shared)
           /\ View(c) \subseteq Written
<1>1. shared \in Seq(Events) /\ known[c] \in Nat /\ known[c] <= Len(shared) /\ tail[c] \in Seq(Events)
  BY DEF TypeOK
<1>2. /\ SubSeq(shared, 1, known[c]) \in Seq(Events)
      /\ Range(SubSeq(shared, 1, known[c])) \subseteq Range(shared)
  BY <1>1, Beginning
<1>3. /\ ReadEvents(c) \in Seq(Events)
      /\ View(c) = Range(SubSeq(shared, 1, known[c])) \cup Range(tail[c])
  <2>1. Range(SubSeq(shared, 1, known[c]) \o tail[c]) = Range(SubSeq(shared, 1, known[c])) \cup Range(tail[c])
    <3>1. PICK p \in Seq(Events) : p = SubSeq(shared, 1, known[c])
      BY <1>2
    <3>2. PICK q \in Seq(Events) : q = tail[c]
      BY <1>1
    <3>3. Range(p \o q) = Range(p) \cup Range(q)
      BY RangeConcatenation
    <3>4. QED
      BY <3>1, <3>2, <3>3
  <2>2. SubSeq(shared, 1, known[c]) \o tail[c] \in Seq(Events)
    BY <1>1, <1>2, ConcatProperties
  <2>3. QED
    BY <2>1, <2>2 DEF ReadEvents, View
<1>4. QED
  BY <1>2, <1>3 DEF Written

\* The clock is not behind any event.
LEMMA Clock ==
    ASSUME Timed(Written) PROVE Newest \in Nat /\ \A e \in Written : e.id <= Newest
<1>1. PICK B \in Nat : \A e \in Written : e.id <= B
  BY DEF Timed
<1> DEFINE ids == Ids(Written) \cup {None}
<1>2. ids \in SUBSET Nat /\ ids # {} /\ \A y \in ids : y <= B
  BY <1>1 DEF Timed, Events, Ids, None
<1>3. Max(ids) \in Nat /\ \A y \in ids : y <= Max(ids)
  <2> HIDE DEF ids
  <2>1. QED
    BY <1>2, GreatestExists
<1>4. QED
  BY <1>3 DEF Newest, Ids

\* Of the events of E, those that stand stand in any part of E they are in.
LEMMA StandsInPart ==
    ASSUME NEW E, NEW P, P \subseteq E, NEW e \in P, e \in Standing(E) PROVE e \in Standing(P)
BY DEF Standing, AnnulledIds

\* What a clone holds of the unit is what stands in its log means.
LEMMA UnitMeans ==
    ASSUME IInv, NEW c \in Clones, NEW S, S = Standing(View(c))
    PROVE  /\ Timed(S) /\ Plain(S)
           /\ DOMAIN unit[c].criteria = Declared(S)
           /\ \A x \in Declared(S) : unit[c].criteria[x] = CriterionOf(S, x)
           /\ unit[c].status = WorkStatus(S, StatusMeant(S))
           /\ unit[c].reports = Reports(S) /\ unit[c].decision = StatusOf(S, Decision)
<1>1. S \subseteq Written
  BY Reads DEF IInv, Standing
<1>2. Timed(S)
  BY <1>1 DEF IInv, Records, Timed
<1>3. Plain(S)
  BY <1>1 DEF IInv, Records, Plain, Sound, Shaped
<1>4. unit[c] = FoldUnit(ReadEvents(c))
  BY DEF IInv, Folded
<1>5. /\ unit[c].criteria = SettleCriteria(S) /\ unit[c].status = WorkStatus(S, Execution(S).status)
      /\ unit[c].reports = Reports(S) /\ unit[c].decision = StatusOf(S, Decision)
  BY <1>4 DEF FoldUnit, View
<1>6. QED
  BY <1>2, <1>3, <1>5, CriteriaMean, ExecutionMeans

-----------------------------------------------------------------------------
(* The run's properties follow *)

\* Every clone reads the same of the same events (ReadsAsItsMeaning).
LEMMA MeaningFollows == ASSUME IInv PROVE ReadsAsItsMeaning
<1> SUFFICES ASSUME NEW c \in Clones, NEW S, S = Standing(View(c))
             PROVE  /\ \A x \in Declared(S) : unit[c].criteria[x] = CriterionOf(S, x)
                    /\ unit[c].status # "undone" => unit[c].status = StatusMeant(S)
  BY DEF ReadsAsItsMeaning, CriterionOf, StatusMeant, View
<1>1. QED
  BY UnitMeans DEF WorkStatus

\* A unit that reads done was complete when it was claimed so.
LEMMA DoneFollows == ASSUME IInv PROVE DoneIsAccounted
<1> SUFFICES ASSUME NEW c \in Clones, unit[c].status = "done",
                    NEW E, E = View(c), NEW S, S = Standing(E), NEW done, done = Ending(S)
             PROVE  /\ \A x \in {y \in DOMAIN unit[c].criteria : unit[c].criteria[y] # "covered"} :
                        \/ \A ev \in Said(S, "declared") : ev.criterion = x => ev.id \notin done.read
                        \/ TakenBack(E, done, {ev \in E : ev.type = "covered" /\ ev.criterion = x})
                    /\ \/ \E r \in Said(S, "report") : r.evidence \/ (done.batch # None /\ r.batch = done.batch)
                       \/ TakenBack(E, done, {ev \in E : ev.type = "report" /\ ev.evidence})
  BY DEF DoneIsAccounted, View
<1>1. /\ Timed(S) /\ DOMAIN unit[c].criteria = Declared(S)
      /\ \A x \in Declared(S) : unit[c].criteria[x] = CriterionOf(S, x)
      /\ StatusMeant(S) = "done"
  BY UnitMeans DEF WorkStatus
<1>2. done \in S /\ done.type = "done"
  <2>1. Endings(S) # {} /\ done.type = "done"
    BY <1>1 DEF StatusMeant
  <2>2. QED
    BY <1>1, <2>1, FirstEnding DEF Endings, Said
<1>3. S \subseteq E /\ E \subseteq Written /\ WholeIn(E)
  BY Reads DEF IInv, Standing, Whole
<1>4. Sound(Written, done)
  BY <1>2, <1>3 DEF IInv, Records
<1>5. PICK R : R = Before(Written, done)
  OBVIOUS
<1>6. R \subseteq E /\ WithIt(Written, done) \subseteq E
  BY <1>2, <1>3, <1>5 DEF WholeIn
<1>7. \A ev \in R : ev.id \in done.read /\ (ev \in S => ev \in Standing(R))
  BY <1>5, <1>6, StandsInPart DEF Before
<1>8. /\ \A d \in Said(Standing(R), "declared") : \E v \in Said(Standing(R), "covered") : v.criterion = d.criterion
      /\ (\E r \in Said(Standing(R), "report") : r.evidence) \/ Said(WithIt(Written, done), "report") # {}
  BY <1>2, <1>4, <1>5 DEF Sound, DoneSound
<1>9. \A ev \in Standing(R) : ev \in E /\ ev.id \in done.read /\ (ev \notin S => ev.id \in AnnulledIds(E))
  BY <1>6, <1>7 DEF Standing
<1>10. ASSUME NEW x \in DOMAIN unit[c].criteria, unit[c].criteria[x] # "covered",
              NEW ev \in Said(S, "declared"), ev.criterion = x, ev.id \in done.read
       PROVE  TakenBack(E, done, {b \in E : b.type = "covered" /\ b.criterion = x})
  <2>1. \A v \in Said(S, "covered") : v.criterion # x
    BY <1>1, <1>10 DEF CriterionOf
  <2>2. ev \in Said(Standing(R), "declared")
    <3>1. ev \in S /\ ev \in Written
      BY <1>3 DEF Said
    <3>2. ev \in R
      BY <1>5, <1>10, <3>1 DEF Before
    <3>3. QED
      BY <1>7, <3>1, <3>2 DEF Said
  <2>3. PICK v \in Said(Standing(R), "covered") : v.criterion = x
    BY <1>8, <1>10, <2>2
  <2>4. v \in E /\ v.type = "covered" /\ v.id \in done.read /\ v.id \in AnnulledIds(E)
    BY <1>9, <2>1, <2>3 DEF Said
  <2>5. QED
    BY <2>3, <2>4 DEF TakenBack
<1>11. CASE \E r \in Said(Standing(R), "report") : r.evidence
  <2>1. PICK r \in Said(Standing(R), "report") : r.evidence
    BY <1>11
  <2>2. CASE r \in S
    BY <1>10, <2>1, <2>2 DEF Said
  <2>3. CASE r \notin S
    <3>1. r \in E /\ r.type = "report" /\ r.id \in done.read /\ r.id \in AnnulledIds(E)
      BY <1>9, <2>3 DEF Said
    <3>2. TakenBack(E, done, {ev \in E : ev.type = "report" /\ ev.evidence})
      BY <2>1, <3>1 DEF TakenBack
    <3>3. QED
      BY <1>10, <3>2
  <2>4. QED
    BY <2>2, <2>3
<1>12. CASE Said(WithIt(Written, done), "report") # {}
  <2>1. PICK r \in WithIt(Written, done) : r.type = "report"
    BY <1>12 DEF Said
  <2>2. r \in E /\ done.batch # None /\ r.batch = done.batch /\ r \in Written
    BY <1>6, <2>1 DEF WithIt
  <2>3. r \in S
    <3>1. SUFFICES ASSUME r.id \in AnnulledIds(E) PROVE FALSE
      BY <2>2 DEF Standing
    <3>2. PICK a \in E : a.annuls = r.id
      BY <3>1 DEF AnnulledIds
    <3>3. a \in Written /\ UndoSound(Written, a)
      BY <1>3 DEF IInv, Records, Sound
    <3>4. done \in WithIt(Written, r)
      BY <1>2, <1>3, <2>2 DEF WithIt
    <3>5. PICK b \in Before(Written, a) \cup {a} \cup WithIt(Written, a) : b.annuls = done.id
      BY <2>2, <3>2, <3>3, <3>4 DEF UndoSound
    <3>6. b \in E
      BY <1>3, <3>5 DEF WholeIn
    <3>7. done.id \in AnnulledIds(E)
      <4>1. done.id # None
        BY <1>1, <1>2 DEF Timed, None
      <4>2. QED
        BY <3>5, <3>6, <4>1 DEF AnnulledIds
    <3>8. QED
      BY <1>2, <3>7 DEF Standing
  <2>4. QED
    BY <1>10, <2>1, <2>2, <2>3 DEF Said
<1>13. QED
  BY <1>8, <1>11, <1>12

\* What a start read holds an approval, and no undo of that read the start.
LEMMA ApprovalStays ==
    ASSUME IInv, NEW c \in Clones, NEW E, E = View(c), NEW start \in Said(Standing(E), "started"),
           NEW R, R = Before(Written, start),
           \E r \in R : r.type = "report" /\ r.design /\ r \in Standing(R)
    PROVE  /\ \/ \A ev \in R : ev.type = "retracted" => ev \notin Standing(R)
              \/ \A ev \in R : ev.type = "created" /\ ev.of = Decision => ev \notin Standing(R)
           /\ \E a \in R : /\ a.type = "approved" /\ a \in Standing(R)
                  /\ \A undo \in E : undo.annuls = a.id => start.id \notin undo.read
<1>1. start \in E /\ start \in Standing(E) /\ start.type = "started" /\ E \subseteq Written /\ WholeIn(E)
  BY Reads DEF IInv, Said, Standing, Whole
<1>2. R \subseteq E /\ R \subseteq Written /\ Sound(Written, start)
  BY <1>1 DEF WholeIn, IInv, Records
<1>3. /\ Said(Standing(R), "approved") # {}
      /\ Said(Standing(R), "retracted") = {} \/ \A ev \in Said(Standing(R), "created") : ev.of # Decision
  <2>1. \E r \in Said(Standing(R), "report") : r.design
    BY DEF Said
  <2>2. QED
    BY <1>1, <1>2, <2>1 DEF Sound, StartSound
<1>4. PICK a \in Standing(R) : a.type = "approved"
  BY <1>3 DEF Said
<1>5. a \in R /\ a.id < start.id
  <2>1. a \in R /\ a.id \in start.read
    BY <1>4 DEF Standing, Before
  <2>2. QED
    BY <1>2, <2>1 DEF Sound, Shaped
<1>6. ASSUME NEW undo \in E, undo.annuls = a.id, start.id \in undo.read PROVE FALSE
  <2>1. undo \in Written /\ UndoSound(Written, undo)
    BY <1>1 DEF IInv, Records, Sound
  <2>2. Before(Written, undo) \subseteq E
    BY <1>1 DEF WholeIn
  <2>3. start \in Before(Written, undo)
    BY <1>1, <1>6 DEF Before
  <2>4. start \in Said(Standing(Before(Written, undo)), "started")
    BY <1>1, <2>2, <2>3, StandsInPart DEF Said
  <2>5. start.id <= a.id
    BY <1>2, <1>4, <1>5, <1>6, <2>1, <2>4 DEF UndoSound
  <2>6. start.id \in Nat /\ a.id \in Nat
    BY <1>1, <1>2, <1>5 DEF IInv, Records, Timed, Events
  <2>7. QED
    BY <1>5, <2>5, <2>6
<1>7. QED
  BY <1>3, <1>4, <1>5, <1>6 DEF Said

\* A dispatch under designs stands on an approval it read.
LEMMA DispatchFollows == ASSUME IInv PROVE DispatchStandsOnApproval
<1> SUFFICES ASSUME NEW c \in Clones, NEW E, E = View(c), NEW start \in Said(Standing(E), "started")
             PROVE  LET Read(type) == {ev \in E : ev.type = type /\ ev.id \in start.read}
                        Undone(ev) == \E a \in Read("annulled") : a.annuls = ev.id
                    IN (\E r \in Read("report") : r.design /\ ~Undone(r)) =>
                        /\ \/ \A ev \in Read("retracted") : Undone(ev)
                           \/ \A ev \in Read("created") : ev.of = Decision => Undone(ev)
                        /\ \E a \in Read("approved") : /\ ~Undone(a)
                               /\ \A undo \in E : undo.annuls = a.id => start.id \notin undo.read
  BY DEF DispatchStandsOnApproval, View
<1>1. start \in E /\ E \subseteq Written /\ WholeIn(E)
  BY Reads DEF IInv, Said, Standing, Whole
<1> DEFINE Read(type) == {ev \in E : ev.type = type /\ ev.id \in start.read}
           Undone(ev) == \E a \in Read("annulled") : a.annuls = ev.id
           R == Before(Written, start)
<1>2. R \subseteq E
  BY <1>1 DEF WholeIn
<1>3. ASSUME NEW type PROVE Read(type) = {ev \in R : ev.type = type}
  BY <1>1, <1>2 DEF Before
<1>4. ASSUME NEW ev \in R PROVE Undone(ev) <=> ev \notin Standing(R)
  <2>1. ev.id # None
    BY <1>1, <1>2 DEF IInv, Records, Timed, None
  <2>2. \A a \in R : a.annuls = ev.id => a.type = "annulled"
    BY <1>1, <1>2, <2>1 DEF IInv, Records, Sound, Shaped
  <2>3. Read("annulled") = {a \in R : a.type = "annulled"}
    BY <1>3
  <2> HIDE DEF Read, R
  <2>4. Undone(ev) <=> \E a \in R : a.annuls = ev.id
    BY <2>2, <2>3
  <2>5. ev.id \in AnnulledIds(R) <=> \E a \in R : a.annuls = ev.id
    BY <2>1 DEF AnnulledIds
  <2>6. QED
    BY <2>4, <2>5 DEF Standing
<1> HIDE DEF Undone, Read
<1>5. SUFFICES ASSUME \E r \in Read("report") : r.design /\ ~Undone(r)
               PROVE  /\ \/ \A ev \in Read("retracted") : Undone(ev)
                         \/ \A ev \in Read("created") : ev.of = Decision => Undone(ev)
                      /\ \E a \in Read("approved") : /\ ~Undone(a)
                             /\ \A undo \in E : undo.annuls = a.id => start.id \notin undo.read
  BY DEF Undone, Read
<1> HIDE DEF R
<1>6. /\ Read("report") = {ev \in R : ev.type = "report"}
      /\ Read("retracted") = {ev \in R : ev.type = "retracted"}
      /\ Read("created") = {ev \in R : ev.type = "created"}
      /\ Read("approved") = {ev \in R : ev.type = "approved"}
  BY <1>3
<1>7. \E r \in R : r.type = "report" /\ r.design /\ r \in Standing(R)
  BY <1>4, <1>5, <1>6
<1>8. /\ \/ \A ev \in R : ev.type = "retracted" => ev \notin Standing(R)
         \/ \A ev \in R : ev.type = "created" /\ ev.of = Decision => ev \notin Standing(R)
      /\ \E a \in R : /\ a.type = "approved" /\ a \in Standing(R)
             /\ \A undo \in E : undo.annuls = a.id => start.id \notin undo.read
  BY <1>7, ApprovalStays DEF R
<1>9. QED
  BY <1>4, <1>6, <1>8

-----------------------------------------------------------------------------
(* The beginning *)

\* A seed's events are one an append, each having read those before it.
LEMMA SeedsAreSound == ASSUME NEW L \in Seeds PROVE Records(Range(L))
<1>1. L \in Seq(Events) /\ Len(L) \in Nat /\ DOMAIN L = 1..Len(L)
  BY SeedsAssumption, LenProperties
<1>2. Range(L) = {L[i] : i \in 1..Len(L)}
  BY <1>1, RangeEquality
<1>3. \A i \in 1..Len(L) :
          /\ L[i] \in Events /\ L[i].id = i /\ L[i].read = 1..(i - 1)
          /\ L[i].batch = None /\ L[i].annuls = None
          /\ L[i].type \in {"created", "declared", "covered", "report", "approved"}
          /\ L[i].type = "approved" => L[i].of = Work
  BY <1>1, SeedsAssumption, ElementOfSeq
<1>4. Timed(Range(L))
  <2>1. \A e \in Range(L) : \E i \in 1..Len(L) : e = L[i] /\ e \in Events /\ e.id = i
    BY <1>2, <1>3
  <2>2. \A e \in Range(L) : e.id > 0 /\ e.id <= Len(L)
    BY <1>1, <2>1
  <2>3. \A e, f \in Range(L) : e.id = f.id => e = f
    BY <2>1
  <2>4. QED
    BY <1>1, <2>1, <2>2, <2>3 DEF Timed
<1>5. ASSUME NEW e \in Range(L) PROVE Sound(Range(L), e)
  <2>1. PICK i \in 1..Len(L) : e = L[i]
    BY <1>2
  <2>2. Shaped(e)
    BY <1>1, <1>3, <2>1 DEF Shaped, None
  <2>3. DoneSound(Range(L), e) /\ StartSound(Range(L), e)
    BY <1>3, <2>1 DEF DoneSound, StartSound
  <2>4. UndoSound(Range(L), e)
    BY <1>3, <1>4, <2>1 DEF UndoSound, Timed, None
  <2>5. QED
    BY <2>2, <2>3, <2>4 DEF Sound
<1>6. QED
  BY <1>4, <1>5 DEF Records

\* Nothing is in an empty log.
LEMMA NothingIn == Range(<<>>) = {} /\ <<>> \in Seq(Events)
<1>1. Range(<<>>) = {<<>>[i] : i \in 1..Len(<<>>)} /\ Len(<<>>) = 0
  BY EmptySeq, RangeEquality
<1>2. QED
  BY <1>1, EmptySeq

\* A run begins on a seed, which every clone has folded.
LEMMA Begins == ASSUME Init PROVE IInv
<1>1. shared \in Seeds /\ known = [c \in Clones |-> Len(shared)] /\ tail = [c \in Clones |-> <<>>]
      /\ unit = [c \in Clones |-> FoldUnit(shared)] /\ ledger = [s \in Session |-> "unknown"]
  BY DEF Init
<1>2. shared \in Seq(Events) /\ Len(shared) \in Nat
  BY <1>1, SeedsAssumption, LenProperties
<1>3. TypeOK
  BY <1>1, <1>2, NothingIn DEF TypeOK
<1>4. ASSUME NEW c \in Clones PROVE ReadEvents(c) = shared
  <2>1. ReadEvents(c) = SubSeq(shared, 1, Len(shared)) \o <<>>
    BY <1>1 DEF ReadEvents
  <2>2. SubSeq(shared, 1, Len(shared)) = shared
    BY <1>2, Beginning
  <2>3. QED
    BY <1>2, <2>1, <2>2, ConcatEmptySeq
<1>5. Folded
  BY <1>1, <1>4 DEF Folded
<1>6. Written = Range(shared)
  BY <1>1, NothingIn DEF Written
<1>7. Whole
  BY <1>4, <1>6 DEF Whole, WholeIn, View, Before, WithIt
<1>8. Records(Written)
  BY <1>1, <1>6, SeedsAreSound
<1>9. QED
  BY <1>3, <1>5, <1>7, <1>8 DEF IInv

-----------------------------------------------------------------------------
(* A sync *)

\* A sync adds nothing anywhere, and leaves its clone with all of the shared log.
LEMMA SyncKeeps == ASSUME IInv, NEW c \in Clones, Sync(c) PROVE IInv'
<1> USE DEF IInv
<1>1. /\ shared \in Seq(Events) /\ known[c] \in Nat /\ known[c] <= Len(shared) /\ tail[c] \in Seq(Events)
      /\ tail \in [Clones -> Seq(Events)] /\ known \in [Clones -> Nat] /\ Len(shared) \in Nat
      /\ \A d \in Clones : known[d] <= Len(shared)
  BY LenProperties DEF TypeOK
<1>2. /\ shared' = shared \o tail[c] /\ known' = [known EXCEPT ![c] = Len(shared')]
      /\ tail' = [tail EXCEPT ![c] = <<>>] /\ unit' = [unit EXCEPT ![c] = FoldUnit(shared')]
      /\ ledger' = ledger
  BY DEF Sync
<1>3. /\ shared' \in Seq(Events) /\ Len(shared') = Len(shared) + Len(tail[c]) /\ Len(tail[c]) \in Nat
      /\ Len(shared') \in Nat /\ Range(shared') = Range(shared) \cup Range(tail[c])
  BY <1>1, <1>2, ConcatProperties, RangeConcatenation, LenProperties
<1>4. TypeOK'
  BY <1>1, <1>2, <1>3, NothingIn DEF TypeOK
<1>5. ASSUME NEW d \in Clones, d # c PROVE ReadEvents(d)' = ReadEvents(d)
  <2>1. SubSeq(shared \o tail[c], 1, known[d]) = SubSeq(shared, 1, known[d])
    BY <1>1, Beginning
  <2>2. QED
    BY <1>1, <1>2, <1>5, <2>1 DEF ReadEvents
<1>6. ReadEvents(c)' = shared'
  <2>1. ReadEvents(c)' = SubSeq(shared', 1, Len(shared')) \o <<>>
    BY <1>1, <1>2 DEF ReadEvents
  <2>2. SubSeq(shared', 1, Len(shared')) = shared'
    BY <1>3, Beginning
  <2>3. QED
    BY <1>3, <2>1, <2>2, ConcatEmptySeq
<1>7. Folded'
  <2>1. unit = [d \in Clones |-> FoldUnit(ReadEvents(d))]
    BY DEF Folded
  <2>2. unit' = [d \in Clones |-> IF d = c THEN FoldUnit(shared') ELSE FoldUnit(ReadEvents(d))]
    BY <1>2, <2>1
  <2>3. QED
    BY <1>5, <1>6, <2>2 DEF Folded
<1>8. Written' = Written
  <2>1. Written' = Range(shared') \cup UNION {Range(tail'[d]) : d \in Clones}
    BY DEF Written
  <2>2. \A d \in Clones : Range(tail'[d]) = IF d = c THEN {} ELSE Range(tail[d])
    BY <1>1, <1>2, NothingIn
  <2>3. QED
    BY <1>3, <2>1, <2>2 DEF Written
<1>9. Range(shared') = Range(shared) \cup View(c)
  BY <1>3, Reads
<1>10. ASSUME NEW V, WholeIn(V) PROVE WholeIn(V)'
  BY <1>8, <1>10 DEF WholeIn
<1>11. WholeIn(Range(shared))' /\ WholeIn(Range(shared'))
  BY <1>8, <1>9 DEF Whole, WholeIn
<1>12. \A d \in Clones : View(d)' = IF d = c THEN Range(shared') ELSE View(d)
  BY <1>5, <1>6 DEF View
<1>13. Whole'
  BY <1>8, <1>11, <1>12 DEF Whole, WholeIn
<1>14. QED
  BY <1>4, <1>7, <1>8, <1>13

-----------------------------------------------------------------------------
(* An append *)

\* The events of an append, stamped.
Stamped(events, i, now, seen) ==
    [events[i] EXCEPT !.id = now + i, !.read = seen,
                      !.batch = IF Len(events) = 1 THEN None ELSE now + 1]
New(events, now, seen) == {Stamped(events, i, now, seen) : i \in DOMAIN events}

\* What an append may say, at the clock's now.
Sayable(e, now) ==
    /\ e \in Events /\ e.annuls <= now
    /\ e.annuls # None <=> e.type = "annulled"
    /\ e.type \in {"blocked", "unblocked"} => e.criterion = None
    /\ e.type = "retracted" => e.of = Decision
    /\ e.type \in {"started", "approved"} => e.of = Work

\* A stamped event is the event, with its id, its reads and its batch.
LEMMA StampedIs ==
    ASSUME NEW events \in Seq(Events), NEW i \in DOMAIN events, NEW now \in Nat, NEW seen \in SUBSET Nat,
           NEW e, e = Stamped(events, i, now, seen)
    PROVE  /\ e \in Events /\ e.id = now + i /\ e.read = seen /\ i \in 1..Len(events)
           /\ e.batch = IF Len(events) = 1 THEN None ELSE now + 1
           /\ e.type = events[i].type /\ e.annuls = events[i].annuls
           /\ e.of = events[i].of /\ e.criterion = events[i].criterion
<1>1. Len(events) \in Nat /\ i \in 1..Len(events) /\ events[i] \in Events /\ now + i \in Nat
  BY LenProperties, ElementOfSeq
<1>2. PICK b \in Nat : b = IF Len(events) = 1 THEN None ELSE now + 1
  BY DEF None
<1>3. PICK ev \in Events : ev = events[i]
  BY <1>1
<1>4. PICK k \in Nat : k = now + i
  BY <1>1
<1>5. e = [ev EXCEPT !.id = k, !.read = seen, !.batch = b]
  BY <1>2, <1>3, <1>4 DEF Stamped
<1>6. /\ e \in Events /\ e.id = k /\ e.read = seen /\ e.batch = b
      /\ e.type = ev.type /\ e.annuls = ev.annuls /\ e.of = ev.of /\ e.criterion = ev.criterion
  BY <1>5 DEF Events
<1>7. QED
  BY <1>1, <1>2, <1>3, <1>4, <1>6

\* What new events N leave of the events E, which they are now of.
Extends(E, N, c, events) ==
    /\ Timed(E) /\ \A e \in N : e.id > Newest
    /\ \A e \in Written : Before(E, e) = Before(Written, e) /\ WithIt(E, e) = WithIt(Written, e)
    /\ \A e \in N : /\ Before(E, e) = View(c)
                    /\ WithIt(E, e) = IF Len(events) = 1 THEN {} ELSE N
                    /\ \A i \in e.read : i < e.id
    /\ \A e \in Written : Sound(E, e)

\* New events are later than all others, have read what their writer held, and
\* leave what the others had read and came with.
LEMMA Fresh ==
    ASSUME IInv, NEW c \in Clones, NEW events \in Seq(Events), NEW N,
           N = New(events, Newest, Ids(View(c))),
           \A i \in DOMAIN events : Sayable(events[i], Newest),
           NEW E, E = Written \cup N
    PROVE  Extends(E, N, c, events)
<1>1. Newest \in Nat /\ Timed(Written) /\ \A e \in Written : e.id \in Nat /\ e.id > 0 /\ e.id <= Newest
  BY Clock DEF IInv, Records, Timed, Events
<1>2. Len(events) \in Nat /\ DOMAIN events = 1..Len(events) /\ \A i \in DOMAIN events : events[i] \in Events
  BY LenProperties, ElementOfSeq
<1>3. View(c) \subseteq Written
  BY Reads DEF IInv
<1>4. Ids(View(c)) \subseteq Nat /\ \A i \in Ids(View(c)) : i <= Newest
  BY <1>1, <1>3 DEF Ids
<1>5. ASSUME NEW i \in DOMAIN events, NEW e, e = Stamped(events, i, Newest, Ids(View(c)))
      PROVE  /\ e \in Events /\ e.id = Newest + i /\ e.read = Ids(View(c))
             /\ e.batch = IF Len(events) = 1 THEN None ELSE Newest + 1
             /\ e.type = events[i].type /\ e.annuls = events[i].annuls
  <2>1. Ids(View(c)) \in SUBSET Nat
    BY <1>4
  <2>2. QED
    BY <1>1, <1>5, <2>1, StampedIs
<1>6. ASSUME NEW e \in N
      PROVE  \E i \in 1..Len(events) :
             /\ e = Stamped(events, i, Newest, Ids(View(c)))
             /\ e \in Events /\ e.id = Newest + i /\ e.read = Ids(View(c))
             /\ e.batch = IF Len(events) = 1 THEN None ELSE Newest + 1
  BY <1>2, <1>5 DEF New
<1>7. \A e \in N : /\ e \in Events /\ e.id \in Nat /\ e.id > Newest /\ e.read = Ids(View(c))
                   /\ e.batch = IF Len(events) = 1 THEN None ELSE Newest + 1
  BY <1>1, <1>2, <1>6
<1>8. Timed(E)
  <2>1. \A e, f \in N : e.id = f.id => e = f
    <3>1. SUFFICES ASSUME NEW e \in N, NEW f \in N, e.id = f.id PROVE e = f
      OBVIOUS
    <3>2. PICK i \in 1..Len(events) : e = Stamped(events, i, Newest, Ids(View(c))) /\ e.id = Newest + i
      BY <1>6
    <3>3. PICK j \in 1..Len(events) : f = Stamped(events, j, Newest, Ids(View(c))) /\ f.id = Newest + j
      BY <1>6
    <3>4. i = j
      BY <1>1, <1>2, <3>1, <3>2, <3>3
    <3>5. QED
      BY <3>2, <3>3, <3>4
  <2>2. \A e \in E : e.id <= Newest + Len(events)
    BY <1>1, <1>2, <1>6
  <2>3. \A e \in E, f \in E : e.id = f.id => e = f
    BY <1>1, <1>7, <2>1 DEF Timed
  <2>4. E \subseteq Events /\ \A e \in E : e.id > 0
    BY <1>1, <1>7 DEF Timed
  <2>5. QED
    BY <1>1, <1>2, <2>2, <2>3, <2>4 DEF Timed
<1>9. ASSUME NEW e \in Written
      PROVE  Before(E, e) = Before(Written, e) /\ WithIt(E, e) = WithIt(Written, e)
  <2>1. e \in Events /\ Shaped(e)
    BY DEF IInv, Records, Timed, Sound
  <2>2. \A x \in N : x.id \notin e.read
    BY <1>1, <1>7, <2>1 DEF Shaped, Events
  <2>3. \A x \in N : e.batch # None => x.batch # e.batch
    BY <1>1, <1>7, <2>1 DEF Shaped, Events
  <2>4. QED
    BY <2>2, <2>3 DEF Before, WithIt
<1>10. ASSUME NEW e \in N
       PROVE  /\ Before(E, e) = View(c)
              /\ WithIt(E, e) = IF Len(events) = 1 THEN {} ELSE N
              /\ \A i \in e.read : i < e.id
  <2>1. \A x \in E : x.id \in e.read <=> x \in View(c)
    <3>1. \A x \in N : x.id \notin e.read
      BY <1>1, <1>4, <1>7
    <3>2. \A x \in N : x \notin View(c)
      BY <1>1, <1>3, <1>7
    <3>3. \A x \in Written : x.id \in Ids(View(c)) <=> x \in View(c)
      BY <1>1, <1>3 DEF Ids, Timed
    <3>4. QED
      BY <1>7, <3>1, <3>2, <3>3
  <2>2. \A x \in Written : x.batch # Newest + 1
    BY <1>1 DEF IInv, Records, Sound, Shaped, Events
  <2>3. WithIt(E, e) = IF Len(events) = 1 THEN {} ELSE N
    BY <1>1, <1>7, <2>2 DEF WithIt, None
  <2>4. QED
    BY <1>1, <1>3, <1>4, <1>7, <2>1, <2>3 DEF Before
<1>11. ASSUME NEW e \in Written PROVE Sound(E, e)
  <2>0. Sound(Written, e)
    BY DEF IInv, Records
  <2>1. Before(E, e) = Before(Written, e) /\ WithIt(E, e) = WithIt(Written, e)
    BY <1>9
  <2>2. DoneSound(E, e) /\ StartSound(E, e)
    BY <2>0, <2>1 DEF Sound, DoneSound, StartSound
  <2>3. \A r \in E : r.id = e.annuls => r \in Written
    BY <1>1, <1>7, <2>0 DEF Sound, Shaped, Events
  <2>4. UndoSound(E, e)
    BY <1>9, <2>0, <2>1, <2>3 DEF Sound, UndoSound
  <2>5. QED
    BY <2>0, <2>2, <2>4 DEF Sound
<1>12. QED
  BY <1>7, <1>8, <1>9, <1>10, <1>11 DEF Extends

\* The clock, and what a clone has seen by it, are numbers.
LEMMA SeenIds == ASSUME IInv, NEW c \in Clones PROVE Newest \in Nat /\ Ids(View(c)) \in SUBSET Nat
<1>1. View(c) \subseteq Written /\ Timed(Written)
  BY Reads DEF IInv, Records
<1>2. QED
  BY <1>1, Clock DEF Timed, Events, Ids

\* An append of sound events keeps the invariant.
LEMMA Recorded ==
    ASSUME IInv, NEW c \in Clones, NEW verb, NEW events \in Seq(Events), Record(c, verb, events),
           ledger' \in [Session -> {"unknown", "running", "ended"}],
           \A i \in DOMAIN events : /\ Sayable(events[i], Newest)
                                    /\ events[i].type = "approved" => Len(events) = 1,
           NEW N, N = New(events, Newest, Ids(View(c))),
           \A e \in N : /\ DoneSound(Written \cup N, e) /\ StartSound(Written \cup N, e)
                        /\ UndoSound(Written \cup N, e)
    PROVE  IInv'
<1> USE DEF IInv
<1>1. /\ shared \in Seq(Events) /\ tail \in [Clones -> Seq(Events)] /\ tail[c] \in Seq(Events)
      /\ known \in [Clones -> Nat]
  BY DEF TypeOK
<1> DEFINE added == [i \in DOMAIN events |-> Stamped(events, i, Newest, Ids(View(c)))]
<1>2. /\ tail' = [tail EXCEPT ![c] = @ \o added] /\ shared' = shared /\ known' = known
      /\ unit' = [unit EXCEPT ![c] = FoldUnit(SubSeq(shared, 1, known[c]) \o tail'[c])]
  BY DEF Record, Stamped, View
<1>3. Newest \in Nat /\ Ids(View(c)) \in SUBSET Nat
  <2> HIDE DEF IInv
  <2>1. QED
    BY SeenIds
<1>4. added \in Seq(Events) /\ Range(added) = N
  <2>1. DOMAIN events = 1..Len(events) /\ Len(events) \in Nat
    BY LenProperties
  <2>2. \A i \in DOMAIN events : added[i] \in Events /\ added[i] = Stamped(events, i, Newest, Ids(View(c)))
    BY <1>3, StampedIs
  <2>3. DOMAIN added = 1..Len(events) /\ \A i \in 1..Len(events) : added[i] \in Events
    BY <2>1, <2>2
  <2>4. Range(added) = {added[i] : i \in DOMAIN events}
    BY DEF Range
  <2>5. {added[i] : i \in DOMAIN events} = N
    BY <2>2 DEF New
  <2>6. added = [i \in 1..Len(events) |-> added[i]]
    BY <2>1
  <2> HIDE DEF added
  <2>7. added \in Seq(Events)
    BY <2>1, <2>3, <2>6, SeqDef
  <2>8. QED
    BY <2>4, <2>5, <2>7
<1> HIDE DEF added
<1>5. /\ tail'[c] = tail[c] \o added /\ tail'[c] \in Seq(Events)
      /\ Range(tail'[c]) = Range(tail[c]) \cup N
      /\ \A d \in Clones : d # c => tail'[d] = tail[d]
  BY <1>1, <1>2, <1>4, ConcatProperties, RangeConcatenation
<1>6. TypeOK'
  BY <1>1, <1>2, <1>5 DEF TypeOK
<1>7. \A d \in Clones : d # c => ReadEvents(d)' = ReadEvents(d)
  BY <1>2, <1>5 DEF ReadEvents
<1>8. ReadEvents(c)' = SubSeq(shared, 1, known[c]) \o tail'[c]
  BY <1>2 DEF ReadEvents
<1>9. Folded'
  <2>1. unit = [d \in Clones |-> FoldUnit(ReadEvents(d))]
    BY DEF Folded
  <2>2. unit' = [d \in Clones |-> IF d = c THEN FoldUnit(ReadEvents(c)') ELSE FoldUnit(ReadEvents(d))]
    BY <1>2, <1>8, <2>1
  <2>3. QED
    BY <1>7, <2>2 DEF Folded
<1>10. Written' = Written \cup N
  <2>1. Written' = Range(shared) \cup UNION {Range(tail'[d]) : d \in Clones}
    BY <1>2 DEF Written
  <2>2. \A d \in Clones : Range(tail'[d]) = IF d = c THEN Range(tail[d]) \cup N ELSE Range(tail[d])
    BY <1>5
  <2>3. ASSUME NEW e PROVE e \in Written' <=> e \in Written \/ e \in N
    <3>1. e \in Written' <=> e \in Range(shared) \/ \E d \in Clones : e \in Range(tail'[d])
      BY <2>1
    <3>2. e \in Written <=> e \in Range(shared) \/ \E d \in Clones : e \in Range(tail[d])
      BY DEF Written
    <3>3. QED
      BY <2>2, <3>1, <3>2
  <2>4. QED
    BY <2>3
<1>11. View(c)' = View(c) \cup N /\ \A d \in Clones : d # c => View(d)' = View(d)
  <2>1. View(c)' = Range(SubSeq(shared, 1, known[c])) \cup Range(tail'[c])
    <3>1. SubSeq(shared, 1, known[c]) \in Seq(Events)
      BY <1>1, Beginning DEF TypeOK
    <3>2. View(c)' = Range(SubSeq(shared, 1, known[c]) \o tail'[c])
      BY <1>8 DEF View
    <3>3. QED
      <4>1. PICK p \in Seq(Events) : p = SubSeq(shared, 1, known[c])
        BY <3>1
      <4>2. PICK q \in Seq(Events) : q = tail'[c]
        BY <1>5
      <4>3. Range(p \o q) = Range(p) \cup Range(q)
        BY RangeConcatenation
      <4>4. QED
        BY <3>2, <4>1, <4>2, <4>3
  <2>2. View(c) = Range(SubSeq(shared, 1, known[c])) \cup Range(tail[c])
    BY Reads
  <2>3. \A d \in Clones : d # c => View(d)' = View(d)
    BY <1>7 DEF View
  <2>4. QED
    BY <1>5, <2>1, <2>2, <2>3
<1>12. /\ Timed(Written \cup N) /\ \A e \in N : e.id > Newest
       /\ \A e \in Written : /\ Before(Written \cup N, e) = Before(Written, e)
                             /\ WithIt(Written \cup N, e) = WithIt(Written, e)
       /\ \A e \in N : /\ Before(Written \cup N, e) = View(c)
                       /\ WithIt(Written \cup N, e) \subseteq N
                       /\ \A i \in e.read : i < e.id
       /\ \A e \in Written : Sound(Written \cup N, e)
  <2>1. \A i \in DOMAIN events : Sayable(events[i], Newest)
    OBVIOUS
  <2> HIDE DEF IInv
  <2>2. PICK E : E = Written \cup N
    OBVIOUS
  <2>3. Extends(E, N, c, events)
    BY <2>1, <2>2, Fresh
  <2>4. QED
    BY <2>2, <2>3 DEF Extends
<1>13. View(c) \subseteq Written /\ Range(shared) \subseteq Written
  BY Reads DEF Written
<1>14. Whole'
  <2>1. WholeIn(Range(shared))'
    BY <1>2, <1>10, <1>12, <1>13 DEF Whole, WholeIn
  <2>2. ASSUME NEW d \in Clones, d # c PROVE WholeIn(View(d))'
    <3>1. View(d)' = View(d) /\ View(d) \subseteq Written
      BY <1>11, <2>2, Reads
    <3>2. WholeIn(View(d))
      BY DEF Whole
    <3>3. \A e \in View(d) : Before(Written', e) \cup WithIt(Written', e) \subseteq View(d)
      BY <1>10, <1>12, <3>1, <3>2 DEF WholeIn
    <3>4. QED
      BY <3>1, <3>3 DEF WholeIn
  <2>3. WholeIn(View(c))'
    BY <1>10, <1>11, <1>12, <1>13 DEF Whole, WholeIn
  <2>4. QED
    BY <2>1, <2>2, <2>3 DEF Whole
<1>15. ASSUME NEW e \in N PROVE Shaped(e)
  <2>1. PICK i \in DOMAIN events : e = Stamped(events, i, Newest, Ids(View(c)))
    BY DEF New
  <2>2. /\ e \in Events /\ e.id = Newest + i /\ i \in 1..Len(events)
        /\ e.batch = IF Len(events) = 1 THEN None ELSE Newest + 1
        /\ e.type = events[i].type /\ e.annuls = events[i].annuls
        /\ e.of = events[i].of /\ e.criterion = events[i].criterion
    BY <1>3, <2>1, StampedIs
  <2>3. Len(events) \in Nat
    BY LenProperties
  <2>4. e.id > 0 /\ e.batch <= e.id /\ (e.type = "approved" => e.batch = None)
    BY <1>3, <2>2, <2>3 DEF None
  <2>5. e.annuls <= Newest /\ e.annuls \in Nat
    BY <2>2 DEF Sayable, Events
  <2>6. e.annuls < e.id
    BY <1>3, <2>2, <2>3, <2>5
  <2>7. QED
    BY <1>12, <2>2, <2>4, <2>6 DEF Shaped, Sayable
<1>16. Records(Written)'
  BY <1>10, <1>12, <1>15 DEF Records, Sound
<1>17. QED
  BY <1>6, <1>9, <1>14, <1>16

\* What an append of one event adds: one that has read all its writer holds.
LEMMA OneIsNew ==
    ASSUME NEW t \in Events, NEW now \in Nat, NEW seen \in SUBSET Nat,
           NEW N, N = New(<<t>>, now, seen)
    PROVE  \A e \in N : e.type = t.type /\ e.annuls = t.annuls
<1> DEFINE one == <<t>>
<1>1. one \in Seq(Events) /\ DOMAIN one = {1} /\ one[1] = t
  OBVIOUS
<1>2. N = New(one, now, seen)
  OBVIOUS
<1> HIDE DEF one
<1>3. ASSUME NEW e \in N PROVE e.type = t.type /\ e.annuls = t.annuls
  <2>1. PICK i \in DOMAIN one : e = Stamped(one, i, now, seen)
    BY <1>2 DEF New
  <2>2. e.type = one[i].type /\ e.annuls = one[i].annuls
    BY <1>1, <2>1, StampedIs
  <2>3. QED
    BY <1>1, <2>1, <2>2
<1>4. QED
  BY <1>3

\* An event that is no claim of completion, no dispatch and no undo is sound
\* whatever its writer held.
LEMMA Ordinary ==
    ASSUME IInv, NEW c \in Clones, NEW verb, NEW t \in Events, Record(c, verb, <<t>>),
           ledger' \in [Session -> {"unknown", "running", "ended"}],
           Sayable(t, Newest), t.annuls = None, t.type \notin {"done", "started"}
    PROVE  IInv'
<1> DEFINE one == <<t>>
           N == New(one, Newest, Ids(View(c)))
           E == Written \cup N
<1>1. one \in Seq(Events) /\ DOMAIN one = {1} /\ one[1] = t /\ Len(one) = 1
  OBVIOUS
<1>2. Newest \in Nat /\ Ids(View(c)) \in SUBSET Nat
  BY SeenIds
<1>3. \A e \in N : e.type = t.type /\ e.annuls = None
  BY <1>2, OneIsNew
<1> HIDE DEF one
<1>4. \A i \in DOMAIN one : Sayable(one[i], Newest)
  BY <1>1
<1> HIDE DEF N
<1>5. \A r \in E : r.id # None
  <2> HIDE DEF E
  <2>1. Extends(E, N, c, one)
    BY <1>1, <1>4, Fresh DEF E, N
  <2>2. QED
    BY <2>1 DEF Extends, Timed, None
<1>6. \A e \in N : DoneSound(E, e) /\ StartSound(E, e) /\ UndoSound(E, e)
  BY <1>3, <1>5 DEF DoneSound, StartSound, UndoSound
<1>7. \A i \in DOMAIN one : /\ Sayable(one[i], Newest)
                            /\ one[i].type = "approved" => Len(one) = 1
  BY <1>1, <1>4
<1>8. Record(c, verb, one)
  BY DEF one
<1>9. QED
  BY <1>1, <1>6, <1>7, <1>8, Recorded DEF N

\* Nothing an invariant speaks of but the ledger changes.
LEMMA OnlyLedger ==
    ASSUME IInv, UNCHANGED <<shared, known, tail, unit>>,
           ledger' \in [Session -> {"unknown", "running", "ended"}]
    PROVE  IInv'
<1>1. /\ TypeOK' /\ Written' = Written
      /\ \A c \in Clones : ReadEvents(c)' = ReadEvents(c) /\ View(c)' = View(c)
  BY DEF IInv, TypeOK, Written, ReadEvents, View
<1>2. Folded'
  BY <1>1 DEF IInv, Folded
<1>3. Whole'
  BY <1>1 DEF IInv, Whole, WholeIn
<1>4. QED
  BY <1>1, <1>2, <1>3 DEF IInv, Records

\* The events a verb appends, in its own words.
LEMMA Templates ==
    /\ \A e \in BOOLEAN : [Event("report") EXCEPT !.evidence = e] \in Events
    /\ \A a \in BOOLEAN : [Event("report") EXCEPT !.design = TRUE, !.digest = a, !.evidence = a] \in Events
    /\ \A n \in Nat : [Event("approved") EXCEPT !.confirms = n] \in Events
    /\ \A n \in Nat : [Event("annulled") EXCEPT !.annuls = n] \in Events
    /\ \A s \in Session : [Event("started") EXCEPT !.session = s] \in Events
    /\ [Event("retracted") EXCEPT !.of = Decision] \in Events
    /\ \A type \in Types : Event(type) \in Events
    /\ \A type \in Types : \A x \in Criteria \cup {None} : On(type, x) \in Events
<1>1. /\ "report" \in Types /\ "approved" \in Types /\ "annulled" \in Types
      /\ "started" \in Types /\ "retracted" \in Types
  BY DEF Types
<1>2. \A type \in Types : Event(type) \in Events
  BY DEF Blank, Events, Event, Work, None
<1>3. \A type \in Types : \A x \in Criteria \cup {None} : On(type, x) \in Events
  BY DEF Blank, Events, On, Work, None
<1>4. \A ev \in Events : \A a \in BOOLEAN :
          [ev EXCEPT !.evidence = a] \in Events /\ [ev EXCEPT !.design = TRUE, !.digest = a, !.evidence = a] \in Events
  <2>1. \A ev \in Events : \A a \in BOOLEAN : [ev EXCEPT !.evidence = a] \in Events
    BY DEF Events
  <2>2. \A ev \in Events : \A a \in BOOLEAN : [ev EXCEPT !.design = TRUE, !.digest = a, !.evidence = a] \in Events
    BY DEF Events
  <2>3. QED
    BY <2>1, <2>2
<1>5. \A ev \in Events : \A n \in Nat : [ev EXCEPT !.confirms = n] \in Events /\ [ev EXCEPT !.annuls = n] \in Events
  BY DEF Events
<1>6. \A ev \in Events : \A s \in Session : [ev EXCEPT !.session = s] \in Events
  BY DEF Events
<1>7. \A ev \in Events : [ev EXCEPT !.of = Decision] \in Events
  BY DEF Events
<1>8. QED
  BY <1>1, <1>2, <1>3, <1>4, <1>5, <1>6, <1>7

\* The criteria a clone knows of are texts, or none where a seed named none.
LEMMA CriteriaAreTexts ==
    ASSUME IInv, NEW c \in Clones PROVE DOMAIN unit[c].criteria \subseteq Criteria \cup {None}
<1>1. PICK S : S = Standing(View(c))
  OBVIOUS
<1>2. DOMAIN unit[c].criteria = Declared(S) /\ Timed(S)
  BY <1>1, UnitMeans
<1>3. QED
  BY <1>2 DEF Declared, Said, Timed, Events

-----------------------------------------------------------------------------
(* The verbs *)

\* A verb of one event of its own words: about the unit, not an undo.
LEMMA OneWord ==
    ASSUME IInv, NEW c \in Clones, NEW verb, NEW t \in Events, Record(c, verb, <<t>>), UNCHANGED ledger,
           t.annuls = None, t.type \notin {"done", "started", "annulled"},
           t.type \in {"blocked", "unblocked"} => t.criterion = None,
           t.type = "retracted" => t.of = Decision, t.type = "approved" => t.of = Work
    PROVE  IInv'
<1>1. Newest \in Nat
  BY SeenIds
<1>2. Sayable(t, Newest)
  BY <1>1 DEF Sayable, None
<1>3. ledger' \in [Session -> {"unknown", "running", "ended"}]
  BY DEF IInv, TypeOK
<1>4. QED
  BY <1>2, <1>3, Ordinary

\* Criteria declared, covered, blocked and released are ordinary events.
LEMMA CriteriaAddKeeps == ASSUME IInv, NEW c \in Clones, CriteriaAdd(c, unit[c]) PROVE IInv'
<1>1. PICK x \in Criteria : Record(c, "declare", <<On("declared", x)>>) /\ UNCHANGED ledger
  BY Zenon DEF CriteriaAdd
<1> DEFINE t == On("declared", x)
<1>2. t \in Events /\ t.annuls = None /\ t.type = "declared"
  <2>1. "declared" \in Types /\ x \in Criteria \cup {None}
    BY DEF Types
  <2>2. t \in Events
    BY <2>1, Templates
  <2>3. QED
    BY <2>2 DEF On, Blank
<1> HIDE DEF t
<1>3. Record(c, "declare", <<t>>)
  BY <1>1 DEF t
<1>4. QED
  BY <1>1, <1>2, <1>3, OneWord

\* The same of a claim of a criterion.
LEMMA CoverKeeps == ASSUME IInv, NEW c \in Clones, Cover(c, unit[c]) PROVE IInv'
<1>1. PICK x \in DOMAIN unit[c].criteria : Record(c, "cover", <<On("covered", x)>>) /\ UNCHANGED ledger
  BY DEF Cover
<1>2. x \in Criteria \cup {None}
  BY CriteriaAreTexts
<1> DEFINE t == On("covered", x)
<1>3. t \in Events /\ t.annuls = None /\ t.type = "covered"
  <2>1. "covered" \in Types
    BY DEF Types
  <2>2. t \in Events
    BY <1>2, <2>1, Templates
  <2>3. QED
    BY <2>2 DEF On, Blank
<1> HIDE DEF t
<1>4. Record(c, "cover", <<t>>)
  BY <1>1 DEF t
<1>5. QED
  BY <1>1, <1>3, <1>4, OneWord

\* The same of its block and of its release.
LEMMA BlockCriterionKeeps == ASSUME IInv, NEW c \in Clones, BlockCriterion(c, unit[c]) PROVE IInv'
<1>1. PICK x \in DOMAIN unit[c].criteria :
          /\ \/ Record(c, "block criterion", <<On("criterion-blocked", x)>>)
             \/ Record(c, "release criterion", <<On("criterion-unblocked", x)>>)
          /\ UNCHANGED ledger
  BY DEF BlockCriterion
<1>2. x \in Criteria \cup {None}
  BY CriteriaAreTexts
<1>3. PICK type \in {"criterion-blocked", "criterion-unblocked"} :
          \E verb \in {"block criterion", "release criterion"} : Record(c, verb, <<On(type, x)>>)
  BY <1>1
<1> DEFINE t == On(type, x)
<1>4. t \in Events /\ t.annuls = None /\ t.type = type
  <2>1. type \in Types
    BY DEF Types
  <2>2. t \in Events
    BY <1>2, <2>1, Templates
  <2>3. QED
    BY <2>2 DEF On, Blank
<1> HIDE DEF t
<1>5. PICK verb : Record(c, verb, <<t>>)
  BY <1>3 DEF t
<1>6. QED
  BY <1>1, <1>4, <1>5, OneWord

\* Blocks, processes and retirements say no more than their type.
LEMMA EventKeeps ==
    ASSUME IInv, NEW c \in Clones, NEW verb,
           NEW type \in {"blocked", "unblocked", "run-started", "run-exited", "retired"},
           Record(c, verb, <<Event(type)>>), UNCHANGED ledger
    PROVE  IInv'
<1> DEFINE t == Event(type)
<1>1. t \in Events /\ t.annuls = None /\ t.type = type /\ t.criterion = None
  BY Templates DEF Event, Blank, Types
<1> HIDE DEF t
<1>2. Record(c, verb, <<t>>)
  BY DEF t
<1>3. QED
  BY <1>1, <1>2, OneWord

\* A report is ordinary, whatever it carries.
LEMMA ReportKeeps == ASSUME IInv, NEW c \in Clones, Report(c, unit[c]) PROVE IInv'
<1>1. UNCHANGED ledger
  BY DEF Report
<1>2. ASSUME NEW verb, NEW t, t \in Events, t.annuls = None, t.type = "report", Record(c, verb, <<t>>) PROVE IInv'
  BY <1>1, <1>2, OneWord
<1>3. CASE \E evidence \in BOOLEAN : Record(c, "report", <<[Event("report") EXCEPT !.evidence = evidence]>>)
  <2>1. PICK evidence \in BOOLEAN : Record(c, "report", <<[Event("report") EXCEPT !.evidence = evidence]>>)
    BY <1>3
  <2> DEFINE t == [Event("report") EXCEPT !.evidence = evidence]
  <2>2. t \in Events /\ t.annuls = None /\ t.type = "report"
    BY Templates DEF Event, Blank
  <2> HIDE DEF t
  <2>3. Record(c, "report", <<t>>)
    BY <2>1 DEF t
  <2>4. QED
    BY <1>2, <2>2, <2>3
<1>4. CASE \E artifact \in BOOLEAN :
              Record(c, "design", <<[Event("report") EXCEPT !.design = TRUE, !.digest = artifact,
                                                            !.evidence = artifact]>>)
  <2>1. PICK artifact \in BOOLEAN :
              Record(c, "design", <<[Event("report") EXCEPT !.design = TRUE, !.digest = artifact,
                                                            !.evidence = artifact]>>)
    BY <1>4
  <2> DEFINE t == [Event("report") EXCEPT !.design = TRUE, !.digest = artifact, !.evidence = artifact]
  <2>2. t \in Events /\ t.annuls = None /\ t.type = "report"
    BY Templates DEF Event, Blank
  <2> HIDE DEF t
  <2>3. Record(c, "design", <<t>>)
    BY <2>1 DEF t
  <2>4. QED
    BY <1>2, <2>2, <2>3
<1>5. QED
  BY <1>3, <1>4 DEF Report

\* An approval names a report that the clone holds, and is an append of its own.
LEMMA ReportConfirmKeeps == ASSUME IInv, NEW c \in Clones, ReportConfirm(c, unit[c]) PROVE IInv'
<1>1. PICK r \in unit[c].reports : /\ Record(c, "approve", <<[Event("approved") EXCEPT !.confirms = r.id]>>)
                                   /\ UNCHANGED ledger
  BY DEF ReportConfirm, DesignsOf
<1>2. r.id \in Nat
  <2>1. PICK S : S = Standing(View(c))
    OBVIOUS
  <2>2. unit[c].reports = Reports(S) /\ Timed(S)
    BY <2>1, UnitMeans
  <2>3. QED
    BY <1>1, <2>2 DEF Reports, Said, Timed, Events
<1> DEFINE t == [Event("approved") EXCEPT !.confirms = r.id]
<1>3. t \in Events /\ t.annuls = None /\ t.type = "approved" /\ t.of = Work
  BY <1>2, Templates DEF Event, Blank
<1> HIDE DEF t
<1>4. Record(c, "approve", <<t>>)
  BY <1>1 DEF t
<1>5. QED
  BY <1>1, <1>3, <1>4, OneWord

\* A withdrawal is of the decision.
LEMMA DecideRetractKeeps == ASSUME IInv, NEW c \in Clones, DecideRetract(c, unit[c]) PROVE IInv'
<1>1. Record(c, "retract", <<[Event("retracted") EXCEPT !.of = Decision]>>) /\ UNCHANGED ledger
  BY DEF DecideRetract
<1> DEFINE t == [Event("retracted") EXCEPT !.of = Decision]
<1>2. t \in Events /\ t.annuls = None /\ t.type = "retracted" /\ t.of = Decision
  BY Templates DEF Event, Blank
<1> HIDE DEF t
<1>3. Record(c, "retract", <<t>>)
  BY <1>1 DEF t
<1>4. QED
  BY <1>1, <1>2, <1>3, OneWord

\* A dispatch is of what the clone that starts the unit holds.
LEMMA WorkStartKeeps == ASSUME IInv, NEW c \in Clones, WorkStart(c, unit[c]) PROVE IInv'
<1>1. PICK s \in Session :
          /\ Dispatchable(unit[c])
          /\ \/ Record(c, "start", <<[Event("started") EXCEPT !.session = s]>>)
             \/ UNCHANGED <<shared, known, tail, unit>>
          /\ ledger' = [ledger EXCEPT ![s] = "running"]
  BY DEF WorkStart
<1>2. ledger' \in [Session -> {"unknown", "running", "ended"}]
  BY <1>1 DEF IInv, TypeOK
<1>3. CASE UNCHANGED <<shared, known, tail, unit>>
  BY <1>2, <1>3, OnlyLedger
<1>4. CASE Record(c, "start", <<[Event("started") EXCEPT !.session = s]>>)
  <2> DEFINE t == [Event("started") EXCEPT !.session = s]
             one == <<t>>
             N == New(one, Newest, Ids(View(c)))
             E == Written \cup N
  <2>1. t \in Events /\ t.annuls = None /\ t.type = "started" /\ t.of = Work
    BY Templates DEF Event, Blank
  <2> HIDE DEF t
  <2>2. Newest \in Nat /\ Ids(View(c)) \in SUBSET Nat
    BY SeenIds
  <2>3. one \in Seq(Events) /\ DOMAIN one = {1} /\ one[1] = t /\ Len(one) = 1
    BY <2>1
  <2>4. \A e \in N : e.type = "started" /\ e.annuls = None
    BY <2>1, <2>2, OneIsNew
  <2>5. Record(c, "start", one)
    BY <1>4 DEF t
  <2> HIDE DEF one
  <2>6. \A i \in DOMAIN one : Sayable(one[i], Newest) /\ one[i].type # "approved"
    BY <2>1, <2>2, <2>3 DEF Sayable, None
  <2> HIDE DEF N, E
  <2>7. Extends(E, N, c, one)
    BY <2>3, <2>6, Fresh DEF E, N
  <2>8. PICK S : S = Standing(View(c))
    OBVIOUS
  <2>9. unit[c].reports = Reports(S) /\ unit[c].decision = StatusOf(S, Decision)
    BY <2>8, UnitMeans
  <2>10. (\E r \in Said(S, "report") : r.design) =>
             /\ Said(S, "approved") # {}
             /\ Said(S, "retracted") = {} \/ \A ev \in Said(S, "created") : ev.of # Decision
    <3>1. SUFFICES ASSUME \E r \in Said(S, "report") : r.design
                   PROVE  /\ Said(S, "approved") # {}
                          /\ Said(S, "retracted") = {} \/ \A ev \in Said(S, "created") : ev.of # Decision
      OBVIOUS
    <3>2. DesignsOf(unit[c]) # {}
      <4>1. PICK r \in Said(S, "report") : r.design
        BY <3>1
      <4> DEFINE filed == [id |-> r.id, evidence |-> r.evidence, design |-> r.design, digest |-> r.digest,
                           approved |-> \E a \in Said(S, "approved") : a.confirms = r.id]
      <4>2. filed \in unit[c].reports
        BY <2>9 DEF Reports
      <4>3. filed.design
        BY <4>1
      <4>4. QED
        BY <4>2, <4>3 DEF DesignsOf
    <3>3. PICK r \in DesignsOf(unit[c]) : r.approved /\ Citable(unit[c])
      BY <1>1, <3>2 DEF Dispatchable
    <3>4. Said(S, "approved") # {}
      BY <2>9, <3>3 DEF DesignsOf, Reports
    <3>5. StatusOf(S, Decision) # "retracted"
      BY <2>9, <3>3 DEF Citable
    <3>6. \A ev \in Said(S, "retracted") : ev.of = Decision
      <4>1. S \subseteq Written
        BY <2>8, Reads DEF IInv, Standing
      <4>2. QED
        BY <4>1 DEF IInv, Records, Sound, Shaped, Said
    <3>7. QED
      BY <3>4, <3>5, <3>6 DEF StatusOf
  <2>11. \A e \in N : StartSound(E, e)
    BY <2>7, <2>8, <2>10 DEF StartSound, Extends
  <2>12. \A e \in N : DoneSound(E, e) /\ UndoSound(E, e)
    BY <2>4, <2>7 DEF DoneSound, UndoSound, Extends, Timed, None
  <2>13. QED
    BY <1>2, <2>3, <2>5, <2>6, <2>11, <2>12, Recorded DEF E, N
<1>5. QED
  BY <1>1, <1>3, <1>4

\* A claim of completion is of what the clone that makes it holds.
LEMMA WorkDoneKeeps == ASSUME IInv, NEW c \in Clones, WorkDone(c, unit[c]) PROVE IInv'
<1>1. PICK told \in BOOLEAN :
          /\ Completable(unit[c], told)
          /\ Record(c, "done", IF told THEN <<Event("report"), Event("done")>> ELSE <<Event("done")>>)
          /\ UNCHANGED ledger
  BY DEF WorkDone
<1>2. ledger' \in [Session -> {"unknown", "running", "ended"}]
  BY <1>1 DEF IInv, TypeOK
<1> DEFINE report == Event("report")
           done == Event("done")
           events == IF told THEN <<report, done>> ELSE <<done>>
           N == New(events, Newest, Ids(View(c)))
           E == Written \cup N
<1>3. /\ report \in Events /\ report.annuls = None /\ report.type = "report"
      /\ done \in Events /\ done.annuls = None /\ done.type = "done"
  BY Templates DEF Event, Blank, Types
<1>4. Record(c, "done", events)
  BY <1>1
<1> HIDE DEF report, done
<1>5. Newest \in Nat /\ Ids(View(c)) \in SUBSET Nat
  BY SeenIds
<1>6. /\ events \in Seq(Events) /\ \A i \in DOMAIN events : events[i] \in {report, done}
      /\ told => Len(events) = 2 /\ 1 \in DOMAIN events /\ events[1] = report
  BY <1>3
<1> HIDE DEF events
<1>7. \A i \in DOMAIN events : /\ Sayable(events[i], Newest) /\ events[i].annuls = None
                               /\ events[i].type \in {"report", "done"}
  BY <1>3, <1>5, <1>6 DEF Sayable, None
<1>8. \A e \in N : e.type \in {"report", "done"} /\ e.annuls = None
  <2>1. ASSUME NEW e \in N PROVE e.type \in {"report", "done"} /\ e.annuls = None
    <3>1. PICK i \in DOMAIN events : e = Stamped(events, i, Newest, Ids(View(c)))
      BY DEF New
    <3>2. e.type = events[i].type /\ e.annuls = events[i].annuls
      BY <1>5, <1>6, <3>1, StampedIs
    <3>3. QED
      BY <1>7, <3>2
  <2>2. QED
    BY <2>1
<1>9. told => \E e \in N : e.type = "report"
  <2>1. ASSUME told PROVE \E e \in N : e.type = "report"
    <3>1. PICK e : e = Stamped(events, 1, Newest, Ids(View(c)))
      OBVIOUS
    <3>2. e \in N
      BY <1>6, <2>1, <3>1 DEF New
    <3>3. e.type = events[1].type
      BY <1>5, <1>6, <2>1, <3>1, StampedIs
    <3>4. QED
      BY <1>3, <1>6, <2>1, <3>2, <3>3
  <2>2. QED
    BY <2>1
<1> HIDE DEF N, E
<1>10. Extends(E, N, c, events)
  BY <1>6, <1>7, Fresh DEF E, N
<1>11. PICK S : S = Standing(View(c))
  OBVIOUS
<1>12. /\ unit[c].reports = Reports(S) /\ DOMAIN unit[c].criteria = Declared(S)
       /\ \A x \in Declared(S) : unit[c].criteria[x] = CriterionOf(S, x)
  BY <1>11, UnitMeans
<1>13. \A d \in Said(S, "declared") : \E v \in Said(S, "covered") : v.criterion = d.criterion
  <2>1. ASSUME NEW d \in Said(S, "declared") PROVE \E v \in Said(S, "covered") : v.criterion = d.criterion
    <3>1. d.criterion \in Declared(S)
      BY DEF Declared
    <3>2. CriterionOf(S, d.criterion) = "covered"
      BY <1>1, <1>12, <3>1 DEF Completable
    <3>3. QED
      BY <3>2 DEF CriterionOf
  <2>2. QED
    BY <2>1
<1>14. ~told => \E r \in Said(S, "report") : r.evidence
  BY <1>1, <1>12 DEF Completable, Reports
<1>15. \A e \in N : told => Said(WithIt(E, e), "report") # {}
  BY <1>6, <1>9, <1>10 DEF Extends, Said
<1>16. \A e \in N : DoneSound(E, e)
  BY <1>10, <1>11, <1>13, <1>14, <1>15 DEF DoneSound, Extends
<1>17. \A e \in N : StartSound(E, e) /\ UndoSound(E, e)
  BY <1>8, <1>10 DEF StartSound, UndoSound, Extends, Timed, None
<1>18. QED
  BY <1>2, <1>4, <1>6, <1>7, <1>16, <1>17, Recorded DEF E, N

-----------------------------------------------------------------------------
(* An undo *)

\* The sequence of a finite set has its members and no other.
LEMMA AsSequence ==
    ASSUME NEW S, IsFiniteSet(S)
    PROVE  /\ SetToSeq(S) \in Seq(S)
           /\ \A m \in S : \E i \in DOMAIN SetToSeq(S) : SetToSeq(S)[i] = m
<1> DEFINE n == Cardinality(S)
           order == SetToSeq(S)
<1>1. n \in Nat /\ ExistsBijection(1..n, S)
  BY FS_CardinalityType
<1>2. PICK f \in Bijection(1..n, S) : TRUE
  BY <1>1 DEF ExistsBijection
<1>3. f \in [1..n -> S] /\ IsInjective(f)
  BY <1>2 DEF Bijection, Injection
<1>4. order \in [1..n -> S] /\ IsInjective(order)
  BY <1>3 DEF SetToSeq
<1>5. IsFiniteSet(1..n) /\ Cardinality(1..n) = n
  BY <1>1, FS_Interval
<1>6. order \in Injection(1..n, S)
  BY <1>4 DEF Injection
<1> HIDE DEF order
<1>7. order \in Surjection(1..n, S)
  BY <1>5, <1>6, FS_Injection
<1>8. \A m \in S : \E i \in 1..n : order[i] = m
  BY <1>7 DEF Surjection
<1>9. order \in Seq(S) /\ DOMAIN order = 1..n
  BY <1>1, <1>4
<1>10. QED
  BY <1>8, <1>9 DEF order

\* What a clone reads is finite.
LEMMA ViewIsFinite == ASSUME IInv, NEW c \in Clones PROVE IsFiniteSet(View(c))
<1>1. ReadEvents(c) \in Seq(Events)
  BY Reads DEF IInv
<1> DEFINE n == Len(ReadEvents(c))
<1>2. n \in Nat /\ View(c) = {ReadEvents(c)[i] : i \in 1..n}
  BY <1>1, LenProperties, RangeEquality DEF View
<1>3. IsFiniteSet(1..n)
  BY <1>2, FS_Interval
<1> DEFINE f == [i \in 1..n |-> ReadEvents(c)[i]]
<1>4. f \in Surjection(1..n, View(c))
  <2>1. f \in [1..n -> View(c)]
    BY <1>2
  <2>2. \A e \in View(c) : \E i \in 1..n : f[i] = e
    BY <1>2
  <2> HIDE DEF f, n
  <2>3. QED
    BY <2>1, <2>2 DEF Surjection
<1> HIDE DEF f
<1>5. QED
  BY <1>3, <1>4, FS_Surjection

\* An undo is one append that takes back all of another that stands.
LEMMA CmdUndoKeeps == ASSUME IInv, NEW c \in Clones, CmdUndo(c) PROVE IInv'
<1>1. PICK b \in Undoable(View(c)) :
          /\ DependentsOf(View(c), Annulment(View(c), b)) = {}
          /\ \E order \in {SetToSeq(Annulment(View(c), b))} :
                 Record(c, "undo", [i \in DOMAIN order |-> [Event("annulled") EXCEPT !.annuls = order[i].id]])
          /\ UNCHANGED ledger
  BY DEF CmdUndo, View
<1>2. PICK V : V = View(c)
  OBVIOUS
<1>3. PICK B : B = Annulment(V, b)
  OBVIOUS
<1>4. V \subseteq Written /\ IsFiniteSet(V) /\ WholeIn(V) /\ b \in V /\ b \in Standing(V)
  BY <1>2, Reads, ViewIsFinite DEF IInv, Whole, Undoable, Standing
<1>5. B \subseteq V /\ B \subseteq Standing(V) /\ IsFiniteSet(B) /\ b \in B
  <2>1. B \subseteq Standing(V) /\ B \subseteq V /\ b \in B
    BY <1>3, <1>4 DEF Annulment, CoupledUnit
  <2>2. QED
    BY <1>4, <2>1, FS_Subset
<1>6. PICK order : order = SetToSeq(B)
  OBVIOUS
<1>7. order \in Seq(B) /\ \A m \in B : \E i \in DOMAIN order : order[i] = m
  BY <1>5, <1>6, AsSequence
<1>8. /\ DOMAIN order = 1..Len(order) /\ Len(order) \in Nat /\ \A i \in DOMAIN order : order[i] \in B
  BY <1>7, LenProperties, ElementOfSeq
<1> DEFINE events == [i \in DOMAIN order |-> [Event("annulled") EXCEPT !.annuls = order[i].id]]
           N == New(events, Newest, Ids(View(c)))
           E == Written \cup N
<1>9. Record(c, "undo", events) /\ UNCHANGED ledger /\ DependentsOf(V, B) = {}
  BY <1>1, <1>2, <1>3, <1>6
<1>10. Newest \in Nat /\ Ids(View(c)) \in SUBSET Nat /\ \A e \in Written : e.id \in Nat /\ e.id > 0 /\ e.id <= Newest
  BY SeenIds, Clock DEF IInv, Records, Timed, Events
<1>11. \A m \in B : m.id \in Nat /\ m.id > 0 /\ m.id <= Newest
  BY <1>4, <1>5, <1>10
<1>12. ASSUME NEW i \in DOMAIN order
       PROVE  events[i] \in Events /\ events[i].type = "annulled" /\ events[i].annuls = order[i].id
  <2>1. order[i].id \in Nat
    BY <1>8, <1>11
  <2>2. [Event("annulled") EXCEPT !.annuls = order[i].id] \in Events
    BY <2>1, Templates
  <2>3. events[i] = [Event("annulled") EXCEPT !.annuls = order[i].id]
    OBVIOUS
  <2>4. [Event("annulled") EXCEPT !.annuls = order[i].id].type = "annulled"
        /\ [Event("annulled") EXCEPT !.annuls = order[i].id].annuls = order[i].id
    BY DEF Event, Blank
  <2>5. QED
    BY <2>2, <2>3, <2>4
<1>13. DOMAIN events = 1..Len(order)
  BY <1>8
<1>14. events \in Seq(Events) /\ Len(events) = Len(order)
  <2>1. events = [i \in 1..Len(order) |-> events[i]]
    BY <1>8
  <2>2. \A i \in 1..Len(order) : events[i] \in Events
    BY <1>8, <1>12
  <2> HIDE DEF events
  <2>3. events \in Seq(Events)
    BY <1>8, <2>1, <2>2, SeqDef
  <2>4. DOMAIN events = 1..Len(events) /\ Len(events) \in Nat
    BY <2>3, LenProperties
  <2>5. QED
    BY <1>8, <1>13, <2>3, <2>4
<1> HIDE DEF events
<1>15. \A i \in DOMAIN events : Sayable(events[i], Newest) /\ events[i].type # "approved"
  BY <1>8, <1>11, <1>12, <1>13 DEF Sayable, None
<1>16. ASSUME NEW e \in N
       PROVE  /\ e.type = "annulled"
              /\ \E i \in DOMAIN order : /\ e = Stamped(events, i, Newest, Ids(View(c)))
                                         /\ e.annuls = order[i].id
  <2>1. PICK i \in DOMAIN events : e = Stamped(events, i, Newest, Ids(View(c)))
    BY DEF New
  <2>2. e.type = events[i].type /\ e.annuls = events[i].annuls
    BY <1>10, <1>14, <2>1, StampedIs
  <2>3. QED
    BY <1>8, <1>12, <1>13, <2>1, <2>2
<1>17. \A m \in B : \E a \in N : a.annuls = m.id
  <2>1. SUFFICES ASSUME NEW m \in B PROVE \E a \in N : a.annuls = m.id
    OBVIOUS
  <2>2. PICK i \in DOMAIN order : order[i] = m
    BY <1>7
  <2>3. PICK a : a = Stamped(events, i, Newest, Ids(View(c)))
    OBVIOUS
  <2>4. i \in DOMAIN events
    BY <1>8, <1>13
  <2>5. a \in N
    BY <2>3, <2>4 DEF New
  <2>6. a.annuls = events[i].annuls
    BY <1>10, <1>14, <2>3, <2>4, StampedIs
  <2>7. QED
    BY <1>12, <2>2, <2>5, <2>6
<1> HIDE DEF N, E
<1>18. Extends(E, N, c, events)
  BY <1>14, <1>15, Fresh DEF E, N
<1>19. \A e \in N : DoneSound(E, e) /\ StartSound(E, e)
  BY <1>16 DEF DoneSound, StartSound
<1>20. ASSUME NEW e \in N, NEW r \in E, r.id = e.annuls
       PROVE  /\ \A m \in {r} \cup WithIt(E, r) : \E a \in Before(E, e) \cup {e} \cup WithIt(E, e) : a.annuls = m.id
              /\ r.type = "approved" => \A s \in Said(Standing(Before(E, e)), "started") : s.id <= r.id
  <2>1. PICK i \in DOMAIN order : e.annuls = order[i].id
    BY <1>16
  <2>2. r = order[i] /\ r \in B
    <3>1. order[i] \in B /\ order[i] \in E
      BY <1>4, <1>5, <1>8 DEF E
    <3>2. QED
      BY <1>18, <1>20, <2>1, <3>1 DEF Extends, Timed
  <2>3. r \in Written /\ r \in V
    BY <1>4, <1>5, <2>2
  <2>4. Before(E, e) = V /\ WithIt(E, e) = (IF Len(events) = 1 THEN {} ELSE N) /\ WithIt(E, r) = WithIt(Written, r)
    BY <1>2, <1>18, <2>3 DEF Extends
  <2>5. N \subseteq {e} \cup WithIt(E, e)
    <3>1. CASE Len(events) = 1
      <4>1. DOMAIN events = {1}
        BY <1>13, <1>14, <3>1
      <4>2. \A x \in N : x = Stamped(events, 1, Newest, Ids(View(c)))
        BY <4>1 DEF N, New
      <4>3. QED
        BY <4>2
    <3>2. CASE Len(events) # 1
      BY <2>4, <3>2
    <3>3. QED
      BY <3>1, <3>2
  <2>6. r = b \/ (b.batch # None /\ r.batch = b.batch)
    BY <1>3, <2>2 DEF Annulment, CoupledUnit
  <2>7. ASSUME NEW m \in {r} \cup WithIt(E, r)
        PROVE  \E a \in Before(E, e) \cup {e} \cup WithIt(E, e) : a.annuls = m.id
    <3>1. m \in V /\ (m = r \/ (r.batch # None /\ m.batch = r.batch))
      BY <1>4, <2>3, <2>4 DEF WholeIn, WithIt
    <3>2. m \in CoupledUnit(V, b)
      BY <2>6, <3>1 DEF CoupledUnit
    <3>3. CASE m \in Standing(V)
      <4>1. m \in B
        BY <1>3, <3>2, <3>3 DEF Annulment
      <4>2. QED
        BY <1>17, <2>5, <4>1
    <3>4. CASE m \notin Standing(V)
      <4>1. m.id \in AnnulledIds(V)
        BY <3>1, <3>4 DEF Standing
      <4>2. QED
        BY <2>4, <4>1 DEF AnnulledIds
    <3>5. QED
      BY <3>3, <3>4
  <2>8. ASSUME r.type = "approved", NEW s \in Said(Standing(V), "started") PROVE s.id <= r.id
    <3>1. /\ Shaped(r) /\ r.batch = None /\ r.of = Work
      BY <2>3, <2>8 DEF IInv, Records, Sound, Shaped
    <3>2. B = {r}
      BY <1>3, <1>5, <2>6, <3>1 DEF Annulment, CoupledUnit
    <3>3. s \in V /\ s \in Standing(V) /\ s.type = "started" /\ s \in Written
      BY <1>4 DEF Said, Standing
    <3>4. s.of = Work
      BY <3>3 DEF IInv, Records, Sound, Shaped
    <3>5. SUFFICES ASSUME s.id > r.id PROVE FALSE
      BY <1>10, <2>3, <3>3
    <3>6. Created(B) = {} /\ Work \in Moved(B)
      BY <2>8, <3>1, <3>2 DEF Created, Moved
    <3>7. Work \in Named(s)
      BY <3>3, <3>4 DEF Named
    <3>8. DependsOn(s, B)
      BY <3>6, <3>7 DEF DependsOn
    <3>9. s \in DependentsOf(V, B)
      BY <2>8, <3>2, <3>3, <3>5, <3>8 DEF DependentsOf
    <3>10. QED
      BY <1>9, <3>9
  <2>9. QED
    BY <2>4, <2>7, <2>8
<1>21. \A e \in N : UndoSound(E, e)
  BY <1>20 DEF UndoSound
<1>22. ledger' \in [Session -> {"unknown", "running", "ended"}]
  BY <1>9 DEF IInv, TypeOK
<1>23. QED
  BY <1>9, <1>14, <1>15, <1>19, <1>21, <1>22, Recorded DEF E, N

-----------------------------------------------------------------------------
(* The theorems *)

\* Every step keeps the invariant.
LEMMA NextKeeps == ASSUME IInv, [Next]_vars PROVE IInv'
<1>1. CASE UNCHANGED vars
  <2>1. ledger' \in [Session -> {"unknown", "running", "ended"}]
    BY <1>1 DEF vars, IInv, TypeOK
  <2>2. QED
    BY <1>1, <2>1, OnlyLedger DEF vars
<1>2. ASSUME NEW s \in Session, SessionEnds(s) PROVE IInv'
  <2>1. ledger' \in [Session -> {"unknown", "running", "ended"}]
    BY <1>2 DEF SessionEnds, IInv, TypeOK
  <2>2. QED
    BY <1>2, <2>1, OnlyLedger DEF SessionEnds
<1>3. ASSUME NEW c \in Clones, TransitionWork(c, unit[c]) PROVE IInv'
  BY <1>3, EventKeeps DEF TransitionWork
<1>4. ASSUME NEW c \in Clones, WorkProcess(c, unit[c]) PROVE IInv'
  BY <1>4, EventKeeps DEF WorkProcess
<1>5. ASSUME NEW c \in Clones, WorkRetire(c, unit[c]) PROVE IInv'
  BY <1>5, EventKeeps DEF WorkRetire
<1>6. QED
  BY <1>1, <1>2, <1>3, <1>4, <1>5, SyncKeeps, CmdUndoKeeps, CriteriaAddKeeps, CoverKeeps,
     BlockCriterionKeeps, WorkStartKeeps, ReportKeeps, ReportConfirmKeeps, WorkDoneKeeps,
     DecideRetractKeeps DEF Next

\* What every clone folds to, who has which events, and what each was written
\* on: the claims of completion, the dispatches and the undos are all sound.
THEOREM RecordsStaySound == Spec => []IInv
<1>1. IInv /\ [Next]_vars => IInv'
  BY NextKeeps
<1>2. QED
  BY <1>1, Begins, PTL DEF Spec

\* Two clones that hold the same events read the unit the same, in whatever
\* order the events came to them.
THEOREM UnitsReadTheirMeaning == Spec => []ReadsAsItsMeaning
<1>1. IInv => ReadsAsItsMeaning
  BY MeaningFollows
<1>2. QED
  BY <1>1, RecordsStaySound, PTL

\* A unit that reads done had its criteria covered and something checkable.
THEOREM DoneIsComplete == Spec => []DoneIsAccounted
<1>1. IInv => DoneIsAccounted
  BY DoneFollows
<1>2. QED
  BY <1>1, RecordsStaySound, PTL

\* A unit taken up under designs was taken up on an approval that stays.
THEOREM DispatchIsApproved == Spec => []DispatchStandsOnApproval
<1>1. IInv => DispatchStandsOnApproval
  BY DispatchFollows
<1>2. QED
  BY <1>1, RecordsStaySound, PTL

-----------------------------------------------------------------------------
(***************************************************************************)
(* What the two readings of a log of two generations have in common, for   *)
(* any number of lines, written anywhere in it.                            *)
(*                                                                         *)
(* Of the older lines, one that closes a record closes it in the second    *)
(* pass at the latest, when the record is there, and no line opens it      *)
(* again.  Of the entity lines, a pass moves every record onward: what is  *)
(* out of force stays out.  So the entities stand to the statements as     *)
(* those passes leave them, and what is brought back onto each record can  *)
(* be read off its entity alone.                                           *)
(***************************************************************************)

OldCreations == {"old proposed", "old added"}
OldLinks == {"old confirmed", "old declined", "old retracted", "old reached"}
Natively == {"proposed", "added"}
Settling == {"confirmed", "retracted", "done", "retired"}

Lines == [id : Nat \ {0}, type : OldCreations \cup OldLinks \cup Natively \cup Settling \cup {"annulled"},
          of : Nat, replaces : SUBSET Nat, annuls : Nat]

\* A log as the two write it: the ids tell the lines apart and end, a line that
\* speaks of a record has the record's line beside it, and only an objective is
\* finished.
SoundLog(L) ==
    /\ L \in Seq(Lines)
    /\ \A a \in Range(L) : a.id <= Len(L)
    /\ \A a \in Range(L), b \in Range(L) : a.id = b.id => a = b
    /\ \A a \in Range(L) : a.type \in OldLinks =>
           \E b \in Range(L) : b.type \in OldCreations /\ b.id = a.of
    /\ \A a \in Range(L) : a.type \in Settling =>
           \E b \in Range(L) : b.type \in OldCreations \cup Natively /\ b.id = a.of
    /\ \A a \in Range(L) : a.type \in {"done", "retired"} => kind = "objective"

\* What there is a statement, and an entity, for.
OldIds(L) == {ev.id : ev \in {a \in Range(L) : a.type \in OldCreations}}
NativeIds(L) == {ev.id : ev \in Natives(L)}

KindOK == kind \in {"decision", "convention", "objective"}
Statuses == {"proposed", "confirmed", "current", "active", "retracted", "dropped", "declined",
             "reached", "superseded", "undone"}
OldRecords == [status : Statuses, links : SUBSET Nat]
Tables == UNION {[D -> OldRecords] : D \in SUBSET Nat}

-----------------------------------------------------------------------------
(* The statement records *)

\* What a record that stands, and one withdrawn, is called of each kind.
LEMMA KindWords ==
    ASSUME KindOK
    PROVE  /\ Stands \in {"confirmed", "current", "active"} /\ Withdrawn \in {"retracted", "dropped"}
           /\ kind = "decision" => Stands = "confirmed" /\ Withdrawn = "retracted"
<1>1. CASE kind = "decision"
  BY <1>1 DEF Stands, Withdrawn
<1>2. CASE kind = "convention"
  BY <1>2 DEF Stands, Withdrawn
<1>3. CASE kind = "objective"
  BY <1>3 DEF Stands, Withdrawn
<1>4. QED
  BY <1>1, <1>2, <1>3 DEF KindOK

\* A table of statements, by its domain.
LEMMA TableIs ==
    ASSUME NEW m PROVE m \in Tables <=> DOMAIN m \subseteq Nat /\ m \in [DOMAIN m -> OldRecords]
  BY DEF Tables

\* A status is set where it is to be, and nothing else changes.
LEMMA SetMeans ==
    ASSUME NEW D, NEW m, m \in [D -> OldRecords], NEW ids, NEW status \in Statuses
    PROVE  /\ Set(m, ids, status) \in [D -> OldRecords]
           /\ \A x \in D : Set(m, ids, status)[x].status = IF x \in ids THEN status ELSE m[x].status
<1>1. ASSUME NEW x \in D
      PROVE  LET r == IF x \in ids THEN [m[x] EXCEPT !.status = status] ELSE m[x] IN
             r \in OldRecords /\ r.status = IF x \in ids THEN status ELSE m[x].status
  <2>1. PICK q \in OldRecords : q = m[x]
    BY <1>1
  <2>2. [q EXCEPT !.status = status] \in OldRecords /\ [q EXCEPT !.status = status].status = status
    BY DEF OldRecords
  <2>3. QED
    BY <2>1, <2>2
<1>2. DOMAIN m = D
  OBVIOUS
<1>3. QED
  BY <1>1, <1>2 DEF Set

\* What a line says of another record: none that is closed stands again, and
\* one that is closed by the line is closed.
LEMMA LinkMeans ==
    ASSUME KindOK, NEW D, NEW m, m \in [D -> OldRecords], NEW ev \in Lines
    PROVE  /\ Link(m, ev) \in [D -> OldRecords]
           /\ \A x \in D : ~StandsIn(m[x].status) => ~StandsIn(Link(m, ev)[x].status)
           /\ ev.type \in {"old retracted", "old reached"} /\ ev.of \in D
                  => ~StandsIn(Link(m, ev)[ev.of].status)
<1> DEFINE t == ev.of
           is == IF t \in DOMAIN m THEN m[t].status ELSE "absent"
           S1 == IF kind = "decision" THEN Set(m, Replaceable(m, m[t].links), "superseded") ELSE m
           CaseA == ev.type = "old confirmed" /\ is = "proposed"
           CaseB == ev.type = "old declined" /\ is \in (IF kind = "decision" THEN {"proposed", Stands} ELSE {"proposed"})
           CaseC == ev.type \in {"old retracted", "old reached"} /\ is \in {"proposed", Stands}
           CaseD == ev.type = "old added" /\ kind = "convention"
<1>0. /\ Stands \in Statuses /\ Withdrawn \in Statuses /\ {"declined", "reached", "superseded"} \subseteq Statuses
      /\ ~StandsIn(Withdrawn) /\ ~StandsIn("declined") /\ ~StandsIn("reached") /\ ~StandsIn("superseded")
      /\ \A s : StandsIn(s) <=> s = "proposed" \/ s = Stands
  <2>1. ~StandsIn(Withdrawn)
    BY DEF StandsIn, Stands, Withdrawn, KindOK
  <2>2. QED
    BY <2>1, KindWords DEF StandsIn, Statuses
<1>1. DOMAIN m = D
  OBVIOUS
<1>2. S1 \in [D -> OldRecords] /\ \A x \in D : S1[x].status \in {m[x].status, "superseded"}
  BY <1>0, SetMeans
<1> HIDE DEF S1
<1>3. CASE CaseA
  <2>1. Link(m, ev) = Set(S1, {t}, Stands)
    BY <1>3 DEF Link, S1
  <2>2. t \in D /\ m[t].status = "proposed"
    BY <1>1, <1>3
  <2>3. /\ Set(S1, {t}, Stands) \in [D -> OldRecords]
        /\ \A x \in D : Set(S1, {t}, Stands)[x].status = IF x \in {t} THEN Stands ELSE S1[x].status
    BY <1>0, <1>2, SetMeans
  <2>4. \A x \in D : ~StandsIn(m[x].status) => ~StandsIn(Set(S1, {t}, Stands)[x].status)
    BY <1>0, <1>2, <2>2, <2>3
  <2>5. ev.type \notin {"old retracted", "old reached"}
    BY <1>3
  <2>6. QED
    BY <2>1, <2>3, <2>4, <2>5
<1>4. CASE CaseB
  <2>1. Link(m, ev) = Set(m, {t}, "declined") /\ ev.type \notin {"old retracted", "old reached"}
    BY <1>4 DEF Link
  <2>2. /\ Set(m, {t}, "declined") \in [D -> OldRecords]
        /\ \A x \in D : Set(m, {t}, "declined")[x].status = IF x \in {t} THEN "declined" ELSE m[x].status
    BY <1>0, SetMeans
  <2>3. QED
    BY <1>0, <2>1, <2>2
<1>5. CASE CaseC
  <2> DEFINE to == IF ev.type = "old reached" THEN "reached" ELSE Withdrawn
  <2>1. Link(m, ev) = Set(m, {t}, to)
    BY <1>5 DEF Link
  <2>2. to \in Statuses /\ ~StandsIn(to)
    BY <1>0
  <2> HIDE DEF to
  <2>3. /\ Set(m, {t}, to) \in [D -> OldRecords]
        /\ \A x \in D : Set(m, {t}, to)[x].status = IF x \in {t} THEN to ELSE m[x].status
    BY <2>2, SetMeans
  <2>4. QED
    BY <2>1, <2>2, <2>3
<1>6. CASE CaseD
  <2> DEFINE ids == Replaceable(m, ev.replaces)
  <2>1. Link(m, ev) = Set(m, ids, "superseded") /\ ev.type \notin {"old retracted", "old reached"}
    BY <1>6 DEF Link
  <2> HIDE DEF ids
  <2>2. /\ Set(m, ids, "superseded") \in [D -> OldRecords]
        /\ \A x \in D : Set(m, ids, "superseded")[x].status = IF x \in ids THEN "superseded" ELSE m[x].status
    BY <1>0, SetMeans
  <2>3. QED
    BY <1>0, <2>1, <2>2
<1>7. CASE ~CaseA /\ ~CaseB /\ ~CaseC /\ ~CaseD
  <2>1. Link(m, ev) = m
    BY <1>7 DEF Link
  <2>2. ev.type \in {"old retracted", "old reached"} /\ t \in D => ~StandsIn(m[t].status)
    BY <1>0, <1>1, <1>7
  <2>3. QED
    BY <2>1, <2>2
<1>8. QED
  BY <1>3, <1>4, <1>5, <1>6, <1>7

\* A line that makes a record makes that one; none takes one away.
LEMMA ApplyMeans ==
    ASSUME KindOK, NEW m \in Tables, NEW ev \in Lines
    PROVE  /\ ApplyEvent(m, ev) \in Tables
           /\ DOMAIN ApplyEvent(m, ev) = DOMAIN m \cup (IF ev.type \in OldCreations THEN {ev.id} ELSE {})
<1> DEFINE D == DOMAIN m
<1>1. D \subseteq Nat /\ m \in [D -> OldRecords]
  BY TableIs
<1>2. ev.id \in Nat /\ Statement(ev) \in OldRecords
  BY KindWords DEF Lines, Statement, OldRecords, Statuses
<1>3. ASSUME NEW q, q \in [D -> OldRecords]
      PROVE  DOMAIN With(q, ev) = D \cup {ev.id} /\ With(q, ev) \in [D \cup {ev.id} -> OldRecords]
  BY <1>2, <1>3 DEF With
<1>4. CASE ev.type = "old added" /\ kind = "decision"
  <2> DEFINE q == Set(m, Replaceable(m, ev.replaces), "superseded")
  <2>1. q \in [D -> OldRecords]
    BY <1>1, SetMeans DEF Statuses
  <2>2. ApplyEvent(m, ev) = With(q, ev)
    BY <1>4 DEF ApplyEvent
  <2> HIDE DEF q, D
  <2>3. DOMAIN With(q, ev) = D \cup {ev.id} /\ With(q, ev) \in [D \cup {ev.id} -> OldRecords]
    BY <1>3, <2>1
  <2>4. D \cup {ev.id} \subseteq Nat
    BY <1>1, <1>2
  <2>5. QED
    BY <1>4, <2>2, <2>3, <2>4, TableIs DEF OldCreations, D
<1>5. CASE ev.type \in OldCreations /\ ~(ev.type = "old added" /\ kind = "decision")
  <2> DEFINE q == With(m, ev)
  <2>1. ApplyEvent(m, ev) = IF kind = "convention" /\ ev.type = "old added" THEN Link(q, ev) ELSE q
    BY <1>5 DEF ApplyEvent, OldCreations
  <2>2. q \in [D \cup {ev.id} -> OldRecords]
    BY <1>1, <1>3
  <2> HIDE DEF q
  <2>3. Link(q, ev) \in [D \cup {ev.id} -> OldRecords]
    BY <2>2, LinkMeans
  <2>4. D \cup {ev.id} \subseteq Nat
    BY <1>1, <1>2
  <2>5. ApplyEvent(m, ev) \in [D \cup {ev.id} -> OldRecords]
    BY <2>1, <2>2, <2>3
  <2>6. DOMAIN ApplyEvent(m, ev) = D \cup {ev.id}
    BY <2>5
  <2>7. QED
    BY <1>5, <2>4, <2>5, <2>6, TableIs
<1>6. CASE ev.type \notin OldCreations
  <2>1. ApplyEvent(m, ev) = Link(m, ev)
    BY <1>6 DEF ApplyEvent, OldCreations
  <2>2. Link(m, ev) \in [D -> OldRecords]
    BY <1>1, LinkMeans
  <2>3. DOMAIN Link(m, ev) = D
    BY <2>2
  <2>4. QED
    BY <1>1, <1>6, <2>1, <2>2, <2>3, TableIs
<1>7. QED
  BY <1>4, <1>5, <1>6

-----------------------------------------------------------------------------
(* The two passes over the lines, line by line *)

AppliedAt(x, line) == CHOOSE u \in {ApplyEvent(r, ev) : r \in {x}, ev \in {line}} : TRUE
LinkedAt(x, line) == CHOOSE u \in {Link(r, ev) : r \in {x}, ev \in {line}} : TRUE

\* What InTurn chooses of a line is what the line makes.
LEMMA OneLine ==
    ASSUME NEW x, NEW line PROVE AppliedAt(x, line) = ApplyEvent(x, line) /\ LinkedAt(x, line) = Link(x, line)
<1>1. /\ {ApplyEvent(r, ev) : r \in {x}, ev \in {line}} = {ApplyEvent(x, line)}
      /\ {Link(r, ev) : r \in {x}, ev \in {line}} = {Link(x, line)}
  OBVIOUS
<1>2. QED
  BY <1>1 DEF AppliedAt, LinkedAt

NoRecord == <<>>
\* The table a fold begins with.
LEMMA NoRecordIsOne == NoRecord \in Tables /\ DOMAIN NoRecord = {}
<1>1. DOMAIN NoRecord = {}
  BY DEF NoRecord
<1>2. NoRecord \in [{} -> OldRecords]
  BY <1>1 DEF NoRecord
<1>3. QED
  BY <1>1, <1>2, TableIs

\* The first pass begins with no record.
AppliedRuns(L) ==
    \E after \in [0..Len(L) -> Tables] :
        /\ after[0] = NoRecord
        /\ \A n \in 1..Len(L) : after[n] = ApplyEvent(after[n - 1], L[n])
        /\ Applied(L) = after[Len(L)]

\* The first pass has its results one by one.
LEMMA AppliedInTurn ==
    ASSUME KindOK, NEW L \in Seq(Lines) PROVE AppliedRuns(L)
<1> DEFINE T == Tables
           last == Len(L)
           step == [n \in 1..last |-> [x \in T |-> ApplyEvent(x, L[n])]]
           Says0(g) == g = [n \in 0..last |-> IF n = 0 THEN NoRecord ELSE AppliedAt(g[n - 1], L[n])]
<1>1. last \in Nat /\ \A n \in 1..last : L[n] \in Lines
  BY LenProperties, ElementOfSeq
<1>2. step \in [1..last -> [T -> T]]
  <2>1. \A x \in T, ev \in Lines : ApplyEvent(x, ev) \in T
    BY ApplyMeans
  <2> HIDE DEF T, last
  <2>2. QED
    BY <1>1, <2>1
<1> HIDE DEF T, last
<1>3. PICK f \in [0..last -> T] : f[0] = NoRecord /\ \A n \in 1..last : f[n] = ApplyEvent(f[n - 1], L[n])
  <2> HIDE DEF step
  <2>1. NoRecord \in T
    BY NoRecordIsOne DEF T
  <2>2. last \in Nat /\ step \in [1..last -> [T -> T]]
    BY <1>1, <1>2
  <2>3. PICK f \in [0..last -> T] : f[0] = NoRecord /\ \A n \in 1..last : f[n] = step[n][f[n - 1]]
    <3>1. \A r \in T : \E f \in [0..last -> T] : f[0] = r /\ \A n \in 1..last : f[n] = step[n][f[n - 1]]
      BY ONLY <2>2, RunExists
    <3>2. QED
      BY ONLY <2>1, <3>1
  <2>4. ASSUME NEW n \in 1..last PROVE f[n] = ApplyEvent(f[n - 1], L[n])
    <3>1. n - 1 \in 0..last
      BY <1>1
    <3>2. f[n - 1] \in T
      BY <3>1
    <3>3. step[n][f[n - 1]] = ApplyEvent(f[n - 1], L[n])
      BY <3>2 DEF step
    <3>4. QED
      BY <2>3, <3>3
  <2>5. QED
    BY <2>3, <2>4
<1>4. Says0(f)
  <2>1. ASSUME NEW n \in 0..last PROVE f[n] = IF n = 0 THEN NoRecord ELSE AppliedAt(f[n - 1], L[n])
    <3>1. n = 0 \/ n \in 1..last
      BY <1>1
    <3>2. QED
      BY <1>3, <3>1, OneLine
  <2>2. QED
    BY <2>1
<1> DEFINE g == CHOOSE h : Says0(h)
<1>5. Says0(g)
  <2> HIDE DEF Says0
  <2>1. QED
    BY <1>4
<1>6. Applied(L) = g[last]
  BY DEF Applied, NoRecord, InTurn, AppliedAt, last
<1> HIDE DEF g
<1>7. DOMAIN g = 0..last /\ \A n \in 0..last : g[n] = IF n = 0 THEN NoRecord ELSE AppliedAt(g[n - 1], L[n])
  BY <1>5
<1>8. \A n \in 0..last : g[n] = f[n]
  <2> DEFINE good == {n \in 0..last : g[n] = f[n]}
  <2>1. 0 \in good /\ good \in SUBSET Nat
    BY <1>1, <1>3, <1>7
  <2>2. ASSUME NEW n \in 1..last, n - 1 \in good PROVE n \in good
    <3>1. n \in 0..last /\ n # 0
      BY <1>1
    <3>2. g[n] = ApplyEvent(g[n - 1], L[n])
      BY <1>7, <3>1, OneLine
    <3>3. QED
      BY <1>3, <2>2, <3>1, <3>2
  <2>3. 0..last \subseteq good
    <3> HIDE DEF good
    <3>1. QED
      BY <1>1, <2>1, <2>2, EveryTick
  <2>4. QED
    BY <2>3
<1>9. Applied(L) = f[last]
  BY <1>1, <1>6, <1>8
<1>10. QED
  BY <1>3, <1>9 DEF T, last, AppliedRuns

\* A line that speaks of another record leaves a table of statements.
LEMMA LinkType == ASSUME KindOK PROVE \A m \in Tables, ev \in Lines : Link(m, ev) \in Tables
<1>1. ASSUME NEW m \in Tables, NEW ev \in Lines PROVE Link(m, ev) \in Tables
  <2> DEFINE D == DOMAIN m
  <2>1. D \subseteq Nat /\ m \in [D -> OldRecords]
    BY TableIs
  <2> HIDE DEF D
  <2>2. Link(m, ev) \in [D -> OldRecords]
    BY <2>1, LinkMeans
  <2>3. QED
    BY <2>1, <2>2 DEF Tables
<1>2. QED
  BY <1>1

\* The second begins with what the first made.
LinkedRuns(m, L) ==
    \E after \in [0..Len(L) -> Tables] :
        /\ after[0] = m
        /\ \A n \in 1..Len(L) : after[n] = Link(after[n - 1], L[n])
        /\ Relinked(m, L) = after[Len(L)]

\* And so has the second.
LEMMA LinkedInTurn ==
    ASSUME KindOK, NEW m, m \in Tables, NEW L \in Seq(Lines) PROVE LinkedRuns(m, L)
<1> DEFINE T == Tables
           last == Len(L)
           step == [n \in 1..last |-> [x \in T |-> Link(x, L[n])]]
           Says0(g) == g = [n \in 0..last |-> IF n = 0 THEN m ELSE LinkedAt(g[n - 1], L[n])]
<1>1. last \in Nat /\ \A n \in 1..last : L[n] \in Lines
  BY LenProperties, ElementOfSeq
<1>2. step \in [1..last -> [T -> T]]
  <2>1. \A x \in T, ev \in Lines : Link(x, ev) \in T
    BY LinkType
  <2> HIDE DEF T, last
  <2>2. QED
    BY <1>1, <2>1
<1> HIDE DEF T, last
<1>3. PICK f \in [0..last -> T] : f[0] = m /\ \A n \in 1..last : f[n] = Link(f[n - 1], L[n])
  <2> HIDE DEF step
  <2>1. m \in T
    BY DEF T
  <2>2. last \in Nat /\ step \in [1..last -> [T -> T]]
    BY <1>1, <1>2
  <2>3. PICK f \in [0..last -> T] : f[0] = m /\ \A n \in 1..last : f[n] = step[n][f[n - 1]]
    <3>1. \A r \in T : \E f \in [0..last -> T] : f[0] = r /\ \A n \in 1..last : f[n] = step[n][f[n - 1]]
      BY ONLY <2>2, RunExists
    <3>2. QED
      BY ONLY <2>1, <3>1
  <2>4. ASSUME NEW n \in 1..last PROVE f[n] = Link(f[n - 1], L[n])
    <3>1. n - 1 \in 0..last
      BY <1>1
    <3>2. f[n - 1] \in T
      BY <3>1
    <3>3. step[n][f[n - 1]] = Link(f[n - 1], L[n])
      BY <3>2 DEF step
    <3>4. QED
      BY <2>3, <3>3
  <2>5. QED
    BY <2>3, <2>4
<1>4. Says0(f)
  <2>1. ASSUME NEW n \in 0..last PROVE f[n] = IF n = 0 THEN m ELSE LinkedAt(f[n - 1], L[n])
    <3>1. n = 0 \/ n \in 1..last
      BY <1>1
    <3>2. QED
      BY <1>3, <3>1, OneLine
  <2>2. QED
    BY <2>1
<1> DEFINE g == CHOOSE h : Says0(h)
<1>5. Says0(g)
  <2> HIDE DEF Says0
  <2>1. QED
    BY <1>4
<1>6. Relinked(m, L) = g[last]
  BY DEF Relinked, InTurn, LinkedAt, last
<1> HIDE DEF g
<1>7. DOMAIN g = 0..last /\ \A n \in 0..last : g[n] = IF n = 0 THEN m ELSE LinkedAt(g[n - 1], L[n])
  BY <1>5
<1>8. \A n \in 0..last : g[n] = f[n]
  <2> DEFINE good == {n \in 0..last : g[n] = f[n]}
  <2>1. 0 \in good /\ good \in SUBSET Nat
    BY <1>1, <1>3, <1>7
  <2>2. ASSUME NEW n \in 1..last, n - 1 \in good PROVE n \in good
    <3>1. n \in 0..last /\ n # 0
      BY <1>1
    <3>2. g[n] = Link(g[n - 1], L[n])
      BY <1>7, <3>1, OneLine
    <3>3. QED
      BY <1>3, <2>2, <3>1, <3>2
  <2>3. 0..last \subseteq good
    <3> HIDE DEF good
    <3>1. QED
      BY <1>1, <2>1, <2>2, EveryTick
  <2>4. QED
    BY <2>3
<1>9. Relinked(m, L) = f[last]
  BY <1>1, <1>6, <1>8
<1>10. QED
  BY <1>3, <1>9 DEF T, last, LinkedRuns

-----------------------------------------------------------------------------
(* What the statements are *)

\* The ids of the records the first n lines make.
MadeBy(L, n) == {L[k].id : k \in {j \in 1..n : L[j].type \in OldCreations}}

\* The first pass makes a statement of each older line that makes one, and of no other.
LEMMA AppliedIs ==
    ASSUME KindOK, NEW L \in Seq(Lines)
    PROVE  Applied(L) \in Tables /\ DOMAIN Applied(L) = OldIds(L)
<1> DEFINE last == Len(L)
<1>1. PICK after \in [0..last -> Tables] :
          /\ after[0] = NoRecord
          /\ \A n \in 1..last : after[n] = ApplyEvent(after[n - 1], L[n])
          /\ Applied(L) = after[last]
  BY AppliedInTurn DEF AppliedRuns
<1>2. last \in Nat /\ \A n \in 1..last : L[n] \in Lines
  BY LenProperties, ElementOfSeq
<1> DEFINE good == {n \in 0..last : DOMAIN after[n] = MadeBy(L, n)}
<1>3. 0 \in good /\ good \in SUBSET Nat
  <2>1. MadeBy(L, 0) = {}
    BY DEF MadeBy
  <2>2. 0 \in 0..last /\ DOMAIN after[0] = MadeBy(L, 0)
    BY <1>1, <1>2, <2>1, NoRecordIsOne
  <2> HIDE DEF last
  <2>3. QED
    BY <2>2
<1>4. ASSUME NEW n \in 1..last, n - 1 \in good PROVE n \in good
  <2>1. after[n - 1] \in Tables /\ n \in 0..last
    BY <1>2, <1>4
  <2>2. DOMAIN after[n] = DOMAIN after[n - 1] \cup (IF L[n].type \in OldCreations THEN {L[n].id} ELSE {})
    BY <1>1, <1>2, <2>1, ApplyMeans
  <2>3. MadeBy(L, n) = MadeBy(L, n - 1) \cup (IF L[n].type \in OldCreations THEN {L[n].id} ELSE {})
    <3>1. \A k \in 1..n : k \in 1..(n - 1) \/ k = n
      BY <1>2
    <3>2. n \in 1..n /\ \A k \in 1..(n - 1) : k \in 1..n
      BY <1>2
    <3>3. QED
      BY <3>1, <3>2 DEF MadeBy
  <2>4. QED
    BY <1>4, <2>1, <2>2, <2>3
<1>5. 0..last \subseteq good
  <2> HIDE DEF good, last
  <2>1. QED
    BY <1>2, <1>3, <1>4, EveryTick
<1>6. last \in 0..last
  BY <1>2
<1>7. MadeBy(L, last) = OldIds(L)
  BY RangeEquality, <1>2 DEF MadeBy, OldIds, Range
<1>8. QED
  BY <1>1, <1>5, <1>6, <1>7

\* A line that closed a record that is there closed it for good.
LEMMA RelinkedIs ==
    ASSUME KindOK, NEW m, m \in Tables, NEW L \in Seq(Lines)
    PROVE  /\ Relinked(m, L) \in [DOMAIN m -> OldRecords]
           /\ \A ev \in Range(L) : ev.type \in {"old retracted", "old reached"} /\ ev.of \in DOMAIN m
                  => ~StandsIn(Relinked(m, L)[ev.of].status)
<1> DEFINE last == Len(L)
           D == DOMAIN m
           Closing(ev) == ev.type \in {"old retracted", "old reached"} /\ ev.of \in D
           ClosedBy(q, n) == \A k \in 1..n : Closing(L[k]) => ~StandsIn(q[L[k].of].status)
<1>1. PICK after \in [0..last -> Tables] :
          /\ after[0] = m
          /\ \A n \in 1..last : after[n] = Link(after[n - 1], L[n])
          /\ Relinked(m, L) = after[last]
  BY LinkedInTurn DEF LinkedRuns
<1>2. last \in Nat /\ \A n \in 1..last : L[n] \in Lines
  BY LenProperties, ElementOfSeq
<1> DEFINE good == {n \in 0..last : after[n] \in [D -> OldRecords] /\ ClosedBy(after[n], n)}
<1>3. 0 \in good /\ good \in SUBSET Nat
  <2>1. m \in [D -> OldRecords] /\ 0 \in 0..last
    BY <1>2, TableIs
  <2>2. ClosedBy(after[0], 0)
    <3>1. 1..0 = {}
      OBVIOUS
    <3>2. QED
      BY ONLY <3>1
  <2> HIDE DEF ClosedBy, last, D
  <2>3. QED
    BY <1>1, <2>1, <2>2
<1>4. ASSUME NEW n \in 1..last, n - 1 \in good PROVE n \in good
  <2>1. PICK q : q = after[n - 1]
    OBVIOUS
  <2>2. PICK line \in Lines : line = L[n]
    BY <1>2
  <2>3. q \in [D -> OldRecords] /\ ClosedBy(q, n - 1) /\ n \in 0..last /\ after[n] = Link(q, line)
    <3>1. n \in 0..last
      BY <1>2
    <3> HIDE DEF ClosedBy, D, last
    <3>2. QED
      BY <1>1, <1>4, <2>1, <2>2, <3>1
  <2> HIDE DEF D
  <2>4. /\ Link(q, line) \in [D -> OldRecords]
        /\ \A x \in D : ~StandsIn(q[x].status) => ~StandsIn(Link(q, line)[x].status)
        /\ line.type \in {"old retracted", "old reached"} /\ line.of \in D
               => ~StandsIn(Link(q, line)[line.of].status)
    BY <2>3, LinkMeans
  <2>5. ASSUME NEW k \in 1..n, Closing(L[k]) PROVE ~StandsIn(Link(q, line)[L[k].of].status)
    <3>1. CASE k = n
      BY <2>2, <2>4, <2>5, <3>1
    <3>2. CASE k # n
      <4>1. k \in 1..(n - 1)
        BY <1>2, <3>2
      <4>2. QED
        BY <2>3, <2>4, <2>5, <4>1
    <3>3. QED
      BY <3>1, <3>2
  <2>6. QED
    BY <2>3, <2>4, <2>5
<1>5. 0..last \subseteq good
  <2> HIDE DEF good, last
  <2>1. QED
    BY <1>2, <1>3, <1>4, EveryTick
<1>6. last \in 0..last
  BY <1>2
<1>7. Relinked(m, L) \in [D -> OldRecords] /\ ClosedBy(Relinked(m, L), last)
  BY <1>1, <1>5, <1>6
<1>8. \A ev \in Range(L) : \E k \in 1..last : ev = L[k]
  BY <1>2, RangeEquality DEF Range
<1>9. QED
  BY <1>7, <1>8

\* A record is displaced by another that is not a proposal, if at all.
LEMMA DisplacedMeans ==
    ASSUME KindOK, NEW D, NEW m, m \in [D -> OldRecords]
    PROVE  /\ SupersededObjectives(m) \in [D -> OldRecords]
           /\ kind # "objective" => SupersededObjectives(m) = m
           /\ \A x \in D :
                  \/ SupersededObjectives(m)[x].status = m[x].status
                  \/ /\ SupersededObjectives(m)[x].status = "superseded"
                     /\ \E s \in D : x \in m[s].links
<1> DEFINE ids == {id \in DOMAIN m : /\ m[id].status \notin {"reached", "declined"}
                                     /\ \E s \in DOMAIN m : id \in m[s].links /\ m[s].status # "proposed"}
<1>1. \A x \in ids : \E s \in D : x \in m[s].links
  OBVIOUS
<1>2. SupersededObjectives(m) = IF kind # "objective" THEN m ELSE Set(m, ids, "superseded")
  BY DEF SupersededObjectives
<1>3. "superseded" \in Statuses
  BY DEF Statuses
<1> HIDE DEF ids
<1>4. /\ Set(m, ids, "superseded") \in [D -> OldRecords]
      /\ \A x \in D : Set(m, ids, "superseded")[x].status = IF x \in ids THEN "superseded" ELSE m[x].status
  BY <1>3, SetMeans
<1>5. QED
  BY <1>1, <1>2, <1>4

\* The statements are the records the older lines made, and what a line closed
\* does not stand among them.
LEMMA StatementsAre ==
    ASSUME KindOK, NEW L, SoundLog(L)
    PROVE  /\ Statements(L) \in [OldIds(L) -> OldRecords]
           /\ \A ev \in Range(L) : ev.type \in {"old retracted", "old reached"}
                  => ev.of \in OldIds(L) /\ ~StandsIn(Statements(L)[ev.of].status)
<1> DEFINE D == OldIds(L)
           once == Applied(L)
           q == Relinked(once, L)
<1>1. L \in Seq(Lines)
  BY DEF SoundLog
<1>2. once \in Tables /\ DOMAIN once = D
  BY <1>1, AppliedIs
<1>3. /\ q \in [D -> OldRecords]
      /\ \A ev \in Range(L) : ev.type \in {"old retracted", "old reached"} /\ ev.of \in D
             => ~StandsIn(q[ev.of].status)
  <2> HIDE DEF once, D
  <2>1. QED
    BY <1>1, <1>2, RelinkedIs
<1>4. Statements(L) = SupersededObjectives(q)
  BY DEF Statements
<1>5. \A ev \in Range(L) : ev.type \in {"old retracted", "old reached"} => ev.of \in D
  BY DEF SoundLog, OldIds, OldLinks
<1>6. ~StandsIn("superseded")
  BY KindWords DEF StandsIn
<1> HIDE DEF q, D, once
<1>7. /\ SupersededObjectives(q) \in [D -> OldRecords]
      /\ \A x \in D : SupersededObjectives(q)[x].status \in {q[x].status, "superseded"}
  BY <1>3, DisplacedMeans
<1>8. QED
  BY <1>3, <1>4, <1>5, <1>6, <1>7 DEF D
-----------------------------------------------------------------------------
(* What an entity line settles *)

Ents == [status : {"proposed", "confirmed", "retracted", "superseded", "undone"}, links : SUBSET Nat,
         once : BOOLEAN, work : {"open", "done", "retired"}]

\* What may become of a record: nothing that is out of force comes into it
\* again, and nothing finished is taken up.
Onward(a, b) ==
    /\ b.links = a.links
    /\ a.status \notin Live => b.status = a.status
    /\ a.status \in Live => b.status \in Live \cup {"retracted"}
    /\ a.work # "open" => b.work # "open"

\* What a line leaves of the record it names.
Closes(ev, b) ==
    /\ ev.type = "retracted" => b.status \notin Live
    /\ ev.type \in {"done", "retired"} => b.work # "open"

\* A line of work says nothing of the rest, and no other line says aught of it.
Sorts(ev, a, b) ==
    /\ ev.type \in {"done", "retired"} => b.status = a.status /\ b.once = a.once
    /\ ev.type \notin {"done", "retired"} => b.work = a.work

\* A line moves the record it names onward, closes it if it says so, and touches no other.
LEMMA SettledMeans ==
    ASSUME NEW D, NEW e, e \in [D -> Ents], NEW ev \in Lines, ev.type \in Settling, ev.of \in D
    PROVE  /\ Settled(e, ev) \in [D -> Ents]
           /\ \A x \in D : Onward(e[x], Settled(e, ev)[x]) /\ Sorts(ev, e[x], Settled(e, ev)[x])
           /\ Closes(ev, Settled(e, ev)[ev.of])
<1> DEFINE t == ev.of
           new == CASE ev.type = "confirmed" ->
                         IF e[t].status = "proposed" THEN [e[t] EXCEPT !.status = "confirmed", !.once = TRUE] ELSE e[t]
                    [] ev.type = "retracted" ->
                         IF e[t].status \in Live THEN [e[t] EXCEPT !.status = "retracted"] ELSE e[t]
                    [] ev.type \in {"done", "retired"} ->
                         IF e[t].work = "open" THEN [e[t] EXCEPT !.work = ev.type] ELSE e[t]
<1>1. PICK a \in Ents : a = e[t]
  OBVIOUS
<1>2. new \in Ents /\ Onward(a, new) /\ Sorts(ev, a, new) /\ Closes(ev, new)
  <2>1. CASE ev.type = "confirmed"
    <3> DEFINE c == [a EXCEPT !.status = "confirmed", !.once = TRUE]
    <3>1. c \in Ents /\ c.status = "confirmed" /\ c.links = a.links /\ c.work = a.work
      BY DEF Ents
    <3> HIDE DEF c
    <3>2. new = IF a.status = "proposed" THEN c ELSE a
      BY <1>1, <2>1 DEF c
    <3> HIDE DEF new
    <3>3. QED
      BY <2>1, <3>1, <3>2 DEF Onward, Sorts, Closes, Live
  <2>2. CASE ev.type = "retracted"
    <3> DEFINE c == [a EXCEPT !.status = "retracted"]
    <3>1. c \in Ents /\ c.status = "retracted" /\ c.links = a.links /\ c.work = a.work
      BY DEF Ents
    <3> HIDE DEF c
    <3>2. new = IF a.status \in Live THEN c ELSE a
      BY <1>1, <2>2 DEF c
    <3> HIDE DEF new
    <3>3. QED
      BY <2>2, <3>1, <3>2 DEF Onward, Sorts, Closes, Live
  <2>3. CASE ev.type \in {"done", "retired"}
    <3> DEFINE c == [a EXCEPT !.work = ev.type]
    <3>1. c \in Ents /\ c.status = a.status /\ c.links = a.links /\ c.once = a.once /\ c.work = ev.type
      BY <2>3 DEF Ents
    <3> HIDE DEF c
    <3>2. new = IF a.work = "open" THEN c ELSE a
      BY <1>1, <2>3 DEF c
    <3> HIDE DEF new
    <3>3. QED
      BY <2>3, <3>1, <3>2 DEF Onward, Sorts, Closes, Live
  <2>4. QED
    BY <2>1, <2>2, <2>3 DEF Settling
<1>3. Settled(e, ev) = [e EXCEPT ![t] = new]
  <2>1. CASE ev.type = "confirmed"
    BY <2>1 DEF Settled, Confirm
  <2>2. CASE ev.type = "retracted"
    BY <2>2 DEF Settled, Retract
  <2>3. CASE ev.type \in {"done", "retired"}
    BY <2>3 DEF Settled, Execute
  <2>4. QED
    BY <2>1, <2>2, <2>3 DEF Settling
<1> HIDE DEF new
<1>4. \A x \in D : Onward(e[x], e[x]) /\ Sorts(ev, e[x], e[x])
  BY DEF Onward, Sorts, Ents
<1>5. \A x \in D : [e EXCEPT ![t] = new][x] = IF x = t THEN new ELSE e[x]
  OBVIOUS
<1>6. [e EXCEPT ![t] = new] \in [D -> Ents]
  BY <1>2
<1>7. QED
  BY <1>1, <1>2, <1>3, <1>4, <1>5, <1>6

-----------------------------------------------------------------------------
(* A pass over some of them *)

\* Lines that settle, each of a record of these.
Clocked(D, E) ==
    /\ E \subseteq Lines /\ \A a \in E : a.type \in Settling /\ a.of \in D
    /\ \A a \in E, b \in E : a.id = b.id => a = b
    /\ \E B \in Nat : \A a \in E : a.id <= B

\* The last tick of a pass.
LEMMA LastClock ==
    ASSUME NEW D, NEW E, Clocked(D, E)
    PROVE  LastOf(E) \in Nat /\ \A e \in E : e.id \in 1..LastOf(E)
<1> DEFINE ids == {ev.id : ev \in E} \cup {0}
<1>1. PICK B \in Nat : \A e \in E : e.id <= B
  BY DEF Clocked
<1>2. ids \in SUBSET Nat /\ ids # {} /\ \A y \in ids : y <= B
  BY <1>1 DEF Clocked, Lines
<1>3. Max(ids) \in ids /\ \A y \in ids : y <= Max(ids)
  <2> HIDE DEF ids
  <2>1. QED
    BY <1>2, GreatestExists
<1>4. QED
  BY <1>2, <1>3 DEF LastOf, Clocked, Lines

PassedAt(E, n, x) ==
    LET now == {ev \in E : ev.id = n} IN
    IF now = {} THEN x
    ELSE CHOOSE u \in {Settled(r, ev) : r \in {x}, ev \in now} : TRUE

PassRuns(D, e, E) ==
    \E after \in [0..LastOf(E) -> [D -> Ents]] :
        /\ after[0] = e
        /\ \A n \in 1..LastOf(E) :
               /\ (\A ev \in E : ev.id # n) => after[n] = after[n - 1]
               /\ \A ev \in E : ev.id = n => after[n] = Settled(after[n - 1], ev)
        /\ Passed(e, E) = after[LastOf(E)]

\* A pass has its results tick by tick.
LEMMA PassedInTurn ==
    ASSUME NEW D, NEW e0, e0 \in [D -> Ents], NEW E, Clocked(D, E)
    PROVE  PassRuns(D, e0, E)
<1> DEFINE T == [D -> Ents]
           last == LastOf(E)
           step == [n \in 1..last |-> [x \in T |-> PassedAt(E, n, x)]]
           Says(g) == g = [n \in 0..last |-> IF n = 0 THEN e0 ELSE PassedAt(E, n, g[n - 1])]
<1>1. last \in Nat
  BY LastClock
<1>2. ASSUME NEW x, NEW n, NEW e \in E, e.id = n PROVE PassedAt(E, n, x) = Settled(x, e)
  <2> DEFINE now == {ev \in E : ev.id = n}
  <2>1. now = {e}
    BY <1>2 DEF Clocked
  <2> HIDE DEF now
  <2>2. {Settled(r, ev) : r \in {x}, ev \in now} = {Settled(x, e)}
    BY <2>1
  <2> USE DEF now
  <2>3. QED
    BY <2>1, <2>2 DEF PassedAt
<1>3. ASSUME NEW x, NEW n, \A e \in E : e.id # n PROVE PassedAt(E, n, x) = x
  BY <1>3 DEF PassedAt
<1>4. ASSUME NEW x \in T, NEW n PROVE PassedAt(E, n, x) \in T
  <2>1. ASSUME NEW e \in E PROVE Settled(x, e) \in T
    <3>1. e \in Lines /\ e.type \in Settling /\ e.of \in D
      BY DEF Clocked
    <3>2. QED
      BY <3>1, SettledMeans
  <2> HIDE DEF T
  <2>2. QED
    BY <1>2, <1>3, <2>1
<1>5. e0 \in T /\ step \in [1..last -> [T -> T]]
  <2> HIDE DEF last
  <2>1. e0 \in T
    OBVIOUS
  <2> HIDE DEF T
  <2>2. QED
    BY <1>4, <2>1
<1> HIDE DEF T, last
<1>6. PICK f \in [0..last -> T] : f[0] = e0 /\ \A i \in 1..last : f[i] = PassedAt(E, i, f[i - 1])
  <2> HIDE DEF step
  <2>1. PICK f \in [0..last -> T] : f[0] = e0 /\ \A i \in 1..last : f[i] = step[i][f[i - 1]]
    <3>1. last \in Nat /\ step \in [1..last -> [T -> T]]
      BY <1>1, <1>5
    <3>2. \A r \in T : \E f \in [0..last -> T] : f[0] = r /\ \A n \in 1..last : f[n] = step[n][f[n - 1]]
      BY ONLY <3>1, RunExists
    <3>3. QED
      BY ONLY <1>5, <3>2
  <2>2. ASSUME NEW i \in 1..last PROVE f[i] = PassedAt(E, i, f[i - 1])
    <3>1. i - 1 \in 0..last
      BY <1>1
    <3>2. f[i - 1] \in T
      BY <3>1
    <3>3. step[i][f[i - 1]] = PassedAt(E, i, f[i - 1])
      BY <3>2 DEF step
    <3>4. QED
      BY <2>1, <3>3
  <2>3. QED
    BY <2>1, <2>2
<1>7. Says(f)
  <2>1. ASSUME NEW n \in 0..last PROVE f[n] = IF n = 0 THEN e0 ELSE PassedAt(E, n, f[n - 1])
    <3>1. n = 0 \/ n \in 1..last
      BY <1>1
    <3>2. QED
      BY <1>6, <3>1
  <2>2. QED
    BY <2>1
<1> DEFINE g == CHOOSE h : Says(h)
<1>8. Says(g)
  <2> HIDE DEF Says
  <2>1. QED
    BY <1>7
<1>9. Passed(e0, E) = g[last]
  BY DEF Passed, OverTime, LastOf, PassedAt, last
<1> HIDE DEF g
<1>10. DOMAIN g = 0..last /\ \A n \in 0..last : g[n] = IF n = 0 THEN e0 ELSE PassedAt(E, n, g[n - 1])
  BY <1>8
<1>11. \A n \in 0..last : g[n] = f[n]
  <2> DEFINE good == {n \in 0..last : g[n] = f[n]}
  <2>1. 0 \in good /\ good \in SUBSET Nat
    BY <1>1, <1>6, <1>10
  <2>2. ASSUME NEW n \in 1..last, n - 1 \in good PROVE n \in good
    BY <1>1, <1>6, <1>10, <2>2
  <2>3. 0..last \subseteq good
    <3> HIDE DEF good
    <3>1. QED
      BY <1>1, <2>1, <2>2, EveryTick
  <2>4. QED
    BY <2>3
<1>12. Passed(e0, E) = f[last]
  BY <1>1, <1>9, <1>11
<1>13. ASSUME NEW n \in 1..last, \A e \in E : e.id # n PROVE f[n] = f[n - 1]
  BY <1>3, <1>6, <1>13
<1>14. ASSUME NEW n \in 1..last, NEW e \in E, e.id = n PROVE f[n] = Settled(f[n - 1], e)
  BY <1>2, <1>6, <1>14
<1>15. QED
  BY <1>6, <1>12, <1>13, <1>14 DEF T, last, PassRuns

\* Onward twice is onward.
LEMMA OnwardTwice ==
    ASSUME NEW a, NEW b, NEW c, Onward(a, b), Onward(b, c) PROVE Onward(a, c)
  BY DEF Onward, Live

\* What a line closed, no later one opens.
LEMMA ClosedStays ==
    ASSUME NEW ev, NEW b, NEW c, Closes(ev, b), Onward(b, c) PROVE Closes(ev, c)
  BY DEF Onward, Closes

\* What a pass leaves: each record as it was or further on, those its lines
\* name closed as they say, and the rest of the record alone.
PassLeaves(D, E, e, r) ==
    /\ r \in [D -> Ents]
    /\ \A x \in D : Onward(e[x], r[x])
    /\ \A ev \in E : Closes(ev, r[ev.of])
    /\ (\A ev \in E : ev.type \in {"done", "retired"}) =>
           \A x \in D : r[x].status = e[x].status /\ r[x].once = e[x].once
    /\ (\A ev \in E : ev.type \notin {"done", "retired"}) => \A x \in D : r[x].work = e[x].work

\* That is what a pass leaves, at its first tick and so at every one.
LEMMA PassMeans ==
    ASSUME NEW D, NEW e, e \in [D -> Ents], NEW E, Clocked(D, E)
    PROVE  PassLeaves(D, E, e, Passed(e, E))
<1> DEFINE last == LastOf(E)
           Sofar(n) == {ev \in E : ev.id <= n}
<1>1. last \in Nat /\ \A ev \in E : ev.id \in 1..last
  BY LastClock
<1>2. PICK after \in [0..last -> [D -> Ents]] :
          /\ after[0] = e
          /\ \A n \in 1..last :
                 /\ (\A ev \in E : ev.id # n) => after[n] = after[n - 1]
                 /\ \A ev \in E : ev.id = n => after[n] = Settled(after[n - 1], ev)
          /\ Passed(e, E) = after[last]
  BY PassedInTurn DEF PassRuns
<1> DEFINE good == {n \in 0..last : PassLeaves(D, Sofar(n), e, after[n])}
<1>3. 0 \in good /\ good \in SUBSET Nat
  <2>1. Sofar(0) = {}
    BY <1>1
  <2> HIDE DEF Sofar
  <2>2. PassLeaves(D, Sofar(0), e, e)
    BY <2>1 DEF PassLeaves, Onward, Ents, Live
  <2>3. 0 \in 0..last
    BY <1>1
  <2> HIDE DEF last
  <2>4. QED
    BY <1>1, <1>2, <2>2, <2>3
<1>4. ASSUME NEW n \in 1..last, n - 1 \in good PROVE n \in good
  <2>1. n \in 0..last /\ n - 1 \in 0..last
    BY <1>1
  <2>2. PICK q \in [D -> Ents] : q = after[n - 1]
    BY <1>2, <2>1
  <2>3. PassLeaves(D, Sofar(n - 1), e, q)
    <3> HIDE DEF Sofar, last
    <3>1. QED
      BY <1>4, <2>2
  <2>4. CASE \A ev \in E : ev.id # n
    <3>1. Sofar(n) = Sofar(n - 1)
      BY <1>1, <2>1, <2>4
    <3> HIDE DEF Sofar, last
    <3>2. after[n] = q
      BY <1>2, <2>2, <2>4
    <3>3. QED
      BY <2>1, <2>3, <3>1, <3>2
  <2>5. ASSUME NEW ev \in E, ev.id = n PROVE n \in good
    <3>1. Sofar(n) = Sofar(n - 1) \cup {ev}
      <4>1. \A a \in E : a.id = n => a = ev
        BY <2>5 DEF Clocked
      <4>2. \A a \in E : a.id <= n <=> a.id <= n - 1 \/ a.id = n
        BY <1>1, <2>1
      <4>3. QED
        BY <2>5, <4>1, <4>2
    <3>2. ev \in Lines /\ ev.type \in Settling /\ ev.of \in D
      BY DEF Clocked
    <3>3. \A a \in Sofar(n - 1) : a.of \in D
      BY DEF Clocked
    <3> HIDE DEF Sofar, last
    <3>4. PICK r : r = Settled(q, ev)
      OBVIOUS
    <3>5. after[n] = r
      BY <1>2, <2>2, <2>5, <3>4
    <3>6. /\ r \in [D -> Ents]
          /\ \A x \in D : Onward(q[x], r[x]) /\ Sorts(ev, q[x], r[x])
          /\ Closes(ev, r[ev.of])
      BY <3>2, <3>4, SettledMeans
    <3>7. \A x \in D : Onward(e[x], r[x])
      BY <2>3, <3>6, OnwardTwice DEF PassLeaves
    <3>8. ASSUME NEW a \in Sofar(n) PROVE Closes(a, r[a.of])
      <4>1. CASE a = ev
        BY <3>6, <4>1
      <4>2. CASE a \in Sofar(n - 1)
        <5>1. Closes(a, q[a.of]) /\ Onward(q[a.of], r[a.of])
          BY <2>3, <3>3, <3>6, <4>2 DEF PassLeaves
        <5>2. QED
          BY <5>1, ClosedStays
      <4>3. QED
        BY <3>1, <4>1, <4>2
    <3>9. ASSUME \A a \in Sofar(n) : a.type \in {"done", "retired"}, NEW x \in D
          PROVE  r[x].status = e[x].status /\ r[x].once = e[x].once
      BY <2>3, <3>1, <3>6, <3>9 DEF PassLeaves, Sorts
    <3>10. ASSUME \A a \in Sofar(n) : a.type \notin {"done", "retired"}, NEW x \in D
           PROVE  r[x].work = e[x].work
      BY <2>3, <3>1, <3>6, <3>10 DEF PassLeaves, Sorts
    <3>11. PassLeaves(D, Sofar(n), e, r)
      BY <3>6, <3>7, <3>8, <3>9, <3>10 DEF PassLeaves
    <3>12. QED
      BY <2>1, <3>5, <3>11
  <2>6. QED
    BY <2>4, <2>5
<1>5. 0..last \subseteq good
  <2> HIDE DEF good, last
  <2>1. QED
    BY <1>1, <1>3, <1>4, EveryTick
<1>6. last \in 0..last /\ Sofar(last) = E
  BY <1>1
<1>7. QED
  BY <1>2, <1>5, <1>6
-----------------------------------------------------------------------------
(* The entities *)

\* What a statement is as an entity: in force if it stands, and replaced if it
\* was.
LEMMA StatementAsEntity ==
    ASSUME KindOK, NEW r \in OldRecords
    PROVE  /\ OfStatement(r) \in Ents /\ OfStatement(r).work = "open"
           /\ OfStatement(r).status \in Live <=> StandsIn(r.status)
           /\ OfStatement(r).status = "superseded" <=> r.status = "superseded"
           /\ OfStatement(r).status # "undone"
<1> DEFINE s == CASE r.status = Stands -> "confirmed" [] r.status \in {"proposed", "superseded"} -> r.status
                  [] OTHER -> "retracted"
<1>1. /\ s \in {"confirmed", "proposed", "superseded", "retracted"}
      /\ s \in {"confirmed", "proposed"} <=> r.status = "proposed" \/ r.status = Stands
      /\ s = "superseded" <=> r.status = "superseded"
  <2>1. Stands \in {"confirmed", "current", "active"}
    BY KindWords
  <2>2. CASE r.status = Stands
    BY <2>1, <2>2
  <2>3. CASE r.status \in {"proposed", "superseded"}
    BY <2>1, <2>3
  <2>4. CASE r.status # Stands /\ r.status \notin {"proposed", "superseded"}
    BY <2>4
  <2>5. QED
    BY <2>2, <2>3, <2>4
<1>2. OfStatement(r) = [status |-> s, links |-> r.links, once |-> r.status \notin {"proposed", "declined"},
                        work |-> "open"]
  BY DEF OfStatement
<1> HIDE DEF s
<1>3. r.links \in SUBSET Nat /\ (r.status \notin {"proposed", "declined"}) \in BOOLEAN
  BY DEF OldRecords
<1>4. QED
  BY <1>1, <1>2, <1>3 DEF Ents, Live, StandsIn

\* The lines of a log are lines.
LEMMA RangeOfLog == ASSUME NEW S, NEW L \in Seq(S) PROVE \A ev \in Range(L) : ev \in S
  BY RangeEquality, LenProperties, ElementOfSeq DEF Range

\* A line of creation makes an entity no work is done on.
LEMMA CreationAsEntity ==
    ASSUME NEW L, NEW ev \in Lines, ev.type \in Natively
    PROVE  OfCreation(L, ev) \in Ents /\ OfCreation(L, ev).work = "open"
<1>1. ev.replaces \in SUBSET Nat /\ (ev.type = "added") \in BOOLEAN
  BY DEF Lines
<1>2. QED
  BY <1>1 DEF OfCreation, Ents

AllIds(L) == OldIds(L) \cup NativeIds(L)

\* The entities before any line settles them.
LEMMA MadeMeans ==
    ASSUME KindOK, NEW L, SoundLog(L), NEW m, m \in [OldIds(L) -> OldRecords]
    PROVE  /\ MadeOf(L, m) \in [AllIds(L) -> Ents]
           /\ \A x \in AllIds(L) : MadeOf(L, m)[x].work = "open"
           /\ \A x \in OldIds(L) : MadeOf(L, m)[x] = OfStatement(m[x])
<1>1. DOMAIN m = OldIds(L)
  OBVIOUS
<1>2. MadeOf(L, m) = [id \in AllIds(L) |->
          IF id \in OldIds(L) THEN OfStatement(m[id])
          ELSE OfCreation(L, CHOOSE ev \in Natives(L) : ev.id = id)]
  BY <1>1 DEF MadeOf, AllIds, NativeIds
<1>3. ASSUME NEW x \in OldIds(L) PROVE OfStatement(m[x]) \in Ents /\ OfStatement(m[x]).work = "open"
  BY StatementAsEntity
<1>4. ASSUME NEW x \in AllIds(L), x \notin OldIds(L)
      PROVE  LET ev == CHOOSE ev \in Natives(L) : ev.id = x IN
             OfCreation(L, ev) \in Ents /\ OfCreation(L, ev).work = "open"
  <2>1. PICK ev : ev = CHOOSE a \in Natives(L) : a.id = x
    OBVIOUS
  <2>2. \E a \in Natives(L) : a.id = x
    BY <1>4 DEF AllIds, NativeIds
  <2>3. ev \in Natives(L)
    BY <2>1, <2>2
  <2>4. ev \in Lines /\ ev.type \in Natively
    <3>1. ev \in Range(L) /\ ev.type \in Natively
      BY <2>3 DEF Natives, Natively
    <3>2. L \in Seq(Lines)
      BY DEF SoundLog
    <3>3. QED
      BY <3>1, <3>2, RangeOfLog
  <2>5. QED
    BY <2>1, <2>4, CreationAsEntity
<1>5. OldIds(L) \subseteq AllIds(L)
  BY DEF AllIds
<1>6. QED
  BY <1>2, <1>3, <1>4, <1>5

\* What is replaced was in force, and whatever is after all is named by no
\* record that ever held.
LEMMA SupersessionsMean ==
    ASSUME NEW D, NEW e, e \in [D -> Ents]
    PROVE  /\ Supersessions(e) \in [D -> Ents]
           /\ \A x \in D :
                  /\ Supersessions(e)[x].links = e[x].links /\ Supersessions(e)[x].once = e[x].once
                  /\ Supersessions(e)[x].work = e[x].work
                  /\ e[x].status \notin Live => Supersessions(e)[x].status = e[x].status
                  /\ e[x].status \in Live => Supersessions(e)[x].status \in {e[x].status, "superseded"}
                  /\ Supersessions(e)[x].status \in Live =>
                         \A y \in D : e[y].once => x \notin e[y].links
<1> DEFINE ids == {id \in DOMAIN e : e[id].status \in Live /\ \E s \in DOMAIN e : e[s].once /\ id \in e[s].links}
           q == Supersessions(e)
<1>1. q = [x \in D |-> IF x \in ids THEN [e[x] EXCEPT !.status = "superseded"] ELSE e[x]]
  BY DEF Supersessions, Set
<1>2. ASSUME NEW x \in D, NEW r \in Ents
      PROVE  LET c == [r EXCEPT !.status = "superseded"] IN
             c \in Ents /\ c.links = r.links /\ c.once = r.once /\ c.work = r.work /\ c.status = "superseded"
  BY DEF Ents
<1>3. \A x \in D : x \in ids <=> e[x].status \in Live /\ \E s \in D : e[s].once /\ x \in e[s].links
  OBVIOUS
<1>4. ASSUME NEW x \in D
      PROVE  /\ q[x] \in Ents /\ q[x].links = e[x].links /\ q[x].once = e[x].once /\ q[x].work = e[x].work
             /\ x \in ids => q[x].status = "superseded"
             /\ x \notin ids => q[x].status = e[x].status
  <2>1. PICK r \in Ents : r = e[x]
    OBVIOUS
  <2> HIDE DEF ids, q
  <2>2. q[x] = IF x \in ids THEN [r EXCEPT !.status = "superseded"] ELSE r
    BY <1>1, <2>1
  <2>3. QED
    BY <1>2, <2>1, <2>2
<1>5. q \in [D -> Ents]
  <2> HIDE DEF ids
  <2>1. q = [x \in D |-> q[x]]
    BY <1>1
  <2> HIDE DEF q
  <2>2. QED
    BY <1>4, <2>1
<1>6. "superseded" \notin Live
  BY DEF Live
<1> HIDE DEF ids, q
<1>7. ASSUME NEW x \in D
      PROVE  /\ q[x].links = e[x].links /\ q[x].once = e[x].once /\ q[x].work = e[x].work
             /\ e[x].status \notin Live => q[x].status = e[x].status
             /\ e[x].status \in Live => q[x].status \in {e[x].status, "superseded"}
             /\ q[x].status \in Live => \A y \in D : e[y].once => x \notin e[y].links
  BY <1>3, <1>4, <1>6
<1>8. QED
  BY <1>5, <1>7 DEF q


\* What is in force of a log settles records of the log.
LEMMA InForceIsClocked ==
    ASSUME NEW L, SoundLog(L), NEW types \in SUBSET Settling
    PROVE  Clocked(AllIds(L), InForce(L, types)) /\ \A ev \in InForce(L, types) : ev.type \in types
<1>1. InForce(L, types) \subseteq Range(L) /\ \A ev \in InForce(L, types) : ev.type \in types
  BY DEF InForce
<1>2. L \in Seq(Lines) /\ Len(L) \in Nat
  BY LenProperties DEF SoundLog
<1>3. \A ev \in Range(L) : ev \in Lines /\ ev.id <= Len(L)
  BY <1>2, RangeOfLog DEF SoundLog
<1>4. \A ev \in Range(L) : ev.type \in Settling => ev.of \in AllIds(L)
  BY DEF SoundLog, AllIds, OldIds, NativeIds, Natives, Natively
<1>5. \A a \in Range(L), b \in Range(L) : a.id = b.id => a = b
  BY DEF SoundLog
<1>6. QED
  BY <1>1, <1>2, <1>3, <1>4, <1>5 DEF Clocked

\* What the entity lines of a log make of its records.
Derived(L, a, e) ==
    /\ e \in [AllIds(L) -> Ents]
    /\ \A x \in AllIds(L) :
           /\ a[x].status \notin Live => e[x].status = a[x].status
           /\ a[x].status \in Live => e[x].status \in Live \cup {"retracted", "superseded"}
           /\ kind # "objective" => e[x].work = "open"
           /\ e[x].status \in Live => \A y \in AllIds(L) : e[y].once => x \notin e[y].links
    /\ \A ev \in Range(L) : ev.id \notin Annulled(L) =>
           /\ ev.type = "retracted" => ev.of \in AllIds(L) /\ e[ev.of].status \notin Live
           /\ ev.type \in {"done", "retired"} => ev.of \in AllIds(L) /\ e[ev.of].work # "open"

\* That is what the passes make of them.
LEMMA DeriveMeans ==
    ASSUME KindOK, NEW L, SoundLog(L), NEW m, m \in [OldIds(L) -> OldRecords]
    PROVE  Derived(L, MadeOf(L, m), DeriveEntities(L, m))
<1> DEFINE D == AllIds(L)
           C == InForce(L, {"confirmed"})
           R == InForce(L, {"retracted"})
           X == InForce(L, {"done", "retired"})
<1>1. PICK a : a = MadeOf(L, m)
  OBVIOUS
<1>2. a \in [D -> Ents] /\ \A x \in D : a[x].work = "open"
  BY <1>1, MadeMeans
<1>3. Clocked(D, C) /\ Clocked(D, R) /\ Clocked(D, X)
  BY InForceIsClocked DEF Settling
<1>4. /\ \A ev \in C : ev.type = "confirmed"
      /\ \A ev \in R : ev.type = "retracted"
      /\ \A ev \in X : ev.type \in {"done", "retired"}
  BY DEF InForce
<1>5. PICK b : b = Passed(a, C)
  OBVIOUS
<1>6. PICK c : c = Passed(b, R)
  OBVIOUS
<1>7. PICK d : d = Supersessions(c)
  OBVIOUS
<1>8. PICK e : e = Passed(d, X)
  OBVIOUS
<1>9. DeriveEntities(L, m) = e
  BY <1>1, <1>5, <1>6, <1>7, <1>8 DEF DeriveEntities
<1>10. \A ev \in Range(L) : ev.id \notin Annulled(L) =>
           /\ ev.type = "retracted" => ev \in R /\ ev.of \in D
           /\ ev.type \in {"done", "retired"} => ev \in X /\ ev.of \in D
  BY <1>3 DEF InForce, Clocked
<1>11. kind # "objective" => X = {}
  BY DEF InForce, SoundLog
<1> HIDE DEF D, C, R, X
<1>12. b \in [D -> Ents] /\ PassLeaves(D, C, a, b)
  BY <1>2, <1>3, <1>5, PassMeans DEF PassLeaves
<1>13. c \in [D -> Ents] /\ PassLeaves(D, R, b, c)
  BY <1>3, <1>6, <1>12, PassMeans DEF PassLeaves
<1>14. /\ d \in [D -> Ents]
       /\ \A x \in D :
              /\ d[x].links = c[x].links /\ d[x].once = c[x].once /\ d[x].work = c[x].work
              /\ c[x].status \notin Live => d[x].status = c[x].status
              /\ c[x].status \in Live => d[x].status \in {c[x].status, "superseded"}
              /\ d[x].status \in Live => \A y \in D : c[y].once => x \notin c[y].links
  BY <1>7, <1>13, SupersessionsMean
<1>15. e \in [D -> Ents] /\ PassLeaves(D, X, d, e)
  BY <1>3, <1>8, <1>14, PassMeans DEF PassLeaves
<1>16. \A x \in D : b[x].work = "open" /\ c[x].work = "open"
  BY <1>2, <1>4, <1>12, <1>13 DEF PassLeaves
<1>17. \A x \in D : e[x].status = d[x].status /\ e[x].once = d[x].once /\ e[x].links = d[x].links
  BY <1>4, <1>15 DEF PassLeaves, Onward
<1>18. "superseded" \notin Live /\ "retracted" \notin Live
  BY DEF Live
<1>19. ASSUME NEW x \in D
       PROVE  /\ a[x].status \notin Live => c[x].status = a[x].status
              /\ a[x].status \in Live => c[x].status \in Live \cup {"retracted"}
  <2>1. Onward(a[x], b[x]) /\ Onward(b[x], c[x])
    BY <1>12, <1>13 DEF PassLeaves
  <2>2. Onward(a[x], c[x])
    BY <2>1, OnwardTwice
  <2>3. QED
    BY <2>2 DEF Onward
<1>20. ASSUME NEW x \in D
       PROVE  /\ a[x].status \notin Live => e[x].status = a[x].status
              /\ a[x].status \in Live => e[x].status \in Live \cup {"retracted", "superseded"}
              /\ e[x].status \in Live => \A y \in D : e[y].once => x \notin e[y].links
  BY <1>14, <1>17, <1>18, <1>19
<1>21. ASSUME kind # "objective", NEW x \in D PROVE e[x].work = "open"
  <2>1. \A ev \in X : ev.type \notin {"done", "retired"}
    BY <1>11, <1>21
  <2>2. e[x].work = d[x].work
    BY <1>15, <2>1 DEF PassLeaves
  <2>3. QED
    BY <1>14, <1>16, <2>2
<1>22. ASSUME NEW ev \in R, ev.of \in D, ev.type = "retracted" PROVE e[ev.of].status \notin Live
  <2>1. c[ev.of].status \notin Live
    BY <1>13, <1>22 DEF PassLeaves, Closes
  <2>2. QED
    BY <1>14, <1>17, <1>22, <2>1
<1>23. ASSUME NEW ev \in X, ev.type \in {"done", "retired"} PROVE e[ev.of].work # "open"
  BY <1>15, <1>23 DEF PassLeaves, Closes
<1>24. Derived(L, a, e)
  BY <1>10, <1>15, <1>20, <1>21, <1>22, <1>23 DEF Derived, D
<1>25. QED
  BY <1>1, <1>9, <1>24

-----------------------------------------------------------------------------
(* The records read through both *)

\* A record the current lines made stands exactly if its entity is in force.
LEMMA NativeAgrees ==
    ASSUME KindOK, NEW a \in Ents
    PROVE  /\ Projected(a) \in Statuses
           /\ StandsIn(Projected(a)) <=> a.status \in Live /\ a.work = "open"
           /\ a.work = "open" => (Projected(a) = "superseded" <=> a.status = "superseded")
<1>1. /\ Stands \in {"confirmed", "current", "active"} /\ Withdrawn \in {"retracted", "dropped"}
      /\ ~StandsIn(Withdrawn) /\ StandsIn(Stands) /\ StandsIn("proposed")
      /\ \A s \in {"undone", "superseded", "reached", "dropped", "declined"} : ~StandsIn(s)
  BY KindWords DEF StandsIn, Stands, Withdrawn, KindOK
<1>2. CASE a.status # "undone" /\ a.work # "open"
  <2>1. Projected(a) \in {"reached", "dropped"}
    BY <1>2 DEF Projected, Finished
  <2>2. QED
    BY <1>1, <1>2, <2>1 DEF Statuses
<1>3. CASE ~(a.status # "undone" /\ a.work # "open")
  <2>1. CASE a.status \in {"undone", "superseded"}
    <3>1. Projected(a) = a.status
      BY <1>3, <2>1 DEF Projected
    <3>2. QED
      BY <1>1, <2>1, <3>1 DEF Live, Statuses
  <2>2. CASE a.status = "confirmed"
    <3>1. Projected(a) = Stands
      BY <1>3, <2>2 DEF Projected
    <3>2. QED
      BY <1>1, <1>3, <2>2, <3>1 DEF Live, Statuses
  <2>3. CASE a.status = "proposed"
    <3>1. Projected(a) \in {Stands, "proposed"}
      BY <1>3, <2>3 DEF Projected
    <3>2. QED
      BY <1>1, <1>3, <2>3, <3>1 DEF Live, Statuses
  <2>4. CASE a.status = "retracted"
    <3>1. Projected(a) \in {Withdrawn, "declined"}
      BY <1>3, <2>4 DEF Projected
    <3>2. QED
      BY <1>1, <2>4, <3>1 DEF Live, Statuses
  <2>5. QED
    BY <2>1, <2>2, <2>3, <2>4 DEF Ents
<1>4. QED
  BY <1>2, <1>3

\* One an older line made, if its statement stood to begin with.
LEMMA StatementAgrees ==
    ASSUME KindOK, NEW r \in OldRecords, NEW a \in Ents,
           StandsIn(r.status) => a.status \in Live \cup {"retracted", "superseded"},
           ~StandsIn(r.status) => a.status \notin Live /\ (a.status = "superseded" <=> r.status = "superseded")
    PROVE  /\ Synced(r, a) \in Statuses
           /\ StandsIn(Synced(r, a)) <=> a.status \in Live /\ a.work = "open"
           /\ a.work = "open" => (Synced(r, a) = "superseded" <=> a.status = "superseded")
           /\ ~StandsIn(r.status) => ~StandsIn(Synced(r, a))
<1>1. /\ Stands \in {"confirmed", "current", "active"} /\ Withdrawn \in {"retracted", "dropped"}
      /\ ~StandsIn(Withdrawn) /\ StandsIn(Stands) /\ StandsIn("proposed")
      /\ \A s \in {"undone", "superseded", "reached", "dropped", "declined"} : ~StandsIn(s)
      /\ r.status \in {"proposed", Stands} <=> StandsIn(r.status)
  BY KindWords DEF StandsIn, Stands, Withdrawn, KindOK
<1>2. CASE ~StandsIn(r.status)
  <2>1. Synced(r, a) = r.status
    BY <1>1, <1>2 DEF Synced
  <2>2. QED
    BY <1>2, <2>1 DEF OldRecords
<1>3. CASE StandsIn(r.status) /\ a.work # "open"
  <2>1. Synced(r, a) \in {"reached", "dropped"}
    BY <1>1, <1>3 DEF Synced, Finished
  <2>2. QED
    BY <1>1, <1>3, <2>1 DEF Statuses
<1>4. CASE StandsIn(r.status) /\ a.work = "open"
  <2>1. CASE a.status = "superseded"
    <3>1. Synced(r, a) = "superseded"
      BY <1>1, <1>4, <2>1 DEF Synced
    <3>2. QED
      BY <1>1, <1>4, <2>1, <3>1 DEF Live, Statuses
  <2>2. CASE a.status = "retracted"
    <3>1. Synced(r, a) \in {"declined", Withdrawn}
      BY <1>1, <1>4, <2>2 DEF Synced
    <3>2. QED
      BY <1>1, <1>4, <2>2, <3>1 DEF Live, Statuses
  <2>3. CASE a.status = "confirmed"
    <3>1. Synced(r, a) = Stands
      BY <1>1, <1>4, <2>3 DEF Synced
    <3>2. QED
      BY <1>1, <1>4, <2>3, <3>1 DEF Live, Statuses
  <2>4. CASE a.status = "proposed"
    <3>1. Synced(r, a) = r.status
      BY <1>1, <1>4, <2>4 DEF Synced
    <3>2. QED
      BY <1>1, <1>4, <2>4, <3>1 DEF Live, Statuses
  <2>5. QED
    BY <1>4, <2>1, <2>2, <2>3, <2>4 DEF Live
<1>5. QED
  BY <1>2, <1>3, <1>4

\* The records and the entities of a log, one by one: what stands is in force,
\* what is in force stands unless a record that never held was to replace it,
\* and none but an objective is replaced for the one and not for the other.
LEMMA ReadingMeans ==
    ASSUME KindOK, NEW L, SoundLog(L), NEW rec, rec = Readings(L).record, NEW e, e = Readings(L).entity
    PROVE  /\ DOMAIN rec = AllIds(L) /\ Derived(L, MadeOf(L, Statements(L)), e)
           /\ \A x \in AllIds(L) :
                  /\ StandsIn(rec[x].status) => e[x].status \in Live /\ e[x].work = "open"
                  /\ e[x].status \in Live /\ e[x].work = "open" =>
                         StandsIn(rec[x].status) \/ DisplacedUnheld(e, x)
                  /\ kind # "objective" => (rec[x].status = "superseded" <=> e[x].status = "superseded")
           /\ \A x \in OldIds(L) : ~StandsIn(Statements(L)[x].status) => ~StandsIn(rec[x].status)
<1>1. PICK m : m = Statements(L)
  OBVIOUS
<1>2. PICK a : a = MadeOf(L, m)
  OBVIOUS
<1>3. PICK b : b = BroughtBack(m, e)
  OBVIOUS
<1>4. e = DeriveEntities(L, m) /\ rec = SupersededObjectives(b)
  BY <1>1, <1>3 DEF Readings
<1>5. m \in [OldIds(L) -> OldRecords]
  BY <1>1, StatementsAre
<1>6. Derived(L, a, e)
  BY <1>2, <1>4, <1>5, DeriveMeans
<1>7. e \in [AllIds(L) -> Ents] /\ OldIds(L) \subseteq AllIds(L)
  BY <1>6 DEF Derived, AllIds
<1>8. ASSUME NEW x \in OldIds(L)
      PROVE  /\ Synced(m[x], e[x]) \in Statuses
             /\ StandsIn(Synced(m[x], e[x])) <=> e[x].status \in Live /\ e[x].work = "open"
             /\ e[x].work = "open" => (Synced(m[x], e[x]) = "superseded" <=> e[x].status = "superseded")
             /\ ~StandsIn(m[x].status) => ~StandsIn(Synced(m[x], e[x]))
  <2>1. PICK r \in OldRecords : r = m[x]
    BY <1>5
  <2>2. PICK q \in Ents : q = e[x]
    BY <1>7
  <2>3. a[x] = OfStatement(r)
    BY <1>2, <1>5, <2>1, MadeMeans
  <2>4. /\ a[x].status \in Live <=> StandsIn(r.status)
        /\ a[x].status = "superseded" <=> r.status = "superseded"
    BY <2>3, StatementAsEntity
  <2>5. /\ a[x].status \notin Live => q.status = a[x].status
        /\ a[x].status \in Live => q.status \in Live \cup {"retracted", "superseded"}
    BY <1>6, <1>7, <2>2 DEF Derived
  <2>6. /\ StandsIn(r.status) => q.status \in Live \cup {"retracted", "superseded"}
        /\ ~StandsIn(r.status) => q.status \notin Live /\ (q.status = "superseded" <=> r.status = "superseded")
    BY <2>4, <2>5
  <2>7. QED
    BY <2>1, <2>2, <2>6, StatementAgrees
<1>9. ASSUME NEW x \in AllIds(L)
      PROVE  /\ b[x].links = e[x].links /\ b[x] \in OldRecords
             /\ StandsIn(b[x].status) <=> e[x].status \in Live /\ e[x].work = "open"
             /\ e[x].work = "open" => (b[x].status = "superseded" <=> e[x].status = "superseded")
             /\ x \in OldIds(L) => b[x].status = Synced(m[x], e[x])
  <2>1. PICK q \in Ents : q = e[x]
    BY <1>7
  <2>2. PICK s : s = IF x \in OldIds(L) THEN Synced(m[x], q) ELSE Projected(q)
    OBVIOUS
  <2>3. b[x] = [status |-> s, links |-> q.links]
    BY <1>3, <1>5, <1>7, <2>1, <2>2 DEF BroughtBack
  <2>4. /\ s \in Statuses
        /\ StandsIn(s) <=> q.status \in Live /\ q.work = "open"
        /\ q.work = "open" => (s = "superseded" <=> q.status = "superseded")
    BY <1>8, <2>1, <2>2, NativeAgrees
  <2>5. q.links \in SUBSET Nat
    BY DEF Ents
  <2>6. b[x].links = q.links /\ b[x].status = s /\ b[x] \in OldRecords
    BY <2>3, <2>4, <2>5 DEF OldRecords
  <2>7. QED
    BY <2>1, <2>2, <2>4, <2>6
<1>10. b \in [AllIds(L) -> OldRecords]
  <2>1. DOMAIN b = AllIds(L) /\ b = [x \in AllIds(L) |-> b[x]]
    BY <1>3, <1>7 DEF BroughtBack
  <2>2. QED
    BY <1>9, <2>1
<1>11. /\ rec \in [AllIds(L) -> OldRecords]
       /\ kind # "objective" => rec = b
       /\ \A x \in AllIds(L) :
              \/ rec[x].status = b[x].status
              \/ rec[x].status = "superseded" /\ \E s \in AllIds(L) : x \in b[s].links
  BY <1>4, <1>10, DisplacedMeans
<1>12. ~StandsIn("superseded")
  BY KindWords DEF StandsIn
<1>13. ASSUME NEW x \in AllIds(L), StandsIn(rec[x].status)
       PROVE  e[x].status \in Live /\ e[x].work = "open"
  BY <1>9, <1>11, <1>12, <1>13
<1>14. ASSUME NEW x \in AllIds(L), e[x].status \in Live, e[x].work = "open", ~StandsIn(rec[x].status)
       PROVE  DisplacedUnheld(e, x)
  <2>1. StandsIn(b[x].status)
    BY <1>9, <1>14
  <2>2. kind = "objective" /\ \E s \in AllIds(L) : x \in b[s].links
    BY <1>11, <1>14, <2>1
  <2>3. PICK s \in AllIds(L) : x \in e[s].links
    BY <1>9, <2>2
  <2>4. ~e[s].once
    BY <1>6, <1>14, <2>3 DEF Derived
  <2>5. DOMAIN e = AllIds(L)
    BY <1>7
  <2>6. QED
    BY <2>2, <2>3, <2>4, <2>5 DEF DisplacedUnheld
<1>15. ASSUME kind # "objective", NEW x \in AllIds(L) PROVE rec[x].status = "superseded" <=> e[x].status = "superseded"
  <2>1. e[x].work = "open"
    BY <1>6, <1>15 DEF Derived
  <2>2. QED
    BY <1>9, <1>11, <1>15, <2>1
<1>16. ASSUME NEW x \in OldIds(L), ~StandsIn(m[x].status) PROVE ~StandsIn(rec[x].status)
  BY <1>7, <1>8, <1>9, <1>11, <1>12, <1>16
<1>17. DOMAIN rec = AllIds(L)
  BY <1>11
<1>18. QED
  BY <1>1, <1>2, <1>6, <1>13, <1>14, <1>15, <1>16, <1>17

-----------------------------------------------------------------------------
(* The log grows soundly *)

CutoverInv == kind \in Kinds /\ SoundLog(history)

\* A log with a line written into it has that line more.
LEMMA Inserted ==
    ASSUME NEW S, NEW s \in Seq(S), NEW at \in 1..(Len(s) + 1), NEW x \in S
    PROVE  /\ InsertAt(s, at, x) \in Seq(S) /\ Len(InsertAt(s, at, x)) = Len(s) + 1
           /\ Range(InsertAt(s, at, x)) = Range(s) \cup {x}
<1> DEFINE u == SubSeq(s, 1, at - 1)
           v == SubSeq(s, at, Len(s))
           w == InsertAt(s, at, x)
<1>1. Len(s) \in Nat /\ at \in Nat
  BY LenProperties
<1>2. /\ u \in Seq(S) /\ Len(u) = at - 1 /\ \A k \in 1..(at - 1) : u[k] = s[k]
      /\ v \in Seq(S) /\ Len(v) = Len(s) - at + 1 /\ \A k \in 1..(Len(s) - at + 1) : v[k] = s[at + k - 1]
  BY <1>1
<1>3. w = u \o <<x>> \o v
  BY DEF InsertAt
<1> HIDE DEF u, v, w
<1>4. w \in Seq(S) /\ Len(w) = Len(s) + 1
  BY <1>1, <1>2, <1>3
<1>5. /\ \A k \in 1..(at - 1) : w[k] = s[k]
      /\ w[at] = x
      /\ \A k \in (at + 1)..(Len(s) + 1) : w[k] = s[k - 1]
  <2> DEFINE p == u \o <<x>>
  <2>1. <<x>> \in Seq(S) /\ Len(<<x>>) = 1 /\ <<x>>[1] = x
    OBVIOUS
  <2>2. /\ p \in Seq(S) /\ Len(p) = at
        /\ \A k \in 1..at : p[k] = IF k <= at - 1 THEN s[k] ELSE x
    BY <1>1, <1>2, <2>1
  <2>3. w = p \o v
    BY <1>3
  <2> HIDE DEF p
  <2>4. \A k \in 1..(Len(s) + 1) : w[k] = IF k <= at THEN p[k] ELSE v[k - at]
    BY <1>1, <1>2, <2>2, <2>3
  <2>5. ASSUME NEW k \in 1..(at - 1) PROVE w[k] = s[k]
    BY <1>1, <2>2, <2>4
  <2>6. w[at] = x
    BY <1>1, <2>2, <2>4
  <2>7. ASSUME NEW k \in (at + 1)..(Len(s) + 1) PROVE w[k] = s[k - 1]
    <3>1. k \in 1..(Len(s) + 1) /\ ~(k <= at) /\ k - at \in 1..(Len(s) - at + 1)
          /\ at + (k - at) - 1 = k - 1
      BY <1>1
    <3>3. w[k] = v[k - at]
      BY <2>4, <3>1
    <3>2. QED
      BY <1>2, <3>1, <3>3
  <2>8. QED
    BY <2>5, <2>6, <2>7
<1>6. \A k \in 1..Len(s) : k \in 1..(at - 1) \/ (k + 1 \in (at + 1)..(Len(s) + 1) /\ (k + 1) - 1 = k)
  BY <1>1
<1>7. Range(s) = {s[k] : k \in 1..Len(s)} /\ Range(w) = {w[k] : k \in 1..(Len(s) + 1)}
  BY <1>4, RangeEquality DEF Range
<1>8. ASSUME NEW k \in 1..Len(s) PROVE \E j \in 1..(Len(s) + 1) : w[j] = s[k]
  <2>1. CASE k \in 1..(at - 1)
    BY <1>1, <1>5, <2>1
  <2>2. CASE k + 1 \in (at + 1)..(Len(s) + 1)
    <3>1. w[k + 1] = s[(k + 1) - 1] /\ (k + 1) - 1 = k /\ k + 1 \in 1..(Len(s) + 1)
      BY <1>1, <1>5, <2>2
    <3>2. QED
      BY <3>1
  <2>3. QED
    BY <1>6, <2>1, <2>2
<1>9. ASSUME NEW j \in 1..(Len(s) + 1), j # at PROVE \E k \in 1..Len(s) : w[j] = s[k]
  <2>1. CASE j < at
    BY <1>1, <1>5, <2>1
  <2>2. CASE j > at
    <3>1. j \in (at + 1)..(Len(s) + 1) /\ j - 1 \in 1..Len(s)
      BY <1>1, <2>2
    <3>2. QED
      BY <1>5, <3>1
  <2>3. QED
    BY <1>1, <1>9, <2>1, <2>2
<1>10. Range(w) = Range(s) \cup {x}
  <2>1. at \in 1..(Len(s) + 1)
    BY <1>1
  <2>2. QED
    <3>1. \A y \in Range(s) \cup {x} : y \in Range(w)
      BY <1>5, <1>7, <1>8, <2>1
    <3>2. \A y \in Range(w) : y \in Range(s) \cup {x}
      BY <1>5, <1>7, <1>9
    <3>3. QED
      BY <3>1, <3>2
<1>11. QED
  BY <1>4, <1>10 DEF w

\* What a line may be, of a log it is written to.
Fit(line) ==
    /\ line \in Lines /\ line.id = Len(history) + 1
    /\ line.type \in OldLinks => \E b \in Range(history) : b.type \in OldCreations /\ b.id = line.of
    /\ line.type \in Settling => \E b \in Range(history) : b.type \in OldCreations \cup Natively /\ b.id = line.of
    /\ line.type \in {"done", "retired"} => kind = "objective"

\* A line that is fit leaves the log sound.
LEMMA WriteKeeps ==
    ASSUME CutoverInv, NEW line, Fit(line), Write(line) PROVE CutoverInv'
<1>1. /\ history \in Seq(Lines) /\ Len(history) \in Nat /\ line \in Lines
  BY LenProperties DEF CutoverInv, SoundLog, Fit
<1>2. PICK at \in 1..(Len(history) + 1) : history' = InsertAt(history, at, line)
  BY DEF Write
<1>3. history' \in Seq(Lines) /\ Len(history') = Len(history) + 1 /\ Range(history') = Range(history) \cup {line}
  BY <1>1, <1>2, Inserted
<1>4. kind' = kind
  BY DEF Write
<1>5. /\ \A a \in Range(history) : a.id <= Len(history)
      /\ \A a \in Range(history), b \in Range(history) : a.id = b.id => a = b
      /\ \A a \in Range(history) : a \in Lines
  BY <1>1, RangeOfLog DEF CutoverInv, SoundLog
<1>6. line.id = Len(history) + 1
  BY DEF Fit
<1>7. \A a \in Range(history) \cup {line} : a.id <= Len(history) + 1
  BY <1>1, <1>5, <1>6 DEF Lines
<1>8. \A a \in Range(history) \cup {line}, b \in Range(history) \cup {line} : a.id = b.id => a = b
  <2>1. \A a \in Range(history) : a.id # line.id
    BY <1>1, <1>5, <1>6 DEF Lines
  <2>2. QED
    BY <1>5, <2>1
<1>9. /\ \A a \in Range(history) \cup {line} : a.type \in OldLinks =>
             \E b \in Range(history) \cup {line} : b.type \in OldCreations /\ b.id = a.of
      /\ \A a \in Range(history) \cup {line} : a.type \in Settling =>
             \E b \in Range(history) \cup {line} : b.type \in OldCreations \cup Natively /\ b.id = a.of
      /\ \A a \in Range(history) \cup {line} : a.type \in {"done", "retired"} => kind = "objective"
  BY DEF CutoverInv, SoundLog, Fit
<1>10. SoundLog(history)'
  BY <1>3, <1>4, <1>7, <1>8, <1>9 DEF SoundLog
<1>11. QED
  BY <1>4, <1>10 DEF CutoverInv

\* A line before it names anything.
LEMMA BlankLine ==
    ASSUME Len(history) \in Nat, NEW type,
           type \in OldCreations \cup OldLinks \cup Natively \cup Settling \cup {"annulled"}
    PROVE  Line(type) \in Lines /\ Line(type).type = type /\ Line(type).id = Len(history) + 1
<1>1. Line(type) = [id |-> Len(history) + 1, type |-> type, of |-> 0, replaces |-> {}, annuls |-> 0]
  BY DEF Line, NoLine
<1>2. Len(history) + 1 \in Nat \ {0}
  OBVIOUS
<1>3. QED
  BY <1>1, <1>2 DEF Lines

\* Every step writes a line that is fit.
LEMMA StepsKeepTheLog ==
    ASSUME CutoverInv, [CutoverNext]_cutoverVars PROVE CutoverInv'
<1>1. Len(history) \in Nat /\ \A a \in Range(history) : a \in Lines
  BY LenProperties, RangeOfLog DEF CutoverInv, SoundLog
<1>2. ASSUME NEW type \in OldCreations \cup Natively, NEW old \in SUBSET Nat
      PROVE  Fit([Line(type) EXCEPT !.replaces = old])
  <2> DEFINE line == [Line(type) EXCEPT !.replaces = old]
  <2>1. line = [id |-> Len(history) + 1, type |-> type, of |-> 0, replaces |-> old, annuls |-> 0]
    BY DEF Line, NoLine
  <2>2. type \notin OldLinks /\ type \notin Settling
    BY DEF OldCreations, Natively, OldLinks, Settling
  <2> HIDE DEF line
  <2>3. line \in Lines
    BY <1>1, <2>1 DEF Lines
  <2>4. line.type = type /\ line.id = Len(history) + 1
    BY <2>1
  <2>5. type \notin {"done", "retired"}
    BY <2>2 DEF Settling
  <2>6. Fit(line)
    BY <2>2, <2>3, <2>4, <2>5 DEF Fit
  <2>7. QED
    BY <2>6 DEF line
<1>3. ASSUME NEW type \in OldLinks \cup Settling, NEW id \in Nat,
             type \in {"done", "retired"} => kind = "objective",
             \E b \in Range(history) : b.type \in OldCreations \cup Natively /\ b.id = id,
             type \in OldLinks => \E b \in Range(history) : b.type \in OldCreations /\ b.id = id
      PROVE  Fit([Line(type) EXCEPT !.of = id])
  <2>1. PICK r \in Lines : r = Line(type) /\ r.type = type /\ r.id = Len(history) + 1
    BY <1>1, BlankLine
  <2> DEFINE line == [r EXCEPT !.of = id]
  <2>2. line \in Lines
    BY DEF Lines
  <2>3. line.type = type /\ line.id = Len(history) + 1 /\ line.of = id
    BY <2>1 DEF Lines
  <2> HIDE DEF line
  <2>4. Fit(line)
    BY <1>3, <2>2, <2>3 DEF Fit
  <2>5. QED
    BY <2>1, <2>4 DEF line
<1>4. Made \in SUBSET Nat /\ OldMade \in SUBSET Nat
  BY <1>1 DEF Made, OldMade, Lines
<1>5. CASE OldCreate
  <2>1. PICK type \in OldCreations, old \in {{}} \cup {{id} : id \in OldMade} :
            Write([Line(type) EXCEPT !.replaces = old])
    BY <1>5 DEF OldCreate, OldCreations
  <2>2. old \in SUBSET Nat
    BY <1>4
  <2>3. QED
    BY <1>2, <2>1, <2>2, WriteKeeps
<1>6. CASE OldLink
  <2>1. PICK type \in OldTypes, ev \in Range(history) :
            ev.type \in OldCreations /\ Write([Line(type) EXCEPT !.of = ev.id])
    BY <1>6 DEF OldLink, OldCreations
  <2>2. type \in OldLinks /\ ev.id \in Nat /\ type \notin {"done", "retired"}
    BY <1>1 DEF OldTypes, OldLinks, Lines
  <2>3. Fit([Line(type) EXCEPT !.of = ev.id])
    BY <1>3, <2>1, <2>2
  <2>4. QED
    BY <2>1, <2>3, WriteKeeps
<1>7. CASE Create
  <2>1. PICK type \in Natively, old \in {{}} \cup {{id} : id \in Made} :
            Write([Line(type) EXCEPT !.replaces = old])
    BY <1>7 DEF Create, Natively
  <2>2. old \in SUBSET Nat
    BY <1>4
  <2>3. QED
    BY <1>2, <2>1, <2>2, WriteKeeps
<1>8. CASE Settle
  <2>1. PICK type \in {"confirmed", "retracted"} \cup (IF kind = "objective" THEN {"done", "retired"} ELSE {}),
             id \in Made : Write([Line(type) EXCEPT !.of = id])
    BY <1>8 DEF Settle
  <2>2. type \in Settling /\ type \notin OldLinks /\ id \in Nat /\ (type \in {"done", "retired"} => kind = "objective")
    BY <1>4 DEF Settling, OldLinks
  <2>3. \E b \in Range(history) : b.type \in OldCreations \cup Natively /\ b.id = id
    BY DEF Made, OldCreations, Natively
  <2>4. Fit([Line(type) EXCEPT !.of = id])
    BY <1>3, <2>2, <2>3
  <2>5. QED
    BY <2>1, <2>4, WriteKeeps
<1>9. CASE Undo
  <2>1. PICK ev \in Range(history) : Write([Line("annulled") EXCEPT !.annuls = ev.id])
    BY <1>9 DEF Undo
  <2>2. ev.id \in Nat
    BY <1>1 DEF Lines
  <2>5. PICK r \in Lines : r = Line("annulled") /\ r.type = "annulled" /\ r.id = Len(history) + 1
    BY <1>1, BlankLine
  <2> DEFINE line == [r EXCEPT !.annuls = ev.id]
  <2>6. line \in Lines
    BY <2>2 DEF Lines
  <2>7. line.type = "annulled" /\ line.id = Len(history) + 1
    BY <2>5 DEF Lines
  <2> HIDE DEF line
  <2>8. Fit(line)
    BY <2>6, <2>7 DEF Fit, OldLinks, Settling
  <2>3. Fit([Line("annulled") EXCEPT !.annuls = ev.id])
    BY <2>5, <2>8 DEF line
  <2>4. QED
    BY <2>1, <2>3, WriteKeeps
<1>10. CASE UNCHANGED cutoverVars
  <2>1. history' = history /\ kind' = kind
    BY <1>10 DEF cutoverVars
  <2>2. QED
    BY <2>1 DEF CutoverInv, SoundLog
<1>11. QED
  BY <1>5, <1>6, <1>7, <1>8, <1>9, <1>10 DEF CutoverNext

\* A log begins sound.
LEMMA CutoverBegins == CutoverInit => CutoverInv
<1>1. <<>> \in Seq(Lines) /\ Range(<<>>) = {} /\ Len(<<>>) = 0
  BY DEF Range
<1>2. QED
  BY <1>1 DEF CutoverInit, CutoverInv, SoundLog

\* What the readings ask of the log.
LEMMA InvIsRead == ASSUME CutoverInv PROVE KindOK /\ SoundLog(history)
  BY CutoverAssumption DEF CutoverInv, KindOK

\* On a sound log the two readings agree.
LEMMA AgreementFollows == CutoverInv => ReadingsAgree
<1> SUFFICES ASSUME CutoverInv PROVE ReadingsAgree
  OBVIOUS
<1>1. PICK rec : rec = Readings(history).record
  OBVIOUS
<1>2. PICK e : e = Readings(history).entity
  OBVIOUS
<1>3. /\ DOMAIN rec = AllIds(history)
      /\ \A x \in AllIds(history) :
             /\ StandsIn(rec[x].status) => e[x].status \in Live /\ e[x].work = "open"
             /\ e[x].status \in Live /\ e[x].work = "open" =>
                    StandsIn(rec[x].status) \/ DisplacedUnheld(e, x)
             /\ kind # "objective" => (rec[x].status = "superseded" <=> e[x].status = "superseded")
  BY <1>1, <1>2, InvIsRead, ReadingMeans
<1>4. QED
  BY <1>1, <1>2, <1>3 DEF ReadingsAgree

\* And what was withdrawn is out.
LEMMA WithdrawalFollows == CutoverInv => WithdrawnIsOut
<1> SUFFICES ASSUME CutoverInv PROVE WithdrawnIsOut
  OBVIOUS
<1>1. PICK rec : rec = Readings(history).record
  OBVIOUS
<1>2. PICK e : e = Readings(history).entity
  OBVIOUS
<1>3. KindOK /\ SoundLog(history)
  BY InvIsRead
<1>4. /\ Derived(history, MadeOf(history, Statements(history)), e)
      /\ \A x \in AllIds(history) : StandsIn(rec[x].status) => e[x].status \in Live /\ e[x].work = "open"
      /\ \A x \in OldIds(history) : ~StandsIn(Statements(history)[x].status) => ~StandsIn(rec[x].status)
  BY <1>1, <1>2, <1>3, ReadingMeans
<1>5. ASSUME NEW ev \in Range(history), ev.type \in {"old retracted", "old reached"}
      PROVE  ~StandsIn(rec[ev.of].status)
  BY <1>3, <1>4, <1>5, StatementsAre
<1>6. ASSUME NEW ev \in Range(history), ev.id \notin Annulled(history), ev.type \in {"retracted", "done", "retired"}
      PROVE  ~StandsIn(rec[ev.of].status)
  BY <1>4, <1>6 DEF Derived
<1>7. QED
  BY <1>1, <1>5, <1>6 DEF WithdrawnIsOut

\* A log of two generations: who speaks of a record has its line beside it,
\* wherever a merge put either.
THEOREM LogStaysSound == CutoverSpec => []CutoverInv
<1>1. CutoverInv /\ [CutoverNext]_cutoverVars => CutoverInv'
  BY StepsKeepTheLog
<1>2. QED
  BY <1>1, CutoverBegins, PTL DEF CutoverSpec

\* The entities and the records of both generations say the same of what stands.
THEOREM BothReadingsAgree == CutoverSpec => []ReadingsAgree
<1>1. CutoverInv => ReadingsAgree
  BY AgreementFollows
<1>2. QED
  BY <1>1, LogStaysSound, PTL

\* What a line of either generation withdrew, closed or finished stands nowhere
\* the line is.
THEOREM WithdrawnStaysOut == CutoverSpec => []WithdrawnIsOut
<1>1. CutoverInv => WithdrawnIsOut
  BY WithdrawalFollows
<1>2. QED
  BY <1>1, LogStaysSound, PTL
=============================================================================
