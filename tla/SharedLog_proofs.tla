-------------------------- MODULE SharedLog_proofs --------------------------
(***************************************************************************)
(* What a store that clones share through git keeps.  First of what each   *)
(* clone makes of its log (EntityFold): for any number of clones and       *)
(* events, whatever their clocks, the passes of the fold come to what the  *)
(* events say taken together, nothing that went stands again, and an undo  *)
(* takes one event back and no more.  Then of the store itself (GitStore): *)
(* for any number of checkouts and sessions, where no session of a         *)
(* checkout writes while another syncs it, no recorded line is lost.       *)
(***************************************************************************)
EXTENDS EntityFold, GitStore, FiniteSetTheorems, SequenceTheorems, WellFoundedInduction, TLAPS

-----------------------------------------------------------------------------
(* Counting *)

\* Every non-empty set of naturals has a least element.
LEMMA LeastExists ==
    ASSUME NEW S \in SUBSET Nat, S # {}
    PROVE  \E x \in S : \A y \in S : x =< y
<1>1. PICK x \in S : \A y \in S : ~(<<y, x>> \in OpToRel(<, Nat))
  BY NatLessThanWellFounded, WFMin
<1>2. \A y \in S : ~(y < x)
  BY <1>1 DEF OpToRel
<1>3. QED
  BY <1>2

\* What is so at first, and at every tick it was so at the one before, is so at
\* the last: of the ticks it is not so at there would be a first.
LEMMA EveryTick ==
    ASSUME NEW n \in Nat, NEW Good \in SUBSET Nat, 0 \in Good,
           \A i \in 1..n : i - 1 \in Good => i \in Good
    PROVE  0..n \subseteq Good
<1> DEFINE bad == (0..n) \ Good
<1>1. SUFFICES ASSUME bad # {} PROVE FALSE
  OBVIOUS
<1>2. PICK m \in bad : \A k \in bad : m =< k
  <2>1. bad \in SUBSET Nat
    OBVIOUS
  <2> HIDE DEF bad
  <2>2. QED
    BY <1>1, <2>1, LeastExists
<1>3. m \in 1..n /\ m - 1 \in 0..n /\ m - 1 \notin bad
  BY <1>2
<1>4. QED
  BY <1>2, <1>3

\* A run of a number of steps from a value has its results one by one.
LEMMA RunExists ==
    ASSUME NEW T, NEW t \in T, NEW n \in Nat, NEW step \in [1..n -> [T -> T]]
    PROVE  \E f \in [0..n -> T] : f[0] = t /\ \A i \in 1..n : f[i] = step[i][f[i - 1]]
<1> DEFINE Runs(k) == \E f \in [0..k -> T] : f[0] = t /\ \A i \in 1..k : f[i] = step[i][f[i - 1]]
           Good == {k \in 0..n : Runs(k)}
<1>1. 0 \in Good
  <2> DEFINE g == [i \in 0..0 |-> t]
  <2>1. g \in [0..0 -> T] /\ g[0] = t /\ \A i \in 1..0 : g[i] = step[i][g[i - 1]]
    OBVIOUS
  <2> HIDE DEF g
  <2>2. QED
    BY <2>1
<1>2. ASSUME NEW i \in 1..n, i - 1 \in Good PROVE i \in Good
  <2>1. PICK f \in [0..(i - 1) -> T] :
            f[0] = t /\ \A j \in 1..(i - 1) : f[j] = step[j][f[j - 1]]
    BY <1>2
  <2> DEFINE g == [j \in 0..i |-> IF j = i THEN step[i][f[i - 1]] ELSE f[j]]
  <2>2. step[i] \in [T -> T] /\ f[i - 1] \in T
    OBVIOUS
  <2>3. g \in [0..i -> T]
    <3>1. ASSUME NEW j \in 0..i, j # i PROVE f[j] \in T
      <4>1. j \in 0..(i - 1)
        BY <3>1
      <4>2. QED
        BY <4>1
    <3>2. QED
      BY <2>2, <3>1
  <2>4. g[0] = t
    BY <2>1
  <2>5. ASSUME NEW j \in 1..i PROVE g[j] = step[j][g[j - 1]]
    <3>1. CASE j = i
      BY <3>1
    <3>2. CASE j # i
      BY <2>1, <3>2
    <3>3. QED
      BY <3>1, <3>2
  <2> HIDE DEF g
  <2>6. Runs(i)
    BY <2>3, <2>4, <2>5
  <2> HIDE DEF Runs
  <2>7. QED
    BY <2>6
<1>3. 0..n \subseteq Good
  <2>1. Good \in SUBSET Nat
    OBVIOUS
  <2> HIDE DEF Good
  <2>2. QED
    BY <1>1, <1>2, <2>1, EveryTick
<1>4. QED
  BY <1>3

-----------------------------------------------------------------------------
(* The records of a log, and the passes over them *)

Types == Creations \cup Executions \cup {"confirmed", "retracted", "annulled", "none"}
Events == [id : Nat, type : Types, entity : Nat, replaces : SUBSET Nat, annuls : Nat,
           narrow : BOOLEAN, by : Clones, ts : Nat]
Entities == [status : Statuses, confirmedOnce : BOOLEAN, links : SUBSET Nat, supersededBy : Nat,
             work : Works, claim : Clones \cup {Nobody}]

\* The id of an event is its own.
Numbered(E) == E \subseteq Events /\ \A x, y \in E : x.id = y.id => x = y

\* Every event of a set has a place of its own in the order of the fold.
LEMMA OrderedOf ==
    ASSUME NEW E, Numbered(E), IsFiniteSet(E)
    PROVE  Ordered(E) \in Seq(E) /\ Range(Ordered(E)) = E
<1> DEFINE upto(e) == {x \in E : ~After(x, e)}
           c == Cardinality(E)
           place(n) == CHOOSE e \in E : Place(E, e) = n
<1>1. c \in Nat
  BY FS_CardinalityType
<1>2. ASSUME NEW e \in E
      PROVE  upto(e) \in SUBSET E /\ e \in upto(e) /\ IsFiniteSet(upto(e)) /\ Place(E, e) \in 1..c
  <2>1. upto(e) \in SUBSET E /\ e \in upto(e)
    BY DEF After, Numbered, Events
  <2>2. IsFiniteSet(upto(e)) /\ Cardinality(upto(e)) <= c /\ Cardinality(upto(e)) \in Nat
    BY <2>1, FS_Subset, FS_CardinalityType
  <2>3. Cardinality(upto(e)) # 0
    BY <2>1, <2>2, FS_EmptySet
  <2>4. Place(E, e) = Cardinality(upto(e))
    BY DEF Place
  <2> HIDE DEF upto, c
  <2>5. QED
    BY <1>1, <2>1, <2>2, <2>3, <2>4
<1>3. ASSUME NEW d \in E, NEW e \in E, After(e, d) PROVE Place(E, d) < Place(E, e)
  <2>1. upto(d) \in SUBSET upto(e)
    BY <1>3 DEF After, Numbered, Events
  <2>2. e \in upto(e) /\ e \notin upto(d)
    BY <1>2, <1>3
  <2>3. Place(E, d) = Cardinality(upto(d)) /\ Place(E, e) = Cardinality(upto(e))
    BY DEF Place
  <2>4. IsFiniteSet(upto(d)) /\ IsFiniteSet(upto(e))
    BY <1>2
  <2> HIDE DEF upto
  <2>5. Cardinality(upto(d)) <= Cardinality(upto(e))
        /\ (Cardinality(upto(e)) = Cardinality(upto(d)) => upto(e) = upto(d))
    BY <2>1, <2>4, FS_Subset
  <2>6. Cardinality(upto(d)) \in Nat /\ Cardinality(upto(e)) \in Nat
    BY <2>4, FS_CardinalityType
  <2>7. QED
    BY <2>2, <2>3, <2>5, <2>6
<1>4. \A d, e \in E : Place(E, d) = Place(E, e) => d = e
  <2>1. ASSUME NEW d \in E, NEW e \in E, d # e PROVE After(d, e) \/ After(e, d)
    BY <2>1 DEF After, Numbered, Events
  <2> HIDE DEF c
  <2>2. ASSUME NEW d \in E PROVE Place(E, d) \in Nat
    <3>1. Place(E, d) \in 1..c
      BY <1>2
    <3>2. QED
      BY <1>1, <3>1
  <2>3. QED
    BY <1>3, <2>1, <2>2
<1>5. ASSUME NEW n \in 1..c PROVE place(n) \in E /\ Place(E, place(n)) = n
  <2> DEFINE f == [e \in E |-> Place(E, e)]
  <2>1. f \in [E -> 1..c] /\ \A d, e \in E : f[d] = f[e] => d = e
    BY <1>2, <1>4
  <2>2. \A e \in E : f[e] = Place(E, e)
    OBVIOUS
  <2> HIDE DEF f, c
  <2>3. f \in Injection(E, 1..c)
    BY <2>1 DEF Injection, IsInjective
  <2>4. IsFiniteSet(1..c) /\ Cardinality(1..c) = c
    BY <1>1, FS_Interval
  <2>5. f \in Surjection(E, 1..c)
    BY <2>3, <2>4, FS_Injection DEF c
  <2>6. \E e \in E : Place(E, e) = n
    BY <2>2, <2>5 DEF Surjection
  <2>7. QED
    BY <2>6
<1> DEFINE u == Ordered(E)
<1>6. u = [n \in 1..c |-> place(n)]
  BY DEF Ordered
<1> HIDE DEF u, c, place
<1>7. u \in [1..c -> E]
  BY <1>5, <1>6
<1>8. u \in Seq(E) /\ Len(u) = c
  BY <1>1, <1>6, <1>7, SeqDef
<1>9. Range(u) = {u[n] : n \in 1..c}
  BY <1>8, RangeEquality
<1>10. ASSUME NEW e \in E PROVE \E n \in 1..c : u[n] = e
  <2>1. Place(E, e) \in 1..c
    BY <1>2 DEF c
  <2>2. place(Place(E, e)) = e
    BY <1>4, <1>5, <2>1
  <2>3. QED
    BY <1>6, <2>1, <2>2
<1>11. QED
  BY <1>7, <1>8, <1>9, <1>10 DEF u

\* What one line makes of what those before it left.
SettledAt(x, ev) == CHOOSE u \in {Settle(r, e) : r \in {x}, e \in {ev}} : TRUE
SupersededAt(x, ev) == CHOOSE u \in {Supersede(r, e) : r \in {x}, e \in {ev}} : TRUE

LEMMA OneResult == ASSUME NEW x, NEW ev
    PROVE SettledAt(x, ev) = Settle(x, ev) /\ SupersededAt(x, ev) = Supersede(x, ev)
<1>1. {Settle(r, e) : r \in {x}, e \in {ev}} = {Settle(x, ev)}
      /\ {Supersede(r, e) : r \in {x}, e \in {ev}} = {Supersede(x, ev)}
  OBVIOUS
<1>2. QED
  BY <1>1 DEF SettledAt, SupersededAt

\* No transition makes a record, or takes one away.
LEMMA SettleType ==
    ASSUME NEW ids, NEW t \in [ids -> Entities], NEW ev \in Events
    PROVE  Settle(t, ev) \in [ids -> Entities]
<1>1. ASSUME NEW e \in ids PROVE t[e] \in Entities
  OBVIOUS
<1>2. Confirm(t, ev) \in [ids -> Entities]
  <2>1. CASE ev.entity \in ids /\ t[ev.entity].status = "proposed"
    <3>1. Confirm(t, ev) = [t EXCEPT ![ev.entity] =
              [t[ev.entity] EXCEPT !.status = "confirmed", !.confirmedOnce = TRUE]]
      BY <2>1 DEF Confirm
    <3>2. [t[ev.entity] EXCEPT !.status = "confirmed", !.confirmedOnce = TRUE] \in Entities
      <4> DEFINE x == t[ev.entity]
      <4>1. x \in Entities
        BY <1>1, <2>1
      <4> HIDE DEF x
      <4>2. [x EXCEPT !.status = "confirmed", !.confirmedOnce = TRUE] \in Entities
        BY <4>1 DEF Entities, Statuses
      <4>3. QED
        BY <4>2 DEF x
    <3>3. QED
      BY <3>1, <3>2
  <2>2. QED
    BY <2>1 DEF Confirm
<1>3. Retract(t, ev) \in [ids -> Entities]
  BY <1>1 DEF Retract, Entities, Statuses
<1>4. Execute(t, ev) \in [ids -> Entities]
  <2>1. ASSUME NEW w \in Works PROVE NextExecution(w, ev.type) \in Works
    BY DEF NextExecution, Works, Terminal
  <2>2. ev.by \in Clones
    BY DEF Events
  <2>3. CASE ev.entity \in ids /\ t[ev.entity].work \notin Terminal
    <3> DEFINE x == t[ev.entity]
               y == [x EXCEPT !.work = NextExecution(@, ev.type),
                              !.claim = IF ev.type = "started" THEN ev.by ELSE @]
    <3>1. Execute(t, ev) = [t EXCEPT ![ev.entity] = y]
      BY <2>3 DEF Execute
    <3>2. x \in Entities
      BY <1>1, <2>3
    <3>3. y \in Entities
      BY <2>1, <2>2, <3>2 DEF Entities
    <3>4. QED
      BY <3>1, <3>3
  <2>4. QED
    BY <2>3 DEF Execute
<1>5. QED
  BY <1>2, <1>3, <1>4 DEF Settle

\* Which record takes what from which.
LEMMA ReplaceIs ==
    ASSUME NEW ids, NEW t \in [ids -> Entities], NEW s \in ids, s \in Nat
    PROVE  /\ Replace(t, s) \in [ids -> Entities]
           /\ \A e \in ids : Replace(t, s)[e] =
                  IF e \in t[s].links /\ t[e].status \in Live
                  THEN [t[e] EXCEPT !.status = "superseded", !.supersededBy = s] ELSE t[e]
<1>1. ASSUME NEW e \in ids PROVE [t[e] EXCEPT !.status = "superseded", !.supersededBy = s] \in Entities
  <2> DEFINE x == t[e]
  <2>1. x \in Entities
    OBVIOUS
  <2> HIDE DEF x
  <2>2. [x EXCEPT !.status = "superseded", !.supersededBy = s] \in Entities
    BY <2>1 DEF Entities, Statuses
  <2>3. QED
    BY <2>2 DEF x
<1>2. QED
  BY <1>1 DEF Replace

LEMMA SupersedeType ==
    ASSUME NEW ids \in SUBSET Nat, NEW t \in [ids -> Entities], NEW ev \in Events,
           ev.type \in Creations => ev.id \in ids
    PROVE  Supersede(t, ev) \in [ids -> Entities]
BY ReplaceIs DEF Supersede

-----------------------------------------------------------------------------
(* A pass, line by line *)

SettleRuns(ids, t, s) ==
    \E after \in [0..Len(s) -> [ids -> Entities]] :
        /\ after[0] = t
        /\ \A n \in 1..Len(s) : after[n] = Settle(after[n - 1], s[n])
        /\ SettleAll(t, s) = after[Len(s)]

\* The pass over the collected transitions of one kind.
LEMMA SettledInTurn ==
    ASSUME NEW ids, NEW t, t \in [ids -> Entities], NEW s \in Seq(Events)
    PROVE  SettleRuns(ids, t, s)
<1> DEFINE T == [ids -> Entities]
           last == Len(s)
           step == [n \in 1..last |-> [x \in T |-> Settle(x, s[n])]]
           Says0(g) == g = [n \in 0..last |-> IF n = 0 THEN t ELSE SettledAt(g[n - 1], s[n])]
<1>1. last \in Nat /\ \A n \in 1..last : s[n] \in Events
  BY LenProperties, ElementOfSeq
<1>2. step \in [1..last -> [T -> T]]
  BY <1>1, SettleType
<1> HIDE DEF T, last
<1>3. PICK f \in [0..last -> T] : f[0] = t /\ \A n \in 1..last : f[n] = Settle(f[n - 1], s[n])
  <2> HIDE DEF step
  <2>1. t \in T
    BY DEF T
  <2>2. last \in Nat /\ step \in [1..last -> [T -> T]]
    BY <1>1, <1>2
  <2>3. PICK f \in [0..last -> T] : f[0] = t /\ \A n \in 1..last : f[n] = step[n][f[n - 1]]
    <3>1. \A r \in T : \E f \in [0..last -> T] : f[0] = r /\ \A n \in 1..last : f[n] = step[n][f[n - 1]]
      BY ONLY <2>2, RunExists
    <3>2. QED
      BY ONLY <2>1, <3>1
  <2>4. ASSUME NEW n \in 1..last PROVE f[n] = Settle(f[n - 1], s[n])
    <3>1. n - 1 \in 0..last
      BY <1>1
    <3>2. f[n - 1] \in T
      BY <3>1
    <3>3. step[n][f[n - 1]] = Settle(f[n - 1], s[n])
      BY <3>2 DEF step
    <3>4. QED
      BY <2>3, <3>3
  <2>5. QED
    BY <2>3, <2>4
<1>4. Says0(f)
  <2>1. ASSUME NEW n \in 0..last PROVE f[n] = IF n = 0 THEN t ELSE SettledAt(f[n - 1], s[n])
    <3>1. n = 0 \/ n \in 1..last
      BY <1>1
    <3>2. QED
      BY <1>3, <3>1, OneResult
  <2>2. QED
    BY <2>1
<1> DEFINE g == CHOOSE h : Says0(h)
<1>5. Says0(g)
  <2> HIDE DEF Says0
  <2>1. QED
    BY <1>4
<1>6. SettleAll(t, s) = g[last]
  BY DEF SettleAll, InTurn, SettledAt, last
<1> HIDE DEF g
<1>7. DOMAIN g = 0..last /\ \A n \in 0..last : g[n] = IF n = 0 THEN t ELSE SettledAt(g[n - 1], s[n])
  BY <1>5
<1>8. \A n \in 0..last : g[n] = f[n]
  <2> DEFINE good == {n \in 0..last : g[n] = f[n]}
  <2>1. 0 \in good /\ good \in SUBSET Nat
    BY <1>1, <1>3, <1>7
  <2>2. ASSUME NEW n \in 1..last, n - 1 \in good PROVE n \in good
    <3>1. n \in 0..last /\ n # 0
      BY <1>1
    <3>2. g[n] = Settle(g[n - 1], s[n])
      BY <1>7, <3>1, OneResult
    <3>3. QED
      BY <1>3, <2>2, <3>1, <3>2
  <2>3. 0..last \subseteq good
    <3> HIDE DEF good
    <3>1. QED
      BY <1>1, <2>1, <2>2, EveryTick
  <2>4. QED
    BY <2>3
<1>9. SettleAll(t, s) = f[last]
  BY <1>1, <1>6, <1>8
<1>10. QED
  BY <1>3, <1>9 DEF T, last, SettleRuns

SupersedeRuns(ids, t, s) ==
    \E after \in [0..Len(s) -> [ids -> Entities]] :
        /\ after[0] = t
        /\ \A n \in 1..Len(s) : after[n] = Supersede(after[n - 1], s[n])
        /\ ApplySupersessions(s, t) = after[Len(s)]

\* The pass over the lines that create a record, each with what it replaces.
LEMMA SupersededInTurn ==
    ASSUME NEW ids, ids \in SUBSET Nat, NEW t, t \in [ids -> Entities], NEW s \in Seq(Events),
           \A n \in 1..Len(s) : s[n].type \in Creations => s[n].id \in ids
    PROVE  SupersedeRuns(ids, t, s)
<1> DEFINE T == [ids -> Entities]
           last == Len(s)
           step == [n \in 1..last |-> [x \in T |-> Supersede(x, s[n])]]
           Says0(g) == g = [n \in 0..last |-> IF n = 0 THEN t ELSE SupersededAt(g[n - 1], s[n])]
<1>1. last \in Nat /\ \A n \in 1..last : s[n] \in Events
  BY LenProperties, ElementOfSeq
<1>2. step \in [1..last -> [T -> T]]
  BY <1>1, SupersedeType
<1> HIDE DEF T, last
<1>3. PICK f \in [0..last -> T] : f[0] = t /\ \A n \in 1..last : f[n] = Supersede(f[n - 1], s[n])
  <2> HIDE DEF step
  <2>1. t \in T
    BY DEF T
  <2>2. last \in Nat /\ step \in [1..last -> [T -> T]]
    BY <1>1, <1>2
  <2>3. PICK f \in [0..last -> T] : f[0] = t /\ \A n \in 1..last : f[n] = step[n][f[n - 1]]
    <3>1. \A r \in T : \E f \in [0..last -> T] : f[0] = r /\ \A n \in 1..last : f[n] = step[n][f[n - 1]]
      BY ONLY <2>2, RunExists
    <3>2. QED
      BY ONLY <2>1, <3>1
  <2>4. ASSUME NEW n \in 1..last PROVE f[n] = Supersede(f[n - 1], s[n])
    <3>1. n - 1 \in 0..last
      BY <1>1
    <3>2. f[n - 1] \in T
      BY <3>1
    <3>3. step[n][f[n - 1]] = Supersede(f[n - 1], s[n])
      BY <3>2 DEF step
    <3>4. QED
      BY <2>3, <3>3
  <2>5. QED
    BY <2>3, <2>4
<1>4. Says0(f)
  <2>1. ASSUME NEW n \in 0..last PROVE f[n] = IF n = 0 THEN t ELSE SupersededAt(f[n - 1], s[n])
    <3>1. n = 0 \/ n \in 1..last
      BY <1>1
    <3>2. QED
      BY <1>3, <3>1, OneResult
  <2>2. QED
    BY <2>1
<1> DEFINE g == CHOOSE h : Says0(h)
<1>5. Says0(g)
  <2> HIDE DEF Says0
  <2>1. QED
    BY <1>4
<1>6. ApplySupersessions(s, t) = g[last]
  BY DEF ApplySupersessions, InTurn, SupersededAt, last
<1> HIDE DEF g
<1>7. DOMAIN g = 0..last /\ \A n \in 0..last : g[n] = IF n = 0 THEN t ELSE SupersededAt(g[n - 1], s[n])
  BY <1>5
<1>8. \A n \in 0..last : g[n] = f[n]
  <2> DEFINE good == {n \in 0..last : g[n] = f[n]}
  <2>1. 0 \in good /\ good \in SUBSET Nat
    BY <1>1, <1>3, <1>7
  <2>2. ASSUME NEW n \in 1..last, n - 1 \in good PROVE n \in good
    <3>1. n \in 0..last /\ n # 0
      BY <1>1
    <3>2. g[n] = Supersede(g[n - 1], s[n])
      BY <1>7, <3>1, OneResult
    <3>3. QED
      BY <1>3, <2>2, <3>1, <3>2
  <2>3. 0..last \subseteq good
    <3> HIDE DEF good
    <3>1. QED
      BY <1>1, <2>1, <2>2, EveryTick
  <2>4. QED
    BY <2>3
<1>9. ApplySupersessions(s, t) = f[last]
  BY <1>1, <1>6, <1>8
<1>10. QED
  BY <1>3, <1>9 DEF T, last, SupersedeRuns

-----------------------------------------------------------------------------
(* What each pass comes to *)

\* The events of a log are finitely many.
LEMMA LogIsFinite ==
    ASSUME NEW S, NEW L \in Seq(S)
    PROVE  /\ IsFiniteSet(Range(L)) /\ Len(L) \in Nat /\ Range(L) \subseteq S
           /\ Range(L) = {L[n] : n \in 1..Len(L)}
<1> DEFINE n == Len(L)
           f == [i \in 1..n |-> L[i]]
<1>1. n \in Nat /\ Range(L) = {L[i] : i \in 1..n}
  BY LenProperties, RangeEquality
<1>2. f \in Surjection(1..n, Range(L))
  <2>1. f \in [1..n -> Range(L)] /\ \A e \in Range(L) : \E i \in 1..n : f[i] = e
    BY <1>1
  <2> HIDE DEF f, n
  <2>2. QED
    BY <2>1 DEF Surjection
<1>3. IsFiniteSet(1..n)
  BY <1>1, FS_Interval
<1> HIDE DEF f
<1>4. IsFiniteSet(Range(L))
  BY <1>2, <1>3, FS_Surjection
<1>5. QED
  BY <1>1, <1>4, ElementOfSeq

\* What of a log stands is settled one event after another.
LEMMA Collected ==
    ASSUME NEW L \in Seq(Events), Numbered(Range(L)), NEW types
    PROVE  LET s == Ordered(Standing(L, types)) IN
           /\ s \in Seq(Events) /\ Len(s) \in Nat
           /\ \A n \in 1..Len(s) : s[n] \in Standing(L, types) /\ s[n] \in Events
           /\ \A ev \in Standing(L, types) : \E n \in 1..Len(s) : s[n] = ev
<1> DEFINE E == Standing(L, types)
           s == Ordered(E)
<1>1. E \in SUBSET Range(L) /\ E \subseteq Events
  BY DEF Standing, Numbered
<1>2. Numbered(E) /\ IsFiniteSet(E)
  <2>1. IsFiniteSet(Range(L))
    BY LogIsFinite
  <2>2. QED
    BY <1>1, <2>1, FS_Subset DEF Numbered
<1> HIDE DEF E
<1>3. s \in Seq(E) /\ Range(s) = E
  BY <1>2, OrderedOf
<1> HIDE DEF s
<1>4. s \in Seq(Events) /\ Len(s) \in Nat /\ Range(s) = {s[n] : n \in 1..Len(s)}
  BY <1>1, <1>3, SeqMonotonic, LogIsFinite
<1>5. QED
  BY <1>1, <1>3, <1>4 DEF s, E

\* applyConfirms: the proposals an acceptance that stands answers.
LEMMA ConfirmsMean ==
    ASSUME NEW L \in Seq(Events), Numbered(Range(L)), NEW ids, NEW t, t \in [ids -> Entities]
    PROVE  /\ ApplyConfirms(L, t) \in [ids -> Entities]
           /\ \A e \in ids : ApplyConfirms(L, t)[e] =
                  IF t[e].status = "proposed" /\ Says(L, "confirmed", e)
                  THEN [t[e] EXCEPT !.status = "confirmed", !.confirmedOnce = TRUE] ELSE t[e]
<1> DEFINE E == Standing(L, {"confirmed"})
           s == Ordered(E)
<1>1. /\ s \in Seq(Events) /\ Len(s) \in Nat
      /\ \A n \in 1..Len(s) : s[n] \in E /\ s[n] \in Events
      /\ \A ev \in E : \E n \in 1..Len(s) : s[n] = ev
  BY Collected
<1>2. PICK f \in [0..Len(s) -> [ids -> Entities]] :
          /\ f[0] = t
          /\ \A n \in 1..Len(s) : f[n] = Settle(f[n - 1], s[n])
          /\ SettleAll(t, s) = f[Len(s)]
  <2>1. SettleRuns(ids, t, s)
    <3> HIDE DEF s
    <3>1. QED
      BY <1>1, SettledInTurn
  <2>2. QED
    BY <2>1 DEF SettleRuns
<1>3. ApplyConfirms(L, t) = f[Len(s)]
  BY <1>2 DEF ApplyConfirms
<1>4. \A e : Says(L, "confirmed", e) <=> \E n \in 1..Len(s) : s[n].entity = e
  BY <1>1 DEF Says, Standers, Standing
<1>5. \A n \in 1..Len(s) : s[n].type = "confirmed"
  BY <1>1 DEF Standing
<1> HIDE DEF E, s
<1>6. ASSUME NEW e \in ids
      PROVE  f[Len(s)][e] = IF t[e].status = "proposed" /\ Says(L, "confirmed", e)
                  THEN [t[e] EXCEPT !.status = "confirmed", !.confirmedOnce = TRUE] ELSE t[e]
  <2> DEFINE now(n) == IF t[e].status = "proposed" /\ \E i \in 1..n : s[i].entity = e
                       THEN [t[e] EXCEPT !.status = "confirmed", !.confirmedOnce = TRUE] ELSE t[e]
             good == {n \in 0..Len(s) : f[n][e] = now(n)}
  <2>1. 0 \in good /\ good \in SUBSET Nat
    BY <1>1, <1>2
  <2>2. ASSUME NEW n \in 1..Len(s), n - 1 \in good PROVE n \in good
    <3>1. n \in 0..Len(s) /\ n - 1 \in 0..Len(s)
      BY <1>1
    <3> DEFINE x == f[n - 1]
    <3>2. x \in [ids -> Entities] /\ f[n] = Confirm(x, s[n]) /\ x[e] = now(n - 1)
      BY <1>2, <1>5, <2>2, <3>1 DEF Settle
    <3>3. (\E i \in 1..n : s[i].entity = e) <=> s[n].entity = e \/ \E i \in 1..(n - 1) : s[i].entity = e
      BY <1>1
    <3>4. t[e] \in Entities
      BY <1>2
    <3> HIDE DEF x
    <3>5. Confirm(x, s[n])[e] = IF s[n].entity = e /\ x[e].status = "proposed"
              THEN [x[e] EXCEPT !.status = "confirmed", !.confirmedOnce = TRUE] ELSE x[e]
      <4>1. x[e] \in Entities
        BY <3>2
      <4>2. QED
        BY <3>2, <4>1 DEF Confirm, Entities
    <3>6. now(n - 1).status = "proposed" => now(n - 1) = t[e]
      BY <3>4 DEF Entities
    <3>7. f[n][e] = now(n)
      BY <3>2, <3>3, <3>4, <3>5, <3>6 DEF Entities
    <3>8. QED
      BY <3>1, <3>7
  <2>3. 0..Len(s) \subseteq good
    <3> HIDE DEF good
    <3>1. QED
      BY <1>1, <2>1, <2>2, EveryTick
  <2> HIDE DEF now
  <2>4. f[Len(s)][e] = now(Len(s))
    BY <1>1, <2>3
  <2> USE DEF now
  <2>5. QED
    BY <1>4, <2>4
<1>7. Len(s) \in 0..Len(s)
  BY <1>1
<1>8. ApplyConfirms(L, t) \in [ids -> Entities]
  BY <1>2, <1>3, <1>7
<1>9. QED
  BY <1>3, <1>6, <1>8

\* applyRetractions: what is live and withdrawn.
LEMMA RetractionsMean ==
    ASSUME NEW L \in Seq(Events), Numbered(Range(L)), NEW ids, NEW t, t \in [ids -> Entities]
    PROVE  /\ ApplyRetractions(L, t) \in [ids -> Entities]
           /\ \A e \in ids : ApplyRetractions(L, t)[e] =
                  IF t[e].status \in Live /\ Says(L, "retracted", e)
                  THEN [t[e] EXCEPT !.status = "retracted"] ELSE t[e]
<1> DEFINE E == Standing(L, {"retracted"})
           s == Ordered(E)
<1>1. /\ s \in Seq(Events) /\ Len(s) \in Nat
      /\ \A n \in 1..Len(s) : s[n] \in E /\ s[n] \in Events
      /\ \A ev \in E : \E n \in 1..Len(s) : s[n] = ev
  BY Collected
<1>2. PICK f \in [0..Len(s) -> [ids -> Entities]] :
          /\ f[0] = t
          /\ \A n \in 1..Len(s) : f[n] = Settle(f[n - 1], s[n])
          /\ SettleAll(t, s) = f[Len(s)]
  <2>1. SettleRuns(ids, t, s)
    <3> HIDE DEF s
    <3>1. QED
      BY <1>1, SettledInTurn
  <2>2. QED
    BY <2>1 DEF SettleRuns
<1>3. ApplyRetractions(L, t) = f[Len(s)]
  BY <1>2 DEF ApplyRetractions
<1>4. \A e : Says(L, "retracted", e) <=> \E n \in 1..Len(s) : s[n].entity = e
  BY <1>1 DEF Says, Standers, Standing
<1>5. \A n \in 1..Len(s) : s[n].type = "retracted"
  BY <1>1 DEF Standing
<1> HIDE DEF E, s
<1>6. ASSUME NEW e \in ids
      PROVE  f[Len(s)][e] = IF t[e].status \in Live /\ Says(L, "retracted", e)
                  THEN [t[e] EXCEPT !.status = "retracted"] ELSE t[e]
  <2> DEFINE now(n) == IF t[e].status \in Live /\ \E i \in 1..n : s[i].entity = e
                       THEN [t[e] EXCEPT !.status = "retracted"] ELSE t[e]
             good == {n \in 0..Len(s) : f[n][e] = now(n)}
  <2>1. 0 \in good /\ good \in SUBSET Nat
    BY <1>1, <1>2
  <2>2. ASSUME NEW n \in 1..Len(s), n - 1 \in good PROVE n \in good
    <3>1. n \in 0..Len(s) /\ n - 1 \in 0..Len(s)
      BY <1>1
    <3> DEFINE x == f[n - 1]
    <3>2. x \in [ids -> Entities] /\ f[n] = Retract(x, s[n]) /\ x[e] = now(n - 1)
      BY <1>2, <1>5, <2>2, <3>1 DEF Settle
    <3>3. (\E i \in 1..n : s[i].entity = e) <=> s[n].entity = e \/ \E i \in 1..(n - 1) : s[i].entity = e
      BY <1>1
    <3>4. t[e] \in Entities
      BY <1>2
    <3> HIDE DEF x
    <3>5. Retract(x, s[n])[e] = IF s[n].entity = e /\ x[e].status \in Live
              THEN [x[e] EXCEPT !.status = "retracted"] ELSE x[e]
      <4>1. x[e] \in Entities
        BY <3>2
      <4>2. QED
        BY <3>2, <4>1 DEF Retract, Entities
    <3>6. now(n - 1).status \in Live => now(n - 1) = t[e]
      BY <3>4 DEF Entities, Live
    <3>7. f[n][e] = now(n)
      BY <3>2, <3>3, <3>4, <3>5, <3>6 DEF Entities, Live
    <3>8. QED
      BY <3>1, <3>7
  <2>3. 0..Len(s) \subseteq good
    <3> HIDE DEF good
    <3>1. QED
      BY <1>1, <2>1, <2>2, EveryTick
  <2> HIDE DEF now
  <2>4. f[Len(s)][e] = now(Len(s))
    BY <1>1, <2>3
  <2> USE DEF now
  <2>5. QED
    BY <1>4, <2>4
<1>7. Len(s) \in 0..Len(s)
  BY <1>1
<1>8. ApplyRetractions(L, t) \in [ids -> Entities]
  BY <1>2, <1>3, <1>7
<1>9. QED
  BY <1>3, <1>6, <1>8

\* Which records replace e, as the table t has them.
Replacers(L, t, e) == {ev \in CreatedBy(L) : t[ev.id].confirmedOnce /\ e \in t[ev.id].links}

\* applySupersessions: what is live and named by a record that once held.
LEMMA SupersessionsMean ==
    ASSUME NEW L \in Seq(Events), NEW ids, ids \in SUBSET Nat, NEW t, t \in [ids -> Entities],
           \A ev \in CreatedBy(L) : ev.id \in ids
    PROVE  /\ ApplySupersessions(L, t) \in [ids -> Entities]
           /\ \A e \in ids :
                  /\ ApplySupersessions(L, t)[e].status =
                         IF t[e].status \in Live /\ Replacers(L, t, e) # {} THEN "superseded" ELSE t[e].status
                  /\ ApplySupersessions(L, t)[e].work = t[e].work
                  /\ ApplySupersessions(L, t)[e].confirmedOnce = t[e].confirmedOnce
<1> DEFINE last == Len(L)
<1>1. /\ last \in Nat /\ \A n \in 1..last : L[n] \in Events /\ L[n].id \in Nat
      /\ Range(L) = {L[n] : n \in 1..last}
  <2>1. last \in Nat /\ \A n \in 1..last : L[n] \in Events
    BY LenProperties, ElementOfSeq
  <2>2. QED
    <3>1. Range(L) = {L[n] : n \in 1..last}
      BY LogIsFinite
    <3>2. \A ev \in Events : ev.id \in Nat
      BY DEF Events
    <3>3. QED
      BY <2>1, <3>1, <3>2
<1>2. \A n \in 1..last : L[n].type \in Creations <=> L[n] \in CreatedBy(L)
  BY <1>1 DEF CreatedBy
<1>3. PICK f \in [0..last -> [ids -> Entities]] :
          /\ f[0] = t
          /\ \A n \in 1..last : f[n] = Supersede(f[n - 1], L[n])
          /\ ApplySupersessions(L, t) = f[last]
  <2>1. \A n \in 1..Len(L) : L[n].type \in Creations => L[n].id \in ids
    BY <1>2
  <2>2. SupersedeRuns(ids, t, L)
    BY <2>1, SupersededInTurn
  <2>3. QED
    BY <2>2 DEF SupersedeRuns
<1>4. \A e : Replacers(L, t, e) # {} <=>
          \E n \in 1..last : L[n].type \in Creations /\ t[L[n].id].confirmedOnce /\ e \in t[L[n].id].links
  BY <1>1 DEF Replacers, CreatedBy
<1> HIDE DEF last
<1>5. ASSUME NEW n \in 1..last
      PROVE  /\ n \in 0..last /\ n - 1 \in 0..last /\ f[n] \in [ids -> Entities] /\ f[n - 1] \in [ids -> Entities]
             /\ \A e \in ids : f[n][e] =
                    IF /\ L[n].type \in Creations /\ f[n - 1][L[n].id].confirmedOnce
                       /\ e \in f[n - 1][L[n].id].links /\ f[n - 1][e].status \in Live
                    THEN [f[n - 1][e] EXCEPT !.status = "superseded", !.supersededBy = L[n].id]
                    ELSE f[n - 1][e]
  <2>1. n \in 0..last /\ n - 1 \in 0..last
    BY <1>1
  <2>2. PICK x \in [ids -> Entities] : x = f[n - 1]
    BY <2>1
  <2>3. f[n] = Supersede(x, L[n]) /\ (L[n].type \in Creations => L[n].id \in ids /\ L[n].id \in Nat)
    BY <1>1, <1>2, <1>3, <2>2
  <2>4. QED
    <3>1. CASE L[n].type \in Creations /\ x[L[n].id].confirmedOnce
      <4>1. f[n] = Replace(x, L[n].id)
        BY <2>3, <3>1 DEF Supersede
      <4>2. \A r \in [ids -> Entities] : \A k \in ids : k \in Nat =>
                /\ Replace(r, k) \in [ids -> Entities]
                /\ \A e \in ids : Replace(r, k)[e] =
                       IF e \in r[k].links /\ r[e].status \in Live
                       THEN [r[e] EXCEPT !.status = "superseded", !.supersededBy = k] ELSE r[e]
        BY ReplaceIs
      <4>3. PICK k \in ids : k = L[n].id /\ k \in Nat
        BY <2>3, <3>1
      <4>4. /\ Replace(x, k) \in [ids -> Entities]
            /\ \A e \in ids : Replace(x, k)[e] =
                   IF e \in x[k].links /\ x[e].status \in Live
                   THEN [x[e] EXCEPT !.status = "superseded", !.supersededBy = k] ELSE x[e]
        BY <4>2, <4>3
      <4>5. QED
        BY <2>1, <2>2, <3>1, <4>1, <4>3, <4>4
    <3>2. CASE ~(L[n].type \in Creations /\ x[L[n].id].confirmedOnce)
      <4>1. f[n] = x
        BY <2>3, <3>2 DEF Supersede
      <4>2. QED
        BY <2>1, <2>2, <3>2, <4>1
    <3>3. QED
      BY <3>1, <3>2
<1>6. ASSUME NEW e \in ids, NEW n \in 0..last
      PROVE  f[n][e].confirmedOnce = t[e].confirmedOnce /\ f[n][e].links = t[e].links /\ f[n][e].work = t[e].work
  <2> DEFINE same(k) == /\ f[k][e].confirmedOnce = t[e].confirmedOnce /\ f[k][e].links = t[e].links
                        /\ f[k][e].work = t[e].work
             good == {k \in 0..last : same(k)}
  <2>1. 0 \in good /\ good \in SUBSET Nat
    BY <1>1, <1>3
  <2>2. ASSUME NEW k \in 1..last, k - 1 \in good PROVE k \in good
    <3>1. PICK x \in Entities : x = f[k - 1][e]
      BY <1>5
    <3>2. f[k][e] = x \/ f[k][e] = [x EXCEPT !.status = "superseded", !.supersededBy = L[k].id]
      BY <1>5, <3>1
    <3>3. f[k][e].confirmedOnce = x.confirmedOnce /\ f[k][e].links = x.links /\ f[k][e].work = x.work
      BY <3>2 DEF Entities
    <3>4. k \in 0..last
      BY <1>5
    <3>5. QED
      BY <2>2, <3>1, <3>3, <3>4
  <2>3. 0..last \subseteq good
    <3> HIDE DEF good
    <3>1. QED
      BY <1>1, <2>1, <2>2, EveryTick
  <2>4. QED
    BY <2>3
<1>7. ASSUME NEW e \in ids
      PROVE  f[last][e].status =
                 IF t[e].status \in Live /\ Replacers(L, t, e) # {} THEN "superseded" ELSE t[e].status
  <2> DEFINE by(n) == L[n].type \in Creations /\ t[L[n].id].confirmedOnce /\ e \in t[L[n].id].links
             now(n) == IF t[e].status \in Live /\ \E i \in 1..n : by(i) THEN "superseded" ELSE t[e].status
             good == {n \in 0..last : f[n][e].status = now(n)}
  <2>1. 0 \in good /\ good \in SUBSET Nat
    BY <1>1, <1>3
  <2>2. ASSUME NEW n \in 1..last, n - 1 \in good PROVE n \in good
    <3>1. PICK x \in Entities : x = f[n - 1][e]
      BY <1>5
    <3>2. x.status = now(n - 1)
      BY <2>2, <3>1
    <3>3. (\E i \in 1..n : by(i)) <=> by(n) \/ \E i \in 1..(n - 1) : by(i)
      BY <1>1
    <3>4. L[n].type \in Creations =>
              /\ f[n - 1][L[n].id].confirmedOnce = t[L[n].id].confirmedOnce
              /\ f[n - 1][L[n].id].links = t[L[n].id].links
      BY <1>2, <1>5, <1>6
    <3>5. f[n][e] = IF by(n) /\ x.status \in Live
              THEN [x EXCEPT !.status = "superseded", !.supersededBy = L[n].id] ELSE x
      BY <1>5, <3>1, <3>4
    <3>6. f[n][e].status = IF by(n) /\ x.status \in Live THEN "superseded" ELSE x.status
      BY <3>5 DEF Entities
    <3>7. n \in 0..last
      BY <1>5
    <3> HIDE DEF by
    <3>8. f[n][e].status = now(n)
      BY <3>2, <3>3, <3>6 DEF Live
    <3>9. QED
      BY <3>7, <3>8
  <2>3. 0..last \subseteq good
    <3> HIDE DEF good
    <3>1. QED
      BY <1>1, <2>1, <2>2, EveryTick
  <2>4. f[last][e].status = now(last)
    BY <1>1, <2>3
  <2>5. QED
    BY <1>4, <2>4
<1>8. last \in 0..last
  BY <1>1
<1>9. QED
  BY <1>3, <1>6, <1>7, <1>8

\* What ended the work of e, and was not taken back.
EndedBy(L, e) == {ev \in Standers(L) : ev.type \in Terminal /\ ev.entity = e}

\* applyExecutions: work that was ended has ended, whatever else was said of it.
LEMMA ExecutionsMean ==
    ASSUME NEW L \in Seq(Events), Numbered(Range(L)), NEW ids, NEW t, t \in [ids -> Entities]
    PROVE  /\ ApplyExecutions(L, t) \in [ids -> Entities]
           /\ \A e \in ids :
                  /\ ApplyExecutions(L, t)[e].status = t[e].status
                  /\ ApplyExecutions(L, t)[e].work \in Terminal <=>
                         t[e].work \in Terminal \/ EndedBy(L, e) # {}
<1> DEFINE E == Standing(L, Executions)
           s == Ordered(E)
<1>1. /\ s \in Seq(Events) /\ Len(s) \in Nat
      /\ \A n \in 1..Len(s) : s[n] \in E /\ s[n] \in Events
      /\ \A ev \in E : \E n \in 1..Len(s) : s[n] = ev
  BY Collected
<1>2. PICK f \in [0..Len(s) -> [ids -> Entities]] :
          /\ f[0] = t
          /\ \A n \in 1..Len(s) : f[n] = Settle(f[n - 1], s[n])
          /\ SettleAll(t, s) = f[Len(s)]
  <2>1. SettleRuns(ids, t, s)
    <3> HIDE DEF s
    <3>1. QED
      BY <1>1, SettledInTurn
  <2>2. QED
    BY <2>1 DEF SettleRuns
<1>3. ApplyExecutions(L, t) = f[Len(s)]
  BY <1>2 DEF ApplyExecutions
<1>4. \A e : EndedBy(L, e) # {} <=> \E n \in 1..Len(s) : s[n].type \in Terminal /\ s[n].entity = e
  BY <1>1 DEF EndedBy, Standers, Standing, Executions, Terminal
<1>5. \A n \in 1..Len(s) : s[n].type \in Executions
  BY <1>1 DEF Standing
<1> HIDE DEF E, s
<1>6. ASSUME NEW e \in ids
      PROVE  /\ f[Len(s)][e].status = t[e].status
             /\ f[Len(s)][e].work \in Terminal <=> t[e].work \in Terminal \/ EndedBy(L, e) # {}
  <2> DEFINE ends(n) == s[n].type \in Terminal /\ s[n].entity = e
             now(n) == /\ f[n][e].status = t[e].status
                       /\ f[n][e].work \in Terminal <=>
                              t[e].work \in Terminal \/ \E i \in 1..n : ends(i)
             good == {n \in 0..Len(s) : now(n)}
  <2>1. 0 \in good /\ good \in SUBSET Nat
    BY <1>1, <1>2
  <2>2. ASSUME NEW n \in 1..Len(s), n - 1 \in good PROVE n \in good
    <3>1. n \in 0..Len(s) /\ n - 1 \in 0..Len(s)
      BY <1>1
    <3>2. PICK x \in [ids -> Entities] : x = f[n - 1]
      BY <3>1
    <3>3. f[n] = Execute(x, s[n])
      BY <1>2, <1>5, <3>2 DEF Settle, Executions
    <3>4. (\E i \in 1..n : ends(i)) <=> ends(n) \/ \E i \in 1..(n - 1) : ends(i)
      BY <1>1
    <3>5. Execute(x, s[n])[e].status = x[e].status
      <4>1. x[e] \in Entities
        BY <3>2
      <4>2. QED
        BY <3>2, <4>1 DEF Execute, Entities
    <3>6. Execute(x, s[n])[e].work =
              IF s[n].entity = e /\ x[e].work \notin Terminal THEN NextExecution(x[e].work, s[n].type)
              ELSE x[e].work
      <4>1. x[e] \in Entities
        BY <3>2
      <4>2. QED
        BY <3>2, <4>1 DEF Execute, Entities
    <3>7. x[e].work \notin Terminal =>
              (NextExecution(x[e].work, s[n].type) \in Terminal <=> s[n].type \in Terminal)
      BY <1>5 DEF NextExecution, Terminal, Executions
    <3>8. now(n - 1)
      BY <2>2
    <3> HIDE DEF ends
    <3>9. now(n)
      BY <3>2, <3>3, <3>4, <3>5, <3>6, <3>7, <3>8 DEF ends
    <3> HIDE DEF now
    <3>10. QED
      BY <3>1, <3>9
  <2>3. 0..Len(s) \subseteq good
    <3> HIDE DEF good
    <3>1. QED
      BY <1>1, <2>1, <2>2, EveryTick
  <2> HIDE DEF now
  <2>4. now(Len(s))
    BY <1>1, <2>3
  <2> USE DEF now
  <2>5. QED
    BY <1>4, <2>4
<1>7. Len(s) \in 0..Len(s)
  BY <1>1
<1>8. ApplyExecutions(L, t) \in [ids -> Entities]
  BY <1>2, <1>3, <1>7
<1>9. QED
  BY <1>3, <1>6, <1>8

\* createEntity: the records of a log before anything is said of them.
LEMMA CreatedAre ==
    ASSUME NEW L \in Seq(Events), Numbered(Range(L))
    PROVE  /\ {ev.id : ev \in CreatedBy(L)} \in SUBSET Nat
           /\ Created(L) \in [{ev.id : ev \in CreatedBy(L)} -> Entities]
           /\ \A ev \in CreatedBy(L) : Created(L)[ev.id] = NewEntity(L, ev)
<1> DEFINE ids == {ev.id : ev \in CreatedBy(L)}
<1>1. CreatedBy(L) \subseteq Events /\ \A x, y \in CreatedBy(L) : x.id = y.id => x = y
  BY DEF CreatedBy, Numbered
<1>2. ASSUME NEW ev \in CreatedBy(L) PROVE NewEntity(L, ev) \in Entities
  BY <1>1 DEF NewEntity, Entities, Statuses, Works, CreatedLinks, Events, None
<1>3. ASSUME NEW ev \in CreatedBy(L) PROVE (CHOOSE x \in CreatedBy(L) : x.id = ev.id) = ev
  BY <1>1
<1>4. ASSUME NEW ev \in CreatedBy(L) PROVE Created(L)[ev.id] = NewEntity(L, ev)
  <2>1. ev.id \in ids
    OBVIOUS
  <2>2. QED
    BY <1>3, <2>1 DEF Created
<1>5. Created(L) \in [ids -> Entities]
  <2>1. \A e \in ids : \E ev \in CreatedBy(L) : e = ev.id /\ Created(L)[e] = NewEntity(L, ev)
    BY <1>4
  <2>2. \A e \in ids : Created(L)[e] \in Entities
    BY <1>2, <2>1
  <2>3. Created(L) = [e \in ids |-> Created(L)[e]]
    BY DEF Created
  <2> HIDE DEF ids
  <2>4. QED
    BY <2>2, <2>3
<1>6. ids \in SUBSET Nat
  BY <1>1 DEF Events
<1>7. QED
  BY <1>4, <1>5, <1>6

\* Only what creates a record replaces another.
Linked(E) == \A ev \in E : ev.replaces # {} => ev.type \in Creations

\* The ids of the records a log creates.
Ids(L) == {ev.id : ev \in CreatedBy(L)}

\* deriveEntities: its four passes, each over what the one before it made, come
\* to what the events say taken together.
LEMMA FoldMeans ==
    ASSUME NEW L \in Seq(Events), Numbered(Range(L)), Linked(Range(L))
    PROVE  /\ DeriveEntities(L) \in [Ids(L) -> Entities]
           /\ \A ev \in CreatedBy(L) :
                  /\ DeriveEntities(L)[ev.id].status = Meaning(L, ev)
                  /\ DeriveEntities(L)[ev.id].work \in Terminal <=> EndedBy(L, ev.id) # {}
<1> DEFINE t0 == Created(L)
           t1 == ApplyConfirms(L, t0)
           t2 == ApplyRetractions(L, t1)
           t3 == ApplySupersessions(L, t2)
           t4 == ApplyExecutions(L, t3)
<1>1. Ids(L) \in SUBSET Nat /\ t0 \in [Ids(L) -> Entities]
      /\ \A ev \in CreatedBy(L) : ev.id \in Ids(L) /\ t0[ev.id] = NewEntity(L, ev)
  BY CreatedAre DEF Ids
<1>2. DeriveEntities(L) = t4
  BY DEF DeriveEntities
<1> HIDE DEF t0
<1>3. /\ t1 \in [Ids(L) -> Entities]
      /\ \A e \in Ids(L) : t1[e] =
             IF t0[e].status = "proposed" /\ Says(L, "confirmed", e)
             THEN [t0[e] EXCEPT !.status = "confirmed", !.confirmedOnce = TRUE] ELSE t0[e]
  <2>1. \A t : t \in [Ids(L) -> Entities] =>
            /\ ApplyConfirms(L, t) \in [Ids(L) -> Entities]
            /\ \A e \in Ids(L) : ApplyConfirms(L, t)[e] =
                   IF t[e].status = "proposed" /\ Says(L, "confirmed", e)
                   THEN [t[e] EXCEPT !.status = "confirmed", !.confirmedOnce = TRUE] ELSE t[e]
    BY ConfirmsMean
  <2>2. QED
    BY ONLY <1>1, <2>1, Zenon DEF t1
<1> HIDE DEF t1
<1>4. /\ t2 \in [Ids(L) -> Entities]
      /\ \A e \in Ids(L) : t2[e] =
             IF t1[e].status \in Live /\ Says(L, "retracted", e)
             THEN [t1[e] EXCEPT !.status = "retracted"] ELSE t1[e]
  <2>1. \A t : t \in [Ids(L) -> Entities] =>
            /\ ApplyRetractions(L, t) \in [Ids(L) -> Entities]
            /\ \A e \in Ids(L) : ApplyRetractions(L, t)[e] =
                   IF t[e].status \in Live /\ Says(L, "retracted", e)
                   THEN [t[e] EXCEPT !.status = "retracted"] ELSE t[e]
    BY RetractionsMean
  <2>2. QED
    BY ONLY <1>3, <2>1, Zenon DEF t2
<1> HIDE DEF t2
<1>5. /\ t3 \in [Ids(L) -> Entities]
      /\ \A e \in Ids(L) :
             /\ t3[e].status =
                    IF t2[e].status \in Live /\ Replacers(L, t2, e) # {} THEN "superseded" ELSE t2[e].status
             /\ t3[e].work = t2[e].work
  BY <1>1, <1>4, SupersessionsMean
<1> HIDE DEF t3
<1>6. /\ t4 \in [Ids(L) -> Entities]
      /\ \A e \in Ids(L) :
             /\ t4[e].status = t3[e].status
             /\ t4[e].work \in Terminal <=> t3[e].work \in Terminal \/ EndedBy(L, e) # {}
  BY <1>5, ExecutionsMean
<1> HIDE DEF t4
<1>7. ASSUME NEW ev \in CreatedBy(L)
      PROVE  /\ t2[ev.id].confirmedOnce <=> Accepted(L, ev)
             /\ t2[ev.id].links = CreatedLinks(L, ev)
             /\ t2[ev.id].work = "open"
             /\ t2[ev.id].status =
                    IF UndoneCreation(L, ev) THEN "undone"
                    ELSE IF Says(L, "retracted", ev.id) THEN "retracted"
                    ELSE IF Accepted(L, ev) THEN "confirmed" ELSE "proposed"
  <2>1. PICK x \in Entities : x = t0[ev.id]
    BY <1>1
  <2>2. PICK y \in Entities : y = t1[ev.id]
    BY <1>1, <1>3
  <2>3. ev.type \in {"add", "propose"} /\ ev.id \in Ids(L) /\ x = NewEntity(L, ev)
    BY <1>1, <2>1 DEF CreatedBy, Creations
  <2>4. /\ x.status = (IF UndoneCreation(L, ev) THEN "undone"
                       ELSE IF ev.type = "add" THEN "confirmed" ELSE "proposed")
        /\ x.confirmedOnce = (ev.type = "add") /\ x.links = CreatedLinks(L, ev) /\ x.work = "open"
    BY <2>3 DEF NewEntity
  <2>5. y = IF x.status = "proposed" /\ Says(L, "confirmed", ev.id)
            THEN [x EXCEPT !.status = "confirmed", !.confirmedOnce = TRUE] ELSE x
    BY <1>3, <2>1, <2>2, <2>3
  <2>6. /\ y.status = (IF x.status = "proposed" /\ Says(L, "confirmed", ev.id) THEN "confirmed" ELSE x.status)
        /\ y.confirmedOnce = (IF x.status = "proposed" /\ Says(L, "confirmed", ev.id) THEN TRUE ELSE x.confirmedOnce)
        /\ y.links = x.links /\ y.work = x.work
    BY <2>1, <2>5 DEF Entities
  <2>7. t2[ev.id] = IF y.status \in Live /\ Says(L, "retracted", ev.id)
                    THEN [y EXCEPT !.status = "retracted"] ELSE y
    BY <1>4, <2>2, <2>3
  <2>8. /\ t2[ev.id].status = (IF y.status \in Live /\ Says(L, "retracted", ev.id) THEN "retracted" ELSE y.status)
        /\ t2[ev.id].confirmedOnce = y.confirmedOnce
        /\ t2[ev.id].links = y.links /\ t2[ev.id].work = y.work
    BY <2>2, <2>7 DEF Entities
  <2>9. y.confirmedOnce <=> Accepted(L, ev)
    <3>1. CASE ev.type = "add"
      BY <2>4, <2>6, <3>1 DEF Accepted
    <3>2. CASE ev.type = "propose"
      BY <2>4, <2>6, <3>2 DEF Accepted
    <3>3. QED
      BY <2>3, <3>1, <3>2
  <2>10. y.status = IF UndoneCreation(L, ev) THEN "undone"
                    ELSE IF Accepted(L, ev) THEN "confirmed" ELSE "proposed"
    <3>1. CASE ev.type = "add"
      BY <2>4, <2>6, <3>1 DEF Accepted
    <3>2. CASE ev.type = "propose"
      BY <2>4, <2>6, <3>2 DEF Accepted
    <3>3. QED
      BY <2>3, <3>1, <3>2
  <2>11. QED
    BY <2>4, <2>6, <2>8, <2>9, <2>10 DEF Live
<1>8. ASSUME NEW ev \in CreatedBy(L)
      PROVE  Replacers(L, t2, ev.id) # {} <=> Replaced(L, ev.id)
  <2>1. ASSUME NEW s \in Replacers(L, t2, ev.id) PROVE Replaced(L, ev.id)
    <3>1. s \in CreatedBy(L) /\ t2[s.id].confirmedOnce /\ ev.id \in t2[s.id].links
      BY <2>1 DEF Replacers
    <3>2. Accepted(L, s) /\ ev.id \in CreatedLinks(L, s) /\ s \in Range(L)
      BY <1>7, <3>1 DEF CreatedBy
    <3>3. s \in Standers(L) /\ ev.id \in s.replaces
      BY <3>2 DEF CreatedLinks, Standers
    <3>4. QED
      BY <3>2, <3>3 DEF Replaced
  <2>2. ASSUME Replaced(L, ev.id) PROVE Replacers(L, t2, ev.id) # {}
    <3>1. PICK s \in Standers(L) : ev.id \in s.replaces /\ Accepted(L, s)
      BY <2>2 DEF Replaced
    <3>2. s \in Range(L) /\ s.id \notin Annulled(L)
      BY DEF Standers
    <3>3. s \in CreatedBy(L) /\ ev.id \in CreatedLinks(L, s)
      BY <3>1, <3>2 DEF CreatedBy, Linked, CreatedLinks
    <3>4. s \in Replacers(L, t2, ev.id)
      BY <1>7, <3>1, <3>3 DEF Replacers
    <3>5. QED
      BY <3>4
  <2>3. QED
    BY <2>1, <2>2
<1>9. ASSUME NEW ev \in CreatedBy(L)
      PROVE  /\ t4[ev.id].status = Meaning(L, ev)
             /\ t4[ev.id].work \in Terminal <=> EndedBy(L, ev.id) # {}
  <2>1. ev.id \in Ids(L)
    BY <1>1
  <2>2. /\ t4[ev.id].status = (IF t2[ev.id].status \in Live /\ Replaced(L, ev.id)
                               THEN "superseded" ELSE t2[ev.id].status)
        /\ t4[ev.id].work \in Terminal <=> EndedBy(L, ev.id) # {}
    <3>1. t3[ev.id].work = "open"
      BY <1>5, <1>7, <2>1
    <3>2. t3[ev.id].work \notin Terminal
      BY <3>1 DEF Terminal
    <3>3. t3[ev.id].status = IF t2[ev.id].status \in Live /\ Replacers(L, t2, ev.id) # {}
                             THEN "superseded" ELSE t2[ev.id].status
      BY <1>5, <2>1
    <3>4. QED
      BY <1>6, <1>8, <2>1, <3>2, <3>3
  <2>3. t4[ev.id].status = IF UndoneCreation(L, ev) THEN "undone"
                           ELSE IF Says(L, "retracted", ev.id) THEN "retracted"
                           ELSE IF Replaced(L, ev.id) THEN "superseded"
                           ELSE IF Accepted(L, ev) THEN "confirmed" ELSE "proposed"
    BY <1>7, <2>2 DEF Live
  <2>4. QED
    BY <2>2, <2>3 DEF Meaning
<1>10. QED
  BY <1>2, <1>6, <1>9

\* The events of the first part of a sequence, whatever is written behind it.
LEMMA Beginning ==
    ASSUME NEW T, NEW s \in Seq(T), NEW k \in Nat, k <= Len(s)
    PROVE  /\ SubSeq(s, 1, k) \in Seq(T) /\ Range(SubSeq(s, 1, k)) \subseteq Range(s)
           /\ \A t \in Seq(T) : SubSeq(s \o t, 1, k) = SubSeq(s, 1, k)
           /\ SubSeq(s, 1, Len(s)) = s
<1>1. Len(s) \in Nat /\ DOMAIN s = 1..Len(s) /\ \A i \in 1..Len(s) : s[i] \in T
  BY LenProperties, ElementOfSeq
<1>2. ASSUME NEW u \in Seq(T), NEW j \in Nat, j <= Len(u)
      PROVE  /\ SubSeq(u, 1, j) \in Seq(T) /\ Len(SubSeq(u, 1, j)) = j
             /\ \A i \in 1..j : SubSeq(u, 1, j)[i] = u[i]
  <2>1. Len(u) \in Nat /\ \A i \in 1..Len(u) : u[i] \in T
    BY LenProperties, ElementOfSeq
  <2>2. \A i \in 1..j : u[i] \in T
    BY <1>2, <2>1
  <2>3. /\ SubSeq(u, 1, j) \in Seq(T)
        /\ Len(SubSeq(u, 1, j)) = IF 1 <= j THEN j - 1 + 1 ELSE 0
        /\ \A i \in 1..(j - 1 + 1) : SubSeq(u, 1, j)[i] = u[1 + i - 1]
    BY <2>2, SubSeqProperties
  <2>4. QED
    BY <2>3
<1>3. SubSeq(s, 1, k) \in Seq(T) /\ Len(SubSeq(s, 1, k)) = k /\ \A i \in 1..k : SubSeq(s, 1, k)[i] = s[i]
  BY <1>2
<1>4. Range(SubSeq(s, 1, k)) \subseteq Range(s)
  <2>1. Range(SubSeq(s, 1, k)) = {SubSeq(s, 1, k)[i] : i \in 1..k}
    BY <1>3, RangeEquality
  <2>2. Range(s) = {s[i] : i \in 1..Len(s)}
    BY RangeEquality
  <2>3. QED
    BY <1>1, <1>3, <2>1, <2>2
<1>5. ASSUME NEW t \in Seq(T) PROVE SubSeq(s \o t, 1, k) = SubSeq(s, 1, k)
  <2>1. /\ s \o t \in Seq(T) /\ Len(s \o t) = Len(s) + Len(t)
        /\ \A i \in 1..Len(s) : (s \o t)[i] = s[i]
    <3>1. /\ s \o t \in Seq(T) /\ Len(s \o t) = Len(s) + Len(t)
          /\ \A i \in 1..(Len(s) + Len(t)) : (s \o t)[i] = IF i <= Len(s) THEN s[i] ELSE t[i - Len(s)]
      BY ConcatProperties
    <3>2. Len(t) \in Nat
      BY LenProperties
    <3>3. QED
      BY <1>1, <3>1, <3>2
  <2>2. k <= Len(s \o t)
    <3>1. Len(t) \in Nat
      BY LenProperties
    <3>2. QED
      BY <1>1, <2>1, <3>1
  <2>3. /\ SubSeq(s \o t, 1, k) \in Seq(T) /\ Len(SubSeq(s \o t, 1, k)) = k
        /\ \A i \in 1..k : SubSeq(s \o t, 1, k)[i] = (s \o t)[i]
    BY <1>2, <2>1, <2>2
  <2>4. \A i \in 1..k : SubSeq(s \o t, 1, k)[i] = SubSeq(s, 1, k)[i]
    BY <1>1, <1>3, <2>1, <2>3
  <2>5. QED
    BY <1>3, <2>3, <2>4, SeqEqual
<1>6. SubSeq(s, 1, Len(s)) = s
  <2>1. /\ SubSeq(s, 1, Len(s)) \in Seq(T) /\ Len(SubSeq(s, 1, Len(s))) = Len(s)
        /\ \A i \in 1..Len(s) : SubSeq(s, 1, Len(s))[i] = s[i]
    BY <1>1, <1>2
  <2>2. QED
    BY <2>1, SeqEqual
<1>7. QED
  BY <1>3, <1>4, <1>5, <1>6

-----------------------------------------------------------------------------
(* The logs of the clones *)

Written == Range(shared) \cup UNION {Range(tail[c]) : c \in Clones}

LogsOK ==
    /\ made \in Nat /\ shared \in Seq(Events)
    /\ known \in [Clones -> Nat] /\ \A c \in Clones : known[c] <= Len(shared)
    /\ tail \in [Clones -> Seq(Events)]
    /\ view = [c \in Clones |-> view[c]]

\* What the verbs write: an event has an id of its own, no later than the last
\* one, and replaces only what was made before it.
Sound(E) ==
    /\ Numbered(E) /\ Linked(E)
    /\ \A ev \in E : /\ ev.id \in 1..made
                     /\ \A e \in ev.replaces : e < ev.id

\* Table t is what log L says.
Reflects(L, t) ==
    /\ t \in [Ids(L) -> Entities]
    /\ \A ev \in CreatedBy(L) : /\ t[ev.id].status = Meaning(L, ev)
                                /\ t[ev.id].work \in Terminal <=> EndedBy(L, ev.id) # {}

FoldInv == LogsOK /\ Sound(Written) /\ \A c \in Clones : Reflects(ReadEvents(c), view[c])

\* What a clone reads is of the shared log and of its tail.
LEMMA Reads ==
    ASSUME LogsOK, NEW c \in Clones
    PROVE  /\ ReadEvents(c) \in Seq(Events)
           /\ SubSeq(shared, 1, known[c]) \in Seq(Events)
           /\ Range(ReadEvents(c)) = Range(SubSeq(shared, 1, known[c])) \cup Range(tail[c])
           /\ Range(SubSeq(shared, 1, known[c])) \subseteq Range(shared)
           /\ Range(ReadEvents(c)) \subseteq Written
<1>1. shared \in Seq(Events) /\ known[c] \in Nat /\ known[c] <= Len(shared) /\ tail[c] \in Seq(Events)
  BY DEF LogsOK
<1>2. /\ SubSeq(shared, 1, known[c]) \in Seq(Events)
      /\ Range(SubSeq(shared, 1, known[c])) \subseteq Range(shared)
  BY <1>1, Beginning
<1>3. PICK p \in Seq(Events) : p = SubSeq(shared, 1, known[c])
  BY <1>2
<1>4. PICK q \in Seq(Events) : q = tail[c]
  BY <1>1
<1>5. p \o q \in Seq(Events) /\ Range(p \o q) = Range(p) \cup Range(q)
  BY RangeConcatenation, ConcatProperties
<1>6. ReadEvents(c) = p \o q
  BY <1>3, <1>4 DEF ReadEvents
<1>7. Range(tail[c]) \subseteq Written /\ Range(shared) \subseteq Written
  BY DEF Written
<1>8. Range(ReadEvents(c)) = Range(SubSeq(shared, 1, known[c])) \cup Range(tail[c])
  BY <1>3, <1>4, <1>5, <1>6
<1>9. ReadEvents(c) \in Seq(Events)
  BY <1>5, <1>6
<1>10. QED
  BY <1>2, <1>7, <1>8, <1>9

\* A part of what is sound.
LEMMA SoundPart ==
    ASSUME NEW E, Sound(E), NEW F \in SUBSET E PROVE Sound(F)
BY DEF Sound, Numbered, Linked

\* deriveEntities, of any log the verbs can have written.
LEMMA DerivedReflects ==
    ASSUME NEW L \in Seq(Events), Sound(Range(L)) PROVE Reflects(L, DeriveEntities(L))
BY FoldMeans DEF Reflects, Sound

-----------------------------------------------------------------------------
(* What a step makes of the logs *)

\* An event a verb can write next.
Fits(event) ==
    /\ event \in Events /\ event.id = made + 1
    /\ event.replaces # {} => event.type \in Creations
    /\ \A e \in event.replaces : e <= made

\* A recorded event is behind all its clone reads, and no other clone sees it.
LEMMA Recording ==
    ASSUME LogsOK, NEW c \in Clones, NEW verb, NEW event \in Events, Record(c, verb, event)
    PROVE  /\ LogsOK'
           /\ ReadEvents(c)' = Append(ReadEvents(c), event)
           /\ Range(ReadEvents(c)') = Range(ReadEvents(c)) \cup {event}
           /\ \A d \in Clones \ {c} : ReadEvents(d)' = ReadEvents(d)
           /\ Written' = Written \cup {event}
<1>1. /\ made \in Nat /\ shared \in Seq(Events) /\ shared' = shared
      /\ known \in [Clones -> Nat] /\ known' = known /\ \A d \in Clones : known[d] <= Len(shared)
      /\ tail \in [Clones -> Seq(Events)] /\ tail' = [tail EXCEPT ![c] = Append(tail[c], event)]
      /\ made' = made + 1 /\ view = [d \in Clones |-> view[d]]
      /\ view' = [view EXCEPT ![c] = DeriveEntities(Append(ReadEvents(c), event))]
  BY DEF LogsOK, Record, FoldProject
<1>2. Append(tail[c], event) \in Seq(Events)
  BY <1>1, AppendProperties
<1>3. /\ tail' \in [Clones -> Seq(Events)] /\ tail'[c] = Append(tail[c], event)
      /\ \A d \in Clones \ {c} : tail'[d] = tail[d]
  BY <1>1, <1>2
<1>4. LogsOK'
  <2>1. view' = [d \in Clones |-> view'[d]]
    BY <1>1
  <2>2. QED
    BY <1>1, <1>3, <2>1 DEF LogsOK
<1>5. \A d \in Clones \ {c} : ReadEvents(d)' = ReadEvents(d)
  BY <1>1, <1>3 DEF ReadEvents
<1>6. PICK p \in Seq(Events) : p = SubSeq(shared, 1, known[c])
  BY Reads
<1>7. PICK q \in Seq(Events) : q = tail[c]
  BY <1>1
<1>8. p \o Append(q, event) = Append(p \o q, event) /\ p \o q \in Seq(Events)
  <2>1. Append(q, event) = q \o <<event>> /\ <<event>> \in Seq(Events)
    BY AppendIsConcat
  <2>2. p \o q \in Seq(Events)
    BY ConcatProperties
  <2>3. (p \o q) \o <<event>> = p \o (q \o <<event>>)
    BY <2>1, ConcatAssociative
  <2>4. Append(p \o q, event) = (p \o q) \o <<event>>
    BY <2>2, AppendIsConcat
  <2>5. QED
    BY <2>1, <2>2, <2>3, <2>4
<1>9. ReadEvents(c)' = Append(ReadEvents(c), event)
  BY <1>1, <1>3, <1>6, <1>7, <1>8 DEF ReadEvents
<1>10. ASSUME NEW s \in Seq(Events) PROVE Range(Append(s, event)) = Range(s) \cup {event}
  <2>1. Append(s, event) = s \o <<event>> /\ <<event>> \in Seq(Events)
    BY AppendIsConcat
  <2>2. Range(s \o <<event>>) = Range(s) \cup Range(<<event>>)
    BY <2>1, RangeConcatenation
  <2>3. Range(<<event>>) = {event}
    BY DEF Range
  <2>4. QED
    BY <2>1, <2>2, <2>3
<1>11. Range(ReadEvents(c)') = Range(ReadEvents(c)) \cup {event}
  BY <1>9, <1>10, Reads
<1>12. Written' = Written \cup {event}
  <2>1. Range(tail'[c]) = Range(tail[c]) \cup {event}
    BY <1>1, <1>3, <1>10
  <2>2. \A d \in Clones \ {c} : Range(tail'[d]) = Range(tail[d])
    BY <1>3
  <2>3. Written' = Range(shared) \cup UNION {Range(tail'[d]) : d \in Clones}
    BY <1>1 DEF Written
  <2>4. ASSUME NEW e PROVE e \in Written' <=> e \in Written \/ e = event
    <3>1. e \in Written' <=> e \in Range(shared) \/ \E d \in Clones : e \in Range(tail'[d])
      BY <2>3
    <3>2. e \in Written <=> e \in Range(shared) \/ \E d \in Clones : e \in Range(tail[d])
      BY DEF Written
    <3>3. (\E d \in Clones : e \in Range(tail'[d])) <=> (\E d \in Clones : e \in Range(tail[d])) \/ e = event
      <4>1. CASE \E d \in Clones \ {c} : e \in Range(tail[d])
        BY <2>2, <4>1
      <4>2. CASE e \in Range(tail[c]) \/ e = event
        BY <2>1, <4>2
      <4>3. CASE ~(\E d \in Clones : e \in Range(tail[d])) /\ e # event
        BY <2>1, <2>2, <4>3
      <4>4. QED
        BY <4>1, <4>2, <4>3
    <3>4. QED
      BY <3>1, <3>2, <3>3
  <2>5. QED
    BY <2>4
<1>13. QED
  BY <1>4, <1>5, <1>9, <1>11, <1>12

\* What is written next is as sound as what was written.
LEMMA SoundGrows ==
    ASSUME made \in Nat, Sound(Written), NEW event, Fits(event),
           made' = made + 1, Written' = Written \cup {event}
    PROVE  Sound(Written)'
<1>1. ASSUME NEW x \in Written', NEW y \in Written', x.id = y.id PROVE x = y
  <2>1. \A z \in Written : z.id # made + 1
    BY DEF Sound
  <2>2. QED
    BY <1>1, <2>1 DEF Sound, Numbered, Fits
<1>2. Numbered(Written')
  BY <1>1 DEF Sound, Numbered, Fits
<1>3. Linked(Written')
  BY DEF Sound, Linked, Fits
<1>4. ASSUME NEW ev \in Written'
      PROVE  /\ ev.id \in 1..(made + 1) /\ \A e \in ev.replaces : e < ev.id
  <2>1. CASE ev \in Written
    BY <2>1 DEF Sound
  <2>2. CASE ev = event
    <3>1. event.replaces \in SUBSET Nat
      BY DEF Fits, Events
    <3>2. QED
      BY <2>2, <3>1 DEF Fits
  <2>3. QED
    BY <2>1, <2>2
<1>5. QED
  BY <1>2, <1>3, <1>4 DEF Sound

\* A recorded event, as a step of the whole.
LEMMA RecordKeeps ==
    ASSUME FoldInv, NEW c \in Clones, NEW verb, NEW event, Fits(event), Record(c, verb, event)
    PROVE  FoldInv'
<1>1. LogsOK /\ Sound(Written) /\ \A d \in Clones : Reflects(ReadEvents(d), view[d])
  BY DEF FoldInv
<1>2. event \in Events /\ made \in Nat /\ made' = made + 1
  BY <1>1 DEF Fits, LogsOK, Record
<1>3. /\ LogsOK' /\ ReadEvents(c)' = Append(ReadEvents(c), event)
      /\ \A d \in Clones \ {c} : ReadEvents(d)' = ReadEvents(d)
      /\ Written' = Written \cup {event}
  BY <1>1, <1>2, Recording
<1>4. Sound(Written)'
  BY <1>1, <1>2, <1>3, SoundGrows
<1>5. view' = [view EXCEPT ![c] = DeriveEntities(ReadEvents(c)')] /\ view = [d \in Clones |-> view[d]]
  BY <1>1, <1>3 DEF Record, FoldProject, LogsOK
<1>6. Reflects(ReadEvents(c)', DeriveEntities(ReadEvents(c)'))
  <2>1. (ReadEvents(c) \in Seq(Events) /\ Range(ReadEvents(c)) \subseteq Written)'
    BY <1>3, Reads, PTL
  <2>2. Sound(Range(ReadEvents(c)))'
    BY <1>4, <2>1 DEF Sound, Numbered, Linked
  <2>3. Numbered(Range(ReadEvents(c)')) /\ Linked(Range(ReadEvents(c)'))
    BY <2>2 DEF Sound
  <2>4. QED
    BY <2>1, <2>3, FoldMeans DEF Reflects
<1>7. ASSUME NEW d \in Clones PROVE Reflects(ReadEvents(d)', view'[d])
  <2>1. CASE d = c
    BY <1>5, <1>6, <2>1
  <2>2. CASE d # c
    <3>1. view'[d] = view[d] /\ ReadEvents(d)' = ReadEvents(d)
      BY <1>3, <1>5, <2>2
    <3>2. QED
      BY <1>1, <3>1
  <2>3. QED
    BY <2>1, <2>2
<1>8. QED
  BY <1>3, <1>4, <1>7 DEF FoldInv

\* The records a clone knows are of the events it can read.
LEMMA KnownRecords ==
    ASSUME FoldInv, NEW c \in Clones PROVE DOMAIN view[c] \subseteq 1..made
<1>1. view[c] \in [Ids(ReadEvents(c)) -> Entities] /\ Sound(Written) /\ LogsOK
  BY DEF FoldInv, Reflects
<1>2. DOMAIN view[c] = Ids(ReadEvents(c))
  BY <1>1
<1>3. CreatedBy(ReadEvents(c)) \subseteq Written
  BY <1>1, Reads DEF CreatedBy
<1>4. QED
  BY <1>1, <1>2, <1>3 DEF Ids, Sound

\* An event as the verbs stamp it, and as an add completes it.
LEMMA EventFits ==
    ASSUME made \in Nat, NEW c \in Clones, NEW type \in Types, NEW e \in Nat,
           NEW x, x = Event(c, type, e)
    PROVE  Fits(x) /\ x.type = type /\ x.annuls = None /\ x.replaces = {} /\ ~x.narrow
<1>1. made + 1 \in Nat /\ made + 1 + Skew[c] \in Nat
  BY FoldAssumption
<1>2. x \in Events
  BY <1>1 DEF Event, Events, None
<1>3. QED
  BY <1>2 DEF Event, Fits

LEMMA AddFits ==
    ASSUME made \in Nat, NEW x, Fits(x), x.type \in Creations, NEW old \in SUBSET (1..made),
           NEW a, a = [x EXCEPT !.replaces = old]
    PROVE  Fits(a) /\ a.type = x.type /\ a.annuls = x.annuls
<1>1. a \in Events /\ a.id = made + 1 /\ a.type = x.type /\ a.annuls = x.annuls
      /\ a.replaces = old /\ a.narrow = x.narrow
  BY DEF Events, Fits
<1>2. QED
  BY <1>1 DEF Fits

\* A step of a verb that takes nothing back.
TakesNothingBack(c) == \E verb, event : Record(c, verb, event) /\ Fits(event)
                                 /\ event.annuls = None /\ event.type # "annulled"

\* An undo of event b, the record's own or its links.
UndoneBy(c, b, narrow) ==
    /\ b \in Range(ReadEvents(c)) /\ b.type # "annulled" /\ b.id \notin Annulled(ReadEvents(c))
    /\ \E verb, event : /\ Record(c, verb, event) /\ Fits(event) /\ event.type = "annulled"
                        /\ event.annuls = b.id /\ event.narrow = narrow

LEMMA VerbsRecord ==
    ASSUME FoldInv, NEW c \in Clones,
           \/ Add(c) \/ StateConfirm(c) \/ StateRetract(c)
           \/ StateStart(c) \/ StateBlock(c) \/ StateUnblock(c) \/ StateDone(c)
    PROVE  TakesNothingBack(c)
<1>1. made \in Nat /\ DOMAIN view[c] \subseteq 1..made
  BY KnownRecords DEF FoldInv, LogsOK
<1>2. \A statuses : InStatus(c, statuses) \subseteq 1..made
  BY <1>1 DEF InStatus
<1>3. \A works : Movable(c, works) \subseteq 1..made
  BY <1>2 DEF Movable
<1>4. CASE Add(c)
  <2>1. PICK type \in Creations, old \in {{}} \cup {{e} : e \in InStatus(c, Live)} :
            Record(c, type, [Event(c, type, made + 1) EXCEPT !.replaces = old])
    BY <1>4 DEF Add
  <2>2. old \in SUBSET (1..made) /\ type \in Types /\ made + 1 \in Nat
    BY <1>1, <1>2 DEF Types
  <2>3. PICK a : a = [Event(c, type, made + 1) EXCEPT !.replaces = old]
    OBVIOUS
  <2>4. Fits(a) /\ a.type = type /\ a.annuls = None
    <3>1. PICK x : x = Event(c, type, made + 1)
      OBVIOUS
    <3>2. Fits(x) /\ x.type = type /\ x.annuls = None
      BY <1>1, <2>2, <3>1, EventFits
    <3>3. a = [x EXCEPT !.replaces = old]
      BY <2>3, <3>1
    <3>4. QED
      BY <1>1, <2>2, <3>2, <3>3, AddFits
  <2>5. type # "annulled"
    BY DEF Creations
  <2>6. QED
    BY <2>1, <2>3, <2>4, <2>5 DEF TakesNothingBack
<1>5. ASSUME NEW type \in Types \ {"annulled"}, NEW e \in 1..made, NEW verb, Record(c, verb, Event(c, type, e))
      PROVE  TakesNothingBack(c)
  <2>1. PICK x : x = Event(c, type, e)
    OBVIOUS
  <2>2. Fits(x) /\ x.type = type /\ x.annuls = None
    BY <1>1, <2>1, EventFits
  <2>3. QED
    BY <1>5, <2>1, <2>2 DEF TakesNothingBack
<1>6. CASE StateConfirm(c)
  BY <1>2, <1>5, <1>6 DEF StateConfirm, Types
<1>7. CASE StateRetract(c)
  BY <1>2, <1>5, <1>7 DEF StateRetract, Types
<1>8. CASE StateStart(c)
  BY <1>3, <1>5, <1>8 DEF StateStart, Types, Executions
<1>9. CASE StateBlock(c)
  BY <1>3, <1>5, <1>9 DEF StateBlock, Types, Executions
<1>10. CASE StateUnblock(c)
  BY <1>3, <1>5, <1>10 DEF StateUnblock, Types, Executions
<1>11. CASE StateDone(c)
  BY <1>3, <1>5, <1>11 DEF StateDone, Types, Executions, Terminal
<1>12. QED
  BY <1>4, <1>6, <1>7, <1>8, <1>9, <1>10, <1>11

LEMMA UndoRecords ==
    ASSUME FoldInv, NEW c \in Clones, Undo(c)
    PROVE  \E b, narrow : narrow \in BOOLEAN /\ UndoneBy(c, b, narrow)
<1>1. PICK b \in Range(ReadEvents(c)), narrow \in BOOLEAN :
          /\ b.type # "annulled" /\ b.id \notin Annulled(ReadEvents(c))
          /\ Record(c, IF narrow THEN "narrow" ELSE "undo",
                    [Event(c, "annulled", b.entity) EXCEPT !.annuls = b.id, !.narrow = narrow])
  BY DEF Undo
<1>2. b \in Events /\ made \in Nat
  BY Reads DEF FoldInv, LogsOK, Sound, Numbered
<1>3. b.id \in Nat /\ b.entity \in Nat /\ "annulled" \in Types
  BY <1>2 DEF Events, Types
<1>5. PICK u : u = [Event(c, "annulled", b.entity) EXCEPT !.annuls = b.id, !.narrow = narrow]
  OBVIOUS
<1>6. Fits(u) /\ u.type = "annulled" /\ u.annuls = b.id /\ u.narrow = narrow
  <2>1. PICK x : x = Event(c, "annulled", b.entity)
    OBVIOUS
  <2>2. Fits(x) /\ x.type = "annulled" /\ x.replaces = {}
    BY <1>2, <1>3, <2>1, EventFits
  <2>3. u = [x EXCEPT !.annuls = b.id, !.narrow = narrow]
    BY <1>5, <2>1
  <2>4. QED
    <3>1. x \in Events /\ x.id = made + 1
      BY <2>2 DEF Fits
    <3>2. u \in Events /\ u.id = made + 1 /\ u.type = "annulled" /\ u.annuls = b.id
          /\ u.narrow = narrow /\ u.replaces = {}
      BY <1>3, <2>2, <2>3, <3>1 DEF Events
    <3>3. QED
      BY <3>2 DEF Fits
<1>7. QED
  BY <1>1, <1>5, <1>6 DEF UndoneBy

\* Only the logs decide what a clone reads, and a pull or a push is no event.
LEMMA Pulling ==
    ASSUME LogsOK, NEW c \in Clones, Pull(c)
    PROVE  /\ LogsOK' /\ Written' = Written
           /\ ReadEvents(c)' = shared \o tail[c]
           /\ Range(ReadEvents(c)) \subseteq Range(ReadEvents(c)')
           /\ \A d \in Clones \ {c} : ReadEvents(d)' = ReadEvents(d)
<1>1. /\ made \in Nat /\ made' = made /\ shared \in Seq(Events) /\ shared' = shared
      /\ known \in [Clones -> Nat] /\ \A d \in Clones : known[d] <= Len(shared)
      /\ known' = [known EXCEPT ![c] = Len(shared)]
      /\ tail \in [Clones -> Seq(Events)] /\ tail' = tail /\ view = [d \in Clones |-> view[d]]
      /\ view' = [view EXCEPT ![c] = DeriveEntities(shared \o tail[c])]
  BY DEF LogsOK, Pull, FoldProject
<1>2. Len(shared) \in Nat
  BY <1>1, LenProperties
<1>3. known' \in [Clones -> Nat] /\ known'[c] = Len(shared) /\ \A d \in Clones \ {c} : known'[d] = known[d]
  BY <1>1, <1>2
<1>4. LogsOK'
  <2>1. view' = [d \in Clones |-> view'[d]]
    BY <1>1
  <2>2. \A d \in Clones : known'[d] <= Len(shared')
    BY <1>1, <1>2, <1>3
  <2>3. QED
    BY <1>1, <1>3, <2>1, <2>2 DEF LogsOK
<1>5. Written' = Written
  BY <1>1 DEF Written
<1>6. \A d \in Clones \ {c} : ReadEvents(d)' = ReadEvents(d)
  BY <1>1, <1>3 DEF ReadEvents
<1>7. SubSeq(shared, 1, Len(shared)) = shared
  BY <1>1, <1>2, Beginning
<1>8. ReadEvents(c)' = shared \o tail[c]
  BY <1>1, <1>3, <1>7 DEF ReadEvents
<1>9. Range(ReadEvents(c)) \subseteq Range(ReadEvents(c)')
  <2>1. PICK p \in Seq(Events) : p = shared
    BY <1>1
  <2>2. PICK q \in Seq(Events) : q = tail[c]
    BY <1>1
  <2>3. Range(p \o q) = Range(p) \cup Range(q)
    BY RangeConcatenation
  <2>4. Range(ReadEvents(c)') = Range(shared) \cup Range(tail[c])
    BY <1>8, <2>1, <2>2, <2>3
  <2>5. QED
    BY <2>4, Reads
<1>10. QED
  BY <1>4, <1>5, <1>6, <1>8, <1>9

LEMMA Pushing ==
    ASSUME LogsOK, NEW c \in Clones, Push(c)
    PROVE  /\ LogsOK' /\ Written' = Written /\ made' = made /\ view' = view
           /\ \A d \in Clones : ReadEvents(d)' = ReadEvents(d)
<1>1. /\ made \in Nat /\ made' = made /\ shared \in Seq(Events) /\ shared' = shared \o tail[c]
      /\ known \in [Clones -> Nat] /\ \A d \in Clones : known[d] <= Len(shared)
      /\ known[c] = Len(shared) /\ known' = [known EXCEPT ![c] = Len(shared')]
      /\ tail \in [Clones -> Seq(Events)] /\ tail' = [tail EXCEPT ![c] = <<>>]
      /\ view = [d \in Clones |-> view[d]] /\ view' = view
  BY DEF LogsOK, Push
<1>2. PICK q \in Seq(Events) : q = tail[c]
  BY <1>1
<1>3. /\ shared \o q \in Seq(Events) /\ Range(shared \o q) = Range(shared) \cup Range(q)
      /\ Len(shared \o q) = Len(shared) + Len(q) /\ Len(shared) \in Nat /\ Len(q) \in Nat
  BY <1>1, ConcatProperties, RangeConcatenation, LenProperties
<1>4. /\ shared' \in Seq(Events) /\ Range(shared') = Range(shared) \cup Range(tail[c])
      /\ Len(shared') \in Nat /\ Len(shared) <= Len(shared')
  BY <1>1, <1>2, <1>3
<1>5. known' \in [Clones -> Nat] /\ known'[c] = Len(shared') /\ \A d \in Clones \ {c} : known'[d] = known[d]
  BY <1>1, <1>4
<1>6. tail'[c] = <<>> /\ tail' \in [Clones -> Seq(Events)] /\ \A d \in Clones \ {c} : tail'[d] = tail[d]
  BY <1>1, EmptySeq
<1>7. LogsOK'
  <2>1. \A d \in Clones : known'[d] <= Len(shared')
    <3>1. Len(shared) \in Nat
      BY <1>3
    <3>2. QED
      BY <1>1, <1>4, <1>5, <3>1
  <2>2. QED
    BY <1>1, <1>4, <1>5, <1>6, <2>1 DEF LogsOK
<1>8. Written' = Written
  <2>1. Written' = Range(shared') \cup UNION {Range(tail'[d]) : d \in Clones}
    BY DEF Written
  <2>2. Range(tail'[c]) = {}
    BY <1>6 DEF Range
  <2>3. \A d \in Clones \ {c} : Range(tail'[d]) = Range(tail[d])
    BY <1>6
  <2>4. ASSUME NEW e PROVE e \in Written' <=> e \in Written
    <3>1. e \in Written' <=> e \in Range(shared') \/ \E d \in Clones : e \in Range(tail'[d])
      BY <2>1
    <3>2. e \in Written <=> e \in Range(shared) \/ \E d \in Clones : e \in Range(tail[d])
      BY DEF Written
    <3>3. e \in Range(shared') <=> e \in Range(shared) \/ e \in Range(tail[c])
      BY <1>4
    <3>4. (\E d \in Clones : e \in Range(tail'[d])) <=> \E d \in Clones \ {c} : e \in Range(tail[d])
      BY <2>2, <2>3
    <3>5. (\E d \in Clones : e \in Range(tail[d]))
          <=> e \in Range(tail[c]) \/ \E d \in Clones \ {c} : e \in Range(tail[d])
      OBVIOUS
    <3>6. QED
      BY <3>1, <3>2, <3>3, <3>4, <3>5
  <2>5. QED
    BY <2>4
<1>9. ASSUME NEW d \in Clones PROVE ReadEvents(d)' = ReadEvents(d)
  <2>1. CASE d = c
    <3>1. SubSeq(shared, 1, Len(shared)) = shared
      BY <1>1, <1>3, Beginning
    <3>2. SubSeq(shared', 1, Len(shared')) = shared'
      BY <1>4, Beginning
    <3>3. shared' \o <<>> = shared'
      BY <1>4, ConcatEmptySeq
    <3>4. ReadEvents(c)' = shared'
      BY <1>5, <1>6, <3>2, <3>3 DEF ReadEvents
    <3>5. ReadEvents(c) = shared \o tail[c]
      BY <1>1, <3>1 DEF ReadEvents
    <3>6. QED
      BY <1>1, <2>1, <3>4, <3>5
  <2>2. CASE d # c
    <3>1. known'[d] = known[d] /\ tail'[d] = tail[d]
      BY <1>5, <1>6, <2>2
    <3>2. SubSeq(shared', 1, known[d]) = SubSeq(shared, 1, known[d])
      <4>1. known[d] \in Nat /\ known[d] <= Len(shared)
        BY <1>1
      <4>2. QED
        BY <1>1, <1>2, <4>1, Beginning
    <3>3. QED
      BY <3>1, <3>2 DEF ReadEvents
  <2>3. QED
    BY <2>1, <2>2
<1>10. QED
  BY <1>1, <1>7, <1>8, <1>9

LEMMA PullKeeps == ASSUME FoldInv, NEW c \in Clones, Pull(c) PROVE FoldInv'
<1>1. LogsOK /\ Sound(Written) /\ \A d \in Clones : Reflects(ReadEvents(d), view[d])
  BY DEF FoldInv
<1>2. /\ LogsOK' /\ Written' = Written /\ ReadEvents(c)' = shared \o tail[c]
      /\ \A d \in Clones \ {c} : ReadEvents(d)' = ReadEvents(d)
  BY <1>1, Pulling
<1>3. Sound(Written)'
  BY <1>1, <1>2 DEF Pull, Sound
<1>4. view' = [view EXCEPT ![c] = DeriveEntities(ReadEvents(c)')] /\ view = [d \in Clones |-> view[d]]
  BY <1>1, <1>2 DEF Pull, FoldProject, LogsOK
<1>5. Reflects(ReadEvents(c)', DeriveEntities(ReadEvents(c)'))
  <2>1. (ReadEvents(c) \in Seq(Events) /\ Range(ReadEvents(c)) \subseteq Written)'
    BY <1>2, Reads, PTL
  <2>2. Numbered(Range(ReadEvents(c)')) /\ Linked(Range(ReadEvents(c)'))
    BY <1>3, <2>1 DEF Sound, Numbered, Linked
  <2>3. QED
    BY <2>1, <2>2, FoldMeans DEF Reflects
<1>6. ASSUME NEW d \in Clones PROVE Reflects(ReadEvents(d)', view'[d])
  <2>1. CASE d = c
    BY <1>4, <1>5, <2>1
  <2>2. CASE d # c
    <3>1. view'[d] = view[d] /\ ReadEvents(d)' = ReadEvents(d)
      BY <1>2, <1>4, <2>2
    <3>2. QED
      BY <1>1, <3>1
  <2>3. QED
    BY <2>1, <2>2
<1>7. QED
  BY <1>2, <1>3, <1>6 DEF FoldInv

LEMMA PushKeeps == ASSUME FoldInv, NEW c \in Clones, Push(c) PROVE FoldInv'
<1>1. LogsOK /\ Sound(Written) /\ \A d \in Clones : Reflects(ReadEvents(d), view[d])
  BY DEF FoldInv
<1>2. LogsOK' /\ Written' = Written /\ made' = made /\ view' = view
      /\ \A d \in Clones : ReadEvents(d)' = ReadEvents(d)
  BY <1>1, Pushing
<1>3. Sound(Written)'
  BY <1>1, <1>2 DEF Sound
<1>4. \A d \in Clones : Reflects(ReadEvents(d), view[d])'
  BY <1>1, <1>2
<1>5. QED
  BY <1>2, <1>3, <1>4 DEF FoldInv

-----------------------------------------------------------------------------
(* The fold and what the events say *)

\* Before anything is written.
LEMMA NothingWritten == Init => FoldInv
<1> SUFFICES ASSUME Init PROVE FoldInv
  OBVIOUS
<1>1. /\ made = 0 /\ shared = <<>> /\ known = [c \in Clones |-> 0]
      /\ tail = [c \in Clones |-> <<>>] /\ view = [c \in Clones |-> <<>>]
  BY DEF Init
<1>2. LogsOK
  <2>1. shared \in Seq(Events) /\ Len(shared) = 0 /\ tail \in [Clones -> Seq(Events)]
    BY <1>1, EmptySeq
  <2>2. known \in [Clones -> Nat] /\ (\A c \in Clones : known[c] = 0)
        /\ view = [c \in Clones |-> view[c]]
    BY <1>1
  <2>3. QED
    BY <1>1, <2>1, <2>2 DEF LogsOK
<1>3. Written = {}
  <2>1. Range(shared) = {} /\ \A c \in Clones : Range(tail[c]) = {}
    BY <1>1 DEF Range
  <2>2. ASSUME NEW e PROVE e \notin Written
    BY <2>1 DEF Written
  <2>3. QED
    BY <2>2
<1>4. Sound(Written)
  BY <1>3 DEF Sound, Numbered, Linked
<1>5. ASSUME NEW c \in Clones PROVE Reflects(ReadEvents(c), view[c])
  <2>1. CreatedBy(ReadEvents(c)) = {}
    BY <1>2, <1>3, Reads DEF CreatedBy
  <2>2. Ids(ReadEvents(c)) = {}
    BY <2>1 DEF Ids
  <2>3. view[c] = <<>> /\ <<>> \in Seq(Entities) /\ Len(<<>>) = 0
    BY <1>1, EmptySeq
  <2>4. view[c] \in [1..0 -> Entities]
    BY <2>3, LenProperties
  <2>5. QED
    BY <2>1, <2>2, <2>4 DEF Reflects
<1>6. QED
  BY <1>2, <1>4, <1>5 DEF FoldInv

\* Every step keeps what the logs and the tables are.
LEMMA FoldStep == FoldInv /\ [Next]_vars => FoldInv'
<1> SUFFICES ASSUME FoldInv, [Next]_vars PROVE FoldInv'
  OBVIOUS
<1>1. CASE UNCHANGED vars
  <2>1. \A c \in Clones : ReadEvents(c)' = ReadEvents(c)
    BY <1>1 DEF vars, ReadEvents
  <2>2. LogsOK' /\ Written' = Written
    BY <1>1 DEF vars, FoldInv, LogsOK, Written
  <2>3. Sound(Written)'
    BY <1>1, <2>2 DEF vars, FoldInv, Sound
  <2>4. \A c \in Clones : Reflects(ReadEvents(c), view[c])'
    BY <1>1, <2>1 DEF vars, FoldInv
  <2>5. QED
    BY <2>2, <2>3, <2>4 DEF FoldInv
<1>2. ASSUME NEW c \in Clones,
             \/ Add(c) \/ StateConfirm(c) \/ StateRetract(c)
             \/ StateStart(c) \/ StateBlock(c) \/ StateUnblock(c) \/ StateDone(c)
      PROVE  FoldInv'
  BY <1>2, VerbsRecord, RecordKeeps DEF TakesNothingBack
<1>3. ASSUME NEW c \in Clones, Undo(c) PROVE FoldInv'
  BY <1>3, UndoRecords, RecordKeeps DEF UndoneBy
<1>4. ASSUME NEW c \in Clones, Pull(c) PROVE FoldInv'
  BY <1>4, PullKeeps
<1>5. ASSUME NEW c \in Clones, Push(c) PROVE FoldInv'
  BY <1>5, PushKeeps
<1>6. CASE Next
  BY <1>2, <1>3, <1>4, <1>5, <1>6 DEF Next
<1>7. QED
  BY <1>1, <1>6

\* Of every clone, at all times: the logs hold what the verbs can have written,
\* and the table it folded last is what its log says.
THEOREM FoldInvariant == Spec => []FoldInv
<1>1. QED
  BY NothingWritten, FoldStep, PTL DEF Spec

\* The passes of the fold come to what the events say taken together, whatever
\* the order two clones wrote and merged them in: deriveEntities (entities.ts).
THEOREM TheFoldIsItsMeaning == Spec => []FoldsToItsMeaning
<1>1. FoldInv => FoldsToItsMeaning
  <2> SUFFICES ASSUME FoldInv, NEW c \in Clones, NEW ev \in Range(ReadEvents(c)), ev.type \in Creations
               PROVE  view[c][ev.id].status = Meaning(ReadEvents(c), ev)
    BY DEF FoldsToItsMeaning
  <2>1. ev \in CreatedBy(ReadEvents(c))
    BY DEF CreatedBy
  <2>2. QED
    BY <2>1 DEF FoldInv, Reflects
<1>2. QED
  BY <1>1, FoldInvariant, PTL

-----------------------------------------------------------------------------
(* What a log that grows can give back *)

\* Of two logs, one of which holds all the other does: what was taken out in the
\* first and stands in the second was given back by an annulment of what took it.
LEMMA GivenBack ==
    ASSUME NEW L, NEW M, Range(L) \subseteq Range(M), Numbered(Range(M)), Linked(Range(M)),
           NEW t, Reflects(L, t), NEW now, Reflects(M, now), NEW e \in DOMAIN t
    PROVE  LET became == Annulled(M) \ Annulled(L) IN
           /\ t[e].status = "undone" /\ e \notin Narrowed(M) => now[e].status = "undone"
           /\ (t[e].status \in {"retracted", "superseded"} /\ now[e].status \in Live) =>
                  \E ev \in TookOut(M, e) : ev.id \in became
           /\ (t[e].work \in Terminal /\ now[e].work \notin Terminal) =>
                  \E ev \in Range(M) : ev.id \in became /\ ev.entity = e /\ ev.type \in Terminal
<1> DEFINE became == Annulled(M) \ Annulled(L)
<1>1. PICK ev \in CreatedBy(L) : e = ev.id
  BY DEF Reflects, Ids
<1>2. /\ ev \in Range(L) /\ ev \in Range(M) /\ ev \in CreatedBy(M)
      /\ t[e].status = Meaning(L, ev) /\ now[e].status = Meaning(M, ev)
      /\ t[e].work \in Terminal <=> EndedBy(L, e) # {}
      /\ now[e].work \in Terminal <=> EndedBy(M, e) # {}
  BY <1>1 DEF Reflects, CreatedBy
<1>3. Annulled(L) \subseteq Annulled(M)
  BY DEF Annulled, Annulments
<1>4. \A s : UndoneCreation(M, s) => s.id \in Annulled(M)
  BY DEF UndoneCreation
<1>5. UndoneCreation(L, ev) /\ e \notin Narrowed(M) => UndoneCreation(M, ev)
  BY <1>1, <1>3 DEF UndoneCreation
<1>6. \A s : /\ Meaning(M, s) = "undone" <=> UndoneCreation(M, s)
             /\ Meaning(L, s) = "undone" <=> UndoneCreation(L, s)
  BY DEF Meaning
<1>7. t[e].status = "undone" /\ e \notin Narrowed(M) => now[e].status = "undone"
  BY <1>2, <1>5, <1>6
<1>8. ASSUME NEW s \in Standers(L) PROVE s \in Range(M) /\ (s \in Standers(M) \/ s.id \in became)
  BY DEF Standers
<1>9. ASSUME now[e].status \in Live, t[e].status = "retracted"
      PROVE  \E s \in TookOut(M, e) : s.id \in became
  <2>1. Says(L, "retracted", e) /\ ~Says(M, "retracted", e)
    BY <1>1, <1>2, <1>9 DEF Meaning, Live
  <2>2. PICK s \in Standers(L) : s.type = "retracted" /\ s.entity = e
    BY <2>1 DEF Says
  <2>3. s \in Range(M) /\ s.id \in became
    BY <1>8, <2>1, <2>2 DEF Says
  <2>4. QED
    BY <2>2, <2>3 DEF TookOut
<1>10. ASSUME now[e].status \in Live, t[e].status = "superseded"
       PROVE  \E s \in TookOut(M, e) : s.id \in became
  <2>1. Replaced(L, e) /\ ~Replaced(M, e)
    BY <1>1, <1>2, <1>10 DEF Meaning, Live
  <2>2. PICK s \in Standers(L) : e \in s.replaces /\ Accepted(L, s)
    BY <2>1 DEF Replaced
  <2>3. s \in Range(M) /\ s \in TookOut(M, e)
    BY <1>8, <2>2 DEF TookOut
  <2>4. CASE s.id \in became
    BY <2>3, <2>4
  <2>5. CASE s \in Standers(M)
    <3>1. ~Accepted(M, s)
      BY <2>1, <2>2, <2>5 DEF Replaced
    <3>2. ~UndoneCreation(M, s)
      BY <1>4, <2>5 DEF Standers
    <3>3. Says(L, "confirmed", s.id) /\ ~Says(M, "confirmed", s.id)
      BY <2>2, <3>1, <3>2 DEF Accepted
    <3>4. PICK x \in Standers(L) : x.type = "confirmed" /\ x.entity = s.id
      BY <3>3 DEF Says
    <3>5. x \in Range(M) /\ x.id \in became
      BY <1>8, <3>3, <3>4 DEF Says
    <3>6. x \in TookOut(M, e)
      BY <2>2, <2>3, <3>4, <3>5 DEF TookOut
    <3>7. QED
      BY <3>5, <3>6
  <2>6. QED
    BY <1>8, <2>4, <2>5
<1>11. ASSUME t[e].work \in Terminal, now[e].work \notin Terminal
       PROVE  \E s \in Range(M) : s.id \in became /\ s.entity = e /\ s.type \in Terminal
  <2>1. PICK s \in EndedBy(L, e) : TRUE
    BY <1>2, <1>11
  <2>2. s \in Standers(L) /\ s.type \in Terminal /\ s.entity = e
    BY DEF EndedBy
  <2>3. s \notin Standers(M)
    BY <1>2, <1>11, <2>2 DEF EndedBy
  <2>4. QED
    BY <1>8, <2>2, <2>3
<1>12. QED
  BY <1>7, <1>9, <1>10, <1>11

\* A clone's log only grows.
LEMMA LogsGrow ==
    ASSUME FoldInv, [Next]_vars, NEW c \in Clones
    PROVE  Range(ReadEvents(c)) \subseteq Range(ReadEvents(c)')
<1>1. LogsOK
  BY DEF FoldInv
<1>2. ASSUME NEW d \in Clones, NEW verb, NEW event, Fits(event), Record(d, verb, event)
      PROVE  Range(ReadEvents(c)) \subseteq Range(ReadEvents(c)')
  <2>1. event \in Events
    BY <1>2 DEF Fits
  <2>2. Range(ReadEvents(d)') = Range(ReadEvents(d)) \cup {event}
        /\ \A x \in Clones \ {d} : ReadEvents(x)' = ReadEvents(x)
    BY <1>1, <1>2, <2>1, Recording
  <2>3. CASE c = d
    BY <2>2, <2>3
  <2>4. CASE c # d
    BY <2>2, <2>4
  <2>5. QED
    BY <2>3, <2>4
<1>3. ASSUME NEW d \in Clones,
             \/ Add(d) \/ StateConfirm(d) \/ StateRetract(d)
             \/ StateStart(d) \/ StateBlock(d) \/ StateUnblock(d) \/ StateDone(d)
      PROVE  Range(ReadEvents(c)) \subseteq Range(ReadEvents(c)')
  BY <1>2, <1>3, VerbsRecord DEF TakesNothingBack
<1>4. ASSUME NEW d \in Clones, Undo(d) PROVE Range(ReadEvents(c)) \subseteq Range(ReadEvents(c)')
  BY <1>2, <1>4, UndoRecords DEF UndoneBy
<1>5. ASSUME NEW d \in Clones, Pull(d) PROVE Range(ReadEvents(c)) \subseteq Range(ReadEvents(c)')
  <2>1. CASE c = d
    BY <1>1, <1>5, <2>1, Pulling
  <2>2. CASE c # d
    BY <1>1, <1>5, <2>2, Pulling
  <2>3. QED
    BY <2>1, <2>2
<1>6. ASSUME NEW d \in Clones, Push(d) PROVE Range(ReadEvents(c)) \subseteq Range(ReadEvents(c)')
  BY <1>1, <1>6, Pushing
<1>7. CASE UNCHANGED vars
  BY <1>7 DEF vars, ReadEvents
<1>8. CASE Next
  BY <1>3, <1>4, <1>5, <1>6, <1>8 DEF Next
<1>9. QED
  BY <1>7, <1>8

\* Nothing that was undone, withdrawn, replaced or ended comes back in any clone,
\* unless what took it out was itself annulled, or an undo took back no more than
\* its links (collectAnnulled, entities.ts).
THEOREM WhatIsGoneStaysGone == Spec => NothingRevives
<1> DEFINE Kept == \A c \in Clones : LET t == view[c] now == view'[c] IN \A e \in DOMAIN t :
    /\ t[e].status = "undone" /\ e \notin Narrowed(ReadEvents(c)') => now[e].status = "undone"
    /\ (t[e].status \in {"retracted", "superseded"} /\ now[e].status \in Live) =>
           \E ev \in TookOut(ReadEvents(c)', e) : ev.id \in Became(c)
    /\ (t[e].work \in Terminal /\ now[e].work \notin Terminal) =>
           \E ev \in Range(ReadEvents(c)') :
               ev.id \in Became(c) /\ ev.entity = e /\ ev.type \in Terminal
<1>1. FoldInv /\ [Next]_vars => Kept
  <2> SUFFICES ASSUME FoldInv, [Next]_vars, NEW c \in Clones PROVE
          \A e \in DOMAIN view[c] :
              /\ view[c][e].status = "undone" /\ e \notin Narrowed(ReadEvents(c)')
                     => view'[c][e].status = "undone"
              /\ (view[c][e].status \in {"retracted", "superseded"} /\ view'[c][e].status \in Live) =>
                     \E ev \in TookOut(ReadEvents(c)', e) : ev.id \in Became(c)
              /\ (view[c][e].work \in Terminal /\ view'[c][e].work \notin Terminal) =>
                     \E ev \in Range(ReadEvents(c)') :
                         ev.id \in Became(c) /\ ev.entity = e /\ ev.type \in Terminal
    OBVIOUS
  <2>1. FoldInv'
    BY FoldStep
  <2>2. Reflects(ReadEvents(c), view[c]) /\ Reflects(ReadEvents(c)', view'[c])
    BY <2>1 DEF FoldInv
  <2>3. Range(ReadEvents(c)) \subseteq Range(ReadEvents(c)')
    BY LogsGrow
  <2>4. (Range(ReadEvents(c)) \subseteq Written)' /\ Sound(Written)'
    BY <2>1, Reads, PTL DEF FoldInv
  <2>5. Numbered(Range(ReadEvents(c)')) /\ Linked(Range(ReadEvents(c)'))
    BY <2>4 DEF Sound, Numbered, Linked
  <2>6. Became(c) = Annulled(ReadEvents(c)') \ Annulled(ReadEvents(c))
    BY DEF Became, Annulled, Annulments
  <2>7. QED
    BY <2>2, <2>3, <2>5, <2>6, GivenBack
<1>2. FoldInv /\ [Next]_vars => [Kept]_vars
  BY <1>1
<1>3. Spec => [][Kept]_vars
  BY <1>2, FoldInvariant, PTL DEF Spec
<1>4. QED
  BY <1>3 DEF NothingRevives

-----------------------------------------------------------------------------
(* A log without one of its events *)

\* What a transition makes of the record it is about.
Touched(x, ev) ==
    CASE ev.type = "confirmed" ->
             IF x.status = "proposed" THEN [x EXCEPT !.status = "confirmed", !.confirmedOnce = TRUE] ELSE x
      [] ev.type = "retracted" -> IF x.status \in Live THEN [x EXCEPT !.status = "retracted"] ELSE x
      [] OTHER -> IF x.work \notin Terminal
                  THEN [x EXCEPT !.work = NextExecution(x.work, ev.type),
                                 !.claim = IF ev.type = "started" THEN ev.by ELSE x.claim] ELSE x

LEMMA SettleIs ==
    ASSUME NEW ids, NEW t \in [ids -> Entities], NEW ev \in Events, NEW e \in ids
    PROVE  /\ Settle(t, ev)[e] = IF e = ev.entity THEN Touched(t[e], ev) ELSE t[e]
           /\ Settle(t, ev)[e].links = t[e].links
<1>1. PICK x \in Entities : x = t[e]
  OBVIOUS
<1>2. CASE ev.type = "confirmed"
  <2>1. Settle(t, ev) = Confirm(t, ev)
    BY <1>2 DEF Settle
  <2>2. Confirm(t, ev)[e] = IF e = ev.entity /\ x.status = "proposed"
                            THEN [x EXCEPT !.status = "confirmed", !.confirmedOnce = TRUE] ELSE x
    BY <1>1 DEF Confirm
  <2>3. Touched(x, ev) = IF x.status = "proposed"
                         THEN [x EXCEPT !.status = "confirmed", !.confirmedOnce = TRUE] ELSE x
    BY <1>2 DEF Touched
  <2>4. [x EXCEPT !.status = "confirmed", !.confirmedOnce = TRUE].links = x.links
    BY DEF Entities
  <2>5. QED
    BY <1>1, <2>1, <2>2, <2>3, <2>4
<1>3. CASE ev.type = "retracted"
  <2>1. Settle(t, ev) = Retract(t, ev)
    BY <1>3 DEF Settle
  <2>2. Retract(t, ev)[e] = IF e = ev.entity /\ x.status \in Live THEN [x EXCEPT !.status = "retracted"] ELSE x
    BY <1>1 DEF Retract
  <2>3. Touched(x, ev) = IF x.status \in Live THEN [x EXCEPT !.status = "retracted"] ELSE x
    BY <1>3 DEF Touched
  <2>4. [x EXCEPT !.status = "retracted"].links = x.links
    BY DEF Entities
  <2>5. QED
    BY <1>1, <2>1, <2>2, <2>3, <2>4
<1>4. CASE ev.type \notin {"confirmed", "retracted"}
  <2> DEFINE y == [x EXCEPT !.work = NextExecution(x.work, ev.type),
                            !.claim = IF ev.type = "started" THEN ev.by ELSE x.claim]
  <2>1. Settle(t, ev) = Execute(t, ev)
    BY <1>4 DEF Settle
  <2>2. Execute(t, ev)[e] = IF e = ev.entity /\ x.work \notin Terminal THEN y ELSE x
    <3>1. CASE ev.entity \in ids /\ t[ev.entity].work \notin Terminal
      <4> DEFINE z == [t[ev.entity] EXCEPT !.work = NextExecution(@, ev.type),
                                           !.claim = IF ev.type = "started" THEN ev.by ELSE @]
      <4>1. Execute(t, ev) = [t EXCEPT ![ev.entity] = z]
        BY <3>1 DEF Execute
      <4>2. e = ev.entity => z = y
        BY <1>1
      <4> HIDE DEF z, y
      <4>3. QED
        BY <1>1, <3>1, <4>1, <4>2
    <3>2. CASE ~(ev.entity \in ids /\ t[ev.entity].work \notin Terminal)
      BY <1>1, <3>2 DEF Execute
    <3>3. QED
      BY <3>1, <3>2
  <2>3. Touched(x, ev) = IF x.work \notin Terminal THEN y ELSE x
    BY <1>4 DEF Touched
  <2>4. y.links = x.links
    BY DEF Entities
  <2> HIDE DEF y
  <2>5. QED
    BY <1>1, <2>1, <2>2, <2>3, <2>4
<1>5. QED
  BY <1>2, <1>3, <1>4

\* Two tables that say the same of all the records of the second, and by the
\* first no record missing from the second replaces another.
Alike(ids, jds, t, u) ==
    /\ jds \subseteq ids /\ t \in [ids -> Entities] /\ u \in [jds -> Entities]
    /\ \A e \in jds : t[e] = u[e]
    /\ \A e \in ids \ jds : t[e].links = {}

LEMMA SettleAlike ==
    ASSUME NEW ids, NEW jds, NEW t, NEW u, Alike(ids, jds, t, u), NEW ev \in Events
    PROVE  Alike(ids, jds, Settle(t, ev), Settle(u, ev))
<1>1. /\ jds \subseteq ids /\ t \in [ids -> Entities] /\ u \in [jds -> Entities]
      /\ \A e \in jds : t[e] = u[e]
      /\ \A e \in ids \ jds : t[e].links = {}
  BY DEF Alike
<1>2. Settle(t, ev) \in [ids -> Entities] /\ Settle(u, ev) \in [jds -> Entities]
  BY <1>1, SettleType
<1>3. ASSUME NEW e \in jds PROVE Settle(t, ev)[e] = Settle(u, ev)[e]
  BY <1>1, SettleIs
<1>4. ASSUME NEW e \in ids \ jds PROVE Settle(t, ev)[e].links = {}
  BY <1>1, SettleIs
<1>5. QED
  BY <1>1, <1>2, <1>3, <1>4 DEF Alike

\* The same transitions leave them alike.
LEMMA SettleAllAlike ==
    ASSUME NEW ids, NEW jds, NEW t, NEW u, Alike(ids, jds, t, u), NEW s \in Seq(Events)
    PROVE  Alike(ids, jds, SettleAll(t, s), SettleAll(u, s))
<1>1. Len(s) \in Nat /\ Len(s) \in 0..Len(s) /\ \A n \in 1..Len(s) : s[n] \in Events
  BY LenProperties, ElementOfSeq
<1>2. SettleRuns(ids, t, s) /\ SettleRuns(jds, u, s)
  BY SettledInTurn DEF Alike
<1>3. PICK f : /\ f[0] = t /\ SettleAll(t, s) = f[Len(s)]
               /\ \A n \in 1..Len(s) : f[n] = Settle(f[n - 1], s[n])
  BY <1>2 DEF SettleRuns
<1>4. PICK g : /\ g[0] = u /\ SettleAll(u, s) = g[Len(s)]
               /\ \A n \in 1..Len(s) : g[n] = Settle(g[n - 1], s[n])
  BY <1>2 DEF SettleRuns
<1> DEFINE good == {n \in 0..Len(s) : Alike(ids, jds, f[n], g[n])}
<1>5. 0 \in good /\ good \in SUBSET Nat
  BY <1>1, <1>3, <1>4
<1>6. ASSUME NEW n \in 1..Len(s), n - 1 \in good PROVE n \in good
  <2>1. n \in 0..Len(s) /\ Alike(ids, jds, f[n - 1], g[n - 1]) /\ s[n] \in Events
    BY <1>1, <1>6
  <2>2. Alike(ids, jds, Settle(f[n - 1], s[n]), Settle(g[n - 1], s[n]))
    BY <2>1, SettleAlike
  <2>3. QED
    BY <1>3, <1>4, <2>1, <2>2
<1>7. 0..Len(s) \subseteq good
  <2> HIDE DEF good
  <2>1. QED
    BY <1>1, <1>5, <1>6, EveryTick
<1>8. QED
  BY <1>1, <1>3, <1>4, <1>7

\* A record replaces the same in both.
LEMMA ReplaceAlike ==
    ASSUME NEW ids \in SUBSET Nat, NEW jds, NEW t, NEW u, Alike(ids, jds, t, u), NEW s \in jds
    PROVE  Alike(ids, jds, Replace(t, s), Replace(u, s))
<1>1. /\ jds \subseteq ids /\ t \in [ids -> Entities] /\ u \in [jds -> Entities]
      /\ \A e \in jds : t[e] = u[e]
      /\ \A e \in ids \ jds : t[e].links = {}
      /\ s \in ids /\ s \in Nat
  BY DEF Alike
<1>2. /\ Replace(t, s) \in [ids -> Entities] /\ Replace(u, s) \in [jds -> Entities]
  BY <1>1, ReplaceIs
<1>3. ASSUME NEW e \in jds PROVE Replace(t, s)[e] = Replace(u, s)[e]
  <2>1. PICK x : x = t[e]
    OBVIOUS
  <2>2. e \in ids /\ u[e] = x /\ t[s] = u[s]
    BY <1>1, <2>1
  <2>3. Replace(t, s)[e] = IF e \in t[s].links /\ x.status \in Live
                           THEN [x EXCEPT !.status = "superseded", !.supersededBy = s] ELSE x
    BY <1>1, <2>1, <2>2 DEF Replace
  <2>4. Replace(u, s)[e] = IF e \in u[s].links /\ x.status \in Live
                           THEN [x EXCEPT !.status = "superseded", !.supersededBy = s] ELSE x
    BY <1>1, <2>2 DEF Replace
  <2>5. QED
    BY <2>2, <2>3, <2>4
<1>4. ASSUME NEW e \in ids \ jds PROVE Replace(t, s)[e].links = {}
  <2>1. PICK x \in Entities : x = t[e]
    BY <1>1
  <2>2. [x EXCEPT !.status = "superseded", !.supersededBy = s].links = x.links
    BY DEF Entities
  <2>3. Replace(t, s)[e] = IF e \in t[s].links /\ x.status \in Live
                           THEN [x EXCEPT !.status = "superseded", !.supersededBy = s] ELSE x
    BY <1>1, <2>1 DEF Replace
  <2>4. QED
    BY <1>1, <2>1, <2>2, <2>3
<1>5. QED
  BY <1>1, <1>2, <1>3, <1>4 DEF Alike

\* A record that names nothing replaces nothing.
LEMMA ReplacesNothing ==
    ASSUME NEW ids \in SUBSET Nat, NEW t \in [ids -> Entities], NEW s \in ids, t[s].links = {}
    PROVE  Replace(t, s) = t
BY DEF Replace

\* The two logs line by line, one of them without the lines of one event.
LEMMA SupersedeAlike ==
    ASSUME NEW ids \in SUBSET Nat, NEW jds, NEW t, NEW u, Alike(ids, jds, t, u),
           NEW a, NEW b,
           \/ a = b /\ (a.type \in Creations => a.id \in jds)
           \/ b.type \notin Creations /\ (a.type \in Creations => a.id \in ids \ jds)
    PROVE  Alike(ids, jds, Supersede(t, a), Supersede(u, b))
<1>1. /\ jds \subseteq ids /\ t \in [ids -> Entities] /\ u \in [jds -> Entities]
      /\ \A e \in jds : t[e] = u[e]
      /\ \A e \in ids \ jds : t[e].links = {}
  BY DEF Alike
<1>2. CASE a = b /\ (a.type \in Creations => a.id \in jds)
  <2>1. CASE a.type \in Creations
    <3>1. a.id \in jds /\ t[a.id] = u[a.id]
      BY <1>1, <1>2, <2>1
    <3>2. Alike(ids, jds, Replace(t, a.id), Replace(u, a.id))
      BY <3>1, ReplaceAlike
    <3>3. QED
      BY <1>2, <2>1, <3>1, <3>2 DEF Supersede
  <2>2. CASE a.type \notin Creations
    BY <1>2, <2>2 DEF Supersede
  <2>3. QED
    BY <2>1, <2>2
<1>3. CASE b.type \notin Creations /\ (a.type \in Creations => a.id \in ids \ jds)
  <2>1. Supersede(u, b) = u
    BY <1>3 DEF Supersede
  <2>2. Supersede(t, a) = t
    BY <1>1, <1>3, ReplacesNothing DEF Supersede
  <2>3. QED
    BY <2>1, <2>2
<1>4. QED
  BY <1>2, <1>3

LEMMA SupersessionsAlike ==
    ASSUME NEW ids \in SUBSET Nat, NEW jds, NEW t, NEW u, Alike(ids, jds, t, u),
           NEW L \in Seq(Events), NEW M \in Seq(Events), Len(L) = Len(M),
           \A n \in 1..Len(L) :
               \/ L[n] = M[n] /\ (L[n].type \in Creations => L[n].id \in jds)
               \/ M[n].type \notin Creations /\ (L[n].type \in Creations => L[n].id \in ids \ jds)
    PROVE  Alike(ids, jds, ApplySupersessions(L, t), ApplySupersessions(M, u))
<1>1. Len(L) \in Nat /\ Len(L) \in 0..Len(L)
  BY LenProperties
<1>2. jds \in SUBSET Nat /\ t \in [ids -> Entities] /\ u \in [jds -> Entities] /\ jds \subseteq ids
  BY DEF Alike
<1>3. SupersedeRuns(ids, t, L) /\ SupersedeRuns(jds, u, M)
  <2>1. \A n \in 1..Len(L) : L[n].type \in Creations => L[n].id \in ids
    BY <1>2
  <2>2. \A n \in 1..Len(M) : M[n].type \in Creations => M[n].id \in jds
    OBVIOUS
  <2>3. QED
    BY <1>2, <2>1, <2>2, SupersededInTurn
<1>4. PICK f : /\ f[0] = t /\ ApplySupersessions(L, t) = f[Len(L)]
               /\ \A n \in 1..Len(L) : f[n] = Supersede(f[n - 1], L[n])
  BY <1>3 DEF SupersedeRuns
<1>5. PICK g : /\ g[0] = u /\ ApplySupersessions(M, u) = g[Len(L)]
               /\ \A n \in 1..Len(L) : g[n] = Supersede(g[n - 1], M[n])
  BY <1>3 DEF SupersedeRuns
<1> DEFINE good == {n \in 0..Len(L) : Alike(ids, jds, f[n], g[n])}
<1>6. 0 \in good /\ good \in SUBSET Nat
  BY <1>1, <1>4, <1>5
<1>7. ASSUME NEW n \in 1..Len(L), n - 1 \in good PROVE n \in good
  <2>1. n \in 0..Len(L) /\ Alike(ids, jds, f[n - 1], g[n - 1])
    BY <1>1, <1>7
  <2>2. Alike(ids, jds, Supersede(f[n - 1], L[n]), Supersede(g[n - 1], M[n]))
    BY <2>1, SupersedeAlike
  <2>3. QED
    BY <1>4, <1>5, <2>1, <2>2
<1>8. 0..Len(L) \subseteq good
  <2> HIDE DEF good
  <2>1. QED
    BY <1>1, <1>6, <1>7, EveryTick
<1>9. QED
  BY <1>1, <1>4, <1>5, <1>8

\* The lines of a log without event b: all but its own, and that one says nothing.
LEMMA WithoutIs ==
    ASSUME NEW L \in Seq(Events), Numbered(Range(L)), NEW b \in Range(L)
    PROVE  LET W == Without(L, b.id) IN
           \E blank \in Events :
               /\ blank.id = b.id /\ blank.type = "none"
               /\ W \in Seq(Events) /\ Len(W) = Len(L) /\ Numbered(Range(W))
               /\ \A n \in 1..Len(L) : (L[n] # b /\ W[n] = L[n]) \/ (L[n] = b /\ W[n] = blank)
               /\ Range(W) = (Range(L) \ {b}) \cup {blank}
<1> DEFINE W == Without(L, b.id)
           last == Len(L)
<1>1. /\ last \in Nat /\ DOMAIN L = 1..last /\ \A n \in 1..last : L[n] \in Events
      /\ Range(L) = {L[n] : n \in 1..last}
  BY LenProperties, ElementOfSeq, LogIsFinite
<1>2. PICK blank : blank = [b EXCEPT !.type = "none"]
  OBVIOUS
<1>3. b \in Events
  BY DEF Numbered
<1>4. blank \in Events /\ blank.id = b.id /\ blank.type = "none"
  BY <1>2, <1>3 DEF Events, Types
<1>5. \A n \in 1..last : L[n].id = b.id <=> L[n] = b
  BY <1>1 DEF Numbered
<1>6. W = [n \in 1..last |-> IF L[n] = b THEN blank ELSE L[n]]
  <2>1. W = [n \in 1..last |-> IF L[n].id = b.id THEN [L[n] EXCEPT !.type = "none"] ELSE L[n]]
    BY <1>1 DEF Without
  <2>2. \A n \in 1..last : (IF L[n].id = b.id THEN [L[n] EXCEPT !.type = "none"] ELSE L[n])
                         = (IF L[n] = b THEN blank ELSE L[n])
    BY <1>2, <1>5
  <2>3. QED
    BY <2>1, <2>2
<1> HIDE DEF W
<1>7. W \in Seq(Events) /\ Len(W) = last
  <2>1. W \in [1..last -> Events]
    BY <1>1, <1>4, <1>6
  <2>2. QED
    BY <1>1, <2>1, ElementOfSeq, SeqDef, LenProperties
<1>8. \A n \in 1..last : (L[n] # b /\ W[n] = L[n]) \/ (L[n] = b /\ W[n] = blank)
  BY <1>6
<1>9. Range(W) = {W[n] : n \in 1..last}
  BY <1>7, LogIsFinite
<1>10. Range(W) = (Range(L) \ {b}) \cup {blank}
  BY <1>1, <1>8, <1>9
<1>11. Numbered(Range(W))
  <2>1. \A x \in Range(L) : x.id = b.id => x = b
    BY DEF Numbered
  <2>2. QED
    BY <1>4, <1>10, <2>1 DEF Numbered
<1>12. QED
  BY <1>4, <1>7, <1>8, <1>10, <1>11 DEF W

\* A line that creates no record replaces none.
LEMMA NothingReplaced ==
    ASSUME NEW ids \in SUBSET Nat, NEW t, t \in [ids -> Entities], NEW L \in Seq(Events), NEW u \in Events,
           u.type \notin Creations, \A n \in 1..Len(L) : L[n].type \in Creations => L[n].id \in ids
    PROVE  ApplySupersessions(Append(L, u), t) = ApplySupersessions(L, t)
<1> DEFINE M == Append(L, u)
<1>1. /\ Len(L) \in Nat /\ Len(L) \in 0..Len(L) /\ M \in Seq(Events) /\ Len(M) = Len(L) + 1
      /\ \A n \in 1..Len(L) : M[n] = L[n]
      /\ M[Len(M)] = u
  BY LenProperties, AppendProperties
<1> HIDE DEF M
<1>2. \A n \in 1..Len(M) : M[n].type \in Creations => M[n].id \in ids
  <2>1. \A n \in 1..Len(M) : n \in 1..Len(L) \/ n = Len(M)
    BY <1>1
  <2>2. QED
    BY <1>1, <2>1
<1>3. SupersedeRuns(ids, t, L) /\ SupersedeRuns(ids, t, M)
  BY <1>1, <1>2, SupersededInTurn
<1>4. PICK f : /\ f[0] = t /\ ApplySupersessions(L, t) = f[Len(L)]
               /\ \A n \in 1..Len(L) : f[n] = Supersede(f[n - 1], L[n])
  BY <1>3 DEF SupersedeRuns
<1>5. PICK g : /\ g[0] = t /\ ApplySupersessions(M, t) = g[Len(M)]
               /\ \A n \in 1..Len(M) : g[n] = Supersede(g[n - 1], M[n])
  BY <1>3 DEF SupersedeRuns
<1> DEFINE good == {n \in 0..Len(L) : g[n] = f[n]}
<1>6. 0 \in good /\ good \in SUBSET Nat
  BY <1>1, <1>4, <1>5
<1>7. ASSUME NEW n \in 1..Len(L), n - 1 \in good PROVE n \in good
  <2>1. n \in 0..Len(L) /\ n \in 1..Len(M) /\ g[n - 1] = f[n - 1] /\ M[n] = L[n]
    BY <1>1, <1>7
  <2>2. QED
    BY <1>4, <1>5, <2>1
<1>8. 0..Len(L) \subseteq good
  <2> HIDE DEF good
  <2>1. QED
    BY <1>1, <1>6, <1>7, EveryTick
<1>9. g[Len(M)] = g[Len(L)]
  <2>1. Len(M) \in 1..Len(M) /\ Len(M) - 1 = Len(L)
    BY <1>1
  <2>2. g[Len(M)] = Supersede(g[Len(L)], u)
    BY <1>1, <1>5, <2>1
  <2>3. QED
    BY <2>2 DEF Supersede
<1>10. QED
  BY <1>1, <1>4, <1>5, <1>8, <1>9 DEF M

\* A log with an event and its annulment makes the same records as one in which
\* neither is written: all of them but the one the event created.
LEMMA AsIfUnwritten ==
    ASSUME NEW L \in Seq(Events), NEW u \in Events, NEW M \in Seq(Events), M = Append(L, u),
           Range(M) = Range(L) \cup {u}, Numbered(Range(M)), NEW b \in Range(L),
           b.type # "annulled", u.type = "annulled", u.annuls = b.id
    PROVE  LET W == Without(L, b.id) IN
           /\ Ids(W) = {ev.id : ev \in CreatedBy(M) \ {b}}
           /\ Alike(Ids(M), Ids(W), DeriveEntities(M), DeriveEntities(W))
<1> DEFINE W == Without(L, b.id)
<1>1. Numbered(Range(L))
  BY DEF Numbered
<1>2. PICK blank \in Events :
          /\ blank.id = b.id /\ blank.type = "none"
          /\ W \in Seq(Events) /\ Len(W) = Len(L) /\ Numbered(Range(W))
          /\ \A n \in 1..Len(L) : (L[n] # b /\ W[n] = L[n]) \/ (L[n] = b /\ W[n] = blank)
          /\ Range(W) = (Range(L) \ {b}) \cup {blank}
  BY <1>1, WithoutIs
<1> HIDE DEF W
<1>3. \A x \in Range(M) : x.id = b.id => x = b
  BY DEF Numbered
<1>4. Annulments(W) = Annulments(L) /\ Annulments(M) = Annulments(L) \cup {u}
  BY <1>2 DEF Annulments
<1>5. /\ Annulled(M) = Annulled(W) \cup {b.id}
      /\ \A i : i # b.id => (i \in Narrowed(M) <=> i \in Narrowed(W))
  BY <1>4 DEF Annulled, Narrowed
<1>6. CreatedBy(W) = CreatedBy(M) \ {b} /\ CreatedBy(M) = CreatedBy(L)
  BY <1>2 DEF CreatedBy, Creations
<1>7. ASSUME NEW types, "none" \notin types, "annulled" \notin types
      PROVE  Standing(W, types) = Standing(M, types)
  BY <1>2, <1>3, <1>5, <1>7 DEF Standing
<1>8. ASSUME NEW ev \in CreatedBy(W) PROVE NewEntity(W, ev) = NewEntity(M, ev)
  <2>1. ev.id # b.id
    BY <1>3, <1>6 DEF CreatedBy
  <2>2. UndoneCreation(W, ev) <=> UndoneCreation(M, ev)
    BY <1>5, <2>1 DEF UndoneCreation
  <2>3. CreatedLinks(W, ev) = CreatedLinks(M, ev)
    BY <1>5, <2>1 DEF CreatedLinks
  <2>4. QED
    BY <2>2, <2>3 DEF NewEntity
<1>9. Ids(W) = {ev.id : ev \in CreatedBy(M) \ {b}}
  BY <1>6 DEF Ids
<1>10. /\ Ids(M) \in SUBSET Nat /\ Ids(W) \subseteq Ids(M)
       /\ \A ev \in CreatedBy(M) : ev.id \in Ids(M) /\ (ev # b => ev.id \in Ids(W))
       /\ b.id \notin Ids(W)
  <2>1. \A ev \in CreatedBy(M) : ev.id = b.id => ev = b
    BY <1>3 DEF CreatedBy
  <2>2. QED
    BY <1>9, <2>1, CreatedAre DEF Ids
<1>11. Alike(Ids(M), Ids(W), Created(M), Created(W))
  <2>1. /\ Created(M) \in [Ids(M) -> Entities] /\ Created(W) \in [Ids(W) -> Entities]
        /\ \A ev \in CreatedBy(M) : Created(M)[ev.id] = NewEntity(M, ev)
        /\ \A ev \in CreatedBy(W) : Created(W)[ev.id] = NewEntity(W, ev)
    BY <1>2, CreatedAre DEF Ids
  <2>2. ASSUME NEW e \in Ids(W) PROVE Created(M)[e] = Created(W)[e]
    <3>1. PICK ev \in CreatedBy(W) : e = ev.id
      BY DEF Ids
    <3>2. QED
      BY <1>6, <1>8, <2>1, <3>1
  <2>3. ASSUME NEW e \in Ids(M) \ Ids(W) PROVE Created(M)[e].links = {}
    <3>1. PICK ev \in CreatedBy(M) : e = ev.id
      BY DEF Ids
    <3>2. ev = b
      BY <1>10, <2>3, <3>1
    <3>3. NewEntity(M, b).links = {}
      BY <1>5 DEF NewEntity, CreatedLinks
    <3>4. QED
      BY <2>1, <3>1, <3>2, <3>3
  <2>4. QED
    BY <1>10, <2>1, <2>2, <2>3 DEF Alike
<1> DEFINE confirms == Ordered(Standing(M, {"confirmed"}))
           retractions == Ordered(Standing(M, {"retracted"}))
           executions == Ordered(Standing(M, Executions))
<1>12. confirms \in Seq(Events) /\ retractions \in Seq(Events) /\ executions \in Seq(Events)
  BY Collected
<1>13. /\ \A t : ApplyConfirms(M, t) = SettleAll(t, confirms)
       /\ \A t : ApplyConfirms(W, t) = SettleAll(t, confirms)
       /\ \A t : ApplyRetractions(M, t) = SettleAll(t, retractions)
       /\ \A t : ApplyRetractions(W, t) = SettleAll(t, retractions)
       /\ \A t : ApplyExecutions(M, t) = SettleAll(t, executions)
       /\ \A t : ApplyExecutions(W, t) = SettleAll(t, executions)
  <2>1. \A types \in {{"confirmed"}, {"retracted"}, Executions} : "none" \notin types /\ "annulled" \notin types
    BY DEF Executions
  <2>2. \A types \in {{"confirmed"}, {"retracted"}, Executions} : Standing(W, types) = Standing(M, types)
    BY <1>7, <2>1
  <2>3. QED
    BY <2>2 DEF ApplyConfirms, ApplyRetractions, ApplyExecutions
<1> HIDE DEF confirms, retractions, executions
<1> DEFINE t1 == ApplyConfirms(M, Created(M))
           u1 == ApplyConfirms(W, Created(W))
           t2 == ApplyRetractions(M, t1)
           u2 == ApplyRetractions(W, u1)
           t3 == ApplySupersessions(M, t2)
           u3 == ApplySupersessions(W, u2)
<1>14. Alike(Ids(M), Ids(W), t1, u1)
  BY <1>11, <1>12, <1>13, SettleAllAlike
<1> HIDE DEF t1, u1
<1>15. Alike(Ids(M), Ids(W), t2, u2)
  BY <1>12, <1>13, <1>14, SettleAllAlike
<1> HIDE DEF t2, u2
<1>16. Alike(Ids(M), Ids(W), t3, u3)
  <2>1. Range(L) = {L[n] : n \in 1..Len(L)} /\ "none" \notin Creations /\ u.type \notin Creations
    BY LogIsFinite DEF Creations
  <2>2. \A n \in 1..Len(L) : L[n].type \in Creations => L[n] \in CreatedBy(M)
    BY <1>6, <2>1 DEF CreatedBy
  <2>3. ASSUME NEW n \in 1..Len(L)
        PROVE  \/ L[n] = W[n] /\ (L[n].type \in Creations => L[n].id \in Ids(W))
               \/ W[n].type \notin Creations /\ (L[n].type \in Creations => L[n].id \in Ids(M) \ Ids(W))
    BY <1>2, <1>10, <2>1, <2>2
  <2>4. Alike(Ids(M), Ids(W), ApplySupersessions(L, t2), u3)
    BY <1>2, <1>10, <1>15, <2>3, SupersessionsAlike
  <2>5. t3 = ApplySupersessions(L, t2)
    <3>1. t2 \in [Ids(M) -> Entities]
      BY <1>15 DEF Alike
    <3>2. \A n \in 1..Len(L) : L[n].type \in Creations => L[n].id \in Ids(M)
      BY <1>10, <2>2
    <3>3. ApplySupersessions(Append(L, u), t2) = ApplySupersessions(L, t2)
      BY <1>10, <2>1, <3>1, <3>2, NothingReplaced
    <3>4. QED
      BY <3>3
  <2>6. QED
    BY <2>4, <2>5
<1> HIDE DEF t3, u3
<1>17. Alike(Ids(M), Ids(W), ApplyExecutions(M, t3), ApplyExecutions(W, u3))
  BY <1>12, <1>13, <1>16, SettleAllAlike
<1>18. DeriveEntities(M) = ApplyExecutions(M, t3) /\ DeriveEntities(W) = ApplyExecutions(W, u3)
  BY DEF DeriveEntities, t1, t2, t3, u1, u2, u3
<1>19. QED
  BY <1>9, <1>17, <1>18 DEF W

\* The record of an event that u takes back is undone, or, where only its links
\* go, stands as it stood.
LEMMA TakenBack ==
    ASSUME NEW L, NEW M, NEW u, NEW b, Range(M) = Range(L) \cup {u}, Numbered(Range(M)),
           b \in CreatedBy(L), b.id \notin Annulled(L), b.id \notin b.replaces,
           u.type = "annulled", u.annuls = b.id, u.replaces = {}
    PROVE  Meaning(M, b) = IF u.narrow THEN Meaning(L, b) ELSE "undone"
<1>1. /\ b \in Range(L) /\ b \in Range(M) /\ b.type \in Creations
      /\ \A s \in Range(M) : s.id = b.id => s = b
  BY DEF CreatedBy, Numbered
<1>2. /\ Annulments(M) = Annulments(L) \cup {u}
      /\ Annulled(M) = Annulled(L) \cup {b.id}
  BY DEF Annulments, Annulled
<1>3. b.id \notin Narrowed(L)
  BY DEF Narrowed, Annulled
<1>4. CASE ~u.narrow
  <2>1. b.id \notin Narrowed(M)
    BY <1>2, <1>3, <1>4 DEF Narrowed
  <2>2. UndoneCreation(M, b)
    BY <1>2, <2>1 DEF UndoneCreation
  <2>3. QED
    BY <1>4, <2>2 DEF Meaning
<1>5. CASE u.narrow
  <2>1. Narrowed(M) = Narrowed(L) \cup {b.id}
    BY <1>2, <1>5 DEF Narrowed
  <2>2. ~UndoneCreation(M, b) /\ ~UndoneCreation(L, b)
    BY <2>1 DEF UndoneCreation
  <2>3. \A s \in Range(L) : s # b => (UndoneCreation(M, s) <=> UndoneCreation(L, s))
    BY <1>1, <1>2, <2>1 DEF UndoneCreation
  <2>4. \A s \in Range(L) : s # b => (s \in Standers(M) <=> s \in Standers(L))
    BY <1>1, <1>2 DEF Standers
  <2>5. ASSUME NEW type \in {"confirmed", "retracted"}, NEW e PROVE Says(M, type, e) <=> Says(L, type, e)
    <3>1. type \notin Creations /\ type # "annulled"
      BY DEF Creations
    <3>2. \A s \in Standers(M) : s.type = type => s \in Standers(L)
      BY <1>1, <2>4, <3>1 DEF Standers
    <3>3. \A s \in Standers(L) : s.type = type => s \in Standers(M)
      BY <1>1, <2>4, <3>1 DEF Standers
    <3>4. QED
      BY <3>2, <3>3 DEF Says
  <2>6. \A s \in Range(L) : Accepted(M, s) <=> Accepted(L, s)
    BY <2>2, <2>3, <2>5 DEF Accepted
  <2>7. Replaced(M, b.id) <=> Replaced(L, b.id)
    <3>1. \A s \in Standers(M) : b.id \in s.replaces => s \in Standers(L) /\ s \in Range(L)
      BY <2>4 DEF Standers
    <3>2. \A s \in Standers(L) : b.id \in s.replaces => s \in Standers(M) /\ s \in Range(L)
      BY <2>4 DEF Standers
    <3>3. QED
      BY <2>6, <3>1, <3>2 DEF Replaced
  <2>8. /\ Says(M, "retracted", b.id) <=> Says(L, "retracted", b.id)
        /\ Accepted(M, b) <=> Accepted(L, b)
    BY <1>1, <2>5, <2>6
  <2>9. QED
    BY <1>5, <2>2, <2>7, <2>8 DEF Meaning
<1>6. QED
  BY <1>4, <1>5

\* The two, of a clone and the event it takes back.
LEMMA UndoneOnly ==
    ASSUME FoldInv, FoldInv', NEW c \in Clones, NEW b, NEW narrow, UndoneBy(c, b, narrow),
           NEW verb, NEW event, Record(c, verb, event), Fits(event), event.type = "annulled",
           event.annuls = b.id, event.narrow = narrow
    PROVE  LET without == DeriveEntities(Without(ReadEvents(c), b.id)) now == view'[c] IN
           /\ \A e \in DOMAIN without : now[e] = without[e]
           /\ \A e \in DOMAIN now \ DOMAIN without :
                 now[e].status = IF narrow THEN view[c][e].status ELSE "undone"
<1> DEFINE L == ReadEvents(c)
           M == Append(L, event)
           W == Without(L, b.id)
<1>1. event \in Events /\ event.replaces = {}
  BY DEF Fits, Creations
<1>2. /\ L \in Seq(Events) /\ M = ReadEvents(c)' /\ Range(M) = Range(L) \cup {event}
      /\ b \in Range(L) /\ b.type # "annulled" /\ b.id \notin Annulled(L)
  BY <1>1, Reads, Recording DEF FoldInv, UndoneBy
<1>3. M \in Seq(Events)
  BY <1>1, <1>2, AppendProperties
<1>4. (Range(ReadEvents(c)) \subseteq Written)' /\ Sound(Written)'
  BY Reads, PTL DEF FoldInv
<1>5. Numbered(Range(M)) /\ \A ev \in Range(M) : \A e \in ev.replaces : e < ev.id
  BY <1>2, <1>4 DEF Sound, Numbered
<1>6. view'[c] = DeriveEntities(M)
  BY DEF FoldInv, LogsOK, Record, FoldProject
<1>7. Reflects(M, view'[c]) /\ Reflects(L, view[c])
  BY <1>2 DEF FoldInv
<1> HIDE DEF L, M
<1>8. /\ Ids(W) = {ev.id : ev \in CreatedBy(M) \ {b}}
      /\ Alike(Ids(M), Ids(W), DeriveEntities(M), DeriveEntities(W))
  BY <1>1, <1>2, <1>3, <1>5, AsIfUnwritten DEF M
<1> HIDE DEF W
<1>9. /\ DOMAIN view'[c] = Ids(M) /\ DOMAIN DeriveEntities(W) = Ids(W)
      /\ \A e \in Ids(W) : view'[c][e] = DeriveEntities(W)[e]
  BY <1>6, <1>8 DEF Alike
<1>10. ASSUME NEW e \in Ids(M) \ Ids(W)
       PROVE  view'[c][e].status = IF narrow THEN view[c][e].status ELSE "undone"
  <2>1. e = b.id /\ b \in CreatedBy(M)
    BY <1>8, <1>10 DEF Ids
  <2>2. b \in CreatedBy(L)
    BY <1>2, <2>1 DEF CreatedBy
  <2>3. b.id \notin b.replaces
    <3>1. b.id \in Nat /\ b \in Range(M)
      BY <1>2, <1>5 DEF Numbered, Events
    <3>2. QED
      BY <1>5, <3>1
  <2>4. Meaning(M, b) = IF event.narrow THEN Meaning(L, b) ELSE "undone"
    BY <1>1, <1>2, <1>5, <2>2, <2>3, TakenBack
  <2>5. view'[c][b.id].status = Meaning(M, b) /\ view[c][b.id].status = Meaning(L, b)
    BY <1>7, <2>1, <2>2 DEF Reflects
  <2>6. QED
    BY <2>1, <2>4, <2>5
<1>11. QED
  BY <1>9, <1>10 DEF W, L

\* An undo leaves every other record, with all its fields, as if the event it
\* annuls had never been written, and the record of that event undone, or as it
\* stood where only its links go: collectAnnulled (entities.ts) and undo.ts.
THEOREM AnUndoTakesBackOneEvent == Spec => UndoRestores
<1> DEFINE Restored(c) == (RecordedBy(c) /\ Recorded(c).annuls # None) =>
        LET ev == Recorded(c) without == DeriveEntities(Without(ReadEvents(c), ev.annuls)) now == view'[c] IN
        /\ \A e \in DOMAIN without : now[e] = without[e]
        /\ \A e \in DOMAIN now \ DOMAIN without :
              now[e].status = IF ev.narrow THEN view[c][e].status ELSE "undone"
<1>1. ASSUME FoldInv, NEW c \in Clones, NEW d \in Clones, NEW verb, NEW event, Fits(event),
             Record(d, verb, event), RecordedBy(c)
      PROVE  c = d /\ Recorded(c) = event
  <2>1. tail \in [Clones -> Seq(Events)] /\ tail' = [tail EXCEPT ![d] = Append(tail[d], event)]
    BY <1>1 DEF FoldInv, LogsOK, Record
  <2>2. c = d
    BY <1>1, <2>1 DEF RecordedBy
  <2>3. tail'[c] = Append(tail[c], event) /\ tail[c] \in Seq(Events) /\ event \in Events
    BY <1>1, <2>1, <2>2 DEF Fits
  <2>4. QED
    BY <2>2, <2>3, AppendProperties DEF Recorded
<1>2. ASSUME FoldInv, FoldInv', NEW c \in Clones, NEW d \in Clones,
             \/ Add(d) \/ StateConfirm(d) \/ StateRetract(d)
             \/ StateStart(d) \/ StateBlock(d) \/ StateUnblock(d) \/ StateDone(d)
      PROVE  Restored(c)
  <2>1. PICK verb, event : Record(d, verb, event) /\ Fits(event) /\ event.annuls = None
    BY <1>2, VerbsRecord DEF TakesNothingBack
  <2>2. RecordedBy(c) => Recorded(c) = event
    BY <1>1, <1>2, <2>1
  <2>3. QED
    BY <2>1, <2>2
<1>3. ASSUME FoldInv, FoldInv', NEW c \in Clones, NEW d \in Clones, Undo(d) PROVE Restored(c)
  <2>1. PICK b, narrow : UndoneBy(d, b, narrow)
    BY <1>3, UndoRecords
  <2>2. PICK verb, event : /\ Record(d, verb, event) /\ Fits(event) /\ event.type = "annulled"
                           /\ event.annuls = b.id /\ event.narrow = narrow
    BY <2>1 DEF UndoneBy
  <2>3. RecordedBy(c) => c = d /\ Recorded(c) = event
    BY <1>1, <1>3, <2>2
  <2>4. LET without == DeriveEntities(Without(ReadEvents(d), b.id)) now == view'[d] IN
        /\ \A e \in DOMAIN without : now[e] = without[e]
        /\ \A e \in DOMAIN now \ DOMAIN without :
              now[e].status = IF narrow THEN view[d][e].status ELSE "undone"
    BY <1>3, <2>1, <2>2, UndoneOnly
  <2>5. QED
    BY <2>2, <2>3, <2>4
<1>4. ASSUME NEW c \in Clones, NEW d \in Clones, Pull(d) \/ Push(d) \/ UNCHANGED vars PROVE Restored(c)
  BY <1>4 DEF RecordedBy, Pull, Push, vars
<1> HIDE DEF Restored
<1>5. FoldInv /\ [Next]_vars => \A c \in Clones : Restored(c)
  <2> SUFFICES ASSUME FoldInv, [Next]_vars, NEW c \in Clones PROVE Restored(c)
    OBVIOUS
  <2>1. FoldInv'
    BY FoldStep
  <2>2. CASE UNCHANGED vars
    BY <1>4, <2>2
  <2>3. CASE Next
    BY <1>2, <1>3, <1>4, <2>1, <2>3 DEF Next
  <2>4. QED
    BY <2>2, <2>3
<1>6. Spec => [][\A c \in Clones : Restored(c)]_vars
  <2>1. FoldInv /\ [Next]_vars => [\A c \in Clones : Restored(c)]_vars
    BY <1>5
  <2>2. QED
    BY <2>1, FoldInvariant, PTL DEF Spec
<1>7. QED
  BY <1>6 DEF UndoRestores, Restored

-----------------------------------------------------------------------------
(* The store *)

Points == {"idle", "fold", "page", "add", "adding", "status", "commit", "committing",
           "pull", "replay", "push"}
Inside == {"adding", "committing"}
Sayings == {"nothing", "synced"}
Locals == [mine : SUBSET Line, seen : SUBSET Line, tried : BOOLEAN,
           then : {"write", "pull", "push"},
           said : Sayings]
Rebase == [on : BOOLEAN, tree : Tree, onto : Version]

TypeOK ==
    /\ work \in [Trees -> Tree] /\ index \in [Trees -> Tree] /\ head \in [Trees -> Tree]
    /\ lock \in [Trees -> Sessions \cup {Unlocked}]
    /\ orig \in [Trees -> Rebase]
    /\ base \in [Trees -> Version] /\ remote \in Version
    /\ recorded \in [Trees -> SUBSET Line] /\ IsFiniteSet(Appended)
    /\ pc \in [Sessions -> Points] /\ local \in [Sessions -> Locals]

(* A version the remote had: it has grown since, and its number tells it.  *)
Past(v) ==
    /\ v.n <= remote.n /\ v.tree.lines \subseteq remote.tree.lines
    /\ v.n = remote.n => v = remote

(* Outside a rebase what is committed is staged, what is staged is in the   *)
(* checkout, and so is what was recorded there; within one the branch it    *)
(* began from has it all, and the checkout is the remote's tip.             *)
TreeOK(c) ==
    /\ Past(base[c])
    /\ lock[c] # Unlocked => Home[lock[c]] = c /\ pc[lock[c]] \in Inside
    /\ ~orig[c].on =>
          /\ base[c].tree.lines \subseteq head[c].lines
          /\ head[c].lines \subseteq index[c].lines
          /\ index[c].lines \subseteq work[c].lines
          /\ recorded[c] \subseteq work[c].lines
    /\ orig[c].on =>
          /\ recorded[c] \subseteq orig[c].tree.lines
          /\ base[c].tree.lines \subseteq orig[c].tree.lines
          /\ head[c] = orig[c].onto.tree /\ index[c] = head[c] /\ work[c] = head[c]
          /\ Past(orig[c].onto)
          /\ \E s \in Sessions : Home[s] = c /\ pc[s] = "replay"

(* Who syncs a checkout is alone in it, and the lines it set out to share   *)
(* are in the checkout, then on the branch, then on the remote.             *)
SessionOK(s) ==
    /\ pc[s] \in Inside <=> lock[Home[s]] = s
    /\ pc[s] = "idle" => local[s].then = "write"
    /\ pc[s] \in {"pull", "replay"} => local[s].then = "pull"
    /\ pc[s] = "push" => local[s].then = "push"
    /\ pc[s] = "replay" => orig[Home[s]].on
    /\ Syncing(s) => \A o \in Others(s) : pc[o] = "idle"
    /\ local[s].then = "pull" /\ orig[Home[s]].on =>
          local[s].mine \subseteq orig[Home[s]].tree.lines
    /\ local[s].then = "pull" /\ ~orig[Home[s]].on =>
          local[s].mine \subseteq work[Home[s]].lines
    /\ local[s].then = "push" => local[s].mine \subseteq head[Home[s]].lines
    /\ pc[s] = "idle" /\ local[s].said = "synced" =>
          local[s].mine \subseteq remote.tree.lines

IInv == TypeOK /\ (\A c \in Trees : TreeOK(c)) /\ (\A s \in Sessions : SessionOK(s))

(* A step of one session in its checkout: other checkouts and sessions are  *)
(* as they were, nobody else syncs this one, and its lock goes to and from  *)
(* the session alone.                                                       *)
OnlyHere(s) ==
    /\ \A d \in Trees \ {Home[s]} :
          /\ work'[d] = work[d] /\ index'[d] = index[d] /\ head'[d] = head[d]
          /\ lock'[d] = lock[d] /\ orig'[d] = orig[d] /\ base'[d] = base[d]
          /\ recorded'[d] = recorded[d]
    /\ \A q \in Sessions \ {s} : pc'[q] = pc[q] /\ local'[q] = local[q]
    /\ \A q \in Others(s) : ~Syncing(q)
    /\ \/ lock'[Home[s]] = lock[Home[s]]
       \/ {lock[Home[s]], lock'[Home[s]]} \subseteq {s, Unlocked}

(* What the rest of the store needs of such a step: what was a version of   *)
(* the remote stays one.                                                    *)
Grown ==
    /\ \A v \in Version : Past(v) => Past(v)'
    /\ remote.tree.lines \subseteq remote'.tree.lines

(* Who leaves the remote alone makes no difference to it.                   *)
LEMMA StandingStill == ASSUME UNCHANGED remote PROVE Grown
  BY DEF Grown, Past

(* Then the invariant is kept elsewhere, and has to be shown here only.     *)
LEMMA Rest ==
    ASSUME IInv, TypeOK', NEW s \in Sessions, OnlyHere(s), Grown,
           TreeOK(Home[s])', SessionOK(s)'
    PROVE  IInv'
  <1> USE StoreAssumption
  <1>1. ASSUME NEW d \in Trees, d # Home[s] PROVE TreeOK(d)'
    <2>1. TreeOK(d) /\ base[d] \in Version /\ orig[d].onto \in Version
          /\ lock[d] \in Sessions \cup {Unlocked}
      BY <1>1 DEF IInv, TypeOK, Rebase
    <2>2. \A q \in Sessions : Home[q] = d => pc'[q] = pc[q]
      BY <1>1 DEF OnlyHere
    <2>3. Past(base[d])' /\ (Past(orig[d].onto) => Past(orig[d].onto)')
      BY <1>1, <2>1 DEF TreeOK, OnlyHere, Grown, Past
    <2> QED BY <1>1, <2>1, <2>2, <2>3 DEF TreeOK, OnlyHere
  <1>2. ASSUME NEW q \in Sessions, q # s PROVE SessionOK(q)'
    <2>1. SessionOK(q) /\ Home[q] \in Trees BY DEF IInv
    <2>2. pc'[q] = pc[q] /\ local'[q] = local[q] /\ (Syncing(q)' <=> Syncing(q))
      BY <1>2 DEF OnlyHere, Syncing
    <2>3. remote.tree.lines \subseteq remote'.tree.lines BY DEF Grown
    <2>4. CASE Home[q] # Home[s]
      <3>1. \A o \in Others(q) : pc'[o] = pc[o] BY <2>4 DEF OnlyHere, Others
      <3> QED BY <2>1, <2>2, <2>3, <2>4, <3>1 DEF SessionOK, OnlyHere
    <2>5. CASE Home[q] = Home[s]
      <3>1. q \in Others(s) /\ local[q].then = "write"
        BY <1>2, <2>5 DEF Others, OnlyHere, Syncing
      <3>2. (lock'[Home[q]] = q) <=> (lock[Home[q]] = q)
        BY <1>2, <2>5 DEF OnlyHere
      <3> QED BY <2>1, <2>2, <2>3, <3>1, <3>2 DEF SessionOK, Syncing
    <2> QED BY <2>4, <2>5
  <1> QED BY <1>1, <1>2 DEF IInv

(* Who takes a step is alone in its checkout, or nobody syncs it.           *)
LEMMA NobodyElse ==
    ASSUME IInv, NEW s \in Sessions, pc[s] # "idle"
    PROVE  \A q \in Others(s) : ~Syncing(q)
  <1>1. \A q \in Others(s) : q \in Sessions /\ s \in Others(q) BY DEF Others
  <1> QED BY <1>1 DEF IInv, SessionOK

(* A rebase is its session's: nobody else is at work in the checkout.       *)
LEMMA InRebase ==
    ASSUME IInv, NEW s \in Sessions, pc[s] # "idle", orig[Home[s]].on
    PROVE  pc[s] = "replay" /\ lock[Home[s]] = Unlocked
  <1> USE StoreAssumption
  <1>1. PICK q \in Sessions : Home[q] = Home[s] /\ pc[q] = "replay"
    BY DEF IInv, TreeOK
  <1>2. Syncing(q) BY <1>1 DEF IInv, SessionOK, Syncing
  <1>3. q = s
    <2> SUFFICES ASSUME q # s PROVE FALSE OBVIOUS
    <2>1. s \in Others(q) BY <1>1 DEF Others
    <2> QED BY <1>2, <2>1 DEF IInv, SessionOK
  <1>4. lock[Home[s]] = Unlocked
    <2> SUFFICES ASSUME lock[Home[s]] # Unlocked PROVE FALSE OBVIOUS
    <2>1. Home[s] \in Trees /\ lock[Home[s]] \in Sessions BY DEF IInv, TypeOK
    <2>2. Home[lock[Home[s]]] = Home[s] /\ pc[lock[Home[s]]] \in Inside
      BY <2>1 DEF IInv, TreeOK
    <2>3. lock[Home[s]] # s BY <1>1, <1>3, <2>2 DEF Inside
    <2>4. lock[Home[s]] \in Others(q) BY <1>3, <2>1, <2>2, <2>3 DEF Others
    <2>5. pc[lock[Home[s]]] = "idle" BY <1>2, <2>4 DEF IInv, SessionOK
    <2> QED BY <2>2, <2>5 DEF Inside
  <1> QED BY <1>1, <1>3, <1>4

(* One session moves.                                                       *)
LEMMA Moves ==
    ASSUME TypeOK, NEW s \in Sessions, NEW x \in Points, NEW r \in Locals, Goto(s, x), Hold(s, r)
    PROVE  /\ pc' \in [Sessions -> Points] /\ local' \in [Sessions -> Locals]
           /\ pc'[s] = x /\ local'[s] = r
           /\ \A q \in Sessions \ {s} : pc'[q] = pc[q] /\ local'[q] = local[q]
  BY DEF TypeOK, Goto, Hold

(* What a session holds, field by field.                                    *)
LEMMA LocalFields ==
    ASSUME NEW r \in Locals, NEW L \in SUBSET Line
    PROVE  /\ [r EXCEPT !.seen = L] \in Locals /\ [r EXCEPT !.tried = TRUE] \in Locals
           /\ [r EXCEPT !.tried = FALSE] \in Locals /\ [r EXCEPT !.then = "push"] \in Locals
           /\ [Idle EXCEPT !.mine = L] \in Locals
           /\ [Idle EXCEPT !.mine = L, !.then = "pull"] \in Locals
  BY DEF Locals, Idle, Sayings

(* A checkout's tree with a line more, or another page.                     *)
LEMMA LineMore ==
    ASSUME NEW f \in [Trees -> Tree], NEW c \in Trees, NEW l \in Line
    PROVE  LET g == [f EXCEPT ![c].lines = @ \cup {l}] IN
           /\ g \in [Trees -> Tree] /\ g[c].lines = f[c].lines \cup {l}
           /\ \A d \in Trees \ {c} : g[d] = f[d]
  <1> DEFINE t == [f[c] EXCEPT !.lines = @ \cup {l}]
  <1>1. f[c] \in Tree OBVIOUS
  <1>2. t \in Tree /\ t.lines = f[c].lines \cup {l} BY <1>1 DEF Tree
  <1> HIDE DEF t
  <1>3. [f EXCEPT ![c] = t] \in [Trees -> Tree] BY <1>2
  <1> QED BY <1>2, <1>3 DEF t

(* Writing a page leaves the log of the checkout as it was.                 *)
LEMMA OtherPage ==
    ASSUME NEW f \in [Trees -> Tree], NEW c \in Trees, NEW P \in SUBSET Line
    PROVE  LET g == [f EXCEPT ![c].page = P] IN
           /\ g \in [Trees -> Tree] /\ g[c].lines = f[c].lines
           /\ \A d \in Trees \ {c} : g[d] = f[d]
  <1> DEFINE t == [f[c] EXCEPT !.page = P]
  <1>1. f[c] \in Tree OBVIOUS
  <1>2. t \in Tree /\ t.lines = f[c].lines BY <1>1 DEF Tree
  <1> HIDE DEF t
  <1>3. [f EXCEPT ![c] = t] \in [Trees -> Tree] BY <1>2
  <1> QED BY <1>2, <1>3 DEF t

(* What is kept of what a session holds when a try at the lock is noted,    *)
LEMMA LocalKept ==
    ASSUME NEW r \in Locals, NEW b \in BOOLEAN
    PROVE  LET e == [r EXCEPT !.tried = b] IN
           e \in Locals /\ e.mine = r.mine /\ e.then = r.then /\ e.said = r.said
  BY DEF Locals

(* when its sync has pulled,                                                *)
LEMMA LocalPushing ==
    ASSUME NEW r \in Locals
    PROVE  LET e == [r EXCEPT !.then = "push"] IN
           e \in Locals /\ e.mine = r.mine /\ e.then = "push" /\ e.said = r.said
  BY DEF Locals

(* and when its command ends.                                               *)
LEMMA LocalEnded ==
    ASSUME NEW r \in Locals
    PROVE  /\ LET e == [Idle EXCEPT !.mine = r.mine, !.said = "synced"] IN
              e \in Locals /\ e.mine = r.mine /\ e.then = "write"
           /\ Idle \in Locals /\ Idle.then = "write" /\ Idle.said # "synced"
  BY DEF Locals, Idle, Sayings

(* A command ends with anything but a sync's word that it is done.          *)
LEMMA EndMoves ==
    ASSUME IInv, NEW s \in Sessions,
           NEW said \in {"died", "noticed", "committed", "commit failed", "failed"},
           End(s, said)
    PROVE  \E x \in Points, r \in Locals :
              /\ Goto(s, x) /\ Hold(s, r)
              /\ x = "idle" /\ r.then = "write" /\ r.said # "synced"
  <1>1. local[s] \in Locals BY DEF IInv, TypeOK
  <1>2. "idle" \in Points BY DEF Points
  <1>3. Goto(s, "idle") /\ Hold(s, Idle) BY DEF End
  <1> QED BY <1>1, <1>2, <1>3, LocalEnded

(* commitAll returns to the command it was called from.                     *)
LEMMA ReturnMoves ==
    ASSUME IInv, NEW s \in Sessions, NEW said \in {"noticed", "committed"}, Return(s, said)
    PROVE  \E x \in Points, r \in Locals :
              /\ Goto(s, x) /\ Hold(s, r)
              /\ \/ x = "idle" /\ r.then = "write" /\ r.said # "synced"
                 \/ /\ x = local[s].then /\ x \in {"pull", "push"}
                    /\ r.then = x /\ r.mine = local[s].mine
  <1>1. local[s] \in Locals BY DEF IInv, TypeOK
  <1>2. CASE End(s, said) BY <1>2, EndMoves
  <1>3. CASE /\ Syncing(s) /\ Goto(s, local[s].then)
             /\ Hold(s, [local[s] EXCEPT !.tried = FALSE])
    <2> DEFINE e == [local[s] EXCEPT !.tried = FALSE]
    <2>1. e \in Locals /\ e.mine = local[s].mine /\ e.then = local[s].then
      BY <1>1, LocalKept
    <2>2. local[s].then \in Points /\ local[s].then \in {"pull", "push"}
      BY <1>1, <1>3 DEF Locals, Syncing, Points
    <2> HIDE DEF e
    <2> QED BY <1>3, <2>1, <2>2 DEF e
  <1> QED BY <1>2, <1>3 DEF Return

(* A move outside git's lock that leaves the checkout and what the session  *)
(* carries as they are, or that ends its command.                           *)
LEMMA MoveKeeps ==
    ASSUME IInv, NEW s \in Sessions, pc[s] \notin {"idle", "replay"} \cup Inside,
           UNCHANGED <<trees, lock, orig, base, remote, recorded>>,
           NEW x \in Points, NEW r \in Locals, Goto(s, x), Hold(s, r),
           x \notin {"replay"} \cup Inside,
           \/ x = "idle" /\ r.then = "write" /\ r.said # "synced"
           \/ /\ x # "idle" /\ r.mine = local[s].mine /\ r.then = local[s].then
              /\ (x \in {"pull", "push"} => r.then = x)
    PROVE  IInv'
  <1> USE StoreAssumption
  <1>1. TypeOK /\ TreeOK(Home[s]) /\ SessionOK(s) /\ Home[s] \in Trees BY DEF IInv
  <1>2. /\ pc' \in [Sessions -> Points] /\ local' \in [Sessions -> Locals]
        /\ pc'[s] = x /\ local'[s] = r
        /\ \A q \in Sessions \ {s} : pc'[q] = pc[q] /\ local'[q] = local[q]
    BY <1>1, Moves
  <1>3. ~orig[Home[s]].on /\ \A q \in Others(s) : ~Syncing(q)
    BY InRebase, NobodyElse
  <1>4. TypeOK' BY <1>1, <1>2 DEF TypeOK, Appended, trees
  <1>5. OnlyHere(s) BY <1>2, <1>3 DEF OnlyHere, trees
  <1>6. TreeOK(Home[s])' BY <1>1, <1>2, <1>3 DEF TreeOK, Past, trees, TypeOK
  <1>7. SessionOK(s)'
    BY <1>1, <1>2, <1>3 DEF SessionOK, Syncing, trees, Others
  <1> QED BY <1>4, <1>5, <1>6, <1>7, Rest, StandingStill

(* A step of a command that goes on, with the branch where it was.          *)
LEMMA GoesOn ==
    ASSUME IInv, NEW s \in Sessions, pc[s] # "idle", ~orig[Home[s]].on,
           \A q \in Sessions \ {s} : pc'[q] = pc[q],
           local'[s].mine = local[s].mine, local'[s].then = local[s].then,
           pc'[s] \notin {"idle", "pull", "push", "replay"},
           pc'[s] \in Inside <=> lock'[Home[s]] = s,
           UNCHANGED <<orig, head>>, work'[Home[s]].lines = work[Home[s]].lines
    PROVE  SessionOK(s)'
  <1>1. SessionOK(s) BY DEF IInv
  <1>2. \A q \in Others(s) : pc'[q] = pc[q] BY DEF Others
  <1> QED BY <1>1, <1>2 DEF SessionOK, Syncing

(* So is the end of a command, however it ends short of a sync's last word, *)
LEMMA EndKeeps ==
    ASSUME IInv, NEW s \in Sessions, pc[s] \notin {"idle", "replay"} \cup Inside,
           UNCHANGED <<trees, lock, orig, base, remote, recorded>>,
           NEW said \in {"died", "noticed", "committed", "commit failed", "failed"}, End(s, said)
    PROVE  IInv'
  <1>1. PICK x \in Points, r \in Locals :
              /\ Goto(s, x) /\ Hold(s, r)
              /\ x = "idle" /\ r.then = "write" /\ r.said # "synced"
    BY EndMoves
  <1>2. x \notin {"replay"} \cup Inside BY <1>1 DEF Inside
  <1> QED BY <1>1, <1>2, MoveKeeps

(* and the return of commitAll.                                             *)
LEMMA ReturnKeeps ==
    ASSUME IInv, NEW s \in Sessions, pc[s] \notin {"idle", "replay"} \cup Inside,
           UNCHANGED <<trees, lock, orig, base, remote, recorded>>,
           NEW said \in {"noticed", "committed"}, Return(s, said)
    PROVE  IInv'
  <1>1. PICK x \in Points, r \in Locals :
              /\ Goto(s, x) /\ Hold(s, r)
              /\ \/ x = "idle" /\ r.then = "write" /\ r.said # "synced"
                 \/ /\ x = local[s].then /\ x \in {"pull", "push"}
                    /\ r.then = x /\ r.mine = local[s].mine
    BY ReturnMoves
  <1>2. x \notin {"replay"} \cup Inside BY <1>1 DEF Inside
  <1> QED BY <1>1, <1>2, MoveKeeps

(* Every step keeps the invariant: one step of the proof per action.       *)
LEMMA StepIInv == ASSUME ~Beside PROVE IInv /\ [NextGit]_gitVars => IInv'
<1> SUFFICES ASSUME IInv, [NextGit]_gitVars PROVE IInv' OBVIOUS
<1> USE StoreAssumption DEF trees
<1>n. ~Beside OBVIOUS
<1>a. TypeOK BY DEF IInv
<1>b. ASSUME NEW s \in Sessions
      PROVE  /\ Home[s] \in Trees /\ local[s] \in Locals /\ pc[s] \in Points
             /\ TreeOK(Home[s]) /\ SessionOK(s)
  BY DEF IInv, TypeOK
<1>c. \A c \in Trees : work[c].lines \in SUBSET Line BY <1>a DEF TypeOK, Tree
<1>d. ASSUME NEW s \in Sessions, UNCHANGED local PROVE Hold(s, local[s])
  BY <1>a, <1>d DEF Hold, TypeOK
<1>1. ASSUME NEW s \in Sessions, Write(s) PROVE IInv'
  <2>0. PICK kind \in Kinds :
           LET line == [n |-> Cardinality(Appended) + 1, kind |-> kind] IN
           /\ work' = [work EXCEPT ![Home[s]].lines = @ \cup {line}]
           /\ recorded' = [recorded EXCEPT ![Home[s]] = @ \cup {line}]
           /\ Hold(s, [Idle EXCEPT !.mine = {line}])
    BY <1>1 DEF Write
  <2> DEFINE l == [n |-> Cardinality(Appended) + 1, kind |-> kind]
  <2>9. l \in Line
    <3>1. Cardinality(Appended) \in Nat BY <1>a, FS_CardinalityType DEF TypeOK
    <3> QED BY <1>1, <3>1 DEF Write, Line
  <2> HIDE DEF l
  <2>1. /\ pc' \in [Sessions -> Points] /\ local' \in [Sessions -> Locals]
        /\ pc'[s] = "fold" /\ local'[s] = [Idle EXCEPT !.mine = {l}]
        /\ \A q \in Sessions \ {s} : pc'[q] = pc[q] /\ local'[q] = local[q]
    <3>1. "fold" \in Points /\ [Idle EXCEPT !.mine = {l}] \in Locals
      BY <1>a, <1>b, LocalFields, <2>9 DEF Points
    <3> QED BY <1>1, <1>a, <2>0, <3>1, Moves DEF Write, l
  <2>2. ~orig[Home[s]].on /\ \A q \in Others(s) : ~Syncing(q)
    <3>1. \A q \in Others(s) : ~Syncing(q) BY <1>1, <1>n DEF Write
    <3>2. ASSUME orig[Home[s]].on PROVE FALSE
      <4>1. PICK q \in Sessions : Home[q] = Home[s] /\ pc[q] = "replay"
        BY <1>b, <3>2 DEF TreeOK
      <4>2. q \in Others(s) /\ Syncing(q)
        BY <1>1, <1>b, <4>1 DEF Write, Others, SessionOK, Syncing
      <4> QED BY <3>1, <4>2
    <3> QED BY <3>1, <3>2
  <2>8. /\ work' = [work EXCEPT ![Home[s]].lines = @ \cup {l}]
        /\ recorded' = [recorded EXCEPT ![Home[s]] = @ \cup {l}]
        /\ UNCHANGED <<index, head, lock, orig, base, remote>>
    BY <1>1, <2>0 DEF Write, l
  <2>3. TypeOK'
    <3>1. work' \in [Trees -> Tree]
      <4>1. work \in [Trees -> Tree] /\ Home[s] \in Trees BY <1>a, <1>b DEF TypeOK
      <4> QED BY <2>8, <2>9, <4>1, LineMore
    <3>2. recorded' \in [Trees -> SUBSET Line]
      <4>1. recorded \in [Trees -> SUBSET Line] /\ {l} \in SUBSET Line
        BY <1>a, <2>9 DEF TypeOK
      <4> QED BY <2>8, <4>1
    <3>3. IsFiniteSet(Appended')
      <4>1. \A c \in Trees : recorded'[c] = IF c = Home[s] THEN recorded[c] \cup {l}
                                            ELSE recorded[c]
        BY <1>a, <2>8 DEF TypeOK
      <4>2. ASSUME NEW m PROVE m \in Appended' <=> m \in Appended \cup {l}
        <5>1. m \in Appended' <=> \E c \in Trees : m \in recorded'[c] BY DEF Appended
        <5>2. m \in Appended <=> \E c \in Trees : m \in recorded[c] BY DEF Appended
        <5> QED BY <1>b, <4>1, <5>1, <5>2
      <4>3. Appended' = Appended \cup {l} BY <4>2
      <4> QED BY <1>a, <4>3, FS_AddElement DEF TypeOK
    <3> QED BY <1>a, <2>1, <2>8, <3>1, <3>2, <3>3 DEF TypeOK
  <2>4. OnlyHere(s) BY <1>a, <2>1, <2>2, <2>8 DEF OnlyHere, TypeOK
  <2>5. TreeOK(Home[s])'
    <3>1. /\ work'[Home[s]].lines = work[Home[s]].lines \cup {l}
          /\ recorded'[Home[s]] = recorded[Home[s]] \cup {l}
      <4>1. work \in [Trees -> Tree] /\ Home[s] \in Trees
            /\ recorded \in [Trees -> SUBSET Line]
        BY <1>a, <1>b DEF TypeOK
      <4> QED BY <2>8, <2>9, <4>1, LineMore
    <3>2. lock[Home[s]] # s BY <1>1, <1>b DEF Write, SessionOK, Inside
    <3>3. lock[Home[s]] # Unlocked => pc'[lock[Home[s]]] = pc[lock[Home[s]]]
      BY <1>a, <2>1, <3>2 DEF TypeOK
    <3> QED BY <1>b, <2>2, <2>8, <3>1, <3>3 DEF TreeOK, Past
  <2>6. SessionOK(s)'
    BY <1>1, <1>a, <1>b, <2>1, <2>2, <2>8 DEF Write, SessionOK, Syncing, Inside, Idle
  <2>7. Grown BY <2>8, StandingStill
  <2> QED BY <2>3, <2>4, <2>5, <2>6, <2>7, Rest
<1>2. ASSUME NEW s \in Sessions, SyncStart(s) PROVE IInv'
  <2>1. /\ pc' \in [Sessions -> Points] /\ local' \in [Sessions -> Locals]
        /\ pc'[s] = "add" /\ local'[s] = [Idle EXCEPT !.mine = work[Home[s]].lines, !.then = "pull"]
        /\ \A q \in Sessions \ {s} : pc'[q] = pc[q] /\ local'[q] = local[q]
    <3>1. "add" \in Points /\ [Idle EXCEPT !.mine = work[Home[s]].lines, !.then = "pull"] \in Locals
      BY <1>a, <1>b, LocalFields, <1>c DEF Points
    <3> QED BY <1>2, <1>a, <3>1, Moves DEF SyncStart
  <2>2. ~orig[Home[s]].on /\ \A q \in Others(s) : ~Syncing(q)
    <3>1. \A q \in Others(s) : pc[q] = "idle" BY <1>2, <1>n DEF SyncStart
    <3>2. \A q \in Others(s) : ~Syncing(q) BY <1>b, <3>1 DEF Others, SessionOK, Syncing
    <3>3. \A q \in Sessions : Home[q] = Home[s] => pc[q] = "idle"
      BY <1>2, <3>1 DEF SyncStart, Others
    <3> QED BY <1>b, <3>2, <3>3 DEF TreeOK
  <2>3. TypeOK' BY <1>2, <1>a, <1>b, <2>1 DEF SyncStart, TypeOK, Appended
  <2>4. OnlyHere(s) BY <1>2, <1>a, <1>b, <2>1, <2>2 DEF SyncStart, OnlyHere, TypeOK
  <2>5. TreeOK(Home[s])'
    BY <1>2, <1>a, <1>b, <2>1, <2>2 DEF SyncStart, TreeOK, Past, TypeOK, Inside
  <2>6. SessionOK(s)'
    BY <1>n, <1>2, <1>a, <1>b, <2>1, <2>2
       DEF SyncStart, SessionOK, Syncing, Inside, TypeOK, Idle, Others
  <2>7. Grown BY <1>2, StandingStill DEF SyncStart
  <2> QED BY <2>3, <2>4, <2>5, <2>6, <2>7, Rest
<1>3. ASSUME NEW s \in Sessions, FoldRead(s) PROVE IInv'
  <2>1. /\ pc' \in [Sessions -> Points] /\ local' \in [Sessions -> Locals]
        /\ pc'[s] = "page" /\ local'[s] = [local[s] EXCEPT !.seen = work[Home[s]].lines]
        /\ \A q \in Sessions \ {s} : pc'[q] = pc[q] /\ local'[q] = local[q]
    <3>1. "page" \in Points /\ [local[s] EXCEPT !.seen = work[Home[s]].lines] \in Locals
      BY <1>a, <1>b, LocalFields, <1>c DEF Points
    <3> QED BY <1>3, <1>a, <3>1, Moves DEF FoldRead
  <2>2. ~orig[Home[s]].on /\ \A q \in Others(s) : ~Syncing(q)
    BY <1>3, InRebase, NobodyElse DEF FoldRead
  <2>3. TypeOK' BY <1>3, <1>a, <1>b, <2>1 DEF FoldRead, TypeOK, Appended
  <2>4. OnlyHere(s) BY <1>3, <1>a, <1>b, <2>1, <2>2 DEF FoldRead, OnlyHere, TypeOK
  <2>5. TreeOK(Home[s])'
    BY <1>3, <1>a, <1>b, <2>1, <2>2 DEF FoldRead, TreeOK, Past, TypeOK, Inside
  <2>6. SessionOK(s)'
    <3>1. local'[s].mine = local[s].mine /\ local'[s].then = local[s].then
      BY <1>b, <2>1 DEF Locals
    <3>2. pc[s] = "fold" /\ UNCHANGED <<work, head, orig, lock>> BY <1>3 DEF FoldRead
    <3>3. lock'[Home[s]] # s BY <1>b, <3>2 DEF SessionOK, Inside
    <3> QED BY <2>1, <2>2, <3>1, <3>2, <3>3, GoesOn DEF Inside
  <2>7. Grown BY <1>3, StandingStill DEF FoldRead
  <2> QED BY <2>3, <2>4, <2>5, <2>6, <2>7, Rest
<1>4. ASSUME NEW s \in Sessions, FoldWrite(s) PROVE IInv'
  <2>1. /\ pc' \in [Sessions -> Points] /\ local' \in [Sessions -> Locals]
        /\ pc'[s] = "add" /\ local'[s] = local[s]
        /\ \A q \in Sessions \ {s} : pc'[q] = pc[q] /\ local'[q] = local[q]
    <3>1. "add" \in Points /\ local[s] \in Locals
      BY <1>a, <1>b, LocalFields DEF Points
    <3> QED BY <1>4, <1>a, <3>1, Moves, <1>d DEF FoldWrite
  <2>8. Rendered(local[s].seen) \in SUBSET Line BY <1>b DEF Rendered, Locals
  <2>9. /\ work' \in [Trees -> Tree] /\ work'[Home[s]].lines = work[Home[s]].lines
        /\ \A d \in Trees \ {Home[s]} : work'[d] = work[d]
    <3>1. work \in [Trees -> Tree] BY <1>a DEF TypeOK
    <3> DEFINE P == Rendered(local[s].seen)
    <3>2. work' = [work EXCEPT ![Home[s]].page = P] BY <1>4 DEF FoldWrite
    <3>3. Home[s] \in Trees /\ P \in SUBSET Line BY <1>b, <2>8
    <3> HIDE DEF P
    <3> QED BY <3>1, <3>2, <3>3, OtherPage
  <2>2. ~orig[Home[s]].on /\ \A q \in Others(s) : ~Syncing(q)
    BY <1>4, InRebase, NobodyElse DEF FoldWrite
  <2>3. TypeOK' BY <1>4, <1>a, <1>b, <2>1, <2>9 DEF FoldWrite, TypeOK, Appended
  <2>4. OnlyHere(s) BY <1>4, <1>a, <1>b, <2>1, <2>2, <2>9 DEF FoldWrite, OnlyHere, TypeOK
  <2>5. TreeOK(Home[s])'
    BY <1>4, <1>a, <1>b, <2>1, <2>2, <2>9 DEF FoldWrite, TreeOK, Past, TypeOK, Inside
  <2>6. SessionOK(s)'
    <3>1. pc[s] = "page" /\ UNCHANGED <<head, orig, lock>> BY <1>4 DEF FoldWrite
    <3>2. lock'[Home[s]] # s BY <1>b, <3>1 DEF SessionOK, Inside
    <3> QED BY <2>1, <2>2, <2>9, <3>1, <3>2, GoesOn DEF Inside
  <2>7. Grown BY <1>4, StandingStill DEF FoldWrite
  <2> QED BY <2>3, <2>4, <2>5, <2>6, <2>7, Rest
<1>5. ASSUME NEW s \in Sessions, TakeLock(s, "add", "adding") PROVE IInv'
  <2>1. /\ pc' \in [Sessions -> Points] /\ local' \in [Sessions -> Locals]
        /\ pc'[s] = "adding" /\ local'[s] = local[s]
        /\ \A q \in Sessions \ {s} : pc'[q] = pc[q] /\ local'[q] = local[q]
    <3>1. "adding" \in Points /\ local[s] \in Locals
      BY <1>a, <1>b, LocalFields DEF Points
    <3> QED BY <1>5, <1>a, <3>1, Moves, <1>d DEF TakeLock
  <2>2. ~orig[Home[s]].on /\ \A q \in Others(s) : ~Syncing(q)
    BY <1>5, InRebase, NobodyElse DEF TakeLock
  <2>3. TypeOK' BY <1>5, <1>a, <1>b, <2>1 DEF TakeLock, TypeOK, Appended
  <2>4. OnlyHere(s) BY <1>5, <1>a, <1>b, <2>1, <2>2 DEF TakeLock, OnlyHere, TypeOK
  <2>5. TreeOK(Home[s])'
    BY <1>5, <1>a, <1>b, <2>1, <2>2 DEF TakeLock, TreeOK, Past, TypeOK, Inside
  <2>6. SessionOK(s)'
    <3>1. pc[s] = "add" /\ UNCHANGED <<work, head, orig>> BY <1>5 DEF TakeLock
    <3>2. lock'[Home[s]] = s BY <1>5, <1>a, <1>b DEF TakeLock, TypeOK
    <3> QED BY <2>1, <2>2, <3>1, <3>2, GoesOn DEF Inside
  <2>7. Grown BY <1>5, StandingStill DEF TakeLock
  <2> QED BY <2>3, <2>4, <2>5, <2>6, <2>7, Rest
<1>6. ASSUME NEW s \in Sessions, TakeLock(s, "commit", "committing") PROVE IInv'
  <2>1. /\ pc' \in [Sessions -> Points] /\ local' \in [Sessions -> Locals]
        /\ pc'[s] = "committing" /\ local'[s] = local[s]
        /\ \A q \in Sessions \ {s} : pc'[q] = pc[q] /\ local'[q] = local[q]
    <3>1. "committing" \in Points /\ local[s] \in Locals
      BY <1>a, <1>b, LocalFields DEF Points
    <3> QED BY <1>6, <1>a, <3>1, Moves, <1>d DEF TakeLock
  <2>2. ~orig[Home[s]].on /\ \A q \in Others(s) : ~Syncing(q)
    BY <1>6, InRebase, NobodyElse DEF TakeLock
  <2>3. TypeOK' BY <1>6, <1>a, <1>b, <2>1 DEF TakeLock, TypeOK, Appended
  <2>4. OnlyHere(s) BY <1>6, <1>a, <1>b, <2>1, <2>2 DEF TakeLock, OnlyHere, TypeOK
  <2>5. TreeOK(Home[s])'
    BY <1>6, <1>a, <1>b, <2>1, <2>2 DEF TakeLock, TreeOK, Past, TypeOK, Inside
  <2>6. SessionOK(s)'
    <3>1. pc[s] = "commit" /\ UNCHANGED <<work, head, orig>> BY <1>6 DEF TakeLock
    <3>2. lock'[Home[s]] = s BY <1>6, <1>a, <1>b DEF TakeLock, TypeOK
    <3> QED BY <2>1, <2>2, <3>1, <3>2, GoesOn DEF Inside
  <2>7. Grown BY <1>6, StandingStill DEF TakeLock
  <2> QED BY <2>3, <2>4, <2>5, <2>6, <2>7, Rest
<1>7. ASSUME NEW s \in Sessions, StageAll(s) PROVE IInv'
  <2>1. /\ pc' \in [Sessions -> Points] /\ local' \in [Sessions -> Locals]
        /\ pc'[s] = "status" /\ local'[s] = [local[s] EXCEPT !.tried = FALSE]
        /\ \A q \in Sessions \ {s} : pc'[q] = pc[q] /\ local'[q] = local[q]
    <3>1. "status" \in Points /\ [local[s] EXCEPT !.tried = FALSE] \in Locals
      BY <1>a, <1>b, LocalFields DEF Points
    <3> QED BY <1>7, <1>a, <3>1, Moves DEF StageAll
  <2>2. ~orig[Home[s]].on /\ \A q \in Others(s) : ~Syncing(q)
    BY <1>7, InRebase, NobodyElse DEF StageAll
  <2>3. TypeOK' BY <1>7, <1>a, <1>b, <2>1 DEF StageAll, TypeOK, Appended, Release
  <2>4. OnlyHere(s)
    <3>1. lock[Home[s]] = s /\ lock'[Home[s]] = Unlocked
      BY <1>7, <1>a, <1>b DEF StageAll, SessionOK, Inside, Release, TypeOK
    <3>2. \A d \in Trees \ {Home[s]} : lock'[d] = lock[d] /\ index'[d] = index[d]
      BY <1>7, <1>a, <1>b DEF StageAll, Release, TypeOK
    <3> QED BY <1>7, <2>1, <2>2, <3>1, <3>2 DEF StageAll, OnlyHere
  <2>5. TreeOK(Home[s])'
    BY <1>7, <1>a, <1>b, <2>1, <2>2 DEF StageAll, TreeOK, Past, TypeOK, Inside, Release
  <2>6. SessionOK(s)'
    <3>1. local'[s].mine = local[s].mine /\ local'[s].then = local[s].then
      BY <1>b, <2>1, LocalKept
    <3>2. pc[s] = "adding" /\ UNCHANGED <<work, head, orig>> BY <1>7 DEF StageAll
    <3>3. lock'[Home[s]] = Unlocked BY <1>7, <1>a, <1>b DEF StageAll, Release, TypeOK
    <3>4. lock'[Home[s]] # s BY <3>3
    <3> QED BY <2>1, <2>2, <3>1, <3>2, <3>4, GoesOn DEF Inside
  <2>7. Grown BY <1>7, StandingStill DEF StageAll
  <2> QED BY <2>3, <2>4, <2>5, <2>6, <2>7, Rest
<1>8. ASSUME NEW s \in Sessions, LockedOut(s) PROVE IInv'
  <2>1. UNCHANGED <<trees, lock, orig, base, remote, recorded>> /\ pc[s] \in {"add", "commit"}
    BY <1>8 DEF LockedOut
  <2>2. CASE Goto(s, pc[s]) /\ Hold(s, [local[s] EXCEPT !.tried = TRUE])
    <3> DEFINE r == [local[s] EXCEPT !.tried = TRUE]
    <3>1. r \in Locals /\ r.mine = local[s].mine /\ r.then = local[s].then
      BY <1>b, LocalKept
    <3>2. pc[s] \notin {"idle", "replay", "pull", "push"} \cup Inside BY <2>1 DEF Inside
    <3> HIDE DEF r
    <3> QED BY <1>b, <2>1, <2>2, <3>1, <3>2, MoveKeeps DEF r
  <2>3. CASE Return(s, "noticed") 
    BY <2>1, <2>3, ReturnKeeps DEF Inside
  <2> QED BY <1>8, <2>2, <2>3 DEF LockedOut
<1>9. ASSUME NEW s \in Sessions, Status(s) PROVE IInv'
  <2>1. UNCHANGED <<trees, lock, orig, base, remote, recorded>> /\ pc[s] = "status"
    BY <1>9 DEF Status
  <2>2. CASE Goto(s, "commit") /\ UNCHANGED local
    <3>1. Hold(s, local[s]) BY <1>d, <2>2
    <3>2. "commit" \in Points BY DEF Points
    <3> QED BY <1>b, <2>1, <2>2, <3>1, <3>2, MoveKeeps DEF Inside
  <2>3. CASE Return(s, "committed") 
    BY <2>1, <2>3, ReturnKeeps DEF Inside
  <2> QED BY <1>9, <2>2, <2>3 DEF Status
<1>10. ASSUME NEW s \in Sessions, Die(s) PROVE IInv'
  <2>1. UNCHANGED <<trees, lock, orig, base, remote, recorded>>
        /\ pc[s] \notin {"idle", "replay"} \cup Inside /\ End(s, "died")
    BY <1>10 DEF Die, Inside
  <2> QED BY <2>1, EndKeeps
<1>11. ASSUME NEW s \in Sessions, Commit(s) PROVE IInv'
  <2>1. /\ pc[s] = "committing" /\ lock' = [lock EXCEPT ![Home[s]] = Unlocked]
        /\ head' = [head EXCEPT ![Home[s]] = index[Home[s]]]
        /\ UNCHANGED <<work, index, orig, base, remote, recorded>>
    BY <1>11 DEF Commit, Release
  <2>2. ~orig[Home[s]].on /\ \A q \in Others(s) : ~Syncing(q)
    BY <2>1, InRebase, NobodyElse
  <2>3. PICK x \in Points, r \in Locals :
           /\ Goto(s, x) /\ Hold(s, r)
           /\ \/ x = "idle" /\ r.then = "write" /\ r.said # "synced"
              \/ /\ x = local[s].then /\ x \in {"pull", "push"}
                 /\ r.then = x /\ r.mine = local[s].mine
    <3>1. CASE End(s, "commit failed") BY <3>1, EndMoves
    <3>2. CASE Return(s, "committed") BY <3>2, ReturnMoves
    <3> QED BY <1>11, <3>1, <3>2 DEF Commit
  <2>4. /\ pc' \in [Sessions -> Points] /\ local' \in [Sessions -> Locals]
        /\ pc'[s] = x /\ local'[s] = r
        /\ \A q \in Sessions \ {s} : pc'[q] = pc[q] /\ local'[q] = local[q]
    BY <1>a, <2>3, Moves
  <2>5. TypeOK' BY <1>a, <2>1, <2>4 DEF TypeOK, Appended
  <2>6. OnlyHere(s) BY <1>a, <1>b, <2>1, <2>2, <2>4 DEF OnlyHere, TypeOK, SessionOK, Inside
  <2>7. TreeOK(Home[s])'
    BY <1>a, <1>b, <2>1, <2>2, <2>4 DEF TreeOK, Past, TypeOK
  <2>8. SessionOK(s)'
    <3>1. lock'[Home[s]] # s BY <1>a, <1>b, <2>1 DEF TypeOK
    <3>2. head'[Home[s]] = index[Home[s]] BY <1>a, <1>b, <2>1 DEF TypeOK
    <3>3. head[Home[s]].lines \subseteq index[Home[s]].lines BY <1>b, <2>2 DEF TreeOK
    <3>4. x \notin Inside /\ x # "replay" BY <2>3 DEF Inside
    <3>5. \A q \in Others(s) : pc'[q] = pc[q] BY <2>4 DEF Others
    <3>6. local[s].then = "pull" => local[s].mine \subseteq work[Home[s]].lines
      BY <1>b, <2>2 DEF SessionOK
    <3>7. local[s].then = "push" => local[s].mine \subseteq head'[Home[s]].lines
      BY <1>b, <3>2, <3>3 DEF SessionOK
    <3>8. local[s].then # "write" => \A q \in Others(s) : pc[q] = "idle"
      BY <1>b DEF SessionOK, Syncing
    <3>9. UNCHANGED <<orig, work>> BY <2>1
    <3> QED BY <2>2, <2>3, <2>4, <3>1, <3>4, <3>5, <3>6, <3>7, <3>8, <3>9 DEF SessionOK, Syncing
  <2> QED BY <2>1, <2>5, <2>6, <2>7, <2>8, Rest, StandingStill
<1>12. ASSUME NEW s \in Sessions, PullBegin(s) PROVE IInv'
  <2> DEFINE c == Home[s]
  <2>1. pc[s] = "pull" /\ local[s].then = "pull" /\ UNCHANGED <<lock, remote, recorded>>
    BY <1>12, <1>b DEF PullBegin, SessionOK
  <2>2. ~orig[c].on /\ \A q \in Others(s) : ~Syncing(q)
    BY <2>1, InRebase, NobodyElse
  <2>3. CASE PullFails(s)
    <3>1. UNCHANGED <<trees, orig, base>> /\ End(s, "failed")
      BY <2>2, <2>3 DEF PullFails, Abort
    <3> QED BY <2>1, <3>1, EndKeeps DEF trees, Inside
  <2> DEFINE r == [local[s] EXCEPT !.then = "push"]
  <2>r. r \in Locals /\ r.then = "push" /\ r.mine = local[s].mine /\ "fold" \in Points
        /\ r.said = local[s].said /\ "replay" \in Points
    BY <1>b, LocalPushing DEF Points
  <2>4. CASE /\ Clean(c) /\ base[c].n = remote.n /\ UNCHANGED <<trees, orig, base>>
             /\ Goto(s, "fold") /\ Hold(s, r)
    <3>1. /\ pc' \in [Sessions -> Points] /\ local' \in [Sessions -> Locals]
          /\ pc'[s] = "fold" /\ local'[s] = r
          /\ \A q \in Sessions \ {s} : pc'[q] = pc[q] /\ local'[q] = local[q]
      BY <1>a, <2>4, <2>r, Moves
    <3> HIDE DEF r
    <3>2. TypeOK' BY <1>a, <2>1, <2>4, <3>1 DEF TypeOK, Appended, trees
    <3>3. OnlyHere(s) BY <2>1, <2>2, <2>4, <3>1 DEF OnlyHere, trees
    <3>4. TreeOK(c)'
      BY <1>a, <1>b, <2>1, <2>2, <2>4, <3>1 DEF TreeOK, Past, trees, TypeOK, Inside
    <3>5. SessionOK(s)'
      BY <1>a, <1>b, <2>1, <2>2, <2>4, <2>r, <3>1
         DEF SessionOK, TreeOK, Syncing, Inside, Others, Clean, trees
    <3> QED BY <2>1, <3>2, <3>3, <3>4, <3>5, Rest, StandingStill
  <2>5. CASE /\ Clean(c) /\ ResetTo(c, remote.tree) /\ head[c] = base[c].tree
             /\ base' = [base EXCEPT ![c] = remote] /\ UNCHANGED orig
             /\ Goto(s, "fold") /\ Hold(s, r)
    <3>1. /\ pc' \in [Sessions -> Points] /\ local' \in [Sessions -> Locals]
          /\ pc'[s] = "fold" /\ local'[s] = r
          /\ \A q \in Sessions \ {s} : pc'[q] = pc[q] /\ local'[q] = local[q]
      BY <1>a, <2>5, <2>r, Moves
    <3> HIDE DEF r
    <3>0. /\ work'[c] = remote.tree /\ index'[c] = remote.tree /\ head'[c] = remote.tree
          /\ base'[c] = remote
      BY <1>a, <2>5 DEF ResetTo, TypeOK
    <3>2. TypeOK' BY <1>a, <2>1, <2>5, <3>1 DEF TypeOK, Appended, ResetTo, Version
    <3>3. OnlyHere(s) BY <1>a, <2>1, <2>2, <2>5, <3>1 DEF OnlyHere, ResetTo, TypeOK
    <3>6. work[c].lines \subseteq remote.tree.lines
      BY <1>b, <2>2, <2>5 DEF TreeOK, Past, Clean
    <3>4. TreeOK(c)'
      BY <1>a, <1>b, <2>1, <2>2, <2>5, <3>0, <3>1, <3>6
         DEF TreeOK, Past, TypeOK, Version, Inside
    <3>5. SessionOK(s)'
      BY <1>a, <1>b, <2>1, <2>2, <2>5, <2>r, <3>0, <3>1, <3>6
         DEF SessionOK, Syncing, Inside, Others
    <3> QED BY <2>1, <3>2, <3>3, <3>4, <3>5, Rest, StandingStill
  <2>6. CASE /\ Clean(c) /\ ResetTo(c, remote.tree)
             /\ orig' = [orig EXCEPT ![c] = [on |-> TRUE, tree |-> head[c], onto |-> remote]]
             /\ Goto(s, "replay") /\ UNCHANGED <<base, local>>
    <3>1. /\ pc' \in [Sessions -> Points] /\ local' \in [Sessions -> Locals]
          /\ pc'[s] = "replay" /\ local'[s] = local[s]
          /\ \A q \in Sessions \ {s} : pc'[q] = pc[q] /\ local'[q] = local[q]
      BY <1>a, <1>b, <1>d, <2>6, <2>r, Moves
    <3>0. /\ work'[c] = remote.tree /\ index'[c] = remote.tree /\ head'[c] = remote.tree
          /\ orig'[c] = [on |-> TRUE, tree |-> head[c], onto |-> remote]
      BY <1>a, <2>6 DEF ResetTo, TypeOK
    <3>2. TypeOK' BY <1>a, <2>1, <2>6, <3>1 DEF TypeOK, Appended, ResetTo, Version, Rebase
    <3>3. OnlyHere(s) BY <1>a, <2>1, <2>2, <2>6, <3>1 DEF OnlyHere, ResetTo, TypeOK
    <3>4. TreeOK(c)'
      BY <1>a, <1>b, <2>1, <2>2, <2>6, <3>0, <3>1
         DEF TreeOK, Past, TypeOK, Version, Clean, Inside
    <3>5. SessionOK(s)'
      BY <1>a, <1>b, <2>1, <2>2, <2>6, <3>0, <3>1
         DEF SessionOK, Syncing, Inside, Others, Clean
    <3> QED BY <2>1, <3>2, <3>3, <3>4, <3>5, Rest, StandingStill
  <2> HIDE DEF r
  <2> QED BY <1>12, <2>3, <2>4, <2>5, <2>6 DEF PullBegin, r
<1>13. ASSUME NEW s \in Sessions, Replay(s) PROVE IInv'
  <2> DEFINE c == Home[s]
             old == base[c].tree
             r == [local[s] EXCEPT !.then = "push"]
  <2>1. pc[s] = "replay" /\ local[s].then = "pull" /\ UNCHANGED <<lock, remote, recorded>>
    BY <1>13, <1>b DEF Replay, SessionOK
  <2>2. orig[c].on /\ lock[c] = Unlocked /\ \A q \in Others(s) : ~Syncing(q)
    BY <1>b, <2>1, InRebase, NobodyElse DEF SessionOK
  <2>r. r \in Locals /\ r.then = "push" /\ r.mine = local[s].mine /\ "fold" \in Points
        /\ r.said = local[s].said
    BY <1>b, LocalPushing DEF Points
  <2>t. orig[c].tree \in Tree /\ head[c] \in Tree /\ old \in Tree /\ orig[c].onto \in Version
    BY <1>a DEF TypeOK, Rebase, Version
  <2>n. NoRebase \in Rebase /\ ~NoRebase.on
    <3>1. First \in Line BY StoreAssumption DEF First, Line
    <3> QED BY <3>1 DEF NoRebase, Rebase, FirstTree, FirstVersion, Tree, Version
  <2>3. CASE /\ ResetTo(c, Merged(old, head[c], orig[c].tree))
             /\ base' = [base EXCEPT ![c] = orig[c].onto]
             /\ orig' = [orig EXCEPT ![c] = NoRebase]
             /\ Goto(s, "fold") /\ Hold(s, r)
    <3> DEFINE m == Merged(old, head[c], orig[c].tree)
    <3>m. m \in Tree /\ m.lines = head[c].lines \cup orig[c].tree.lines
      BY <2>t DEF Merged, Tree
    <3> HIDE DEF m, r
    <3>1. /\ pc' \in [Sessions -> Points] /\ local' \in [Sessions -> Locals]
          /\ pc'[s] = "fold" /\ local'[s] = r
          /\ \A q \in Sessions \ {s} : pc'[q] = pc[q] /\ local'[q] = local[q]
      BY <1>a, <2>3, <2>r, Moves
    <3>0. /\ work'[c] = m /\ index'[c] = m /\ head'[c] = m
          /\ base'[c] = orig[c].onto /\ ~orig'[c].on
      BY <1>a, <2>3, <2>n DEF ResetTo, TypeOK, m
    <3>2. TypeOK'
      BY <1>a, <2>1, <2>3, <2>n, <2>t, <3>1, <3>m DEF TypeOK, Appended, ResetTo, m
    <3>3. OnlyHere(s) BY <1>a, <2>1, <2>2, <2>3, <3>1 DEF OnlyHere, ResetTo, TypeOK
    <3>4. TreeOK(c)'
      BY <1>a, <1>b, <2>1, <2>2, <2>3, <3>0, <3>1, <3>m DEF TreeOK, Past
    <3>5. SessionOK(s)'
      BY <1>a, <1>b, <2>1, <2>2, <2>3, <2>r, <3>0, <3>1, <3>m
         DEF SessionOK, Syncing, Inside, Others
    <3> QED BY <2>1, <3>2, <3>3, <3>4, <3>5, Rest, StandingStill
  <2>4. CASE PullFails(s)
    <3> DEFINE e == Idle
               o == orig[c].tree
    <3>e. e \in Locals /\ e.then = "write" /\ e.said # "synced" /\ "idle" \in Points
      BY <1>b, LocalEnded DEF Points
    <3> HIDE DEF e
    <3>1. /\ pc' \in [Sessions -> Points] /\ local' \in [Sessions -> Locals]
          /\ pc'[s] = "idle" /\ local'[s] = e
          /\ \A q \in Sessions \ {s} : pc'[q] = pc[q] /\ local'[q] = local[q]
      BY <1>a, <2>4, <3>e, Moves DEF PullFails, End, e
    <3>6. ResetTo(c, o) /\ orig' = [orig EXCEPT ![c] = NoRebase] /\ UNCHANGED base
      BY <2>2, <2>4 DEF PullFails, Abort
    <3>0. work'[c] = o /\ index'[c] = o /\ head'[c] = o /\ ~orig'[c].on
      BY <1>a, <3>6, <2>n DEF ResetTo, TypeOK
    <3>2. TypeOK'
      BY <1>a, <2>1, <2>n, <2>t, <3>1, <3>6 DEF TypeOK, Appended, ResetTo
    <3>3. OnlyHere(s) BY <1>a, <2>1, <2>2, <3>1, <3>6 DEF OnlyHere, ResetTo, TypeOK
    <3>4. TreeOK(c)' BY <1>a, <1>b, <2>1, <2>2, <3>0, <3>1, <3>6 DEF TreeOK, Past
    <3>5. SessionOK(s)'
      BY <1>a, <1>b, <2>1, <2>2, <3>e, <3>0, <3>1 DEF SessionOK, Syncing, Inside, Others
    <3> QED BY <2>1, <3>2, <3>3, <3>4, <3>5, Rest, StandingStill
  <2> HIDE DEF r
  <2> QED BY <1>13, <2>3, <2>4 DEF Replay, r
<1>14. ASSUME NEW s \in Sessions, PushHead(s) PROVE IInv'
  <2> DEFINE c == Home[s]
             next == [n |-> remote.n + 1, tree |-> head[c]]
  <2>1. /\ pc[s] = "push" /\ local[s].then = "push"
        /\ UNCHANGED <<trees, lock, orig, recorded>>
    BY <1>14, <1>b DEF PushHead, SessionOK
  <2>2. ~orig[c].on /\ \A q \in Others(s) : ~Syncing(q)
    BY <2>1, InRebase, NobodyElse
  <2>3. CASE End(s, "failed") /\ UNCHANGED <<base, remote>>
    BY <2>1, <2>3, EndKeeps DEF Inside
  <2> DEFINE e == [Idle EXCEPT !.mine = local[s].mine, !.said = "synced"]
  <2>e. e \in Locals /\ e.then = "write" /\ e.mine = local[s].mine /\ "idle" \in Points
    BY <1>b, LocalEnded DEF Points
  <2> HIDE DEF e
  <2>4. ASSUME End(s, "synced"), TypeOK', Grown, head[c].lines \subseteq remote'.tree.lines,
               Past(base[c])', \A d \in Trees \ {c} : base'[d] = base[d],
               base'[c].tree.lines \subseteq head[c].lines
        PROVE  IInv'
    <3>1. /\ pc'[s] = "idle" /\ local'[s] = e
          /\ \A q \in Sessions \ {s} : pc'[q] = pc[q] /\ local'[q] = local[q]
      BY <1>a, <2>4, <2>e, Moves DEF End, e
    <3>2. OnlyHere(s) BY <2>1, <2>2, <2>4, <3>1 DEF OnlyHere, trees
    <3>3. TreeOK(c)'
      BY <1>a, <1>b, <2>1, <2>2, <2>4, <3>1 DEF TreeOK, trees, TypeOK, Inside
    <3>4. SessionOK(s)'
      BY <1>a, <1>b, <2>1, <2>2, <2>4, <2>e, <3>1 DEF SessionOK, Syncing, Inside, trees
    <3> QED BY <2>4, <3>2, <3>3, <3>4, Rest
  <2>m. End(s, "synced") => pc' \in [Sessions -> Points] /\ local' \in [Sessions -> Locals]
    BY <1>a, <2>e, Moves DEF End, e
  <2>5. CASE End(s, "synced") /\ head[c] = remote.tree /\ UNCHANGED <<base, remote>>
    <3>1. TypeOK' BY <1>a, <2>1, <2>5, <2>m DEF TypeOK, Appended, trees
    <3>2. Past(base[c])' /\ base[c].tree.lines \subseteq head[c].lines
      BY <1>b, <2>2, <2>5 DEF TreeOK, Past
    <3> QED BY <2>4, <2>5, <3>1, <3>2, StandingStill
  <2>6. CASE /\ End(s, "synced") /\ base[c].n = remote.n
             /\ remote' = next /\ base' = [base EXCEPT ![c] = next]
    <3>n. next \in Version /\ next.n = remote.n + 1 /\ next.tree = head[c] /\ remote.n \in Nat
      BY <1>a DEF TypeOK, Version
    <3>1. TypeOK' BY <1>a, <2>1, <2>6, <2>m, <3>n DEF TypeOK, Appended, trees
    <3>2. base'[c] = next BY <1>a, <2>6 DEF TypeOK
    <3>3. remote.tree.lines \subseteq head[c].lines
      BY <1>b, <2>2, <2>6 DEF TreeOK, Past
    <3>4. \A v \in Version : v.n \in Nat BY DEF Version
    <3> HIDE DEF next
    <3>5. Grown BY <2>6, <3>n, <3>3, <3>4 DEF Grown, Past
    <3>6. Past(base[c])' BY <2>6, <3>n, <3>2 DEF Past
    <3>7. \A d \in Trees \ {c} : base'[d] = base[d] BY <1>a, <2>6 DEF TypeOK
    <3> QED BY <2>4, <2>6, <3>n, <3>1, <3>2, <3>5, <3>6, <3>7
  <2> HIDE DEF next
  <2> QED BY <1>14, <2>3, <2>5, <2>6 DEF PushHead, next
<1>15. CASE UNCHANGED gitVars
  BY <1>15, <1>a, <1>b DEF gitVars, IInv, TypeOK, Appended, TreeOK, SessionOK, Past, Syncing
<1> QED BY <1>1, <1>2, <1>3, <1>4, <1>5, <1>6, <1>7, <1>8, <1>9, <1>10, <1>11,
       <1>12, <1>13, <1>14, <1>15 DEF NextGit, Step

(* Where no session of a checkout writes while another syncs it, who syncs  *)
(* is alone, a branch never falls behind what it was cloned or pulled from, *)
(* and the lines a sync set out with are on the branch before it pushes.    *)
THEOREM StoreInvariant == ASSUME ~Beside PROVE SpecGit => []IInv
<1>1. InitGit => IInv
  <2> SUFFICES ASSUME InitGit PROVE IInv OBVIOUS
  <2> USE StoreAssumption DEF InitGit
  <2>1. FirstTree \in Tree /\ FirstVersion \in Version /\ NoRebase \in Rebase /\ ~NoRebase.on
    <3>1. First \in Line BY DEF First, Line
    <3> QED BY <3>1 DEF FirstTree, FirstVersion, NoRebase, Tree, Version, Rebase
  <2>2. Idle \in Locals /\ "idle" \in Points BY DEF Idle, Locals, Points, Sayings
  <2>3. IsFiniteSet(Appended)
    <3>1. Appended = {} BY DEF Appended
    <3> QED BY <3>1, FS_EmptySet
  <2>4. TypeOK BY <2>1, <2>2, <2>3 DEF TypeOK
  <2>5. \A c \in Trees : TreeOK(c) BY <2>1 DEF TreeOK, Past, FirstVersion
  <2>6. \A s \in Sessions : SessionOK(s) BY DEF SessionOK, Syncing, Inside, Idle
  <2> QED BY <2>4, <2>5, <2>6 DEF IInv
<1> QED BY <1>1, StepIInv, PTL DEF SpecGit

(* What a session has recorded stays in the log of its checkout, whatever   *)
(* is pulled, aborted or pushed (writeThrough, pullRebase, commitAll), for  *)
(* any number of checkouts and sessions, unless one writes beside a sync.   *)
THEOREM RecordedStays == ASSUME ~Beside PROVE SpecGit => []RecordedIsKept
<1>1. IInv => RecordedIsKept BY DEF IInv, TreeOK, RecordedIsKept
<1> QED BY <1>1, StoreInvariant, PTL

(* A sync that says so has pushed every line the checkout held when it      *)
(* began (syncStore).                                                       *)
THEOREM SyncedIsShared == ASSUME ~Beside PROVE SpecGit => []SyncedMeansShared
<1>1. IInv => SyncedMeansShared BY DEF IInv, SessionOK, SyncedMeansShared
<1> QED BY <1>1, StoreInvariant, PTL
=============================================================================
