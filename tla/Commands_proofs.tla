-------------------------- MODULE Commands_proofs --------------------------
(***************************************************************************)
(* What a command can rely on beside others like it: of the credential     *)
(* file that all of them refresh, and of the records that each may move.   *)
(***************************************************************************)
EXTENDS Credentials, Tiers, TLAPS

-----------------------------------------------------------------------------
(***************************************************************************)
(* What a credential file promises, for any number of processes, grants    *)
(* and rotations, whoever dies, logs out or has its answers lost.          *)
(***************************************************************************)

Pairs == [grant : Grants, gen : Nat]

TypeOK ==
    /\ stored \in Pairs \cup {NoPair} /\ marker \in Pairs \cup {NoPair}
    /\ lock \in Procs \cup {Free, Dead}
    /\ pc \in [Procs -> Points]
    /\ held \in [Procs -> Pairs \cup {NoPair}]
    /\ replayed \subseteq Procs
    /\ issued \in Grants /\ current \in [Grants -> Nat]
    /\ revoked \subseteq Grants /\ alarmed \subseteq Grants
    /\ slipped \in BOOLEAN

(* The lock is held by who is inside, and by nobody else.                  *)
LockInv == \A p \in Procs : pc[p] \in Inside <=> lock = p

(* A login's grant is its own until it is stored: nobody else has a pair   *)
(* of it, and it has never been rotated.                                   *)
GrantsKnown ==
    /\ \A g \in Grants : g > issued => current[g] = 0
    /\ stored.grant <= issued
    /\ \A p \in Procs : held[p].grant <= issued

LoginInv ==
    \A p \in Procs :
        /\ pc[p] \in {"approved", "commit"} =>
              /\ held[p] # NoPair /\ held[p].gen = 0 /\ current[held[p].grant] = 0
              /\ stored.grant # held[p].grant
              /\ \A q \in Procs \ {p} : held[q].grant # held[p].grant
        /\ pc[p] = "clear" =>
              /\ held[p] # NoPair /\ held[p].gen = 0 /\ current[held[p].grant] = 0
              /\ stored \in {held[p], NoPair}

(* Who refreshes works on the stored pair, or on one a logout took away.   *)
WorkInv ==
    \A p \in Procs :
        pc[p] \in {"ask", "rotated", "write", "unmark"} =>
            held[p] # NoPair /\ stored \in {held[p], NoPair}

Spent(t) == t # NoPair /\ t.gen < current[t.grant]

(* The heart of it: until a refresh slips under a marker, a stored pair    *)
(* the server has rotated is under its marker, and who asks holds a pair   *)
(* that was never rotated.                                                 *)
MarkerInv ==
    slipped \/
        /\ alarmed = {}
        /\ Spent(stored) => marker = stored
        /\ \A p \in Procs :
              /\ pc[p] = "ask" => /\ ~Spent(held[p])
                                  /\ stored = NoPair \/ marker = held[p]
              /\ pc[p] \in {"rotated", "write"} =>
                    held[p].gen + 1 = current[held[p].grant]
              /\ pc[p] = "unmark" => ~Spent(held[p])

IInv == TypeOK /\ LockInv /\ GrantsKnown /\ LoginInv /\ WorkInv /\ MarkerInv

(* A rotation keeps the count of every grant a number.                     *)
LEMMA OneMore ==
    ASSUME NEW c \in [Grants -> Nat], NEW g \in Grants
    PROVE  [c EXCEPT ![g] = @ + 1] \in [Grants -> Nat]
  OBVIOUS

(* A login starts on a grant of its own.                                    *)
LEMMA ApproveIInv == ASSUME IInv, NEW p \in Procs, Approve(p) PROVE IInv'
<1> USE CredentialsAssumption DEF IInv, vars, files, server, bounds, At, Go, Hold, On,
      Begun, FirstOf
<1>7. issued + 1 \in Grants /\ FirstOf(issued + 1) \in Pairs
  BY DEF Approve, TypeOK, Grants, Pairs
<1>8. FirstOf(issued + 1) # NoPair /\ FirstOf(issued + 1).grant = issued + 1
      /\ FirstOf(issued + 1).gen = 0 BY <1>7 DEF Grants, NoPair
<1>9. \A g \in Grants : g > issued + 1 => current'[g] = 0
  BY <1>7 DEF Approve, TypeOK, GrantsKnown, Grants
<1>10. \A q \in Procs : held'[q].grant <= issued + 1
  <2>1. \A q \in Procs : held[q].grant \in Nat /\ held[q].grant <= issued
        /\ issued \in Nat
    BY DEF TypeOK, GrantsKnown, Pairs, Grants, NoPair
  <2>2. held' = [held EXCEPT ![p] = FirstOf(issued + 1)]
        /\ held \in [Procs -> Pairs \cup {NoPair}]
    BY DEF Approve, TypeOK
  <2> QED BY <2>1, <2>2, <1>8
<1>11. stored'.grant <= issued + 1
  BY <1>7 DEF Approve, TypeOK, GrantsKnown, Pairs, Grants, NoPair
<1>1. TypeOK' BY <1>7, <1>8 DEF Approve, Pairs, NoPair, Grants, Points, Free, TypeOK
<1>2. LockInv' BY <1>7, <1>8 DEF Approve, TypeOK, LockInv, Inside, Free, Dead
<1>3. GrantsKnown' BY <1>9, <1>10, <1>11 DEF Approve, GrantsKnown
<1>4. LoginInv'
  BY <1>7, <1>8, SMTT(20) DEF Approve, TypeOK, LockInv, Inside, GrantsKnown, LoginInv, Pairs,
      Grants, NoPair, Free, Dead
<1>5. WorkInv'
  BY <1>7, <1>8 DEF Approve, TypeOK, LockInv, Inside, LoginInv, WorkInv, Pairs,
      NoPair, Free, Dead
<1>6. MarkerInv'
  BY <1>7, <1>8 DEF Approve, TypeOK, LockInv, Inside, GrantsKnown, LoginInv, WorkInv,
      MarkerInv, Spent, Pairs, Grants, NoPair, Free, Dead
<1> QED BY <1>1, <1>2, <1>3, <1>4, <1>5, <1>6

(* Every step keeps the invariant: one step of the proof per action.       *)
LEMMA StepIInv == IInv /\ [Next]_vars => IInv'
<1> SUFFICES ASSUME IInv, [Next]_vars PROVE IInv' OBVIOUS
<1> USE CredentialsAssumption
    DEF IInv, TypeOK, LockInv, GrantsKnown, LoginInv, WorkInv, MarkerInv, Spent,
        Pairs, NoPair, Grants, Inside, Free, Dead, FirstOf, NextOf, vars, files,
        server, bounds, At, Go, Hold, End, On, Begun, Fault, Take, Release, Store,
        Usable, Covered, AlreadyDone, Resume
<1>1. ASSUME NEW p \in Procs, ReadMarker(p) PROVE IInv'
  <2>1. CASE marker = NoPair /\ On(p, "send", held[p])
    <3>1. TypeOK' BY <1>1, <2>1 DEF ReadMarker, Points
    <3>2. LockInv' BY <1>1, <2>1 DEF ReadMarker
    <3>3. GrantsKnown' BY <1>1, <2>1 DEF ReadMarker
    <3>4. LoginInv' BY <1>1, <2>1 DEF ReadMarker
    <3>5. WorkInv' BY <1>1, <2>1 DEF ReadMarker
    <3>6. MarkerInv' BY <1>1, <2>1 DEF ReadMarker
    <3> QED BY <3>1, <3>2, <3>3, <3>4, <3>5, <3>6
  <2>2. CASE marker = NoPair /\ On(p, "stale", held[p])
    <3>1. TypeOK' BY <1>1, <2>2 DEF ReadMarker, Points
    <3>2. LockInv' BY <1>1, <2>2 DEF ReadMarker
    <3>3. GrantsKnown' BY <1>1, <2>2 DEF ReadMarker
    <3>4. LoginInv' BY <1>1, <2>2 DEF ReadMarker
    <3>5. WorkInv' BY <1>1, <2>2 DEF ReadMarker
    <3>6. MarkerInv' BY <1>1, <2>2 DEF ReadMarker
    <3> QED BY <3>1, <3>2, <3>3, <3>4, <3>5, <3>6
  <2>3. CASE marker # NoPair /\ On(p, "confirm", held[p])
    <3>1. TypeOK' BY <1>1, <2>3 DEF ReadMarker, Points
    <3>2. LockInv' BY <1>1, <2>3 DEF ReadMarker
    <3>3. GrantsKnown' BY <1>1, <2>3 DEF ReadMarker
    <3>4. LoginInv' BY <1>1, <2>3 DEF ReadMarker
    <3>5. WorkInv' BY <1>1, <2>3 DEF ReadMarker
    <3>6. MarkerInv' BY <1>1, <2>3 DEF ReadMarker
    <3> QED BY <3>1, <3>2, <3>3, <3>4, <3>5, <3>6
  <2> QED BY <1>1, <2>1, <2>2, <2>3 DEF ReadMarker
<1>2. ASSUME NEW p \in Procs, Confirm(p) PROVE IInv'
  <2>1. CASE stored # NoPair /\ ~Covered(stored) /\ marker' = NoPair
             /\ On(p, "send", stored)
    <3>1. TypeOK' BY <1>2, <2>1 DEF Confirm, Points
    <3>2. LockInv' BY <1>2, <2>1 DEF Confirm
    <3>3. GrantsKnown' BY <1>2, <2>1 DEF Confirm
    <3>4. LoginInv' BY <1>2, <2>1 DEF Confirm
    <3>5. WorkInv' BY <1>2, <2>1 DEF Confirm
    <3>6. MarkerInv' BY <1>2, <2>1 DEF Confirm
    <3> QED BY <3>1, <3>2, <3>3, <3>4, <3>5, <3>6
  <2>2. CASE stored # NoPair /\ ~Covered(stored) /\ marker' = NoPair
             /\ On(p, "stale", stored)
    <3>1. TypeOK' BY <1>2, <2>2 DEF Confirm, Points
    <3>2. LockInv' BY <1>2, <2>2 DEF Confirm
    <3>3. GrantsKnown' BY <1>2, <2>2 DEF Confirm
    <3>4. LoginInv' BY <1>2, <2>2 DEF Confirm
    <3>5. WorkInv' BY <1>2, <2>2 DEF Confirm
    <3>6. MarkerInv' BY <1>2, <2>2 DEF Confirm
    <3> QED BY <3>1, <3>2, <3>3, <3>4, <3>5, <3>6
  <2>3. CASE (stored = NoPair \/ Covered(stored)) /\ UNCHANGED marker /\ End(p)
    <3>1. TypeOK' BY <1>2, <2>3 DEF Confirm, Points
    <3>2. LockInv' BY <1>2, <2>3 DEF Confirm
    <3>3. GrantsKnown' BY <1>2, <2>3 DEF Confirm
    <3>4. LoginInv' BY <1>2, <2>3 DEF Confirm
    <3>5. WorkInv' BY <1>2, <2>3 DEF Confirm
    <3>6. MarkerInv' BY <1>2, <2>3 DEF Confirm
    <3> QED BY <3>1, <3>2, <3>3, <3>4, <3>5, <3>6
  <2> QED BY <1>2, <2>1, <2>2, <2>3 DEF Confirm
<1>3. ASSUME NEW p \in Procs, GiveUp(p) PROVE IInv'
  <2>1. TypeOK' BY <1>3 DEF GiveUp, Points
  <2>2. LockInv' BY <1>3 DEF GiveUp
  <2>3. GrantsKnown' BY <1>3 DEF GiveUp
  <2>4. LoginInv' BY <1>3 DEF GiveUp
  <2>5. WorkInv' BY <1>3 DEF GiveUp
  <2>6. MarkerInv' BY <1>3 DEF GiveUp
  <2> QED BY <2>1, <2>2, <2>3, <2>4, <2>5, <2>6
<1>4. ASSUME NEW p \in Procs, TakeConfirm(p) PROVE IInv'
  <2>1. TypeOK' BY <1>4 DEF TakeConfirm, Points
  <2>2. LockInv' BY <1>4 DEF TakeConfirm
  <2>3. GrantsKnown' BY <1>4 DEF TakeConfirm
  <2>4. LoginInv' BY <1>4 DEF TakeConfirm
  <2>5. WorkInv' BY <1>4 DEF TakeConfirm
  <2>6. MarkerInv' BY <1>4 DEF TakeConfirm
  <2> QED BY <2>1, <2>2, <2>3, <2>4, <2>5, <2>6
<1>5. ASSUME NEW p \in Procs, TakeRefresh(p) PROVE IInv'
  <2>1. TypeOK' BY <1>5 DEF TakeRefresh, Points
  <2>2. LockInv' BY <1>5 DEF TakeRefresh
  <2>3. GrantsKnown' BY <1>5 DEF TakeRefresh
  <2>4. LoginInv' BY <1>5 DEF TakeRefresh
  <2>5. WorkInv' BY <1>5 DEF TakeRefresh
  <2>6. MarkerInv' BY <1>5 DEF TakeRefresh
  <2> QED BY <2>1, <2>2, <2>3, <2>4, <2>5, <2>6
<1>6. ASSUME NEW p \in Procs, MarkPending(p) PROVE IInv'
  <2>1. CASE stored = NoPair /\ Release(p) /\ End(p) /\ UNCHANGED <<marker, slipped,
        faults>>
    <3>1. TypeOK' BY <1>6, <2>1 DEF MarkPending, Points
    <3>2. LockInv' BY <1>6, <2>1 DEF MarkPending
    <3>3. GrantsKnown' BY <1>6, <2>1 DEF MarkPending
    <3>4. LoginInv' BY <1>6, <2>1 DEF MarkPending
    <3>5. WorkInv' BY <1>6, <2>1 DEF MarkPending
    <3>6. MarkerInv' BY <1>6, <2>1 DEF MarkPending
    <3> QED BY <3>1, <3>2, <3>3, <3>4, <3>5, <3>6
  <2>2. CASE stored # NoPair /\ AlreadyDone(p) /\ Resume(p, stored)
        /\ UNCHANGED <<marker, slipped, faults>>
    <3>1. TypeOK' BY <1>6, <2>2 DEF MarkPending, Points
    <3>2. LockInv' BY <1>6, <2>2 DEF MarkPending
    <3>3. GrantsKnown' BY <1>6, <2>2 DEF MarkPending
    <3>4. LoginInv' BY <1>6, <2>2 DEF MarkPending
    <3>5. WorkInv' BY <1>6, <2>2 DEF MarkPending
    <3>6. MarkerInv' BY <1>6, <2>2 DEF MarkPending
    <3> QED BY <3>1, <3>2, <3>3, <3>4, <3>5, <3>6
  <2>3. CASE stored # NoPair /\ ~AlreadyDone(p) /\ marker' = stored
        /\ slipped' = (slipped \/ Covered(stored)) /\ On(p, "ask", held[p])
        /\ UNCHANGED <<lock, faults>>
    <3>1. TypeOK' BY <1>6, <2>3 DEF MarkPending, Points
    <3>2. LockInv' BY <1>6, <2>3 DEF MarkPending
    <3>3. GrantsKnown' BY <1>6, <2>3 DEF MarkPending
    <3>4. LoginInv' BY <1>6, <2>3 DEF MarkPending
    <3>5. WorkInv' BY <1>6, <2>3 DEF MarkPending
    <3>6. MarkerInv' BY <1>6, <2>3 DEF MarkPending
    <3> QED BY <3>1, <3>2, <3>3, <3>4, <3>5, <3>6
  <2>4. CASE stored # NoPair /\ ~AlreadyDone(p) /\ Fault /\ Release(p) /\ End(p)
        /\ UNCHANGED <<marker, slipped>>
    <3>1. TypeOK' BY <1>6, <2>4 DEF MarkPending, Points
    <3>2. LockInv' BY <1>6, <2>4 DEF MarkPending
    <3>3. GrantsKnown' BY <1>6, <2>4 DEF MarkPending
    <3>4. LoginInv' BY <1>6, <2>4 DEF MarkPending
    <3>5. WorkInv' BY <1>6, <2>4 DEF MarkPending
    <3>6. MarkerInv' BY <1>6, <2>4 DEF MarkPending
    <3> QED BY <3>1, <3>2, <3>3, <3>4, <3>5, <3>6
  <2> QED BY <1>6, <2>1, <2>2, <2>3, <2>4 DEF MarkPending
<1>7. ASSUME NEW p \in Procs, Ask(p) PROVE IInv'
  <2>0. held[p] \in Pairs /\ held[p].grant \in Grants BY <1>7 DEF Ask
  <2>9. current' \in [Grants -> Nat]
    <3>1. current' = current \/ current' = [current EXCEPT ![held[p].grant] = @ + 1]
      BY <1>7 DEF Ask
    <3>2. current \in [Grants -> Nat] OBVIOUS
    <3>3. [current EXCEPT ![held[p].grant] = @ + 1] \in [Grants -> Nat]
      BY <2>0, <3>2, OneMore, Zenon
    <3> QED BY <3>1, <3>2, <3>3, Zenon
  <2>1. CASE held[p].grant \notin revoked /\ held[p].gen = current[held[p].grant]
        /\ held[p].gen < MaxGen
        /\ current' = [current EXCEPT ![held[p].grant] = @ + 1]
        /\ UNCHANGED <<revoked, alarmed>> /\ On(p, "rotated", held[p])
    <3>1. TypeOK' BY <1>7, <2>1, <2>0, <2>9 DEF Ask, Points
    <3>2. LockInv' BY <1>7, <2>1 DEF Ask
    <3>3. GrantsKnown' BY <1>7, <2>1 DEF Ask
    <3>4. LoginInv' BY <1>7, <2>1 DEF Ask
    <3>5. WorkInv' BY <1>7, <2>1 DEF Ask
    <3>6. MarkerInv' BY <1>7, <2>1, SMTT(20) DEF Ask
    <3> QED BY <3>1, <3>2, <3>3, <3>4, <3>5, <3>6
  <2>2. CASE held[p].grant \notin revoked /\ held[p].gen = current[held[p].grant]
        /\ held[p].gen < MaxGen
        /\ current' = [current EXCEPT ![held[p].grant] = @ + 1]
        /\ UNCHANGED <<revoked, alarmed>> /\ On(p, "unsure", held[p])
    <3>1. TypeOK' BY <1>7, <2>2, <2>0, <2>9 DEF Ask, Points
    <3>2. LockInv' BY <1>7, <2>2 DEF Ask
    <3>3. GrantsKnown' BY <1>7, <2>2 DEF Ask
    <3>4. LoginInv' BY <1>7, <2>2 DEF Ask
    <3>5. WorkInv' BY <1>7, <2>2 DEF Ask
    <3>6. MarkerInv' BY <1>7, <2>2, SMTT(20) DEF Ask
    <3> QED BY <3>1, <3>2, <3>3, <3>4, <3>5, <3>6
  <2>3. CASE held[p].grant \notin revoked /\ held[p].gen < current[held[p].grant]
        /\ revoked' = revoked \cup {held[p].grant}
        /\ alarmed' = alarmed \cup {held[p].grant} /\ UNCHANGED current
        /\ On(p, "refused", held[p])
    <3>0. revoked' \subseteq Grants /\ alarmed' \subseteq Grants
      BY <2>3, <2>0, Zenon
    <3>1. TypeOK'
      <4>1. pc' \in [Procs -> Points] /\ held' \in [Procs -> Pairs \cup {NoPair}]
        BY <2>3 DEF Points
      <4> QED BY <1>7, <2>9, <3>0, <4>1 DEF Ask
    <3>2. LockInv' BY <1>7, <2>3 DEF Ask
    <3>3. GrantsKnown' BY <1>7, <2>3 DEF Ask
    <3>4. LoginInv' BY <1>7, <2>3 DEF Ask
    <3>5. WorkInv' BY <1>7, <2>3 DEF Ask
    <3>6. MarkerInv' BY <1>7, <2>3 DEF Ask
    <3> QED BY <3>1, <3>2, <3>3, <3>4, <3>5, <3>6
  <2>6. CASE held[p].grant \notin revoked /\ held[p].gen < current[held[p].grant]
        /\ revoked' = revoked \cup {held[p].grant}
        /\ alarmed' = alarmed \cup {held[p].grant} /\ UNCHANGED current
        /\ On(p, "unsure", held[p])
    <3>0. revoked' \subseteq Grants /\ alarmed' \subseteq Grants
      BY <2>6, <2>0, Zenon
    <3>1. TypeOK'
      <4>1. pc' \in [Procs -> Points] /\ held' \in [Procs -> Pairs \cup {NoPair}]
        BY <2>6 DEF Points
      <4> QED BY <1>7, <2>9, <3>0, <4>1 DEF Ask
    <3>2. LockInv' BY <1>7, <2>6 DEF Ask
    <3>3. GrantsKnown' BY <1>7, <2>6 DEF Ask
    <3>4. LoginInv' BY <1>7, <2>6 DEF Ask
    <3>5. WorkInv' BY <1>7, <2>6 DEF Ask
    <3>6. MarkerInv' BY <1>7, <2>6 DEF Ask
    <3> QED BY <3>1, <3>2, <3>3, <3>4, <3>5, <3>6
  <2>4. CASE UNCHANGED <<current, revoked, alarmed>> /\ On(p, "refused", held[p])
    <3>1. TypeOK' BY <1>7, <2>4, <2>0, <2>9 DEF Ask, Points
    <3>2. LockInv' BY <1>7, <2>4 DEF Ask
    <3>3. GrantsKnown' BY <1>7, <2>4 DEF Ask
    <3>4. LoginInv' BY <1>7, <2>4 DEF Ask
    <3>5. WorkInv' BY <1>7, <2>4 DEF Ask
    <3>6. MarkerInv' BY <1>7, <2>4 DEF Ask
    <3> QED BY <3>1, <3>2, <3>3, <3>4, <3>5, <3>6
  <2>5. CASE UNCHANGED <<current, revoked, alarmed>> /\ On(p, "unsure", held[p])
    <3>1. TypeOK' BY <1>7, <2>5, <2>0, <2>9 DEF Ask, Points
    <3>2. LockInv' BY <1>7, <2>5 DEF Ask
    <3>3. GrantsKnown' BY <1>7, <2>5 DEF Ask
    <3>4. LoginInv' BY <1>7, <2>5 DEF Ask
    <3>5. WorkInv' BY <1>7, <2>5 DEF Ask
    <3>6. MarkerInv' BY <1>7, <2>5 DEF Ask
    <3> QED BY <3>1, <3>2, <3>3, <3>4, <3>5, <3>6
  <2> QED BY <1>7, <2>1, <2>2, <2>3, <2>4, <2>5, <2>6 DEF Ask
<1>8. ASSUME NEW p \in Procs, NeverSent(p) PROVE IInv'
  <2>1. TypeOK' BY <1>8 DEF NeverSent, Points
  <2>2. LockInv' BY <1>8 DEF NeverSent
  <2>3. GrantsKnown' BY <1>8 DEF NeverSent
  <2>4. LoginInv' BY <1>8 DEF NeverSent
  <2>5. WorkInv' BY <1>8 DEF NeverSent
  <2>6. MarkerInv' BY <1>8 DEF NeverSent
  <2> QED BY <2>1, <2>2, <2>3, <2>4, <2>5, <2>6
<1>9. ASSUME NEW p \in Procs, Unsure(p) PROVE IInv'
  <2>1. TypeOK' BY <1>9 DEF Unsure, Points
  <2>2. LockInv' BY <1>9 DEF Unsure
  <2>3. GrantsKnown' BY <1>9 DEF Unsure
  <2>4. LoginInv' BY <1>9 DEF Unsure
  <2>5. WorkInv' BY <1>9 DEF Unsure
  <2>6. MarkerInv' BY <1>9 DEF Unsure
  <2> QED BY <2>1, <2>2, <2>3, <2>4, <2>5, <2>6
<1>10. ASSUME NEW p \in Procs, Refused(p) PROVE IInv'
  <2>1. TypeOK' BY <1>10 DEF Refused, Points
  <2>2. LockInv' BY <1>10 DEF Refused
  <2>3. GrantsKnown' BY <1>10 DEF Refused
  <2>4. LoginInv' BY <1>10 DEF Refused
  <2>5. WorkInv' BY <1>10 DEF Refused
  <2>6. MarkerInv' BY <1>10 DEF Refused
  <2> QED BY <2>1, <2>2, <2>3, <2>4, <2>5, <2>6
<1>11. ASSUME NEW p \in Procs, Rotated(p) PROVE IInv'
  <2>1. CASE stored = NoPair /\ Release(p) /\ End(p) /\ UNCHANGED marker
    <3>1. TypeOK' BY <1>11, <2>1 DEF Rotated, Points
    <3>2. LockInv' BY <1>11, <2>1 DEF Rotated
    <3>3. GrantsKnown' BY <1>11, <2>1 DEF Rotated
    <3>4. LoginInv' BY <1>11, <2>1 DEF Rotated
    <3>5. WorkInv' BY <1>11, <2>1 DEF Rotated
    <3>6. MarkerInv' BY <1>11, <2>1 DEF Rotated
    <3> QED BY <3>1, <3>2, <3>3, <3>4, <3>5, <3>6
  <2>2. CASE stored.grant = held[p].grant /\ On(p, "write", held[p])
        /\ UNCHANGED <<marker, lock>>
    <3>1. TypeOK' BY <1>11, <2>2 DEF Rotated, Points
    <3>2. LockInv' BY <1>11, <2>2 DEF Rotated
    <3>3. GrantsKnown' BY <1>11, <2>2 DEF Rotated
    <3>4. LoginInv' BY <1>11, <2>2 DEF Rotated
    <3>5. WorkInv' BY <1>11, <2>2 DEF Rotated
    <3>6. MarkerInv' BY <1>11, <2>2 DEF Rotated
    <3> QED BY <3>1, <3>2, <3>3, <3>4, <3>5, <3>6
  <2>3. CASE stored # NoPair /\ stored.grant # held[p].grant /\ marker' = NoPair
        /\ Resume(p, stored)
    <3>1. TypeOK' BY <1>11, <2>3 DEF Rotated, Points
    <3>2. LockInv' BY <1>11, <2>3 DEF Rotated
    <3>3. GrantsKnown' BY <1>11, <2>3 DEF Rotated
    <3>4. LoginInv' BY <1>11, <2>3 DEF Rotated
    <3>5. WorkInv' BY <1>11, <2>3 DEF Rotated
    <3>6. MarkerInv' BY <1>11, <2>3 DEF Rotated
    <3> QED BY <3>1, <3>2, <3>3, <3>4, <3>5, <3>6
  <2> QED BY <1>11, <2>1, <2>2, <2>3 DEF Rotated
<1>12. ASSUME NEW p \in Procs, CommitRotation(p) PROVE IInv'
  <2>0. held[p] \in Pairs /\ NextOf(held[p]) \in Pairs BY <1>12 DEF CommitRotation
  <2>1. CASE Store(NextOf(held[p])) /\ On(p, "unmark", NextOf(held[p]))
        /\ UNCHANGED <<lock, bounds>>
    <3>1. TypeOK' BY <1>12, <2>1, <2>0 DEF CommitRotation, Points
    <3>2. LockInv' BY <1>12, <2>1 DEF CommitRotation
    <3>3. GrantsKnown' BY <1>12, <2>1 DEF CommitRotation
    <3>4. LoginInv' BY <1>12, <2>1 DEF CommitRotation
    <3>5. WorkInv' BY <1>12, <2>1 DEF CommitRotation
    <3>6. MarkerInv' BY <1>12, <2>1 DEF CommitRotation
    <3> QED BY <3>1, <3>2, <3>3, <3>4, <3>5, <3>6
  <2>2. CASE UNCHANGED stored /\ Fault /\ Release(p) /\ End(p)
    <3>1. TypeOK' BY <1>12, <2>2, <2>0 DEF CommitRotation, Points
    <3>2. LockInv' BY <1>12, <2>2 DEF CommitRotation
    <3>3. GrantsKnown' BY <1>12, <2>2 DEF CommitRotation
    <3>4. LoginInv' BY <1>12, <2>2 DEF CommitRotation
    <3>5. WorkInv' BY <1>12, <2>2 DEF CommitRotation
    <3>6. MarkerInv' BY <1>12, <2>2 DEF CommitRotation
    <3> QED BY <3>1, <3>2, <3>3, <3>4, <3>5, <3>6
  <2> QED BY <1>12, <2>1, <2>2 DEF CommitRotation
<1>13. ASSUME NEW p \in Procs, Unmark(p) PROVE IInv'
  <2>1. TypeOK' BY <1>13 DEF Unmark, Points
  <2>2. LockInv' BY <1>13 DEF Unmark
  <2>3. GrantsKnown' BY <1>13 DEF Unmark
  <2>4. LoginInv' BY <1>13 DEF Unmark
  <2>5. WorkInv' BY <1>13 DEF Unmark
  <2>6. MarkerInv' BY <1>13 DEF Unmark
  <2> QED BY <2>1, <2>2, <2>3, <2>4, <2>5, <2>6
<1>14. ASSUME NEW p \in Procs, Answered(p) PROVE IInv'
  <2>1. TypeOK' BY <1>14 DEF Answered, Points
  <2>2. LockInv' BY <1>14 DEF Answered
  <2>3. GrantsKnown' BY <1>14 DEF Answered
  <2>4. LoginInv' BY <1>14 DEF Answered
  <2>5. WorkInv' BY <1>14 DEF Answered
  <2>6. MarkerInv' BY <1>14 DEF Answered
  <2> QED BY <2>1, <2>2, <2>3, <2>4, <2>5, <2>6
<1>15. ASSUME NEW p \in Procs, Expired(p) PROVE IInv'
  <2>1. TypeOK' BY <1>15 DEF Expired, Points
  <2>2. LockInv' BY <1>15 DEF Expired
  <2>3. GrantsKnown' BY <1>15 DEF Expired
  <2>4. LoginInv' BY <1>15 DEF Expired
  <2>5. WorkInv' BY <1>15 DEF Expired
  <2>6. MarkerInv' BY <1>15 DEF Expired
  <2> QED BY <2>1, <2>2, <2>3, <2>4, <2>5, <2>6
<1>16. ASSUME NEW p \in Procs, Disowned(p) PROVE IInv'
  <2>1. TypeOK' BY <1>16 DEF Disowned, Points
  <2>2. LockInv' BY <1>16 DEF Disowned
  <2>3. GrantsKnown' BY <1>16 DEF Disowned
  <2>4. LoginInv' BY <1>16 DEF Disowned
  <2>5. WorkInv' BY <1>16 DEF Disowned
  <2>6. MarkerInv' BY <1>16 DEF Disowned
  <2> QED BY <2>1, <2>2, <2>3, <2>4, <2>5, <2>6
<1>17. ASSUME NEW p \in Procs, Disown(p) PROVE IInv'
  <2>1. TypeOK' BY <1>17 DEF Disown, Points
  <2>2. LockInv' BY <1>17 DEF Disown
  <2>3. GrantsKnown' BY <1>17 DEF Disown
  <2>4. LoginInv' BY <1>17 DEF Disown
  <2>5. WorkInv' BY <1>17 DEF Disown
  <2>6. MarkerInv' BY <1>17 DEF Disown
  <2> QED BY <2>1, <2>2, <2>3, <2>4, <2>5, <2>6
<1>18. ASSUME NEW p \in Procs, CommitLogin(p) PROVE IInv'
  <2>1. CASE Store(held[p]) /\ On(p, "clear", held[p]) /\ UNCHANGED <<lock, bounds>>
    <3>1. TypeOK' BY <1>18, <2>1 DEF CommitLogin, Points
    <3>2. LockInv' BY <1>18, <2>1 DEF CommitLogin
    <3>3. GrantsKnown' BY <1>18, <2>1 DEF CommitLogin
    <3>4. LoginInv' BY <1>18, <2>1, SMTT(20) DEF CommitLogin
    <3>5. WorkInv' BY <1>18, <2>1 DEF CommitLogin
    <3>6. MarkerInv' BY <1>18, <2>1 DEF CommitLogin
    <3> QED BY <3>1, <3>2, <3>3, <3>4, <3>5, <3>6
  <2>2. CASE UNCHANGED stored /\ Fault /\ Release(p) /\ End(p)
    <3>1. TypeOK' BY <1>18, <2>2 DEF CommitLogin, Points
    <3>2. LockInv' BY <1>18, <2>2 DEF CommitLogin
    <3>3. GrantsKnown' BY <1>18, <2>2 DEF CommitLogin
    <3>4. LoginInv' BY <1>18, <2>2 DEF CommitLogin
    <3>5. WorkInv' BY <1>18, <2>2 DEF CommitLogin
    <3>6. MarkerInv' BY <1>18, <2>2, SMTT(20) DEF CommitLogin
    <3> QED BY <3>1, <3>2, <3>3, <3>4, <3>5, <3>6
  <2> QED BY <1>18, <2>1, <2>2 DEF CommitLogin
<1>19. ASSUME NEW p \in Procs, ClearMarker(p) PROVE IInv'
  <2>1. TypeOK' BY <1>19 DEF ClearMarker, Points
  <2>2. LockInv' BY <1>19 DEF ClearMarker
  <2>3. GrantsKnown' BY <1>19 DEF ClearMarker
  <2>4. LoginInv' BY <1>19 DEF ClearMarker
  <2>5. WorkInv' BY <1>19 DEF ClearMarker
  <2>6. MarkerInv' BY <1>19 DEF ClearMarker
  <2> QED BY <2>1, <2>2, <2>3, <2>4, <2>5, <2>6
<1>20. ASSUME NEW p \in Procs, TakeCommit(p) PROVE IInv'
  <2>1. TypeOK' BY <1>20 DEF TakeCommit, Points
  <2>2. LockInv' BY <1>20 DEF TakeCommit
  <2>3. GrantsKnown' BY <1>20 DEF TakeCommit
  <2>4. LoginInv' BY <1>20 DEF TakeCommit
  <2>5. WorkInv' BY <1>20 DEF TakeCommit
  <2>6. MarkerInv' BY <1>20 DEF TakeCommit
  <2> QED BY <2>1, <2>2, <2>3, <2>4, <2>5, <2>6
<1>21. ASSUME NEW p \in Procs, Begin(p) PROVE IInv'
  <2>1. TypeOK' BY <1>21 DEF Begin, Points
  <2>2. LockInv' BY <1>21 DEF Begin
  <2>3. GrantsKnown' BY <1>21 DEF Begin
  <2>4. LoginInv' BY <1>21 DEF Begin
  <2>5. WorkInv' BY <1>21 DEF Begin
  <2>6. MarkerInv' BY <1>21 DEF Begin
  <2> QED BY <2>1, <2>2, <2>3, <2>4, <2>5, <2>6
<1>22. ASSUME NEW p \in Procs, Approve(p) PROVE IInv'
  BY <1>22, ApproveIInv DEF IInv
<1>23. ASSUME NEW p \in Procs, Logout(p) PROVE IInv'
  <2>1. TypeOK' BY <1>23 DEF Logout, Points
  <2>2. LockInv' BY <1>23 DEF Logout
  <2>3. GrantsKnown' BY <1>23 DEF Logout
  <2>4. LoginInv'
    <3>1. \A q \in Procs : held[q] # NoPair => held[q].grant # 0 OBVIOUS
    <3>2. stored' = NoPair /\ stored'.grant = 0 BY <1>23 DEF Logout
    <3>3. UNCHANGED <<pc, held, current>> BY <1>23 DEF Logout
    <3>4. LoginInv OBVIOUS
    <3> HIDE DEF TypeOK, GrantsKnown, LockInv, WorkInv, MarkerInv, IInv, Pairs
    <3> QED BY <3>1, <3>2, <3>3, <3>4
  <2>5. WorkInv' BY <1>23 DEF Logout
  <2>6. MarkerInv' BY <1>23 DEF Logout
  <2> QED BY <2>1, <2>2, <2>3, <2>4, <2>5, <2>6
<1>24. ASSUME NEW p \in Procs, Die(p) PROVE IInv'
  <2>1. TypeOK' BY <1>24 DEF Die, Points
  <2>2. LockInv' BY <1>24 DEF Die
  <2>3. GrantsKnown' BY <1>24 DEF Die
  <2>4. LoginInv' BY <1>24 DEF Die
  <2>5. WorkInv' BY <1>24 DEF Die
  <2>6. MarkerInv' BY <1>24 DEF Die
  <2> QED BY <2>1, <2>2, <2>3, <2>4, <2>5, <2>6
<1>25. CASE Revoke
  <2>0. \A g \in 1..issued : g \in Grants OBVIOUS
  <2>9. revoked' \subseteq Grants
    <3>1. revoked \subseteq Grants OBVIOUS
    <3>2. PICK g \in 1..issued \ revoked : revoked' = revoked \cup {g} BY <1>25 DEF Revoke
    <3> QED BY <2>0, <3>1, <3>2, Zenon
  <2>1. TypeOK' BY <1>25, <2>9 DEF Revoke
  <2>2. LockInv' BY <1>25 DEF Revoke
  <2>3. GrantsKnown' BY <1>25 DEF Revoke
  <2>4. LoginInv' BY <1>25 DEF Revoke
  <2>5. WorkInv' BY <1>25 DEF Revoke
  <2>6. MarkerInv' BY <1>25 DEF Revoke
  <2> QED BY <2>1, <2>2, <2>3, <2>4, <2>5, <2>6
<1>26. CASE UNCHANGED vars BY <1>26
<1> QED
  BY <1>1, <1>2, <1>3, <1>4, <1>5, <1>6, <1>7, <1>8, <1>9, <1>10, <1>11, <1>12, <1>13,
      <1>14, <1>15, <1>16, <1>17, <1>18, <1>19, <1>20, <1>21, <1>22, <1>23, <1>24,
      <1>25, <1>26 DEF Next, Step

(* Whatever commands run beside each other, who holds the lock is inside,  *)
(* a login's grant is its own until it is stored, and a stored pair that   *)
(* was rotated is under its marker until a refresh slips under one         *)
(* (refreshUnderLock, commitRotation, commitLogin).                        *)
THEOREM CredentialsInvariant == Spec => []IInv
<1>1. Init => IInv
  <2> SUFFICES ASSUME Init PROVE IInv OBVIOUS
  <2> USE CredentialsAssumption DEF Init
  <2>1. TypeOK
    <3>1. 1 \in Grants /\ FirstOf(1) \in Pairs BY DEF Grants, FirstOf, Pairs
    <3>2. current \in [Grants -> Nat] OBVIOUS
    <3> QED BY <3>1, <3>2 DEF TypeOK, Points, Free
  <2>2. LockInv BY DEF LockInv, Inside, Free, Dead
  <2>3. GrantsKnown BY DEF GrantsKnown, NoPair, FirstOf, Grants
  <2>4. LoginInv /\ WorkInv BY DEF LoginInv, WorkInv
  <2>5. MarkerInv BY DEF MarkerInv, Spent, FirstOf, NoPair, Grants
  <2> QED BY <2>1, <2>2, <2>3, <2>4, <2>5 DEF IInv
<1> QED BY <1>1, StepIInv, PTL DEF Spec

(* The server takes a call for a theft only after a refresh has begun on a *)
(* pair a marker was over: no crash, lost answer, login or logout makes it *)
(* so on its own.                                                          *)
THEOREM NoFalseAlarms == Spec => []NoFalseAlarm
<1>1. IInv => NoFalseAlarm BY DEF IInv, MarkerInv, NoFalseAlarm
<1> QED BY <1>1, CredentialsInvariant, PTL

(* What NeverGoesBack asks of one step.                                    *)
GoesForward == stored' \in {stored, NoPair, NextOf(stored)} \/ stored = NoPair
                  \/ (stored'.gen = 0 /\ stored'.grant # stored.grant)

(* A late answer never puts an older pair over a newer one, nor over a     *)
(* login: writeProfile in commitRotation and commitLogin, and every        *)
(* removal, for any number of commands.                                    *)
THEOREM StoredGoesForward == Spec => NeverGoesBack
<1>1. IInv /\ [Next]_vars => [GoesForward]_vars
  <2> SUFFICES ASSUME IInv, Next PROVE GoesForward BY DEF GoesForward, vars, files
  <2> USE DEF IInv, GoesForward, Store, files
  <2>1. ASSUME NEW p \in Procs, CommitRotation(p) PROVE GoesForward
    BY <2>1 DEF CommitRotation, At, WorkInv
  <2>2. ASSUME NEW p \in Procs, CommitLogin(p) PROVE GoesForward
    BY <2>2 DEF CommitLogin, At, LoginInv
  <2>3. ASSUME NEW p \in Procs, Refused(p) \/ Disown(p) \/ Logout(p) PROVE GoesForward
    BY <2>3 DEF Refused, Disown, Logout
  <2>4. CASE UNCHANGED stored BY <2>4
  <2> QED
    BY <2>1, <2>2, <2>3, <2>4 DEF Next, Step, ReadMarker, Confirm, GiveUp,
        TakeConfirm, TakeRefresh, Take, MarkPending, Ask, NeverSent, Unsure, Rotated,
        Unmark, Answered, Expired, Disowned, ClearMarker, TakeCommit, Begin, Approve,
        Die, Revoke
<1> QED BY <1>1, CredentialsInvariant, PTL DEF Spec, NeverGoesBack, GoesForward
-----------------------------------------------------------------------------
(***************************************************************************)
(* That a command of `self state` moves no record but those it answers     *)
(* for, for any number of sessions, projects and records and any caps.     *)
(*                                                                         *)
(* A record reads as its own lines say, and whether another's line that    *)
(* is accepted replaces it.  So a write can only move it by naming it, by  *)
(* replacing it, or by accepting what replaces it.                         *)
(***************************************************************************)

Numbered(l, n) ==
    /\ l.at \in 0..n /\ l.of \in 0..n
    /\ l.type \in {"asserted", "proposed"} => l.at = l.of

(* Every line names a record some write made, and one that makes a record  *)
(* has its number; what a session read, it read of records there are.      *)
TiersInv ==
    /\ writes \in Nat
    /\ \A l \in log : Numbered(l, writes)
    /\ view = DeriveEntities(log)
    /\ read = [s \in Sessions |-> read[s]]
    /\ \A s \in Sessions : DOMAIN read[s] \subseteq 0..writes

Shaped(l) ==
    l = [type |-> l.type, at |-> l.at, in |-> l.in, of |-> l.of, answers |-> l.answers, size |-> l.size,
         rule |-> l.rule, exposure |-> l.exposure, scope |-> l.scope, asks |-> l.asks,
         admits |-> l.admits, replaces |-> l.replaces]

\* What a command hands to Write: lines of records there are or of its own.
Fit(l, n) ==
    /\ Shaped(l) /\ l.of \in 0..n
    /\ l.type \in {"asserted", "proposed"} => l.of = n

\* A record that no new line names, and that nothing replaces that did not
\* before, reads as it did.
LEMMA FoldIsLocal ==
    ASSUME NEW L, NEW M, L \subseteq M, NEW e \in DOMAIN DeriveEntities(L),
           \A l \in M \ L : l.of # e,
           \A by \in CreatedBy(M) : e \in by.replaces /\ Accepted(M, by) => by \in L /\ Accepted(L, by)
    PROVE  e \in DOMAIN DeriveEntities(M) /\ DeriveEntities(M)[e] = DeriveEntities(L)[e]
<1> DEFINE made == Created(L, e)
<1>1. \A l : l \in CreatedBy(M) /\ l.of = e <=> l \in CreatedBy(L) /\ l.of = e
  BY DEF CreatedBy
<1>2. Created(M, e) = made
  BY <1>1, Zenon DEF Created
<1>3. made \in CreatedBy(L) /\ made.of = e
  BY DEF Created, DeriveEntities
<1>4. \A type : Says(M, type, e) <=> Says(L, type, e)
  BY DEF Says
<1>5. \A ask : ask.of = e => (IsAnswered(M, ask) <=> IsAnswered(L, ask))
  BY DEF IsAnswered
<1>6. Accepted(M, made) <=> Accepted(L, made)
  BY <1>3, <1>5 DEF Accepted
<1>7. (\E by \in CreatedBy(M) : e \in by.replaces /\ Accepted(M, by))
      <=> (\E by \in CreatedBy(L) : e \in by.replaces /\ Accepted(L, by))
  BY DEF CreatedBy, Accepted, IsAnswered
<1>8. Status(M, made) = Status(L, made)
  BY <1>3, <1>4, <1>6, <1>7 DEF Status
<1>9. Placements(M, e) = Placements(L, e)
  BY DEF Placements
<1>10. InForce(M, e) = InForce(L, e)
  BY <1>5, <1>9 DEF InForce, Placements
<1>11. Pending(M, e) = Pending(L, e)
  BY <1>9, <1>10 DEF Pending
<1>12. \A field : Stated(M, made, field) = Stated(L, made, field)
  BY <1>3, <1>10 DEF Stated
<1>13. Entity(M, made) = Entity(L, made)
  BY <1>3, <1>4, <1>8, <1>11, <1>12 DEF Entity
<1>14. e \in DOMAIN DeriveEntities(M)
  BY <1>3 DEF DeriveEntities, CreatedBy
<1>15. DeriveEntities(M)[e] = Entity(M, Created(M, e)) /\ DeriveEntities(L)[e] = Entity(L, made)
  BY <1>14 DEF DeriveEntities
<1>16. QED
  BY <1>2, <1>13, <1>14, <1>15

\* What may be named to make room is what the session read.
LEMMA DemotedAreKnown ==
    ASSUME NEW t, NEW entered, NEW except, NEW demoted \in Demotions(t, entered, except)
    PROVE  demoted \subseteq DOMAIN t
BY DEF Demotions, Demotable

\* What one confirm answers is what the session read.
LEMMA UnitIsKnown ==
    ASSUME NEW t, NEW p, NEW e \in Waiting(t, p)
    PROVE  PairedUnit(t, e) \subseteq DOMAIN t
<1>1. \A q : Waiting(t, q) \subseteq DOMAIN t
  BY DEF Waiting
<1>2. Centre(t, e) \in DOMAIN t
  BY <1>1 DEF Centre
<1>3. QED
  BY <1>1, <1>2 DEF PairedUnit

\* The lines that make room are of records the session read.
LEMMA DemotionLinesFit ==
    ASSUME NEW t, NEW n \in Nat, DOMAIN t \subseteq 0..n, NEW demoted, demoted \subseteq DOMAIN t,
           NEW admit, NEW proposed, NEW l \in DemotionLines(t, demoted, admit, proposed)
    PROVE  Fit(l, n + 1)
<1>1. PICK e \in demoted :
        l = [Line EXCEPT !.type = "placed", !.in = t[e].in, !.of = e, !.asks = proposed, !.admits = admit,
                         !.exposure = DemotionTarget(t[e].exposure)]
  BY DEF DemotionLines
<1>2. Shaped(l) /\ l.of = e /\ l.type = "placed"
  BY <1>1 DEF Shaped, Line
<1>3. e \in 0..(n + 1)
  OBVIOUS
<1>4. QED
  BY <1>2, <1>3 DEF Fit

\* Every write appends lines that fit.
LEMMA EveryWriteFits ==
    ASSUME TiersInv, NEW s \in Sessions, Add(s) \/ Place(s) \/ StateConfirm(s) \/ Leave(s)
    PROVE  \E verb, lines : Write(s, verb, lines) /\ \A l \in lines : Fit(l, writes + 1)
<1> DEFINE t == read[s]  x == writes + 1
<1>1. writes \in Nat /\ DOMAIN t \subseteq 0..writes
  BY DEF TiersInv
<1>2. CASE Add(s)
  <2>1. PICK p, size, exposure, target, proposed, rule, old, entered, demoted :
          demoted \in Demotions(t, entered, {}) /\
          Write(s, IF proposed THEN "propose" ELSE "add",
                {AddLine(p, x, size, rule, exposure, target, old, proposed)}
                \cup DemotionLines(t, demoted, x, proposed))
    <3>1. PICK p, size, rule, exposure, target, old, proposed, demoted :
            /\ demoted \in Demotions(t, ChargedCap(rule, target, exposure), {})
            /\ AddRecord(s, p, size, rule, exposure, target, old, proposed, demoted)
      BY <1>2, Zenon DEF Add
    <3>2. QED
      BY <3>1, Zenon DEF AddRecord
  <2> DEFINE own == AddLine(p, x, size, rule, exposure, target, old, proposed)
             rest == DemotionLines(t, demoted, x, proposed)
  <2>2. ASSUME NEW l, l = own PROVE Shaped(l) /\ l.of = x
    BY <2>2 DEF Shaped, Line, AddLine
  <2>3. Fit(own, x)
    BY <1>1, <2>2 DEF Fit
  <2>4. demoted \subseteq DOMAIN t
    BY <2>1, DemotedAreKnown
  <2>5. \A l \in rest : Fit(l, x)
    BY <1>1, <2>4, DemotionLinesFit
  <2> HIDE DEF own, rest, t, x
  <2>6. \A l \in {own} \cup rest : Fit(l, x)
    BY <2>3, <2>5
  <2>7. QED
    BY <2>1, <2>6 DEF own, rest, x
<1>3. CASE Place(s)
  <2>1. PICK e, exposure, target, asks, entered, demoted :
          e \in DOMAIN t /\ demoted \in Demotions(t, entered, {e}) /\
          Write(s, IF asks THEN "ask" ELSE "place",
                {PlaceLine(t, e, exposure, target, asks)}
                \cup DemotionLines(t, demoted, e, asks))
    <3>1. PICK p, e, exposure, target, reorder, asks, demoted :
            /\ e \in DOMAIN t /\ demoted \in Demotions(t, EnteredTier(t[e], exposure, target), {e})
            /\ PlaceRecord(s, p, e, exposure, target, reorder, asks, demoted)
      BY <1>3, Zenon DEF Place
    <3>2. QED
      BY <3>1, Zenon DEF PlaceRecord
  <2> DEFINE own == PlaceLine(t, e, exposure, target, asks)
             rest == DemotionLines(t, demoted, e, asks)
  <2>2. ASSUME NEW l, l = own PROVE Shaped(l) /\ l.of = e /\ l.type = "placed"
    BY <2>2 DEF Shaped, Line, PlaceLine
  <2>3. Fit(own, x)
    BY <1>1, <2>1, <2>2 DEF Fit
  <2>4. demoted \subseteq DOMAIN t
    BY <2>1, DemotedAreKnown
  <2>5. \A l \in rest : Fit(l, x)
    BY <1>1, <2>4, DemotionLinesFit
  <2> HIDE DEF own, rest, t, x
  <2>6. \A l \in {own} \cup rest : Fit(l, x)
    BY <2>3, <2>5
  <2>7. QED
    BY <2>1, <2>6 DEF own, rest, x
<1>4. CASE StateConfirm(s)
  <2>1. PICK p, e : e \in Waiting(t, p) /\
          Write(s, "confirm", {Answer(t, r) : r \in PairedUnit(t, e)})
    BY <1>4 DEF StateConfirm
  <2>2. ASSUME NEW r \in PairedUnit(t, e) PROVE Fit(Answer(t, r), x)
    <3>1. r \in 0..x
      BY <1>1, <2>1, UnitIsKnown
    <3>2. ASSUME NEW l, l = Answer(t, r) PROVE Shaped(l) /\ l.of = r /\ l.type = "confirmed"
      BY <3>2 DEF Answer, Shaped, Line
    <3>3. QED
      BY <3>1, <3>2 DEF Fit
  <2> DEFINE lines == {Answer(t, r) : r \in PairedUnit(t, e)}
  <2>3. \A l \in lines : Fit(l, x)
    BY <2>2
  <2> HIDE DEF lines
  <2>4. QED
    BY <2>1, <2>3 DEF lines
<1>5. CASE Leave(s)
  <2>1. PICK e \in DOMAIN t, type \in {"retracted", "done"} :
          Write(s, type, {[Line EXCEPT !.type = type, !.in = t[e].in, !.of = e]})
    BY <1>5 DEF Leave
  <2> DEFINE own == [Line EXCEPT !.type = type, !.in = t[e].in, !.of = e]
  <2>2. ASSUME NEW l, l = own PROVE Shaped(l) /\ l.of = e /\ l.type = type
    BY <2>2 DEF Shaped, Line
  <2>3. Fit(own, x)
    BY <1>1, <2>2 DEF Fit
  <2> HIDE DEF own, x
  <2>4. \A l \in {own} : Fit(l, x)
    BY <2>3
  <2>5. QED
    BY <2>1, <2>4 DEF own, x
<1>6. QED
  BY <1>2, <1>3, <1>4, <1>5

\* What a write adds to the log, of records there are or the one it makes.
LEMMA WrittenIsNumbered ==
    ASSUME TiersInv, NEW s \in Sessions, NEW verb, NEW lines, Write(s, verb, lines),
           \A l \in lines : Fit(l, writes + 1)
    PROVE  /\ log \subseteq log'
           /\ \A l \in log' \ log : Numbered(l, writes + 1) /\ l.at = writes + 1
           /\ writes' = writes + 1
<1>1. log' = log \cup {[l EXCEPT !.at = writes + 1] : l \in lines} /\ writes' = writes + 1
  BY DEF Write
<1>2. ASSUME NEW l \in lines, NEW k, k = [l EXCEPT !.at = writes + 1]
      PROVE  Numbered(k, writes + 1) /\ k.at = writes + 1
  <2>1. k = [type |-> l.type, at |-> writes + 1, in |-> l.in, of |-> l.of, answers |-> l.answers,
             size |-> l.size, rule |-> l.rule, exposure |-> l.exposure, scope |-> l.scope,
             asks |-> l.asks, admits |-> l.admits, replaces |-> l.replaces]
    BY <1>2 DEF Fit, Shaped
  <2>2. k.at = writes + 1 /\ k.of = l.of /\ k.type = l.type
    BY <2>1
  <2>3. QED
    BY <2>2 DEF Fit, Numbered, TiersInv
<1>3. QED
  BY <1>1, <1>2

\* The invariant holds at first and is kept.
LEMMA TiersInitInv ==
    ASSUME TiersInit PROVE TiersInv
<1>1. PICK last \in log : last.at \in Nat /\ \A l \in log : {l.at, l.of} \subseteq 0..last.at
  BY TiersAssumption DEF TiersInit
<1> DEFINE chosen == Latest(log)
<1>2. chosen \in log /\ \A k \in log : k.at <= chosen.at
  BY <1>1 DEF Latest
<1>3. chosen.at = last.at
  BY <1>1, <1>2
<1>4. \A l \in log : l.type \in {"asserted", "proposed"} => l.at = l.of
  BY TiersAssumption DEF TiersInit
<1>5. writes = last.at
  BY <1>3 DEF TiersInit
<1>6. \A l \in log : Numbered(l, writes)
  BY <1>1, <1>4, <1>5 DEF Numbered
<1>7. QED
  BY <1>1, <1>5, <1>6 DEF TiersInv, TiersInit, Unread

LEMMA TiersStepInv ==
    ASSUME TiersInv, [TiersNext]_tiersVars PROVE TiersInv'
<1>1. CASE UNCHANGED tiersVars
  BY <1>1 DEF TiersInv, tiersVars, Numbered
<1>2. ASSUME NEW s \in Sessions, Look(s) PROVE TiersInv'
  <2>1. read' = [read EXCEPT ![s] = view] /\ UNCHANGED <<log, writes, view>>
    BY <1>2 DEF Look
  <2>2. DOMAIN view \subseteq 0..writes
    BY DEF TiersInv, DeriveEntities, CreatedBy, Numbered
  <2>3. QED
    BY <2>1, <2>2 DEF TiersInv
<1>3. ASSUME NEW s \in Sessions, Add(s) \/ Place(s) \/ StateConfirm(s) \/ Leave(s) PROVE TiersInv'
  <2>1. PICK verb, lines : Write(s, verb, lines) /\ \A l \in lines : Fit(l, writes + 1)
    BY <1>3, EveryWriteFits
  <2>2. /\ \A l \in log' \ log : Numbered(l, writes + 1)
        /\ writes' = writes + 1 /\ writes \in Nat
    BY <2>1, WrittenIsNumbered DEF TiersInv
  <2>3. \A l \in log' : Numbered(l, writes')
    BY <2>2 DEF TiersInv, Numbered
  <2>4. view' = DeriveEntities(log') /\ read' = [read EXCEPT ![s] = Unread]
    BY <2>1 DEF Write
  <2>5. QED
    BY <2>2, <2>3, <2>4 DEF TiersInv, Unread
<1>4. QED
  BY <1>1, <1>2, <1>3 DEF TiersNext

\* A write moves what it names: the step form of the property.
LEMMA AWriteMovesWhatItNames ==
    ASSUME TiersInv, [TiersNext]_tiersVars, NEW e \in DOMAIN view \ Named(Written)
    PROVE  view'[e] = view[e]
<1>1. CASE UNCHANGED tiersVars
  BY <1>1 DEF tiersVars
<1>2. CASE \E s \in Sessions : Look(s)
  BY <1>2 DEF Look
<1>3. ASSUME NEW s \in Sessions, Add(s) \/ Place(s) \/ StateConfirm(s) \/ Leave(s)
      PROVE  view'[e] = view[e]
  <2>1. PICK verb, lines : Write(s, verb, lines) /\ \A l \in lines : Fit(l, writes + 1)
    BY <1>3, EveryWriteFits
  <2>2. /\ log \subseteq log' /\ writes' = writes + 1 /\ writes \in Nat
        /\ \A l \in log' \ log : Numbered(l, writes + 1) /\ l.at = writes + 1
    BY <2>1, WrittenIsNumbered DEF TiersInv
  <2>3. \A l \in log' \ log : l.of # e
    BY DEF Named, Written
  <2>4. \A l \in log' : l.type \in {"asserted", "proposed"} => l.at = l.of
    BY <2>2 DEF TiersInv, Numbered
  <2>5. ASSUME NEW by \in CreatedBy(log'), e \in by.replaces, Accepted(log', by)
        PROVE  by \in log /\ Accepted(log, by)
    <3>1. \A w \in log' \ log : ~(w.of = by.of /\ Lands(w))
      BY <2>5 DEF Named, Written
    <3>2. CASE by \in log' \ log
      <4>1. by.at = by.of /\ by.at = writes + 1
        BY <2>2, <2>4, <3>2 DEF CreatedBy
      <4>2. by.type # "asserted"
        BY <3>1, <3>2 DEF Lands
      <4>3. PICK l \in log' : l.type = "confirmed" /\ l.of = by.of /\ l.answers = by.at
        BY <2>5, <4>2 DEF Accepted, IsAnswered
      <4>4. l \notin log
        BY <2>2, <4>1, <4>3 DEF TiersInv, Numbered
      <4>5. QED
        BY <3>1, <4>1, <4>3, <4>4 DEF Lands
    <3>3. CASE by \in log
      <4>1. by.at = by.of
        BY <2>4 DEF CreatedBy
      <4>2. CASE by.type = "asserted"
        BY <3>3, <4>2 DEF Accepted
      <4>3. CASE by.type # "asserted"
        <5>1. PICK l \in log' : l.type = "confirmed" /\ l.of = by.of /\ l.answers = by.at
          BY <2>5, <4>3 DEF Accepted, IsAnswered
        <5>2. l \in log
          BY <3>1, <4>1, <5>1 DEF Lands
        <5>3. QED
          BY <3>3, <5>1, <5>2 DEF Accepted, IsAnswered
      <4>4. QED
        BY <4>2, <4>3
    <3>4. QED
      BY <3>2, <3>3, <2>5 DEF CreatedBy
  <2>6. view = DeriveEntities(log) /\ view' = DeriveEntities(log')
    BY <2>1 DEF TiersInv, Write
  <2>7. QED
    BY <2>2, <2>3, <2>5, <2>6, FoldIsLocal
<1>4. QED
  BY <1>1, <1>2, <1>3 DEF TiersNext

\* A command moves the records it names, replaces, or accepts the replacement
\* of, and no other, whatever was written since it read.
THEOREM ACommandMovesOnlyWhatItNames == TiersSpec => OnlyTheNamedMove
<1>1. TiersSpec => []TiersInv
  BY TiersInitInv, TiersStepInv, PTL DEF TiersSpec
<1>2. TiersInv /\ [TiersNext]_tiersVars
      => [\A e \in DOMAIN view \ Named(Written) : view'[e] = view[e]]_tiersVars
  BY AWriteMovesWhatItNames
<1>3. QED
  BY <1>1, <1>2, PTL DEF TiersSpec, OnlyTheNamedMove
=============================================================================
