------------------------ MODULE SyncTransport_proofs ------------------------
(***************************************************************************)
(* What SyncTransport guarantees for every number of appends, every number *)
(* of events in one, all syncs, readers and tellers, overlapping or not,   *)
(* with any deaths, refusals and late transactions.                        *)
(*                                                                         *)
(* The server's log only grows and the copy is a prefix of it, so what the *)
(* copy holds of an append it holds for good.  Marks are decided on the    *)
(* copy, hence what compaction drops is held by it.  Of what an append is  *)
(* in, then, no step but making it and refusing it changes anything the    *)
(* promise of RecordStore speaks of.                                       *)
(***************************************************************************)
EXTENDS SyncTransport, SequenceTheorems, FiniteSetTheorems, WellFoundedInduction, TLAPS

\* A set of numbers that is not empty has a least one.
LEMMA LeastExists ==
  ASSUME NEW S \in SUBSET Nat, S # {}
  PROVE  \E x \in S : \A y \in S : x <= y
<1> DEFINE R == {p \in Nat \X Nat : p[1] < p[2]}
<1>1. IsWellFoundedOn(R, Nat)
  BY NatLessThanWellFounded DEF OpToRel
<1>2. PICK x \in S : \A y \in S : <<y, x>> \notin R
  <2> HIDE DEF R
  <2> QED
    BY <1>1, WFMin
<1>3. ASSUME NEW y \in S PROVE x <= y
  <2>1. <<y, x>> \notin R
    BY <1>2
  <2>2. x \in Nat /\ y \in Nat
    OBVIOUS
  <2>3. QED
    BY <2>1, <2>2
<1>4. QED
  BY <1>3

\* CHOOSE finds the append of a batch that was made first.
LEMMA EarliestIn ==
  ASSUME NEW S \in SUBSET Appends, S # {}
  PROVE  Earliest(S) \in S
<1>1. S \in SUBSET Nat
  BY TransportAssumption DEF Appends
<1>2. \E x \in S : \A y \in S : x <= y
  BY <1>1, LeastExists
<1>3. QED
  BY <1>2 DEF Earliest

\* The events of an append are a log of their own.
LEMMA EventsOfType ==
  ASSUME NEW a \in Appends
  PROVE  EventsOf(a) \in Seq(Event)
<1>1. EventsOf(a) \in [1..Size -> Event]
  BY TransportAssumption DEF EventsOf, Event, Appends
<1>2. QED
  BY <1>1, TransportAssumption, SeqDef

\* What every log of the server is of the one before.
Grown == Len(slog) <= Len(slog') /\ \A i \in 1..Len(slog) : slog'[i] = slog[i]

\* A transaction of the server only appends to its log.
LEMMA TakenGrows ==
  ASSUME slog \in Seq(Event), NEW a \in Appends, TakenBy(a)
  PROVE  slog' \in Seq(Event) /\ Grown
<1>1. CASE Held(a)
  BY <1>1 DEF TakenBy, Grown
<1>2. CASE ~Held(a)
  <2>1. EventsOf(a) \in Seq(Event)
    BY EventsOfType
  <2>2. slog' = slog \o EventsOf(a)
    BY <1>2 DEF TakenBy
  <2>3. slog' \in Seq(Event)
    BY <2>1, <2>2
  <2>4. Grown
    BY <2>1, <2>2 DEF Grown
  <2>5. QED
    BY <2>3, <2>4
<1>3. QED
  BY <1>1, <1>2

\* So does one of another machine.
LEMMA RemoteGrows ==
  ASSUME slog \in Seq(Event), TakeRemote
  PROVE  slog' \in Seq(Event) /\ Grown
<1> DEFINE n == Cardinality(FromRemote) + 1
<1>1. n \in Nat
  <2>1. IsFiniteSet(DOMAIN slog)
    BY LenProperties, FS_Interval
  <2>2. IsFiniteSet(FromRemote)
    BY <2>1, FS_Subset DEF FromRemote
  <2>3. QED
    BY <2>2, FS_CardinalityType
<1>2. <<0, n>> \in Event
  BY <1>1, TransportAssumption DEF Event
<1>3. slog' = Append(slog, <<0, n>>)
  BY DEF TakeRemote
<1>4. slog' \in Seq(Event)
  BY <1>2, <1>3
<1>5. QED
  BY <1>3, <1>4 DEF Grown

\* The server's log stays a log of events and never loses or moves one.
LEMMA LogGrows == TypeOK /\ [Next]_vars => slog' \in Seq(Event) /\ Grown
<1> SUFFICES ASSUME TypeOK, [Next]_vars PROVE slog' \in Seq(Event) /\ Grown
  OBVIOUS
<1> slog \in Seq(Event)
  BY DEF TypeOK
<1>1. ASSUME NEW s \in Sync, Take(s) PROVE slog' \in Seq(Event) /\ Grown
  <2>1. run[s].rest \in SUBSET Appends /\ run[s].rest # {}
    BY <1>1 DEF Take, TypeOK, Run
  <2>2. Earliest(run[s].rest) \in Appends
    BY <2>1, EarliestIn
  <2>3. TakenBy(Earliest(run[s].rest))
    BY <1>1 DEF Take
  <2>4. QED
    BY <2>2, <2>3, TakenGrows
<1>2. CASE TakeLate
  <2>1. PICK r \in flight : TakenBy(Earliest(r))
    BY <1>2 DEF TakeLate
  <2>2. r \in SUBSET Appends /\ r # {}
    BY DEF TypeOK
  <2>3. QED
    BY <2>1, <2>2, EarliestIn, TakenGrows
<1>3. CASE TakeRemote
  BY <1>3, RemoteGrows
<1>4. CASE UNCHANGED slog
  BY <1>4 DEF Grown
<1>5. ASSUME NEW s \in Sync, Push(s) \/ Pull(s) \/ Crash(s) PROVE UNCHANGED slog
  <2>1. CASE Push(s)
    BY <2>1 DEF Push, StartPush, Post, OutOfTime, Accepted, Refused, Split,
                WaitAndRetry, LeftQueued, Block, server
  <2>2. CASE Pull(s)
    BY <2>2 DEF Pull, StartPull, Pulled, PullFailed, AppendStoredEvents,
                SettleArrived, MarkSent, FoldProject, CompactQueue, server
  <2>3. CASE Crash(s)
    BY <2>3 DEF Crash
  <2>4. QED
    BY <1>5, <2>1, <2>2, <2>3
<1>6. ASSUME AppendPending \/ (\E r \in Reader : ReadLog(r) \/ ReadQueue(r))
             \/ (\E c \in Teller : SurfaceBlocked(c) \/ MarkSurfaced(c))
             \/ UNCHANGED vars
      PROVE UNCHANGED slog
  BY <1>6 DEF AppendPending, ReadLog, ReadQueue, SurfaceBlocked, MarkSurfaced, server, vars
<1>7. QED
  BY <1>1, <1>2, <1>3, <1>4, <1>5, <1>6 DEF Next

-----------------------------------------------------------------------------
(* Types *)

\* A sync that sends has something to send.
BatchInv == \A s \in Sync : run[s].pc \in {"send", "posted", "block"} => run[s].batch # {}

TypeInv == TypeOK /\ BatchInv

\* What a step of a sync leaves of the types, wherever it leads.
RunType == run' \in [Sync -> Run] /\ holder' \in Sync \cup {NoHolder} /\ BatchInv'

\* A sync that does nothing has the type of one.
LEMMA IdleType == Idle \in Run
  BY DEF Idle, Run, States

\* A step that moves one sync to a run of the right type keeps the types.
LEMMA RunStep ==
  ASSUME TypeInv, NEW s \in Sync, NEW x \in Run,
         run' = [run EXCEPT ![s] = x],
         x.pc \in {"send", "posted", "block"} => x.batch # {},
         holder' = holder \/ holder' = s
  PROVE  RunType
<1>1. run' \in [Sync -> Run] /\ holder' \in Sync \cup {NoHolder}
  BY DEF TypeInv, TypeOK
<1>2. BatchInv'
  BY DEF BatchInv, TypeInv, TypeOK
<1>3. QED
  BY <1>1, <1>2 DEF RunType

\* The end of a run keeps the types.
LEMMA FinishType ==
  ASSUME TypeInv, NEW s \in Sync, Finish(s)
  PROVE  RunType
<1>1. run' \in [Sync -> Run] /\ run' = [run EXCEPT ![s] = Idle]
  BY IdleType DEF Finish, TypeInv, TypeOK
<1>2. holder' \in Sync \cup {NoHolder}
  BY DEF Finish, Released, TypeInv, TypeOK
<1>3. BatchInv'
  BY <1>1 DEF BatchInv, TypeInv, TypeOK, Idle
<1>4. QED
  BY <1>1, <1>2, <1>3 DEF RunType

\* The next append of a split batch, or the end of the run, keeps them too.
LEMMA ContinueType ==
  ASSUME TypeInv, NEW s \in Sync, Continue(s)
  PROVE  RunType
<1>1. CASE run[s].todo = {}
  BY <1>1, FinishType DEF Continue
<1>2. CASE run[s].todo # {}
  <2> DEFINE a == Earliest(run[s].todo)
             x == [Idle EXCEPT !.pc = "send", !.again = TRUE,
                               !.batch = {a}, !.todo = run[s].todo \ {a}]
  <2>1. run[s].todo \in SUBSET Appends
    BY DEF TypeInv, TypeOK, Run
  <2>2. a \in Appends
    BY <1>2, <2>1, EarliestIn
  <2>3. x \in Run /\ x.batch # {}
    BY <2>1, <2>2 DEF Idle, Run, States
  <2>4. run' = [run EXCEPT ![s] = x] /\ holder' = holder
    BY <1>2 DEF Continue
  <2>5. QED
    <3> HIDE DEF x
    <3> QED
      BY <2>3, <2>4 DEF RunType, BatchInv, TypeInv, TypeOK
<1>3. QED
  BY <1>1, <1>2

\* What is unsent was appended.
LEMMA UnsentType == TypeOK => Unsent \in SUBSET Appends
  BY DEF TypeOK, Unsent

\* What a dead client leaves behind is never an empty request.
LEMMA OrphanedType ==
  ASSUME TypeOK, NEW s \in Sync
  PROVE  flight \cup Orphaned(s) \subseteq (SUBSET Appends) \ {{}}
  BY DEF TypeOK, Orphaned, Run

\* No step of a push leaves the types.
LEMMA PushType ==
  ASSUME TypeInv, NEW s \in Sync, Push(s)
  PROVE  TypeInv'
<1> USE DEF TypeInv
<1> run[s] \in Run
  BY DEF TypeOK
<1> run \in [Sync -> Run]
  BY DEF TypeOK
<1>1. CASE StartPush(s)
  <2> DEFINE x == [run[s] EXCEPT !.pc = "send", !.batch = Unsent]
  <2>3. x \in Run /\ (x.pc \in {"send", "posted", "block"} => x.batch # {})
    BY <1>1, UnsentType DEF StartPush, BatchInv, Run, States
  <2>4. run' = [run EXCEPT ![s] = x] /\ (holder' = holder \/ holder' = s)
    BY <1>1 DEF StartPush
  <2>1. RunType
    <3> HIDE DEF x
    <3> QED
      BY <2>3, <2>4, RunStep
  <2>2. QED
    BY <1>1, <2>1 DEF StartPush, RunType, TypeOK, store, server, readers
<1>2. CASE Post(s)
  <2> DEFINE x == [run[s] EXCEPT !.pc = "posted", !.rest = run[s].batch]
  <2>3. x \in Run /\ (x.pc \in {"send", "posted", "block"} => x.batch # {})
    BY <1>2 DEF Post, BatchInv, Run, States
  <2>4. run' = [run EXCEPT ![s] = x] /\ (holder' = holder \/ holder' = s)
    BY <1>2 DEF Post
  <2>1. RunType
    <3> HIDE DEF x
    <3> QED
      BY <2>3, <2>4, RunStep
  <2>2. QED
    BY <1>2, <2>1 DEF Post, RunType, TypeOK, store, server, readers
<1>3. CASE OutOfTime(s)
  <2>1. RunType
    BY <1>3, FinishType DEF OutOfTime
  <2>2. QED
    BY <1>3, <2>1 DEF OutOfTime, RunType, TypeOK, store, server, readers
<1>4. CASE Accepted(s)
  <2>1. RunType
    BY <1>4, ContinueType DEF Accepted
  <2>2. QED
    BY <1>4, <2>1 DEF Accepted, RunType, TypeOK, store, server, readers
<1>5. CASE Refused(s)
  <2> DEFINE x == [run[s] EXCEPT !.pc = "block"]
  <2>3. x \in Run /\ (x.pc \in {"send", "posted", "block"} => x.batch # {})
    BY <1>5 DEF Refused, BatchInv, Run, States
  <2>4. run' = [run EXCEPT ![s] = x] /\ (holder' = holder \/ holder' = s)
    BY <1>5 DEF Refused
  <2>1. RunType
    <3> HIDE DEF x
    <3> QED
      BY <2>3, <2>4, RunStep
  <2>2. QED
    BY <1>5, <2>1 DEF Refused, RunType, TypeOK, store, server, readers
<1>6. CASE Split(s)
  <2> DEFINE a == Earliest(run[s].batch)
             x == [Idle EXCEPT !.pc = "send", !.again = TRUE,
                               !.batch = {a}, !.todo = run[s].batch \ {a}]
             y == [run[s] EXCEPT !.pc = "block"]
  <2>1. run[s].batch \in SUBSET Appends /\ run[s].batch # {}
    BY <1>6 DEF Split, TypeOK, BatchInv, Run
  <2>2. x \in Run /\ x.batch # {}
    BY <2>1, EarliestIn DEF Idle, Run, States
  <2>3. y \in Run /\ y.batch # {}
    BY <2>1 DEF Run, States
  <2>4. RunType
    <3>1. \/ run' = [run EXCEPT ![s] = y]
          \/ run' = [run EXCEPT ![s] = x]
      BY <1>6 DEF Split
    <3>2. holder' = holder
      BY <1>6 DEF Split
    <3> HIDE DEF x, y
    <3>3. QED
      BY <2>2, <2>3, <3>1, <3>2, RunStep
  <2>5. QED
    BY <1>6, <2>4 DEF Split, RunType, TypeOK, store, server, readers
<1>7. CASE WaitAndRetry(s)
  <2> DEFINE x == [run[s] EXCEPT !.pc = "send", !.rest = {}, !.again = TRUE]
  <2>3. x \in Run /\ (x.pc \in {"send", "posted", "block"} => x.batch # {})
    BY <1>7 DEF WaitAndRetry, BatchInv, Run, States
  <2>4. run' = [run EXCEPT ![s] = x] /\ (holder' = holder \/ holder' = s)
    BY <1>7 DEF WaitAndRetry
  <2>1. RunType
    <3> HIDE DEF x
    <3> QED
      BY <2>3, <2>4, RunStep
  <2>2. QED
    BY <1>7, <2>1 DEF WaitAndRetry, RunType, TypeOK, store, server, readers
<1>8. CASE LeftQueued(s)
  <2>1. RunType
    BY <1>8, ContinueType DEF LeftQueued
  <2>2. flight' \subseteq (SUBSET Appends) \ {{}}
    BY <1>8, OrphanedType DEF LeftQueued
  <2>3. QED
    BY <1>8, <2>1, <2>2 DEF LeftQueued, RunType, TypeOK, store, readers
<1>9. CASE Block(s)
  <2> DEFINE a == Earliest(run[s].batch)
  <2>1. a \in Appends
    BY <1>9, EarliestIn DEF Block, TypeOK, BatchInv, Run
  <2>2. queue' = [queue EXCEPT !.blocked = @ \cup {a}]
    BY <1>9 DEF Block
  <2>3. RunType
    <3>1. CASE run[s].batch = {a}
      BY <1>9, <3>1, ContinueType DEF Block
    <3>2. CASE run[s].batch # {a}
      <4> DEFINE x == [run[s] EXCEPT !.batch = @ \ {a}]
      <4>1. run' = [run EXCEPT ![s] = x] /\ holder' = holder
        BY <1>9, <3>2 DEF Block
      <4>2. run[s].batch # {}
        BY <1>9 DEF Block, BatchInv
      <4>3. x \in Run /\ x.batch # {}
        <5> HIDE DEF a
        <5> QED
          BY <3>2, <4>2 DEF Run
      <4>4. QED
        <5> HIDE DEF a, x
        <5> QED
          BY <4>1, <4>3, RunStep
    <3>3. QED
      BY <3>1, <3>2
  <2>4. queue' \in [append : SUBSET Appends, sent : SUBSET Appends,
                    blocked : SUBSET Appends, told : SUBSET Appends]
    <3> HIDE DEF a
    <3> QED
      BY <2>1, <2>2 DEF TypeOK
  <2>5. QED
    BY <1>9, <2>3, <2>4 DEF Block, RunType, TypeOK, server, readers
<1>10. QED
  BY <1>1, <1>2, <1>3, <1>4, <1>5, <1>6, <1>7, <1>8, <1>9 DEF Push

\* No step of a pull leaves the types.
LEMMA PullType ==
  ASSUME TypeInv, NEW s \in Sync, Pull(s)
  PROVE  TypeInv'
<1> USE DEF TypeInv
<1> run[s] \in Run
  BY DEF TypeOK
<1>1. CASE StartPull(s)
  <2> DEFINE x == [run[s] EXCEPT !.pc = "pulling", !.after = LastServerSeq]
  <2>1. x \in Run /\ x.pc = "pulling"
    BY DEF TypeOK, LastServerSeq, Run, States
  <2>2. run' = [run EXCEPT ![s] = x] /\ holder' = s
    BY <1>1 DEF StartPull
  <2>3. RunType
    <3> HIDE DEF x
    <3> QED
      BY <2>1, <2>2, RunStep
  <2>4. QED
    BY <1>1, <2>3 DEF StartPull, RunType, TypeOK, store, server, readers
<1>2. CASE Pulled(s)
  <2>1. PICK upto \in run[s].after..Len(slog) :
               run' = [run EXCEPT ![s].pc = "append", ![s].upto = upto]
    BY <1>2 DEF Pulled
  <2> DEFINE x == [run[s] EXCEPT !.pc = "append", !.upto = upto]
  <2>2. upto \in Nat
    BY LenProperties DEF TypeOK, Run
  <2>3. x \in Run /\ x.pc = "append"
    BY <2>2 DEF Run, States
  <2>4. run' = [run EXCEPT ![s] = x] /\ holder' = holder
    BY <1>2, <2>1 DEF Pulled
  <2>5. RunType
    <3> HIDE DEF x
    <3> QED
      BY <2>3, <2>4, RunStep
  <2>6. QED
    BY <1>2, <2>5 DEF Pulled, RunType, TypeOK, store, server, readers
<1>3. CASE PullFailed(s)
  BY <1>3, FinishType DEF PullFailed, RunType, TypeOK, store, server, readers
<1>4. CASE AppendStoredEvents(s)
  <2> DEFINE x == [run[s] EXCEPT !.pc = "settle"]
  <2>1. x \in Run /\ x.pc = "settle"
    BY DEF Run, States
  <2>2. run' = [run EXCEPT ![s] = x] /\ holder' = holder
    BY <1>4 DEF AppendStoredEvents
  <2>3. RunType
    <3> HIDE DEF x
    <3> QED
      BY <2>1, <2>2, RunStep
  <2>4. logged' \subseteq Nat /\ last' \in Nat
    BY <1>4 DEF AppendStoredEvents, TypeOK, Run
  <2>5. QED
    BY <1>4, <2>3, <2>4 DEF AppendStoredEvents, RunType, TypeOK, server, readers
<1>5. CASE SettleArrived(s)
  <2> DEFINE x == [run[s] EXCEPT !.pc = "mark", !.arrived = {a \in Unsent : Arrived(a)}]
  <2>1. x \in Run /\ x.pc = "mark"
    BY UnsentType DEF Run, States
  <2>2. run' = [run EXCEPT ![s] = x] /\ holder' = holder
    BY <1>5 DEF SettleArrived
  <2>3. RunType
    <3> HIDE DEF x
    <3> QED
      BY <2>1, <2>2, RunStep
  <2>4. QED
    BY <1>5, <2>3 DEF SettleArrived, RunType, TypeOK, store, server, readers
<1>6. CASE MarkSent(s)
  <2> DEFINE x == [run[s] EXCEPT !.pc = "fold"]
  <2>1. x \in Run /\ x.pc = "fold"
    BY DEF Run, States
  <2>2. Finish(s) \/ (run' = [run EXCEPT ![s] = x] /\ holder' = holder)
    BY <1>6 DEF MarkSent
  <2>3. RunType
    <3> HIDE DEF x
    <3> QED
      BY <2>1, <2>2, RunStep, FinishType
  <2>4. queue' \in [append : SUBSET Appends, sent : SUBSET Appends,
                    blocked : SUBSET Appends, told : SUBSET Appends]
    BY <1>6 DEF MarkSent, TypeOK, Run
  <2>5. QED
    BY <1>6, <2>3, <2>4 DEF MarkSent, RunType, TypeOK, server, readers
<1>7. CASE FoldProject(s)
  <2> DEFINE x == [run[s] EXCEPT !.pc = "compact"]
  <2>1. x \in Run /\ x.pc = "compact"
    BY DEF Run, States
  <2>2. run' = [run EXCEPT ![s] = x] /\ holder' = holder
    BY <1>7 DEF FoldProject
  <2>3. RunType
    <3> HIDE DEF x
    <3> QED
      BY <2>1, <2>2, RunStep
  <2>4. QED
    BY <1>7, <2>3 DEF FoldProject, RunType, TypeOK, server, readers
<1>8. CASE CompactQueue(s)
  <2>1. RunType
    BY <1>8, FinishType DEF CompactQueue
  <2>2. queue' \in [append : SUBSET Appends, sent : SUBSET Appends,
                    blocked : SUBSET Appends, told : SUBSET Appends]
    BY <1>8 DEF CompactQueue, CompactedPending, TypeOK
  <2>3. QED
    BY <1>8, <2>1, <2>2 DEF CompactQueue, RunType, TypeOK, server, readers
<1>9. QED
  BY <1>1, <1>2, <1>3, <1>4, <1>5, <1>6, <1>7, <1>8 DEF Pull

\* A command appends: the queue holds one more append.
LEMMA AppendType == TypeInv /\ AppendPending => TypeInv'
<1> SUFFICES ASSUME TypeInv, AppendPending PROVE TypeInv'
  OBVIOUS
<1>1. made' \in 1..N
  BY TransportAssumption DEF AppendPending, TypeInv, TypeOK
<1>2. queue' \in [append : SUBSET Appends, sent : SUBSET Appends,
                  blocked : SUBSET Appends, told : SUBSET Appends]
  <2>1. made + 1 \in Appends
    BY <1>1 DEF AppendPending, Appends
  <2>2. QED
    BY <2>1 DEF AppendPending, TypeInv, TypeOK
<1>3. /\ folded' = logged
      /\ UNCHANGED <<logged, last, slog, flight, holder, run, reader, teller, said, crashes>>
  BY DEF AppendPending, server, readers
<1>4. QED
  BY <1>1, <1>2, <1>3 DEF TypeInv, TypeOK, BatchInv

\* No step of the server leaves the types.
LEMMA ServerType ==
  ASSUME TypeInv, TakeLate \/ TakeRemote \/ \E s \in Sync : Take(s)
  PROVE  TypeInv'
<1>1. slog' \in Seq(Event)
  <2>1. [Next]_vars
    BY DEF Next
  <2>2. QED
    BY <2>1, LogGrows DEF TypeInv
<1>2. CASE TakeLate
  <2>1. PICK r \in flight :
               flight' = (flight \ {r}) \cup ({r \ {Earliest(r)}} \ {{}})
    BY <1>2 DEF TakeLate
  <2>2. flight' \subseteq (SUBSET Appends) \ {{}}
    BY <2>1 DEF TypeInv, TypeOK
  <2>3. QED
    BY <1>1, <1>2, <2>2 DEF TakeLate, TypeInv, TypeOK, BatchInv, store, readers
<1>3. CASE TakeRemote
  BY <1>1, <1>3 DEF TakeRemote, TypeInv, TypeOK, BatchInv, store, readers
<1>4. ASSUME NEW s \in Sync, Take(s) PROVE TypeInv'
  <2> DEFINE x == [run[s] EXCEPT !.rest = @ \ {Earliest(@)}]
  <2>1. run[s] \in Run /\ (run[s].pc = "posted" => run[s].batch # {})
    BY DEF TypeInv, TypeOK, BatchInv
  <2>2. x \in Run /\ x.pc = run[s].pc /\ x.batch = run[s].batch
    BY <2>1 DEF Run
  <2>3. run' = [run EXCEPT ![s] = x] /\ holder' = holder /\ run[s].pc = "posted"
    BY <1>4 DEF Take
  <2>4. RunType
    <3> HIDE DEF x
    <3> QED
      BY <2>1, <2>2, <2>3, RunStep
  <2>5. QED
    BY <1>1, <1>4, <2>4 DEF Take, TypeInv, TypeOK, RunType, store, readers
<1>5. QED
  BY <1>2, <1>3, <1>4

\* Nor does a death.
LEMMA CrashType ==
  ASSUME TypeInv, NEW s \in Sync, Crash(s)
  PROVE  TypeInv'
<1>1. RunType
  BY FinishType DEF Crash
<1>2. flight' \subseteq (SUBSET Appends) \ {{}}
  BY OrphanedType DEF Crash, TypeInv
<1>3. crashes' \in 0..MaxCrashes
  BY TransportAssumption DEF Crash, TypeInv, TypeOK
<1>4. QED
  BY <1>1, <1>2, <1>3 DEF Crash, TypeInv, TypeOK, RunType, store, readers

\* Nor does a command that reads.
LEMMA ReaderType ==
  ASSUME TypeInv, NEW r \in Reader, ReadLog(r) \/ ReadQueue(r)
  PROVE  TypeInv'
<1>1. reader' \in [Reader -> [pc : {"idle", "queue"}, log : SUBSET Nat, since : SUBSET Appends]]
  <2>1. CASE ReadLog(r)
    <3>1. 1..made \ queue.blocked \in SUBSET Appends
      BY TransportAssumption DEF TypeInv, TypeOK, Appends
    <3>2. QED
      BY <2>1, <3>1 DEF ReadLog, TypeInv, TypeOK
  <2>2. CASE ReadQueue(r)
    BY <2>2 DEF ReadQueue, ReaderIdle, TypeInv, TypeOK
  <2>3. QED
    BY <2>1, <2>2
<1>2. QED
  BY <1>1 DEF ReadLog, ReadQueue, TypeInv, TypeOK, BatchInv, store, server

\* Nor does a command that says what was refused.
LEMMA TellerType ==
  ASSUME TypeInv, NEW c \in Teller, SurfaceBlocked(c) \/ MarkSurfaced(c)
  PROVE  TypeInv'
<1>1. CASE SurfaceBlocked(c)
  <2>1. UnsurfacedBlocks \in SUBSET Appends
    BY DEF UnsurfacedBlocks, TypeInv, TypeOK
  <2>2. teller' \in [Teller -> [pc : {"idle", "mark"}, blocks : SUBSET Appends]]
    BY <1>1, <2>1 DEF SurfaceBlocked, TypeInv, TypeOK
  <2>3. said' \in [Appends -> 0..2]
    <3>1. said' = [a \in Appends |-> IF a \in UnsurfacedBlocks /\ said[a] < 2
                                     THEN said[a] + 1 ELSE said[a]]
      BY <1>1 DEF SurfaceBlocked
    <3>2. said \in [Appends -> 0..2]
      BY DEF TypeInv, TypeOK
    <3>3. QED
      BY <3>1, <3>2
  <2>4. QED
    BY <1>1, <2>2, <2>3 DEF SurfaceBlocked, TypeInv, TypeOK, BatchInv, store, server
<1>2. CASE MarkSurfaced(c)
  <2>1. teller[c].blocks \in SUBSET Appends
    BY DEF TypeInv, TypeOK
  <2>2. queue' \in [append : SUBSET Appends, sent : SUBSET Appends,
                    blocked : SUBSET Appends, told : SUBSET Appends]
    BY <1>2, <2>1 DEF MarkSurfaced, TypeInv, TypeOK
  <2>3. teller' \in [Teller -> [pc : {"idle", "mark"}, blocks : SUBSET Appends]]
    BY <1>2 DEF MarkSurfaced, TellerIdle, TypeInv, TypeOK
  <2>4. QED
    BY <1>2, <2>2, <2>3 DEF MarkSurfaced, TypeInv, TypeOK, BatchInv, server
<1>3. QED
  BY <1>1, <1>2

\* The types hold at the start.
LEMMA TypeInit == Init => TypeInv
<1> SUFFICES ASSUME Init PROVE TypeInv
  OBVIOUS
<1>1. run \in [Sync -> Run] /\ BatchInv
  BY IdleType DEF Init, BatchInv, Idle
<1>2. reader \in [Reader -> [pc : {"idle", "queue"}, log : SUBSET Nat, since : SUBSET Appends]]
  BY DEF Init, ReaderIdle
<1>3. teller \in [Teller -> [pc : {"idle", "mark"}, blocks : SUBSET Appends]]
  BY DEF Init, TellerIdle
<1>4. QED
  BY <1>1, <1>2, <1>3, TransportAssumption DEF Init, TypeInv, TypeOK

\* No step leaves the types.
LEMMA TypeStep == TypeInv /\ [Next]_vars => TypeInv'
<1> SUFFICES ASSUME TypeInv, [Next]_vars PROVE TypeInv'
  OBVIOUS
<1>1. CASE UNCHANGED vars
  BY <1>1 DEF vars, TypeInv, TypeOK, BatchInv
<1>2. CASE Next
  BY <1>2, AppendType, ServerType, PushType, PullType, CrashType, ReaderType,
     TellerType DEF Next
<1>3. QED
  BY <1>1, <1>2

\* Every variable keeps its type, and a sync that sends has something to send.
THEOREM TypeCorrect == Spec => []TypeOK
<1>1. TypeInv => TypeOK
  BY DEF TypeInv
<1>2. QED
  BY <1>1, TypeInit, TypeStep, PTL DEF Spec

-----------------------------------------------------------------------------
(* Safety *)

\* The copy is a prefix of the server's log, and its last row its greatest.
CopyInv ==
    /\ logged \subseteq 1..Len(slog)
    /\ \A i \in logged : 1..i \subseteq logged
    /\ last \in logged \cup {0}

\* What a pull asked after is in the copy, and its delta joins on to it.
CursorInv ==
    \A s \in Sync :
        /\ run[s].pc \in {"pulling", "append"} => run[s].after \in logged \cup {0}
        /\ run[s].pc = "append" => run[s].after <= run[s].upto /\ run[s].upto <= Len(slog)

\* What a sync has decided to mark is in the copy for good.
ArrivedInv == \A s \in Sync : \A a \in run[s].arrived : InCopy(a)

IInv == TypeInv /\ CopyInv /\ CursorInv /\ ArrivedInv /\ SentMeansStored /\ NothingLost

\* No step takes a row out of the copy.
LEMMA CopyGrows ==
  ASSUME TypeInv, [Next]_vars
  PROVE  logged \subseteq logged'
<1>1. ASSUME NEW s \in Sync, Push(s) \/ Take(s) \/ Crash(s) PROVE UNCHANGED logged
  BY <1>1 DEF Push, StartPush, Post, OutOfTime, Accepted, Refused, Split,
              WaitAndRetry, LeftQueued, Block, Take, Crash, store
<1>2. ASSUME NEW s \in Sync, Pull(s) PROVE logged \subseteq logged'
  <2>1. CASE AppendStoredEvents(s)
    BY <2>1 DEF AppendStoredEvents
  <2>2. CASE ~AppendStoredEvents(s)
    BY <1>2, <2>2 DEF Pull, StartPull, Pulled, PullFailed, SettleArrived,
                      MarkSent, FoldProject, CompactQueue, store
  <2>3. QED
    BY <2>1, <2>2
<1>3. ASSUME AppendPending \/ TakeLate \/ TakeRemote
             \/ (\E r \in Reader : ReadLog(r) \/ ReadQueue(r))
             \/ (\E c \in Teller : SurfaceBlocked(c) \/ MarkSurfaced(c))
             \/ UNCHANGED vars
      PROVE UNCHANGED logged
  BY <1>3 DEF AppendPending, TakeLate, TakeRemote, ReadLog, ReadQueue,
              SurfaceBlocked, MarkSurfaced, store, vars
<1>4. QED
  BY <1>1, <1>2, <1>3 DEF Next

\* What the copy holds of an append it goes on holding.
LEMMA InCopyStable ==
  ASSUME TypeInv, CopyInv, [Next]_vars, NEW a, InCopy(a)
  PROVE  InCopy(a)'
<1>1. Grown /\ logged \subseteq logged'
  BY LogGrows, CopyGrows DEF TypeInv
<1>2. \A i \in logged : i \in 1..Len(slog)
  BY DEF CopyInv
<1>3. ASSUME NEW k \in 1..Size PROVE \E i \in logged' : slog'[i] = <<a, k>>
  <2>1. PICK i \in logged : slog[i] = <<a, k>>
    BY DEF InCopy, HasIn
  <2>2. QED
    BY <1>1, <1>2, <2>1 DEF Grown
<1>4. QED
  BY <1>3 DEF InCopy, HasIn

\* A sync's cursor, and what it is to mark, come from three steps alone.
LEMMA RunMoves ==
  ASSUME TypeInv, [Next]_vars, NEW t \in Sync
  PROVE  \/ run'[t] = run[t]
         \/ run'[t].pc \notin {"pulling", "append"} /\ run'[t].arrived \subseteq run[t].arrived
         \/ StartPull(t) \/ Pulled(t) \/ SettleArrived(t)
<1> DEFINE Moved == \/ run'[t] = run[t]
                    \/ run'[t].pc \notin {"pulling", "append"}
                         /\ run'[t].arrived \subseteq run[t].arrived
                    \/ StartPull(t) \/ Pulled(t) \/ SettleArrived(t)
<1> run \in [Sync -> Run] /\ run[t] \in Run
  BY DEF TypeInv, TypeOK
<1>1. ASSUME NEW s \in Sync, Finish(s) PROVE Moved
  BY <1>1 DEF Finish, Idle
<1>2. ASSUME NEW s \in Sync, Continue(s) PROVE Moved
  BY <1>1, <1>2 DEF Continue, Idle
<1>3. ASSUME NEW s \in Sync, Push(s) PROVE Moved
  <2>1. CASE StartPush(s)
    BY <2>1 DEF StartPush, Run
  <2>2. CASE Post(s)
    BY <2>2 DEF Post, Run
  <2>3. CASE OutOfTime(s) \/ Accepted(s) \/ LeftQueued(s)
    BY <1>1, <1>2, <2>3 DEF OutOfTime, Accepted, LeftQueued
  <2>4. CASE Refused(s)
    BY <2>4 DEF Refused, Run
  <2>5. CASE Split(s)
    BY <2>5 DEF Split, Run, Idle
  <2>6. CASE WaitAndRetry(s)
    BY <2>6 DEF WaitAndRetry, Run
  <2>7. CASE Block(s)
    <3>1. CASE s = t
      BY <1>2, <2>7, <3>1 DEF Block, Run
    <3>2. CASE s # t
      BY <1>2, <2>7, <3>2 DEF Block
    <3>3. QED
      BY <3>1, <3>2
  <2>8. QED
    BY <1>3, <2>1, <2>2, <2>3, <2>4, <2>5, <2>6, <2>7 DEF Push
<1>4. ASSUME NEW s \in Sync, Pull(s) PROVE Moved
  <2>1. CASE StartPull(s) \/ Pulled(s) \/ SettleArrived(s)
    BY <2>1 DEF StartPull, Pulled, SettleArrived
  <2>2. CASE PullFailed(s) \/ CompactQueue(s)
    BY <1>1, <2>2 DEF PullFailed, CompactQueue
  <2>3. CASE AppendStoredEvents(s)
    BY <2>3 DEF AppendStoredEvents, Run
  <2>4. CASE MarkSent(s)
    BY <1>1, <2>4 DEF MarkSent, Run
  <2>5. CASE FoldProject(s)
    BY <2>5 DEF FoldProject, Run
  <2>6. QED
    BY <1>4, <2>1, <2>2, <2>3, <2>4, <2>5 DEF Pull
<1>5. ASSUME NEW s \in Sync, Take(s) \/ Crash(s) PROVE Moved
  <2>1. CASE Take(s)
    BY <2>1 DEF Take, Run
  <2>2. CASE Crash(s)
    BY <1>1, <2>2 DEF Crash
  <2>3. QED
    BY <1>5, <2>1, <2>2
<1>6. ASSUME AppendPending \/ TakeLate \/ TakeRemote
             \/ (\E r \in Reader : ReadLog(r) \/ ReadQueue(r))
             \/ (\E c \in Teller : SurfaceBlocked(c) \/ MarkSurfaced(c))
             \/ UNCHANGED vars
      PROVE Moved
  BY <1>6 DEF AppendPending, TakeLate, TakeRemote, ReadLog, ReadQueue,
              SurfaceBlocked, MarkSurfaced, vars
<1>7. QED
  BY <1>3, <1>4, <1>5, <1>6 DEF Next

\* The copy stays a prefix: a delta joins on to a cursor that is in it.
LEMMA CopyStep ==
  ASSUME IInv, [Next]_vars
  PROVE  CopyInv'
<1> USE DEF IInv
<1>1. slog \in Seq(Event) /\ slog' \in Seq(Event) /\ Grown
  BY LogGrows DEF TypeInv, TypeOK
<1>2. Len(slog) \in Nat /\ Len(slog') \in Nat
  BY <1>1, LenProperties
<1>3. ASSUME UNCHANGED <<logged, last>> PROVE CopyInv'
  BY <1>1, <1>2, <1>3 DEF CopyInv, Grown
<1>4. ASSUME NEW s \in Sync, AppendStoredEvents(s) PROVE CopyInv'
  <2> DEFINE after == run[s].after
             upto  == run[s].upto
  <2>1. /\ after \in Nat /\ upto \in Nat
        /\ after \in logged \cup {0} /\ after <= upto /\ upto <= Len(slog)
    BY <1>4 DEF AppendStoredEvents, CursorInv, TypeInv, TypeOK, Run
  <2>2. /\ logged' = logged \cup ((after + 1)..upto)
        /\ last' = IF upto = after THEN last ELSE upto
        /\ slog' = slog
    BY <1>4 DEF AppendStoredEvents, server
  <2> HIDE DEF after, upto
  <2>3. logged' \subseteq 1..Len(slog')
    BY <1>2, <2>1, <2>2 DEF CopyInv
  <2>4. ASSUME NEW i \in logged', NEW j \in 1..i PROVE j \in logged'
    <3>1. CASE i \in logged
      BY <2>2, <2>4, <3>1 DEF CopyInv
    <3>2. CASE i \in (after + 1)..upto /\ j <= after
      <4>1. after \in logged /\ j \in 1..after
        BY <2>1, <3>2
      <4>2. QED
        BY <2>2, <4>1 DEF CopyInv
    <3>3. CASE i \in (after + 1)..upto /\ j > after
      BY <2>1, <2>2, <3>3
    <3>4. QED
      BY <2>1, <2>2, <3>1, <3>2, <3>3
  <2>5. last' \in logged' \cup {0}
    BY <2>1, <2>2 DEF CopyInv
  <2>6. QED
    BY <2>3, <2>4, <2>5 DEF CopyInv
<1>5. ASSUME NEW s \in Sync, Push(s) \/ Take(s) \/ Crash(s)
      PROVE UNCHANGED <<logged, last>>
  BY <1>5 DEF Push, StartPush, Post, OutOfTime, Accepted, Refused, Split,
              WaitAndRetry, LeftQueued, Block, Take, Crash, store
<1>6. ASSUME NEW s \in Sync, Pull(s), ~AppendStoredEvents(s)
      PROVE UNCHANGED <<logged, last>>
  BY <1>6 DEF Pull, StartPull, Pulled, PullFailed, SettleArrived, MarkSent,
              FoldProject, CompactQueue, store
<1>7. ASSUME AppendPending \/ TakeLate \/ TakeRemote
             \/ (\E r \in Reader : ReadLog(r) \/ ReadQueue(r))
             \/ (\E c \in Teller : SurfaceBlocked(c) \/ MarkSurfaced(c))
             \/ UNCHANGED vars
      PROVE UNCHANGED <<logged, last>>
  BY <1>7 DEF AppendPending, TakeLate, TakeRemote, ReadLog, ReadQueue,
              SurfaceBlocked, MarkSurfaced, store, vars
<1>8. QED
  BY <1>3, <1>4, <1>5, <1>6, <1>7 DEF Next

\* A pull asks after a row the copy holds, and goes on holding it.
LEMMA CursorStep ==
  ASSUME IInv, [Next]_vars
  PROVE  CursorInv'
<1> USE DEF IInv
<1>1. /\ logged \subseteq logged' /\ Len(slog) <= Len(slog')
      /\ Len(slog) \in Nat /\ Len(slog') \in Nat
  BY CopyGrows, LogGrows, LenProperties DEF Grown, TypeInv, TypeOK
<1> SUFFICES ASSUME NEW t \in Sync
    PROVE /\ run'[t].pc \in {"pulling", "append"} => run'[t].after \in logged' \cup {0}
          /\ run'[t].pc = "append" => run'[t].after <= run'[t].upto /\ run'[t].upto <= Len(slog')
  BY DEF CursorInv
<1> run \in [Sync -> Run] /\ run[t] \in Run
  BY DEF TypeInv, TypeOK
<1>2. CASE run'[t] = run[t]
  BY <1>1, <1>2 DEF CursorInv, Run
<1>3. CASE run'[t].pc \notin {"pulling", "append"}
  BY <1>3
<1>4. CASE StartPull(t)
  BY <1>1, <1>4 DEF StartPull, LastServerSeq, CopyInv, Run
<1>5. CASE Pulled(t)
  <2>1. PICK upto \in run[t].after..Len(slog) :
               run' = [run EXCEPT ![t].pc = "append", ![t].upto = upto]
    BY <1>5 DEF Pulled
  <2>2. /\ run'[t].after = run[t].after /\ run'[t].upto = upto
        /\ run[t].pc = "pulling"
    BY <1>5, <2>1 DEF Pulled, Run
  <2>3. QED
    BY <1>1, <2>2 DEF CursorInv, Run
<1>6. CASE SettleArrived(t)
  BY <1>6 DEF SettleArrived, Run
<1>7. QED
  BY <1>2, <1>3, <1>4, <1>5, <1>6, RunMoves

\* What was found in the copy before the marks go down is in it after.
LEMMA ArrivedStep ==
  ASSUME IInv, [Next]_vars
  PROVE  ArrivedInv'
<1> USE DEF IInv
<1> SUFFICES ASSUME NEW t \in Sync, NEW a \in run'[t].arrived PROVE InCopy(a)'
  BY DEF ArrivedInv
<1> run \in [Sync -> Run] /\ run[t] \in Run
  BY DEF TypeInv, TypeOK
<1>1. a \in run[t].arrived \/ InCopy(a)
  <2>1. CASE SettleArrived(t)
    BY <2>1 DEF SettleArrived, Arrived, InCopy, Run
  <2>2. CASE StartPull(t)
    BY <2>2 DEF StartPull, Run
  <2>3. CASE Pulled(t)
    BY <2>3 DEF Pulled, Run
  <2>4. QED
    BY <2>1, <2>2, <2>3, RunMoves
<1>2. InCopy(a)
  BY <1>1 DEF ArrivedInv
<1>3. QED
  BY <1>2, InCopyStable

\* The queue is written by a command, a refusal, a mark and a compaction.
LEMMA QueueMoves ==
  ASSUME [Next]_vars
  PROVE  \/ UNCHANGED <<queue, made>>
         \/ AppendPending
         \/ \E s \in Sync : Block(s) \/ MarkSent(s) \/ CompactQueue(s)
         \/ \E c \in Teller : MarkSurfaced(c)
<1>1. ASSUME NEW s \in Sync, Push(s) \/ Take(s) \/ Crash(s), ~Block(s)
      PROVE UNCHANGED <<queue, made>>
  BY <1>1 DEF Push, StartPush, Post, OutOfTime, Accepted, Refused, Split,
              WaitAndRetry, LeftQueued, Take, Crash, store
<1>2. ASSUME NEW s \in Sync, Pull(s), ~MarkSent(s), ~CompactQueue(s)
      PROVE UNCHANGED <<queue, made>>
  BY <1>2 DEF Pull, StartPull, Pulled, PullFailed, AppendStoredEvents,
              SettleArrived, FoldProject, store
<1>3. ASSUME TakeLate \/ TakeRemote \/ UNCHANGED vars
             \/ (\E r \in Reader : ReadLog(r) \/ ReadQueue(r))
             \/ (\E c \in Teller : SurfaceBlocked(c))
      PROVE UNCHANGED <<queue, made>>
  BY <1>3 DEF TakeLate, TakeRemote, ReadLog, ReadQueue, SurfaceBlocked, store, vars
<1>4. QED
  BY <1>1, <1>2, <1>3 DEF Next

\* A sent mark is only laid on what the copy holds.
LEMMA SentStep ==
  ASSUME IInv, [Next]_vars
  PROVE  SentMeansStored'
<1> USE DEF IInv
<1> SUFFICES ASSUME NEW a \in queue'.sent PROVE InCopy(a)'
  BY DEF SentMeansStored
<1>1. a \in queue.sent \/ InCopy(a)
  <2>1. CASE UNCHANGED <<queue, made>>
    BY <2>1
  <2>2. CASE AppendPending
    BY <2>2 DEF AppendPending, TypeInv, TypeOK
  <2>3. ASSUME NEW s \in Sync, Block(s) PROVE a \in queue.sent
    BY <2>3 DEF Block, TypeInv, TypeOK
  <2>4. ASSUME NEW s \in Sync, MarkSent(s) PROVE a \in queue.sent \/ InCopy(a)
    BY <2>4 DEF MarkSent, ArrivedInv, TypeInv, TypeOK
  <2>5. ASSUME NEW s \in Sync, CompactQueue(s) PROVE a \in queue.sent
    BY <2>5 DEF CompactQueue, CompactedPending
  <2>6. ASSUME NEW c \in Teller, MarkSurfaced(c) PROVE a \in queue.sent
    BY <2>6 DEF MarkSurfaced, TypeInv, TypeOK
  <2>7. QED
    BY <2>1, <2>2, <2>3, <2>4, <2>5, <2>6, QueueMoves
<1>2. InCopy(a)
  BY <1>1 DEF SentMeansStored
<1>3. QED
  BY <1>2, InCopyStable

\* No step takes an append of the queue away that the copy does not hold.
LEMMA QueueKeeps ==
  ASSUME IInv, [Next]_vars, NEW a \in queue.append \cup queue.blocked
  PROVE  InCopy(a) \/ a \in queue'.append \cup queue'.blocked
<1> USE DEF IInv
<1>1. CASE UNCHANGED <<queue, made>>
  BY <1>1
<1>2. CASE AppendPending
  BY <1>2 DEF AppendPending, TypeInv, TypeOK
<1>3. ASSUME NEW s \in Sync, Block(s) PROVE a \in queue'.append \cup queue'.blocked
  BY <1>3 DEF Block, TypeInv, TypeOK
<1>4. ASSUME NEW s \in Sync, MarkSent(s) PROVE a \in queue'.append \cup queue'.blocked
  BY <1>4 DEF MarkSent, TypeInv, TypeOK
<1>5. ASSUME NEW s \in Sync, CompactQueue(s)
      PROVE InCopy(a) \/ a \in queue'.append \cup queue'.blocked
  BY <1>5 DEF CompactQueue, CompactedPending, SentMeansStored
<1>6. ASSUME NEW c \in Teller, MarkSurfaced(c) PROVE a \in queue'.append \cup queue'.blocked
  BY <1>6 DEF MarkSurfaced, TypeInv, TypeOK
<1>7. QED
  BY <1>1, <1>2, <1>3, <1>4, <1>5, <1>6, QueueMoves

\* An append leaves the queue only for the copy or for a refusal.
LEMMA LostStep ==
  ASSUME IInv, [Next]_vars
  PROVE  NothingLost'
<1> SUFFICES ASSUME NEW a \in 1..made'
    PROVE InCopy(a)' \/ a \in Unsent' \/ a \in queue'.blocked
  BY DEF NothingLost
<1>1. SentMeansStored'
  BY SentStep
<1>2. a \in queue'.append \cup queue'.blocked \/ InCopy(a)
  <2>1. CASE a \in 1..made
    <3>1. InCopy(a) \/ a \in queue.append \cup queue.blocked
      BY <2>1 DEF IInv, NothingLost, Unsent
    <3>2. QED
      BY <3>1, QueueKeeps
  <2>2. CASE a \notin 1..made
    <3>1. made \in Nat
      BY TransportAssumption DEF IInv, TypeInv, TypeOK
    <3>2. made' # made
      BY <2>2
    <3>3. ASSUME NEW s \in Sync, Block(s) \/ MarkSent(s) \/ CompactQueue(s) PROVE FALSE
      BY <3>2, <3>3 DEF Block, MarkSent, CompactQueue
    <3>4. ASSUME NEW c \in Teller, MarkSurfaced(c) PROVE FALSE
      BY <3>2, <3>4 DEF MarkSurfaced
    <3>5. AppendPending
      BY <3>2, <3>3, <3>4, QueueMoves
    <3>6. a = made + 1
      BY <2>2, <3>1, <3>5 DEF AppendPending
    <3>7. QED
      BY <3>5, <3>6 DEF AppendPending, IInv, TypeInv, TypeOK
  <2>3. QED
    BY <2>1, <2>2
<1>3. CASE InCopy(a)
  BY <1>3, InCopyStable DEF IInv
<1>4. CASE a \in queue'.append /\ a \in queue'.sent
  BY <1>1, <1>4 DEF SentMeansStored
<1>5. CASE a \in queue'.blocked
  BY <1>5
<1>6. CASE a \in queue'.append /\ a \notin queue'.sent /\ a \notin queue'.blocked
  BY <1>6 DEF Unsent
<1>7. QED
  BY <1>2, <1>3, <1>4, <1>5, <1>6

\* The invariant holds at the start.
LEMMA InvInit == Init => IInv
<1> SUFFICES ASSUME Init PROVE IInv
  OBVIOUS
<1>1. TypeInv
  BY TypeInit
<1>2. CopyInv /\ CursorInv /\ ArrivedInv
  BY DEF Init, CopyInv, CursorInv, ArrivedInv, Idle
<1>3. SentMeansStored /\ NothingLost
  BY DEF Init, SentMeansStored, NothingLost
<1>4. QED
  BY <1>1, <1>2, <1>3 DEF IInv

\* Every step keeps the invariant.
LEMMA InvStep == IInv /\ [Next]_vars => IInv'
<1> SUFFICES ASSUME IInv, [Next]_vars PROVE IInv'
  OBVIOUS
<1>1. TypeInv'
  BY TypeStep DEF IInv
<1>2. QED
  BY <1>1, CopyStep, CursorStep, ArrivedStep, SentStep, LostStep DEF IInv

\* The invariant of every behaviour.
LEMMA Invariant == Spec => []IInv
  BY InvInit, InvStep, PTL DEF Spec

\* A sent mark means that log.jsonl holds every event of the append
\* (pending.ts:42-48), for any number of syncs at once.
THEOREM MarkedIsStored == Spec => []SentMeansStored
<1>1. IInv => SentMeansStored
  BY DEF IInv
<1>2. QED
  BY <1>1, Invariant, PTL

\* An append this machine made is in the copy, in the queue, or refused.
THEOREM AppendsAreKept == Spec => []NothingLost
<1>1. IInv => NothingLost
  BY DEF IInv
<1>2. QED
  BY <1>1, Invariant, PTL

\* The copy never has a gap, so the cursor never skips a row.
THEOREM CopyIsPrefix == Spec => []NoGap
<1>1. IInv => NoGap
  <2> SUFFICES ASSUME IInv PROVE NoGap
    OBVIOUS
  <2>1. Len(slog) \in Nat
    BY LenProperties DEF IInv, TypeInv, TypeOK
  <2>2. QED
    BY <2>1 DEF IInv, CopyInv, NoGap
<1>2. QED
  BY <1>1, Invariant, PTL

\* What one command read the next one reads, whatever happens in between.
THEOREM ReadsStay == Spec => ReadsNeverShrink
<1> DEFINE Kept == \A a \in Appends : InCopy(a) \/ a \in Unsent
                     => (InCopy(a) \/ a \in Unsent \/ a \in queue.blocked)'
<1>1. IInv /\ [Next]_vars => [Kept]_vars
  <2> SUFFICES ASSUME IInv, [Next]_vars, NEW a \in Appends, InCopy(a) \/ a \in Unsent
      PROVE InCopy(a)' \/ a \in Unsent' \/ a \in queue'.blocked
    OBVIOUS
  <2>1. CASE InCopy(a)
    BY <2>1, InCopyStable DEF IInv
  <2>2. CASE a \in Unsent /\ ~InCopy(a)
    <3>1. a \in queue'.append \cup queue'.blocked
      BY <2>2, QueueKeeps DEF Unsent
    <3>2. SentMeansStored'
      BY SentStep
    <3>3. QED
      BY <3>1, <3>2 DEF Unsent, SentMeansStored
  <2>3. QED
    BY <2>1, <2>2
<1>2. QED
  BY <1>1, Invariant, PTL DEF Spec, ReadsNeverShrink
-----------------------------------------------------------------------------
(* The promise of RecordStore *)

\* What a sync has in hand, and with a command that tells what was refused:
\* nothing of it, of the queue or of the server's log was not made here, and
\* what is being told is refused still or in the copy.
Work(r) == r.batch \cup r.rest \cup r.todo \cup r.arrived

MadeInv ==
    /\ queue.append \cup queue.sent \cup queue.blocked \subseteq 1..made
    /\ \A s \in Sync : Work(run[s]) \subseteq 1..made
    /\ \A r \in flight : r \subseteq 1..made
    /\ \A i \in 1..Len(slog) : slog[i][1] \in 0..made

TellerInv == \A c \in Teller : \A a \in teller[c].blocks : a \in queue.blocked \/ InCopy(a)

RInv == IInv /\ MadeInv /\ TellerInv

\* A sync's work comes from the queue and from what it had before.
LEMMA WorkMoves ==
  ASSUME TypeInv, [Next]_vars, NEW t \in Sync
  PROVE  Work(run'[t]) \subseteq Work(run[t]) \cup Unsent
<1> DEFINE Within == Work(run'[t]) \subseteq Work(run[t]) \cup Unsent
<1> run \in [Sync -> Run] /\ run[t] \in Run
  BY DEF TypeInv, TypeOK
<1>1. ASSUME NEW s \in Sync, Finish(s) PROVE Within
  BY <1>1 DEF Finish, Idle, Work
<1>2. ASSUME NEW s \in Sync, Continue(s) PROVE Within
  <2>1. CASE run[s].todo = {}
    BY <1>1, <1>2, <2>1 DEF Continue
  <2>2. CASE run[s].todo # {}
    <3> DEFINE a == Earliest(run[s].todo)
               x == [Idle EXCEPT !.pc = "send", !.again = TRUE,
                                 !.batch = {a}, !.todo = run[s].todo \ {a}]
    <3>1. a \in run[s].todo
      BY <2>2, EarliestIn DEF TypeInv, TypeOK, Run
    <3>2. Work(x) \subseteq Work(run[s])
      BY <3>1 DEF Work, Idle
    <3>3. run' = [run EXCEPT ![s] = x]
      BY <1>2, <2>2 DEF Continue
    <3>4. QED
      <4> HIDE DEF x
      <4> QED
        BY <3>2, <3>3
  <2>3. QED
    BY <2>1, <2>2
<1>3. ASSUME NEW s \in Sync, Push(s) PROVE Within
  <2>1. CASE StartPush(s)
    BY <2>1 DEF StartPush, Run, Work
  <2>2. CASE Post(s)
    BY <2>2 DEF Post, Run, Work
  <2>3. CASE OutOfTime(s) \/ Accepted(s) \/ LeftQueued(s)
    BY <1>1, <1>2, <2>3 DEF OutOfTime, Accepted, LeftQueued
  <2>4. CASE Refused(s)
    BY <2>4 DEF Refused, Run, Work
  <2>5. CASE Split(s)
    <3> DEFINE a == Earliest(run[s].batch)
               x == [Idle EXCEPT !.pc = "send", !.again = TRUE,
                                 !.batch = {a}, !.todo = run[s].batch \ {a}]
               y == [run[s] EXCEPT !.pc = "block"]
    <3>1. run[s].batch \in SUBSET Appends /\ run[s].batch # {}
      BY <2>5 DEF Split, TypeInv, TypeOK, BatchInv, Run
    <3>2. a \in run[s].batch
      BY <3>1, EarliestIn
    <3>3. Work(x) \subseteq Work(run[s])
      BY <3>2 DEF Work, Idle
    <3>4. Work(y) \subseteq Work(run[s])
      BY DEF Work, Run
    <3>5. run' = [run EXCEPT ![s] = x] \/ run' = [run EXCEPT ![s] = y]
      BY <2>5 DEF Split
    <3>6. QED
      <4> HIDE DEF x, y
      <4> QED
        BY <3>3, <3>4, <3>5
  <2>6. CASE WaitAndRetry(s)
    BY <2>6 DEF WaitAndRetry, Run, Work
  <2>7. CASE Block(s)
    <3>1. CASE run[s].batch = {Earliest(run[s].batch)}
      BY <1>2, <2>7, <3>1 DEF Block
    <3>2. CASE run[s].batch # {Earliest(run[s].batch)}
      <4>1. run' = [run EXCEPT ![s].batch = @ \ {Earliest(run[s].batch)}]
        BY <2>7, <3>2 DEF Block
      <4>2. QED
        BY <4>1 DEF Work, Run
    <3>3. QED
      BY <3>1, <3>2
  <2>8. QED
    BY <1>3, <2>1, <2>2, <2>3, <2>4, <2>5, <2>6, <2>7 DEF Push
<1>4. ASSUME NEW s \in Sync, Pull(s) PROVE Within
  <2>1. CASE StartPull(s)
    BY <2>1 DEF StartPull, Run, Work
  <2>2. CASE Pulled(s)
    BY <2>2 DEF Pulled, Run, Work
  <2>3. CASE SettleArrived(s)
    BY <2>3 DEF SettleArrived, Run, Work
  <2>4. CASE PullFailed(s) \/ CompactQueue(s)
    BY <1>1, <2>4 DEF PullFailed, CompactQueue
  <2>5. CASE AppendStoredEvents(s)
    BY <2>5 DEF AppendStoredEvents, Run, Work
  <2>6. CASE MarkSent(s)
    BY <1>1, <2>6 DEF MarkSent, Run, Work
  <2>7. CASE FoldProject(s)
    BY <2>7 DEF FoldProject, Run, Work
  <2>8. QED
    BY <1>4, <2>1, <2>2, <2>3, <2>4, <2>5, <2>6, <2>7 DEF Pull
<1>5. ASSUME NEW s \in Sync, Take(s) \/ Crash(s) PROVE Within
  <2>1. CASE Take(s)
    BY <2>1 DEF Take, Run, Work
  <2>2. CASE Crash(s)
    BY <1>1, <2>2 DEF Crash
  <2>3. QED
    BY <1>5, <2>1, <2>2
<1>6. ASSUME AppendPending \/ TakeLate \/ TakeRemote
             \/ (\E r \in Reader : ReadLog(r) \/ ReadQueue(r))
             \/ (\E c \in Teller : SurfaceBlocked(c) \/ MarkSurfaced(c))
             \/ UNCHANGED vars
      PROVE Within
  BY <1>6 DEF AppendPending, TakeLate, TakeRemote, ReadLog, ReadQueue,
              SurfaceBlocked, MarkSurfaced, vars, Work
<1>7. QED
  BY <1>3, <1>4, <1>5, <1>6 DEF Next

\* What of a refusal a step takes away the copy holds.
LEMMA BlocksKept ==
  ASSUME IInv, [Next]_vars, NEW a \in queue.blocked
  PROVE  InCopy(a) \/ a \in queue'.blocked
<1> queue \in [append : SUBSET Appends, sent : SUBSET Appends,
               blocked : SUBSET Appends, told : SUBSET Appends]
  BY DEF IInv, TypeInv, TypeOK
<1>1. CASE UNCHANGED <<queue, made>>
  BY <1>1
<1>2. CASE AppendPending
  BY <1>2 DEF AppendPending
<1>3. ASSUME NEW s \in Sync, Block(s) PROVE a \in queue'.blocked
  BY <1>3 DEF Block
<1>4. ASSUME NEW s \in Sync, MarkSent(s) PROVE a \in queue'.blocked
  BY <1>4 DEF MarkSent
<1>5. ASSUME NEW s \in Sync, CompactQueue(s) PROVE InCopy(a) \/ a \in queue'.blocked
  BY <1>5 DEF CompactQueue, CompactedPending, SentMeansStored, IInv
<1>6. ASSUME NEW c \in Teller, MarkSurfaced(c) PROVE a \in queue'.blocked
  BY <1>6 DEF MarkSurfaced
<1>7. QED
  BY <1>1, <1>2, <1>3, <1>4, <1>5, <1>6, QueueMoves

\* What a command is telling stays refused, or the copy has it by now.
LEMMA TellerStep ==
  ASSUME IInv, TellerInv, [Next]_vars
  PROVE  TellerInv'
<1> SUFFICES ASSUME NEW c \in Teller, NEW a \in teller'[c].blocks
    PROVE a \in queue'.blocked \/ InCopy(a)'
  BY DEF TellerInv
<1> teller \in [Teller -> [pc : {"idle", "mark"}, blocks : SUBSET Appends]]
  BY DEF IInv, TypeInv, TypeOK
<1>1. ASSUME NEW s \in Sync, Push(s) \/ Pull(s) \/ Take(s) \/ Crash(s)
      PROVE UNCHANGED teller
  BY <1>1 DEF Push, StartPush, Post, OutOfTime, Accepted, Refused, Split,
              WaitAndRetry, LeftQueued, Block, Pull, StartPull, Pulled, PullFailed,
              AppendStoredEvents, SettleArrived, MarkSent, FoldProject,
              CompactQueue, Take, Crash, readers
<1>2. ASSUME AppendPending \/ TakeLate \/ TakeRemote
             \/ (\E r \in Reader : ReadLog(r) \/ ReadQueue(r)) \/ UNCHANGED vars
      PROVE UNCHANGED teller
  BY <1>2 DEF AppendPending, TakeLate, TakeRemote, ReadLog, ReadQueue, readers, vars
<1>3. ASSUME NEW d \in Teller, SurfaceBlocked(d)
      PROVE a \in teller[c].blocks \/ a \in queue.blocked
  BY <1>3 DEF SurfaceBlocked, UnsurfacedBlocks
<1>4. ASSUME NEW d \in Teller, MarkSurfaced(d) PROVE a \in teller[c].blocks
  BY <1>4 DEF MarkSurfaced, TellerIdle
<1>5. a \in teller[c].blocks \/ a \in queue.blocked
  BY <1>1, <1>2, <1>3, <1>4 DEF Next
<1>6. a \in queue.blocked \/ InCopy(a)
  BY <1>5 DEF TellerInv
<1>7. QED
  BY <1>6, BlocksKept, InCopyStable DEF IInv

\* Numbers are given once: made only counts up.
LEMMA MadeGrows ==
  ASSUME IInv, [Next]_vars
  PROVE  made \in Nat /\ made' \in Nat /\ made <= made' /\ 1..made \subseteq 1..made'
<1>1. made \in Nat
  BY TransportAssumption DEF IInv, TypeInv, TypeOK
<1>2. ASSUME NEW s \in Sync, Block(s) \/ MarkSent(s) \/ CompactQueue(s) PROVE made' = made
  BY <1>2 DEF Block, MarkSent, CompactQueue
<1>3. ASSUME NEW c \in Teller, MarkSurfaced(c) PROVE made' = made
  BY <1>3 DEF MarkSurfaced
<1>4. made' = made \/ made' = made + 1
  BY <1>2, <1>3, QueueMoves DEF AppendPending
<1>5. QED
  BY <1>1, <1>4

\* The server takes events of other machines and of appends in a request.
LEMMA TakenFrom ==
  ASSUME slog \in Seq(Event), NEW a \in Appends, TakenBy(a),
         NEW i \in 1..Len(slog')
  PROVE  (i \in 1..Len(slog) /\ slog'[i] = slog[i]) \/ slog'[i][1] = a
<1>1. CASE Held(a)
  BY <1>1 DEF TakenBy
<1>2. CASE ~Held(a)
  <2>1. EventsOf(a) \in Seq(Event) /\ Len(EventsOf(a)) = Size
    BY EventsOfType, TransportAssumption DEF EventsOf
  <2>2. slog' = slog \o EventsOf(a)
    BY <1>2 DEF TakenBy
  <2>3. CASE i <= Len(slog)
    BY <2>1, <2>2, <2>3
  <2>4. CASE i > Len(slog)
    <3> DEFINE j == i - Len(slog)
    <3>1. j \in 1..Size /\ slog'[i] = EventsOf(a)[j]
      BY <2>1, <2>2, <2>4
    <3>2. EventsOf(a)[j] = <<a, j>>
      BY <3>1 DEF EventsOf
    <3>3. QED
      BY <3>1, <3>2
  <2>5. QED
    BY <2>3, <2>4
<1>3. QED
  BY <1>1, <1>2

\* The server has no event of an append that was not made.
LEMMA LogIsMade ==
  ASSUME RInv, [Next]_vars, NEW i \in 1..Len(slog')
  PROVE  slog'[i][1] \in 0..made'
<1> USE DEF RInv
<1> slog \in Seq(Event) /\ slog' \in Seq(Event) /\ Len(slog) \in Nat
  BY LogGrows, LenProperties DEF IInv, TypeInv, TypeOK
<1>1. made \in Nat /\ made' \in Nat /\ made <= made'
  BY MadeGrows
<1>2. ASSUME NEW a \in 1..made, TakenBy(a) PROVE slog'[i][1] \in 0..made'
  <2>1. a \in Appends
    BY <1>1, TransportAssumption DEF IInv, TypeInv, TypeOK, Appends
  <2>2. (i \in 1..Len(slog) /\ slog'[i] = slog[i]) \/ slog'[i][1] = a
    BY <1>2, <2>1, TakenFrom
  <2>3. QED
    BY <1>1, <2>2 DEF MadeInv
<1>3. ASSUME NEW s \in Sync, Take(s) PROVE slog'[i][1] \in 0..made'
  <2>1. run[s].rest \in SUBSET Appends /\ run[s].rest # {}
    BY <1>3 DEF Take, IInv, TypeInv, TypeOK, Run
  <2>2. Earliest(run[s].rest) \in 1..made
    BY <2>1, EarliestIn DEF MadeInv, Work
  <2>3. TakenBy(Earliest(run[s].rest))
    BY <1>3 DEF Take
  <2>4. QED
    BY <1>2, <2>2, <2>3
<1>4. CASE TakeLate
  <2>1. PICK r \in flight : TakenBy(Earliest(r))
    BY <1>4 DEF TakeLate
  <2>2. r \in SUBSET Appends /\ r # {}
    BY DEF IInv, TypeInv, TypeOK
  <2>3. Earliest(r) \in 1..made
    BY <2>2, EarliestIn DEF MadeInv
  <2>4. QED
    BY <1>2, <2>1, <2>3
<1>5. CASE TakeRemote
  <2>1. slog' = Append(slog, <<0, Cardinality(FromRemote) + 1>>)
    BY <1>5 DEF TakeRemote
  <2>2. CASE i \in 1..Len(slog)
    <3>1. slog'[i] = slog[i]
      BY <1>5, <2>2, RemoteGrows DEF Grown
    <3>2. QED
      BY <1>1, <2>2, <3>1 DEF MadeInv
  <2>3. CASE i \notin 1..Len(slog)
    <3>1. i = Len(slog) + 1
      BY <2>1, <2>3
    <3>2. slog'[i] = <<0, Cardinality(FromRemote) + 1>>
      BY <2>1, <3>1
    <3>3. QED
      BY <1>1, <3>2
  <2>4. QED
    BY <2>2, <2>3
<1>6. CASE UNCHANGED slog
  BY <1>1, <1>6 DEF MadeInv
<1>7. ASSUME NEW s \in Sync, Push(s) \/ Pull(s) \/ Crash(s) PROVE UNCHANGED slog
  BY <1>7 DEF Push, StartPush, Post, OutOfTime, Accepted, Refused, Split,
              WaitAndRetry, LeftQueued, Block, Pull, StartPull, Pulled, PullFailed,
              AppendStoredEvents, SettleArrived, MarkSent, FoldProject,
              CompactQueue, Crash, server
<1>8. ASSUME AppendPending \/ (\E r \in Reader : ReadLog(r) \/ ReadQueue(r))
             \/ (\E c \in Teller : SurfaceBlocked(c) \/ MarkSurfaced(c))
             \/ UNCHANGED vars
      PROVE UNCHANGED slog
  BY <1>8 DEF AppendPending, ReadLog, ReadQueue, SurfaceBlocked, MarkSurfaced, server, vars
<1>9. QED
  BY <1>3, <1>4, <1>5, <1>6, <1>7, <1>8 DEF Next

\* Nothing in hand anywhere is of an append that was not made.
LEMMA MadeStep ==
  ASSUME RInv, [Next]_vars
  PROVE  MadeInv'
<1> USE DEF RInv
<1>1. 1..made \subseteq 1..made'
  BY MadeGrows
<1> queue \in [append : SUBSET Appends, sent : SUBSET Appends,
               blocked : SUBSET Appends, told : SUBSET Appends]
  BY DEF IInv, TypeInv, TypeOK
<1> DEFINE Rows == queue.append \cup queue.sent \cup queue.blocked
           Rowsp == queue'.append \cup queue'.sent \cup queue'.blocked
<1>2. Rowsp \subseteq 1..made'
  <2>1. CASE UNCHANGED <<queue, made>>
    BY <2>1 DEF MadeInv
  <2>2. CASE AppendPending
    <3>1. made + 1 \in 1..made'
      BY <2>2, MadeGrows DEF AppendPending
    <3>2. QED
      BY <1>1, <2>2, <3>1 DEF AppendPending, MadeInv
  <2>3. ASSUME NEW s \in Sync, Block(s) PROVE Rowsp \subseteq 1..made
    <3>1. run[s].batch \in SUBSET Appends /\ run[s].batch # {}
      BY <2>3 DEF Block, IInv, TypeInv, TypeOK, BatchInv, Run
    <3>2. Earliest(run[s].batch) \in 1..made
      BY <3>1, EarliestIn DEF MadeInv, Work
    <3>3. QED
      BY <2>3, <3>2 DEF Block, MadeInv
  <2>4. ASSUME NEW s \in Sync, MarkSent(s) PROVE Rowsp \subseteq 1..made
    BY <2>4 DEF MarkSent, MadeInv, Work
  <2>5. ASSUME NEW s \in Sync, CompactQueue(s) PROVE Rowsp \subseteq 1..made
    BY <2>5 DEF CompactQueue, CompactedPending, MadeInv
  <2>6. ASSUME NEW c \in Teller, MarkSurfaced(c) PROVE Rowsp \subseteq 1..made
    <3>1. teller[c].blocks \subseteq 1..made
      <4> SUFFICES ASSUME NEW a \in teller[c].blocks PROVE a \in 1..made
        OBVIOUS
      <4>1. a \in queue.blocked \/ InCopy(a)
        BY DEF TellerInv
      <4>2. a \in Appends
        BY DEF IInv, TypeInv, TypeOK
      <4>3. CASE InCopy(a)
        <5>1. 1 \in 1..Size
          BY TransportAssumption
        <5>2. PICK i \in logged : slog[i] = <<a, 1>>
          BY <4>3, <5>1 DEF InCopy, HasIn
        <5>3. i \in 1..Len(slog)
          BY DEF IInv, CopyInv
        <5>4. a \in 0..made
          BY <5>2, <5>3 DEF MadeInv
        <5>5. QED
          BY <4>2, <5>4, TransportAssumption DEF Appends
      <4>4. QED
        BY <4>1, <4>3 DEF MadeInv
    <3>2. QED
      BY <2>6, <3>1 DEF MarkSurfaced, MadeInv
  <2>7. QED
    BY <1>1, <2>1, <2>2, <2>3, <2>4, <2>5, <2>6, QueueMoves
<1>3. ASSUME NEW s \in Sync PROVE Work(run'[s]) \subseteq 1..made'
  BY <1>1, WorkMoves DEF MadeInv, IInv, Unsent
<1>4. ASSUME NEW r \in flight' PROVE r \subseteq 1..made
  <2>1. ASSUME NEW s \in Sync, Push(s) \/ Pull(s) \/ Take(s), ~LeftQueued(s)
        PROVE UNCHANGED flight
    BY <2>1 DEF Push, StartPush, Post, OutOfTime, Accepted, Refused, Split,
                WaitAndRetry, Block, Pull, StartPull, Pulled, PullFailed,
                AppendStoredEvents, SettleArrived, MarkSent, FoldProject,
                CompactQueue, Take, server
  <2>2. ASSUME NEW s \in Sync, LeftQueued(s) \/ Crash(s) PROVE r \subseteq 1..made
    <3>1. r \in flight \/ r = run[s].rest
      BY <2>2 DEF LeftQueued, Crash, Orphaned
    <3>2. QED
      BY <3>1 DEF MadeInv, Work
  <2>3. CASE TakeLate
    <3>1. PICK q \in flight : flight' = (flight \ {q}) \cup ({q \ {Earliest(q)}} \ {{}})
      BY <2>3 DEF TakeLate
    <3>2. r \in flight \/ r \subseteq q
      BY <3>1
    <3>3. QED
      BY <3>2 DEF MadeInv
  <2>4. ASSUME AppendPending \/ TakeRemote \/ UNCHANGED vars
               \/ (\E q \in Reader : ReadLog(q) \/ ReadQueue(q))
               \/ (\E c \in Teller : SurfaceBlocked(c) \/ MarkSurfaced(c))
        PROVE UNCHANGED flight
    BY <2>4 DEF AppendPending, TakeRemote, ReadLog, ReadQueue, SurfaceBlocked,
                MarkSurfaced, server, vars
  <2>5. CASE UNCHANGED flight
    BY <2>5 DEF MadeInv
  <2>6. QED
    BY <2>1, <2>2, <2>3, <2>4, <2>5 DEF Next
<1>5. \A i \in 1..Len(slog') : slog'[i][1] \in 0..made'
  BY LogIsMade
<1>6. QED
  BY <1>1, <1>2, <1>3, <1>4, <1>5 DEF MadeInv

\* The invariant the promise rests on.
LEMMA PromiseInvariant == Spec => []RInv
<1>1. Init => RInv
  <2> SUFFICES ASSUME Init PROVE RInv
    OBVIOUS
  <2>1. MadeInv
    BY DEF Init, MadeInv, Work, Idle
  <2>2. TellerInv
    BY DEF Init, TellerInv, TellerIdle
  <2>3. QED
    BY <2>1, <2>2, InvInit DEF RInv
<1>2. RInv /\ [Next]_vars => RInv'
  BY InvStep, MadeStep, TellerStep DEF RInv
<1>3. QED
  BY <1>1, <1>2, PTL DEF Spec

\* The copy is the first rows of the server's log, as many as it has.
LEMMA CopyIsInterval ==
  ASSUME slog \in Seq(Event), CopyInv
  PROVE  Cardinality(logged) \in Nat /\ logged = 1..Cardinality(logged)
<1> DEFINE Missing == {n \in Nat : n + 1 \notin logged}
<1>1. Len(slog) \in Nat
  BY LenProperties
<1>2. Len(slog) \in Missing
  BY <1>1 DEF CopyInv
<1>3. PICK m \in Missing : \A n \in Missing : m <= n
  BY <1>2, LeastExists
<1>4. ASSUME NEW i \in 1..m PROVE i \in logged
  <2>1. i - 1 \in Nat /\ ~(m <= i - 1)
    BY <1>3
  <2>2. i - 1 \notin Missing
    BY <1>3, <2>1
  <2>3. QED
    BY <2>1, <2>2
<1>5. ASSUME NEW i \in logged PROVE i \in 1..m
  <2>1. i \in Nat /\ i >= 1 /\ m \in Nat
    BY <1>1 DEF CopyInv
  <2>2. 1..i \subseteq logged
    BY DEF CopyInv
  <2>3. m + 1 \notin 1..i
    BY <2>2
  <2>4. QED
    BY <2>1, <2>3
<1>6. logged = 1..m
  BY <1>4, <1>5
<1>7. Cardinality(1..m) = m
  <2>1. m \in Nat
    OBVIOUS
  <2>2. Cardinality(1..m) = IF 1 > m THEN 0 ELSE m - 1 + 1
    BY <2>1, FS_Interval
  <2>3. QED
    BY <2>1, <2>2
<1>8. QED
  BY <1>6, <1>7

\* The log the promise speaks of.
Copy == [i \in 1..Cardinality(logged) |-> slog[i]]

\* An append is agreed on when the copy holds it.
LEMMA WholeIsInCopy ==
  ASSUME slog \in Seq(Event), CopyInv
  PROVE  Abstract!Whole(Copy) = {a \in Appends : InCopy(a)}
<1>1. logged = 1..Cardinality(logged)
  BY CopyIsInterval
<1>2. DOMAIN Copy = logged /\ \A i \in logged : Copy[i] = slog[i]
  BY <1>1 DEF Copy
<1>3. ASSUME NEW a \in Appends
      PROVE (\A e \in Abstract!EventOf(a) : \E i \in DOMAIN Copy : Copy[i] = e) <=> InCopy(a)
  BY <1>2 DEF Abstract!EventOf, InCopy, HasIn
<1>4. QED
  BY <1>3 DEF Abstract!Whole, Appends

\* What this machine holds of the workspace's log is only ever extended.
LEMMA CopyExtends ==
  ASSUME IInv, [Next]_vars
  PROVE  Abstract!Extends(Copy', Copy)
<1>1. slog \in Seq(Event) /\ slog' \in Seq(Event) /\ Grown
  BY LogGrows DEF IInv, TypeInv, TypeOK
<1>2. CopyInv /\ CopyInv' /\ logged \subseteq logged'
  BY CopyStep, CopyGrows DEF IInv
<1> DEFINE m == Cardinality(logged)
           n == Cardinality(logged')
<1>3. m \in Nat /\ logged = 1..m
  BY <1>1, <1>2, CopyIsInterval
<1>4. n \in Nat /\ logged' = 1..n
  <2>1. (slog \in Seq(Event) /\ CopyInv => Cardinality(logged) \in Nat /\ logged = 1..Cardinality(logged))'
    BY CopyIsInterval, PTL
  <2>2. QED
    BY <1>1, <1>2, <2>1
<1>5. logged \subseteq 1..Len(slog)
  BY <1>2 DEF CopyInv
<1>6. Copy = [i \in 1..m |-> slog[i]] /\ Copy' = [i \in 1..n |-> slog'[i]]
  BY DEF Copy
<1> HIDE DEF m, n
<1>7. m <= n
  BY <1>2, <1>3, <1>4
<1>8. Len(Copy) = m /\ Len(Copy') = n
  BY <1>3, <1>4, <1>6
<1>9. ASSUME NEW i \in 1..m PROVE Copy'[i] = Copy[i]
  <2>1. i \in 1..n
    BY <1>3, <1>4, <1>7
  <2>2. slog'[i] = slog[i]
    BY <1>1, <1>3, <1>5 DEF Grown
  <2>3. QED
    BY <1>6, <2>1, <2>2
<1>10. QED
  BY <1>3, <1>6, <1>7, <1>8, <1>9 DEF Abstract!Extends

Local == {a \in Unsent : ~InCopy(a)}
Rejected == {a \in queue.blocked : ~InCopy(a)}

\* Settling, compaction, a pull and a refusal told again change nothing of
\* what the queue holds beyond what the copy now does.
LEMMA AgreeStep ==
  ASSUME IInv, [Next]_vars,
         \A a : ~InCopy(a)' => (a \in Unsent' <=> a \in Unsent),
         \A a : ~InCopy(a)' => (a \in queue'.blocked <=> a \in queue.blocked)
  PROVE  Abstract!Agree
<1>1. Abstract!Extends(Copy', Copy)
  BY CopyExtends
<1>2. Abstract!Whole(Copy') = {a \in Appends : InCopy(a)'}
  <2>1. (slog \in Seq(Event) /\ CopyInv => Abstract!Whole(Copy) = {a \in Appends : InCopy(a)})'
    BY WholeIsInCopy, PTL
  <2>2. slog' \in Seq(Event) /\ CopyInv'
    BY LogGrows, CopyStep DEF IInv, TypeInv
  <2>3. QED
    BY <2>1, <2>2
<1>3. \A a : InCopy(a) => InCopy(a)'
  BY InCopyStable DEF IInv
<1>4. Unsent \subseteq Appends /\ queue.blocked \subseteq Appends
  BY DEF IInv, TypeInv, TypeOK, Unsent
<1>5. Local' = Local \ Abstract!Whole(Copy')
  BY <1>2, <1>3, <1>4 DEF Local
<1>6. Rejected' = Rejected \ Abstract!Whole(Copy')
  BY <1>2, <1>3, <1>4 DEF Rejected
<1>7. QED
  BY <1>1, <1>5, <1>6 DEF Abstract!Agree, Copy, Local, Rejected

\* Making an append is the promise's Make.
LEMMA MakeStep ==
  ASSUME RInv, AppendPending
  PROVE  Abstract!Make(made + 1) /\ made + 1 \in 1..N
<1> USE DEF RInv
<1> DEFINE a == made + 1
<1>1. /\ queue.append \subseteq Appends /\ queue.sent \subseteq Appends
      /\ queue.blocked \subseteq Appends /\ made \in Nat
    BY TransportAssumption DEF IInv, TypeInv, TypeOK
<1>2. a \in 1..N
  BY <1>1, TransportAssumption DEF AppendPending
<1>3. a \notin queue.append \cup queue.sent \cup queue.blocked
  BY <1>1 DEF MadeInv
<1>4. ~InCopy(a)
  <2> SUFFICES ASSUME InCopy(a) PROVE FALSE
    OBVIOUS
  <2>1. 1 \in 1..Size
    BY TransportAssumption
  <2>2. PICK i \in logged : slog[i] = <<a, 1>>
    BY <2>1 DEF InCopy, HasIn
  <2>3. i \in 1..Len(slog)
    BY DEF IInv, CopyInv
  <2>4. a \in 0..made
    BY <2>2, <2>3 DEF MadeInv
  <2>5. QED
    BY <1>1, <2>4
<1>5. /\ queue'.append = queue.append \cup {a} /\ queue'.sent = queue.sent
      /\ queue'.blocked = queue.blocked
  BY DEF AppendPending, IInv, TypeInv, TypeOK
<1>6. UNCHANGED <<slog, logged>> /\ \A b : InCopy(b)' = InCopy(b)
  BY DEF AppendPending, server, InCopy, HasIn
<1> HIDE DEF a
<1>7. Local' = Local \cup {a}
  BY <1>3, <1>4, <1>5, <1>6 DEF Local, Unsent
<1>8. Rejected' = Rejected /\ Copy' = Copy
  BY <1>5, <1>6 DEF Rejected, Copy
<1>9. a \notin Local \cup Abstract!Whole(Copy) \cup Rejected
  BY <1>3, <1>4, WholeIsInCopy DEF Local, Rejected, Unsent, IInv, TypeInv, TypeOK
<1>10. QED
  BY <1>2, <1>7, <1>8, <1>9 DEF Abstract!Make, Copy, Local, Rejected, a

\* A block is the promise's Refuse, where the copy has not the append already.
LEMMA BlockStep ==
  ASSUME IInv, NEW s \in Sync, Block(s)
  PROVE  Abstract!RNext
<1> DEFINE a == Earliest(run[s].batch)
<1>1. a \in Appends
  <2>1. run[s].batch \in SUBSET Appends /\ run[s].batch # {}
    BY DEF Block, IInv, TypeInv, TypeOK, BatchInv, Run
  <2>2. QED
    BY <2>1, EarliestIn
<1>2. /\ queue'.append = queue.append /\ queue'.sent = queue.sent
      /\ queue'.blocked = queue.blocked \cup {a}
  BY DEF Block, IInv, TypeInv, TypeOK
<1>3. UNCHANGED <<slog, logged>> /\ \A b : InCopy(b)' = InCopy(b)
  BY DEF Block, server, InCopy, HasIn
<1>4. [Next]_vars
  BY DEF Next, Push
<1> HIDE DEF a
<1>5. CASE InCopy(a)
  <2>1. \A b : ~InCopy(b)' => (b \in Unsent' <=> b \in Unsent)
    BY <1>2, <1>3, <1>5 DEF Unsent
  <2>2. \A b : ~InCopy(b)' => (b \in queue'.blocked <=> b \in queue.blocked)
    BY <1>2, <1>3, <1>5
  <2>3. QED
    BY <1>4, <2>1, <2>2, AgreeStep DEF Abstract!RNext
<1>6. CASE ~InCopy(a)
  <2>1. Local' = Local \ {a}
    BY <1>2, <1>3 DEF Local, Unsent
  <2>2. Rejected' = Rejected \cup {a}
    BY <1>2, <1>3, <1>6 DEF Rejected
  <2>3. Copy' = Copy
    BY <1>3 DEF Copy
  <2>4. Abstract!Refuse(a)
    BY <2>1, <2>2, <2>3 DEF Abstract!Refuse, Copy, Local, Rejected
  <2>5. QED
    BY <1>1, <2>4 DEF Abstract!RNext, Appends
<1>7. QED
  BY <1>5, <1>6

\* Every step of the machinery is one of the promise or changes nothing of it.
LEMMA PromiseStep ==
  ASSUME RInv, [Next]_vars
  PROVE  Abstract!RNext
<1> USE DEF RInv
<1> queue \in [append : SUBSET Appends, sent : SUBSET Appends,
               blocked : SUBSET Appends, told : SUBSET Appends]
  BY DEF IInv, TypeInv, TypeOK
<1>1. \A a : InCopy(a) => InCopy(a)'
  BY InCopyStable DEF IInv
<1> DEFINE SameUnsent == \A a : ~InCopy(a)' => (a \in Unsent' <=> a \in Unsent)
           SameBlocks == \A a : ~InCopy(a)' => (a \in queue'.blocked <=> a \in queue.blocked)
<1>2. CASE UNCHANGED <<queue, made>>
  <2>1. SameUnsent /\ SameBlocks
    BY <1>2 DEF Unsent
  <2>2. QED
    BY <2>1, AgreeStep DEF Abstract!RNext
<1>3. CASE AppendPending
  BY <1>3, MakeStep DEF Abstract!RNext
<1>4. ASSUME NEW s \in Sync, Block(s) PROVE Abstract!RNext
  BY <1>4, BlockStep
<1>5. ASSUME NEW s \in Sync, MarkSent(s) PROVE Abstract!RNext
  <2>1. /\ queue'.append = queue.append /\ queue'.blocked = queue.blocked
        /\ queue'.sent = queue.sent \cup run[s].arrived
    BY <1>5 DEF MarkSent
  <2>2. \A a \in run[s].arrived : InCopy(a)
    BY DEF IInv, ArrivedInv
  <2>3. SameUnsent /\ SameBlocks
    BY <1>1, <2>1, <2>2 DEF Unsent
  <2>4. QED
    BY <2>3, AgreeStep DEF Abstract!RNext
<1>6. ASSUME NEW s \in Sync, CompactQueue(s) PROVE Abstract!RNext
  <2>1. queue' = queue \/ queue' = CompactedPending
    BY <1>6 DEF CompactQueue
  <2>2. \A a \in queue.sent : InCopy(a)
    BY DEF IInv, SentMeansStored
  <2>3. SameUnsent /\ SameBlocks
    BY <1>1, <2>1, <2>2 DEF Unsent, CompactedPending
  <2>4. QED
    BY <2>3, AgreeStep DEF Abstract!RNext
<1>7. ASSUME NEW c \in Teller, MarkSurfaced(c) PROVE Abstract!RNext
  <2>1. /\ queue'.append = queue.append /\ queue'.sent = queue.sent
        /\ queue'.blocked = queue.blocked \cup teller[c].blocks
    BY <1>7 DEF MarkSurfaced
  <2>2. \A a \in teller[c].blocks : a \in queue.blocked \/ InCopy(a)
    BY DEF TellerInv
  <2>3. SameUnsent /\ SameBlocks
    BY <1>1, <2>1, <2>2 DEF Unsent
  <2>4. QED
    BY <2>3, AgreeStep DEF Abstract!RNext
<1>8. QED
  BY <1>2, <1>3, <1>4, <1>5, <1>6, <1>7, QueueMoves

\* The queue, the copy, the marks, the blocks and the compaction keep the
\* promise of RecordStore, with any number of syncs at once: a record made
\* here stays this machine's own until the log this machine holds has all of
\* it, unless it is refused; and that log is only ever extended.
THEOREM PromiseIsKept == Spec => ImplementsRecordStore
<1>1. Init => Abstract!RInit
  <2> SUFFICES ASSUME Init PROVE Abstract!RInit
    OBVIOUS
  <2>1. Unsent = {} /\ queue.blocked = {} /\ logged = {}
    BY DEF Init, Unsent
  <2>2. Cardinality({}) = 0
    BY FS_EmptySet
  <2>3. [i \in 1..0 |-> slog[i]] = <<>>
    OBVIOUS
  <2>4. QED
    BY <2>1, <2>2, <2>3 DEF Abstract!RInit
<1>2. RInv /\ [Next]_vars => [Abstract!RNext]_(Abstract!rvars)
  BY PromiseStep
<1>3. QED
  BY <1>1, <1>2, PromiseInvariant, PTL DEF Spec, ImplementsRecordStore, Abstract!RSpec
=============================================================================
