--------------------------- MODULE PublishRewrite ---------------------------
(***************************************************************************)
(* publishRewrite of apps/cli/src/synclock.ts: a sync replaces a file that *)
(* the foreground goes on appending to, with no lock between the two.      *)
(*                                                                         *)
(* The file is pending.jsonl, whose rewrite drops every row about an       *)
(* append the server's copy holds (Stored), or registry.jsonl, which may   *)
(* not exist yet (Missing) and of whose rows nothing is dropped here.      *)
(*                                                                         *)
(* A file is an inode and what it holds; a name is bound to one inode.  An *)
(* appender opens the name, then writes through its descriptor; a large    *)
(* row becomes visible in two pieces.  A row is lost when its append has   *)
(* completed and no reader of the name will ever meet it again.            *)
(***************************************************************************)
EXTENDS Naturals, Sequences, FiniteSets, SequencesExt

CONSTANTS
    Row,        \* the appends the foreground makes
    Large,      \* those whose write is seen a piece at a time
    Stored,     \* those the server's copy holds, which a mark settles
    Early,      \* those in the file before anything else happens
    Pub,        \* the syncs that rewrite the file, each with its nonce
    MayDie,     \* those of them that may die
    Missing,    \* TRUE: the file does not exist yet
    DiesLate,   \* TRUE: a death may fall between the rename and the tail
    Takeovers   \* how often the lock may be taken from a live holder

NoFile == "nofile"
NoOwner == "noowner"

ASSUME PublishAssumption ==
    /\ IsFiniteSet(Row)
    /\ {"original", "created", NoFile, NoOwner} \cap Pub = {}
    /\ Large \subseteq Row \ Early /\ Stored \subseteq Row /\ Early \subseteq Row
    /\ MayDie \subseteq Pub /\ Missing \in BOOLEAN /\ DiesLate \in BOOLEAN
    /\ Takeovers \in Nat /\ (Missing => Early = {})

VARIABLES
    name,      \* the inode the file's name is bound to, or NoFile
    content,   \* what each inode holds: a sequence of pieces of lines
    temps,     \* the publishers whose temp file is there to be renamed
    owner,     \* whose nonce is in sync.lock, or NoOwner
    taken,     \* takeovers from a live holder so far
    apc, afd,  \* an appender's next step, and the inode it opened
    ppc, pfd,  \* a publisher's next step, and the inode it opened
    before,    \* its first read
    carried,   \* its second read
    tail,      \* what it recovered behind the second read
    late       \* rows written where the code says nothing recovers them

rewriteVars == <<name, content, temps, owner, taken, apc, afd, ppc, pfd,
          before, carried, tail, late>>

\* The file as found, the one an appender creates, a publisher's replacement.
FileInode == {"original", "created"} \cup Pub

\* A piece of a line: an append or the mark that settles it; `ends` is FALSE
\* for the first part of a large row, which no line ending follows yet.
Piece == [kind : {"append", "sent"}, row : Row, ends : BOOLEAN]

Whole(k, r) == [kind |-> k, row |-> r, ends |-> TRUE]
FirstHalf(r) == [kind |-> "append", row |-> r, ends |-> FALSE]

EndsMidLine(text) == text # <<>> /\ ~Last(text).ends

\* The rows a reader of this text finds.
AppendsIn(text) == {r \in Row : Whole("append", r) \in ToSet(text)}
SentIn(text) == {r \in Row : Whole("sent", r) \in ToSet(text)}
UnsentIn(text) == AppendsIn(text) \ SentIn(text)

\* What a reader of the name finds.
Text == IF name = NoFile THEN <<>> ELSE content[name]

From(text, i) == SubSeq(text, i + 1, Len(text))

-----------------------------------------------------------------------------
(* Initial state: the early appends are in the file. *)

Lines(kind, rows) ==
    LET order == SetToSeq(rows) IN [i \in DOMAIN order |-> Whole(kind, order[i])]

InitRewrite ==
    /\ name = IF Missing THEN NoFile ELSE "original"
    /\ content = [i \in FileInode |-> IF i = "original" THEN Lines("append", Early) ELSE <<>>]
    /\ temps = {}
    /\ owner = NoOwner
    /\ taken = 0
    /\ apc = [r \in Row |-> IF r \in Early THEN "done" ELSE "open"]
    /\ afd = [r \in Row |-> NoFile]
    /\ ppc = [p \in Pub |-> "idle"]
    /\ pfd = [p \in Pub |-> NoFile]
    /\ before = [p \in Pub |-> <<>>]
    /\ carried = [p \in Pub |-> <<>>]
    /\ tail = [p \in Pub |-> <<>>]
    /\ late = {}

AGoto(r, l) == apc' = [apc EXCEPT ![r] = l]
PGoto(p, l) == ppc' = [ppc EXCEPT ![p] = l]

-----------------------------------------------------------------------------
(* The foreground: appendFileSync opens by name, creating the file where it *)
(* is not there, and writes through the descriptor.                         *)

AppendOpen(r) ==
    /\ apc[r] = "open"
    /\ name' = IF name = NoFile THEN "created" ELSE name
    /\ afd' = [afd EXCEPT ![r] = name']
    /\ AGoto(r, IF r \in Large THEN "half" ELSE "write")
    /\ UNCHANGED <<content, temps, owner, taken, ppc, pfd, before, carried, tail, late>>

\* A write holds the inode: no other write falls between its two pieces.
Busy(i) == \E r \in Large : apc[r] = "write" /\ afd[r] = i

AppendHalf(r) ==
    /\ apc[r] = "half"
    /\ ~Busy(afd[r])
    /\ content' = [content EXCEPT ![afd[r]] = Append(@, FirstHalf(r))]
    /\ AGoto(r, "write")
    /\ UNCHANGED <<name, temps, owner, taken, afd, ppc, pfd, before, carried, tail, late>>

\* The residual the code states (synclock.ts:430-449): the inode has lost its
\* name and its last reader is past the point of recovering this row.
Unrecovered(r) ==
    /\ afd[r] # name
    /\ \A p \in Pub : pfd[p] = afd[r] => ppc[p] # "tail"

AppendWrite(r) ==
    /\ apc[r] = "write"
    /\ r \notin Large => ~Busy(afd[r])
    /\ content' = [content EXCEPT ![afd[r]] = Append(@, Whole("append", r))]
    /\ late' = IF Unrecovered(r) THEN late \cup {r} ELSE late
    /\ AGoto(r, "done")
    /\ UNCHANGED <<name, temps, owner, taken, afd, ppc, pfd, before, carried, tail>>

-----------------------------------------------------------------------------
(* The lock, as SyncLock shows it can behave: taken when free or when its  *)
(* holder is dead, and at most Takeovers times from one that is not.       *)

Alive == {p \in Pub : ppc[p] # "dead"}

TakeLock(p) ==
    /\ ppc[p] = "idle"
    /\ \/ /\ owner \notin Alive
          /\ UNCHANGED taken
       \/ /\ owner \in Alive
          /\ taken < Takeovers
          /\ taken' = taken + 1
    /\ owner' = p
    \* sweepAbandoned: what an earlier publisher left is taken off the disk.
    /\ \E swept \in SUBSET temps : temps' = temps \ swept
    /\ PGoto(p, "settle")
    /\ UNCHANGED <<name, content, apc, afd, pfd, before, carried, tail, late>>

Release(p) ==
    /\ ppc[p] = "release"
    /\ owner' = IF owner = p THEN NoOwner ELSE owner
    /\ PGoto(p, "done")
    /\ UNCHANGED <<name, content, temps, taken, apc, afd, pfd, before, carried, tail, late>>

-----------------------------------------------------------------------------
(* settleArrived: a mark for each unsent append the server's copy holds.   *)

Marks(text) == Lines("sent", UnsentIn(text) \cap Stored)

\* A queue that cannot be read (its last line is in progress) is settled by
\* a later pass; a file that is not there has nothing to settle.
Settle(p) ==
    /\ ppc[p] = "settle"
    /\ content' = IF name = NoFile \/ EndsMidLine(Text) THEN content
                  ELSE [content EXCEPT ![name] = @ \o Marks(@)]
    /\ PGoto(p, "openread")
    /\ UNCHANGED <<name, temps, owner, taken, apc, afd, pfd, before, carried, tail, late>>

-----------------------------------------------------------------------------
(* publishRewrite *)

\* The pieces of a text at some of its positions, in their order.
Rank(S, i) == Cardinality({j \in S : j <= i})
PiecesAt(text, S) ==
    [n \in 1..Cardinality(S) |-> text[CHOOSE i \in S : Rank(S, i) = n]]

\* Mutant: the marks go and the appends they settle stay.
DropsOnlyMarks(text) == PiecesAt(text, {i \in DOMAIN text : text[i].kind # "sent"})

\* compactedPending: every row about a sent append is dropped.
KeptPositions(text) == {i \in DOMAIN text : text[i].row \notin SentIn(text)}
Rewritten(text) == PiecesAt(text, KeptPositions(text))

OpenReadable(p) ==
    /\ ppc[p] = "openread"
    /\ pfd' = [pfd EXCEPT ![p] = name]
    /\ PGoto(p, "read")
    /\ UNCHANGED <<name, content, temps, owner, taken, apc, afd, before, carried, tail, late>>

\* bytesFrom(original, i)
Read(p, i) == IF pfd[p] = NoFile THEN <<>> ELSE From(content[pfd[p]], i)

FirstRead(p) ==
    /\ ppc[p] = "read"
    /\ before' = [before EXCEPT ![p] = Read(p, 0)]
    /\ PGoto(p, IF EndsMidLine(Read(p, 0)) THEN "release" ELSE "reread")
    /\ UNCHANGED <<name, content, temps, owner, taken, apc, afd, pfd, carried, tail, late>>

\* Rewritten under us, ends mid-line, made under us.
Unpublishable(p, after) ==
    \/ ~IsPrefix(before[p], after)
    \/ EndsMidLine(after)
    \/ pfd[p] = NoFile /\ name # NoFile

SecondRead(p) ==
    /\ ppc[p] = "reread"
    /\ carried' = [carried EXCEPT ![p] = Read(p, 0)]
    /\ PGoto(p, IF Unpublishable(p, Read(p, 0)) THEN "release" ELSE "temp")
    /\ UNCHANGED <<name, content, temps, owner, taken, apc, afd, pfd, before, tail, late>>

Replacement(p) == Rewritten(before[p]) \o From(carried[p], Len(before[p]))

WriteTemp(p) ==
    /\ ppc[p] = "temp"
    /\ content' = [content EXCEPT ![p] = Replacement(p)]
    /\ temps' = temps \cup {p}
    /\ PGoto(p, "nonce")
    /\ UNCHANGED <<name, owner, taken, apc, afd, pfd, before, carried, tail, late>>

CheckNonce(p) ==
    /\ ppc[p] = "nonce"
    /\ IF owner = p
       THEN PGoto(p, "rename") /\ UNCHANGED temps
       ELSE PGoto(p, "release") /\ temps' = temps \ {p}
    /\ UNCHANGED <<name, content, owner, taken, apc, afd, pfd, before, carried, tail, late>>

\* The rename fails where the temp file was swept away in the meantime.
Rename(p) ==
    /\ ppc[p] = "rename"
    /\ temps' = temps \ {p}
    /\ IF p \in temps
       THEN name' = p /\ PGoto(p, "tail")
       ELSE UNCHANGED name /\ PGoto(p, "release")
    /\ UNCHANGED <<content, owner, taken, apc, afd, pfd, before, carried, tail, late>>

WholeLines(text) == SubSeq(text, 1, SelectLastInSeq(text, LAMBDA x : x.ends))

\* Mutants: the offset is that of the first read; the half-line is carried.
TailOfFirstRead(p) == WholeLines(Read(p, Len(before[p])))
TailAsItStands(p) == Read(p, Len(carried[p]))

LateTail(p) == WholeLines(Read(p, Len(carried[p])))

ReadTail(p) ==
    /\ ppc[p] = "tail"
    /\ tail' = [tail EXCEPT ![p] = LateTail(p)]
    /\ PGoto(p, "carry")
    /\ UNCHANGED <<name, content, temps, owner, taken, apc, afd, pfd, before, carried, late>>

CarryTail(p) ==
    /\ ppc[p] = "carry"
    /\ tail[p] # <<>> => ~Busy(name)
    /\ content' = [content EXCEPT ![name] = @ \o tail[p]]
    /\ PGoto(p, "release")
    /\ UNCHANGED <<name, temps, owner, taken, apc, afd, pfd, before, carried, tail, late>>

Publish(p) ==
    \/ TakeLock(p) \/ Settle(p) \/ OpenReadable(p) \/ FirstRead(p) \/ SecondRead(p)
    \/ WriteTemp(p) \/ CheckNonce(p) \/ Rename(p) \/ ReadTail(p) \/ CarryTail(p)
    \/ Release(p)

Renamed(p) == ppc[p] \in {"tail", "carry"}

Die(p) ==
    /\ p \in MayDie /\ ppc[p] \notin {"idle", "done", "dead"}
    /\ Renamed(p) => DiesLate
    /\ PGoto(p, "dead")
    /\ UNCHANGED <<name, content, temps, owner, taken, apc, afd, pfd, before, carried, tail, late>>

NextRewrite ==
    \/ \E r \in Row : AppendOpen(r) \/ AppendHalf(r) \/ AppendWrite(r)
    \/ \E p \in Pub : Publish(p) \/ Die(p)

SpecRewrite == InitRewrite /\ [][NextRewrite]_rewriteVars

-----------------------------------------------------------------------------
(* Properties *)

\* A publisher still has rows to put back: the rename has landed and the tail
\* behind its second read has not been carried.
Carrying == \E p \in Pub : Renamed(p)

\* The lock has been taken from nobody alive, so there was one holder at a time.
LockKept == taken = 0

\* synclock.ts:415-416: neither a crash nor a concurrent append costs a record.
\* While the lock is kept every completed append the server does not hold is in
\* the file, except in the moment the tail is carried and in the residual window
\* the code states; and what the second read saw and what the tail recovered
\* never overlap, so none is there twice.
EveryAppendOnce ==
    LockKept =>
        /\ ~Carrying =>
               \A r \in Row \ (Stored \cup late) : apc[r] = "done" => r \in AppendsIn(Text)
        /\ \A i, j \in DOMAIN Text :
               Text[i].ends /\ Text[i].kind = "append" /\ Text[i] = Text[j] => i = j

\* synclock.ts:543-549: no line is ever cut in half or fused onto another; the
\* first part of a line is followed by its second or is the last there is, even
\* where two rewrites overlap.
NoFusedLine ==
    \A i \in DOMAIN Text :
        ~Text[i].ends => i = Len(Text) \/ Text[i + 1] = Whole("append", Text[i].row)

\* An append that has been settled is never read as unsent again: a rewrite
\* drops an append and its mark together.
SettledStaysSettled ==
    [][LockKept' => \A r \in Row : r \in SentIn(Text) => r \notin UnsentIn(Text)']_rewriteVars

=============================================================================
