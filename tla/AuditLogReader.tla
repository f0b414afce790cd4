--------------------------- MODULE AuditLogReader ---------------------------
(***************************************************************************)
(* The incremental reader of the naive audit logs: readJsonlIncremental    *)
(* (telemetry/naiveCollector.js) with the transaction of                   *)
(* collectNaiveSource (telemetry/service.js) that stores what was read     *)
(* together with the checkpoint, and the log under it: a proxy that        *)
(* appends, and an administrator who rotates, deletes or truncates.        *)
(*                                                                         *)
(* The proxy writes the bytes 1 .. Last, some of which are newlines.  What *)
(* a file holds is always an interval of them, and so is a line, a pair of *)
(* its first and last byte.  The reader awaits between its stat, its       *)
(* search for a rotated file and its open, one action each; the scan of    *)
(* what it read and the transaction follow without an await.               *)
(***************************************************************************)
EXTENDS Integers, FiniteSets, Sequences

CONSTANTS
  Last,         \* how many bytes the proxy ever writes
  LastRough,    \* how many if its log is not rotated calmly
  Newline,      \* which of them are newlines
  MaxLine,      \* maxLineBytes
  MaxBytes,     \* maxBytesPerCycle
  MaxLines,     \* maxLinesPerCycle
  Bootstrap,    \* bootstrapBytes
  MaxFiles,     \* bound on the files the log goes through
  MaxAborts,    \* bound on crashes, failed reads and failed transactions
  Disturbances  \* what an owner of the log may do besides appending and rotating calmly

ASSUME StreamAssumption == Last \in Nat /\ Newline \subseteq 1 .. Last /\ Last \in Newline /\ LastRough \in 1 .. Last
\* An option that is 0 is replaced by its default (naiveCollector.js:18-21).
ASSUME LimitAssumption ==
  /\ MaxLine \in Nat /\ {MaxLines, Bootstrap} \subseteq Nat \ {0}
  /\ MaxBytes \in Nat /\ MaxBytes > MaxLine
ASSUME BoundAssumption == MaxFiles \in Nat \ {0} /\ MaxAborts \in Nat
ASSUME DisturbanceAssumption ==
  Disturbances \subseteq {"skip",      \* rotates before the reader has seen the newest file
                          "delete",    \* removes or compresses rotated files
                          "late",      \* writes on to a file that was renamed
                          "truncate",  \* empties the log in place
                          "race"}      \* does any of it in the middle of a poll

VARIABLES
  owner,       \* what the owner of the log does of it: nothing, or everything
  begin,       \* by file: the bytes before its first one
  end,         \* by file: its last byte
  writer,      \* the file the proxy appends to
  present,     \* there is a file under the log's own name, the newest
  gone,        \* the rotated files nobody can find any more
  checkpoint,  \* the row of telemetry_checkpoints
  pc,          \* the next step of the poll
  cp,          \* its nextCheckpoint
  seen,        \* its stat of the log's own name
  target,      \* what resolveReadTarget decided
  scan,        \* what is about to be committed
  delivered,   \* history: the lines committed
  skips,       \* history: the oversized records counted since the last gap
  base,        \* history: where the last gap the reader reported ends
  aborts       \* polls that came to nothing so far

disk == <<owner, begin, end, writer, present, gone>>
local == <<cp, seen, target, scan>>
history == <<delivered, skips, base>>
vars == <<disk, checkpoint, pc, local, history, aborts>>

File == 1 .. MaxFiles
NoFile == 0
Newest == Len(end)
Written == end[Newest]
Bound == IF owner = {} THEN Last ELSE LastRough

\* The file under the log's own name and the ones under rotated names.
Log == IF present THEN Newest ELSE NoFile
Rotated == (1 .. Newest) \ ({Log} \cup gone)

MaxOf(S) == CHOOSE x \in S : \A y \in S : y <= x
MinOf(S) == CHOOSE x \in S : \A y \in S : x <= y

\* A rotated file's name counts the rotations since, as in audit.log.1: each
\* rotation renames all of them.
NameOf(f) == (Newest - f) + (IF present THEN 0 ELSE 1)
FileNamed(n) == IF \E f \in Rotated : NameOf(f) = n
                THEN CHOOSE f \in Rotated : NameOf(f) = n ELSE NoFile

Size(f) == end[f] - begin[f]
Stat(f) == [inode |-> f, size |-> IF f = NoFile THEN 0 ELSE Size(f)]
NoStat == [inode |-> NoFile, size |-> 0]

\* read: last_successful_read_at is set.
FreshCheckpoint ==
  [inode |-> NoFile, offset |-> 0, discard |-> FALSE, source |-> 0, read |-> FALSE]
NoTarget == [stat |-> NoStat, start |-> 0, tail |-> FALSE, gap |-> -1]
NoScan == [lines |-> {}, next |-> 0, discard |-> FALSE, oversized |-> 0]

Forget == [cp EXCEPT !.inode = NoFile, !.offset = 0, !.discard = FALSE, !.source = 0]

Init ==
  /\ owner \in {{}, Disturbances}
  /\ begin = <<0>>
  /\ \E n \in 0 .. Bound : end = <<n>>
  /\ writer = 1
  /\ present = TRUE
  /\ gone = {}
  /\ checkpoint = FreshCheckpoint
  /\ pc = "idle"
  /\ cp = FreshCheckpoint
  /\ seen = NoStat
  /\ target = NoTarget
  /\ scan = NoScan
  /\ delivered = {}
  /\ skips = 0
  /\ base = 0
  /\ aborts = 0

-----------------------------------------------------------------------------
(* The log.                                                                *)

Quiet == pc = "idle" \/ "race" \in owner

\* The proxy appends, up to the end of the line it is writing.
Write(n) ==
  /\ present \/ "late" \in owner
  /\ Written < n
  /\ n <= Bound
  /\ (Written + 1 .. n - 1) \cap Newline = {}
  /\ end' = [f \in DOMAIN end |-> IF f >= writer THEN n ELSE end[f]]
  /\ begin' = [f \in DOMAIN begin |-> IF f > writer THEN n ELSE begin[f]]
  /\ UNCHANGED <<owner, writer, present, gone, checkpoint, pc, local, history, aborts>>

\* Rotation, first half: the log is renamed, between two lines or between a
\* record and its newline.
Rename ==
  /\ present
  /\ Quiet
  /\ Newest < MaxFiles
  /\ Written \in Newline \/ Written + 1 \in Newline
  /\ writer = Newest
  /\ checkpoint.inode = Newest \/ "skip" \in owner
  /\ present' = FALSE
  /\ UNCHANGED <<owner, begin, end, writer, gone, checkpoint, pc, local, history, aborts>>

\* Second half: a new file under the log's name.
Create ==
  /\ ~present
  /\ Quiet
  /\ begin' = Append(begin, Written)
  /\ end' = Append(end, Written)
  /\ present' = TRUE
  /\ writer' = IF "late" \in owner THEN writer ELSE Newest + 1
  /\ UNCHANGED <<owner, gone, checkpoint, pc, local, history, aborts>>

\* The proxy is told of the new file only after it was created.
Reopen ==
  /\ present
  /\ writer # Newest
  /\ Written = 0 \/ Written \in Newline
  /\ writer' = Newest
  /\ UNCHANGED <<owner, begin, end, present, gone, checkpoint, pc, local, history, aborts>>

Delete(f) ==
  /\ "delete" \in owner
  /\ Quiet
  /\ f \in Rotated \ {writer}
  /\ gone' = gone \cup {f}
  /\ UNCHANGED <<owner, begin, end, writer, present, checkpoint, pc, local, history, aborts>>

Truncate ==
  /\ "truncate" \in owner
  /\ Quiet
  /\ present
  /\ Size(Newest) > 0
  /\ begin' = [begin EXCEPT ![Newest] = end[Newest]]
  /\ UNCHANGED <<owner, end, writer, present, gone, checkpoint, pc, local, history, aborts>>

-----------------------------------------------------------------------------
(* A poll.                                                                 *)

\* The poll is over and its locals are gone.
Finish ==
  /\ pc' = "idle"
  /\ cp' = FreshCheckpoint
  /\ seen' = NoStat
  /\ target' = NoTarget
  /\ scan' = NoScan

\* loadCheckpoint and the stat of the log's own name.
Poll ==
  /\ pc = "idle"
  /\ cp' = checkpoint
  /\ seen' = Stat(Log)
  /\ pc' = "resolve"
  /\ UNCHANGED <<disk, checkpoint, target, scan, history, aborts>>

ReadFrom(c, stat, start, tail, gap) ==
  /\ cp' = c
  /\ target' = [stat |-> stat, start |-> start, tail |-> tail, gap |-> gap]
  /\ pc' = "read"
  /\ UNCHANGED <<disk, checkpoint, seen, scan, history, aborts>>

\* The rotated file of an earlier poll is still where it was.
Resumable ==
  /\ cp.source # 0
  /\ FileNamed(cp.source) # NoFile
  /\ FileNamed(cp.source) = cp.inode

ResumeTail ==
  /\ pc = "resolve"
  /\ Resumable
  /\ ReadFrom(cp, Stat(cp.inode), cp.offset, TRUE, -1)

\* "rotated audit tail could not be resumed; switching to current log path":
\* the reader goes on with an emptied checkpoint.
Resumed == IF cp.source # 0 THEN Forget ELSE cp
ResumedGap == IF cp.source # 0 \/ ~cp.read THEN begin[seen.inode] ELSE -1

Unavailable ==
  /\ pc = "resolve"
  /\ ~Resumable
  /\ seen.inode = NoFile
  /\ Finish
  /\ UNCHANGED <<disk, checkpoint, history, aborts>>

\* The first read of a long log starts within the last Bootstrap bytes, at the
\* next line.
Clipped == ~cp.read /\ seen.size > Bootstrap

NextLine(n) == MinOf({p \in Newline : p > n} \cup {Last})

ResolveClipped ==
  /\ pc = "resolve"
  /\ ~Resumable
  /\ seen.inode # NoFile
  /\ Clipped
  /\ LET start == seen.size - Bootstrap
     IN  ReadFrom([Resumed EXCEPT !.offset = start, !.discard = TRUE],
                  seen, start, FALSE, NextLine(begin[seen.inode] + start))

Rotation == Resumed.inode # NoFile /\ Resumed.inode # seen.inode

\* The file of the checkpoint is found again under a rotated name.
ResolveTail ==
  /\ pc = "resolve"
  /\ ~Resumable
  /\ seen.inode # NoFile
  /\ ~Clipped
  /\ Rotation
  /\ cp.inode \in Rotated
  /\ ReadFrom([cp EXCEPT !.source = NameOf(cp.inode)], Stat(cp.inode), cp.offset, TRUE, -1)

\* "rotated audit tail was not found; unread rotated lines may be lost"
ResolveLost ==
  /\ pc = "resolve"
  /\ ~Resumable
  /\ seen.inode # NoFile
  /\ ~Clipped
  /\ Rotation
  /\ cp.inode \notin Rotated
  /\ ReadFrom(Forget, seen, 0, FALSE, begin[seen.inode])

\* Slip: a log with nothing new is taken for a truncated one.
ResolveLogOffByOne ==
  /\ pc = "resolve"
  /\ ~Resumable
  /\ seen.inode # NoFile
  /\ ~Clipped
  /\ ~Rotation
  /\ IF seen.size <= Resumed.offset
     THEN ReadFrom([Resumed EXCEPT !.offset = 0, !.discard = FALSE], seen, 0, FALSE, -1)
     ELSE ReadFrom(Resumed, seen, Resumed.offset, FALSE, ResumedGap)

\* The log the checkpoint is about, or a new one; a log shorter than the offset
\* was truncated and is read from its beginning, which no warning tells of.
ResolveLog ==
  /\ pc = "resolve"
  /\ ~Resumable
  /\ seen.inode # NoFile
  /\ ~Clipped
  /\ ~Rotation
  /\ IF seen.size < Resumed.offset
     THEN ReadFrom([Resumed EXCEPT !.offset = 0, !.discard = FALSE], seen, 0, FALSE, -1)
     ELSE ReadFrom(Resumed, seen, Resumed.offset, FALSE, ResumedGap)

\* scanJsonlChunk on the bytes from+1 .. to: lines up to MaxLines of them, the
\* byte to go on after, whether the rest of a line is to be dropped, and the
\* records too long to be taken.  atEof accepts a last line without newline.
Scanned(from, to, discard, atEof) ==
  LET ends == {p \in Newline : from < p /\ p <= to}
      start(p) == MaxOf({from} \cup {q \in ends : q < p})
      dropped(p) == discard /\ p = MinOf(ends)
      long(p) == ~dropped(p) /\ p - 1 - start(p) > MaxLine
      line(p) == ~dropped(p) /\ ~long(p) /\ p - 1 > start(p)
      full(p) == /\ ~dropped(p) /\ ~long(p)
                 /\ Cardinality({q \in ends : q < p /\ line(q)}) >= MaxLines
      stop == MinOf({p \in ends : full(p)} \cup {to + 1})
      lines == {<<start(p) + 1, p - 1>> : p \in {q \in ends : q < stop /\ line(q)}}
      longs == Cardinality({p \in ends : p < stop /\ long(p)})
      rest == MaxOf({from} \cup ends)
      result(l, n, d, o) == [lines |-> l, next |-> n, discard |-> d, oversized |-> o]
  IN  CASE stop <= to ->
             result(lines, start(stop), FALSE, longs)
        [] stop > to /\ discard /\ ends = {} ->
             result({}, to, ~atEof, 0)
        [] stop > to /\ ~(discard /\ ends = {}) /\ to - rest > MaxLine ->
             result(lines, to, ~atEof, longs + 1)
        [] stop > to /\ ~(discard /\ ends = {}) /\ to - rest <= MaxLine ->
             IF rest < to /\ atEof /\ Cardinality(lines) < MaxLines
             THEN result(lines \cup {<<rest + 1, to>>}, to, FALSE, longs)
             ELSE result(lines, rest, FALSE, longs)
Scan == [x \in (0 .. 2 * Last) \X (0 .. 2 * Last) \X BOOLEAN \X BOOLEAN |->
  Scanned(x[1], x[2], x[3], x[4])]

Available == LET n == target.stat.size - target.start
             IN  IF n <= 0 THEN 0 ELSE IF n < MaxBytes THEN n ELSE MaxBytes

\* The stat promised nothing new.
ReadNothing ==
  /\ pc = "read"
  /\ Available = 0
  /\ scan' = [NoScan EXCEPT !.next = target.start, !.discard = cp.discard]
  /\ pc' = "commit"
  /\ UNCHANGED <<disk, checkpoint, cp, seen, target, history, aborts>>

\* What the name stands for when it is opened.
Opened == IF target.tail THEN FileNamed(cp.source) ELSE Log

\* Slip: the offset goes one byte too far.
ReadChunkOffByOne ==
  /\ pc = "read"
  /\ Available > 0
  /\ Opened # NoFile
  /\ LET from == begin[Opened] + target.start
         to == MaxOf({from, MinOf({from + Available, end[Opened]})})
         atEof == target.tail /\ target.start + (to - from) >= target.stat.size
         result == Scan[<<from, to, cp.discard, atEof>>]
     IN  scan' = [result EXCEPT !.next = target.start + (result.next - from) + 1]
  /\ pc' = "commit"
  /\ UNCHANGED <<disk, checkpoint, cp, seen, target, history, aborts>>

ReadChunk ==
  /\ pc = "read"
  /\ Available > 0
  /\ Opened # NoFile
  /\ LET from == begin[Opened] + target.start
         to == MaxOf({from, MinOf({from + Available, end[Opened]})})
         atEof == target.tail /\ target.start + (to - from) >= target.stat.size
         result == Scan[<<from, to, cp.discard, atEof>>]
     IN  scan' = [result EXCEPT !.next = target.start + (result.next - from)]
  /\ pc' = "commit"
  /\ UNCHANGED <<disk, checkpoint, cp, seen, target, history, aborts>>

\* The file went away since the stat, or cannot be read.
ReadFails ==
  /\ pc = "read"
  /\ Available > 0
  /\ \/ Opened = NoFile /\ aborts' = aborts
     \/ aborts < MaxAborts /\ aborts' = aborts + 1
  /\ Finish
  /\ UNCHANGED <<disk, checkpoint, history>>

\* Slip: a rotated file is left after one chunk of it.
DrainedByOneChunk == target.tail

\* Slip: a rotated file is left only when it was read past its end.
DrainedPastEnd == target.tail /\ scan.next > target.stat.size

\* A rotated file is left once it is read to the end it had.
Drained == target.tail /\ scan.next >= target.stat.size /\ (Available = 0 \/ ~scan.discard)

\* The transaction: all observations and the checkpoint.
Commit ==
  /\ pc = "commit"
  /\ checkpoint' = IF Drained THEN [Forget EXCEPT !.read = TRUE]
                   ELSE [inode   |-> target.stat.inode,
                         offset  |-> scan.next,
                         discard |-> scan.discard,
                         source  |-> IF target.tail THEN cp.source ELSE 0,
                         read    |-> TRUE]
  /\ delivered' = delivered \cup scan.lines
  /\ skips' = (IF target.gap >= 0 THEN 0 ELSE skips) + scan.oversized
  /\ base' = IF target.gap >= 0 THEN target.gap ELSE base
  /\ Finish
  /\ UNCHANGED <<disk, aborts>>

\* A crash of the agent, an I/O error, or a transaction that rolls back.
Abort ==
  /\ pc # "idle"
  /\ aborts < MaxAborts
  /\ aborts' = aborts + 1
  /\ Finish
  /\ UNCHANGED <<disk, checkpoint, history>>

Reader ==
  \/ Poll \/ ResumeTail \/ Unavailable \/ ResolveClipped \/ ResolveTail \/ ResolveLost
  \/ ResolveLog \/ ReadNothing \/ ReadChunk \/ ReadFails \/ Commit

Next ==
  \/ Reader
  \/ Abort
  \/ \E n \in 1 .. Last : Write(n)
  \/ Rename
  \/ Create
  \/ Reopen
  \/ \E f \in File : Delete(f)
  \/ Truncate

Spec == Init /\ [][Next]_vars

\* The scheduler keeps polling (TelemetryService), and a rotation that was
\* begun is finished.
FairSpec == Spec /\ WF_vars(Reader) /\ SF_vars(Create)

-----------------------------------------------------------------------------
(* Properties.                                                             *)

\* Every variable has its type, and the checkpoint stays within its file.
TypeOK ==
  /\ Newest \in File /\ Len(begin) = Newest
  /\ \A f \in 1 .. Newest : 0 <= begin[f] /\ begin[f] <= end[f] /\ end[f] <= Last
  /\ writer \in 1 .. Newest
  /\ {checkpoint, cp} \subseteq [inode : 0 .. Newest, offset : 0 .. Last, discard : BOOLEAN,
                                 source : 0 .. MaxFiles, read : BOOLEAN]
  /\ pc \in {"idle", "resolve", "read", "commit"}
  /\ checkpoint.inode = NoFile \/ "truncate" \in owner
       \/ checkpoint.offset <= Size(checkpoint.inode)

\* Where the reader is in what the proxy writes.
Position ==
  IF checkpoint.inode # NoFile THEN begin[checkpoint.inode] + checkpoint.offset
  ELSE IF checkpoint.read THEN begin[Newest] ELSE 0

\* The records written after byte a and before byte b, by the newline that
\* follows them.
Before(p) == MaxOf({0} \cup {q \in Newline : q < p})
Records(a) == {p \in Newline : a <= Before(p) /\ Before(p) + 1 < p}
Lines(a, b) ==
  {<<Before(p) + 1, p - 1>> : p \in {q \in Records(a) : q - 1 <= b /\ q - 1 - Before(q) <= MaxLine}}
Longs(a, b) == {p \in Records(a) : Before(p) < b /\ p - 1 - Before(p) > MaxLine}

\* While the log is rotated calmly, what was stored is exactly the records up
\* to the checkpoint, each once, whatever chunks, line limits, rotations,
\* crashes and failed transactions came between; every oversized record is
\* skipped and counted once.
ExactDelivery == owner = {} =>
  /\ {x \in delivered : x[1] > base} = Lines(base, Position)
  /\ skips = Cardinality(Longs(base, Position))

\* Lines are stored in the order they were written and no byte is stored
\* twice: traffic is not counted twice, and a rotated file is read to its end
\* before the file after it, also when rotated files are skipped or lost and
\* when the log is truncated.
InOrder ==
  pc = "commit" => \A x \in scan.lines, y \in delivered : y[2] < x[1]

\* naiveCollector.test.js:226: the reader "warns and continues when rotated
\* tail file is already gone": what it has gone past without a warning is stored.
LossIsReported ==
  checkpoint.inode # NoFile => Lines(base, Position) \subseteq delivered

\* Once the proxy pauses, every complete record gets stored.
CatchesUp ==
  owner = {} => <>[](\A x \in Lines(base, Written) : x[2] < Written => x \in delivered)

=============================================================================
