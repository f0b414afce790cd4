------------------------ MODULE AuditLogReaderProofs ------------------------
(***************************************************************************)
(* The invariants TLC checks of AuditLogReader on a small instance, proved *)
(* for every log, every limit of the reader and any number of rotations:   *)
(* the types and InOrder whatever else the owner of the log does between   *)
(* polls (in the middle of a poll, race, InOrder does not hold), and       *)
(* ExactDelivery, which speaks of an owner who only rotates calmly.        *)
(***************************************************************************)
EXTENDS AuditLogReader, NaturalLemmas, FiniteSetTheorems, TLAPS

-----------------------------------------------------------------------------
(* Least and greatest members.                                             *)

LEMMA MinOfIsLeast ==
  ASSUME NEW S \in SUBSET Nat, S # {}
  PROVE  MinOf(S) \in S /\ \A y \in S : MinOf(S) <= y
BY LeastExists DEF MinOf

LEMMA MaxOfIsGreatest ==
  ASSUME NEW b \in Nat, NEW S \in SUBSET (0 .. b), S # {}
  PROVE  MaxOf(S) \in S /\ \A y \in S : y <= MaxOf(S)
<1> DEFINE T == {b - y : y \in S}
<1>1. T \in SUBSET Nat /\ T # {}
  <2>1. \A y \in S : b - y \in Nat
    OBVIOUS
  <2> QED
    BY <2>1
<1>2. PICK m \in T : \A n \in T : m <= n
  BY <1>1, LeastExists
<1>3. PICK x \in S : m = b - x
  OBVIOUS
<1>4. \A y \in S : b - x <= b - y
  BY <1>2, <1>3
<1>5. \A y \in S : y <= x
  BY <1>4
<1> QED
  BY <1>5 DEF MaxOf

-----------------------------------------------------------------------------
(* What a scan returns: lines of what it was given, none of them past the  *)
(* byte it goes on after.                                                  *)

Pair == Int \X Int

ScanResult(from, to, r) ==
  /\ r = [lines |-> r.lines, next |-> r.next, discard |-> r.discard, oversized |-> r.oversized]
  /\ r.next \in from .. to
  /\ r.discard \in BOOLEAN
  /\ r.lines \in SUBSET Pair
  /\ \A x \in r.lines : from < x[1] /\ x[1] <= x[2] /\ x[2] <= r.next

LEMMA ResultLemma ==
  ASSUME NEW from \in Nat, NEW to \in Nat,
         NEW next \in from .. to, NEW d \in BOOLEAN, NEW n,
         NEW lines, \A x \in lines : x \in Pair /\ from < x[1] /\ x[1] <= x[2] /\ x[2] <= next
  PROVE  ScanResult(from, to, [lines |-> lines, next |-> next, discard |-> d, oversized |-> n])
BY Zenon DEF ScanResult

LEMMA ScanLemma ==
  ASSUME NEW from \in 0 .. 2 * Last, NEW to \in 0 .. 2 * Last, from <= to,
         NEW discard \in BOOLEAN, NEW atEof \in BOOLEAN
  PROVE  ScanResult(from, to, Scanned(from, to, discard, atEof))
<1> DEFINE
      ends == {p \in Newline : from < p /\ p <= to}
      start(p) == MaxOf({from} \cup {q \in ends : q < p})
      dropped(p) == discard /\ p = MinOf(ends)
      long(p) == ~dropped(p) /\ p - 1 - start(p) > MaxLine
      line(p) == ~dropped(p) /\ ~long(p) /\ p - 1 > start(p)
      full(p) == /\ ~dropped(p) /\ ~long(p)
                 /\ Cardinality({q \in ends : q < p /\ line(q)}) >= MaxLines
      stop == MinOf({p \in ends : full(p)} \cup {to + 1})
      lines == {<<start(p) + 1, p - 1>> : p \in {q \in ends : q < stop /\ line(q)}}
      longs == Cardinality({p \in ends : p < stop /\ long(p)})
      rest == MaxOf({from} \cup ends)
      result(l, n, d, o) == [lines |-> l, next |-> n, discard |-> d, oversized |-> o]
<1>1. Last \in Nat /\ 2 * Last \in Nat /\ ends \in SUBSET Nat
  <2>1. Last \in Nat /\ \A p \in Newline : p \in Nat
    BY StreamAssumption
  <2>2. \A p \in ends : p \in Nat
    BY <2>1
  <2> HIDE DEF ends
  <2> QED
    BY <2>1, <2>2
<1>2. \A n : start(n) \in from .. to /\ (\A q \in ends : q < n => q <= start(n))
  <2> SUFFICES ASSUME NEW n
               PROVE  start(n) \in from .. to /\ (\A q \in ends : q < n => q <= start(n))
    OBVIOUS
  <2> DEFINE S == {from} \cup {q \in ends : q < n}
  <2>1. S \in SUBSET (0 .. 2 * Last) /\ S # {}
    BY <1>1
  <2>2. MaxOf(S) \in S /\ \A y \in S : y <= MaxOf(S)
    BY <1>1, <2>1, MaxOfIsGreatest
  <2>3. \A y \in S : y \in from .. to
    BY <1>1
  <2> QED
    BY <2>2, <2>3
<1>3. rest \in from .. to /\ \A q \in ends : q <= rest
  <2> DEFINE S == {from} \cup ends
  <2>1. S \in SUBSET (0 .. 2 * Last) /\ S # {}
    BY <1>1
  <2>2. MaxOf(S) \in S /\ \A y \in S : y <= MaxOf(S)
    BY <1>1, <2>1, MaxOfIsGreatest
  <2>3. \A y \in S : y \in from .. to
    BY <1>1
  <2> QED
    BY <2>2, <2>3
<1>4. stop \in Nat
  <2> DEFINE S == {p \in ends : full(p)} \cup {to + 1}
  <2>1. S \in SUBSET Nat /\ S # {}
    BY <1>1
  <2> HIDE DEF S
  <2>2. MinOf(S) \in S
    BY <2>1, MinOfIsLeast
  <2> QED
    BY <2>1, <2>2 DEF S
<1>5. ASSUME NEW x \in lines
      PROVE  /\ x \in Pair /\ from < x[1] /\ x[1] <= x[2]
             /\ x[2] <= start(stop) /\ x[2] <= rest /\ x[2] <= to
  <2>1. PICK p \in ends : p < stop /\ p - 1 > start(p) /\ x = <<start(p) + 1, p - 1>>
    OBVIOUS
  <2> HIDE DEF start, stop, rest, lines, line, full, long, dropped
  <2>2. p \in Nat /\ from < p /\ p <= to /\ p <= start(stop) /\ p <= rest
    BY <1>1, <1>2, <1>3, <2>1
  <2>3. start(p) \in from .. to /\ start(stop) \in from .. to
    BY <1>2
  <2>4. x \in Pair /\ x[1] = start(p) + 1 /\ x[2] = p - 1
    BY <2>1, <2>2, <2>3 DEF Pair
  <2> QED
    BY <1>3, <2>1, <2>2, <2>3, <2>4
<1>6. start(stop) \in from .. to
  BY <1>2
<1> DEFINE
      few == Cardinality(lines) < MaxLines
      r1 == result(lines, start(stop), FALSE, longs)
      more == ~atEof
      r2 == result({}, to, more, 0)
      r3 == result(lines, to, more, longs + 1)
      r4 == result(lines \cup {<<rest + 1, to>>}, to, FALSE, longs)
      r5 == result(lines, rest, FALSE, longs)
      r == CASE stop <= to -> r1
             [] stop > to /\ discard /\ ends = {} -> r2
             [] stop > to /\ ~(discard /\ ends = {}) /\ to - rest > MaxLine -> r3
             [] stop > to /\ ~(discard /\ ends = {}) /\ to - rest <= MaxLine ->
                  IF rest < to /\ atEof /\ few THEN r4 ELSE r5
<1>7. Scanned(from, to, discard, atEof) = r
  BY DEF Scanned
<1>8. /\ MaxLine \in Nat /\ from \in Nat /\ to \in Nat /\ rest \in Nat
      /\ to \in from .. to /\ more \in BOOLEAN
  BY <1>1, <1>3, LimitAssumption
<1>9. r \in {r1, r2, r3, r5} \/ (rest < to /\ r = r4)
  <2> HIDE DEF stop, rest, ends, few, r1, r2, r3, r4, r5
  <2> QED
    BY <1>4, <1>8
<1> HIDE DEF start, stop, rest, lines, longs, ends, more, r
<1>10. ScanResult(from, to, r1)
  BY <1>5, <1>6, <1>8, ResultLemma
<1>11. ScanResult(from, to, r2)
  BY <1>8, ResultLemma
<1>12. ScanResult(from, to, r3)
  BY <1>5, <1>8, ResultLemma
<1>13. rest < to => ScanResult(from, to, r4)
  <2>1. rest < to => <<rest + 1, to>> \in Pair /\ from < rest + 1 /\ rest + 1 <= to
    BY <1>3, <1>8 DEF Pair
  <2>2. \A x \in lines \cup {<<rest + 1, to>>} : rest < to =>
          x \in Pair /\ from < x[1] /\ x[1] <= x[2] /\ x[2] <= to
    BY <1>5, <1>8, <2>1
  <2> QED
    BY <1>8, <2>2, ResultLemma
<1>14. ScanResult(from, to, r5)
  BY <1>3, <1>5, <1>8, ResultLemma
<1> HIDE DEF r1, r2, r3, r4, r5
<1> QED
  BY <1>7, <1>9, <1>10, <1>11, <1>12, <1>13, <1>14

-----------------------------------------------------------------------------
(* The inductive invariant: every stored line lies before the place the    *)
(* next read starts from, and a file is left only when every stored line   *)
(* lies before the end of it.                                              *)

Upto(D, b) == \A y \in D : y[2] <= b

\* The lines D were taken from a file of the bytes b + 1 .. e or from files
\* before it, and the first o bytes of it are done with; a file of fewer bytes
\* was emptied since.
At(D, b, e, o) ==
  /\ Upto(D, b + o)
  /\ Upto(D, e)
  /\ o > e - b => Upto(D, b)

Fits(b, e, o) == "truncate" \in owner \/ o <= e - b

\* The file f was renamed.
Left(f) == f < Newest \/ ~present

\* Where a reader without a file goes on.
Front == IF present THEN begin[Newest] ELSE end[Newest]

Files ==
  /\ owner \subseteq Disturbances
  /\ begin \in Seq(Int) /\ end \in Seq(Int)
  /\ Len(begin) = Newest /\ Newest \in File
  /\ \A f \in 1 .. Newest : 0 <= begin[f] /\ begin[f] <= end[f] /\ end[f] <= Last
  /\ \A f, g \in 1 .. Newest : f < g => end[f] <= begin[g]
  /\ writer \in 1 .. Newest
  /\ \A f \in 1 .. Newest : f > writer => begin[f] = end[f]
  /\ present \in BOOLEAN
  /\ ~present => Newest < MaxFiles

Row == [inode : 0 .. Newest, offset : 0 .. Last, discard : BOOLEAN,
        source : 0 .. MaxFiles, read : BOOLEAN]

CheckpointHolds == LET i == checkpoint.inode IN
  /\ checkpoint \in Row
  /\ i # NoFile => /\ At(delivered, begin[i], end[i], checkpoint.offset)
                   /\ Fits(begin[i], end[i], checkpoint.offset)
                   /\ checkpoint.source # 0 => Left(i)
  /\ i = NoFile => checkpoint.offset = 0 /\ checkpoint.source = 0 /\ Upto(delivered, Front)
  /\ ~checkpoint.read => delivered = {}

ResolveHolds == pc = "resolve" =>
  /\ cp = checkpoint
  /\ seen.inode = Log
  /\ Log # NoFile => /\ seen.size \in 0 .. Size(Log)
                     /\ cp.inode = Log /\ cp.offset > seen.size => Upto(delivered, begin[Log])

ReadHolds == pc \in {"read", "commit"} => LET f == target.stat.inode IN
  /\ f \in 1 .. Newest
  /\ target.stat.size \in 0 .. Size(f)
  /\ target.tail => f \in Rotated /\ NameOf(f) = cp.source
  /\ ~target.tail => f = Log
  /\ target.start \in 0 .. Last
  /\ At(delivered, begin[f], end[f], target.start)
  /\ Fits(begin[f], end[f], target.start)

CommitHolds == pc = "commit" => LET f == target.stat.inode IN
  /\ scan.lines \in SUBSET Pair
  /\ scan.next \in 0 .. Last
  /\ scan.discard \in BOOLEAN
  /\ At(delivered \cup scan.lines, begin[f], end[f], scan.next)
  /\ Fits(begin[f], end[f], scan.next)

Typed ==
  /\ pc \in {"idle", "resolve", "read", "commit"}
  /\ cp \in Row
  /\ delivered \in SUBSET Pair

ReaderInv ==
  /\ Files
  /\ Typed
  /\ CheckpointHolds
  /\ ResolveHolds
  /\ ReadHolds
  /\ CommitHolds
  /\ InOrder

-----------------------------------------------------------------------------
(* What the owner of the log does.                                         *)

\* No byte moves back, and a file that does not begin where it did is empty.
Grown ==
  /\ owner' = owner
  /\ Newest <= Newest'
  /\ Front <= Front'
  /\ \A f \in 1 .. Newest :
       /\ begin[f] <= begin'[f] /\ end[f] <= end'[f]
       /\ \/ begin'[f] = begin[f]
          \/ begin'[f] = end'[f] /\ ("truncate" \in owner \/ begin[f] = end[f])
       /\ Left(f) => Left(f)'

LEMMA FilesTypes ==
  ASSUME Files
  PROVE  /\ Newest \in Nat /\ Newest \in 1 .. Newest /\ writer \in 1 .. Newest
         /\ \A f \in 1 .. Newest : /\ begin[f] \in Int /\ end[f] \in Int /\ 0 <= begin[f]
                                   /\ begin[f] <= end[f] /\ end[f] <= end[Newest]
                                   /\ end[f] <= Last
<1>1. Newest \in 1 .. Newest /\ Newest \in Nat
  BY BoundAssumption DEF Files, File
<1>2. ASSUME NEW f \in 1 .. Newest
      PROVE  /\ begin[f] \in Int /\ end[f] \in Int /\ begin[Newest] \in Int /\ end[Newest] \in Int
             /\ 0 <= begin[f] /\ begin[f] <= end[f] /\ begin[Newest] <= end[Newest]
             /\ end[f] <= Last
  BY <1>1 DEF Files, Newest
<1>3. ASSUME NEW f \in 1 .. Newest PROVE end[f] <= end[Newest]
  <2>1. CASE f = Newest
    BY <1>2, <2>1
  <2>2. CASE f < Newest
    BY <1>1, <1>2, <2>2 DEF Files
  <2> QED
    BY <1>1, <2>1, <2>2
<1> QED
  BY <1>1, <1>2, <1>3 DEF Files

LEMMA RaisedSeq ==
  ASSUME NEW s \in Seq(Int), NEW w \in Int, NEW n \in Int,
         NEW t, t = [f \in DOMAIN s |-> IF f >= w THEN n ELSE s[f]]
  PROVE  /\ t \in Seq(Int)
         /\ Len(t) = Len(s)
         /\ \A f \in 1 .. Len(s) : t[f] = IF f >= w THEN n ELSE s[f]
<1>1. DOMAIN s = 1 .. Len(s) /\ Len(s) \in Nat
  OBVIOUS
<1>2. t \in [1 .. Len(s) -> Int]
  BY <1>1
<1>3. t \in Seq(Int)
  BY <1>1, <1>2
<1>4. Len(t) = Len(s)
  BY <1>1, <1>2, <1>3
<1> QED
  BY <1>1, <1>3, <1>4

LEMMA WriteStep ==
  ASSUME Files, NEW n \in 1 .. Last, Write(n)
  PROVE  /\ Files' /\ Grown /\ Newest' = Newest
         /\ \A f \in 1 .. Newest : Size(f) <= Size(f)'
<1>1. Last \in Nat /\ n \in Nat /\ n <= Last
  BY StreamAssumption
<1>2. /\ begin' \in Seq(Int) /\ end' \in Seq(Int)
      /\ Len(begin') = Newest /\ Len(end') = Newest
      /\ \A f \in 1 .. Newest : end'[f] = IF f >= writer THEN n ELSE end[f]
      /\ \A f \in 1 .. Newest : begin'[f] = IF f > writer THEN n ELSE begin[f]
  <2>1. writer \in Int /\ writer + 1 \in Int /\ n \in Int
    BY <1>1, FilesTypes
  <2> PICK w \in Int : w = writer + 1
    BY <2>1
  <2>2. begin \in Seq(Int) /\ end \in Seq(Int) /\ Len(begin) = Len(end)
    BY DEF Files, Newest
  <2>3. end' = [f \in DOMAIN end |-> IF f >= writer THEN n ELSE end[f]]
    BY DEF Write
  <2>4. begin' = [f \in DOMAIN begin |-> IF f >= w THEN n ELSE begin[f]]
    <3>1. \A f \in DOMAIN begin : f >= w <=> f > writer
      BY <2>1, <2>2
    <3> QED
      BY <3>1 DEF Write
  <2>5. /\ end' \in Seq(Int) /\ Len(end') = Len(end)
        /\ \A f \in 1 .. Len(end) : end'[f] = IF f >= writer THEN n ELSE end[f]
    BY <2>1, <2>2, <2>3, RaisedSeq
  <2>6. /\ begin' \in Seq(Int) /\ Len(begin') = Len(begin)
        /\ \A f \in 1 .. Len(begin) : begin'[f] = IF f >= w THEN n ELSE begin[f]
    <3>1. begin \in Seq(Int) /\ begin' = [f \in DOMAIN begin |-> IF f >= w THEN n ELSE begin[f]]
      BY <2>2, <2>4
    <3> QED
      BY <2>1, <3>1, RaisedSeq
  <2>7. \A f \in 1 .. Len(end) : f >= w <=> f > writer
    BY <2>1, <2>2
  <2> QED
    BY <2>2, <2>5, <2>6, <2>7 DEF Newest
<1>3. /\ UNCHANGED <<owner, writer, present>>
      /\ end[Newest] < n
  BY DEF Write, Written
<1>4. /\ Newest \in Nat /\ Newest \in 1 .. Newest /\ writer \in 1 .. Newest
      /\ \A f \in 1 .. Newest : /\ begin[f] \in Int /\ end[f] \in Int /\ 0 <= begin[f]
                                /\ begin[f] <= end[f] /\ end[f] <= end[Newest]
  BY FilesTypes
<1>5. \A f \in 1 .. Newest : end[f] < n /\ (f > writer => begin[f] = end[f])
  BY <1>1, <1>3, <1>4 DEF Files
<1>6. Files'
  <2>1. \A f \in 1 .. Newest : 0 <= begin'[f] /\ begin'[f] <= end'[f] /\ end'[f] <= Last
    BY <1>1, <1>2, <1>4, <1>5
  <2>2. \A f, g \in 1 .. Newest : f < g => end'[f] <= begin'[g]
    <3> SUFFICES ASSUME NEW f \in 1 .. Newest, NEW g \in 1 .. Newest, f < g
                 PROVE  end'[f] <= begin'[g]
      OBVIOUS
    <3>1. end[f] <= begin[g]
      BY DEF Files
    <3> QED
      BY <1>1, <1>2, <1>4, <1>5, <3>1
  <2>3. \A f \in 1 .. Newest : f > writer => begin'[f] = end'[f]
    BY <1>2, <1>4
  <2> QED
    BY <1>2, <1>3, <2>1, <2>2, <2>3 DEF Files, Newest
<1>7. Front <= Front'
  BY <1>1, <1>2, <1>3, <1>4, <1>5 DEF Front, Newest
<1>8. \A f \in 1 .. Newest : /\ begin[f] <= begin'[f] /\ end[f] <= end'[f]
                             /\ begin'[f] = begin[f] \/ (begin'[f] = end'[f] /\ begin[f] = end[f])
  BY <1>1, <1>2, <1>4, <1>5
<1>9. \A f \in 1 .. Newest : Size(f) <= Size(f)'
  <2>1. \A f \in 1 .. Newest : begin'[f] \in Int /\ end'[f] \in Int
    BY <1>1, <1>2, <1>4
  <2> QED
    BY <1>4, <1>8, <2>1 DEF Size
<1> QED
  BY <1>2, <1>3, <1>4, <1>6, <1>7, <1>8, <1>9 DEF Grown, Left, Newest

LEMMA CreateStep ==
  ASSUME Files, Create
  PROVE  Files' /\ Grown
<1>1. /\ begin' = Append(begin, end[Newest]) /\ end' = Append(end, end[Newest])
      /\ present' = TRUE /\ ~present /\ owner' = owner
      /\ writer' = IF "late" \in owner THEN writer ELSE Newest + 1
  BY DEF Create, Written
<1>2. /\ begin' \in Seq(Int) /\ end' \in Seq(Int)
      /\ Len(begin') = Newest + 1 /\ Len(end') = Newest + 1
      /\ \A f \in 1 .. Newest : begin'[f] = begin[f] /\ end'[f] = end[f]
      /\ begin'[Newest + 1] = end[Newest] /\ end'[Newest + 1] = end[Newest]
  <2>1. /\ begin \in Seq(Int) /\ end \in Seq(Int) /\ Len(begin) = Len(end)
        /\ Len(end) \in Nat /\ Len(end) \in 1 .. Len(end)
    BY BoundAssumption DEF Files, Newest, File
  <2>2. end[Newest] \in Int
    BY <2>1 DEF Newest
  <2> QED
    BY <1>1, <2>1, <2>2 DEF Newest
<1>3. Newest \in 1 .. Newest /\ Newest \in Nat /\ writer \in 1 .. Newest
  BY FilesTypes
<1>4. \A f \in 1 .. Newest : /\ begin[f] \in Int /\ end[f] \in Int /\ 0 <= begin[f]
                             /\ begin[f] <= end[f] /\ end[f] <= end[Newest] /\ end[f] <= Last
  BY <1>3, FilesTypes
<1>5. Files'
  <2>1. \A f \in 1 .. Newest + 1 : 0 <= begin'[f] /\ begin'[f] <= end'[f] /\ end'[f] <= Last
    <3>1. ASSUME NEW f \in 1 .. Newest
          PROVE  0 <= begin'[f] /\ begin'[f] <= end'[f] /\ end'[f] <= Last
      BY <1>2, <1>4
    <3>2. 0 <= end[Newest] /\ end[Newest] <= Last
      BY <1>3, <1>4, StreamAssumption
    <3> QED
      BY <1>2, <1>3, <3>1, <3>2
  <2>2. \A f, g \in 1 .. Newest + 1 : f < g => end'[f] <= begin'[g]
    <3> SUFFICES ASSUME NEW f \in 1 .. Newest + 1, NEW g \in 1 .. Newest + 1, f < g
                 PROVE  end'[f] <= begin'[g]
      OBVIOUS
    <3>1. f \in 1 .. Newest
      BY <1>3
    <3>2. CASE g = Newest + 1
      BY <1>2, <1>4, <3>1, <3>2
    <3>3. CASE g \in 1 .. Newest
      BY <1>2, <3>1, <3>3 DEF Files
    <3> QED
      BY <1>3, <3>2, <3>3
  <2>3. writer' \in 1 .. Newest + 1
    BY <1>1, <1>3
  <2>4. \A f \in 1 .. Newest + 1 : f > writer' => begin'[f] = end'[f]
    <3> SUFFICES ASSUME NEW f \in 1 .. Newest, f > writer' PROVE begin'[f] = end'[f]
      BY <1>2, <1>3
    <3>1. f > writer
      BY <1>1, <1>3
    <3> QED
      BY <1>2, <3>1 DEF Files
  <2>5. Newest + 1 \in File
    BY <1>1, <1>3, BoundAssumption DEF Files, File
  <2> QED
    BY <1>1, <1>2, <1>3, <2>1, <2>2, <2>3, <2>4, <2>5 DEF Files, Newest
<1>6. Front <= Front'
  BY <1>1, <1>2, <1>3, <1>4 DEF Front, Newest
<1> QED
  BY <1>1, <1>2, <1>3, <1>4, <1>5, <1>6 DEF Grown, Left, Newest

LEMMA TruncateStep ==
  ASSUME Files, Truncate
  PROVE  Files' /\ Grown
<1>1. /\ Newest \in Nat /\ Newest \in 1 .. Newest /\ writer \in 1 .. Newest
      /\ \A f \in 1 .. Newest : /\ begin[f] \in Int /\ end[f] \in Int /\ 0 <= begin[f]
                                /\ begin[f] <= end[f] /\ end[f] <= Last
  BY FilesTypes
<1>2. /\ begin' = [begin EXCEPT ![Newest] = end[Newest]]
      /\ UNCHANGED <<owner, end, writer, present>>
      /\ "truncate" \in owner /\ present
  BY DEF Truncate
<1>3. /\ begin' \in Seq(Int) /\ Len(begin') = Newest
      /\ begin'[Newest] = end[Newest]
      /\ \A f \in 1 .. Newest : f # Newest => begin'[f] = begin[f]
  <2>1. begin \in Seq(Int) /\ Len(begin) = Newest /\ Newest \in 1 .. Len(begin)
    BY <1>1 DEF Files
  <2> QED
    BY <1>1, <1>2, <2>1
<1>4. Files'
  <2>1. \A f \in 1 .. Newest : 0 <= begin'[f] /\ begin'[f] <= end'[f] /\ end'[f] <= Last
    BY <1>1, <1>2, <1>3
  <2>2. \A f, g \in 1 .. Newest : f < g => end'[f] <= begin'[g]
    <3> SUFFICES ASSUME NEW f \in 1 .. Newest, NEW g \in 1 .. Newest, f < g
                 PROVE  end[f] <= begin'[g]
      BY <1>2
    <3>1. end[f] <= begin[g] /\ begin[g] <= end[g]
      BY <1>1 DEF Files
    <3> QED
      BY <1>1, <1>3, <3>1
  <2>3. \A f \in 1 .. Newest : f > writer => begin'[f] = end'[f]
    BY <1>2, <1>3 DEF Files
  <2> QED
    BY <1>1, <1>2, <1>3, <2>1, <2>2, <2>3 DEF Files, Newest
<1> QED
  BY <1>1, <1>2, <1>3, <1>4 DEF Grown, Left, Front, Newest

LEMMA SameFilesStep ==
  ASSUME Files, Rename \/ Reopen \/ (\E f \in File : Delete(f))
  PROVE  Files' /\ Grown
<1>1. /\ UNCHANGED <<owner, begin, end>>
      /\ present' = present \/ (present /\ present' = FALSE /\ Newest < MaxFiles)
      /\ writer' = writer \/ writer' = Newest
  BY DEF Rename, Reopen, Delete
<1>2. /\ Newest \in Nat /\ Newest \in 1 .. Newest /\ writer \in 1 .. Newest
      /\ \A f \in 1 .. Newest : begin[f] \in Int /\ end[f] \in Int /\ begin[f] <= end[f]
  BY FilesTypes
<1>3. Files'
  <2>1. \A f \in 1 .. Newest : f > writer' => begin[f] = end[f]
    BY <1>1, <1>2 DEF Files
  <2>2. present' \in BOOLEAN /\ (~present' => Newest < MaxFiles)
    <3>1. present \in BOOLEAN /\ (~present => Newest < MaxFiles)
      BY DEF Files
    <3> QED
      BY <1>1, <3>1, Zenon
  <2>3. writer' \in 1 .. Newest
    BY <1>1, <1>2
  <2> QED
    BY <1>1, <2>1, <2>2, <2>3 DEF Files, Newest
<1> QED
  BY <1>1, <1>2, <1>3 DEF Grown, Left, Front, Newest, Files

-----------------------------------------------------------------------------
(* What the reader knows stays true while the log grows.                   *)

LEMMA AtGrows ==
  ASSUME NEW D \in SUBSET Pair, NEW o \in Nat,
         NEW b \in Int, NEW e \in Int, NEW b1 \in Int, NEW e1 \in Int,
         At(D, b, e, o), b <= b1, e <= e1, b1 = b \/ b1 = e1
  PROVE  At(D, b1, e1, o)
<1>1. \A y \in D : y[2] \in Int
  BY DEF Pair
<1>2. Upto(D, b1 + o) /\ Upto(D, e1)
  BY <1>1 DEF At, Upto
<1>3. CASE b1 = b
  BY <1>1, <1>2, <1>3 DEF At, Upto
<1>4. CASE b1 = e1
  BY <1>2, <1>4 DEF At
<1> QED
  BY <1>3, <1>4

LEMMA PlaceKept ==
  ASSUME Files, Files', Grown, NEW D \in SUBSET Pair, NEW o \in Nat, NEW f \in 1 .. Newest,
         At(D, begin[f], end[f], o), Fits(begin[f], end[f], o)
  PROVE  At(D, begin'[f], end'[f], o) /\ Fits(begin'[f], end'[f], o)
<1>1. /\ f \in 1 .. Newest' /\ owner' = owner
      /\ begin[f] <= begin'[f] /\ end[f] <= end'[f]
      /\ \/ begin'[f] = begin[f]
         \/ begin'[f] = end'[f] /\ ("truncate" \in owner \/ begin[f] = end[f])
  <2>1. Newest \in Nat /\ Newest' \in Nat
    BY BoundAssumption DEF Files, File
  <2> QED
    BY <2>1 DEF Grown
<1>2. begin[f] \in Int /\ end[f] \in Int /\ begin'[f] \in Int /\ end'[f] \in Int
  <2>1. begin \in Seq(Int) /\ end \in Seq(Int) /\ f \in 1 .. Len(begin) /\ f \in 1 .. Len(end)
    BY DEF Files, Newest
  <2>2. begin' \in Seq(Int) /\ end' \in Seq(Int) /\ f \in 1 .. Len(begin') /\ f \in 1 .. Len(end')
    BY <1>1 DEF Files, Newest
  <2> QED
    BY <2>1, <2>2
<1>3. At(D, begin'[f], end'[f], o)
  BY <1>1, <1>2, AtGrows
<1>4. Fits(begin'[f], end'[f], o)
  BY <1>1, <1>2 DEF Fits
<1> QED
  BY <1>3, <1>4

LEMMA GrownTypes ==
  ASSUME Files, Files', Grown
  PROVE  /\ Newest \in Nat /\ Newest' \in Nat /\ Newest <= Newest'
         /\ \A f \in 1 .. Newest : /\ begin[f] \in Int /\ end[f] \in Int
                                   /\ begin'[f] \in Int /\ end'[f] \in Int
                                   /\ begin[f] <= begin'[f] /\ end[f] <= end'[f]
         /\ Front \in Int /\ Front' \in Int
<1>1. /\ Newest \in Nat /\ Newest' \in Nat /\ Newest <= Newest'
      /\ Newest \in 1 .. Newest /\ Newest' \in 1 .. Newest'
  BY BoundAssumption DEF Files, File, Grown
<1>2. \A f \in 1 .. Newest : begin[f] \in Int /\ end[f] \in Int
  BY FilesTypes
<1>3. \A f \in 1 .. Newest' : begin'[f] \in Int /\ end'[f] \in Int
  <2>1. begin' \in Seq(Int) /\ end' \in Seq(Int) /\ Len(begin') = Newest' /\ Len(end') = Newest'
    BY DEF Files, Newest
  <2> QED
    BY <2>1
<1> QED
  BY <1>1, <1>2, <1>3 DEF Grown, Front

LEMMA RowKept ==
  ASSUME Files, Files', Grown, NEW c \in Row
  PROVE  c \in Row'
BY GrownTypes DEF Row

LEMMA CheckpointKept ==
  ASSUME Files, Files', Grown, delivered \in SUBSET Pair, CheckpointHolds,
         checkpoint' = checkpoint, delivered' = delivered
  PROVE  CheckpointHolds'
<1> DEFINE i == checkpoint.inode
           o == checkpoint.offset
<1>1. checkpoint \in Row /\ checkpoint \in Row'
  BY RowKept DEF CheckpointHolds
<1>2. o \in Nat /\ i \in 0 .. Newest
  BY <1>1, StreamAssumption DEF Row
<1>3. ASSUME i # NoFile
      PROVE  /\ At(delivered, begin'[i], end'[i], o) /\ Fits(begin'[i], end'[i], o)
             /\ checkpoint.source # 0 => Left(i)'
  <2>1. i \in 1 .. Newest
    BY <1>2, <1>3, FilesTypes DEF NoFile
  <2>2. /\ At(delivered, begin[i], end[i], o) /\ Fits(begin[i], end[i], o)
        /\ checkpoint.source # 0 => Left(i)
    BY <1>3 DEF CheckpointHolds
  <2>3. At(delivered, begin'[i], end'[i], o) /\ Fits(begin'[i], end'[i], o)
    BY <1>2, <2>1, <2>2, PlaceKept
  <2> QED
    BY <2>1, <2>2, <2>3 DEF Grown
<1>4. ASSUME i = NoFile
      PROVE  o = 0 /\ checkpoint.source = 0 /\ Upto(delivered, Front')
  <2>1. o = 0 /\ checkpoint.source = 0 /\ Upto(delivered, Front)
    BY <1>4 DEF CheckpointHolds
  <2>2. Front <= Front' /\ Front \in Int /\ Front' \in Int
    BY GrownTypes DEF Grown
  <2> QED
    BY <2>1, <2>2 DEF Upto, Pair
<1>5. ~checkpoint.read => delivered = {}
  BY DEF CheckpointHolds
<1> QED
  BY <1>1, <1>3, <1>4, <1>5 DEF CheckpointHolds, Fits, Grown

LEMMA IdleKept ==
  ASSUME ReaderInv, Files', Grown, pc = "idle", UNCHANGED <<checkpoint, pc, local, delivered>>
  PROVE  ReaderInv'
<1>1. Typed'
  BY RowKept DEF ReaderInv, Typed, local
<1>2. CheckpointHolds'
  BY CheckpointKept DEF ReaderInv, Typed
<1> QED
  BY <1>1, <1>2 DEF ReaderInv, ResolveHolds, ReadHolds, CommitHolds, InOrder

LEMMA PollKept ==
  ASSUME ReaderInv, Files', Grown, Newest' = Newest,
         \A f \in 1 .. Newest : Size(f) <= Size(f)',
         UNCHANGED <<present, gone, checkpoint, pc, local, delivered>>
  PROVE  ReaderInv'
<1>1. Typed'
  BY RowKept DEF ReaderInv, Typed, local
<1>2. CheckpointHolds'
  BY CheckpointKept DEF ReaderInv, Typed
<1>3. Log' = Log /\ Rotated' = Rotated /\ \A f : NameOf(f)' = NameOf(f)
  BY DEF Log, Rotated, NameOf
<1>4. \A f \in 1 .. Newest : /\ Size(f) \in Int /\ Size(f)' \in Int /\ Size(f) <= Size(f)'
                             /\ begin[f] \in Int /\ begin'[f] \in Int /\ begin[f] <= begin'[f]
  BY GrownTypes DEF ReaderInv, Size
<1> PICK l : l = Log
  OBVIOUS
<1> PICK f : f = target.stat.inode
  OBVIOUS
<1>5. l # NoFile => l \in 1 .. Newest
  BY FilesTypes DEF ReaderInv, Log
<1>6. ASSUME pc = "resolve"
      PROVE  /\ cp = checkpoint /\ seen.inode = l
             /\ l # NoFile =>
                  /\ seen.size \in 0 .. Size(l)'
                  /\ cp.inode = l /\ cp.offset > seen.size => Upto(delivered, begin'[l])
  <2>1. /\ cp = checkpoint /\ seen.inode = l
        /\ l # NoFile =>
             /\ seen.size \in 0 .. Size(l)
             /\ cp.inode = l /\ cp.offset > seen.size => Upto(delivered, begin[l])
    BY <1>6 DEF ReaderInv, ResolveHolds
  <2>2. ASSUME l # NoFile PROVE seen.size \in 0 .. Size(l)'
    BY <1>4, <1>5, <2>1, <2>2
  <2>3. ASSUME l # NoFile, Upto(delivered, begin[l]) PROVE Upto(delivered, begin'[l])
    BY <1>4, <1>5, <2>3 DEF Upto, ReaderInv, Typed, Pair
  <2> QED
    BY <2>1, <2>2, <2>3
<1>7. ResolveHolds'
  BY <1>3, <1>6 DEF ResolveHolds, local
<1>8. ASSUME pc \in {"read", "commit"}
      PROVE  /\ f \in 1 .. Newest
             /\ target.stat.size \in 0 .. Size(f)'
             /\ At(delivered, begin'[f], end'[f], target.start)
             /\ Fits(begin'[f], end'[f], target.start)
  <2>1. /\ f \in 1 .. Newest
        /\ target.stat.size \in 0 .. Size(f)
        /\ target.start \in Nat
        /\ At(delivered, begin[f], end[f], target.start)
        /\ Fits(begin[f], end[f], target.start)
    BY <1>8, StreamAssumption DEF ReaderInv, ReadHolds
  <2>2. At(delivered, begin'[f], end'[f], target.start) /\ Fits(begin'[f], end'[f], target.start)
    BY <2>1, PlaceKept DEF ReaderInv, Typed
  <2>3. target.stat.size \in 0 .. Size(f)'
    BY <1>4, <2>1
  <2> QED
    BY <2>1, <2>2, <2>3
<1>9. ReadHolds'
  <2> SUFFICES ASSUME pc \in {"read", "commit"} PROVE ReadHolds'
    BY DEF ReadHolds
  <2>1. /\ target.tail => f \in Rotated' /\ NameOf(f)' = cp.source
        /\ ~target.tail => f = Log'
        /\ target.start \in 0 .. Last
    BY <1>3 DEF ReaderInv, ReadHolds
  <2> QED
    BY <1>8, <2>1 DEF ReadHolds, Fits, Grown, local
<1>10. CommitHolds'
  <2> SUFFICES ASSUME pc = "commit" PROVE CommitHolds'
    BY DEF CommitHolds
  <2> DEFINE D == delivered \cup scan.lines
  <2>1. /\ scan.lines \in SUBSET Pair /\ scan.next \in 0 .. Last /\ scan.discard \in BOOLEAN
        /\ At(D, begin[f], end[f], scan.next)
        /\ Fits(begin[f], end[f], scan.next)
    BY DEF ReaderInv, CommitHolds
  <2>2. D \in SUBSET Pair /\ scan.next \in Nat
    BY <2>1, StreamAssumption DEF ReaderInv, Typed
  <2>3. At(D, begin'[f], end'[f], scan.next) /\ Fits(begin'[f], end'[f], scan.next)
    BY <1>8, <2>1, <2>2, PlaceKept DEF ReaderInv
  <2> QED
    BY <2>1, <2>3 DEF CommitHolds, Fits, Grown, local
<1> QED
  BY <1>1, <1>2, <1>7, <1>9, <1>10 DEF ReaderInv, InOrder, local

-----------------------------------------------------------------------------
(* What a poll does; the log stays as it is meanwhile.                     *)

LEMMA SameDisk ==
  ASSUME ReaderInv, UNCHANGED disk
  PROVE  /\ Files' /\ Grown
         /\ Newest' = Newest /\ Log' = Log /\ Rotated' = Rotated /\ Row' = Row /\ Front' = Front
         /\ \A f : NameOf(f)' = NameOf(f) /\ Size(f)' = Size(f)
<1>1. /\ Newest' = Newest /\ Log' = Log /\ Rotated' = Rotated /\ Row' = Row /\ Front' = Front
      /\ \A f : NameOf(f)' = NameOf(f) /\ Size(f)' = Size(f)
  BY DEF disk, Newest, Log, Rotated, Row, Front, NameOf, Size
<1>2. Files'
  BY DEF ReaderInv, Files, disk, Newest
<1>3. /\ Newest \in Nat /\ Newest \in 1 .. Newest
      /\ \A f \in 1 .. Newest : begin[f] \in Int /\ end[f] \in Int
  BY FilesTypes DEF ReaderInv
<1> QED
  BY <1>1, <1>2, <1>3 DEF Grown, disk, Left, Front

\* The poll ends and stored nothing.
LEMMA NothingStored ==
  ASSUME ReaderInv, Finish, UNCHANGED <<disk, checkpoint, delivered>>
  PROVE  ReaderInv'
<1>1. CheckpointHolds'
  BY CheckpointKept, SameDisk DEF ReaderInv, Typed
<1>2. Typed'
  BY SameDisk, StreamAssumption, BoundAssumption, FilesTypes
     DEF ReaderInv, Typed, Finish, FreshCheckpoint, Row, NoFile
<1> QED
  BY <1>1, <1>2, SameDisk
     DEF ReaderInv, Finish, ResolveHolds, ReadHolds, CommitHolds, InOrder

LEMMA PollStep ==
  ASSUME ReaderInv, Poll
  PROVE  ReaderInv'
<1>1. CheckpointHolds'
  BY CheckpointKept, SameDisk DEF ReaderInv, Typed, Poll, history
<1>2. Typed'
  BY SameDisk DEF ReaderInv, Typed, Poll, history, CheckpointHolds
<1> PICK l : l = Log
  OBVIOUS
<1>3. ASSUME l # NoFile
      PROVE  /\ seen'.size \in 0 .. Size(l)
             /\ checkpoint.inode = l /\ checkpoint.offset > seen'.size => Upto(delivered, begin[l])
  <2>1. l \in 1 .. Newest
    BY <1>3, FilesTypes DEF ReaderInv, Log
  <2>2. Size(l) \in Nat
    BY <2>1, FilesTypes DEF ReaderInv, Size
  <2>3. seen'.size = Size(l)
    BY <1>3 DEF Poll, Stat
  <2> QED
    BY <1>3, <2>2, <2>3 DEF ReaderInv, CheckpointHolds, At, Size
<1>4. seen'.inode = l /\ cp' = checkpoint
  BY DEF Poll, Stat
<1>5. ResolveHolds'
  BY <1>3, <1>4, SameDisk DEF ResolveHolds, Poll, disk, history
<1> QED
  BY <1>1, <1>2, <1>5, SameDisk DEF ReaderInv, Poll, ReadHolds, CommitHolds, InOrder

\* It is decided what to read.
LEMMA ToRead ==
  ASSUME ReaderInv, UNCHANGED <<disk, checkpoint, delivered>>, pc' = "read", cp' \in Row,
         NEW f \in 1 .. Newest, target'.stat.inode = f, target'.stat.size \in 0 .. Size(f),
         target'.tail => f \in Rotated /\ NameOf(f) = cp'.source,
         ~target'.tail => f = Log,
         target'.start \in 0 .. Last,
         At(delivered, begin[f], end[f], target'.start),
         Fits(begin[f], end[f], target'.start)
  PROVE  ReaderInv'
<1>1. CheckpointHolds' /\ Typed'
  BY CheckpointKept, SameDisk DEF ReaderInv, Typed
<1>2. ReadHolds'
  <2>1. /\ f \in 1 .. Newest' /\ f \in 1 .. Newest
        /\ target'.stat.size \in 0 .. Size(f)'
        /\ target'.tail => f \in Rotated' /\ NameOf(f)' = cp'.source
        /\ ~target'.tail => f = Log'
    BY SameDisk
  <2>2. /\ At(delivered', begin'[f], end'[f], target'.start)
        /\ Fits(begin[f], end[f], target'.start) <=> Fits(begin'[f], end'[f], target'.start)
        /\ owner' = owner
    BY DEF disk
  <2> QED
    BY <2>1, <2>2 DEF ReadHolds, Fits
<1> QED
  BY <1>1, <1>2, SameDisk DEF ReaderInv, ResolveHolds, CommitHolds, InOrder

LEMMA NamedIsRotated ==
  ASSUME NEW n, FileNamed(n) # NoFile
  PROVE  FileNamed(n) \in Rotated /\ NameOf(FileNamed(n)) = n
BY DEF FileNamed

LEMMA RotatedIsNamed ==
  ASSUME Files, NEW f \in Rotated
  PROVE  /\ f \in 1 .. Newest /\ Left(f)
         /\ NameOf(f) \in 0 .. MaxFiles /\ NameOf(f) # 0
         /\ FileNamed(NameOf(f)) = f
<1>1. /\ Newest \in Nat /\ f \in 1 .. Newest /\ present \in BOOLEAN
      /\ MaxFiles \in Nat /\ Newest <= MaxFiles
  BY BoundAssumption DEF Files, File, Rotated
<1>2. Left(f) /\ f <= Newest
  BY <1>1 DEF Left, Rotated, Log
<1>3. NameOf(f) \in 0 .. MaxFiles /\ NameOf(f) # 0
  BY <1>1, <1>2 DEF NameOf, Left
<1>4. \A g \in Rotated : NameOf(g) = NameOf(f) => g = f
  BY <1>1 DEF NameOf, Rotated
<1>5. FileNamed(NameOf(f)) \in Rotated /\ NameOf(FileNamed(NameOf(f))) = NameOf(f)
  <2> DEFINE S == {g \in Rotated : NameOf(g) = NameOf(f)}
  <2>1. \E g \in Rotated : NameOf(g) = NameOf(f)
    OBVIOUS
  <2> QED
    BY <2>1 DEF FileNamed
<1> QED
  BY <1>1, <1>2, <1>3, <1>4, <1>5

\* What a poll knows when it chooses what to read.
LEMMA Resolving ==
  ASSUME ReaderInv, pc = "resolve"
  PROVE  /\ cp = checkpoint /\ cp \in Row /\ Files /\ delivered \in SUBSET Pair
         /\ Newest \in Nat /\ Newest \in 1 .. Newest /\ Last \in Nat
         /\ cp.inode # NoFile =>
              /\ cp.inode \in 1 .. Newest
              /\ At(delivered, begin[cp.inode], end[cp.inode], cp.offset)
              /\ Fits(begin[cp.inode], end[cp.inode], cp.offset)
              /\ cp.source # 0 => Left(cp.inode)
         /\ cp.inode = NoFile => cp.offset = 0 /\ cp.source = 0 /\ Upto(delivered, Front)
         /\ ~cp.read => delivered = {}
         /\ seen.inode # NoFile =>
              /\ seen.inode = Newest /\ present /\ Log = Newest
              /\ seen.size \in 0 .. Size(Newest) /\ Size(Newest) <= Last
              /\ cp.inode = Newest /\ cp.offset > seen.size => Upto(delivered, begin[Newest])
<1>1. /\ cp = checkpoint /\ cp \in Row /\ Files /\ delivered \in SUBSET Pair
      /\ Newest \in Nat /\ Newest \in 1 .. Newest /\ Last \in Nat
      /\ begin[Newest] \in Int /\ end[Newest] \in Int /\ 0 <= begin[Newest] /\ end[Newest] <= Last
  BY FilesTypes, StreamAssumption DEF ReaderInv, Typed, ResolveHolds
<1>2. /\ cp.inode # NoFile =>
           /\ At(delivered, begin[cp.inode], end[cp.inode], cp.offset)
           /\ Fits(begin[cp.inode], end[cp.inode], cp.offset)
           /\ cp.source # 0 => Left(cp.inode)
      /\ cp.inode = NoFile => cp.offset = 0 /\ cp.source = 0 /\ Upto(delivered, Front)
      /\ ~cp.read => delivered = {}
  BY <1>1 DEF ReaderInv, CheckpointHolds
<1>3. cp.inode # NoFile => cp.inode \in 1 .. Newest
  BY <1>1 DEF Row, NoFile
<1>4. seen.inode = Log /\ (seen.inode # NoFile => Log = Newest /\ present)
  BY DEF ReaderInv, ResolveHolds, Log
<1>5. seen.inode # NoFile =>
        /\ seen.size \in 0 .. Size(Newest)
        /\ cp.inode = Newest /\ cp.offset > seen.size => Upto(delivered, begin[Newest])
  BY <1>4 DEF ReaderInv, ResolveHolds
<1>6. Size(Newest) <= Last
  BY <1>1 DEF Size
<1> QED
  BY <1>1, <1>2, <1>3, <1>4, <1>5, <1>6

LEMMA EmptyPassed ==
  ASSUME NEW b, NEW e, NEW o
  PROVE  At({}, b, e, o)
BY DEF At, Upto

\* A file of which nothing is done with yet.
LEMMA UntouchedFile ==
  ASSUME Files, NEW f \in 1 .. Newest, NEW D \in SUBSET Pair, Upto(D, begin[f])
  PROVE  At(D, begin[f], end[f], 0) /\ Fits(begin[f], end[f], 0)
<1>1. begin[f] \in Int /\ end[f] \in Int /\ begin[f] <= end[f]
  BY FilesTypes
<1> QED
  BY <1>1 DEF At, Fits, Upto, Pair

\* What was stored from a renamed file lies before the newest one.
LEMMA BeforeNewest ==
  ASSUME Files, present, NEW f \in 1 .. Newest, Left(f), NEW D \in SUBSET Pair, Upto(D, end[f])
  PROVE  Upto(D, begin[Newest])
<1>1. /\ f < Newest /\ Newest \in 1 .. Newest
      /\ end[f] \in Int /\ begin[Newest] \in Int
  BY FilesTypes DEF Left
<1>2. end[f] <= begin[Newest]
  BY <1>1 DEF Files
<1> QED
  BY <1>1, <1>2 DEF Upto, Pair

LEMMA ForgetRow ==
  ASSUME Files, cp \in Row
  PROVE  Forget \in Row
<1>1. 0 \in 0 .. Newest /\ 0 \in 0 .. Last /\ 0 \in 0 .. MaxFiles /\ FALSE \in BOOLEAN
  BY FilesTypes, StreamAssumption, BoundAssumption
<1> QED
  BY <1>1 DEF Forget, Row, NoFile

LEMMA MovedRow ==
  ASSUME NEW c \in Row, NEW o \in 0 .. Last, NEW d \in BOOLEAN
  PROVE  [c EXCEPT !.offset = o, !.discard = d] \in Row
BY DEF Row

LEMMA ResumeTailStep ==
  ASSUME ReaderInv, ResumeTail
  PROVE  ReaderInv'
<1> PICK f : f = cp.inode
  OBVIOUS
<1>1. pc = "resolve" /\ f \in Rotated /\ NameOf(f) = cp.source /\ f # NoFile
  BY NamedIsRotated DEF ResumeTail, Resumable
<1>2. /\ f \in 1 .. Newest /\ cp \in Row
      /\ At(delivered, begin[f], end[f], cp.offset) /\ Fits(begin[f], end[f], cp.offset)
  BY <1>1, Resolving
<1>3. /\ cp' = cp /\ pc' = "read" /\ UNCHANGED <<disk, checkpoint, delivered>>
      /\ target' = [stat |-> Stat(f), start |-> cp.offset, tail |-> TRUE, gap |-> -1]
  BY DEF ResumeTail, ReadFrom, history
<1>4. /\ Stat(f).inode = f /\ Stat(f).size \in 0 .. Size(f)
  BY <1>1, <1>2, FilesTypes DEF Stat, Size, ReaderInv
<1>5. cp.offset \in 0 .. Last
  BY <1>2 DEF Row
<1> QED
  BY <1>1, <1>2, <1>3, <1>4, <1>5, ToRead

LEMMA ResolveClippedStep ==
  ASSUME ReaderInv, ResolveClipped
  PROVE  ReaderInv'
<1> PICK o : o = seen.size - Bootstrap
  OBVIOUS
<1>1. pc = "resolve" /\ seen.inode # NoFile /\ ~cp.read /\ seen.size > Bootstrap
  BY DEF ResolveClipped, Clipped
<1>2. /\ seen.inode = Newest /\ Log = Newest /\ Newest \in 1 .. Newest /\ cp \in Row
      /\ seen.size \in 0 .. Size(Newest) /\ Size(Newest) <= Last
      /\ delivered = {} /\ Last \in Nat
  BY <1>1, Resolving
<1>3. o \in 0 .. Last /\ o <= Size(Newest)
  BY <1>1, <1>2, LimitAssumption, FilesTypes DEF Size, ReaderInv
<1>4. /\ cp' = [Resumed EXCEPT !.offset = o, !.discard = TRUE]
      /\ pc' = "read" /\ UNCHANGED <<disk, checkpoint, delivered>>
      /\ target'.stat = seen /\ target'.start = o /\ target'.tail = FALSE
  BY DEF ResolveClipped, ReadFrom, history
<1>5. cp' \in Row
  <2>1. Resumed \in Row
    BY <1>2, ForgetRow DEF Resumed, ReaderInv
  <2> QED
    BY <1>3, <1>4, <2>1, MovedRow
<1>6. At(delivered, begin[Newest], end[Newest], o) /\ Fits(begin[Newest], end[Newest], o)
  BY <1>2, <1>3, EmptyPassed DEF Fits, Size
<1> QED
  BY <1>2, <1>3, <1>4, <1>5, <1>6, ToRead

LEMMA ResolveTailStep ==
  ASSUME ReaderInv, ResolveTail
  PROVE  ReaderInv'
<1> PICK f : f = cp.inode
  OBVIOUS
<1> PICK n : n = NameOf(f)
  OBVIOUS
<1>1. pc = "resolve" /\ f \in Rotated
  BY DEF ResolveTail
<1>2. f \in 1 .. Newest /\ n \in 0 .. MaxFiles /\ f # NoFile
  BY <1>1, RotatedIsNamed, FilesTypes DEF ReaderInv, NoFile
<1>3. /\ cp \in Row
      /\ At(delivered, begin[f], end[f], cp.offset) /\ Fits(begin[f], end[f], cp.offset)
  BY <1>1, <1>2, Resolving
<1>4. /\ cp' = [cp EXCEPT !.source = n] /\ pc' = "read" /\ UNCHANGED <<disk, checkpoint, delivered>>
      /\ target' = [stat |-> Stat(f), start |-> cp.offset, tail |-> TRUE, gap |-> -1]
  BY DEF ResolveTail, ReadFrom, history
<1>5. cp' \in Row /\ cp'.source = n /\ cp.offset \in 0 .. Last
  BY <1>2, <1>3, <1>4 DEF Row
<1>6. Stat(f).inode = f /\ Stat(f).size \in 0 .. Size(f)
  BY <1>2, FilesTypes DEF Stat, Size, ReaderInv
<1> QED
  BY <1>1, <1>2, <1>3, <1>4, <1>5, <1>6, ToRead

LEMMA ResolveLostStep ==
  ASSUME ReaderInv, ResolveLost
  PROVE  ReaderInv'
<1> PICK f : f = cp.inode
  OBVIOUS
<1>1. pc = "resolve" /\ seen.inode # NoFile /\ Resumed.inode # NoFile /\ Resumed.inode # seen.inode
  BY DEF ResolveLost, Rotation
<1>2. cp.inode = f /\ f # NoFile /\ f # seen.inode
  BY <1>1, Resolving DEF Resumed, Forget, Row, NoFile
<1>3. /\ seen.inode = Newest /\ Log = Newest /\ present /\ Newest \in 1 .. Newest /\ cp \in Row
      /\ seen.size \in 0 .. Size(Newest) /\ Files /\ delivered \in SUBSET Pair
      /\ f \in 1 .. Newest /\ At(delivered, begin[f], end[f], cp.offset) /\ Newest \in Nat
  BY <1>1, <1>2, Resolving
<1>4. Upto(delivered, begin[Newest])
  BY <1>2, <1>3, BeforeNewest DEF At, Left
<1>5. At(delivered, begin[Newest], end[Newest], 0) /\ Fits(begin[Newest], end[Newest], 0)
  BY <1>3, <1>4, UntouchedFile
<1>6. /\ cp' = Forget /\ pc' = "read" /\ UNCHANGED <<disk, checkpoint, delivered>>
      /\ target'.stat = seen /\ target'.start = 0 /\ target'.tail = FALSE
  BY DEF ResolveLost, ReadFrom, history
<1>7. cp' \in Row /\ 0 \in 0 .. Last
  BY <1>3, <1>6, ForgetRow, StreamAssumption
<1> QED
  BY <1>3, <1>5, <1>6, <1>7, ToRead

LEMMA ResolveLogStep ==
  ASSUME ReaderInv, ResolveLog
  PROVE  ReaderInv'
<1> PICK o : o = Resumed.offset
  OBVIOUS
<1>1. /\ pc = "resolve" /\ seen.inode # NoFile
      /\ Resumed.inode = NoFile \/ Resumed.inode = seen.inode
  BY DEF ResolveLog, Rotation
<1>2. /\ seen.inode = Newest /\ Log = Newest /\ present /\ Newest \in 1 .. Newest /\ cp \in Row
      /\ seen.size \in 0 .. Size(Newest) /\ Files /\ delivered \in SUBSET Pair /\ Newest \in Nat
      /\ Last \in Nat /\ Size(Newest) <= Last
  BY <1>1, Resolving
<1>3. /\ Resumed \in Row /\ o \in 0 .. Last /\ 0 \in 0 .. Last
      /\ [Resumed EXCEPT !.offset = 0, !.discard = FALSE] \in Row
  <2>1. Resumed \in Row
    BY <1>2, ForgetRow DEF Resumed
  <2>2. o \in 0 .. Last /\ 0 \in 0 .. Last
    BY <1>2, <2>1 DEF Row
  <2> QED
    BY <2>1, <2>2, MovedRow
<1>4. \/ /\ o = 0 /\ Upto(delivered, begin[Newest])
      \/ /\ At(delivered, begin[Newest], end[Newest], o) /\ o <= seen.size
      \/ /\ o > seen.size /\ Upto(delivered, begin[Newest])
  <2>1. CASE cp.source # 0
    <3>1. cp.inode # NoFile /\ cp.inode \in 1 .. Newest /\ Left(cp.inode)
          /\ Upto(delivered, end[cp.inode])
      BY <1>1, <2>1, Resolving DEF At
    <3>2. o = 0
      BY <1>2, <2>1 DEF Resumed, Forget, Row
    <3> QED
      BY <1>2, <3>1, <3>2, BeforeNewest
  <2>2. CASE cp.source = 0 /\ cp.inode = NoFile
    BY <1>1, <1>2, <2>2, Resolving DEF Resumed, Front
  <2>3. CASE cp.source = 0 /\ cp.inode # NoFile
    <3>1. cp.inode = Newest /\ o = cp.offset
      BY <1>1, <1>2, <2>3 DEF Resumed
    <3>2. /\ At(delivered, begin[Newest], end[Newest], o)
          /\ o > seen.size => Upto(delivered, begin[Newest])
      BY <1>1, <1>2, <2>3, <3>1, Resolving
    <3>3. o <= seen.size \/ o > seen.size
      BY <1>2, <1>3
    <3> QED
      BY <3>2, <3>3
  <2> QED
    BY <2>1, <2>2, <2>3
<1>5. /\ pc' = "read" /\ UNCHANGED <<disk, checkpoint, delivered>>
      /\ target'.stat = seen /\ target'.tail = FALSE
      /\ \/ o > seen.size /\ cp' \in Row /\ target'.start = 0
         \/ o <= seen.size /\ cp' \in Row /\ target'.start = o
  BY <1>2, <1>3 DEF ResolveLog, ReadFrom, history
<1>6. /\ At(delivered, begin[Newest], end[Newest], target'.start)
      /\ Fits(begin[Newest], end[Newest], target'.start)
  <2>1. Upto(delivered, begin[Newest]) => /\ At(delivered, begin[Newest], end[Newest], 0)
                                          /\ Fits(begin[Newest], end[Newest], 0)
    BY <1>2, UntouchedFile
  <2>2. o <= seen.size => Fits(begin[Newest], end[Newest], o)
    BY <1>2, <1>3, FilesTypes DEF Fits, Size
  <2> QED
    BY <1>2, <1>3, <1>4, <1>5, <2>1, <2>2
<1> QED
  BY <1>2, <1>3, <1>5, <1>6, ToRead

\* What a poll knows when it reads.
LEMMA Reading ==
  ASSUME ReaderInv, pc \in {"read", "commit"}, NEW f, f = target.stat.inode
  PROVE  /\ f \in 1 .. Newest /\ Files /\ cp \in Row /\ delivered \in SUBSET Pair
         /\ target.stat.size \in Nat /\ target.stat.size <= Size(f)
         /\ target.tail => f \in Rotated /\ NameOf(f) = cp.source
         /\ ~target.tail => f = Log
         /\ target.start \in 0 .. Last /\ target.start \in Nat /\ Last \in Nat
         /\ At(delivered, begin[f], end[f], target.start)
         /\ Fits(begin[f], end[f], target.start)
         /\ begin[f] \in Int /\ end[f] \in Int
         /\ 0 <= begin[f] /\ begin[f] <= end[f] /\ end[f] <= Last
<1>1. /\ f \in 1 .. Newest /\ Files /\ cp \in Row /\ delivered \in SUBSET Pair
      /\ target.stat.size \in 0 .. Size(f)
      /\ target.tail => f \in Rotated /\ NameOf(f) = cp.source
      /\ ~target.tail => f = Log
      /\ target.start \in 0 .. Last
      /\ At(delivered, begin[f], end[f], target.start)
      /\ Fits(begin[f], end[f], target.start)
  BY DEF ReaderInv, ReadHolds, Typed
<1>2. /\ begin[f] \in Int /\ end[f] \in Int
      /\ 0 <= begin[f] /\ begin[f] <= end[f] /\ end[f] <= Last
  BY <1>1, FilesTypes
<1> QED
  BY <1>1, <1>2, StreamAssumption DEF Size

\* It is decided what to commit.
LEMMA ToCommit ==
  ASSUME ReaderInv, pc = "read", pc' = "commit",
         UNCHANGED <<disk, checkpoint, cp, seen, target, delivered>>,
         NEW f, f = target.stat.inode,
         scan'.lines \in SUBSET Pair, scan'.next \in 0 .. Last, scan'.discard \in BOOLEAN,
         At(delivered \cup scan'.lines, begin[f], end[f], scan'.next),
         Fits(begin[f], end[f], scan'.next),
         \A x \in scan'.lines, y \in delivered : y[2] < x[1]
  PROVE  ReaderInv'
<1>1. CheckpointHolds' /\ Typed'
  BY CheckpointKept, SameDisk DEF ReaderInv, Typed
<1>2. ReadHolds'
  <2>1. /\ f \in 1 .. Newest'
        /\ target.stat.size \in 0 .. Size(f)'
        /\ target.tail => f \in Rotated' /\ NameOf(f)' = cp.source
        /\ ~target.tail => f = Log'
        /\ target.start \in 0 .. Last
        /\ At(delivered, begin[f], end[f], target.start)
        /\ Fits(begin[f], end[f], target.start)
    BY SameDisk DEF ReaderInv, ReadHolds
  <2> QED
    BY <2>1 DEF ReadHolds, Fits, disk
<1>3. CommitHolds'
  BY DEF CommitHolds, Fits, disk
<1> QED
  BY <1>1, <1>2, <1>3, SameDisk DEF ReaderInv, ResolveHolds, InOrder

LEMMA ReadNothingStep ==
  ASSUME ReaderInv, ReadNothing
  PROVE  ReaderInv'
<1> PICK f : f = target.stat.inode
  OBVIOUS
<1>1. /\ pc = "read" /\ pc' = "commit"
      /\ UNCHANGED <<disk, checkpoint, cp, seen, target, delivered>>
      /\ scan'.lines = {} /\ scan'.next = target.start /\ scan'.discard = cp.discard
  BY DEF ReadNothing, NoScan, history
<1>2. /\ cp \in Row /\ target.start \in 0 .. Last
      /\ At(delivered, begin[f], end[f], target.start) /\ Fits(begin[f], end[f], target.start)
  BY <1>1, Reading
<1>3. scan'.discard \in BOOLEAN
  BY <1>1, <1>2 DEF Row
<1>4. delivered \cup scan'.lines = delivered /\ scan'.lines \in SUBSET Pair
  BY <1>1
<1> QED
  BY <1>1, <1>2, <1>3, <1>4, ToCommit

\* The file that is opened is the one the stat was of.
LEMMA OpensTarget ==
  ASSUME ReaderInv, pc = "read"
  PROVE  Opened = target.stat.inode
<1> PICK f : f = target.stat.inode
  OBVIOUS
<1>1. CASE target.tail
  BY <1>1, Reading, RotatedIsNamed DEF Opened
<1>2. CASE ~target.tail
  BY <1>2, Reading DEF Opened
<1> QED
  BY <1>1, <1>2

LEMMA ReadChunkStep ==
  ASSUME ReaderInv, ReadChunk
  PROVE  ReaderInv'
<1> PICK f : f = target.stat.inode
  OBVIOUS
<1> DEFINE from == begin[f] + target.start
           least == MinOf({from + Available, end[f]})
           to == MaxOf({from, least})
           atEof == target.tail /\ target.start + (to - from) >= target.stat.size
<1>1. pc = "read" /\ Opened = f
  BY OpensTarget DEF ReadChunk
<1>2. /\ f \in 1 .. Newest /\ cp \in Row /\ delivered \in SUBSET Pair
      /\ target.stat.size \in Nat
      /\ target.start \in 0 .. Last /\ target.start \in Nat /\ Last \in Nat
      /\ At(delivered, begin[f], end[f], target.start)
      /\ Fits(begin[f], end[f], target.start)
      /\ begin[f] \in Int /\ end[f] \in Int
      /\ 0 <= begin[f] /\ begin[f] <= end[f] /\ end[f] <= Last
  BY <1>1, Reading
<1>3. Available \in Nat /\ from \in 0 .. 2 * Last /\ from \in Nat
  BY <1>2, LimitAssumption DEF Available
<1>4. least \in Nat /\ least <= end[f]
  <2> DEFINE S == {from + Available, end[f]}
  <2>1. S \in SUBSET Nat /\ S # {}
    BY <1>2, <1>3
  <2>2. MinOf(S) \in S /\ \A y \in S : MinOf(S) <= y
    BY <2>1, MinOfIsLeast
  <2> QED
    BY <2>1, <2>2
<1>5. to \in 0 .. 2 * Last /\ from <= to /\ to \in {from, least}
  <2> DEFINE S == {from, least}
  <2>1. S \in SUBSET (0 .. 2 * Last) /\ S # {} /\ 2 * Last \in Nat
    <3> HIDE DEF from, least
    <3> QED
      BY <1>2, <1>3, <1>4
  <2>2. MaxOf(S) \in S /\ \A y \in S : y <= MaxOf(S)
    BY <2>1, MaxOfIsGreatest
  <2> QED
    BY <2>1, <2>2
<1> DEFINE r == Scan[<<from, to, cp.discard, atEof>>]
<1>6. ScanResult(from, to, r)
  <2>1. atEof \in BOOLEAN /\ cp.discard \in BOOLEAN
    BY <1>2 DEF Row
  <2> HIDE DEF from, to, atEof
  <2>2. r = Scanned(from, to, cp.discard, atEof)
    BY <1>3, <1>5, <2>1 DEF Scan
  <2> QED
    BY <1>3, <1>5, <2>1, <2>2, ScanLemma
<1>7. /\ scan' = [r EXCEPT !.next = target.start + (r.next - from)]
      /\ pc' = "commit" /\ UNCHANGED <<disk, checkpoint, cp, seen, target, delivered>>
  BY <1>1 DEF ReadChunk, history
<1> HIDE DEF to, least, atEof, r
<1>8. /\ scan'.lines = r.lines /\ scan'.discard = r.discard
      /\ scan'.next = target.start + (r.next - from)
  <2>1. r = [lines |-> r.lines, next |-> r.next, discard |-> r.discard, oversized |-> r.oversized]
    BY <1>6 DEF ScanResult
  <2> QED
    BY <1>7, <2>1
<1>9. /\ r.next \in from .. to /\ r.discard \in BOOLEAN /\ r.lines \in SUBSET Pair
      /\ r.next \in Nat /\ to \in Nat
      /\ \A x \in r.lines : x[1] \in Int /\ x[2] \in Int
                            /\ from < x[1] /\ x[1] <= x[2] /\ x[2] <= r.next
  BY <1>3, <1>5, <1>6 DEF ScanResult, Pair
<1>10. \A y \in delivered : y[2] \in Int /\ y[2] <= from /\ y[2] <= end[f]
  BY <1>2 DEF At, Upto, Pair
\* Past the end of the file nothing is read.
<1>11. CASE from > end[f]
  <2>1. to = from /\ r.next = from /\ r.lines = {}
    BY <1>2, <1>3, <1>4, <1>5, <1>9, <1>11
  <2>2. scan'.next = target.start /\ delivered \cup scan'.lines = delivered /\ scan'.lines = {}
    BY <1>2, <1>3, <1>8, <2>1
  <2> QED
    BY <1>1, <1>2, <1>7, <1>8, <1>9, <2>2, ToCommit
<1>12. CASE from <= end[f]
  <2>1. to <= end[f] /\ r.next <= end[f]
    BY <1>2, <1>3, <1>4, <1>5, <1>9, <1>12
  <2>2. /\ scan'.next \in 0 .. Last /\ scan'.next <= end[f] - begin[f]
        /\ begin[f] + scan'.next = r.next /\ r.next >= from
    BY <1>2, <1>3, <1>8, <1>9, <2>1
  <2>3. At(delivered \cup scan'.lines, begin[f], end[f], scan'.next)
    <3>1. \A y \in delivered \cup r.lines : y[2] <= r.next /\ y[2] <= end[f]
      BY <1>2, <1>3, <1>9, <1>10, <2>1, <2>2
    <3> QED
      BY <1>2, <1>8, <2>2, <3>1 DEF At, Upto
  <2>4. \A x \in scan'.lines, y \in delivered : y[2] < x[1]
    BY <1>3, <1>8, <1>9, <1>10
  <2>5. Fits(begin[f], end[f], scan'.next)
    BY <2>2 DEF Fits
  <2> QED
    BY <1>1, <1>7, <1>8, <1>9, <2>2, <2>3, <2>4, <2>5, ToCommit
<1> QED
  BY <1>2, <1>3, <1>11, <1>12

LEMMA CommitStep ==
  ASSUME ReaderInv, Commit
  PROVE  ReaderInv'
<1> PICK f : f = target.stat.inode
  OBVIOUS
<1> DEFINE D == delivered \cup scan.lines
<1>1. /\ pc = "commit" /\ Finish /\ delivered' = D /\ UNCHANGED disk
      /\ checkpoint' = IF Drained THEN [Forget EXCEPT !.read = TRUE]
                       ELSE [inode   |-> f,
                             offset  |-> scan.next,
                             discard |-> scan.discard,
                             source  |-> IF target.tail THEN cp.source ELSE 0,
                             read    |-> TRUE]
  BY DEF Commit
<1>2. /\ f \in 1 .. Newest /\ Files /\ cp \in Row /\ delivered \in SUBSET Pair
      /\ target.tail => f \in Rotated /\ Left(f)
      /\ begin[f] \in Int /\ end[f] \in Int
  BY <1>1, Reading, RotatedIsNamed
<1>3. /\ scan.lines \in SUBSET Pair /\ scan.next \in 0 .. Last /\ scan.discard \in BOOLEAN
      /\ At(D, begin[f], end[f], scan.next) /\ Fits(begin[f], end[f], scan.next)
      /\ D \in SUBSET Pair
  BY <1>1, <1>2 DEF ReaderInv, CommitHolds
<1>4. Typed'
  BY <1>1, <1>3, SameDisk, StreamAssumption, BoundAssumption, FilesTypes
     DEF ReaderInv, Typed, Finish, FreshCheckpoint, Row, NoFile
<1>5. CheckpointHolds'
  <2>1. CASE Drained
    <3>1. Left(f) /\ Upto(D, end[f])
      BY <1>2, <1>3, <2>1 DEF Drained, At
    <3>2. Upto(D, Front)
      <4>1. CASE present
        BY <1>2, <1>3, <3>1, <4>1, BeforeNewest DEF Front
      <4>2. CASE ~present
        <5>1. end[f] <= end[Newest] /\ end[Newest] \in Int
          BY <1>2, FilesTypes
        <5> QED
          BY <1>2, <1>3, <3>1, <4>2, <5>1 DEF Front, Upto, Pair
      <4> QED
        BY <4>1, <4>2
    <3>3. /\ checkpoint' \in Row /\ checkpoint'.inode = NoFile /\ checkpoint'.offset = 0
          /\ checkpoint'.source = 0 /\ checkpoint'.read = TRUE
      <4>1. Forget \in Row
        BY <1>2, ForgetRow
      <4> QED
        BY <1>1, <2>1, <4>1 DEF Forget, Row
    <3> QED
      BY <1>1, <3>2, <3>3, SameDisk DEF CheckpointHolds
  <2>2. CASE ~Drained
    <3>1. /\ checkpoint'.inode = f /\ checkpoint'.offset = scan.next /\ checkpoint'.read = TRUE
          /\ checkpoint'.source # 0 => target.tail
          /\ checkpoint' \in Row
      BY <1>1, <1>2, <1>3, <2>2, BoundAssumption DEF Row
    <3>2. f # NoFile /\ begin' = begin /\ end' = end /\ owner' = owner /\ present' = present
      BY <1>1, <1>2, FilesTypes DEF disk, NoFile
    <3> QED
      BY <1>1, <1>2, <1>3, <3>1, <3>2, SameDisk DEF CheckpointHolds, Fits, Left
  <2> QED
    BY <2>1, <2>2
<1> QED
  BY <1>1, <1>4, <1>5, SameDisk
     DEF ReaderInv, Finish, ResolveHolds, ReadHolds, CommitHolds, InOrder

-----------------------------------------------------------------------------
(* A calm log, only appended to and rotated between records: the inductive *)
(* invariant of the exact delivery.                                        *)

Starts == {0} \cup Newline

\* A reader at byte P stores from byte a on the records it meets; with d it
\* drops what is left of the record it is in, which is one that begins before a
\* or was counted as oversized.
Placed(a, P, d) ==
  /\ a \in Starts /\ P \in 0 .. Last /\ d \in BOOLEAN
  /\ \A q \in Newline : P < q => a <= P \/ a <= q
  /\ ~d => (P \in Starts \/ P + 1 \in Newline) /\ a <= P + 1
  /\ d /\ a <= P =>
       \A q \in Newline : P < q /\ Before(q) <= P => Before(q) < P /\ MaxLine < q - 1 - Before(q)

\* It stored exactly those records, and counted the oversized ones.
Exact(a, D, n, P, d) == Placed(a, P, d) /\ D = Lines(a, P) /\ n = Cardinality(Longs(a, P))

\* Between two chunks it drops nothing right after a newline.
Settled(a, D, n, P, d) == Exact(a, D, n, P, d) /\ (d => P \notin Newline)

\* A file ends with a line, with or without its newline.
EndsLine(e) == e \in Newline \/ e + 1 \in Newline

CalmFiles ==
  /\ writer = Newest /\ gone = {} /\ begin[1] = 0
  /\ \A f \in 1 .. Newest : f < Newest => begin[f + 1] = end[f] /\ EndsLine(end[f])
  /\ ~present => EndsLine(end[Newest])

CalmCheckpoint == LET i == checkpoint.inode IN
  /\ i # NoFile => /\ checkpoint.read
                   /\ i = Newest \/ (i + 1 = Newest /\ present)
                   /\ checkpoint.source # 0 => i + 1 = Newest /\ NameOf(i) = checkpoint.source
                   /\ checkpoint.offset <= Size(i)
  /\ i = NoFile => present /\ ~checkpoint.discard
  /\ ~checkpoint.read => Newest = 1 /\ base = 0
  /\ Settled(base, delivered, skips, Position, checkpoint.discard)

CalmResolve ==
  pc = "resolve" /\ seen.inode # NoFile /\ cp.inode = seen.inode => cp.offset <= seen.size

\* What a poll starts from: after a gap, nothing.
From == IF target.gap >= 0 THEN target.gap ELSE base
Skipped == IF target.gap >= 0 THEN 0 ELSE skips

CalmRead == pc \in {"read", "commit"} => LET f == target.stat.inode IN
  /\ present
  /\ target.tail => f + 1 = Newest /\ target.stat.size = Size(f) /\ cp.source # 0
  /\ ~target.tail => f = Newest
  /\ target.gap >= 0 => delivered = {}
  /\ target.start <= target.stat.size
  /\ Exact(From, delivered, Skipped, begin[f] + target.start, cp.discard)
  /\ cp.discard /\ begin[f] + target.start \in Newline => Available > 0

CalmCommit == pc = "commit" => LET f == target.stat.inode IN
  /\ target.start <= scan.next /\ scan.next <= Size(f)
  /\ Settled(From, delivered \cup scan.lines, Skipped + scan.oversized,
             begin[f] + scan.next, scan.discard)

Calm == CalmFiles /\ CalmCheckpoint /\ CalmResolve /\ CalmRead /\ CalmCommit
-----------------------------------------------------------------------------
(* Records and the newlines around a byte.                                 *)

LEMMA BeforeLemma ==
  ASSUME NEW p \in Newline
  PROVE  /\ p \in Nat /\ p <= Last /\ 0 < p
         /\ Before(p) \in Starts /\ Before(p) \in Nat /\ Before(p) < p
         /\ \A q \in Newline : q < p => q <= Before(p)
<1> DEFINE S == {0} \cup {q \in Newline : q < p}
<1>1. Last \in Nat /\ \A q \in Newline : q \in Nat /\ 0 < q /\ q <= Last
  BY StreamAssumption
<1>2. S \in SUBSET (0 .. Last) /\ S # {}
  BY <1>1
<1>3. MaxOf(S) \in S /\ \A y \in S : y <= MaxOf(S)
  BY <1>1, <1>2, MaxOfIsGreatest
<1>4. Before(p) = MaxOf(S)
  BY DEF Before
<1> QED
  BY <1>1, <1>3, <1>4 DEF Starts

\* The last start of a line before a newline is the one before it.
LEMMA BeforeIs ==
  ASSUME NEW p \in Newline, NEW b \in Starts, b < p, \A q \in Newline : q < p => q <= b
  PROVE  Before(p) = b
<1>1. b \in Nat
  BY StreamAssumption DEF Starts
<1>2. Before(p) <= b
  BY <1>1, BeforeLemma DEF Starts
<1>3. b <= Before(p)
  BY <1>1, BeforeLemma DEF Starts
<1> QED
  BY <1>1, <1>2, <1>3, BeforeLemma

LEMMA NextExists ==
  ASSUME NEW P \in 0 .. Last, P < Last
  PROVE  \E q \in Newline : P < q /\ \A r \in Newline : P < r => q <= r
<1> DEFINE S == {q \in Newline : P < q}
<1>1. S \in SUBSET Nat /\ S # {}
  <2>1. Last \in Newline /\ \A q \in Newline : q \in Nat
    BY StreamAssumption
  <2>2. Last \in S
    BY <2>1
  <2> QED
    BY <2>1, <2>2
<1>2. PICK q \in S : \A r \in S : q <= r
  BY <1>1, LeastExists
<1> QED
  BY <1>2

LEMMA LongsFinite ==
  ASSUME NEW a, NEW b
  PROVE  IsFiniteSet(Longs(a, b)) /\ IsFiniteSet(Newline) /\ Cardinality(Longs(a, b)) \in Nat
<1>1. IsFiniteSet(1 .. Last) /\ Newline \in SUBSET (1 .. Last)
  BY StreamAssumption, FS_Interval
<1>2. IsFiniteSet(Newline)
  BY <1>1, FS_Subset
<1>3. Longs(a, b) \in SUBSET Newline
  BY DEF Longs, Records
<1> QED
  BY <1>2, <1>3, FS_Subset, FS_CardinalityType

-----------------------------------------------------------------------------
(* The parts of a scan (scanJsonlChunk), by name.                          *)

Ends(from, to) == {p \in Newline : from < p /\ p <= to}
StartOf(from, to, p) == MaxOf({from} \cup {q \in Ends(from, to) : q < p})
DroppedAt(from, to, d, p) == d /\ p = MinOf(Ends(from, to))
LongAt(from, to, d, p) == ~DroppedAt(from, to, d, p) /\ p - 1 - StartOf(from, to, p) > MaxLine
LineAt(from, to, d, p) ==
  ~DroppedAt(from, to, d, p) /\ ~LongAt(from, to, d, p) /\ p - 1 > StartOf(from, to, p)

\* The records that may be stored, and those that are too long.
Short(a) == {q \in Records(a) : q - 1 - Before(q) <= MaxLine}
TooLong(a) == {q \in Records(a) : q - 1 - Before(q) > MaxLine}

LEMMA EndsLemma ==
  ASSUME NEW from \in Nat, NEW to \in 0 .. Last, NEW p \in Ends(from, to),
         NEW first, first = MinOf(Ends(from, to))
  PROVE  /\ p \in Newline /\ p \in Nat /\ from < p /\ p <= to
         /\ first \in Ends(from, to) /\ first \in Newline /\ first \in Nat
         /\ from < first /\ first <= to
         /\ \A q \in Newline : from < q => first <= q
         /\ Before(first) <= from
         /\ StartOf(from, to, first) = from
         /\ p # first => /\ first <= Before(p) /\ Before(p) \in Ends(from, to)
                         /\ StartOf(from, to, p) = Before(p)
<1> DEFINE E == Ends(from, to)
<1>1. Last \in Nat /\ \A q \in Newline : q \in Nat /\ 0 < q /\ q <= Last
  BY StreamAssumption
<1>2. E \in SUBSET Nat /\ E # {} /\ \A q : q \in E <=> q \in Newline /\ from < q /\ q <= to
  BY <1>1 DEF Ends
<1>3. first \in E /\ \A q \in E : first <= q
  BY <1>2, MinOfIsLeast
<1> HIDE DEF E
<1>4. p \in Newline /\ p \in Nat /\ from < p /\ p <= to /\ first <= p
  BY <1>1, <1>2, <1>3 DEF E
<1>5. first \in Newline /\ first \in Nat /\ from < first /\ first <= to
  BY <1>1, <1>2, <1>3
<1>6. \A q \in Newline : from < q => first <= q
  <2> SUFFICES ASSUME NEW q \in Newline, from < q PROVE first <= q
    OBVIOUS
  <2>1. CASE q <= to
    BY <1>2, <1>3, <2>1
  <2>2. CASE ~(q <= to)
    BY <1>1, <1>5, <2>2
  <2> QED
    BY <2>1, <2>2
<1>7. Before(first) <= from
  <2>1. Before(first) \in Starts /\ Before(first) < first /\ Before(first) \in Nat
    BY <1>5, BeforeLemma
  <2> QED
    BY <1>5, <1>6, <2>1 DEF Starts
\* What a set of a start and earlier newlines has as its greatest member.
<1>8. ASSUME NEW n \in Nat, NEW b \in {from} \cup {q \in E : q < n},
             \A q \in E : q < n => q <= b, from <= b
      PROVE  StartOf(from, to, n) = b
  <2> DEFINE S == {from} \cup {q \in E : q < n}
  <2>1. from <= Last /\ b \in Nat
    BY <1>1, <1>2, <1>4, <1>8
  <2>2. S \in SUBSET (0 .. Last) /\ S # {}
    BY <1>1, <1>2, <2>1
  <2>3. MaxOf(S) \in S /\ \A y \in S : y <= MaxOf(S)
    BY <1>1, <2>2, MaxOfIsGreatest
  <2>4. MaxOf(S) \in Nat
    BY <2>2, <2>3
  <2>5. StartOf(from, to, n) = MaxOf(S)
    BY DEF StartOf, E
  <2> HIDE DEF S
  <2>6. MaxOf(S) <= b /\ b <= MaxOf(S)
    <3>1. b \in S
      BY <1>8 DEF S
    <3>2. \A y \in S : y <= b
      BY <1>8 DEF S
    <3> QED
      BY <2>3, <3>1, <3>2
  <2> QED
    BY <2>1, <2>4, <2>5, <2>6
<1>9. StartOf(from, to, first) = from
  BY <1>2, <1>3, <1>5, <1>8
<1>10. ASSUME p # first
       PROVE  /\ first <= Before(p) /\ Before(p) \in E
              /\ StartOf(from, to, p) = Before(p)
  <2>1. /\ Before(p) \in Starts /\ Before(p) \in Nat /\ Before(p) < p
        /\ \A q \in Newline : q < p => q <= Before(p)
    BY <1>4, BeforeLemma
  <2>2. first <= Before(p)
    BY <1>4, <1>5, <1>10, <2>1
  <2>3. Before(p) \in E /\ from <= Before(p)
    BY <1>2, <1>4, <1>5, <2>1, <2>2 DEF Starts
  <2>4. \A q \in E : q < p => q <= Before(p)
    BY <1>2, <2>1
  <2> QED
    BY <1>4, <1>8, <2>1, <2>2, <2>3, <2>4
<1> QED
  BY <1>3, <1>4, <1>5, <1>6, <1>7, <1>9, <1>10 DEF E

\* Of the records that end in a chunk, the scan stores those that are not too
\* long and end after its first byte, and counts the long ones that begin there.
LEMMA TakenLemma ==
  ASSUME NEW a, NEW from, NEW d, Placed(a, from, d), NEW to \in 0 .. Last,
         NEW p \in Ends(from, to)
  PROVE  /\ LineAt(from, to, d, p) <=> p \in Short(a) /\ from < p - 1
         /\ LongAt(from, to, d, p) <=> p \in TooLong(a) /\ from <= Before(p)
         /\ LineAt(from, to, d, p) => StartOf(from, to, p) = Before(p)
         /\ from < a => a <= p
<1> PICK first : first = MinOf(Ends(from, to))
  OBVIOUS
<1>1. /\ a \in Starts /\ from \in Nat /\ from <= Last /\ d \in BOOLEAN
      /\ \A q \in Newline : from < q => a <= from \/ a <= q
      /\ ~d => (from \in Starts \/ from + 1 \in Newline) /\ a <= from + 1
      /\ d /\ a <= from =>
           \A q \in Newline : from < q /\ Before(q) <= from =>
             Before(q) < from /\ MaxLine < q - 1 - Before(q)
  BY StreamAssumption DEF Placed
<1>2. MaxLine \in Nat /\ a \in Nat
  BY <1>1, LimitAssumption, StreamAssumption DEF Starts
<1>3. /\ p \in Newline /\ p \in Nat /\ from < p /\ p <= to
      /\ first \in Ends(from, to) /\ first \in Newline /\ first \in Nat
      /\ from < first /\ first <= to
      /\ \A q \in Newline : from < q => first <= q
      /\ Before(first) <= from
      /\ StartOf(from, to, first) = from
      /\ p # first => /\ first <= Before(p) /\ Before(p) \in Ends(from, to)
                      /\ StartOf(from, to, p) = Before(p)
  BY <1>1, EndsLemma
<1>4. Before(p) \in Nat /\ Before(p) < p /\ Before(first) \in Nat
  BY <1>3, BeforeLemma
<1>5. a <= from \/ a = first
  <2>1. from < a => a \in Newline
    BY <1>1, <1>2 DEF Starts
  <2>2. from < a => first <= a /\ a <= first
    BY <1>1, <1>2, <1>3, <2>1
  <2> QED
    BY <1>1, <1>2, <1>3, <2>2
<1>6. \A q \in Newline : /\ q \in Records(a) <=> a <= Before(q) /\ Before(q) + 1 < q
                         /\ q \in Short(a) <=> q \in Records(a) /\ q - 1 - Before(q) <= MaxLine
                         /\ q \in TooLong(a) <=> q \in Records(a) /\ q - 1 - Before(q) > MaxLine
  BY DEF Records, Short, TooLong
<1>7. from < a => a <= p
  BY <1>1, <1>2, <1>3, <1>5
<1>8. CASE p # first
  <2>1. /\ ~DroppedAt(from, to, d, p) /\ StartOf(from, to, p) = Before(p)
        /\ from < Before(p) /\ a <= Before(p)
    BY <1>1, <1>2, <1>3, <1>4, <1>5, <1>8 DEF DroppedAt
  <2>2. /\ LongAt(from, to, d, p) <=> p - 1 - Before(p) > MaxLine
        /\ LineAt(from, to, d, p) <=> ~(p - 1 - Before(p) > MaxLine) /\ p - 1 > Before(p)
    BY <2>1 DEF LongAt, LineAt
  <2>3. p \in Records(a) <=> Before(p) + 1 < p
    BY <1>3, <1>6, <2>1
  <2> QED
    BY <1>1, <1>2, <1>3, <1>4, <1>6, <1>7, <2>1, <2>2, <2>3
<1>9. CASE p = first /\ ~d
  <2>1. /\ LongAt(from, to, d, p) <=> p - 1 - from > MaxLine
        /\ LineAt(from, to, d, p) <=> ~(p - 1 - from > MaxLine) /\ p - 1 > from
    BY <1>3, <1>9 DEF LongAt, LineAt, DroppedAt
  <2>2. CASE from \in Starts
    <3>1. Before(p) = from
      BY <1>3, <1>9, <2>2, BeforeIs, <1>1
    <3> QED
      BY <1>1, <1>2, <1>3, <1>4, <1>5, <1>6, <1>7, <1>9, <2>1, <3>1
  <2>3. CASE from \notin Starts
    <3>1. p = from + 1 /\ Before(p) < from
      BY <1>1, <1>3, <1>4, <1>9, <2>3, BeforeLemma
    <3> QED
      BY <1>1, <1>2, <1>3, <1>4, <1>6, <1>7, <2>1, <3>1
  <2> QED
    BY <2>2, <2>3
<1>10. CASE p = first /\ d
  <2>1. ~LongAt(from, to, d, p) /\ ~LineAt(from, to, d, p)
    BY <1>10 DEF LongAt, LineAt, DroppedAt
  <2>2. CASE a <= from
    <3>1. Before(p) < from /\ MaxLine < p - 1 - Before(p)
      BY <1>1, <1>3, <1>10, <2>2
    <3> QED
      BY <1>1, <1>2, <1>3, <1>4, <1>6, <1>7, <2>1, <3>1
  <2>3. CASE a = first
    <3>1. p \notin Records(a)
      BY <1>1, <1>2, <1>3, <1>4, <1>6, <1>10, <2>3
    <3> QED
      BY <1>3, <1>6, <1>7, <2>1, <3>1
  <2> QED
    BY <1>5, <2>2, <2>3
<1> QED
  BY <1>8, <1>9, <1>10

LEMMA LinesLongs ==
  ASSUME NEW a, NEW b
  PROVE  /\ Lines(a, b) = {<<Before(q) + 1, q - 1>> : q \in {r \in Short(a) : r - 1 <= b}}
         /\ Longs(a, b) = {q \in TooLong(a) : Before(q) < b}
         /\ Short(a) \in SUBSET Newline /\ TooLong(a) \in SUBSET Newline
<1>1. {r \in Short(a) : r - 1 <= b} = {q \in Records(a) : q - 1 <= b /\ q - 1 - Before(q) <= MaxLine}
  BY DEF Short
<1>2. Lines(a, b) = {<<Before(q) + 1, q - 1>> : q \in {r \in Short(a) : r - 1 <= b}}
  BY <1>1 DEF Lines
<1> QED
  BY <1>2 DEF Longs, Short, TooLong, Records

\* The records up to a newline of the chunk.
LEMMA UpToEnd ==
  ASSUME NEW a, NEW from, NEW d, Placed(a, from, d), NEW to \in 0 .. Last,
         NEW b \in Ends(from, to)
  PROVE  /\ Lines(a, b) = Lines(a, from) \cup
              {<<StartOf(from, to, p) + 1, p - 1>> :
                 p \in {q \in Ends(from, to) : q <= b /\ LineAt(from, to, d, q)}}
         /\ Longs(a, b) = Longs(a, from) \cup
              {p \in Ends(from, to) : p <= b /\ LongAt(from, to, d, p)}
         /\ Longs(a, from) \cap {p \in Ends(from, to) : p <= b /\ LongAt(from, to, d, p)} = {}
         /\ a <= b
<1> DEFINE E == Ends(from, to)
           New == {q \in E : q <= b /\ LineAt(from, to, d, q)}
           Old == {r \in Short(a) : r - 1 <= from}
           All == {r \in Short(a) : r - 1 <= b}
           Big == {q \in E : q <= b /\ LongAt(from, to, d, q)}
<1>1. /\ from \in Nat /\ to \in Nat /\ to <= Last /\ a \in Nat
      /\ b \in Newline /\ b \in Nat /\ from < b /\ b <= to
      /\ \A q \in Newline : q \in Nat
      /\ \A q : q \in E <=> q \in Newline /\ from < q /\ q <= to
  BY StreamAssumption DEF Placed, Starts, Ends
<1>2. ASSUME NEW p \in E
      PROVE  /\ LineAt(from, to, d, p) <=> p \in Short(a) /\ from < p - 1
             /\ LongAt(from, to, d, p) <=> p \in TooLong(a) /\ from <= Before(p)
             /\ LineAt(from, to, d, p) => StartOf(from, to, p) = Before(p)
             /\ from < a => a <= p
  BY TakenLemma
<1>3. ASSUME NEW q \in Newline
      PROVE  /\ Before(q) \in Nat /\ Before(q) < q /\ \A r \in Newline : r < q => r <= Before(q)
             /\ q \in Records(a) => Before(q) + 1 < q
  BY <1>3, BeforeLemma DEF Records
<1>4. /\ \A q \in Short(a) : q \in Newline /\ q \in Records(a)
      /\ \A q \in TooLong(a) : q \in Newline /\ q \in Records(a)
  BY DEF Short, TooLong, Records
<1>5. \A q \in Newline : Before(q) \in Nat /\ Before(q) < q /\ (q \in Records(a) => Before(q) + 1 < q)
  BY <1>3
<1>6. /\ \A q \in Short(a) : q \in Newline /\ q \in Nat /\ q \in Records(a)
      /\ \A q \in TooLong(a) : /\ q \in Newline /\ q \in Nat
                               /\ Before(q) \in Nat /\ Before(q) < q
  BY <1>1, <1>4, <1>5
<1> HIDE DEF E
\* A record that ends at the next byte after b would be empty.
<1>7. ASSUME NEW q \in Newline, q \in Records(a), from < q - 1, q - 1 <= b
      PROVE  q \in E /\ q <= b
  <2>1. q # b + 1
    BY <1>1, <1>3, <1>7
  <2> QED
    BY <1>1, <1>7, <2>1
<1>8. All = Old \cup New
  <2>1. \A q \in All : q \in Old \/ q \in New
    <3> SUFFICES ASSUME NEW q \in All, q \notin Old PROVE q \in New
      OBVIOUS
    <3>1. q \in Newline /\ q \in Nat /\ q \in Records(a) /\ q \in Short(a) /\ q - 1 <= b
      BY <1>6
    <3>2. from < q - 1
      BY <1>1, <3>1
    <3> QED
      BY <1>2, <1>7, <3>1, <3>2
  <2>2. \A q \in Old : q \in All
    BY <1>1, <1>6
  <2>3. ASSUME NEW q \in New PROVE q \in All
    <3>1. q \in E /\ q <= b /\ q \in Short(a)
      BY <1>2
    <3>2. q \in Nat
      BY <1>6, <3>1
    <3> QED
      BY <1>1, <3>1, <3>2
  <2> QED
    BY <2>1, <2>2, <2>3
<1>9. \A q \in New : StartOf(from, to, q) = Before(q)
  BY <1>2
<1>10. /\ Lines(a, b) = {<<Before(q) + 1, q - 1>> : q \in All}
       /\ Lines(a, from) = {<<Before(q) + 1, q - 1>> : q \in Old}
  BY LinesLongs
<1> HIDE DEF All, Old, New
<1>11. Lines(a, b) = Lines(a, from) \cup {<<StartOf(from, to, p) + 1, p - 1>> : p \in New}
  <2>1. {<<StartOf(from, to, p) + 1, p - 1>> : p \in New} = {<<Before(q) + 1, q - 1>> : q \in New}
    BY <1>9
  <2>2. {<<Before(q) + 1, q - 1>> : q \in All} =
          {<<Before(q) + 1, q - 1>> : q \in Old} \cup {<<Before(q) + 1, q - 1>> : q \in New}
    BY <1>8
  <2> QED
    BY <1>10, <2>1, <2>2
<1>12. Longs(a, b) = Longs(a, from) \cup Big /\ Longs(a, from) \cap Big = {}
  <2>1. /\ Longs(a, b) = {q \in TooLong(a) : Before(q) < b}
        /\ Longs(a, from) = {q \in TooLong(a) : Before(q) < from}
    BY LinesLongs
  <2>2. ASSUME NEW q \in TooLong(a), Before(q) < b, from <= Before(q) PROVE q \in E /\ q <= b
    <3>1. q \in Newline /\ q \in Nat /\ Before(q) \in Nat /\ Before(q) < q
      BY <1>1, <1>3, <1>4, <2>2
    <3>2. ~(b < q)
      BY <1>1, <1>3, <2>2, <3>1
    <3> QED
      BY <1>1, <2>2, <3>1, <3>2
  <2>3. ASSUME NEW q \in Big PROVE q \in TooLong(a) /\ from <= Before(q) /\ Before(q) < b
    <3>1. q \in TooLong(a) /\ from <= Before(q) /\ q <= b
      BY <1>2
    <3> QED
      BY <1>1, <1>6, <3>1
  <2>4. \A q \in TooLong(a) : Before(q) < from => Before(q) < b
    BY <1>1, <1>6
  <2>5. \A q \in TooLong(a) : Before(q) < from \/ from <= Before(q)
    BY <1>1, <1>6
  <2>6. \A q \in TooLong(a) : ~(Before(q) < from /\ from <= Before(q))
    BY <1>1, <1>6
  <2>7. \A q \in TooLong(a) : Before(q) < b /\ from <= Before(q) => q \in Big
    BY <1>2, <2>2
  <2> HIDE DEF Big
  <2> QED
    BY <2>1, <2>3, <2>4, <2>5, <2>6, <2>7
<1>13. a <= b
  BY <1>1, <1>2
<1> QED
  BY <1>11, <1>12, <1>13 DEF New, E

\* The records up to a byte within a line.
LEMMA WithinLine ==
  ASSUME NEW a, NEW b \in Nat, NEW to \in Nat, b <= to,
         NEW next \in Newline, to < next, \A q \in Newline : b < q => next <= q
  PROVE  /\ Lines(a, to) = Lines(a, b) \cup
              (IF b < to /\ next = to + 1 /\ next \in Short(a)
               THEN {<<Before(next) + 1, next - 1>>} ELSE {})
         /\ Longs(a, to) = Longs(a, b) \cup
              (IF b <= Before(next) /\ Before(next) < to /\ next \in TooLong(a)
               THEN {next} ELSE {})
         /\ b <= Before(next) => next \notin Longs(a, b)
<1> DEFINE Old == {r \in Short(a) : r - 1 <= b}
           All == {r \in Short(a) : r - 1 <= to}
<1>1. \A q \in Newline : q \in Nat /\ Before(q) \in Nat /\ Before(q) < q
  BY BeforeLemma
<1>2. \A q \in Newline : \A r \in Newline : r < q => r <= Before(q)
  BY BeforeLemma
<1>3. /\ Lines(a, to) = {<<Before(q) + 1, q - 1>> : q \in All}
      /\ Lines(a, b) = {<<Before(q) + 1, q - 1>> : q \in Old}
      /\ Longs(a, to) = {q \in TooLong(a) : Before(q) < to}
      /\ Longs(a, b) = {q \in TooLong(a) : Before(q) < b}
      /\ Short(a) \in SUBSET Newline /\ TooLong(a) \in SUBSET Newline
  BY LinesLongs
<1>4. \A q \in All : q \in Old \/ (q = next /\ b < to /\ next = to + 1)
  <2> SUFFICES ASSUME NEW q \in All, q \notin Old PROVE q = next /\ b < to /\ next = to + 1
    OBVIOUS
  <2>1. q \in Newline /\ q \in Nat /\ q - 1 <= to /\ b < q - 1
    BY <1>1, <1>3
  <2>2. next <= q /\ next \in Nat
    BY <1>1, <2>1
  <2> QED
    BY <2>1, <2>2
<1>5. \A q \in Old : q \in All
  BY <1>1, <1>3
<1>6. next = to + 1 /\ next \in Short(a) => next \in All
  BY <1>1
<1>7. Lines(a, to) = Lines(a, b) \cup
        (IF b < to /\ next = to + 1 /\ next \in Short(a)
         THEN {<<Before(next) + 1, next - 1>>} ELSE {})
  <2>1. All \in SUBSET Short(a)
    OBVIOUS
  <2> HIDE DEF All, Old
  <2>2. CASE b < to /\ next = to + 1 /\ next \in Short(a)
    <3>1. All = Old \cup {next}
      BY <1>4, <1>5, <1>6, <2>2
    <3> QED
      BY <1>3, <2>2, <3>1
  <2>3. CASE ~(b < to /\ next = to + 1 /\ next \in Short(a))
    <3>1. All = Old
      BY <1>4, <1>5, <2>1, <2>3
    <3> QED
      BY <1>3, <2>3, <3>1
  <2> QED
    BY <2>2, <2>3
<1>8. ASSUME NEW q \in TooLong(a), Before(q) < to, b <= Before(q) PROVE q = next
  <2>1. q \in Newline /\ q \in Nat /\ Before(q) \in Nat /\ Before(q) < q /\ next \in Nat
    BY <1>1, <1>3
  <2>2. next <= q
    BY <1>8, <2>1
  <2>3. ~(next < q)
    BY <1>2, <1>8, <2>1
  <2> QED
    BY <2>1, <2>2, <2>3
<1>9. \A q \in TooLong(a) : /\ Before(q) < b => Before(q) < to
                            /\ Before(q) < b \/ b <= Before(q)
                            /\ ~(Before(q) < b /\ b <= Before(q))
  BY <1>1, <1>3
<1> HIDE DEF All, Old
<1>10. \A q : q \in Longs(a, to) <=>
         q \in Longs(a, b) \/ (q = next /\ b <= Before(next) /\ Before(next) < to /\ next \in TooLong(a))
  BY <1>3, <1>8, <1>9
<1>11. b <= Before(next) => next \notin Longs(a, b)
  BY <1>3, <1>9
<1>12. Longs(a, to) = Longs(a, b) \cup
         (IF b <= Before(next) /\ Before(next) < to /\ next \in TooLong(a) THEN {next} ELSE {})
  <2>1. CASE b <= Before(next) /\ Before(next) < to /\ next \in TooLong(a)
    BY <1>10, <2>1
  <2>2. CASE ~(b <= Before(next) /\ Before(next) < to /\ next \in TooLong(a))
    BY <1>10, <2>2
  <2> QED
    BY <2>1, <2>2
<1> QED
  BY <1>7, <1>11, <1>12

\* What a scan stores and counts up to a newline of the chunk.
StoredTo(from, to, d, b) ==
  {<<StartOf(from, to, p) + 1, p - 1>> : p \in {q \in Ends(from, to) : q <= b /\ LineAt(from, to, d, q)}}
CountedTo(from, to, d, b) == {p \in Ends(from, to) : p <= b /\ LongAt(from, to, d, p)}

\* A scan stops at a newline b because there are enough lines, or goes on to
\* the end of the chunk, b being its last newline.
LEMMA ScannedIs ==
  ASSUME NEW from \in Nat, NEW to \in 0 .. Last, from < to,
         NEW d \in BOOLEAN, NEW atEof \in BOOLEAN, NEW more \in BOOLEAN, more <=> ~atEof,
         NEW r, r = Scanned(from, to, d, atEof)
  PROVE  \E b \in Nat :
           /\ b \in Ends(from, to) \/ (Ends(from, to) = {} /\ b = from)
           /\ \/ /\ ~(d /\ Ends(from, to) = {})
                 /\ r = [lines |-> StoredTo(from, to, d, b), next |-> b, discard |-> FALSE,
                         oversized |-> Cardinality(CountedTo(from, to, d, b))]
              \/ /\ d /\ Ends(from, to) = {}
                 /\ r = [lines |-> {}, next |-> to, discard |-> more, oversized |-> 0]
              \/ /\ ~(d /\ Ends(from, to) = {}) /\ \A q \in Ends(from, to) : q <= b
                 /\ to - b > MaxLine
                 /\ r = [lines |-> StoredTo(from, to, d, b), next |-> to, discard |-> more,
                         oversized |-> Cardinality(CountedTo(from, to, d, b)) + 1]
              \/ /\ ~(d /\ Ends(from, to) = {}) /\ \A q \in Ends(from, to) : q <= b
                 /\ to - b <= MaxLine /\ b < to /\ atEof
                 /\ r = [lines |-> StoredTo(from, to, d, b) \cup {<<b + 1, to>>}, next |-> to,
                         discard |-> FALSE, oversized |-> Cardinality(CountedTo(from, to, d, b))]
<1> DEFINE
      E == Ends(from, to)
      full(p) == /\ ~DroppedAt(from, to, d, p) /\ ~LongAt(from, to, d, p)
                 /\ Cardinality({q \in E : q < p /\ LineAt(from, to, d, q)}) >= MaxLines
      stop == MinOf({p \in E : full(p)} \cup {to + 1})
      lines == {<<StartOf(from, to, p) + 1, p - 1>> : p \in {q \in E : q < stop /\ LineAt(from, to, d, q)}}
      longs == Cardinality({p \in E : p < stop /\ LongAt(from, to, d, p)})
      rest == MaxOf({from} \cup E)
      few == Cardinality(lines) < MaxLines
      r1 == [lines |-> lines, next |-> StartOf(from, to, stop), discard |-> FALSE, oversized |-> longs]
      r2 == [lines |-> {}, next |-> to, discard |-> more, oversized |-> 0]
      r3 == [lines |-> lines, next |-> to, discard |-> more, oversized |-> longs + 1]
      r4 == [lines |-> lines \cup {<<rest + 1, to>>}, next |-> to, discard |-> FALSE, oversized |-> longs]
      r5 == [lines |-> lines, next |-> rest, discard |-> FALSE, oversized |-> longs]
<1>1. r = CASE stop <= to -> r1
            [] stop > to /\ d /\ E = {} -> r2
            [] stop > to /\ ~(d /\ E = {}) /\ to - rest > MaxLine -> r3
            [] stop > to /\ ~(d /\ E = {}) /\ to - rest <= MaxLine ->
                 IF rest < to /\ atEof /\ few THEN r4 ELSE r5
  BY DEF Scanned, Ends, StartOf, DroppedAt, LongAt, LineAt
<1>2. /\ Last \in Nat /\ to \in Nat /\ to <= Last /\ MaxLine \in Nat /\ MaxLines \in Nat /\ MaxLines > 0
      /\ E \in SUBSET Nat /\ E \in SUBSET (0 .. Last)
      /\ \A q : q \in E <=> q \in Newline /\ q \in Nat /\ from < q /\ q <= to
  <2>1. Last \in Nat /\ \A q \in Newline : q \in Nat
    BY StreamAssumption
  <2>2. MaxLine \in Nat /\ MaxLines \in Nat /\ MaxLines > 0
    BY LimitAssumption
  <2>3. \A q : q \in E <=> q \in Newline /\ q \in Nat /\ from < q /\ q <= to
    BY <2>1 DEF Ends
  <2> HIDE DEF E
  <2> QED
    BY <2>1, <2>2, <2>3
<1>3. /\ rest \in {from} \cup E /\ rest \in Nat /\ (\A q \in E : q <= rest) /\ from <= rest /\ rest <= to
  <2> HIDE DEF E
  <2> DEFINE S == {from} \cup E
  <2>1. S \in SUBSET (0 .. Last) /\ S # {}
    BY <1>2
  <2>2. MaxOf(S) \in S /\ \A y \in S : y <= MaxOf(S)
    BY <1>2, <2>1, MaxOfIsGreatest
  <2> QED
    BY <1>2, <2>2
<1>4. stop \in Nat /\ ((stop \in E /\ full(stop)) \/ stop = to + 1)
  <2> HIDE DEF E
  <2> DEFINE S == {p \in E : full(p)} \cup {to + 1}
  <2>1. S \in SUBSET Nat /\ S # {}
    BY <1>2
  <2>2. MinOf(S) \in S
    <3> HIDE DEF S
    <3> QED
      BY <2>1, MinOfIsLeast
  <2>3. stop = MinOf(S)
    OBVIOUS
  <2> HIDE DEF stop, full
  <2> QED
    BY <1>2, <2>1, <2>2, <2>3
<1>5. \/ stop <= to /\ r = r1
      \/ stop > to /\ d /\ E = {} /\ r = r2
      \/ stop > to /\ ~(d /\ E = {}) /\ to - rest > MaxLine /\ r = r3
      \/ stop > to /\ ~(d /\ E = {}) /\ to - rest <= MaxLine /\ rest < to /\ atEof /\ r = r4
      \/ stop > to /\ ~(d /\ E = {}) /\ r = r5
  <2> HIDE DEF stop, rest, E, few, r1, r2, r3, r4, r5
  <2> QED
    BY <1>1, <1>2, <1>3, <1>4
<1> HIDE DEF r1, r2, r3, r4, r5, rest, stop, E
<1>6. ASSUME stop > to
      PROVE  lines = StoredTo(from, to, d, rest) /\ longs = Cardinality(CountedTo(from, to, d, rest))
  <2>1. \A q \in E : q < stop /\ q <= rest
    BY <1>2, <1>3, <1>4, <1>6
  <2>2. {q \in E : q < stop /\ LineAt(from, to, d, q)} = {q \in E : q <= rest /\ LineAt(from, to, d, q)}
    BY <2>1
  <2>3. {p \in E : p < stop /\ LongAt(from, to, d, p)} = {p \in E : p <= rest /\ LongAt(from, to, d, p)}
    BY <2>1
  <2> QED
    BY <2>2, <2>3 DEF StoredTo, CountedTo, E
<1>7. ASSUME stop <= to, NEW b, b = StartOf(from, to, stop)
      PROVE  /\ b \in E
             /\ lines = StoredTo(from, to, d, b) /\ longs = Cardinality(CountedTo(from, to, d, b))
  <2>1. stop \in E /\ full(stop)
    BY <1>2, <1>4, <1>7
  <2> PICK first : first = MinOf(Ends(from, to))
    OBVIOUS
  <2>2. /\ stop \in Newline
        /\ \A q \in Newline : from < q => first <= q
        /\ stop # first => Before(stop) \in E /\ b = Before(stop)
    BY <1>7, <2>1, EndsLemma DEF E
  <2>3. stop # first
    <3> SUFFICES ASSUME stop = first PROVE FALSE
      OBVIOUS
    <3>1. \A q \in E : ~(q < stop)
      BY <1>2, <1>4, <2>2
    <3>2. {q \in E : q < stop /\ LineAt(from, to, d, q)} = {}
      BY <3>1
    <3> QED
      BY <1>2, <2>1, <3>2, FS_EmptySet
  <2>4. Before(stop) < stop /\ Before(stop) \in Nat /\ \A q \in Newline : q < stop => q <= Before(stop)
    BY <2>2, BeforeLemma
  <2>5. \A q \in E : q < stop <=> q <= b
    BY <1>2, <1>4, <2>2, <2>3, <2>4
  <2>6. {q \in E : q < stop /\ LineAt(from, to, d, q)} = {q \in E : q <= b /\ LineAt(from, to, d, q)}
    BY <2>5
  <2>7. {p \in E : p < stop /\ LongAt(from, to, d, p)} = {p \in E : p <= b /\ LongAt(from, to, d, p)}
    BY <2>5
  <2> QED
    BY <2>2, <2>3, <2>6, <2>7 DEF StoredTo, CountedTo, E
<1> HIDE DEF lines, longs
<1>8. CASE stop <= to
  <2> PICK b : b = StartOf(from, to, stop)
    OBVIOUS
  <2>1. /\ b \in E /\ b \in Nat /\ E # {}
        /\ lines = StoredTo(from, to, d, b) /\ longs = Cardinality(CountedTo(from, to, d, b))
    BY <1>2, <1>7, <1>8
  <2>2. r = r1
    BY <1>2, <1>4, <1>5, <1>8
  <2> QED
    BY <2>1, <2>2 DEF r1, E
<1>9. CASE stop > to
  <2>1. lines = StoredTo(from, to, d, rest) /\ longs = Cardinality(CountedTo(from, to, d, rest))
    BY <1>6, <1>9
  <2>2. ~(stop <= to)
    BY <1>2, <1>4, <1>9
  <2>3. rest \in E \/ (E = {} /\ rest = from)
    BY <1>2, <1>3
  <2>4. CASE d /\ E = {} /\ r = r2
    BY <1>3, <2>3, <2>4 DEF r2, E
  <2>5. CASE ~(d /\ E = {}) /\ to - rest > MaxLine /\ r = r3
    BY <1>3, <2>1, <2>3, <2>5 DEF r3, E
  <2>6. CASE ~(d /\ E = {}) /\ to - rest <= MaxLine /\ rest < to /\ atEof /\ r = r4
    BY <1>3, <2>1, <2>3, <2>6 DEF r4, E
  <2>7. CASE ~(d /\ E = {}) /\ r = r5
    BY <1>3, <2>1, <2>3, <2>7 DEF r5, E
  <2> QED
    BY <1>5, <2>2, <2>4, <2>5, <2>6, <2>7
<1> QED
  BY <1>2, <1>4, <1>8, <1>9

\* What is exact up to the first byte of a chunk is, with what the scan stores
\* and counts up to a newline of it, exact up to there.
LEMMA ExactToEnd ==
  ASSUME NEW a, NEW D, NEW n, NEW from, NEW d, Exact(a, D, n, from, d), NEW to \in 0 .. Last,
         NEW b \in Ends(from, to)
  PROVE  /\ Settled(a, D \cup StoredTo(from, to, d, b), n + Cardinality(CountedTo(from, to, d, b)), b, FALSE)
         /\ a <= b /\ b \in Newline
<1> DEFINE L == StoredTo(from, to, d, b)
           N == CountedTo(from, to, d, b)
<1>1. /\ Lines(a, b) = Lines(a, from) \cup L
      /\ Longs(a, b) = Longs(a, from) \cup N
      /\ Longs(a, from) \cap N = {}
      /\ a <= b
  BY UpToEnd DEF Exact, StoredTo, CountedTo
<1>2. b \in Newline /\ b \in Starts /\ b \in 0 .. Last /\ b \in Nat /\ b + 1 > b
  BY StreamAssumption DEF Ends, Starts
<1>3. IsFiniteSet(Longs(a, from)) /\ IsFiniteSet(N) /\ Cardinality(N) \in Nat
  <2>1. N \in SUBSET Newline
    BY DEF CountedTo, Ends
  <2> QED
    BY <2>1, LongsFinite, FS_Subset, FS_CardinalityType
<1>4. Cardinality(Longs(a, b)) = n + Cardinality(N)
  <2>1. n = Cardinality(Longs(a, from)) /\ n \in Nat
    BY LongsFinite DEF Exact
  <2>2. Cardinality(Longs(a, from) \cap N) = 0
    BY <1>1, FS_EmptySet
  <2>3. Cardinality(Longs(a, from) \cup N) = n + Cardinality(N) - 0
    BY <1>3, <2>1, <2>2, FS_Union
  <2> QED
    BY <1>1, <1>3, <2>1, <2>3
<1>5. Placed(a, b, FALSE)
  <2>1. a \in Starts /\ a \in Nat
    BY StreamAssumption DEF Exact, Placed, Starts
  <2> QED
    BY <1>1, <1>2, <2>1 DEF Placed
<1>6. D \cup L = Lines(a, b)
  BY <1>1 DEF Exact
<1> HIDE DEF L, N
<1> QED
  BY <1>1, <1>2, <1>4, <1>5, <1>6 DEF Settled, Exact, L, N

\* The next newline, of a line begun before byte P and longer than MaxLine or not.
LEMMA ExactInLine ==
  ASSUME NEW a, NEW D, NEW n, NEW b, Exact(a, D, n, b, FALSE), a <= b, b \in Starts,
         NEW to \in 0 .. Last, b < to, \A q \in Newline : ~(b < q /\ q <= to)
  PROVE  /\ to - b > MaxLine => Settled(a, D, n + 1, to, TRUE)
         /\ to - b > MaxLine /\ to + 1 \in Newline => Settled(a, D, n + 1, to, FALSE)
         /\ to - b <= MaxLine /\ to + 1 \in Newline => Settled(a, D \cup {<<b + 1, to>>}, n, to, FALSE)
<1>1. /\ Last \in Nat /\ to \in Nat /\ to <= Last /\ b \in Nat /\ a \in Nat /\ MaxLine \in Nat
      /\ a \in Starts /\ Last \in Newline /\ \A q \in Newline : q \in Nat
  BY StreamAssumption, LimitAssumption DEF Exact, Placed, Starts
<1>2. to < Last /\ b \in 0 .. Last
  BY <1>1
<1>3. PICK next \in Newline : b < next /\ \A r \in Newline : b < r => next <= r
  BY <1>1, <1>2, NextExists
<1>4. to < next /\ next \in Nat
  BY <1>1, <1>3
<1>5. Before(next) = b
  BY <1>1, <1>3, BeforeIs
<1>6. /\ next \in Records(a)
      /\ next \in Short(a) <=> next - 1 - b <= MaxLine
      /\ next \in TooLong(a) <=> next - 1 - b > MaxLine
  BY <1>1, <1>3, <1>4, <1>5 DEF Records, Short, TooLong
<1>7. /\ Lines(a, to) = Lines(a, b) \cup
           (IF next = to + 1 /\ next \in Short(a) THEN {<<b + 1, next - 1>>} ELSE {})
      /\ Longs(a, to) = Longs(a, b) \cup (IF next \in TooLong(a) THEN {next} ELSE {})
      /\ next \notin Longs(a, b)
  <2>1. b \in Nat /\ to \in Nat /\ b <= to /\ to < next /\ b <= b
    BY <1>1, <1>4
  <2>2. /\ Lines(a, to) = Lines(a, b) \cup
             (IF b < to /\ next = to + 1 /\ next \in Short(a)
              THEN {<<Before(next) + 1, next - 1>>} ELSE {})
        /\ Longs(a, to) = Longs(a, b) \cup
             (IF b <= Before(next) /\ Before(next) < to /\ next \in TooLong(a)
              THEN {next} ELSE {})
        /\ b <= Before(next) => next \notin Longs(a, b)
    BY <1>3, <2>1, WithinLine, Zenon
  <2> QED
    BY <1>5, <2>1, <2>2, Zenon
<1>8. D = Lines(a, b) /\ n = Cardinality(Longs(a, b)) /\ n \in Nat /\ IsFiniteSet(Longs(a, b))
  BY LongsFinite DEF Exact
<1>9. \A q \in Newline : to < q => a <= to
  BY <1>1
<1>10. to \notin Newline
  BY <1>1
<1>11. CASE to - b > MaxLine
  <2>1. next \in TooLong(a) /\ next \notin Short(a) /\ MaxLine < next - 1 - b
    BY <1>1, <1>4, <1>6, <1>11
  <2>2. Lines(a, to) = D /\ Longs(a, to) = Longs(a, b) \cup {next}
    BY <1>7, <1>8, <2>1
  <2>3. Cardinality(Longs(a, to)) = n + 1
    BY <1>7, <1>8, <2>2, FS_AddElement
  <2>4. Placed(a, to, TRUE)
    <3>1. ASSUME NEW q \in Newline, to < q, Before(q) <= to
          PROVE  Before(q) < to /\ MaxLine < q - 1 - Before(q)
      <4>1. q = next
        <5>1. next <= q /\ q \in Nat /\ \A r \in Newline : r < q => r <= Before(q)
          BY <1>1, <1>3, <3>1, BeforeLemma
        <5>2. Before(q) \in Nat
          BY BeforeLemma
        <5> QED
          BY <1>1, <1>4, <3>1, <5>1, <5>2
      <4> QED
        BY <1>1, <1>5, <2>1, <4>1
    <3> QED
      BY <1>1, <1>9, <3>1 DEF Placed
  <2>5. to + 1 \in Newline => Placed(a, to, FALSE)
    BY <1>1, <1>9 DEF Placed
  <2>6. Exact(a, D, n + 1, to, TRUE) /\ (to + 1 \in Newline => Exact(a, D, n + 1, to, FALSE))
    BY <2>2, <2>3, <2>4, <2>5, Zenon DEF Exact
  <2>7. ~(to - b <= MaxLine)
    BY <1>1, <1>11
  <2> QED
    BY <1>10, <2>6, <2>7, Zenon DEF Settled
<1>12. CASE to - b <= MaxLine /\ to + 1 \in Newline
  <2>1. next = to + 1
    BY <1>1, <1>3, <1>4, <1>12
  <2>2. next \in Short(a) /\ next \notin TooLong(a) /\ next - 1 = to
    BY <1>1, <1>4, <1>6, <1>12, <2>1
  <2>3. Lines(a, to) = D \cup {<<b + 1, to>>} /\ Longs(a, to) = Longs(a, b)
    BY <1>7, <1>8, <2>1, <2>2
  <2>4. Placed(a, to, FALSE)
    BY <1>1, <1>9, <1>12 DEF Placed
  <2>5. Exact(a, D \cup {<<b + 1, to>>}, n, to, FALSE)
    BY <1>8, <2>3, <2>4, Zenon DEF Exact
  <2>6. ~(to - b > MaxLine)
    BY <1>1, <1>12
  <2> QED
    BY <2>5, <2>6, Zenon DEF Settled
<1> QED
  BY <1>1, <1>11, <1>12

\* What is dropped of a line brings nothing.
LEMMA ExactDropped ==
  ASSUME NEW a, NEW D, NEW n, NEW from, Exact(a, D, n, from, TRUE),
         NEW to \in 0 .. Last, from < to, \A q \in Newline : ~(from < q /\ q <= to)
  PROVE  /\ Settled(a, D, n, to, TRUE)
         /\ to + 1 \in Newline => Settled(a, D, n, to, FALSE)
<1>1. /\ Last \in Nat /\ to \in Nat /\ to <= Last /\ from \in Nat /\ a \in Nat /\ MaxLine \in Nat
      /\ a \in Starts /\ Last \in Newline /\ \A q \in Newline : q \in Nat
  BY StreamAssumption, LimitAssumption DEF Exact, Placed, Starts
<1>2. /\ \A q \in Newline : from < q => a <= from \/ a <= q
      /\ a <= from => \A q \in Newline : from < q /\ Before(q) <= from =>
                        Before(q) < from /\ MaxLine < q - 1 - Before(q)
  BY DEF Exact, Placed
<1>3. to < Last /\ from \in 0 .. Last /\ to \notin Newline
  BY <1>1
<1>4. PICK next \in Newline : from < next /\ \A r \in Newline : from < r => next <= r
  BY <1>1, <1>3, NextExists
<1>5. to < next /\ next \in Nat
  BY <1>1, <1>4
<1>6. Before(next) <= from /\ Before(next) \in Nat /\ \A r \in Newline : r < next => r <= Before(next)
  <2>1. Before(next) \in Starts /\ Before(next) < next /\ Before(next) \in Nat
    BY BeforeLemma
  <2> QED
    BY <1>1, <1>4, <2>1, BeforeLemma DEF Starts
\* A line that the next read stores begins there or later.
<1>7. a <= from \/ a = next
  <2>1. from < a => a \in Newline
    BY <1>1 DEF Starts
  <2> QED
    BY <1>1, <1>2, <1>4, <1>5, <2>1
<1>8. a <= from => Before(next) < from /\ MaxLine < next - 1 - Before(next)
  BY <1>2, <1>4, <1>6
<1>9. next \notin Short(a) /\ ~(from <= Before(next) /\ next \in TooLong(a))
  BY <1>1, <1>5, <1>6, <1>7, <1>8, LimitAssumption DEF Short, TooLong, Records
<1>10. Lines(a, to) = D /\ Longs(a, to) = Longs(a, from)
  <2>1. /\ Lines(a, to) = Lines(a, from) \cup
             (IF from < to /\ next = to + 1 /\ next \in Short(a)
              THEN {<<Before(next) + 1, next - 1>>} ELSE {})
        /\ Longs(a, to) = Longs(a, from) \cup
             (IF from <= Before(next) /\ Before(next) < to /\ next \in TooLong(a)
              THEN {next} ELSE {})
    <3>1. from \in Nat /\ to \in Nat /\ from <= to /\ to < next
      BY <1>1, <1>5
    <3> QED
      BY <1>4, <3>1, WithinLine, Zenon
  <2> QED
    BY <1>9, <2>1 DEF Exact
<1>11. \A q \in Newline : to < q => a <= to \/ a <= q
  BY <1>1, <1>4, <1>5, <1>7
<1>12. Placed(a, to, TRUE)
  <2>1. ASSUME NEW q \in Newline, a <= to, to < q, Before(q) <= to
        PROVE  Before(q) < to /\ MaxLine < q - 1 - Before(q)
    <3>1. next <= q /\ q \in Nat /\ (\A r \in Newline : r < q => r <= Before(q)) /\ Before(q) \in Nat
      BY <1>1, <1>4, <2>1, BeforeLemma
    <3>2. q = next /\ a <= from
      BY <1>1, <1>5, <1>7, <2>1, <3>1
    <3> QED
      BY <1>1, <1>6, <1>8, <3>2
  <2> QED
    BY <1>1, <1>11, <2>1 DEF Placed
<1>13. to + 1 \in Newline => Placed(a, to, FALSE)
  <2>1. to + 1 \in Newline => a <= to + 1
    BY <1>1, <1>11
  <2> QED
    BY <1>1, <1>11, <2>1 DEF Placed
<1> QED
  BY <1>1, <1>3, <1>10, <1>12, <1>13 DEF Settled, Exact

LEMMA ScanAligned ==
  ASSUME NEW a, NEW D, NEW n, NEW from, NEW d \in BOOLEAN, Exact(a, D, n, from, d),
         NEW to \in 0 .. Last, from < to, NEW atEof \in BOOLEAN, atEof => EndsLine(to),
         NEW r, r = Scanned(from, to, d, atEof)
  PROVE  Settled(a, D \cup r.lines, n + r.oversized, r.next, r.discard)
<1> PICK more \in BOOLEAN : more <=> ~atEof
  <2>1. CASE atEof = TRUE
    BY <2>1, Zenon
  <2>2. CASE atEof = FALSE
    BY <2>2, Zenon
  <2> QED
    BY <2>1, <2>2
<1>1. /\ from \in Nat /\ a \in Nat /\ a \in Starts /\ Last \in Nat /\ to \in Nat /\ MaxLine \in Nat
      /\ \A q \in Newline : q \in Nat
      /\ n \in Nat /\ n + 0 = n
  BY StreamAssumption, LimitAssumption, LongsFinite DEF Exact, Placed, Starts
<1>2. ~more => EndsLine(to)
  OBVIOUS
<1>3. ~d => (from \in Starts \/ from + 1 \in Newline) /\ a <= from + 1
  BY DEF Exact, Placed
<1>4. PICK b \in Nat :
           /\ b \in Ends(from, to) \/ (Ends(from, to) = {} /\ b = from)
           /\ \/ /\ ~(d /\ Ends(from, to) = {})
                 /\ r = [lines |-> StoredTo(from, to, d, b), next |-> b, discard |-> FALSE,
                         oversized |-> Cardinality(CountedTo(from, to, d, b))]
              \/ /\ d /\ Ends(from, to) = {}
                 /\ r = [lines |-> {}, next |-> to, discard |-> more, oversized |-> 0]
              \/ /\ ~(d /\ Ends(from, to) = {}) /\ \A q \in Ends(from, to) : q <= b
                 /\ to - b > MaxLine
                 /\ r = [lines |-> StoredTo(from, to, d, b), next |-> to, discard |-> more,
                         oversized |-> Cardinality(CountedTo(from, to, d, b)) + 1]
              \/ /\ ~(d /\ Ends(from, to) = {}) /\ \A q \in Ends(from, to) : q <= b
                 /\ to - b <= MaxLine /\ b < to /\ atEof
                 /\ r = [lines |-> StoredTo(from, to, d, b) \cup {<<b + 1, to>>}, next |-> to,
                         discard |-> FALSE, oversized |-> Cardinality(CountedTo(from, to, d, b))]
  BY <1>1, ScannedIs
<1>5. /\ \A q : q \in Ends(from, to) <=> q \in Newline /\ from < q /\ q <= to
      /\ Ends(from, to) = {} => \A q \in Newline : ~(from < q /\ q <= to)
  BY DEF Ends
<1> PICK S : S = StoredTo(from, to, d, b)
  OBVIOUS
<1> PICK N : N = CountedTo(from, to, d, b)
  OBVIOUS
<1> PICK c : c = Cardinality(N)
  OBVIOUS
<1>6. c \in Nat
  <2>1. N \in SUBSET Newline
    BY DEF CountedTo, Ends
  <2> QED
    BY <2>1, LongsFinite, FS_Subset, FS_CardinalityType
\* A chunk without a newline that is not dropped begins with a line.
<1>7. ASSUME ~(d /\ Ends(from, to) = {})
      PROVE  /\ Exact(a, D \cup S, n + c, b, FALSE)
             /\ (\A q \in Ends(from, to) : q <= b) => a <= b /\ b \in Starts
  <2>1. CASE b \in Ends(from, to)
    <3>1. Settled(a, D \cup S, n + c, b, FALSE) /\ a <= b /\ b \in Newline
      BY <2>1, ExactToEnd
    <3> QED
      BY <3>1 DEF Settled, Starts
  <2>2. CASE Ends(from, to) = {} /\ b = from
    <3>1. S = {} /\ N = {} /\ c = 0 /\ ~d
      BY <1>7, <2>2, FS_EmptySet DEF StoredTo, CountedTo
    <3>2. D \cup S = D /\ n + c = n /\ d = FALSE
      BY <1>1, <3>1
    <3>3. from + 1 \notin Newline
      BY <1>1, <1>5, <2>2
    <3>4. a <= from
      BY <1>1, <1>3, <3>1, <3>3 DEF Starts
    <3>5. from \in Starts
      BY <1>3, <3>1, <3>3
    <3> QED
      BY <2>2, <3>2, <3>4, <3>5
  <2> QED
    BY <1>4, <2>1, <2>2
<1>8. ASSUME \A q \in Ends(from, to) : q <= b
      PROVE  /\ \A q \in Newline : ~(b < q /\ q <= to)
             /\ b < to /\ ~more => to + 1 \in Newline
  <2>1. \A q \in Newline : ~(b < q /\ q <= to)
    BY <1>1, <1>4, <1>5, <1>8
  <2>2. b < to => to \notin Newline
    BY <1>1, <2>1
  <2> QED
    BY <1>2, <2>1, <2>2, Zenon DEF EndsLine
<1>9. CASE /\ ~(d /\ Ends(from, to) = {})
           /\ r = [lines |-> S, next |-> b, discard |-> FALSE, oversized |-> c]
  <2>1. r.lines = S /\ r.next = b /\ r.discard = FALSE /\ r.oversized = c
    BY <1>9
  <2>2. Exact(a, D \cup S, n + c, b, FALSE)
    BY <1>7, <1>9
  <2>3. Settled(a, D \cup S, n + c, b, FALSE)
    BY <2>2, Zenon DEF Settled
  <2> QED
    BY <2>1, <2>3, Zenon
<1>10. CASE /\ d /\ Ends(from, to) = {}
            /\ r = [lines |-> {}, next |-> to, discard |-> more, oversized |-> 0]
  <2>1. r = [lines |-> {}, next |-> to, discard |-> more, oversized |-> 0]
    BY <1>10, Zenon
  <2>2. r.lines = {} /\ r.next = to /\ r.discard = more /\ r.oversized = 0
    BY <2>1
  <2>3. D \cup r.lines = D /\ n + r.oversized = n /\ \A q \in Newline : ~(from < q /\ q <= to)
    BY <1>1, <1>5, <1>10, <2>2
  <2>4. d = TRUE
    BY <1>10
  <2>5. Exact(a, D, n, from, TRUE)
    BY <2>4, Zenon
  <2>6. Settled(a, D, n, to, TRUE) /\ (to + 1 \in Newline => Settled(a, D, n, to, FALSE))
    BY <2>3, <2>5, ExactDropped
  <2>7. to \notin Newline
    BY <1>1, <2>3
  <2>8. ~more => to + 1 \in Newline
    BY <1>2, <2>7, Zenon DEF EndsLine
  <2>9. more = TRUE \/ more = FALSE
    OBVIOUS
  <2> QED
    BY <2>2, <2>3, <2>6, <2>8, <2>9, Zenon
<1>11. CASE /\ ~(d /\ Ends(from, to) = {}) /\ \A q \in Ends(from, to) : q <= b
            /\ to - b > MaxLine
            /\ r = [lines |-> S, next |-> to, discard |-> more, oversized |-> c + 1]
  <2>1. r.lines = S /\ r.next = to /\ r.discard = more /\ r.oversized = c + 1
    BY <1>11
  <2>2. b < to /\ n + (c + 1) = (n + c) + 1
    BY <1>1, <1>6, <1>11
  <2>3. Exact(a, D \cup S, n + c, b, FALSE) /\ a <= b /\ b \in Starts
    BY <1>7, <1>11
  <2>4. /\ Settled(a, D \cup S, (n + c) + 1, to, TRUE)
        /\ to + 1 \in Newline => Settled(a, D \cup S, (n + c) + 1, to, FALSE)
    BY <1>8, <1>11, <2>2, <2>3, ExactInLine
  <2>5. ~more => to + 1 \in Newline
    BY <1>8, <1>11, <2>2
  <2>6. more = TRUE \/ more = FALSE
    OBVIOUS
  <2> QED
    BY <2>1, <2>2, <2>4, <2>5, <2>6, Zenon
<1>12. CASE /\ ~(d /\ Ends(from, to) = {}) /\ \A q \in Ends(from, to) : q <= b
            /\ to - b <= MaxLine /\ b < to /\ atEof
            /\ r = [lines |-> S \cup {<<b + 1, to>>}, next |-> to, discard |-> FALSE, oversized |-> c]
  <2>1. r = [lines |-> S \cup {<<b + 1, to>>}, next |-> to, discard |-> FALSE, oversized |-> c]
    BY <1>12, Zenon
  <2>2. r.lines = S \cup {<<b + 1, to>>} /\ r.next = to /\ r.discard = FALSE /\ r.oversized = c
    BY <2>1
  <2>3. to + 1 \in Newline
    BY <1>8, <1>12
  <2>4. Exact(a, D \cup S, n + c, b, FALSE) /\ a <= b /\ b \in Starts
    BY <1>7, <1>12
  <2>5. Settled(a, (D \cup S) \cup {<<b + 1, to>>}, n + c, to, FALSE)
    BY <1>8, <1>12, <2>3, <2>4, ExactInLine
  <2>6. D \cup r.lines = (D \cup S) \cup {<<b + 1, to>>}
    BY <2>2
  <2> QED
    BY <2>2, <2>5, <2>6, Zenon
<1> QED
  BY <1>4, <1>9, <1>10, <1>11, <1>12

-----------------------------------------------------------------------------
(* What a poll does to a calm log: every read goes on exactly where the    *)
(* last one that was stored ended.                                         *)

LEMMA NothingBetween ==
  ASSUME NEW a \in Nat, NEW b \in Nat, b <= a
  PROVE  Lines(a, b) = {} /\ Cardinality(Longs(a, b)) = 0
<1>1. \A q \in Newline : q \in Nat /\ Before(q) \in Nat
  BY BeforeLemma
<1>2. \A q \in Records(a) : q \in Newline /\ a <= Before(q) /\ Before(q) + 1 < q
  BY DEF Records
<1>3. \A q \in Records(a) : ~(q - 1 <= b) /\ ~(Before(q) < b)
  BY <1>1, <1>2
<1>4. {q \in Records(a) : q - 1 <= b /\ q - 1 - Before(q) <= MaxLine} = {}
  BY <1>3
<1>5. Longs(a, b) = {}
  BY <1>3 DEF Longs
<1> QED
  BY <1>4, <1>5, FS_EmptySet DEF Lines

LEMMA CalmKept ==
  ASSUME Calm, UNCHANGED <<disk, checkpoint, history>>
  PROVE  CalmFiles' /\ CalmCheckpoint'
<1>1. /\ Newest' = Newest /\ \A f : NameOf(f)' = NameOf(f) /\ Size(f)' = Size(f)
      /\ UNCHANGED <<owner, begin, end, writer, present, gone>>
  BY DEF disk, Newest, NameOf, Size
<1>2. CalmFiles'
  BY <1>1 DEF Calm, CalmFiles
<1>3. Position' = Position
  BY <1>1 DEF Position
<1>4. Settled(base, delivered, skips, Position, checkpoint.discard)
  BY DEF Calm, CalmCheckpoint
<1>5. Settled(base', delivered', skips', Position', checkpoint'.discard)
  BY <1>3, <1>4 DEF history
<1>6. CalmCheckpoint'
  BY <1>1, <1>5 DEF Calm, CalmCheckpoint, history
<1> QED
  BY <1>2, <1>6

\* The poll ends and stored nothing.
LEMMA CalmFinish ==
  ASSUME Calm, Finish, UNCHANGED <<disk, checkpoint, history>>
  PROVE  Calm'
BY CalmKept DEF Calm, Finish, CalmResolve, CalmRead, CalmCommit

LEMMA CalmPoll ==
  ASSUME ReaderInv, Calm, Poll
  PROVE  Calm'
<1>1. CalmFiles' /\ CalmCheckpoint'
  BY CalmKept DEF Poll
<1> PICK l : l = Log
  OBVIOUS
<1>2. seen' = Stat(l) /\ cp' = checkpoint /\ pc' = "resolve"
  BY DEF Poll
<1>3. seen'.inode = l /\ (l # NoFile => seen'.size = Size(l))
  BY <1>2 DEF Stat
<1>4. checkpoint.inode # NoFile => checkpoint.offset <= Size(checkpoint.inode)
  BY DEF Calm, CalmCheckpoint
<1>5. CalmResolve'
  BY <1>2, <1>3, <1>4 DEF CalmResolve
<1> QED
  BY <1>1, <1>2, <1>5 DEF Calm, CalmRead, CalmCommit

\* What a poll knows of a calm log when it chooses what to read.
LEMMA CalmResolving ==
  ASSUME ReaderInv, Calm, pc = "resolve", NEW i, i = checkpoint.inode
  PROVE  /\ cp = checkpoint /\ cp \in Row /\ Files /\ Newest \in 1 .. Newest /\ Newest \in Nat
         /\ i # NoFile => /\ cp.read /\ i \in 1 .. Newest
                          /\ i = Newest \/ (i + 1 = Newest /\ present)
                          /\ cp.source # 0 => /\ i + 1 = Newest /\ NameOf(i) = cp.source
                          /\ cp.offset <= Size(i)
                          /\ Settled(base, delivered, skips, begin[i] + cp.offset, cp.discard)
         /\ i = NoFile => /\ present /\ ~cp.discard /\ cp.offset = 0 /\ cp.source = 0
                          /\ cp.read => Settled(base, delivered, skips, begin[Newest], FALSE)
         /\ ~cp.read => /\ i = NoFile /\ delivered = {} /\ Newest = 1 /\ base = 0
                        /\ begin[Newest] = 0
         /\ i \in 1 .. Newest /\ i # Log => i \in Rotated
         /\ seen.inode # NoFile =>
              /\ present /\ Log = Newest /\ seen.inode = Newest
              /\ seen.size \in Nat /\ seen.size <= Size(Newest)
              /\ i = Newest => cp.offset <= seen.size
<1>1. /\ cp = checkpoint /\ cp \in Row /\ Files /\ Newest \in 1 .. Newest /\ Newest \in Nat
      /\ i # NoFile => i \in 1 .. Newest
      /\ i = NoFile => cp.offset = 0 /\ cp.source = 0
      /\ ~cp.read => delivered = {}
      /\ seen.inode # NoFile =>
           /\ seen.inode = Newest /\ present /\ Log = Newest
           /\ seen.size \in 0 .. Size(Newest)
  BY Resolving
<1>2. /\ i # NoFile => /\ checkpoint.read
                       /\ i = Newest \/ (i + 1 = Newest /\ present)
                       /\ checkpoint.source # 0 => i + 1 = Newest /\ NameOf(i) = checkpoint.source
                       /\ checkpoint.offset <= Size(i)
      /\ i = NoFile => present /\ ~checkpoint.discard
      /\ ~checkpoint.read => Newest = 1 /\ base = 0
      /\ Settled(base, delivered, skips, Position, checkpoint.discard)
      /\ gone = {} /\ begin[1] = 0
  BY DEF Calm, CalmCheckpoint, CalmFiles
<1>3. i # NoFile => Settled(base, delivered, skips, begin[i] + cp.offset, cp.discard)
  BY <1>1, <1>2 DEF Position
<1>4. i = NoFile /\ cp.read => Settled(base, delivered, skips, begin[Newest], FALSE)
  <2>1. checkpoint.discard \in BOOLEAN
    BY <1>1 DEF Row
  <2>2. i = NoFile => checkpoint.discard = FALSE
    BY <1>2, <2>1, Zenon
  <2>3. i = NoFile /\ cp.read => Position = begin[Newest]
    BY <1>1 DEF Position
  <2> QED
    BY <1>2, <2>2, <2>3
<1>5. i \in 1 .. Newest /\ i # Log => i \in Rotated
  BY <1>2 DEF Rotated
<1>6. seen.inode # NoFile =>
        /\ seen.size \in Nat /\ seen.size <= Size(Newest)
        /\ i = Newest => cp.offset <= seen.size
  <2>1. seen.inode # NoFile => seen.size \in Nat /\ seen.size <= Size(Newest)
    BY <1>1, FilesTypes DEF Size
  <2> QED
    BY <1>1, <2>1 DEF Calm, CalmResolve
<1> QED
  BY <1>1, <1>2, <1>3, <1>4, <1>5, <1>6

\* It is decided what to read.
LEMMA CalmToRead ==
  ASSUME Calm, UNCHANGED <<disk, checkpoint, history>>, pc' = "read", present,
         NEW t, t = target', NEW c, c = cp', NEW f, f = t.stat.inode,
         t.tail => f + 1 = Newest /\ t.stat.size = Size(f) /\ c.source # 0,
         ~t.tail => f = Newest,
         t.gap >= 0 => delivered = {},
         t.start <= t.stat.size,
         Exact(IF t.gap >= 0 THEN t.gap ELSE base, delivered, IF t.gap >= 0 THEN 0 ELSE skips,
               begin[f] + t.start, c.discard),
         c.discard /\ begin[f] + t.start \in Newline => Available' > 0
  PROVE  Calm'
<1>1. /\ Newest' = Newest /\ \A g : Size(g)' = Size(g)
      /\ UNCHANGED <<begin, present, delivered, base, skips>>
  BY DEF disk, Newest, Size, history
<1>2. Exact(From', delivered', Skipped', begin'[f] + t.start, c.discard)
  BY <1>1 DEF From, Skipped
<1>3. CalmRead'
  BY <1>1, <1>2 DEF CalmRead
<1> QED
  BY <1>3, CalmKept DEF Calm, CalmResolve, CalmCommit

LEMMA CalmResumeTail ==
  ASSUME ReaderInv, Calm, ResumeTail
  PROVE  Calm'
<1> PICK i : i = checkpoint.inode
  OBVIOUS
<1>1. pc = "resolve" /\ cp.source # 0 /\ cp.inode \in Rotated /\ cp.inode # NoFile
  BY NamedIsRotated DEF ResumeTail, Resumable
<1>2. /\ cp.inode = i /\ cp.offset <= Size(i) /\ i + 1 = Newest
      /\ Settled(base, delivered, skips, begin[i] + cp.offset, cp.discard)
      /\ Newest \in Nat /\ i \in 1 .. Newest
      /\ i = Newest \/ present
  BY <1>1, CalmResolving
<1>3. present
  BY <1>2
<1>4. /\ cp' = cp /\ pc' = "read" /\ UNCHANGED <<disk, checkpoint, history>>
      /\ target' = [stat |-> Stat(i), start |-> cp.offset, tail |-> TRUE, gap |-> -1]
  BY <1>2 DEF ResumeTail, ReadFrom
<1>5. Stat(i).inode = i /\ Stat(i).size = Size(i)
  BY <1>1, <1>2 DEF Stat
<1>6. /\ target'.stat.inode = i /\ target'.stat.size = Size(i) /\ target'.start = cp.offset
      /\ target'.tail = TRUE /\ target'.gap = -1
  BY <1>4, <1>5
<1>7. Exact(base, delivered, skips, begin[i] + cp.offset, cp.discard)
      /\ (cp.discard => begin[i] + cp.offset \notin Newline)
  BY <1>2 DEF Settled
<1>8. Exact(IF target'.gap >= 0 THEN target'.gap ELSE base, delivered,
            IF target'.gap >= 0 THEN 0 ELSE skips, begin[i] + target'.start, cp'.discard)
  BY <1>4, <1>6, <1>7
<1> QED
  BY <1>1, <1>2, <1>3, <1>4, <1>6, <1>7, <1>8, CalmToRead

LEMMA CalmResolveTail ==
  ASSUME ReaderInv, Calm, ResolveTail
  PROVE  Calm'
<1> PICK i : i = checkpoint.inode
  OBVIOUS
<1> PICK n : n = NameOf(i)
  OBVIOUS
<1>1. /\ pc = "resolve" /\ seen.inode # NoFile
      /\ Resumed.inode # NoFile /\ Resumed.inode # seen.inode
  BY DEF ResolveTail, Rotation
<1>2. cp = checkpoint /\ cp \in Row
  BY <1>1, CalmResolving
<1>3. cp.source = 0 /\ cp.inode = i /\ i # NoFile /\ i # seen.inode
  BY <1>1, <1>2 DEF Resumed, Forget, Row, NoFile
<1>4. /\ cp.offset <= Size(i) /\ present /\ i + 1 = Newest
      /\ Settled(base, delivered, skips, begin[i] + cp.offset, cp.discard)
      /\ Newest \in Nat /\ i \in 1 .. Newest /\ Files
  BY <1>1, <1>3, CalmResolving
<1>5. i \in Rotated /\ n # 0
  <2>1. i \in Rotated
    BY <1>3 DEF ResolveTail
  <2> QED
    BY <1>4, <2>1, RotatedIsNamed
<1>6. /\ cp' = [cp EXCEPT !.source = n] /\ pc' = "read" /\ UNCHANGED <<disk, checkpoint, history>>
      /\ target' = [stat |-> Stat(i), start |-> cp.offset, tail |-> TRUE, gap |-> -1]
  BY <1>3 DEF ResolveTail, ReadFrom
<1>7. Stat(i).inode = i /\ Stat(i).size = Size(i)
  BY <1>3 DEF Stat
<1>8. /\ target'.stat.inode = i /\ target'.stat.size = Size(i) /\ target'.start = cp.offset
      /\ target'.tail = TRUE /\ target'.gap = -1
      /\ cp'.source = n /\ cp'.discard = cp.discard
  BY <1>2, <1>6, <1>7 DEF Row
<1>9. Exact(base, delivered, skips, begin[i] + cp.offset, cp.discard)
      /\ (cp.discard => begin[i] + cp.offset \notin Newline)
  BY <1>4 DEF Settled
<1>10. Exact(IF target'.gap >= 0 THEN target'.gap ELSE base, delivered,
             IF target'.gap >= 0 THEN 0 ELSE skips, begin[i] + target'.start, cp'.discard)
  BY <1>8, <1>9
<1>11. /\ present /\ i + 1 = Newest /\ cp'.source # 0 /\ cp.offset <= Size(i)
       /\ cp'.discard => begin[i] + target'.start \notin Newline
  BY <1>4, <1>5, <1>8, <1>9
<1>12. pc' = "read" /\ UNCHANGED <<disk, checkpoint, history>>
  BY <1>6
<1> QED
  BY <1>8, <1>10, <1>11, <1>12, CalmToRead

\* The file of the checkpoint is always found.
LEMMA CalmResolveLost ==
  ASSUME ReaderInv, Calm, ResolveLost
  PROVE  Calm'
<1> PICK i : i = checkpoint.inode
  OBVIOUS
<1>1. /\ pc = "resolve" /\ seen.inode # NoFile /\ cp.inode \notin Rotated
      /\ Resumed.inode # NoFile /\ Resumed.inode # seen.inode
  BY DEF ResolveLost, Rotation
<1>2. cp = checkpoint /\ cp \in Row
  BY <1>1, CalmResolving
<1>3. cp.inode = i /\ i # NoFile /\ i # seen.inode
  BY <1>1, <1>2 DEF Resumed, Forget, Row, NoFile
<1>4. i \in Rotated
  BY <1>1, <1>3, CalmResolving
<1> QED
  BY <1>1, <1>3, <1>4

\* After the gap of a first read nothing is passed yet.
LEMMA ClippedExact ==
  ASSUME NEW P \in 0 .. Last, P < Last
  PROVE  Exact(NextLine(P), {}, 0, P, TRUE) /\ NextLine(P) \in Nat
<1> DEFINE S == {p \in Newline : p > P} \cup {Last}
<1>1. Last \in Nat /\ P \in Nat /\ Last \in Newline /\ \A q \in Newline : q \in Nat /\ q <= Last
  BY StreamAssumption
<1>2. S \in SUBSET Nat /\ S # {}
  BY <1>1
<1>3. MinOf(S) \in S /\ \A y \in S : MinOf(S) <= y
  <2> HIDE DEF S
  <2> QED
    BY <1>2, MinOfIsLeast
<1> PICK a : a = NextLine(P)
  OBVIOUS
<1>4. a = MinOf(S)
  BY DEF NextLine
<1>5. a \in Newline /\ a \in Nat /\ P < a /\ \A q \in Newline : P < q => a <= q
  BY <1>1, <1>3, <1>4
<1>6. Lines(a, P) = {} /\ Cardinality(Longs(a, P)) = 0
  BY <1>1, <1>5, NothingBetween
<1>7. Placed(a, P, TRUE)
  <2>1. ~(a <= P)
    BY <1>1, <1>5
  <2> QED
    BY <1>5, <2>1 DEF Placed, Starts
<1> QED
  BY <1>5, <1>6, <1>7, Zenon DEF Exact

LEMMA CalmResolveClipped ==
  ASSUME ReaderInv, Calm, ResolveClipped
  PROVE  Calm'
<1> PICK o : o = seen.size - Bootstrap
  OBVIOUS
<1> PICK gap : gap = NextLine(begin[seen.inode] + o)
  OBVIOUS
<1>1. pc = "resolve" /\ seen.inode # NoFile /\ ~cp.read /\ seen.size > Bootstrap
  BY DEF ResolveClipped, Clipped
<1>2. /\ cp = checkpoint /\ cp \in Row /\ Files /\ present
      /\ delivered = {} /\ Newest = 1 /\ begin[Newest] = 0 /\ seen.inode = Newest
      /\ seen.size \in Nat /\ seen.size <= Size(Newest)
  BY <1>1, CalmResolving
<1>3. /\ Size(Newest) \in Int /\ Size(Newest) <= Last /\ Last \in Nat /\ Bootstrap \in Nat /\ Bootstrap > 0
      /\ MaxBytes \in Nat /\ MaxBytes > 0
  <2>1. Newest \in 1 .. Newest /\ begin[Newest] \in Int /\ end[Newest] \in Int
        /\ begin[Newest] = 0 /\ end[Newest] <= Last
    BY <1>2, FilesTypes
  <2> QED
    BY <2>1, StreamAssumption, LimitAssumption DEF Size
<1>4. o \in 0 .. Last /\ o < Last /\ o < seen.size /\ o \in Nat /\ begin[Newest] + o = o
  BY <1>1, <1>2, <1>3
<1>5. Exact(gap, {}, 0, o, TRUE) /\ gap \in Nat
  BY <1>2, <1>4, ClippedExact
<1>6. /\ cp' = [Resumed EXCEPT !.offset = o, !.discard = TRUE]
      /\ pc' = "read" /\ UNCHANGED <<disk, checkpoint, history>>
      /\ target' = [stat |-> seen, start |-> o, tail |-> FALSE, gap |-> gap]
  BY DEF ResolveClipped, ReadFrom
<1>7. /\ target'.stat = seen /\ target'.start = o /\ target'.tail = FALSE /\ target'.gap = gap
  BY <1>6
<1>8. cp'.discard = TRUE
  <2>1. Resumed \in Row
    BY <1>2, ForgetRow DEF Resumed
  <2> QED
    BY <1>6, <2>1 DEF Row
<1>9. Exact(IF target'.gap >= 0 THEN target'.gap ELSE base, delivered,
            IF target'.gap >= 0 THEN 0 ELSE skips, begin[Newest] + target'.start, cp'.discard)
  <2>1. target'.gap >= 0 /\ begin[Newest] + target'.start = o
    BY <1>4, <1>5, <1>7
  <2> QED
    BY <1>2, <1>5, <1>7, <1>8, <2>1
<1>10. Available' > 0
  <2>1. target'.stat.size - target'.start \in Nat /\ target'.stat.size - target'.start > 0
    BY <1>2, <1>4, <1>7
  <2> QED
    BY <1>3, <2>1 DEF Available
<1>11. target'.start <= target'.stat.size /\ target'.stat.inode = Newest /\ ~target'.tail
  BY <1>2, <1>4, <1>7
<1>12. pc' = "read" /\ UNCHANGED <<disk, checkpoint, history>>
  BY <1>6
<1> QED
  BY <1>2, <1>9, <1>10, <1>11, <1>12, CalmToRead

LEMMA CalmResolveLog ==
  ASSUME ReaderInv, Calm, ResolveLog
  PROVE  Calm'
<1> PICK i : i = checkpoint.inode
  OBVIOUS
<1>1. /\ pc = "resolve" /\ seen.inode # NoFile /\ ~Resumable
      /\ Resumed.inode = NoFile \/ Resumed.inode = seen.inode
  BY DEF ResolveLog, Rotation
<1>2. /\ cp = checkpoint /\ cp \in Row /\ cp.inode = i /\ Newest \in 1 .. Newest /\ Newest \in Nat
      /\ present /\ Log = Newest /\ seen.inode = Newest /\ Files
      /\ seen.size \in Nat /\ seen.size <= Size(Newest)
  BY <1>1, CalmResolving
\* The rotated file of an earlier poll could have been resumed.
<1>3. cp.source = 0
  <2> SUFFICES ASSUME cp.source # 0 PROVE FALSE
    OBVIOUS
  <2>1. i \in 1 .. Newest /\ i + 1 = Newest /\ NameOf(i) = cp.source
    BY <1>1, CalmResolving
  <2>2. i # Log
    BY <1>2, <2>1
  <2>3. i \in Rotated
    BY <1>1, <2>1, <2>2, CalmResolving
  <2>4. FileNamed(cp.source) = i /\ i # NoFile
    BY <1>2, <2>1, <2>3, RotatedIsNamed DEF NoFile
  <2> QED
    BY <1>1, <1>2, <2>4 DEF Resumable
<1>4. Resumed = cp /\ (i = NoFile \/ i = Newest)
  BY <1>1, <1>2, <1>3 DEF Resumed
<1>5. cp.offset \in Nat /\ cp.offset <= seen.size
  <2>1. cp.offset \in Nat
    BY <1>2, StreamAssumption DEF Row
  <2>2. i = Newest => cp.offset <= seen.size
    BY <1>1, CalmResolving
  <2>3. CASE i = NoFile
    <3>1. cp.offset = 0
      BY <1>1, <2>3, CalmResolving
    <3> QED
      BY <1>2, <3>1
  <2> QED
    BY <1>4, <2>1, <2>2, <2>3
<1> PICK gap : gap = IF ~cp.read THEN begin[Newest] ELSE -1
  OBVIOUS
<1>6. /\ cp' = cp /\ pc' = "read" /\ UNCHANGED <<disk, checkpoint, history>>
      /\ target' = [stat |-> seen, start |-> cp.offset, tail |-> FALSE, gap |-> gap]
  <2>1. ~(seen.size < Resumed.offset)
    BY <1>2, <1>4, <1>5
  <2>2. ResumedGap = gap
    BY <1>2, <1>3 DEF ResumedGap
  <2> QED
    BY <1>4, <2>1, <2>2 DEF ResolveLog, ReadFrom
<1>7. /\ target'.stat = seen /\ target'.start = cp.offset /\ target'.tail = FALSE /\ target'.gap = gap
  BY <1>6
<1>8. ASSUME cp.read
      PROVE  /\ gap = -1 /\ Settled(base, delivered, skips, begin[Newest] + cp.offset, cp.discard)
  <2>1. gap = -1
    BY <1>8
  <2>2. begin[Newest] \in Int
    BY <1>2, FilesTypes
  <2>3. CASE i = Newest
    BY <1>1, <1>2, <2>1, <2>3, CalmResolving, FilesTypes DEF NoFile
  <2>4. CASE i = NoFile
    <3>1. ~cp.discard /\ cp.offset = 0 /\ Settled(base, delivered, skips, begin[Newest], FALSE)
      BY <1>1, <1>8, <2>4, CalmResolving
    <3>2. cp.discard \in BOOLEAN
      BY <1>2 DEF Row
    <3>3. cp.discard = FALSE
      BY <3>1, <3>2, Zenon
    <3>4. begin[Newest] + cp.offset = begin[Newest]
      BY <2>2, <3>1
    <3> QED
      BY <2>1, <3>1, <3>3, <3>4
  <2> QED
    BY <1>4, <2>3, <2>4
<1>9. ASSUME ~cp.read
      PROVE  /\ gap = 0 /\ delivered = {} /\ ~cp.discard
             /\ Exact(0, delivered, 0, begin[Newest] + cp.offset, cp.discard)
  <2>1. /\ delivered = {} /\ begin[Newest] = 0 /\ gap = 0
        /\ ~cp.discard /\ cp.offset = 0
    BY <1>1, <1>9, CalmResolving
  <2>2. cp.discard \in BOOLEAN
    BY <1>2 DEF Row
  <2>3. cp.discard = FALSE
    BY <2>1, <2>2, Zenon
  <2>4. Placed(0, 0, FALSE)
    BY StreamAssumption DEF Placed, Starts
  <2>5. Exact(0, {}, 0, 0, FALSE)
    <3>1. Lines(0, 0) = {} /\ Cardinality(Longs(0, 0)) = 0
      BY NothingBetween
    <3> QED
      BY <2>4, <3>1, Zenon DEF Exact
  <2>6. begin[Newest] + cp.offset = 0
    BY <2>1
  <2> QED
    BY <2>1, <2>3, <2>5, <2>6
<1>10. Exact(IF target'.gap >= 0 THEN target'.gap ELSE base, delivered,
             IF target'.gap >= 0 THEN 0 ELSE skips, begin[Newest] + target'.start, cp'.discard)
  <2>1. CASE cp.read
    <3>1. Exact(base, delivered, skips, begin[Newest] + cp.offset, cp.discard) /\ gap = -1
      BY <1>8, <2>1 DEF Settled
    <3> QED
      BY <1>6, <1>7, <3>1
  <2>2. CASE ~cp.read
    BY <1>6, <1>7, <1>9, <2>2
  <2> QED
    BY <2>1, <2>2
<1>11. cp'.discard => begin[Newest] + target'.start \notin Newline
  <2>1. cp.read /\ cp.discard => begin[Newest] + cp.offset \notin Newline
    BY <1>8 DEF Settled
  <2> QED
    BY <1>6, <1>7, <1>9, <2>1
<1>12. target'.gap >= 0 => delivered = {}
  BY <1>7, <1>8, <1>9
<1>13. target'.start <= target'.stat.size /\ target'.stat.inode = Newest /\ ~target'.tail
  BY <1>2, <1>5, <1>7
<1>14. pc' = "read" /\ UNCHANGED <<disk, checkpoint, history>>
  BY <1>6
<1> QED
  BY <1>2, <1>10, <1>11, <1>12, <1>13, <1>14, CalmToRead

\* What a poll knows of a calm log when it reads.
LEMMA CalmReading ==
  ASSUME ReaderInv, Calm, pc \in {"read", "commit"}, NEW f, f = target.stat.inode
  PROVE  /\ present /\ f \in 1 .. Newest /\ Newest \in Nat
         /\ target.tail => f + 1 = Newest /\ target.stat.size = Size(f) /\ cp.source # 0
         /\ target.tail => f \in Rotated /\ NameOf(f) = cp.source
         /\ ~target.tail => f = Newest
         /\ target.gap >= 0 => delivered = {}
         /\ target.start \in Nat /\ target.stat.size \in Nat
         /\ target.start <= target.stat.size /\ target.stat.size <= Size(f)
         /\ Exact(From, delivered, Skipped, begin[f] + target.start, cp.discard)
         /\ cp.discard /\ begin[f] + target.start \in Newline => Available > 0
         /\ begin[f] \in Nat /\ end[f] \in Nat /\ end[f] <= Last /\ Last \in Nat
         /\ Size(f) = end[f] - begin[f] /\ Size(f) \in Nat
         /\ cp.discard \in BOOLEAN /\ cp \in Row
         /\ f < Newest => begin[f + 1] = end[f] /\ EndsLine(end[f])
<1>1. /\ f \in 1 .. Newest /\ cp \in Row
      /\ target.stat.size \in Nat /\ target.stat.size <= Size(f)
      /\ target.tail => f \in Rotated /\ NameOf(f) = cp.source
      /\ target.start \in Nat /\ Last \in Nat
      /\ begin[f] \in Int /\ end[f] \in Int
      /\ 0 <= begin[f] /\ begin[f] <= end[f] /\ end[f] <= Last
  BY Reading
<1>2. /\ present
      /\ target.tail => f + 1 = Newest /\ target.stat.size = Size(f) /\ cp.source # 0
      /\ ~target.tail => f = Newest
      /\ target.gap >= 0 => delivered = {}
      /\ target.start <= target.stat.size
      /\ Exact(From, delivered, Skipped, begin[f] + target.start, cp.discard)
      /\ cp.discard /\ begin[f] + target.start \in Newline => Available > 0
  BY DEF Calm, CalmRead
<1>3. f < Newest => begin[f + 1] = end[f] /\ EndsLine(end[f])
  BY <1>1 DEF Calm, CalmFiles
<1>4. Newest \in Nat
  BY FilesTypes DEF ReaderInv
<1>5. cp.discard \in BOOLEAN
  BY <1>1 DEF Row
<1>6. Size(f) = end[f] - begin[f] /\ Size(f) \in Nat
  BY <1>1 DEF Size
<1> QED
  BY <1>1, <1>2, <1>3, <1>4, <1>5, <1>6

\* It is decided what to commit.
LEMMA CalmToCommit ==
  ASSUME Calm, pc = "read", pc' = "commit",
         UNCHANGED <<disk, checkpoint, cp, seen, target, history>>,
         NEW f, f = target.stat.inode, NEW s, s = scan',
         target.start <= s.next, s.next <= Size(f),
         Settled(From, delivered \cup s.lines, Skipped + s.oversized, begin[f] + s.next, s.discard)
  PROVE  Calm'
<1>1. /\ Newest' = Newest /\ \A g : Size(g)' = Size(g)
      /\ UNCHANGED <<begin, present, delivered, base, skips>>
      /\ From' = From /\ Skipped' = Skipped /\ Available' = Available
  BY DEF disk, Newest, Size, history, From, Skipped, Available
<1>2. CalmRead'
  <2>1. Exact(From', delivered', Skipped', begin'[f] + target'.start, cp'.discard)
    BY <1>1 DEF Calm, CalmRead
  <2> QED
    BY <1>1, <2>1 DEF Calm, CalmRead
<1>3. CalmCommit'
  <2>1. Settled(From', delivered' \cup s.lines, Skipped' + s.oversized, begin'[f] + s.next, s.discard)
    BY <1>1
  <2> QED
    BY <1>1, <2>1 DEF CalmCommit
<1> QED
  BY <1>2, <1>3, CalmKept DEF Calm, CalmResolve

LEMMA CalmReadNothing ==
  ASSUME ReaderInv, Calm, ReadNothing
  PROVE  Calm'
<1> PICK f : f = target.stat.inode
  OBVIOUS
<1>1. /\ pc = "read" /\ pc' = "commit" /\ Available = 0
      /\ UNCHANGED <<disk, checkpoint, cp, seen, target, history>>
      /\ scan' = [lines |-> {}, next |-> target.start, discard |-> cp.discard, oversized |-> 0]
  BY DEF ReadNothing, NoScan
<1>2. /\ target.start \in Nat /\ target.stat.size \in Nat /\ Size(f) \in Nat
      /\ target.start <= target.stat.size /\ target.stat.size <= Size(f)
      /\ Exact(From, delivered, Skipped, begin[f] + target.start, cp.discard)
      /\ cp.discard /\ begin[f] + target.start \in Newline => Available > 0
  BY <1>1, CalmReading
<1>3. cp.discard => begin[f] + target.start \notin Newline
  BY <1>1, <1>2
<1>4. /\ scan'.lines = {} /\ scan'.next = target.start /\ scan'.oversized = 0
      /\ scan'.discard = cp.discard
  BY <1>1
<1>5. delivered \cup scan'.lines = delivered /\ Skipped + scan'.oversized = Skipped
  <2>1. Skipped \in Nat
    BY <1>2, LongsFinite DEF Exact
  <2> QED
    BY <1>4, <2>1
<1>6. Settled(From, delivered \cup scan'.lines, Skipped + scan'.oversized,
              begin[f] + scan'.next, scan'.discard)
  BY <1>2, <1>3, <1>4, <1>5 DEF Settled
<1> QED
  BY <1>1, <1>2, <1>4, <1>6, CalmToCommit

\* A chunk lies within what was written, and only the end of a renamed file is
\* taken for the end of a line.
LEMMA CalmReadChunk ==
  ASSUME ReaderInv, Calm, ReadChunk
  PROVE  Calm'
<1> PICK f : f = target.stat.inode
  OBVIOUS
<1> DEFINE from == begin[f] + target.start
           least == MinOf({from + Available, end[f]})
           to == MaxOf({from, least})
           atEof == target.tail /\ target.start + (to - from) >= target.stat.size
           r == Scan[<<from, to, cp.discard, atEof>>]
<1>1. pc = "read" /\ Opened = f /\ Available > 0
  BY OpensTarget DEF ReadChunk
<1>2. /\ scan' = [r EXCEPT !.next = target.start + (r.next - from)]
      /\ pc' = "commit" /\ UNCHANGED <<disk, checkpoint, cp, seen, target, history>>
  BY <1>1 DEF ReadChunk
<1>3. /\ f \in 1 .. Newest /\ Newest \in Nat
      /\ target.tail => f + 1 = Newest /\ target.stat.size = Size(f)
      /\ target.start \in Nat /\ target.stat.size \in Nat
      /\ target.start <= target.stat.size /\ target.stat.size <= Size(f)
      /\ Exact(From, delivered, Skipped, from, cp.discard)
      /\ begin[f] \in Nat /\ end[f] \in Nat /\ end[f] <= Last /\ Last \in Nat
      /\ Size(f) = end[f] - begin[f] /\ Size(f) \in Nat
      /\ cp.discard \in BOOLEAN
      /\ f < Newest => EndsLine(end[f])
  BY <1>1, CalmReading
<1>4. Available \in Nat /\ Available <= target.stat.size - target.start
  BY <1>1, <1>3, LimitAssumption DEF Available
<1>5. from \in Nat /\ from + Available <= end[f] /\ from + Available \in Nat /\ from < from + Available
  BY <1>1, <1>3, <1>4
<1> HIDE DEF from
<1>6. least = from + Available
  <2> DEFINE S == {from + Available, end[f]}
  <2>1. S \in SUBSET Nat /\ S # {}
    BY <1>3, <1>5
  <2>2. MinOf(S) \in S /\ \A y \in S : MinOf(S) <= y
    <3> HIDE DEF S
    <3> QED
      BY <2>1, MinOfIsLeast
  <2>3. MinOf(S) \in {from + Available, end[f]} /\ MinOf(S) <= from + Available
    BY <2>2
  <2> QED
    BY <1>3, <1>5, <2>3
<1>7. to = from + Available
  <2> DEFINE S == {from, from + Available}
  <2>1. S \in SUBSET (0 .. Last) /\ S # {} /\ Last \in Nat
    BY <1>3, <1>5
  <2>2. MaxOf(S) \in S /\ \A y \in S : y <= MaxOf(S)
    <3> HIDE DEF S
    <3> QED
      BY <2>1, MaxOfIsGreatest
  <2>3. MaxOf(S) \in {from, from + Available} /\ from + Available <= MaxOf(S)
    BY <2>2
  <2>4. to = MaxOf(S)
    BY <1>6
  <2> HIDE DEF S, to
  <2> QED
    BY <1>5, <2>3, <2>4
<1> HIDE DEF least, to
<1>8. to \in 0 .. Last /\ to \in Nat /\ from < to /\ to <= end[f] /\ from \in 0 .. 2 * Last
      /\ to \in 0 .. 2 * Last
  BY <1>3, <1>5, <1>7
<1>9. atEof => EndsLine(to)
  <2> SUFFICES ASSUME atEof PROVE EndsLine(to)
    OBVIOUS
  <2>1. target.tail /\ target.start + (to - from) >= target.stat.size
    OBVIOUS
  <2>2. f < Newest /\ target.stat.size = end[f] - begin[f]
    BY <1>3, <2>1
  <2>3. to >= end[f]
    BY <1>3, <1>8, <2>1, <2>2 DEF from
  <2>4. to = end[f]
    BY <1>3, <1>8, <2>3
  <2> QED
    BY <1>3, <2>2, <2>4
<1>10. atEof \in BOOLEAN
  OBVIOUS
<1> HIDE DEF atEof
<1>11. r = Scanned(from, to, cp.discard, atEof)
  BY <1>3, <1>8, <1>10 DEF Scan
<1>12. ScanResult(from, to, r)
  BY <1>3, <1>8, <1>10, <1>11, ScanLemma
<1>13. Settled(From, delivered \cup r.lines, Skipped + r.oversized, r.next, r.discard)
  BY <1>3, <1>8, <1>9, <1>10, <1>11, ScanAligned
<1> HIDE DEF r
<1>14. /\ scan'.lines = r.lines /\ scan'.discard = r.discard /\ scan'.oversized = r.oversized
       /\ scan'.next = target.start + (r.next - from)
  <2>1. r = [lines |-> r.lines, next |-> r.next, discard |-> r.discard, oversized |-> r.oversized]
    BY <1>12 DEF ScanResult
  <2> QED
    BY <1>2, <2>1
<1>15. r.next \in Nat /\ from <= r.next /\ r.next <= to
  BY <1>5, <1>8, <1>12 DEF ScanResult
<1>16. begin[f] + scan'.next = r.next /\ target.start <= scan'.next /\ scan'.next <= Size(f)
  BY <1>3, <1>8, <1>14, <1>15 DEF from
<1> QED
  BY <1>1, <1>2, <1>13, <1>14, <1>16, CalmToCommit

\* A file left at its end: there is no more of a line to drop.
LEMMA NothingToDrop ==
  ASSUME NEW a, NEW D, NEW n, NEW P, NEW d \in BOOLEAN, Settled(a, D, n, P, d), EndsLine(P)
  PROVE  Settled(a, D, n, P, FALSE)
<1>1. CASE d = FALSE
  BY <1>1, Zenon
<1>2. CASE d = TRUE
  <2>1. /\ P \notin Newline /\ P + 1 \in Newline /\ Placed(a, P, TRUE)
        /\ D = Lines(a, P) /\ n = Cardinality(Longs(a, P))
    BY <1>2, Zenon DEF Settled, Exact, EndsLine
  <2>2. P \in Nat /\ a \in Nat
    BY <2>1, StreamAssumption DEF Placed, Starts
  <2>3. Placed(a, P, FALSE)
    BY <2>1, <2>2 DEF Placed
  <2> QED
    BY <2>1, <2>3, Zenon DEF Settled, Exact
<1> QED
  BY <1>1, <1>2

LEMMA CalmCommitStep ==
  ASSUME ReaderInv, Calm, Commit
  PROVE  Calm'
<1> PICK f : f = target.stat.inode
  OBVIOUS
<1> PICK P : P = begin[f] + scan.next
  OBVIOUS
<1>1. /\ pc = "commit" /\ Finish /\ UNCHANGED disk
      /\ checkpoint' = IF Drained THEN [Forget EXCEPT !.read = TRUE]
                       ELSE [inode   |-> f,
                             offset  |-> scan.next,
                             discard |-> scan.discard,
                             source  |-> IF target.tail THEN cp.source ELSE 0,
                             read    |-> TRUE]
      /\ delivered' = delivered \cup scan.lines
      /\ skips' = Skipped + scan.oversized /\ base' = From
  BY DEF Commit, From, Skipped
<1>2. /\ f \in 1 .. Newest /\ Newest \in Nat /\ present /\ cp \in Row
      /\ target.tail => f + 1 = Newest /\ target.stat.size = Size(f) /\ NameOf(f) = cp.source
      /\ ~target.tail => f = Newest
      /\ begin[f] \in Nat /\ end[f] \in Nat
      /\ Size(f) = end[f] - begin[f] /\ Size(f) \in Nat
      /\ f < Newest => begin[f + 1] = end[f] /\ EndsLine(end[f])
  BY <1>1, CalmReading
<1>3. /\ scan.next <= Size(f) /\ Settled(base', delivered', skips', P, scan.discard)
      /\ scan.discard \in BOOLEAN /\ scan.next \in Nat
  <2>1. scan.discard \in BOOLEAN /\ scan.next \in Nat
    BY <1>1, StreamAssumption DEF ReaderInv, CommitHolds
  <2> QED
    BY <1>1, <2>1 DEF Calm, CalmCommit
<1>4. /\ Newest' = Newest /\ \A g : NameOf(g)' = NameOf(g) /\ Size(g)' = Size(g)
      /\ UNCHANGED <<owner, begin, end, writer, present, gone>>
  BY <1>1 DEF disk, Newest, NameOf, Size
<1>5. CalmFiles'
  BY <1>4 DEF Calm, CalmFiles
<1>6. CalmCheckpoint'
  <2>1. CASE Drained
    <3>1. target.tail /\ scan.next >= target.stat.size
      BY <2>1 DEF Drained
    <3>2. P = end[f] /\ end[f] = begin[Newest] /\ EndsLine(P)
      BY <1>2, <1>3, <3>1
    <3>3. Settled(base', delivered', skips', P, FALSE)
      BY <1>3, <3>2, NothingToDrop
    <3>4. /\ checkpoint'.inode = NoFile /\ checkpoint'.discard = FALSE /\ checkpoint'.read = TRUE
      BY <1>1, <1>2, <2>1 DEF Forget, Row
    <3>5. Position' = P
      BY <1>4, <3>2, <3>4 DEF Position
    <3>6. Settled(base', delivered', skips', Position', checkpoint'.discard)
      BY <3>3, <3>4, <3>5
    <3> QED
      BY <1>2, <1>4, <3>4, <3>6 DEF CalmCheckpoint
  <2>2. CASE ~Drained
    <3>1. /\ checkpoint'.inode = f /\ checkpoint'.offset = scan.next
          /\ checkpoint'.discard = scan.discard /\ checkpoint'.read = TRUE
          /\ checkpoint'.source # 0 => target.tail /\ checkpoint'.source = cp.source
      BY <1>1, <2>2
    <3>2. f # NoFile
      BY <1>2 DEF NoFile
    <3>3. Position' = P
      BY <1>4, <3>1, <3>2 DEF Position
    <3>4. Settled(base', delivered', skips', Position', checkpoint'.discard)
      BY <1>3, <3>1, <3>3
    <3> QED
      BY <1>2, <1>3, <1>4, <3>1, <3>2, <3>4 DEF CalmCheckpoint
  <2> QED
    BY <2>1, <2>2
<1> QED
  BY <1>1, <1>5, <1>6 DEF Calm, Finish, CalmResolve, CalmRead, CalmCommit

-----------------------------------------------------------------------------
(* What the owner of a calm log does: append, rename, create.              *)

LEMMA CalmWrite ==
  ASSUME ReaderInv, Calm, owner = {}, NEW n \in 1 .. Last, Write(n)
  PROVE  Calm'
<1>1. Newest \in Nat /\ Newest \in 1 .. Newest /\ writer = Newest
  BY FilesTypes DEF Calm, CalmFiles, ReaderInv
<1>2. /\ begin \in Seq(Int) /\ end \in Seq(Int) /\ Len(begin) = Newest /\ Len(end) = Newest
      /\ \A f \in 1 .. Newest : begin[f] \in Int /\ end[f] \in Int
      /\ n \in Int
  BY FilesTypes, StreamAssumption DEF Files, Newest, ReaderInv
<1>3. /\ end' = [f \in DOMAIN end |-> IF f >= writer THEN n ELSE end[f]]
      /\ begin' = [f \in DOMAIN begin |-> IF f > writer THEN n ELSE begin[f]]
      /\ UNCHANGED <<owner, writer, present, gone, checkpoint, pc, local, history>>
      /\ end[Newest] < n
  BY DEF Write, Written
<1>4. begin' = begin
  <2>1. \A f \in DOMAIN begin : ~(f > writer)
    BY <1>1, <1>2
  <2>2. begin' = [f \in DOMAIN begin |-> begin[f]]
    BY <1>3, <2>1
  <2> QED
    BY <1>2, <2>2
<1>5. /\ end' \in Seq(Int) /\ Len(end') = Newest
      /\ \A f \in 1 .. Newest : end'[f] = IF f >= Newest THEN n ELSE end[f]
  <2>1. writer \in Int
    BY <1>1
  <2>2. end \in Seq(Int) /\ n \in Int
    BY <1>2
  <2>3. end' = [f \in DOMAIN end |-> IF f >= writer THEN n ELSE end[f]]
    BY <1>3
  <2>4. /\ end' \in Seq(Int) /\ Len(end') = Len(end)
        /\ \A f \in 1 .. Len(end) : end'[f] = IF f >= writer THEN n ELSE end[f]
    BY <2>1, <2>2, <2>3, RaisedSeq
  <2> QED
    BY <1>1, <1>2, <2>4
<1>6. /\ Newest' = Newest /\ \A f \in 1 .. Newest : f < Newest => end'[f] = end[f]
      /\ \A f \in 1 .. Newest : Size(f) <= Size(f)'
  <2>1. Newest' = Newest
    BY <1>5 DEF Newest
  <2>2. \A f \in 1 .. Newest : end[f] <= end'[f] /\ end'[f] \in Int
    BY <1>1, <1>2, <1>3, <1>5
  <2>3. \A f \in 1 .. Newest : Size(f) <= Size(f)'
    BY <1>2, <1>4, <2>2 DEF Size
  <2> QED
    BY <1>1, <1>5, <2>1, <2>3
<1>7. present /\ CalmFiles'
  <2>1. present
    BY DEF Write
  <2>2. \A f \in 1 .. Newest : f < Newest => begin'[f + 1] = end'[f] /\ EndsLine(end'[f])
    BY <1>4, <1>6 DEF Calm, CalmFiles
  <2>3. writer' = Newest' /\ gone' = {} /\ begin'[1] = 0 /\ present'
    BY <1>1, <1>3, <1>4, <1>6, <2>1 DEF Calm, CalmFiles
  <2> QED
    BY <1>6, <2>1, <2>2, <2>3 DEF CalmFiles
<1>8. Position' = Position /\ \A f : NameOf(f)' = NameOf(f)
  BY <1>3, <1>4, <1>6 DEF Position, NameOf
<1>9. CalmCheckpoint'
  <2> PICK i : i = checkpoint.inode
    OBVIOUS
  <2>1. checkpoint.offset \in Int /\ i \in 0 .. Newest
    BY StreamAssumption DEF ReaderInv, CheckpointHolds, Row
  <2>2. \A f \in 1 .. Newest : Size(f) \in Int /\ Size(f)' \in Int
    BY <1>2, <1>4, <1>5 DEF Size
  <2>3. i # NoFile => checkpoint.offset <= Size(i)'
    <3>1. i # NoFile => i \in 1 .. Newest /\ checkpoint.offset <= Size(i)
      BY <1>1, <2>1 DEF Calm, CalmCheckpoint, NoFile
    <3> QED
      BY <1>6, <2>1, <2>2, <3>1
  <2>4. Settled(base', delivered', skips', Position', checkpoint'.discard)
    BY <1>3, <1>8 DEF Calm, CalmCheckpoint, history
  <2> QED
    BY <1>3, <1>6, <1>7, <1>8, <2>3, <2>4 DEF Calm, CalmCheckpoint, history
<1>10. CalmResolve'
  BY <1>3 DEF Calm, CalmResolve, local
<1>11. ASSUME pc \in {"read", "commit"}, NEW f, f = target.stat.inode
       PROVE  f \in 1 .. Newest /\ (target.tail => Size(f)' = Size(f))
  <2>1. f \in 1 .. Newest /\ (target.tail => f + 1 = Newest)
    BY <1>11, CalmReading
  <2>2. target.tail => end'[f] = end[f]
    BY <1>1, <1>6, <2>1
  <2> QED
    BY <1>4, <2>1, <2>2 DEF Size
<1>12. From' = From /\ Skipped' = Skipped /\ Available' = Available
  BY <1>3 DEF From, Skipped, Available, local, history
<1>13. CalmRead'
  <2> SUFFICES ASSUME pc \in {"read", "commit"} PROVE CalmRead'
    BY <1>3 DEF CalmRead
  <2> PICK f : f = target.stat.inode
    OBVIOUS
  <2>1. Exact(From', delivered', Skipped', begin'[f] + target'.start, cp'.discard)
    BY <1>3, <1>4, <1>12 DEF Calm, CalmRead, local, history
  <2> QED
    BY <1>3, <1>4, <1>6, <1>11, <1>12, <2>1 DEF Calm, CalmRead, local, history
<1>14. CalmCommit'
  <2> SUFFICES ASSUME pc = "commit" PROVE CalmCommit'
    BY <1>3 DEF CalmCommit
  <2> PICK f : f = target.stat.inode
    OBVIOUS
  <2>1. Settled(From', delivered' \cup scan'.lines, Skipped' + scan'.oversized,
                begin'[f] + scan'.next, scan'.discard)
    BY <1>3, <1>4, <1>12 DEF Calm, CalmCommit, local, history
  <2>2. scan.next \in Int /\ scan.next <= Size(f) /\ f \in 1 .. Newest
    <3>1. f \in 1 .. Newest
      BY <1>11
    <3> QED
      BY <3>1, StreamAssumption DEF Calm, CalmCommit, ReaderInv, CommitHolds
  <2>3. begin[f] \in Int /\ end[f] \in Int /\ end'[f] \in Int /\ begin'[f] = begin[f]
    BY <1>2, <1>4, <1>5, <2>2
  <2>4. Size(f) \in Int /\ Size(f)' \in Int /\ Size(f) <= Size(f)'
    BY <1>6, <2>2, <2>3 DEF Size
  <2>5. scan'.next <= Size(f)'
    BY <1>3, <2>2, <2>4 DEF local
  <2> QED
    BY <1>3, <2>1, <2>5 DEF Calm, CalmCommit, local
<1> QED
  BY <1>7, <1>9, <1>10, <1>13, <1>14 DEF Calm

LEMMA CalmRename ==
  ASSUME ReaderInv, Calm, owner = {}, Rename
  PROVE  Calm'
<1>1. /\ pc = "idle" /\ present /\ checkpoint.inode = Newest /\ EndsLine(end[Newest])
      /\ present' = FALSE
      /\ UNCHANGED <<owner, begin, end, writer, gone, checkpoint, pc, local, history>>
  BY DEF Rename, Quiet, Written, EndsLine
<1>2. Newest' = Newest /\ \A f : Size(f)' = Size(f)
  BY <1>1 DEF Newest, Size
<1>3. Newest \in Nat /\ Newest # NoFile
  BY FilesTypes DEF ReaderInv, NoFile
<1>4. CalmFiles'
  BY <1>1, <1>2 DEF Calm, CalmFiles
<1>5. Position' = Position
  BY <1>1, <1>3 DEF Position
<1>6. Settled(base', delivered', skips', Position', checkpoint'.discard)
  BY <1>1, <1>5 DEF Calm, CalmCheckpoint, history
<1>7. checkpoint.source = 0
  BY <1>1, <1>3 DEF Calm, CalmCheckpoint
<1>8. CalmCheckpoint'
  BY <1>1, <1>2, <1>3, <1>6, <1>7 DEF Calm, CalmCheckpoint, history
<1> QED
  BY <1>1, <1>4, <1>8 DEF Calm, CalmResolve, CalmRead, CalmCommit

LEMMA CalmCreate ==
  ASSUME ReaderInv, Calm, owner = {}, Create
  PROVE  Calm'
<1>1. /\ pc = "idle" /\ ~present /\ present' = TRUE
      /\ begin' = Append(begin, end[Newest]) /\ end' = Append(end, end[Newest])
      /\ writer' = Newest + 1
      /\ UNCHANGED <<owner, gone, checkpoint, pc, local, history>>
  BY DEF Create, Quiet, Written
<1>2. /\ Newest \in Nat /\ Newest \in 1 .. Newest /\ Newest # NoFile
      /\ begin \in Seq(Int) /\ end \in Seq(Int) /\ Len(begin) = Newest /\ Len(end) = Newest
      /\ end[Newest] \in Int
  BY FilesTypes DEF ReaderInv, Files, Newest, NoFile
<1>3. /\ Newest' = Newest + 1
      /\ \A f \in 1 .. Newest : begin'[f] = begin[f] /\ end'[f] = end[f]
      /\ begin'[Newest + 1] = end[Newest]
  BY <1>1, <1>2 DEF Newest
<1>4. /\ checkpoint.inode = Newest /\ checkpoint.source = 0 /\ checkpoint.read
      /\ checkpoint.offset <= Size(Newest)
  BY <1>1, <1>2 DEF Calm, CalmCheckpoint
<1>5. CalmFiles'
  <2>1. /\ begin[1] = 0 /\ EndsLine(end[Newest]) /\ gone = {}
        /\ \A f \in 1 .. Newest : f < Newest => begin[f + 1] = end[f] /\ EndsLine(end[f])
    BY <1>1 DEF Calm, CalmFiles
  <2>2. ASSUME NEW f \in 1 .. Newest + 1, f < Newest + 1
        PROVE  begin'[f + 1] = end'[f] /\ EndsLine(end'[f])
    <3>1. CASE f = Newest
      BY <1>2, <1>3, <2>1, <3>1
    <3>2. CASE f < Newest
      <4>1. f \in 1 .. Newest /\ f + 1 \in 1 .. Newest
        BY <1>2, <3>2
      <4> QED
        BY <1>3, <2>1, <3>2, <4>1
    <3> QED
      BY <1>2, <2>2, <3>1, <3>2
  <2>3. begin'[1] = 0
    BY <1>2, <1>3, <2>1
  <2> QED
    BY <1>1, <1>3, <2>1, <2>2, <2>3 DEF CalmFiles
<1>6. Position' = Position
  BY <1>1, <1>2, <1>3, <1>4 DEF Position
<1>7. Settled(base', delivered', skips', Position', checkpoint'.discard)
  BY <1>1, <1>6 DEF Calm, CalmCheckpoint, history
<1>8. CalmCheckpoint'
  <2> PICK i : i = checkpoint.inode
    OBVIOUS
  <2>1. /\ i = Newest /\ checkpoint' = checkpoint /\ i # NoFile
        /\ checkpoint.offset <= Size(i)'
    BY <1>1, <1>2, <1>3, <1>4 DEF Size
  <2> QED
    BY <1>1, <1>3, <1>4, <1>7, <2>1 DEF CalmCheckpoint
<1> QED
  BY <1>1, <1>5, <1>8 DEF Calm, CalmResolve, CalmRead, CalmCommit

LEMMA CalmInit == Init => Calm
<1> SUFFICES ASSUME Init PROVE Calm
  OBVIOUS
<1>1. PICK n \in 0 .. Bound : end = <<n>>
  BY DEF Init
<1>2. Newest = 1 /\ begin[1] = 0
  BY <1>1 DEF Init, Newest
<1>3. /\ checkpoint.inode = NoFile /\ checkpoint.read = FALSE /\ checkpoint.discard = FALSE
      /\ delivered = {} /\ skips = 0 /\ base = 0 /\ present = TRUE /\ pc = "idle"
      /\ writer = 1 /\ gone = {}
  BY DEF Init, FreshCheckpoint
<1>4. Position = 0
  BY <1>3 DEF Position
<1>5. Settled(0, {}, 0, 0, FALSE)
  <2>1. Lines(0, 0) = {} /\ Cardinality(Longs(0, 0)) = 0
    BY NothingBetween
  <2>2. Placed(0, 0, FALSE)
    BY StreamAssumption DEF Placed, Starts
  <2> QED
    BY <2>1, <2>2, Zenon DEF Settled, Exact
<1>6. CalmFiles
  BY <1>2, <1>3 DEF CalmFiles
<1>7. Settled(base, delivered, skips, Position, checkpoint.discard)
  BY <1>3, <1>4, <1>5
<1>8. CalmCheckpoint
  BY <1>2, <1>3, <1>7 DEF CalmCheckpoint
<1> QED
  BY <1>3, <1>6, <1>8 DEF Calm, CalmResolve, CalmRead, CalmCommit

LEMMA CalmStep ==
  ASSUME ReaderInv, Calm, owner = {}, Next
  PROVE  Calm'
<1>1. CASE Reader \/ Abort
  <2>1. CASE Unavailable \/ ReadFails \/ Abort
    BY <2>1, CalmFinish DEF Unavailable, ReadFails, Abort
  <2> QED
    BY <1>1, <2>1, CalmPoll, CalmResumeTail, CalmResolveClipped, CalmResolveTail, CalmResolveLost,
       CalmResolveLog, CalmReadNothing, CalmReadChunk, CalmCommitStep DEF Reader
<1>2. CASE \E n \in 1 .. Last : Write(n)
  BY <1>2, CalmWrite
<1>3. CASE Rename \/ Create
  BY <1>3, CalmRename, CalmCreate
<1>4. CASE Reopen \/ (\E f \in File : Delete(f)) \/ Truncate
  <2>1. writer = Newest
    BY DEF Calm, CalmFiles
  <2> QED
    BY <1>4, <2>1 DEF Reopen, Delete, Truncate
<1> QED
  BY <1>1, <1>2, <1>3, <1>4 DEF Next

LEMMA CalmStutter ==
  ASSUME Calm, UNCHANGED vars
  PROVE  Calm'
<1>1. UNCHANGED <<disk, checkpoint, history, pc, local>>
  BY DEF vars
<1>2. CalmFiles' /\ CalmCheckpoint'
  BY <1>1, CalmKept
<1>3. /\ Newest' = Newest /\ \A f : Size(f)' = Size(f)
      /\ From' = From /\ Skipped' = Skipped /\ Available' = Available
  BY <1>1 DEF disk, local, history, Newest, Size, From, Skipped, Available
<1>4. CalmResolve'
  BY <1>1 DEF Calm, CalmResolve, local
<1>5. CalmRead'
  <2>1. pc \in {"read", "commit"} =>
          Exact(From', delivered', Skipped', begin'[target'.stat.inode] + target'.start, cp'.discard)
    BY <1>1, <1>3 DEF Calm, CalmRead, disk, local, history
  <2> QED
    BY <1>1, <1>3, <2>1 DEF Calm, CalmRead, disk, local, history
<1>6. CalmCommit'
  <2>1. pc = "commit" =>
          Settled(From', delivered' \cup scan'.lines, Skipped' + scan'.oversized,
                  begin'[target'.stat.inode] + scan'.next, scan'.discard)
    BY <1>1, <1>3 DEF Calm, CalmCommit, disk, local, history
  <2> QED
    BY <1>1, <1>3, <2>1 DEF Calm, CalmCommit, disk, local, history
<1> QED
  BY <1>2, <1>4, <1>5, <1>6 DEF Calm

-----------------------------------------------------------------------------
(* Together.                                                               *)

\* Whoever does it between polls only: the log is not renamed, replaced,
\* deleted or emptied while a poll is at work on it.
NoRace == "race" \notin Disturbances

\* What holds of every behaviour, by what its owner does.
OwnedInv ==
  /\ owner \subseteq Disturbances
  /\ "race" \notin owner => ReaderInv
  /\ owner = {} => Calm

LEMMA InitHolds == Init => ReaderInv
<1> SUFFICES ASSUME Init PROVE ReaderInv
  OBVIOUS
<1>1. PICK n \in 0 .. Bound : end = <<n>>
  BY DEF Init
<1>2. n \in 0 .. Last /\ Last \in Nat
  BY StreamAssumption DEF Bound
<1>3. Newest = 1 /\ begin = <<0>> /\ end[1] = n /\ begin[1] = 0 /\ 1 \in File
  BY <1>1, <1>2, BoundAssumption DEF Init, Newest, File
<1>4. Files
  BY <1>1, <1>2, <1>3 DEF Init, Files
<1>5. FreshCheckpoint \in Row
  BY <1>2, <1>3, BoundAssumption DEF FreshCheckpoint, Row, NoFile
<1>6. Typed /\ CheckpointHolds
  BY <1>5 DEF Init, Typed, CheckpointHolds, FreshCheckpoint, Upto
<1> QED
  BY <1>4, <1>6 DEF Init, ReaderInv, ResolveHolds, ReadHolds, CommitHolds, InOrder

LEMMA OwnerStep ==
  ASSUME "race" \notin owner, ReaderInv,
         \/ \E n \in 1 .. Last : Write(n)
         \/ Rename \/ Create \/ Reopen \/ Truncate
         \/ \E f \in File : Delete(f)
  PROVE  ReaderInv'
<1>1. Files /\ "race" \notin owner
  BY DEF ReaderInv
<1>2. ASSUME NEW n \in 1 .. Last, Write(n) PROVE ReaderInv'
  BY <1>1, <1>2, WriteStep, PollKept DEF Write, history
<1>3. CASE Reopen
  <2>1. UNCHANGED <<begin, end, present, gone, checkpoint, pc, local, delivered>>
    BY <1>3 DEF Reopen, history
  <2>2. \A f \in 1 .. Newest : Size(f) <= Size(f)'
    BY <1>1, <2>1, FilesTypes DEF Size
  <2> QED
    BY <1>1, <1>3, <2>1, <2>2, SameFilesStep, PollKept DEF Newest
<1>4. CASE Rename \/ \E f \in File : Delete(f)
  <2>1. pc = "idle" /\ UNCHANGED <<checkpoint, pc, local, delivered>>
    BY <1>1, <1>4 DEF Rename, Delete, Quiet, history
  <2> QED
    BY <1>1, <1>4, <2>1, SameFilesStep, IdleKept
<1>5. CASE Create
  BY <1>1, <1>5, CreateStep, IdleKept DEF Create, Quiet, history
<1>6. CASE Truncate
  BY <1>1, <1>6, TruncateStep, IdleKept DEF Truncate, Quiet, history
<1> QED
  BY <1>2, <1>3, <1>4, <1>5, <1>6

LEMMA ReaderStep ==
  ASSUME ReaderInv, Reader \/ Abort
  PROVE  ReaderInv'
<1>1. CASE Poll
  BY <1>1, PollStep
<1>2. CASE ResumeTail
  BY <1>2, ResumeTailStep
<1>3. CASE Unavailable \/ ReadFails \/ Abort
  BY <1>3, NothingStored DEF Unavailable, ReadFails, Abort, history
<1>4. CASE ResolveClipped
  BY <1>4, ResolveClippedStep
<1>5. CASE ResolveTail
  BY <1>5, ResolveTailStep
<1>6. CASE ResolveLost
  BY <1>6, ResolveLostStep
<1>7. CASE ResolveLog
  BY <1>7, ResolveLogStep
<1>8. CASE ReadNothing
  BY <1>8, ReadNothingStep
<1>9. CASE ReadChunk
  BY <1>9, ReadChunkStep
<1>10. CASE Commit
  BY <1>10, CommitStep
<1> QED
  BY <1>1, <1>2, <1>3, <1>4, <1>5, <1>6, <1>7, <1>8, <1>9, <1>10 DEF Reader

LEMMA Unchanged ==
  ASSUME ReaderInv, UNCHANGED vars
  PROVE  ReaderInv'
<1>1. UNCHANGED <<disk, checkpoint, pc, local, delivered>>
  BY DEF vars, history
<1>2. Files' /\ Grown /\ Newest' = Newest /\ UNCHANGED <<present, gone>>
  BY <1>1, SameDisk DEF disk
<1>3. \A f \in 1 .. Newest : Size(f) <= Size(f)'
  BY <1>1, FilesTypes DEF Size, disk, ReaderInv
<1> QED
  BY <1>1, <1>2, <1>3, PollKept

LEMMA OwnedInvariance == Spec => []OwnedInv
<1>1. Init => OwnedInv
  BY InitHolds, CalmInit DEF OwnedInv, Init
<1>2. OwnedInv /\ [Next]_vars => OwnedInv'
  <2> SUFFICES ASSUME OwnedInv, [Next]_vars PROVE OwnedInv'
    OBVIOUS
  <2>1. owner' = owner
    BY DEF Next, Reader, Poll, ResumeTail, Unavailable, ResolveClipped, ResolveTail, ResolveLost,
       ResolveLog, ReadFrom, ReadNothing, ReadChunk, ReadFails, Commit, Abort, Write, Rename,
       Create, Reopen, Delete, Truncate, vars, disk
  <2>2. ASSUME "race" \notin owner PROVE ReaderInv'
    <3>1. ReaderInv
      BY <2>2 DEF OwnedInv
    <3> QED
      BY <2>2, <3>1, OwnerStep, ReaderStep, Unchanged DEF Next
  <2>3. ASSUME owner = {} PROVE Calm'
    <3>1. ReaderInv /\ Calm
      BY <2>3 DEF OwnedInv
    <3> QED
      BY <2>3, <3>1, CalmStep, CalmStutter
  <2> QED
    BY <2>1, <2>2, <2>3 DEF OwnedInv
<1> QED
  BY <1>1, <1>2, PTL DEF Spec

\* The inductive invariant holds of every behaviour without a race.
LEMMA ReaderInvariance ==
  ASSUME NoRace
  PROVE  Spec => []ReaderInv
<1>1. OwnedInv => ReaderInv
  BY DEF OwnedInv, NoRace
<1> QED
  BY <1>1, OwnedInvariance, PTL

(***************************************************************************)
(* Every variable has its type, and unless the log is emptied in place the *)
(* checkpoint never points past the end of its file (writeCheckpoint in    *)
(* collectNaiveSource).                                                    *)
(***************************************************************************)
THEOREM ReaderTypeTheorem ==
  ASSUME NoRace
  PROVE  Spec => []TypeOK
<1>1. ReaderInv => TypeOK
  <2> SUFFICES ASSUME ReaderInv PROVE TypeOK
    OBVIOUS
  <2> PICK i : i = checkpoint.inode
    OBVIOUS
  <2>1. {checkpoint, cp} \subseteq Row
    BY DEF ReaderInv, Typed, CheckpointHolds
  <2>2. i = NoFile \/ "truncate" \in owner \/ checkpoint.offset <= Size(i)
    BY DEF ReaderInv, CheckpointHolds, Fits, Size
  <2> QED
    BY <2>1, <2>2 DEF TypeOK, ReaderInv, Files, Typed, Row
<1> QED
  BY <1>1, ReaderInvariance, PTL

(***************************************************************************)
(* Lines are stored in the order they were written and no byte is stored   *)
(* twice (readJsonlIncremental, scanJsonlChunk and the transaction of      *)
(* collectNaiveSource), whatever the limits, however often the log is      *)
(* rotated, by whichever names, and also when rotated files are skipped or *)
(* deleted, the proxy writes on to a renamed file, the log is emptied in   *)
(* place, polls crash or transactions roll back.                           *)
(***************************************************************************)
THEOREM InOrderTheorem ==
  ASSUME NoRace
  PROVE  Spec => []InOrder
<1>1. ReaderInv => InOrder
  BY DEF ReaderInv
<1> QED
  BY <1>1, ReaderInvariance, PTL

(***************************************************************************)
(* While the log is only appended to and rotated between records, what is  *)
(* stored is exactly the records up to the checkpoint, each once, and each *)
(* oversized record is counted once (readJsonlIncremental, scanJsonlChunk, *)
(* resolveReadTarget and the transaction of collectNaiveSource): whatever  *)
(* the log, the limits of a poll, the chunks they cut it into, the number  *)
(* of rotations, the crashes and the transactions that roll back.          *)
(***************************************************************************)
THEOREM ExactDeliveryTheorem == Spec => []ExactDelivery
<1>1. OwnedInv => ExactDelivery
  <2> SUFFICES ASSUME OwnedInv, owner = {} PROVE ExactDelivery
    BY DEF ExactDelivery
  <2>1. /\ delivered = Lines(base, Position) /\ skips = Cardinality(Longs(base, Position))
        /\ base \in Starts
    BY DEF OwnedInv, Calm, CalmCheckpoint, Settled, Exact, Placed
  <2>2. \A q \in Records(base) : Before(q) + 1 > base
    <3>1. base \in Nat /\ \A q \in Newline : Before(q) \in Nat
      BY <2>1, StreamAssumption, BeforeLemma DEF Starts
    <3> QED
      BY <3>1 DEF Records
  <2>3. \A x \in Lines(base, Position) : x[1] > base
    BY <2>2 DEF Lines
  <2>4. {x \in delivered : x[1] > base} = Lines(base, Position)
    BY <2>1, <2>3
  <2> QED
    BY <2>1, <2>4 DEF ExactDelivery
<1> QED
  BY <1>1, OwnedInvariance, PTL

=============================================================================
