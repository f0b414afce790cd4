------------------------ MODULE TelemetryStoreProofs ------------------------
(***************************************************************************)
(* The telemetry of both protocols, for every set of users, every clock,   *)
(* any number of records, failures and crashes. Of mita's counters the     *)
(* panel and the Backend are told the same; of the naive logs every record *)
(* is counted once, and the listing has the sessions that were seen.       *)
(***************************************************************************)
EXTENDS TelemetryStore, FiniteSetTheorems, NaturalLemmas, TLAPS

SaidType == [Key -> [bytes : Nat, last : Nat] \cup {None}]
TableType == [Key -> [first : Nat, last : Nat, bytes : Nat, traffic : BOOLEAN] \cup {None}]

\* Only a mieru collection asks mita or writes mita's counters.
MieruOnly ==
  /\ protocol \in {"naive", "mieru"}
  /\ pc \in {"idle", "mita", "prune"} \cup Sources
  /\ protocol = "naive" => pc # "mita" /\ Known(snapshot.rows) = {}
  /\ protocol = "mieru" => pc \in {"idle", "mita"} /\ rows \in TableType

Shapes ==
  /\ now \in Nat
  /\ mita \in SaidType
  /\ snapshot \in [rows : SaidType, stale : BOOLEAN]

\* A row is at least as recent as what the snapshot says of its user, so it is
\* pruned no earlier than the history loses what the snapshot shows.
Matches(table, said) ==
  \A k \in Known(said) :
    /\ said[k].last >= now - HistoryTtl => table[k] # None
    /\ table[k] # None => table[k].bytes = said[k].bytes /\ table[k].last >= said[k].last

StoreInv ==
  /\ Shapes /\ MieruOnly
  /\ Matches(rows, snapshot.rows)
  /\ FreshIsLast

-----------------------------------------------------------------------------

LEMMA StoreInitially == Init => StoreInv
<1> SUFFICES ASSUME Init PROVE StoreInv
  OBVIOUS
<1>1. NoRows \in SaidType /\ NoRows \in TableType /\ Known(NoRows) = {}
  BY DEF NoRows, SaidType, TableType, Known
<1>2. snapshot.rows = NoRows /\ rows = NoRows /\ mita = NoRows /\ snapshot.stale = FALSE
  BY DEF Init, EmptySnapshot
<1>3. Shapes
  BY <1>1 DEF Init, Shapes, EmptySnapshot
<1>4. MieruOnly
  BY <1>1, <1>2 DEF Init, MieruOnly
<1> QED
  BY <1>1, <1>2, <1>3, <1>4 DEF StoreInv, Matches, FreshIsLast

\* What pruning and storing an answer keep.
LEMMA PruneMatches ==
  ASSUME now \in Nat, NEW table \in TableType, NEW said \in SaidType, Matches(table, said)
  PROVE  Prune(table) \in TableType /\ Matches(Prune(table), said)
<1>1. HistoryTtl \in Nat
  BY StoreAssumption
<1>2. Prune(table) \in TableType
  BY DEF Prune, TableType
<1>3. ASSUME NEW k \in Known(said)
      PROVE  /\ said[k].last >= now - HistoryTtl => Prune(table)[k] # None
             /\ Prune(table)[k] # None => /\ Prune(table)[k].bytes = said[k].bytes
                                          /\ Prune(table)[k].last >= said[k].last
  <2>1. k \in Key /\ said[k] # None /\ said[k].last \in Nat
    BY DEF Known, SaidType
  <2>2. table[k] = None \/ table[k].last \in Nat
    BY <2>1 DEF TableType
  <2>3. Prune(table)[k] =
          IF table[k] # None /\ table[k].last < now - HistoryTtl THEN None ELSE table[k]
    BY <2>1 DEF Prune
  <2> QED
    BY <1>1, <1>3, <2>1, <2>2, <2>3 DEF Matches
<1> QED
  BY <1>2, <1>3 DEF Matches

LEMMA UpsertedMatches ==
  ASSUME rows \in TableType, NEW said \in SaidType
  PROVE  Upserted(said) \in TableType /\ Matches(Upserted(said), said)
<1>1. ASSUME NEW k \in Key, said[k] # None
      PROVE  /\ Upserted(said)[k] \in [first : Nat, last : Nat, bytes : Nat, traffic : BOOLEAN]
             /\ Upserted(said)[k].bytes = said[k].bytes
             /\ Upserted(said)[k].last >= said[k].last
  <2> DEFINE o == [first |-> 0, last |-> said[k].last, bytes |-> said[k].bytes, traffic |-> TRUE]
  <2>1. Upserted(said)[k] = UpsertMieru(rows[k], o)
    BY <1>1 DEF Upserted
  <2>2. said[k].bytes \in Nat /\ said[k].last \in Nat
    BY <1>1 DEF SaidType
  <2>3. rows[k] = None \/ rows[k] \in [first : Nat, last : Nat, bytes : Nat, traffic : BOOLEAN]
    BY DEF TableType
  <2> QED
    BY <2>1, <2>2, <2>3 DEF UpsertMieru, Smaller, Greater
<1>2. ASSUME NEW k \in Key, said[k] = None PROVE Upserted(said)[k] = rows[k]
  BY <1>2 DEF Upserted
<1>3. Upserted(said) \in TableType
  <2>1. Upserted(said) = [k \in Key |-> Upserted(said)[k]]
    BY DEF Upserted
  <2>2. \A k \in Key : Upserted(said)[k] \in
          [first : Nat, last : Nat, bytes : Nat, traffic : BOOLEAN] \cup {None}
    BY <1>1, <1>2 DEF TableType
  <2> QED
    BY <2>1, <2>2 DEF TableType
<1>4. Matches(Upserted(said), said)
  <2>1. \A k \in Known(said) : k \in Key /\ said[k] # None
    BY DEF Known
  <2> QED
    BY <1>1, <2>1, StoreAssumption DEF Matches
<1> QED
  BY <1>3, <1>4

\* An answer without rows changes none.
LEMMA UpsertedNothing ==
  ASSUME rows \in TableType, NEW said, Known(said) = {}
  PROVE  Upserted(said) = rows
BY DEF Upserted, Known, TableType

-----------------------------------------------------------------------------

\* The snapshot is kept and called stale.
LEMMA CalledStale ==
  ASSUME NEW s \in [rows : SaidType, stale : BOOLEAN], NEW t, t = [s EXCEPT !.stale = TRUE]
  PROVE  t \in [rows : SaidType, stale : BOOLEAN] /\ t.rows = s.rows /\ t.stale = TRUE
OBVIOUS

LEMMA StoreStep == StoreInv /\ [Next]_vars => StoreInv'
<1> SUFFICES ASSUME StoreInv, [Next]_vars PROVE StoreInv'
  OBVIOUS
<1> USE DEF settings, world, kept
<1>1. now \in Nat /\ snapshot.rows \in SaidType
  BY DEF StoreInv, Shapes
<1>2. CASE Tick
  <2>1. UNCHANGED <<protocol, mita, rows, snapshot, pc, answer>> /\ now' = now + 1
    BY <1>2 DEF Tick
  <2>2. \A k \in Known(snapshot.rows) : snapshot.rows[k].last \in Nat
    BY <1>1 DEF Known, SaidType
  <2>3. Matches(rows, snapshot.rows)'
    BY <1>1, <2>1, <2>2, StoreAssumption DEF StoreInv, Matches, Known
  <2> QED
    BY <2>1, <2>3 DEF StoreInv, Shapes, MieruOnly, FreshIsLast, Known
<1>3. CASE Toggle \/ (\E k \in Key : \E s \in Sources : Log(s, k)) \/ Begin \/ UNCHANGED vars
  <2>1. UNCHANGED <<protocol, now, mita, rows, snapshot, answer>>
    BY <1>3 DEF Toggle, Log, Begin, vars
  <2>2. pc' = pc \/ pc' = IF protocol = "naive" THEN "auth" ELSE "mita"
    BY <1>3 DEF Toggle, Log, Begin, vars
  <2> QED
    BY <2>1, <2>2 DEF StoreInv, Shapes, MieruOnly, Matches, FreshIsLast, Known, Sources
<1>4. ASSUME NEW k \in Key, Use(k) PROVE StoreInv'
  <2>1. PICK n \in 0 .. MaxBytes : mita' = [mita EXCEPT ![k] = [bytes |-> n, last |-> now]]
    BY <1>4 DEF Use
  <2>2. UNCHANGED <<protocol, now, rows, snapshot, pc, answer>>
    BY <1>4 DEF Use
  <2>3. mita' \in SaidType
    BY <1>1, <2>1, StoreAssumption DEF StoreInv, Shapes, SaidType
  <2> QED
    BY <2>2, <2>3 DEF StoreInv, Shapes, MieruOnly, Matches, FreshIsLast, Known
<1>5. CASE BeginDisabled
  <2>1. /\ snapshot' = [snapshot EXCEPT !.stale = Known(snapshot.rows) # {}]
        /\ UNCHANGED <<protocol, now, mita, rows, pc, answer>>
    BY <1>5 DEF BeginDisabled
  <2>2. /\ snapshot' \in [rows : SaidType, stale : BOOLEAN]
        /\ snapshot'.rows = snapshot.rows /\ snapshot'.stale = (Known(snapshot.rows) # {})
    BY <2>1 DEF StoreInv, Shapes
  <2> QED
    BY <2>1, <2>2 DEF StoreInv, Shapes, MieruOnly, Matches, FreshIsLast, Known
<1>6. ASSUME NEW s \in Sources, Commit(s) \/ SourceUnavailable(s) PROVE StoreInv'
  <2>1. UNCHANGED <<protocol, now, mita, snapshot, answer>> /\ pc = s /\ pc' = NextSource
    BY <1>6 DEF Commit, SourceUnavailable
  <2>2. protocol = "naive" /\ Known(snapshot.rows) = {}
    BY <2>1 DEF StoreInv, MieruOnly, Sources
  <2> QED
    BY <2>1, <2>2 DEF StoreInv, Shapes, MieruOnly, Matches, FreshIsLast, Known, Sources, NextSource
<1>7. CASE PruneExpired
  <2>1. UNCHANGED <<protocol, now, mita, snapshot, answer>> /\ pc = "prune" /\ pc' = "idle"
    BY <1>7 DEF PruneExpired
  <2>2. protocol = "naive" /\ Known(snapshot.rows) = {}
    BY <2>1 DEF StoreInv, MieruOnly, Sources
  <2> QED
    BY <2>1, <2>2 DEF StoreInv, Shapes, MieruOnly, Matches, FreshIsLast, Known
\* What asking mita does: a table and a snapshot that match, fresh or stale.
<1>8. ASSUME NEW table \in TableType, NEW said \in SaidType, NEW stale \in BOOLEAN,
             protocol = "mieru", Matches(table, said), rows' = table,
             snapshot' \in [rows : SaidType, stale : BOOLEAN],
             snapshot'.rows = said, snapshot'.stale = stale,
             ~stale /\ Known(said) # {} => answer' = said,
             pc' = "idle", UNCHANGED <<protocol, now, mita>>
      PROVE  StoreInv'
  BY <1>8 DEF StoreInv, Shapes, MieruOnly, Matches, FreshIsLast, Known
<1>9. ASSUME pc = "mita"
      PROVE  /\ protocol = "mieru" /\ rows \in TableType
             /\ Matches(rows, snapshot.rows)
             /\ Prune(rows) \in TableType /\ Matches(Prune(rows), snapshot.rows)
  BY <1>1, <1>9, PruneMatches DEF StoreInv, MieruOnly
<1>10. ASSUME NEW skipped \in SUBSET Key, pc = "mita"
      PROVE  /\ Parsed(skipped) \in SaidType
             /\ Upserted(Parsed(skipped)) \in TableType
             /\ Usable(skipped) => Matches(Upserted(Parsed(skipped)), Parsed(skipped))
             /\ ~Usable(skipped) => Upserted(Parsed(skipped)) = rows
  <2>1. Parsed(skipped) \in SaidType
    BY DEF Parsed, StoreInv, Shapes, SaidType
  <2> QED
    BY <1>9, <1>10, <2>1, UpsertedMatches, UpsertedNothing DEF Usable
<1>11. snapshot \in [rows : SaidType, stale : BOOLEAN]
  BY DEF StoreInv, Shapes
<1>12. ASSUME NEW skipped \in SUBSET Key, MitaAnswers(skipped) PROVE StoreInv'
  <2> DEFINE said == Parsed(skipped)
  <2>1. /\ pc = "mita" /\ rows' = Prune(Upserted(said)) /\ snapshot' \in Snapshots(skipped)
        /\ answer' = said /\ pc' = "idle" /\ UNCHANGED <<protocol, now, mita>>
    BY <1>12 DEF MitaAnswers
  <2>2. CASE Usable(skipped)
    <3>1. PICK stale \in BOOLEAN : snapshot' = [rows |-> said, stale |-> stale]
      BY <2>1, <2>2 DEF Snapshots
    <3>2. said \in SaidType
      BY <1>10, <2>1
    <3>3. /\ said \in SaidType /\ Upserted(said) \in TableType
          /\ Matches(Upserted(said), said)
      BY <1>10, <2>1, <2>2
    <3>4. Prune(Upserted(said)) \in TableType /\ Matches(Prune(Upserted(said)), said)
      BY <1>1, <3>3, PruneMatches
    <3> HIDE DEF said
    <3>5. /\ snapshot' \in [rows : SaidType, stale : BOOLEAN]
          /\ snapshot'.rows = said /\ snapshot'.stale = stale
      BY <3>1, <3>2
    <3> QED
      BY <1>8, <1>9, <2>1, <3>3, <3>4, <3>5
  <2>3. CASE ~Usable(skipped)
    <3>1. snapshot' = [snapshot EXCEPT !.stale = TRUE] /\ rows' = Prune(rows)
      BY <1>10, <2>1, <2>3 DEF Snapshots
    <3>2. /\ snapshot' \in [rows : SaidType, stale : BOOLEAN] /\ rows' = Prune(rows)
          /\ snapshot'.rows = snapshot.rows /\ snapshot'.stale = TRUE
      BY <1>11, <3>1, CalledStale
    <3> QED
      BY <1>1, <1>8, <1>9, <2>1, <3>2
  <2> QED
    BY <2>2, <2>3
<1>13. CASE MitaUnavailable
  <2>1. /\ pc = "mita" /\ rows' = Prune(rows) /\ snapshot' = [snapshot EXCEPT !.stale = TRUE]
        /\ pc' = "idle" /\ UNCHANGED <<protocol, now, mita>>
    BY <1>13 DEF MitaUnavailable
  <2>2. /\ snapshot' \in [rows : SaidType, stale : BOOLEAN]
        /\ snapshot'.rows = snapshot.rows /\ snapshot'.stale = TRUE
    BY <1>11, <2>1, CalledStale
  <2> QED
    BY <1>1, <1>8, <1>9, <2>1, <2>2
<1>14. CASE Throws
  <2>1. /\ snapshot' = [snapshot EXCEPT !.stale = TRUE]
        /\ pc' = "idle" /\ UNCHANGED <<protocol, now, mita, rows>>
    BY <1>14 DEF Throws
  <2>2. /\ snapshot' \in [rows : SaidType, stale : BOOLEAN]
        /\ snapshot'.rows = snapshot.rows /\ snapshot'.stale = TRUE
    BY <1>11, <2>1, CalledStale
  <2> QED
    BY <1>1, <2>1, <2>2 DEF StoreInv, Shapes, MieruOnly, Matches, FreshIsLast, Known
<1>15. ASSUME NEW skipped \in SUBSET Key, PruningThrows(skipped) PROVE StoreInv'
  <2> DEFINE said == Parsed(skipped)
  <2>1. /\ pc = "mita" /\ rows' = Upserted(said)
        /\ pc' = "idle" /\ UNCHANGED <<protocol, now, mita>>
    BY <1>15 DEF PruningThrows
  <2>2. PICK new \in Snapshots(skipped) : snapshot' = [new EXCEPT !.stale = TRUE]
    BY <1>15 DEF PruningThrows
  <2>3. CASE Usable(skipped)
    <3>1. PICK stale \in BOOLEAN : new = [rows |-> said, stale |-> stale]
      BY <2>2, <2>3 DEF Snapshots
    <3>2. /\ said \in SaidType /\ Upserted(said) \in TableType
          /\ Matches(Upserted(said), said)
      BY <1>10, <2>1, <2>3
    <3> HIDE DEF said
    <3>3. new \in [rows : SaidType, stale : BOOLEAN] /\ new.rows = said
      BY <3>2, <3>1
    <3>4. /\ snapshot' \in [rows : SaidType, stale : BOOLEAN]
          /\ snapshot'.rows = said /\ snapshot'.stale = TRUE
      BY <2>2, <3>3, CalledStale
    <3> QED
      BY <1>8, <1>9, <2>1, <3>4, <3>2
  <2>4. CASE ~Usable(skipped)
    <3>1. new = [snapshot EXCEPT !.stale = TRUE] /\ rows' = rows
      BY <1>10, <2>1, <2>2, <2>4 DEF Snapshots
    <3>2. new \in [rows : SaidType, stale : BOOLEAN] /\ new.rows = snapshot.rows
      BY <1>11, <3>1, CalledStale
    <3>3. /\ snapshot' \in [rows : SaidType, stale : BOOLEAN] /\ rows' = rows
          /\ snapshot'.rows = snapshot.rows /\ snapshot'.stale = TRUE
      BY <2>1, <2>2, <3>1, <3>2, CalledStale
    <3> QED
      BY <1>1, <1>8, <1>9, <2>1, <3>3
  <2> QED
    BY <2>3, <2>4
<1>16. CASE Crash
  <2>1. /\ snapshot' = [rows |-> NoRows, stale |-> FALSE]
        /\ pc' = "idle" /\ UNCHANGED <<protocol, now, mita, rows>>
    BY <1>16 DEF Crash, EmptySnapshot
  <2>2. NoRows \in SaidType /\ Known(NoRows) = {} /\ snapshot'.rows = NoRows
    BY <2>1 DEF NoRows, SaidType, Known
  <2> QED
    BY <2>1, <2>2 DEF StoreInv, Shapes, MieruOnly, Matches, FreshIsLast, Known
<1> QED
  BY <1>2, <1>3, <1>4, <1>5, <1>6, <1>7, <1>12, <1>13, <1>14, <1>15, <1>16 DEF Next, Collector

LEMMA StoreInvariance == Spec => []StoreInv
BY StoreInitially, StoreStep, PTL DEF Spec

\* The counters the panel reads from the snapshot (getLatestMieruSnapshot) are
\* those of the table the Backend is sent, after any failure or crash between
\* the transaction of collectMieru, the snapshot and pruning.
THEOREM SnapshotTheorem == Spec => []SnapshotAgreesWithTable
<1>1. StoreInv => SnapshotAgreesWithTable
  BY DEF StoreInv, Matches, SnapshotAgreesWithTable
<1> QED
  BY <1>1, StoreInvariance, PTL

\* A snapshot with rows is stale, or the last that mita said.
THEOREM FreshTheorem == Spec => []FreshIsLast
<1>1. StoreInv => FreshIsLast
  BY DEF StoreInv
<1> QED
  BY <1>1, StoreInvariance, PTL

-----------------------------------------------------------------------------
(* The naive half: what a row counts.                                      *)

LEMMA TrafficAdds ==
  ASSUME NEW X, IsFiniteSet(X), NEW x, x \notin X
  PROVE  /\ Traffic(X) \in Nat
         /\ Traffic(X \cup {x}) = Traffic(X) + (IF x[1] = "traffic" THEN 1 ELSE 0)
<1> DEFINE T(Y) == {y \in Y : y[1] = "traffic"}
<1>1. IsFiniteSet(T(X)) /\ Cardinality(T(X)) \in Nat
  BY FS_Subset, FS_CardinalityType
<1>2. CASE x[1] = "traffic"
  <2>1. T(X \cup {x}) = T(X) \cup {x} /\ x \notin T(X)
    BY <1>2
  <2> HIDE DEF T
  <2>2. Cardinality(T(X) \cup {x}) = Cardinality(T(X)) + 1
    BY <1>1, <2>1, FS_AddElement
  <2> QED
    BY <1>1, <1>2, <2>1, <2>2 DEF Traffic, T
<1>3. CASE x[1] # "traffic"
  <2>1. T(X \cup {x}) = T(X)
    BY <1>3
  <2>2. Traffic(X) = Cardinality(T(X)) /\ Traffic(X \cup {x}) = Cardinality(T(X \cup {x}))
    BY Zenon DEF Traffic
  <2> HIDE DEF T
  <2>3. Traffic(X \cup {x}) = Traffic(X) /\ Traffic(X) \in Nat
    BY <1>1, <2>1, <2>2
  <2> QED
    BY <1>3, <2>3
<1> QED
  BY <1>2, <1>3

LEMMA TrafficGrows ==
  ASSUME NEW X, IsFiniteSet(X), NEW Y \in SUBSET X
  PROVE  Traffic(Y) \in Nat /\ Traffic(X) \in Nat /\ Traffic(Y) <= Traffic(X)
<1> DEFINE T(Z) == {z \in Z : z[1] = "traffic"}
<1>1. IsFiniteSet(T(X)) /\ T(Y) \in SUBSET T(X)
  BY FS_Subset
<1>2. /\ Cardinality(T(X)) \in Nat /\ Cardinality(T(Y)) \in Nat
      /\ Cardinality(T(Y)) <= Cardinality(T(X))
  BY <1>1, FS_Subset, FS_CardinalityType
<1> QED
  BY <1>2 DEF Traffic

\* The records of R the history still covers.
Fresh(R) == {x \in R : At(x) >= now - HistoryTtl}

\* What a row says of the records R of its key, all that were read.
Counts(row, R) ==
  /\ row = None => Fresh(R) = {}
  /\ row # None =>
       /\ \A x \in Fresh(R) : row.first <= At(x) /\ At(x) <= row.last
       /\ \E x \in R : At(x) = row.last
       /\ Traffic(Fresh(R)) <= row.bytes
       /\ row.bytes <= Traffic(R)

LEMMA RecordCounted ==
  ASSUME now \in Nat, NEW row \in Row \cup {None}, NEW R, IsFiniteSet(R), Counts(row, R),
         \A y \in R : At(y) \in Time,
         NEW x, x \notin R, x[1] \in Sources, At(x) \in Time,
         NEW r, r.at = At(x)
  PROVE  /\ UpsertNaive(row, Observation(x[1], r)) \in Row
         /\ Counts(UpsertNaive(row, Observation(x[1], r)), R \cup {x})
<1> DEFINE n == IF x[1] = "traffic" THEN 1 ELSE 0
           o == [first |-> r.at, last |-> r.at, bytes |-> n, traffic |-> x[1] = "traffic"]
           new == UpsertNaive(row, Observation(x[1], r))
<1>1. n \in Nat /\ o \in Row /\ Time \subseteq Nat /\ HistoryTtl \in Nat /\ None \notin Row
  BY StoreAssumption DEF Row, Time
<1>2. new = UpsertNaive(row, o)
  BY DEF Observation
<1>3. IsFiniteSet(Fresh(R)) /\ x \notin Fresh(R)
  BY FS_Subset DEF Fresh
<1>4. /\ Traffic(R) \in Nat /\ Traffic(Fresh(R)) \in Nat
      /\ Traffic(R \cup {x}) = Traffic(R) + n
      /\ Traffic(Fresh(R) \cup {x}) = Traffic(Fresh(R)) + n
  BY <1>3, TrafficAdds
<1>5. /\ At(x) >= now - HistoryTtl => Fresh(R \cup {x}) = Fresh(R) \cup {x}
      /\ ~(At(x) >= now - HistoryTtl) => Fresh(R \cup {x}) = Fresh(R)
  BY DEF Fresh
<1> HIDE DEF n
<1>6. Traffic(Fresh(R \cup {x})) \in Nat /\ Traffic(Fresh(R \cup {x})) <= Traffic(Fresh(R)) + n
  <2>1. CASE At(x) >= now - HistoryTtl
    BY <1>1, <1>4, <1>5, <2>1
  <2>2. CASE ~(At(x) >= now - HistoryTtl)
    BY <1>1, <1>4, <1>5, <2>2
  <2> QED
    BY <2>1, <2>2
<1>7. \A y \in Fresh(R \cup {x}) : y = x \/ y \in Fresh(R)
  BY DEF Fresh
<1>8. \A y \in R \cup {x} : At(y) \in Nat
  BY <1>1
<1> HIDE DEF new
\* The first record of its key, or the first since the row was deleted.
<1>9. CASE row = None
  <2>1. new = o
    BY <1>2, <1>9 DEF UpsertNaive
  <2>2. new.first = At(x) /\ new.last = At(x) /\ new.bytes = n /\ new \in Row /\ new # None
    BY <1>1, <2>1
  <2>3. Fresh(R) = {} /\ Traffic({}) = 0
    BY <1>9, FS_EmptySet DEF Counts, Traffic
  <2>4. \A y \in Fresh(R \cup {x}) : new.first <= At(y) /\ At(y) <= new.last
    BY <1>7, <1>8, <2>2, <2>3
  <2>5. Traffic(Fresh(R \cup {x})) <= new.bytes /\ new.bytes <= Traffic(R \cup {x})
    BY <1>1, <1>4, <1>6, <2>2, <2>3
  <2> QED
    BY <2>2, <2>4, <2>5 DEF Counts, new
<1>10. CASE row # None
  <2>1. /\ row \in Row
        /\ row.first \in Nat /\ row.last \in Nat /\ row.bytes \in Nat
        /\ row.first \in Time /\ row.last \in Time /\ row.traffic \in BOOLEAN
    BY <1>1, <1>10 DEF Row
  <2>2. /\ \A y \in Fresh(R) : row.first <= At(y) /\ At(y) <= row.last
        /\ \E y \in R : At(y) = row.last
        /\ Traffic(Fresh(R)) <= row.bytes
        /\ row.bytes <= Traffic(R)
    BY <1>10 DEF Counts
  <2>3. /\ new.first = Smaller(row.first, At(x)) /\ new.last = Greater(row.last, At(x))
        /\ new.bytes = row.bytes + n
    BY <1>2, <1>10 DEF UpsertNaive
  <2>4. new \in Row /\ new # None
    <3>1. /\ Smaller(row.first, At(x)) \in Time /\ Greater(row.last, At(x)) \in Time
          /\ row.bytes + n \in Nat
      BY <1>1, <2>1 DEF Smaller, Greater
    <3> DEFINE either == row.traffic \/ o.traffic
    <3>2. either \in BOOLEAN
      BY Zenon
    <3>3. new = [first |-> Smaller(row.first, o.first), last |-> Greater(row.last, o.last),
                 bytes |-> row.bytes + o.bytes, traffic |-> either]
      BY <1>2, <1>10, Zenon DEF UpsertNaive
    <3>4. o.first = At(x) /\ o.last = At(x) /\ o.bytes = n
      OBVIOUS
    <3> HIDE DEF either, o
    <3>5. new \in Row
      BY <3>1, <3>2, <3>3, <3>4 DEF Row
    <3> QED
      BY <1>1, <3>5
  <2>5. /\ new.first <= row.first /\ new.first <= At(x) /\ new.first \in Nat
        /\ row.last <= new.last /\ At(x) <= new.last /\ new.last \in Nat
        /\ new.last = row.last \/ new.last = At(x)
    BY <1>8, <2>1, <2>3 DEF Smaller, Greater
  <2>6. \A y \in Fresh(R \cup {x}) : new.first <= At(y) /\ At(y) <= new.last
    <3>1. \A y \in Fresh(R) : At(y) \in Nat
      BY <1>8 DEF Fresh
    <3> QED
      BY <1>7, <1>8, <2>1, <2>2, <2>5, <3>1
  <2>7. \E y \in R \cup {x} : At(y) = new.last
    BY <2>2, <2>5
  <2>8. Traffic(Fresh(R \cup {x})) <= new.bytes /\ new.bytes <= Traffic(R \cup {x})
    BY <1>1, <1>4, <1>6, <2>1, <2>2, <2>3
  <2> QED
    BY <2>4, <2>6, <2>7, <2>8 DEF Counts, new
<1> QED
  BY <1>9, <1>10

-----------------------------------------------------------------------------
(* A commit stores one record after the other.                             *)

\* The records of a key up to some numbers tk, by source.
ReadTo(k, tk) ==
  {x \in Sources \X (1 .. MaxRecords) : x[2] <= tk[x[1]] /\ logs[x[1]][x[2]].key = k}

Tables == [Key -> Row \cup {None}]

LogsOK ==
  /\ logs \in [Sources -> Seq(Record)]
  /\ taken \in [Sources -> Nat] /\ \A s \in Sources : taken[s] <= Len(logs[s])
  /\ \A s \in Sources : Len(logs[s]) <= MaxRecords

LEMMA ReadFinite ==
  ASSUME NEW k, NEW tk
  PROVE  IsFiniteSet(ReadTo(k, tk))
<1>1. IsFiniteSet(1 .. MaxRecords)
  BY StoreAssumption, FS_Interval
<1>2. IsFiniteSet({"auth"} \cup {"traffic"}) /\ Sources = {"auth"} \cup {"traffic"}
  BY FS_Singleton, FS_AddElement DEF Sources
<1>3. IsFiniteSet(Sources \X (1 .. MaxRecords))
  BY <1>1, <1>2, FS_Product
<1>4. ReadTo(k, tk) \in SUBSET (Sources \X (1 .. MaxRecords))
  BY DEF ReadTo
<1> QED
  BY <1>3, <1>4, FS_Subset

LEMMA ReadTimes ==
  ASSUME LogsOK, NEW tk, \A s \in Sources : tk[s] \in Nat /\ tk[s] <= Len(logs[s]),
         NEW k, NEW x \in ReadTo(k, tk)
  PROVE  At(x) \in Time
<1>1. x[1] \in Sources /\ x[2] \in 1 .. Len(logs[x[1]])
  BY DEF ReadTo, LogsOK
<1>2. logs[x[1]][x[2]] \in Record
  BY <1>1 DEF LogsOK
<1> QED
  BY <1>2 DEF At, Record

\* A record more is read: one more of its key, and none of the others.
LEMMA OneMoreRecord ==
  ASSUME LogsOK, NEW s \in Sources, NEW n \in 1 .. Len(logs[s]),
         NEW tk \in [Sources -> Nat], tk[s] = n - 1,
         NEW more, more = [tk EXCEPT ![s] = n]
  PROVE  /\ <<s, n>> \notin ReadTo(logs[s][n].key, tk)
         /\ ReadTo(logs[s][n].key, more) = ReadTo(logs[s][n].key, tk) \cup {<<s, n>>}
<1>1. \A x \in Sources \X (1 .. MaxRecords) :
        x[2] <= more[x[1]] <=> x[2] <= tk[x[1]] \/ x = <<s, n>>
  OBVIOUS
<1>2. <<s, n>> \in Sources \X (1 .. MaxRecords) /\ ~(n <= tk[s])
  BY StoreAssumption DEF LogsOK
<1> QED
  BY <1>1, <1>2 DEF ReadTo

\* The table the records up to to leave exists.
LEMMA StoredExists ==
  ASSUME NEW from \in Nat, NEW s, NEW to \in Nat, from <= to
  PROVE  \E f : f = [n \in from .. to |->
                       IF n = from THEN rows ELSE Store(f[n - 1], s, logs[s][n])]
<1> DEFINE Body(f, n) == IF n = from THEN rows ELSE Store(f[n - 1], s, logs[s][n])
           Made(f, t) == f = [n \in from .. t |-> Body(f, n)]
           S == {t \in from .. to : \E f : Made(f, t)}
<1>1. from \in S
  <2> DEFINE f == [n \in from .. from |-> rows]
  <2>1. Made(f, from)
    OBVIOUS
  <2> HIDE DEF f, Made
  <2> QED
    BY <2>1
<1>2. ASSUME NEW t \in from + 1 .. to, t - 1 \in S PROVE t \in S
  <2>1. PICK g : g = [n \in from .. t - 1 |-> Body(g, n)]
    BY <1>2
  <2> DEFINE f == [n \in from .. t |-> Body(g, n)]
  <2>2. ASSUME NEW n \in from .. t PROVE Body(g, n) = Body(f, n)
    <3>1. CASE n = from
      BY <3>1
    <3>2. CASE n # from
      <4>1. n - 1 \in from .. t - 1 /\ n - 1 \in from .. t
        BY <3>2
      <4>2. g[n - 1] = Body(g, n - 1)
        BY <2>1, <4>1
      <4>3. f[n - 1] = Body(g, n - 1)
        BY <4>1
      <4> HIDE DEF f
      <4> QED
        BY <4>2, <4>3
    <3> QED
      BY <3>1, <3>2
  <2>3. Made(f, t)
    <3> HIDE DEF Body
    <3> QED
      BY <2>2
  <2> HIDE DEF f, Made
  <2>4. t \in from .. to
    BY <1>2
  <2> QED
    BY <2>3, <2>4
<1>3. \A t \in from .. to : t \in S
  <2> HIDE DEF S
  <2> QED
    BY <1>1, <1>2, IntervalInduction
<1>4. to \in from .. to
  OBVIOUS
<1>5. \E f : Made(f, to)
  <2> HIDE DEF Made
  <2> QED
    BY <1>3, <1>4
<1> QED
  BY <1>5

\* One record more is stored: its key counts it, the others do not change.
LEMMA StoreCounts ==
  ASSUME now \in Nat, LogsOK, NEW s \in Sources, NEW n \in 1 .. Len(logs[s]),
         NEW tk \in [Sources -> Nat], tk[s] = n - 1,
         \A t \in Sources : tk[t] <= Len(logs[t]),
         NEW more, more = [tk EXCEPT ![s] = n],
         NEW table \in Tables, \A k \in Key : Counts(table[k], ReadTo(k, tk))
  PROVE  /\ Store(table, s, logs[s][n]) \in Tables
         /\ \A k \in Key : Counts(Store(table, s, logs[s][n])[k], ReadTo(k, more))
<1> DEFINE r == logs[s][n]
           x == <<s, n>>
           row == UpsertNaive(table[r.key], Observation(s, r))
           R == ReadTo(r.key, tk)
<1>1. r \in Record /\ r.key \in Key /\ r.at \in Time /\ At(x) = r.at
  <2>1. logs[s] \in Seq(Record)
    BY DEF LogsOK
  <2>2. r \in Record
    BY <2>1
  <2>3. At(x) = r.at
    BY DEF At
  <2> QED
    BY <2>2, <2>3 DEF Record
<1>2. x[1] = s /\ x[1] \in Sources
  OBVIOUS
<1>3. x \notin R /\ ReadTo(r.key, more) = R \cup {x}
  BY OneMoreRecord
\* The records of other keys are as many as before.
<1>4. ASSUME NEW k, r.key # k PROVE ReadTo(k, more) = ReadTo(k, tk)
  <2>1. \A y \in Sources \X (1 .. MaxRecords) :
          y[2] <= more[y[1]] <=> y[2] <= tk[y[1]] \/ y = <<s, n>>
    OBVIOUS
  <2>2. logs[s][n].key # k
    BY <1>4
  <2> HIDE DEF r, x, R
  <2> QED
    BY <2>1, <2>2 DEF ReadTo
<1>5. \A y \in R : At(y) \in Time
  BY ReadTimes
<1>6. IsFiniteSet(R)
  BY ReadFinite
<1>7. table[r.key] \in Row \cup {None} /\ Counts(table[r.key], R)
  BY <1>1 DEF Tables
<1> HIDE DEF r, x, R
<1>8. /\ UpsertNaive(table[r.key], Observation(x[1], r)) \in Row
      /\ Counts(UpsertNaive(table[r.key], Observation(x[1], r)), R \cup {x})
  BY <1>1, <1>2, <1>3, <1>5, <1>6, <1>7, RecordCounted
<1>9. row \in Row /\ Counts(row, R \cup {x})
  BY <1>2, <1>8
<1> HIDE DEF row
<1>10. Store(table, s, r) = [table EXCEPT ![r.key] = row]
  BY DEF Store, row
<1>11. Store(table, s, r) \in Tables
  BY <1>1, <1>9, <1>10 DEF Tables
<1>12. ASSUME NEW k \in Key PROVE Counts(Store(table, s, r)[k], ReadTo(k, more))
  <2>1. CASE k = r.key
    <3>1. Store(table, s, r)[k] = row
      BY <1>10, <2>1 DEF Tables
    <3> QED
      BY <1>3, <1>9, <2>1, <3>1
  <2>2. CASE k # r.key
    <3>1. Store(table, s, r)[k] = table[k]
      BY <1>10, <2>2 DEF Tables
    <3>2. ReadTo(k, more) = ReadTo(k, tk)
      BY <1>4, <2>2
    <3> QED
      BY <3>1, <3>2
  <2> QED
    BY <2>1, <2>2
<1> QED
  BY <1>11, <1>12 DEF r

\* A commit stores each record that it takes, once.
LEMMA StoredCounts ==
  ASSUME now \in Nat, LogsOK, rows \in Tables,
         \A k \in Key : Counts(rows[k], ReadTo(k, taken)),
         NEW s \in Sources, NEW to \in taken[s] .. Len(logs[s]),
         NEW more, more = [taken EXCEPT ![s] = to]
  PROVE  /\ Stored(s, to) \in Tables
         /\ \A k \in Key : Counts(Stored(s, to)[k], ReadTo(k, more))
<1> DEFINE from == taken[s]
           Table == CHOOSE f : f = [n \in from .. to |->
                       IF n = from THEN rows ELSE Store(f[n - 1], s, logs[s][n])]
           UpTo(n) == [taken EXCEPT ![s] = n]
           S == {n \in from .. to : /\ Table[n] \in Tables
                                    /\ \A k \in Key : Counts(Table[n][k], ReadTo(k, UpTo(n)))}
<1>1. /\ from \in Nat /\ to \in Nat /\ from <= to /\ Len(logs[s]) \in Nat /\ to <= Len(logs[s])
      /\ taken \in [Sources -> Nat] /\ \A t \in Sources : taken[t] <= Len(logs[t])
  BY DEF LogsOK
<1>2. Stored(s, to) = Table[to]
  BY DEF Stored
<1>3. Table = [n \in from .. to |->
                 IF n = from THEN rows ELSE Store(Table[n - 1], s, logs[s][n])]
  BY <1>1, StoredExists
<1> HIDE DEF Table
<1>4. /\ Table[from] = rows
      /\ \A n \in from + 1 .. to : Table[n] = Store(Table[n - 1], s, logs[s][n])
  BY <1>1, <1>3
<1>5. from \in S
  <2>1. UpTo(from) = taken /\ from \in from .. to
    BY <1>1
  <2> HIDE DEF UpTo
  <2> QED
    BY <1>4, <2>1
<1>6. ASSUME NEW n \in from + 1 .. to, n - 1 \in S PROVE n \in S
  <2>1. /\ n \in from .. to /\ n \in 1 .. Len(logs[s]) /\ n - 1 \in Nat /\ n - 1 <= Len(logs[s])
        /\ UpTo(n - 1)[s] = n - 1 /\ UpTo(n - 1) \in [Sources -> Nat]
        /\ UpTo(n) = [UpTo(n - 1) EXCEPT ![s] = n]
    BY <1>1
  <2>2. \A t \in Sources : UpTo(n - 1)[t] <= Len(logs[t])
    BY <1>1, <2>1
  <2>3. Table[n - 1] \in Tables /\ \A k \in Key : Counts(Table[n - 1][k], ReadTo(k, UpTo(n - 1)))
    BY <1>6
  <2> HIDE DEF UpTo
  <2> DEFINE tk == UpTo(n - 1)
             more_n == UpTo(n)
             table == Table[n - 1]
  <2>4. /\ n \in 1 .. Len(logs[s]) /\ tk \in [Sources -> Nat] /\ tk[s] = n - 1
        /\ \A t \in Sources : tk[t] <= Len(logs[t])
        /\ more_n = [tk EXCEPT ![s] = n]
        /\ table \in Tables /\ \A k \in Key : Counts(table[k], ReadTo(k, tk))
    BY <2>1, <2>2, <2>3
  <2> HIDE DEF tk, more_n, table
  <2>5. /\ Store(table, s, logs[s][n]) \in Tables
        /\ \A k \in Key : Counts(Store(table, s, logs[s][n])[k], ReadTo(k, more_n))
    BY <2>4, StoreCounts
  <2> QED
    BY <1>4, <2>1, <2>5 DEF more_n, table
<1>7. to \in S
  <2> HIDE DEF S, from
  <2>1. \A n \in from .. to : n \in S
    BY <1>1, <1>5, <1>6, IntervalInduction
  <2> QED
    BY <1>1, <2>1
<1> QED
  BY <1>2, <1>7

-----------------------------------------------------------------------------
(* The invariant of the naive half.                                        *)

\* Every row counts the records of its key that the checkpoints are past.
Counted == protocol = "naive" => \A k \in Key : Counts(rows[k], Read(k))

Room == Len(logs["auth"]) + Len(logs["traffic"]) <= MaxRecords

NaiveInv == TypeOK /\ Room /\ Counted

LEMMA LogsFit ==
  ASSUME TypeOK, Room
  PROVE  LogsOK
<1>1. \A s \in Sources : logs[s] \in Seq(Record) /\ Len(logs[s]) \in Nat
  BY DEF TypeOK
<1>2. \A s \in Sources : s = "auth" \/ s = "traffic"
  BY DEF Sources
<1>3. "auth" \in Sources /\ "traffic" \in Sources
  BY DEF Sources
<1>4. Len(logs["auth"]) \in Nat /\ Len(logs["traffic"]) \in Nat /\ MaxRecords \in Nat
  BY <1>1, <1>3, StoreAssumption
<1>5. Len(logs["auth"]) <= MaxRecords /\ Len(logs["traffic"]) <= MaxRecords
  <2>1. \A m, n \in Nat : m + n <= MaxRecords => m <= MaxRecords /\ n <= MaxRecords
    BY <1>4
  <2>2. Len(logs["auth"]) + Len(logs["traffic"]) <= MaxRecords
    BY DEF Room
  <2> QED
    BY <1>4, <2>1, <2>2
<1>6. \A s \in Sources : Len(logs[s]) <= MaxRecords
  BY <1>2, <1>5
<1> QED
  BY <1>6 DEF TypeOK, LogsOK

LEMMA ReadIsReadTo ==
  ASSUME TypeOK, Room, NEW k
  PROVE  /\ Read(k) = ReadTo(k, taken)
         /\ IsFiniteSet(Read(k))
         /\ \A x \in Read(k) : At(x) \in Time /\ x[1] \in Sources /\ x[2] \in 1 .. Len(logs[x[1]])
<1>1. Read(k) = ReadTo(k, taken)
  BY DEF Read, ReadTo
<1>2. \A s \in Sources : taken[s] \in Nat /\ taken[s] <= Len(logs[s])
  BY DEF TypeOK
<1>3. \A x \in Read(k) : x[1] \in Sources /\ x[2] \in 1 .. Len(logs[x[1]])
  BY <1>2 DEF Read, TypeOK
<1>4. \A x \in ReadTo(k, taken) : At(x) \in Time
  BY <1>2, LogsFit, ReadTimes
<1> QED
  BY <1>1, <1>3, <1>4, ReadFinite

\* Records are appended, the history covers less of them as time goes by.
LEMMA CountsKept ==
  ASSUME now \in Nat, now' \in Nat, now <= now',
         NEW k, IsFiniteSet(Read(k)), \A x \in Read(k) : At(x) \in Nat,
         rows[k] = None \/ rows[k].bytes \in Nat,
         Counts(rows[k], Read(k)),
         rows'[k] = rows[k], Read(k)' = Read(k), \A x \in Read(k) : At(x)' = At(x)
  PROVE  Counts(rows[k], Read(k))'
<1> DEFINE R == Read(k)
           F == Fresh(R)
<1>1. HistoryTtl \in Nat
  BY StoreAssumption
<1>2. /\ R' = R /\ \A x \in R : At(x)' = At(x)
      /\ F' \in SUBSET F /\ F \in SUBSET R
  BY <1>1 DEF Fresh
<1>3. Traffic(F') \in Nat /\ Traffic(F) \in Nat /\ Traffic(F') <= Traffic(F)
  BY <1>2, FS_Subset, TrafficGrows
<1>4. (Traffic(F))' = Traffic(F')
  BY DEF Traffic
<1> QED
  BY <1>2, <1>3, <1>4 DEF Counts

\* Only a row all of whose records are too old is deleted.
LEMMA PruneCounts ==
  ASSUME now \in Nat, rows \in Tables, NEW k \in Key, NEW R, \A x \in R : At(x) \in Nat,
         Counts(rows[k], R)
  PROVE  Prune(rows) \in Tables /\ Counts(Prune(rows)[k], R)
<1>1. HistoryTtl \in Nat
  BY StoreAssumption
<1>2. Prune(rows) \in Tables
  BY DEF Prune, Tables
<1>3. Prune(rows)[k] = IF rows[k] # None /\ rows[k].last < now - HistoryTtl THEN None ELSE rows[k]
  BY DEF Prune
<1>4. ASSUME rows[k] # None, rows[k].last < now - HistoryTtl PROVE Fresh(R) = {}
  <2>1. rows[k].last \in Nat
    BY <1>4 DEF Tables, Row, Time
  <2>2. \A x \in Fresh(R) : At(x) <= rows[k].last
    BY <1>4 DEF Counts
  <2> QED
    BY <1>1, <1>4, <2>1, <2>2 DEF Fresh
<1> QED
  BY <1>2, <1>3, <1>4 DEF Counts

LEMMA NaiveInitially == Init => NaiveInv
<1> SUFFICES ASSUME Init PROVE NaiveInv
  OBVIOUS
<1>1. NoRows \in [Key -> Counter \cup {None}] /\ NoRows \in [Key -> Row \cup {None}]
  BY DEF NoRows
<1>2. TypeOK
  BY <1>1, StoreAssumption DEF Init, TypeOK, Time, EmptySnapshot
<1>3. Room
  BY StoreAssumption DEF Init, Room, Sources
<1>4. \A k : Read(k) = {}
  BY DEF Init, Read
<1>5. \A k \in Key : rows[k] = None
  BY DEF Init, NoRows
<1> QED
  BY <1>2, <1>3, <1>4, <1>5 DEF NaiveInv, Counted, Counts, Fresh

\* What a mieru collection stores is typed.
LEMMA UpsertedTyped ==
  ASSUME rows \in Tables, NEW said \in [Key -> Counter \cup {None}]
  PROVE  Upserted(said) \in Tables
<1>1. ASSUME NEW k \in Key, said[k] # None PROVE Upserted(said)[k] \in Row
  <2> DEFINE o == [first |-> 0, last |-> said[k].last, bytes |-> said[k].bytes, traffic |-> TRUE]
  <2>1. Upserted(said)[k] = UpsertMieru(rows[k], o)
    BY <1>1 DEF Upserted
  <2>2. said[k].bytes \in Nat /\ said[k].last \in Time /\ 0 \in Time
    BY <1>1, StoreAssumption DEF Counter, Time
  <2>3. o \in Row
    BY <2>2 DEF Row
  <2>4. rows[k] = None \/ rows[k] \in Row
    BY DEF Tables
  <2> QED
    BY <2>1, <2>2, <2>3, <2>4 DEF UpsertMieru, Smaller, Greater, Row, Time
<1>2. ASSUME NEW k \in Key, said[k] = None PROVE Upserted(said)[k] = rows[k]
  BY <1>2 DEF Upserted
<1>3. \A k \in Key : Upserted(said)[k] \in Row \cup {None}
  BY <1>1, <1>2 DEF Tables
<1>4. Upserted(said) = [k \in Key |-> Upserted(said)[k]]
  BY DEF Upserted
<1> QED
  BY <1>3, <1>4 DEF Tables

LEMMA PruneTyped ==
  ASSUME NEW table \in Tables
  PROVE  Prune(table) \in Tables
BY DEF Prune, Tables

\* What the steps that do not touch the logs keep of the types.
LEMMA TypeFrame ==
  ASSUME TypeOK, Room, UNCHANGED <<protocol, now, logs, mita>>,
         enabled' \in BOOLEAN,
         taken' \in [Sources -> Nat], \A s \in Sources : taken'[s] <= Len(logs[s]),
         rows' \in Tables,
         snapshot' \in [rows : [Key -> Counter \cup {None}], stale : BOOLEAN],
         pc' \in {"idle", "mita", "prune"} \cup Sources,
         answer' \in [Key -> Counter \cup {None}] \cup {None},
         failures' \in 0 .. MaxFailures
  PROVE  TypeOK' /\ Room'
BY DEF TypeOK, Room, Tables

LEMMA TypeStep ==
  ASSUME NaiveInv, StoreInv, [Next]_vars
  PROVE  TypeOK' /\ Room'
<1> USE DEF settings, world, kept
<1> DEFINE Said == [Key -> Counter \cup {None}]
           Snapshot == [rows : Said, stale : BOOLEAN]
           Control == {"idle", "mita", "prune"} \cup Sources
<1>1. /\ TypeOK /\ Room /\ MieruOnly /\ now \in Time
      /\ rows \in Tables /\ mita \in Said /\ snapshot \in Snapshot
      /\ enabled \in BOOLEAN /\ failures \in 0 .. MaxFailures
      /\ answer \in Said \cup {None} /\ pc \in Control
      /\ taken \in [Sources -> Nat] /\ \A s \in Sources : taken[s] <= Len(logs[s])
  BY DEF NaiveInv, StoreInv, TypeOK, Tables
<1>2. {MaxNow, MaxRecords, MaxBytes, MaxFailures} \subseteq Nat
  BY StoreAssumption
<1>3. \A b \in BOOLEAN : [snapshot EXCEPT !.stale = b] \in Snapshot
  BY <1>1
<1>4. ASSUME NEW skipped \in SUBSET Key
      PROVE  /\ Parsed(skipped) \in Said
             /\ Upserted(Parsed(skipped)) \in Tables /\ Prune(Upserted(Parsed(skipped))) \in Tables
             /\ \A new \in Snapshots(skipped) : new \in Snapshot /\ [new EXCEPT !.stale = TRUE] \in Snapshot
  <2>1. Parsed(skipped) \in Said
    BY <1>1 DEF Parsed
  <2>2. Upserted(Parsed(skipped)) \in Tables
    BY <1>1, <2>1, UpsertedTyped
  <2>3. Prune(Upserted(Parsed(skipped))) \in Tables
    BY <2>2, PruneTyped
  <2>4. ASSUME NEW new \in Snapshots(skipped) PROVE new \in Snapshot
    <3>1. CASE Usable(skipped)
      <4>1. PICK stale \in BOOLEAN : new = [rows |-> Parsed(skipped), stale |-> stale]
        BY <2>4, <3>1 DEF Snapshots
      <4> QED
        BY <2>1, <4>1
    <3>2. CASE ~Usable(skipped)
      BY <1>3, <2>4, <3>2 DEF Snapshots
    <3> QED
      BY <3>1, <3>2
  <2>5. \A new \in Snapshot : [new EXCEPT !.stale = TRUE] \in Snapshot
    OBVIOUS
  <2> QED
    BY <2>1, <2>2, <2>3, <2>4, <2>5
<1>5. CASE Tick
  <2>1. now' \in Time /\ UNCHANGED <<settings, logs, mita, kept, snapshot, pc, answer, failures>>
    BY <1>1, <1>2, <1>5 DEF Tick, Time
  <2> QED
    BY <1>1, <2>1 DEF TypeOK, Room
<1>6. ASSUME NEW s \in Sources, NEW k \in Key, Log(s, k) PROVE TypeOK' /\ Room'
  <2> DEFINE r == [key |-> k, at |-> now]
  <2>1. r \in Record
    BY <1>1 DEF Record
  <2>2. /\ logs' = [logs EXCEPT ![s] = Append(logs[s], r)]
        /\ Len(logs["auth"]) + Len(logs["traffic"]) < MaxRecords
        /\ UNCHANGED <<settings, now, mita, kept, snapshot, pc, answer, failures>>
    BY <1>6 DEF Log
  <2> HIDE DEF r
  <2>3. logs \in [Sources -> Seq(Record)]
    BY <1>1 DEF TypeOK
  <2>4. /\ logs' \in [Sources -> Seq(Record)]
        /\ \A t \in Sources : /\ Len(logs'[t]) \in Nat /\ Len(logs[t]) \in Nat
                              /\ Len(logs'[t]) = IF t = s THEN Len(logs[t]) + 1 ELSE Len(logs[t])
    BY <2>1, <2>2, <2>3
  <2>5. \A t \in Sources : taken[t] \in Nat /\ taken[t] <= Len(logs'[t])
    BY <1>1, <2>4
  <2>6. TypeOK'
    BY <1>1, <2>2, <2>4, <2>5 DEF TypeOK
  <2>7. Room'
    <3> DEFINE a == Len(logs["auth"])
               b == Len(logs["traffic"])
               c == Len(logs'["auth"])
               d == Len(logs'["traffic"])
    <3>1. {"auth", "traffic"} = Sources /\ "auth" # "traffic" /\ (s = "auth" \/ s = "traffic")
      BY DEF Sources
    <3>2. a \in Nat /\ b \in Nat /\ c \in Nat /\ d \in Nat
      BY <2>4, <3>1
    <3>3. (c = a + 1 /\ d = b) \/ (c = a /\ d = b + 1)
      BY <2>4, <3>1
    <3>4. a + b < MaxRecords
      BY <2>2
    <3> HIDE DEF a, b, c, d
    <3>5. c + d <= MaxRecords
      BY <1>2, <3>2, <3>3, <3>4
    <3> QED
      BY <3>5 DEF Room, c, d
  <2> QED
    BY <2>6, <2>7
<1>7. ASSUME NEW k \in Key, Use(k) PROVE TypeOK' /\ Room'
  <2>1. PICK n \in 0 .. MaxBytes : mita' = [mita EXCEPT ![k] = [bytes |-> n, last |-> now]]
    BY <1>7 DEF Use
  <2>2. [bytes |-> n, last |-> now] \in Counter
    BY <1>1 DEF Counter
  <2>3. mita' \in Said
    BY <1>1, <2>1, <2>2
  <2> QED
    BY <1>1, <1>7, <2>3 DEF Use, TypeOK, Room
\* The other steps leave the clock, the logs and mita alone.
<1> HIDE DEF Said, Snapshot, Control
<1>8. ASSUME UNCHANGED <<protocol, now, logs, mita>>,
             enabled' \in BOOLEAN,
             taken' \in [Sources -> Nat], \A s \in Sources : taken'[s] <= Len(logs[s]),
             rows' \in Tables, snapshot' \in Snapshot, pc' \in Control,
             answer' \in Said \cup {None}, failures' \in 0 .. MaxFailures
      PROVE  TypeOK' /\ Room'
  BY <1>1, <1>8, TypeFrame DEF Said, Snapshot, Control
<1>9. {"idle", "mita", "prune", "auth", "traffic"} \subseteq Control
  BY DEF Control, Sources
<1>10. CASE Toggle
  BY <1>1, <1>8, <1>10 DEF Toggle
<1>11. CASE Begin
  BY <1>1, <1>8, <1>9, <1>11 DEF Begin
<1>12. CASE BeginDisabled
  BY <1>1, <1>3, <1>8, <1>12 DEF BeginDisabled
<1>13. ASSUME NEW s \in Sources, Commit(s) PROVE TypeOK' /\ Room'
  <2>1. PICK to \in taken[s] .. Len(logs[s]) :
          rows' = Stored(s, to) /\ taken' = [taken EXCEPT ![s] = to]
    BY <1>13 DEF Commit
  <2>2. pc = s /\ pc' = NextSource
    BY <1>13 DEF Commit
  <2>3. protocol = "naive"
    BY <1>1, <2>2 DEF MieruOnly, Sources
  <2>4. now \in Nat /\ LogsOK
    BY <1>1, LogsFit DEF Time
  <2>5. \A k \in Key : Counts(rows[k], ReadTo(k, taken))
    BY <1>1, <2>3, ReadIsReadTo DEF NaiveInv, Counted
  <2>6. rows' \in Tables
    BY <1>1, <2>1, <2>4, <2>5, StoredCounts
  <2>7. taken' \in [Sources -> Nat] /\ \A t \in Sources : taken'[t] <= Len(logs[t])
    BY <1>1, <2>1, <2>4 DEF LogsOK
  <2>8. pc' \in Control
    BY <1>9, <2>2 DEF NextSource
  <2> QED
    BY <1>1, <1>8, <1>13, <2>6, <2>7, <2>8 DEF Commit
<1>14. ASSUME NEW s \in Sources, SourceUnavailable(s) PROVE TypeOK' /\ Room'
  BY <1>1, <1>8, <1>9, <1>14 DEF SourceUnavailable, NextSource
<1>15. CASE PruneExpired
  BY <1>1, <1>8, <1>9, <1>15, PruneTyped DEF PruneExpired
<1>16. ASSUME NEW skipped \in SUBSET Key, MitaAnswers(skipped) PROVE TypeOK' /\ Room'
  BY <1>1, <1>4, <1>8, <1>9, <1>16 DEF MitaAnswers
<1>17. CASE MitaUnavailable
  BY <1>1, <1>3, <1>8, <1>9, <1>17, PruneTyped DEF MitaUnavailable
<1>18. Fail => failures' \in 0 .. MaxFailures
  BY <1>1, <1>2 DEF Fail
<1>19. CASE Throws
  BY <1>1, <1>3, <1>8, <1>9, <1>18, <1>19 DEF Throws
<1>20. ASSUME NEW skipped \in SUBSET Key, PruningThrows(skipped) PROVE TypeOK' /\ Room'
  BY <1>1, <1>4, <1>8, <1>9, <1>18, <1>20 DEF PruningThrows
<1>21. CASE Crash
  <2>1. NoRows \in Said
    BY DEF NoRows, Said
  <2>2. EmptySnapshot \in Snapshot
    BY <2>1 DEF EmptySnapshot, Snapshot
  <2> QED
    BY <1>1, <1>8, <1>9, <1>18, <1>21, <2>2 DEF Crash
<1>22. CASE UNCHANGED vars
  BY <1>1, <1>8, <1>22 DEF vars
<1> QED
  BY <1>5, <1>6, <1>7, <1>10, <1>11, <1>12, <1>13, <1>14, <1>15, <1>16, <1>17, <1>19, <1>20,
     <1>21, <1>22 DEF Next, Collector

LEMMA CountedStep ==
  ASSUME NaiveInv, StoreInv, [Next]_vars
  PROVE  Counted'
<1> USE DEF settings, world, kept
<1>1. /\ TypeOK /\ Room /\ LogsOK /\ MieruOnly /\ now \in Nat /\ rows \in Tables
      /\ taken \in [Sources -> Nat] /\ \A s \in Sources : taken[s] <= Len(logs[s])
      /\ logs \in [Sources -> Seq(Record)]
  BY LogsFit DEF NaiveInv, StoreInv, TypeOK, Tables, Time
<1>2. protocol' = protocol
  BY DEF Next, Collector, vars, Tick, Use, Log, Toggle, Begin, BeginDisabled, Commit,
         SourceUnavailable, PruneExpired, MitaAnswers, MitaUnavailable, Throws, PruningThrows, Crash
<1> SUFFICES ASSUME protocol = "naive", NEW k \in Key
             PROVE  Counts(rows[k], Read(k))'
  BY <1>2 DEF Counted
<1>3. Counts(rows[k], Read(k)) /\ pc # "mita"
  BY <1>1 DEF NaiveInv, Counted, MieruOnly
<1>4. /\ Read(k) = ReadTo(k, taken) /\ IsFiniteSet(Read(k))
      /\ \A x \in Read(k) : /\ At(x) \in Time /\ At(x) \in Nat
                            /\ x[1] \in Sources /\ x[2] \in 1 .. Len(logs[x[1]])
  BY <1>1, ReadIsReadTo DEF Time
<1>5. rows[k] = None \/ rows[k].bytes \in Nat
  BY <1>1 DEF Tables, Row
\* The table and what was read stay, records may be appended and time may pass.
<1>6. ASSUME now' \in Nat, now <= now', rows' = rows,
             Read(k)' = Read(k), \A x \in Read(k) : At(x)' = At(x)
      PROVE  Counts(rows[k], Read(k))'
  BY <1>1, <1>3, <1>4, <1>5, <1>6, CountsKept
<1>7. CASE Tick
  <2>1. now' = now + 1 /\ logs' = logs /\ taken' = taken /\ rows' = rows
    BY <1>7 DEF Tick
  <2>2. Read(k)' = Read(k) /\ \A x \in Read(k) : At(x)' = At(x)
    BY <2>1 DEF Read, At
  <2> QED
    BY <1>1, <1>6, <2>1, <2>2
<1>8. ASSUME NEW s \in Sources, NEW key \in Key, Log(s, key) PROVE Counts(rows[k], Read(k))'
  <2>1. /\ logs' = [logs EXCEPT ![s] = Append(logs[s], [key |-> key, at |-> now])]
        /\ now' = now /\ taken' = taken /\ rows' = rows
    BY <1>8 DEF Log
  <2>2. ASSUME NEW t \in Sources, NEW n \in 1 .. MaxRecords, n <= taken[t]
        PROVE  logs'[t][n] = logs[t][n]
    <3>1. n \in 1 .. Len(logs[t]) /\ logs[t] \in Seq(Record)
      BY <1>1, <2>2
    <3>2. CASE t = s
      <4>1. logs'[t] = Append(logs[t], [key |-> key, at |-> now])
        BY <1>1, <2>1, <3>2
      <4> QED
        BY <3>1, <4>1
    <3>3. CASE t # s
      BY <2>1, <3>3
    <3> QED
      BY <3>2, <3>3
  <2>3. Read(k)' = Read(k)
    <3>1. \A x \in Sources \X (1 .. MaxRecords) :
            x[2] <= taken[x[1]] => logs'[x[1]][x[2]] = logs[x[1]][x[2]]
      BY <2>2
    <3> QED
      BY <2>1, <3>1 DEF Read
  <2>4. \A x \in Read(k) : At(x)' = At(x)
    BY <2>2 DEF Read, At
  <2> QED
    BY <1>1, <1>6, <2>1, <2>3, <2>4
<1>9. ASSUME UNCHANGED <<now, logs, taken, rows>> PROVE Counts(rows[k], Read(k))'
  <2>1. Read(k)' = Read(k) /\ \A x \in Read(k) : At(x)' = At(x)
    BY <1>9 DEF Read, At
  <2> QED
    BY <1>1, <1>6, <1>9, <2>1
<1>10. CASE Toggle \/ Begin \/ BeginDisabled \/ Throws \/ Crash \/ UNCHANGED vars
            \/ (\E key \in Key : Use(key)) \/ (\E s \in Sources : SourceUnavailable(s))
  BY <1>9, <1>10 DEF Toggle, Begin, BeginDisabled, Throws, Crash, vars, Use, SourceUnavailable
\* The table is replaced by one that counts what is then read.
<1>11. ASSUME NEW table, NEW tk, rows' = table, taken' = tk, now' = now, logs' = logs,
              Counts(table[k], ReadTo(k, tk))
       PROVE  Counts(rows[k], Read(k))'
  BY <1>11 DEF Counts, Fresh, Read, ReadTo, At
<1>12. ASSUME NEW s \in Sources, Commit(s) PROVE Counts(rows[k], Read(k))'
  <2>1. PICK to \in taken[s] .. Len(logs[s]) :
          rows' = Stored(s, to) /\ taken' = [taken EXCEPT ![s] = to]
    BY <1>12 DEF Commit
  <2>2. now' = now /\ logs' = logs
    BY <1>12 DEF Commit
  <2>3. \A key \in Key : Counts(rows[key], ReadTo(key, taken))
    BY <1>1, ReadIsReadTo DEF NaiveInv, Counted
  <2> DEFINE tk == [taken EXCEPT ![s] = to]
             table == Stored(s, to)
  <2>4. Counts(table[k], ReadTo(k, tk))
    BY <1>1, <2>3, StoredCounts
  <2>5. rows' = table /\ taken' = tk
    BY <2>1
  <2> HIDE DEF tk, table
  <2> QED
    BY <1>11, <2>2, <2>4, <2>5
<1>13. CASE PruneExpired
  <2> DEFINE table == Prune(rows)
  <2>1. Counts(table[k], ReadTo(k, taken))
    BY <1>1, <1>3, <1>4, PruneCounts
  <2>2. rows' = table /\ taken' = taken /\ now' = now /\ logs' = logs
    BY <1>13 DEF PruneExpired
  <2> HIDE DEF table
  <2> QED
    BY <1>11, <2>1, <2>2
<1>14. ~MitaUnavailable /\ \A skipped \in SUBSET Key : ~MitaAnswers(skipped) /\ ~PruningThrows(skipped)
  BY <1>3 DEF MitaUnavailable, MitaAnswers, PruningThrows
<1> QED
  BY <1>7, <1>8, <1>10, <1>12, <1>13, <1>14 DEF Next, Collector

LEMMA NaiveInvariance == Spec => [](NaiveInv /\ StoreInv)
<1>1. Init => NaiveInv /\ StoreInv
  BY NaiveInitially, StoreInitially
<1>2. (NaiveInv /\ StoreInv) /\ [Next]_vars => (NaiveInv /\ StoreInv)'
  BY TypeStep, CountedStep, StoreStep DEF NaiveInv
<1> QED
  BY <1>1, <1>2, PTL DEF Spec

\* The store, the logs and the snapshot have the shapes the code gives them,
\* and no checkpoint is past the end of its log.
THEOREM StoreTypeTheorem == Spec => []TypeOK
<1>1. NaiveInv => TypeOK
  BY DEF NaiveInv
<1> QED
  BY <1>1, NaiveInvariance, PTL

\* A session reported to the Backend counts the bytes of every record of the
\* history, and those of no record twice, whatever commits of
\* collectNaiveSource fail, are repeated or fall to a crash.
THEOREM ByteTheorem == Spec => []EveryByteOnce
<1>1. ASSUME NaiveInv PROVE EveryByteOnce
  <2>1. \A k : Recent(k, HistoryTtl) = Fresh(Read(k))
    BY DEF Recent, Fresh
  <2> QED
    BY <1>1, <2>1 DEF NaiveInv, Counted, Counts, EveryByteOnce
<1> QED
  BY <1>1, NaiveInvariance, PTL

\* What the table says of who was seen the records say too, and it says it of
\* every session the history covers.
LEMMA MatchingIsSeen ==
  ASSUME NaiveInv, protocol = "naive", NEW ttl \in SessionTtls \cup {HistoryTtl}
  PROVE  /\ \A k \in Matching(ttl) :
              /\ k \in Key /\ rows[k].last \in Nat
              /\ \E y \in Recent(k, ttl) : At(y) = rows[k].last
         /\ \A k \in Key : Recent(k, ttl) # {} /\ Recent(k, HistoryTtl) # {} =>
              /\ k \in Matching(ttl)
              /\ \A x \in Recent(k, ttl) : At(x) \in Nat /\ At(x) <= rows[k].last
<1>1. /\ TypeOK /\ Room /\ now \in Nat /\ rows \in Tables
      /\ ttl \in Nat /\ HistoryTtl \in Nat
  <2>1. ttl \in Nat /\ HistoryTtl \in Nat
    BY StoreAssumption
  <2> QED
    BY <2>1 DEF NaiveInv, TypeOK, Tables, Time
<1>2. ASSUME NEW k \in Key
      PROVE  /\ \A x \in Read(k) : At(x) \in Nat
             /\ Counts(rows[k], Read(k))
             /\ rows[k] # None => rows[k].last \in Nat
  <2>1. \A x \in Read(k) : At(x) \in Nat
    BY <1>1, ReadIsReadTo DEF Time
  <2>2. rows[k] # None => rows[k].last \in Nat
    BY <1>1 DEF Tables, Row, Time
  <2> QED
    BY <2>1, <2>2 DEF NaiveInv, Counted
<1>3. ASSUME NEW k \in Matching(ttl)
      PROVE  /\ k \in Key /\ rows[k].last \in Nat
             /\ \E y \in Recent(k, ttl) : At(y) = rows[k].last
  <2>1. k \in Key /\ rows[k] # None /\ rows[k].last >= now - ttl
    BY DEF Matching, Known
  <2>2. \E y \in Read(k) : At(y) = rows[k].last
    BY <1>2, <2>1 DEF Counts
  <2> QED
    BY <1>2, <2>1, <2>2 DEF Recent
<1>4. ASSUME NEW k \in Key, Recent(k, ttl) # {}, Recent(k, HistoryTtl) # {}
      PROVE  /\ k \in Matching(ttl)
             /\ \A x \in Recent(k, ttl) : At(x) \in Nat /\ At(x) <= rows[k].last
  <2>1. PICK f \in Recent(k, HistoryTtl) : TRUE
    BY <1>4
  <2>2. f \in Fresh(Read(k)) /\ At(f) \in Nat /\ At(f) >= now - HistoryTtl
    BY <1>2, <2>1 DEF Recent, Fresh
  <2>3. rows[k] # None /\ rows[k].last \in Nat
    BY <1>2, <2>2 DEF Counts
  <2>4. \A x \in Fresh(Read(k)) : At(x) <= rows[k].last
    BY <1>2, <2>3 DEF Counts
  <2>5. ASSUME NEW x \in Recent(k, ttl) PROVE At(x) \in Nat /\ At(x) <= rows[k].last
    <3>1. x \in Read(k) /\ At(x) \in Nat
      BY <1>2 DEF Recent
    <3>2. CASE At(x) >= now - HistoryTtl
      BY <2>4, <3>1, <3>2 DEF Fresh
    <3>3. CASE ~(At(x) >= now - HistoryTtl)
      <4>1. At(f) <= rows[k].last
        BY <2>2, <2>4
      <4> QED
        BY <1>1, <2>2, <2>3, <3>1, <3>3, <4>1
    <3> QED
      BY <3>2, <3>3
  <2>6. PICK x \in Recent(k, ttl) : TRUE
    BY <1>4
  <2>7. At(x) >= now - ttl /\ At(x) \in Nat /\ At(x) <= rows[k].last
    BY <2>5, <2>6 DEF Recent
  <2>8. rows[k].last >= now - ttl
    BY <1>1, <2>3, <2>7
  <2> QED
    BY <2>3, <2>5, <2>8 DEF Matching, Known
<1> QED
  BY <1>3, <1>4

\* The sessions listed have a record in the window asked for, and they are all
\* that have one and that the history covers, unless the limit cuts off those
\* seen first, whether or not collections fail meanwhile, and whether the
\* window is longer than the history or not (listTelemetrySessions).
THEOREM ListTheorem == Spec => []ListsWhoWasSeen
<1>1. ASSUME NaiveInv PROVE ListsWhoWasSeen
  <2> SUFFICES ASSUME protocol = "naive", NEW ttl \in SessionTtls \cup {HistoryTtl},
                      NEW S \in Listings(ttl)
               PROVE  LET seen    == {k \in Key : Recent(k, ttl) # {}}
                          covered == {k \in seen : Recent(k, HistoryTtl) # {}}
                      IN  /\ S \subseteq seen
                          /\ Cardinality(seen) <= Limit => covered \subseteq S
                          /\ \A k \in S, other \in covered \ S : \A x \in Recent(other, ttl) :
                               \E y \in Recent(k, ttl) : At(y) >= At(x)
    BY DEF ListsWhoWasSeen
  <2> DEFINE M == Matching(ttl)
  <2> DEFINE seen == {k \in Key : Recent(k, ttl) # {}}
  <2> DEFINE covered == {k \in seen : Recent(k, HistoryTtl) # {}}
  <2>1. \A k \in M : /\ k \in seen /\ rows[k].last \in Nat
                     /\ \E y \in Recent(k, ttl) : At(y) = rows[k].last
    BY <1>1, MatchingIsSeen
  <2>2. \A k \in covered :
          k \in M /\ \A x \in Recent(k, ttl) : At(x) \in Nat /\ At(x) <= rows[k].last
    BY <1>1, MatchingIsSeen
  <2>3. /\ S \in SUBSET M
        /\ Cardinality(S) = Smaller(Limit, Cardinality(M))
        /\ \A k \in S, other \in M \ S : rows[k].last >= rows[other].last
    BY DEF Listings
  <2>4. seen \in SUBSET Key
    OBVIOUS
  <2> HIDE DEF M, seen, covered
  <2>5. /\ IsFiniteSet(M) /\ Cardinality(M) \in Nat
        /\ Cardinality(seen) \in Nat /\ Cardinality(M) <= Cardinality(seen)
    <3>1. IsFiniteSet(seen)
      BY <2>4, StoreAssumption, FS_Subset
    <3>2. M \in SUBSET seen
      BY <2>1
    <3> QED
      BY <3>1, <3>2, FS_Subset, FS_CardinalityType
  <2>6. Cardinality(seen) <= Limit => S = M
    <3>1. Cardinality(seen) <= Limit => Cardinality(M) = Cardinality(S)
      BY <2>3, <2>5, StoreAssumption DEF Smaller
    <3> QED
      BY <2>3, <2>5, <3>1, FS_Subset
  <2>7. ASSUME NEW k \in S, NEW other \in covered \ S, NEW x \in Recent(other, ttl)
        PROVE  \E y \in Recent(k, ttl) : At(y) >= At(x)
    <3>1. PICK y \in Recent(k, ttl) : At(y) = rows[k].last
      BY <2>1, <2>3
    <3>2. /\ rows[k].last \in Nat /\ rows[other].last \in Nat /\ At(x) \in Nat
          /\ At(x) <= rows[other].last /\ rows[k].last >= rows[other].last
      BY <2>1, <2>2, <2>3
    <3> QED
      BY <3>1, <3>2
  <2> QED
    BY <2>1, <2>2, <2>3, <2>6, <2>7 DEF seen, covered
<1> QED
  BY <1>1, NaiveInvariance, PTL

=============================================================================
