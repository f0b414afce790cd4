--------------------------- MODULE TelemetryStore ---------------------------
(***************************************************************************)
(* What a collection leaves behind: the table telemetry_sessions           *)
(* (telemetry/storage.js), filled by collectNaive or collectMieru          *)
(* (telemetry/service.js), the snapshot of mita's last answer kept in      *)
(* memory for the panel, and what GET /v1/telemetry/sessions lists.        *)
(*                                                                         *)
(* A naive collection commits the two audit logs one after the other and   *)
(* awaits between them; each commit stores the records read and the        *)
(* checkpoint in one transaction (module AuditLogReader shows that what is *)
(* read are the records of the log, each once and in order).  A mieru      *)
(* collection awaits mita and does the rest in one turn.  Either ends by   *)
(* deleting what the history no longer covers, unless an exception ended   *)
(* it before.                                                              *)
(***************************************************************************)
EXTENDS Integers, FiniteSets, Sequences

CONSTANTS
  Key,         \* the sessions: a user's address (naive), or a user (mieru)
  HistoryTtl,  \* ipHistoryTtlHours
  SessionTtls, \* values of sessionTtlMinutes, longer than the history or shorter
  Limit,       \* TELEMETRY_HARD_SESSION_LIMIT
  None,        \* no row
  MaxNow,      \* bound on the clock
  MaxRecords,  \* bound on the records of both logs
  MaxBytes,    \* bound on mita's counters
  MaxFailures  \* bound on crashes and on exceptions in a collection

ASSUME StoreAssumption ==
  /\ {HistoryTtl, Limit, MaxNow, MaxRecords, MaxBytes, MaxFailures} \subseteq Nat
  /\ SessionTtls \subseteq Nat
  /\ Limit > 0
  /\ IsFiniteSet(Key)
  /\ None \notin [first : Nat, last : Nat, bytes : Nat, traffic : BOOLEAN]
  /\ None \notin [bytes : Nat, last : Nat]

VARIABLES
  protocol,  \* cfg.protocolType
  enabled,   \* cfg.telemetryEnabled
  now,       \* the clock
  logs,      \* by source: the records of the audit log
  taken,     \* by source: how many of them the checkpoint is past
  mita,      \* by user: mita's counter and LastActive
  rows,      \* the table telemetry_sessions
  snapshot,  \* latestMieruSnapshot
  pc,        \* what the collection waits for
  answer,    \* history: what the last attempt to ask mita came to
  failures   \* crashes and exceptions so far

settings == <<protocol, enabled>>
world == <<now, logs, mita>>
kept == <<taken, rows>>
vars == <<settings, world, kept, snapshot, pc, answer, failures>>

Sources == {"auth", "traffic"}
Time == 0 .. MaxNow

\* A record of a log: only those of the traffic log carry bytes, one each.
Record == [key : Key, at : Time]

Row == [first : Time, last : Time, bytes : Nat, traffic : BOOLEAN]

Counter == [bytes : 0 .. MaxBytes, last : Time]

NoRows == [k \in Key |-> None]

\* The rows a table or an answer of mita has.
Known(t) == {k \in Key : t[k] # None}

EmptySnapshot == [rows |-> NoRows, stale |-> FALSE]

Init ==
  /\ protocol \in {"naive", "mieru"}
  /\ enabled = TRUE
  /\ now = 0
  /\ logs = [s \in Sources |-> <<>>]
  /\ taken = [s \in Sources |-> 0]
  /\ mita = NoRows
  /\ rows = NoRows
  /\ snapshot = EmptySnapshot
  /\ pc = "idle"
  /\ answer = NoRows
  /\ failures = 0

-----------------------------------------------------------------------------
(* The world.                                                              *)

Tick ==
  /\ now < MaxNow
  /\ now' = now + 1
  /\ UNCHANGED <<settings, logs, mita, kept, snapshot, pc, answer, failures>>

\* The proxy logs the start or the end of a connection.
Log(s, k) ==
  /\ protocol = "naive"
  /\ Len(logs["auth"]) + Len(logs["traffic"]) < MaxRecords
  /\ logs' = [logs EXCEPT ![s] = Append(@, [key |-> k, at |-> now])]
  /\ UNCHANGED <<settings, now, mita, kept, snapshot, pc, answer, failures>>

\* A user of mita is active; traffic of thirty days ago drops out.
Use(k) ==
  /\ protocol = "mieru"
  /\ \E n \in 0 .. MaxBytes : mita' = [mita EXCEPT ![k] = [bytes |-> n, last |-> now]]
  /\ UNCHANGED <<settings, now, logs, kept, snapshot, pc, answer, failures>>

Toggle ==
  /\ enabled' = ~enabled
  /\ UNCHANGED <<protocol, world, kept, snapshot, pc, answer, failures>>

-----------------------------------------------------------------------------
(* The table.                                                              *)

Smaller(a, b) == IF a < b THEN a ELSE b
Greater(a, b) == IF a > b THEN a ELSE b

\* upsertNaiveObservation: bytes add up.
UpsertNaive(row, o) ==
  IF row = None THEN o
  ELSE [first   |-> Smaller(row.first, o.first),
        last    |-> Greater(row.last, o.last),
        bytes   |-> row.bytes + o.bytes,
        traffic |-> row.traffic \/ o.traffic]

\* Slip: bytes add up as they do for naive.
UpsertMieruAdds(row, o) == UpsertNaive(row, o)

\* upsertMieruObservation: bytes are mita's own counter.
UpsertMieru(row, o) ==
  IF row = None THEN o
  ELSE [first   |-> Smaller(row.first, o.first),
        last    |-> Greater(row.last, o.last),
        bytes   |-> o.bytes,
        traffic |-> o.traffic]

\* What parseNaiveAuthEvent and parseNaiveTrafficEvent make of a record.
Observation(s, r) ==
  [first |-> r.at, last |-> r.at, bytes |-> IF s = "traffic" THEN 1 ELSE 0,
   traffic |-> s = "traffic"]

Store(table, s, r) == [table EXCEPT ![r.key] = UpsertNaive(@, Observation(s, r))]

\* The table after the records up to one of them.
Stored(s, to) ==
  LET table[n \in taken[s] .. to] ==
        IF n = taken[s] THEN rows ELSE Store(table[n - 1], s, logs[s][n])
  IN  table[to]

\* Slip: what was seen exactly as long ago as the history goes is deleted.
PruneOffByOne(table) ==
  [k \in Key |-> IF table[k] # None /\ table[k].last <= now - HistoryTtl THEN None ELSE table[k]]

\* pruneExpiredTelemetry.
Prune(table) ==
  [k \in Key |-> IF table[k] # None /\ table[k].last < now - HistoryTtl THEN None ELSE table[k]]

-----------------------------------------------------------------------------
(* A collection.                                                           *)

Begin ==
  /\ pc = "idle"
  /\ enabled
  /\ pc' = IF protocol = "naive" THEN "auth" ELSE "mita"
  /\ UNCHANGED <<settings, world, kept, snapshot, answer, failures>>

\* Telemetry is switched off: nothing is collected, and nothing deleted.
BeginDisabled ==
  /\ pc = "idle"
  /\ ~enabled
  /\ snapshot' = [snapshot EXCEPT !.stale = Known(snapshot.rows) # {}]
  /\ UNCHANGED <<settings, world, kept, pc, answer, failures>>

NextSource == IF pc = "auth" THEN "traffic" ELSE "prune"

\* Slip: the checkpoint is saved in a transaction of its own, which fails.
CommitWithoutCheckpoint(s) ==
  /\ pc = s
  /\ \E to \in taken[s] .. Len(logs[s]) :
       rows' = Stored(s, to)
  /\ pc' = NextSource
  /\ UNCHANGED <<settings, world, taken, snapshot, answer, failures>>

\* collectNaiveSource: a prefix of what is unread, with the checkpoint.
Commit(s) ==
  /\ pc = s
  /\ \E to \in taken[s] .. Len(logs[s]) :
       /\ rows' = Stored(s, to)
       /\ taken' = [taken EXCEPT ![s] = to]
  /\ pc' = NextSource
  /\ UNCHANGED <<settings, world, snapshot, answer, failures>>

\* Slip: the collection gives up when a log cannot be read.
SourceUnavailableEnds(s) ==
  /\ pc = s
  /\ pc' = "idle"
  /\ UNCHANGED <<settings, world, kept, snapshot, answer, failures>>

\* The log cannot be read: nothing is committed, the collection goes on.
SourceUnavailable(s) ==
  /\ pc = s
  /\ pc' = NextSource
  /\ UNCHANGED <<settings, world, kept, snapshot, answer, failures>>

PruneExpired ==
  /\ pc = "prune"
  /\ rows' = Prune(rows)
  /\ pc' = "idle"
  /\ UNCHANGED <<settings, world, taken, snapshot, answer, failures>>

\* What mita get users prints, without the rows that cannot be parsed.
Parsed(skipped) == [k \in Key |-> IF k \in skipped THEN None ELSE mita[k]]

\* A result without rows counts only if there was none to skip.
Usable(skipped) == Known(Parsed(skipped)) # {} \/ skipped = {}

\* first_seen_at, the time when mita was asked, is left out.
Upserted(said) ==
  [k \in Key |->
     IF said[k] = None THEN rows[k]
     ELSE UpsertMieru(rows[k], [first |-> 0, last |-> said[k].last,
                                bytes |-> said[k].bytes, traffic |-> TRUE])]

\* The answer is stored and becomes the snapshot, stale when rows were skipped
\* or the legacy statistics (mieruStats.js) failed to follow.
Snapshots(skipped) ==
  IF Usable(skipped)
  THEN {[rows |-> Parsed(skipped), stale |-> stale] : stale \in {skipped # {}, TRUE}}
  ELSE {[snapshot EXCEPT !.stale = TRUE]}

MitaAnswers(skipped) ==
  /\ pc = "mita"
  /\ rows' = Prune(Upserted(Parsed(skipped)))
  /\ snapshot' \in Snapshots(skipped)
  /\ answer' = Parsed(skipped)
  /\ pc' = "idle"
  /\ UNCHANGED <<settings, world, taken, failures>>

\* Slip: the snapshot is replaced by one without rows.
MitaUnavailableDropsRows ==
  /\ pc = "mita"
  /\ rows' = Prune(rows)
  /\ snapshot' = [stale |-> TRUE]
  /\ answer' = None
  /\ pc' = "idle"
  /\ UNCHANGED <<settings, world, taken, failures>>

\* mita get users fails, times out or is aborted.
MitaUnavailable ==
  /\ pc = "mita"
  /\ rows' = Prune(rows)
  /\ snapshot' = [snapshot EXCEPT !.stale = TRUE]
  /\ answer' = None
  /\ pc' = "idle"
  /\ UNCHANGED <<settings, world, taken, failures>>

Fail == failures < MaxFailures /\ failures' = failures + 1

\* Slip: an exception is logged and nothing else.
ThrowsLogged ==
  /\ pc # "idle"
  /\ Fail
  /\ pc' = "idle"
  /\ answer' = None
  /\ UNCHANGED <<settings, world, kept, snapshot>>

\* A transaction throws, or pruning does after the commit of a naive log:
\* recordUnexpectedFailure.
Throws ==
  /\ pc # "idle"
  /\ Fail
  /\ snapshot' = [snapshot EXCEPT !.stale = TRUE]
  /\ pc' = "idle"
  /\ answer' = None
  /\ UNCHANGED <<settings, world, kept>>

\* Pruning throws after the snapshot was replaced.
PruningThrows(skipped) ==
  /\ pc = "mita"
  /\ Fail
  /\ rows' = Upserted(Parsed(skipped))
  /\ \E new \in Snapshots(skipped) : snapshot' = [new EXCEPT !.stale = TRUE]
  /\ answer' = None
  /\ pc' = "idle"
  /\ UNCHANGED <<settings, world, taken>>

Crash ==
  /\ Fail
  /\ pc' = "idle"
  /\ snapshot' = EmptySnapshot
  /\ answer' = None
  /\ UNCHANGED <<settings, world, kept>>

Collector ==
  \/ Begin
  \/ BeginDisabled
  \/ \E s \in Sources : Commit(s) \/ SourceUnavailable(s)
  \/ PruneExpired
  \/ \E skipped \in SUBSET Key : MitaAnswers(skipped)
  \/ MitaUnavailable

Next ==
  \/ Tick
  \/ \E k \in Key : Use(k) \/ \E s \in Sources : Log(s, k)
  \/ Toggle
  \/ Collector
  \/ Throws
  \/ \E skipped \in SUBSET Key : PruningThrows(skipped)
  \/ Crash

\* The scheduler goes on collecting (module TelemetryService) and mita's
\* command has a timeout.
Spec == Init /\ [][Next]_vars /\ WF_vars(Collector)

-----------------------------------------------------------------------------
(* The response.                                                           *)

Matching(ttl) == {k \in Known(rows) : rows[k].last >= now - ttl}

\* listTelemetrySessions with a ttl: the sessions last seen come first, and
\* which of those seen at the same time may depend on more than their times.
Listings(ttl) ==
  {S \in SUBSET Matching(ttl) :
     /\ Cardinality(S) = Smaller(Limit, Cardinality(Matching(ttl)))
     /\ \A k \in S, other \in Matching(ttl) \ S : rows[k].last >= rows[other].last}

-----------------------------------------------------------------------------
(* Properties.                                                             *)

TypeOK ==
  /\ protocol \in {"naive", "mieru"}
  /\ enabled \in BOOLEAN
  /\ now \in Time
  /\ logs \in [Sources -> Seq(Record)]
  /\ taken \in [Sources -> Nat] /\ \A s \in Sources : taken[s] <= Len(logs[s])
  /\ mita \in [Key -> Counter \cup {None}]
  /\ rows \in [Key -> Row \cup {None}]
  /\ snapshot \in [rows : [Key -> Counter \cup {None}], stale : BOOLEAN]
  /\ pc \in {"idle", "mita", "prune"} \cup Sources
  /\ answer \in [Key -> Counter \cup {None}] \cup {None}
  /\ failures \in 0 .. MaxFailures

\* The records that were read, by source and number.
Read(k) ==
  {x \in Sources \X (1 .. MaxRecords) : x[2] <= taken[x[1]] /\ logs[x[1]][x[2]].key = k}
At(x) == logs[x[1]][x[2]].at
Recent(k, ttl) == {x \in Read(k) : At(x) >= now - ttl}
Traffic(X) == Cardinality({x \in X : x[1] = "traffic"})

\* Whatever the order in which the two logs were committed, and whichever
\* commits failed, were repeated or fell to a crash: a session reported to the
\* Backend counts the bytes of every record of the history once and of none
\* twice, and spans all of them.
EveryByteOnce ==
  protocol = "naive" => \A k \in Key :
    /\ Recent(k, HistoryTtl) # {} =>
         /\ rows[k] # None
         /\ \A x \in Recent(k, HistoryTtl) : rows[k].first <= At(x) /\ At(x) <= rows[k].last
         /\ Traffic(Recent(k, HistoryTtl)) <= rows[k].bytes
    /\ rows[k] # None => rows[k].bytes <= Traffic(Read(k))

\* GET /v1/telemetry/sessions lists no session without a record in the window
\* asked for, the active one or the history, and every session with one that
\* the history still covers, whether or not collections fail meanwhile; when
\* they are too many, none of those that stay out was seen later than one that
\* is listed.  An active window longer than the history, which the settings
\* allow, is answered only as far as the history goes.
ListsWhoWasSeen ==
  protocol = "naive" => \A ttl \in SessionTtls \cup {HistoryTtl} : \A S \in Listings(ttl) :
    LET seen    == {k \in Key : Recent(k, ttl) # {}}
        covered == {k \in seen : Recent(k, HistoryTtl) # {}}
    IN  /\ S \subseteq seen
        /\ Cardinality(seen) <= Limit => covered \subseteq S
        /\ \A k \in S, other \in covered \ S : \A x \in Recent(other, ttl) :
             \E y \in Recent(k, ttl) : At(y) >= At(x)

\* The panel, which reads the snapshot, and the Backend, which reads the table,
\* are told the same counters, after any failure in between.
SnapshotAgreesWithTable ==
  \A k \in Known(snapshot.rows) :
    /\ snapshot.rows[k].last >= now - HistoryTtl => rows[k] # None
    /\ rows[k] # None => rows[k].bytes = snapshot.rows[k].bytes

\* A snapshot with rows that is not called stale is what the last attempt to
\* ask mita brought.
FreshIsLast ==
  ~snapshot.stale /\ Known(snapshot.rows) # {} => snapshot.rows = answer

Expired(k) == rows[k] # None /\ rows[k].last < now - HistoryTtl

\* While telemetry is on, a client address the history no longer covers is
\* deleted, although collections fail and sources are unavailable.
Retention ==
  \A k \in Key : Expired(k) ~> ~Expired(k) \/ ~enabled

=============================================================================
