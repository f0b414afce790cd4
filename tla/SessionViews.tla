---------------------------- MODULE SessionViews ----------------------------
(***************************************************************************)
(* What the panel and the internal API show of sessions and traffic        *)
(* (panel/server/index.js).  Every view is made on demand from the two     *)
(* audit logs, through three caches: the audit history and the traffic     *)
(* totals for ten seconds each, and over them the explorer snapshot for    *)
(* thirty.  A cache is keyed by what it was made from, so that only the    *)
(* clock, a reset, and for the explorer a log that the settings did not    *)
(* name for a while, can make it wrong.                                    *)
(*                                                                         *)
(* A request runs in one turn of the event loop.  What it would answer in  *)
(* a state is AuthHistory, TrafficTotals and Explorer there; asking also   *)
(* fills the caches.  The explorer asks for the other two.                 *)
(***************************************************************************)
EXTENDS Integers, FiniteSets, Sequences

CONSTANTS
  User,          \* usernames
  Ip,            \* client addresses
  None,          \* no log, no reset, nothing seen, an empty cache
  SessionTtls,   \* values of cfg.sessionTtlMinutes
  HistoryTtl,    \* cfg.ipHistoryTtlHours
  CacheTtl,      \* of the audit history
  ExplorerTtl,   \* NODE_EXPLORER_CACHE_TTL_MS
  MaxTail,       \* AUTH_AUDIT_MAX_BYTES: the records readLogTail returns
  MaxNow,        \* bound on the clock
  MaxRecords,    \* bound on the records ever logged
  MaxChanges     \* bound on rotations, changes of users and patches of paths

ASSUME ViewsAssumption ==
  /\ {HistoryTtl, CacheTtl, ExplorerTtl, MaxTail, MaxNow, MaxRecords, MaxChanges} \subseteq Nat
  /\ CacheTtl > 0 /\ ExplorerTtl > 0
  /\ SessionTtls \subseteq Nat
  /\ None \notin Nat \X Nat                    \* what stat tells of a log,
  /\ None \notin (Nat \X Nat) \X Nat \X Nat   \* the key of an audit history
  /\ None \notin [first : Nat, last : Nat, active : BOOLEAN]

VARIABLES
  now,            \* the clock
  auth,           \* auth_audit_log: its generation and its records
  traffic,        \* the traffic audit log: the same
  users,          \* by name: the id and updatedAt of the user
  db,             \* whether there is a database
  resets,         \* the table session_resets
  ttl,            \* cfg.sessionTtlMinutes
  paths,          \* the logs that the paths in cfg name
  authCache, trafficCache, explorerCache,
  patched,        \* history: when authAuditLogPath was last patched
  changes         \* rotations, changes of users and patches of paths so far

logs == <<auth, traffic>>
caches == <<authCache, trafficCache, explorerCache>>
database == <<users, db, resets>>
settings == <<ttl, paths, patched>>
vars == <<now, logs, database, settings, caches, changes>>

Fresh(generation) == [generation |-> generation, records |-> <<>>]

\* A cache of no key: it is never returned, but its key can be compared.
Empty == [key |-> None, at |-> 0, made |-> None]

Init ==
  /\ now = 0
  /\ auth = Fresh(0)
  /\ traffic = Fresh(0)
  /\ users = [u \in User |-> 0]
  /\ db \in BOOLEAN
  /\ resets = [u \in User |-> None]
  /\ ttl \in SessionTtls
  /\ paths = {"auth", "traffic"}
  /\ patched = 0 - ExplorerTtl
  /\ authCache = Empty
  /\ trafficCache = Empty
  /\ explorerCache = Empty
  /\ changes = 0

-----------------------------------------------------------------------------
(* The views.                                                              *)

\* The logs at the paths of the settings.
AuthFile == IF "auth" \in paths THEN auth ELSE None
TrafficFile == IF "traffic" \in paths THEN traffic ELSE None

\* The numbers of the records that readLogTail returns.
LogTail(log) == {i \in DOMAIN log.records : i > Len(log.records) - MaxTail}

\* What stat tells of a log: its size, and its time for what replaced it.
Stat(log) == <<log.generation, Len(log.records)>>

Hit(cache, key, lifetime) ==
  /\ cache.key = key
  /\ cache.made # None
  /\ now - cache.at < lifetime

\* buildAuthAuditHistoryPayload: what was seen of a user at an address.
Seen(u, ip) ==
  {r \in {auth.records[i] : i \in LogTail(auth)} :
     /\ r.user = u /\ r.ip = ip
     /\ resets[u] # None => r.at > resets[u]
     /\ r.at >= now - HistoryTtl}

\* Its firstSeen, lastSeen and active.
Entry(seen) ==
  IF seen = {} THEN None
  ELSE LET first == CHOOSE r \in seen : \A s \in seen : r.at <= s.at
           last  == CHOOSE r \in seen : \A s \in seen : r.at >= s.at
       IN  [first |-> first.at, last |-> last.at, active |-> last.at >= now - ttl]

NoHistory == [x \in User \X Ip |-> None]

\* Slip: the key does not tell for which settings.
AuthKeyOfLog == <<Stat(auth), HistoryTtl>>

AuthKey == <<Stat(auth), ttl, HistoryTtl>>

AuthMade == [x \in User \X Ip |-> Entry(Seen(x[1], x[2]))]

\* Without a log the cache is neither used nor changed.
AuthCacheNow ==
  IF AuthFile = None \/ Hit(authCache, AuthKey, CacheTtl) THEN authCache
  ELSE [key |-> AuthKey, at |-> now, made |-> AuthMade]

AuthHistory == IF AuthFile = None THEN NoHistory ELSE AuthCacheNow.made

\* getNaiveTrafficStats: here a record counts for one.
TrafficMade ==
  [u \in User |-> Cardinality({i \in LogTail(traffic) : traffic.records[i].user = u})]

NoTraffic == [u \in User |-> 0]

\* Without a log the totals are none, under the empty key.  That the cache is
\* read again after ten seconds is left out: the totals do not tell the time.
TrafficCacheNow ==
  IF TrafficFile = None THEN [key |-> None, at |-> 0, made |-> NoTraffic]
  ELSE IF trafficCache.key = Stat(traffic) THEN trafficCache
  ELSE [key |-> Stat(traffic), at |-> 0, made |-> TrafficMade]

TrafficTotals == TrafficCacheNow.made

Names == {u \in User : users[u] # None}

\* Slip: the explorer trusts its own thirty seconds.
ExplorerKeyOfUsers == <<users, ttl, HistoryTtl>>

\* The keys of the caches below stand for what they hold.
ExplorerKey == <<users, AuthCacheNow.key, TrafficCacheNow.key, ttl, HistoryTtl>>

ExplorerMade ==
  [users   |-> users,
   history |-> [x \in User \X Ip |-> IF x[1] \in Names THEN AuthHistory[x] ELSE None],
   traffic |-> [u \in User |-> IF u \in Names THEN TrafficTotals[u] ELSE 0]]

\* Slip: whoever asks makes the snapshot last longer.
ExplorerKeptAlive ==
  IF Hit(explorerCache, ExplorerKey, ExplorerTtl) THEN [explorerCache EXCEPT !.at = now]
  ELSE [key |-> ExplorerKey, at |-> now, made |-> ExplorerMade]

ExplorerCacheNow ==
  IF Hit(explorerCache, ExplorerKey, ExplorerTtl) THEN explorerCache
  ELSE [key |-> ExplorerKey, at |-> now, made |-> ExplorerMade]

Explorer == ExplorerCacheNow.made

\* ipExplorerDetails: who was at an address.
UsersAt(ip) == {u \in User : Explorer.history[<<u, ip>>] # None}

-----------------------------------------------------------------------------
(* Requests.                                                               *)

\* The dashboard, the list of users, a user's sessions and addresses.
ViewSessions ==
  /\ authCache' = AuthCacheNow
  /\ UNCHANGED <<now, logs, database, settings, trafficCache, explorerCache, changes>>

\* The lists of users and the diagnostics.
ViewTraffic ==
  /\ trafficCache' = TrafficCacheNow
  /\ UNCHANGED <<now, logs, database, settings, authCache, explorerCache, changes>>

\* The explorer, the details of a user or an address, the status of the logs.
ViewExplorer ==
  /\ authCache' = AuthCacheNow
  /\ trafficCache' = TrafficCacheNow
  /\ explorerCache' = ExplorerCacheNow
  /\ UNCHANGED <<now, logs, database, settings, changes>>

\* Slip: the snapshot over the history is not dropped with it.
ResetKeepsExplorer(u) ==
  /\ resets' = IF db THEN [resets EXCEPT ![u] = now] ELSE resets
  /\ authCache' = Empty
  /\ UNCHANGED <<now, logs, users, db, settings, trafficCache, explorerCache, changes>>

\* resetUserSessions.
ResetSessions(u) ==
  /\ users[u] # None
  /\ resets' = IF db THEN [resets EXCEPT ![u] = now] ELSE resets
  /\ authCache' = Empty
  /\ explorerCache' = Empty
  /\ UNCHANGED <<now, logs, users, db, settings, trafficCache, changes>>

Change == changes < MaxChanges /\ changes' = changes + 1

\* A user is created, edited or deleted, here or by a synchronisation.
SetUser(u) ==
  /\ Change
  /\ \E to \in {None, changes'} : to # users[u] /\ users' = [users EXCEPT ![u] = to]
  /\ UNCHANGED <<now, logs, db, resets, settings, caches>>

\* The internal API resets the sessions of the user it deletes.
DeleteInternal(u) ==
  /\ Change
  /\ users[u] # None
  /\ users' = [users EXCEPT ![u] = None]
  /\ resets' = IF db THEN [resets EXCEPT ![u] = now] ELSE resets
  /\ authCache' = Empty
  /\ explorerCache' = Empty
  /\ UNCHANGED <<now, logs, db, settings, trafficCache>>

SetTtl ==
  /\ ttl' \in SessionTtls \ {ttl}
  /\ UNCHANGED <<now, logs, database, paths, patched, caches, changes>>

\* A path is patched to name another file or none, and back.
PatchPath(log) ==
  /\ Change
  /\ paths' = IF log \in paths THEN paths \ {log} ELSE paths \cup {log}
  /\ patched' = IF log = "auth" THEN now ELSE patched
  /\ UNCHANGED <<now, logs, database, ttl, caches>>

\* The caches are lost, the resets are not.
Restart ==
  /\ authCache' = Empty
  /\ trafficCache' = Empty
  /\ explorerCache' = Empty
  /\ UNCHANGED <<now, logs, database, settings, changes>>

-----------------------------------------------------------------------------
(* The proxy and the clock.                                                *)

Tick ==
  /\ now < MaxNow
  /\ now' = now + 1
  /\ UNCHANGED <<logs, database, settings, caches, changes>>

Logged == (IF auth = None THEN 0 ELSE Len(auth.records))
            + (IF traffic = None THEN 0 ELSE Len(traffic.records))

LogAuth(u, ip) ==
  /\ auth # None /\ Logged < MaxRecords
  /\ auth' = [auth EXCEPT !.records = Append(@, [user |-> u, ip |-> ip, at |-> now])]
  /\ UNCHANGED <<now, traffic, database, settings, caches, changes>>

LogTraffic(u) ==
  /\ traffic # None /\ Logged < MaxRecords
  /\ traffic' = [traffic EXCEPT !.records = Append(@, [user |-> u])]
  /\ UNCHANGED <<now, auth, database, settings, caches, changes>>

\* A log is renamed, and created again when something is to be logged.
Rotate(log) == IF log = None THEN Fresh(changes') ELSE None

RotateAuth ==
  /\ Change
  /\ auth' = Rotate(auth)
  /\ UNCHANGED <<now, traffic, database, settings, caches>>

RotateTraffic ==
  /\ Change
  /\ traffic' = Rotate(traffic)
  /\ UNCHANGED <<now, auth, database, settings, caches>>

Next ==
  \/ Tick
  \/ \E u \in User : LogTraffic(u) \/ \E ip \in Ip : LogAuth(u, ip)
  \/ RotateAuth \/ RotateTraffic
  \/ ViewSessions \/ ViewTraffic \/ ViewExplorer
  \/ \E u \in User : ResetSessions(u) \/ SetUser(u) \/ DeleteInternal(u)
  \/ SetTtl
  \/ \E log \in {"auth", "traffic"} : PatchPath(log)
  \/ Restart

Spec == Init /\ [][Next]_vars

-----------------------------------------------------------------------------
(* Properties.                                                             *)

\* Once the sessions of a user were reset no view shows what was seen of the
\* user until then, from whichever cache it is answered and after any restart,
\* as long as there is a database to remember the reset.
ResetHides ==
  \A u \in User, ip \in Ip : resets[u] # None =>
    \A history \in {AuthHistory, Explorer.history} :
      history[<<u, ip>>] # None => history[<<u, ip>>].first > resets[u]

\* A history that calls a user active at an address is at most as old as its
\* cache may be: the user was there within the session ttl of the settings and
\* ten seconds.
ActiveIsRecent ==
  \A x \in User \X Ip : AuthHistory[x] # None /\ AuthHistory[x].active =>
    AuthHistory[x].last >= now - ttl - (CacheTtl - 1)

\* The explorer may keep for thirty seconds a history that was ten seconds old:
\* whoever it calls active at an address was there within the session ttl and
\* forty seconds.
ExplorerActiveIsRecent ==
  \A ip \in Ip : \A u \in UsersAt(ip) : Explorer.history[<<u, ip>>].active =>
    Explorer.history[<<u, ip>>].last >= now - ttl - (CacheTtl - 1) - (ExplorerTtl - 1)

\* However old the caches, no view lacks what was logged, as far as the tail of
\* the log has it: it shows the users there are and the last time and the
\* traffic of each that the logs have.  Only an explorer made while the settings
\* named no log may go on showing no sessions for thirty seconds after the path
\* is back, since the log is then known by the stat it had before.
NothingMissing ==
  /\ Explorer.users = users
  /\ AuthFile # None => \A u \in User, ip \in Ip : \A r \in Seen(u, ip) :
       /\ AuthHistory[<<u, ip>>] # None /\ AuthHistory[<<u, ip>>].last >= r.at
       /\ u \in Names /\ now - patched >= ExplorerTtl =>
            u \in UsersAt(ip) /\ Explorer.history[<<u, ip>>].last >= r.at
  /\ TrafficFile # None => \A u \in Names :
       TrafficTotals[u] = TrafficMade[u] /\ Explorer.traffic[u] = TrafficMade[u]

=============================================================================
