------------------------- MODULE SessionViewsProofs -------------------------
(***************************************************************************)
(* What TLC checks of SessionViews on a small instance, proved for all     *)
(* sets of users and addresses, logs of any length, every lifetime of      *)
(* caches and histories, and any number of requests.                       *)
(***************************************************************************)
EXTENDS SessionViews, NaturalLemmas, TLAPS

(***************************************************************************)
(* An entry is made of the first and the last record seen; they exist      *)
(* because times are naturals and none is later than now.                  *)
(***************************************************************************)
LEMMA FirstExists ==
  ASSUME NEW S, S # {}, \A r \in S : r.at \in Nat
  PROVE  \E r \in S : \A s \in S : r.at <= s.at
<1> DEFINE T == {r.at : r \in S}
<1>1. PICK m \in T : \A n \in T : m <= n
  BY LeastExists
<1> QED
  BY <1>1

LEMMA LastExists ==
  ASSUME NEW S, S # {}, NEW bound \in Nat, \A r \in S : r.at \in 0 .. bound
  PROVE  \E r \in S : \A s \in S : r.at >= s.at
<1> DEFINE T == {bound - r.at : r \in S}
<1>1. T \in SUBSET Nat /\ T # {}
  OBVIOUS
<1>2. PICK m \in T : \A n \in T : m <= n
  BY <1>1, LeastExists
<1>3. PICK r \in S : m = bound - r.at
  OBVIOUS
<1>4. \A s \in S : bound - r.at <= bound - s.at
  BY <1>2, <1>3
<1> QED
  BY <1>4

(***************************************************************************)
(* The inductive invariant: what a cache holds was right when it was made, *)
(* and no reset came since.                                                *)
(***************************************************************************)
Pair == User \X Ip
AuthRecord == [user : User, ip : Ip, at : Nat]

Typed ==
  /\ now \in Nat
  /\ changes \in Nat
  /\ ttl \in SessionTtls
  /\ resets \in [User -> Nat \cup {None}]
  /\ patched \in Int
  /\ auth = None \/ auth \in [generation : Nat, records : Seq(AuthRecord)]
  /\ auth # None => \A i \in DOMAIN auth.records : auth.records[i].at <= now

Hides(h) ==
  \A x \in Pair : resets[x[1]] # None /\ h[x] # None => h[x].first > resets[x[1]]

\* Who is called active was there at most age ago when the clock stood at at.
Recent(h, at, age) ==
  \A x \in Pair : h[x] # None =>
    h[x].last \in Nat /\ (h[x].active => h[x].last >= at - age)

AuthHolds(c) ==
  c.made # None =>
    /\ c.at \in Nat /\ c.key[2] \in Nat
    /\ Hides(c.made)
    /\ Recent(c.made, c.at, c.key[2])

ExplorerHolds(c) ==
  c.made # None =>
    /\ c.at \in Nat /\ c.key[4] \in Nat
    /\ Hides(c.made.history)
    /\ Recent(c.made.history, c.at, c.key[4] + CacheTtl - 1)

ViewsInv == Typed /\ AuthHolds(authCache) /\ ExplorerHolds(explorerCache)

-----------------------------------------------------------------------------

LEMMA TypedStep == Typed /\ [Next]_vars => Typed'
<1> SUFFICES ASSUME Typed, [Next]_vars PROVE Typed'
  OBVIOUS
<1> USE DEF Typed, logs, database, settings, caches
<1>1. ASSUME NEW u \in User, NEW ip \in Ip, LogAuth(u, ip) PROVE Typed'
  <2> DEFINE r == [user |-> u, ip |-> ip, at |-> now]
  <2>1. /\ auth \in [generation : Nat, records : Seq(AuthRecord)]
        /\ auth' = [auth EXCEPT !.records = Append(auth.records, r)]
        /\ UNCHANGED <<now, changes, ttl, resets, patched>>
    BY <1>1 DEF LogAuth
  <2>2. r \in AuthRecord
    BY DEF AuthRecord
  <2>3. Append(auth.records, r) \in Seq(AuthRecord)
    BY <2>1, <2>2
  <2>4. /\ auth' \in [generation : Nat, records : Seq(AuthRecord)]
        /\ auth'.records = Append(auth.records, r)
    BY <2>1, <2>3
  <2>5. \A i \in DOMAIN auth'.records : auth'.records[i].at <= now
    BY <2>1, <2>2, <2>4, <1>1 DEF LogAuth
  <2> QED
    BY <2>1, <2>4, <2>5
<1>2. ASSUME NEW u \in User, LogTraffic(u) PROVE Typed'
  BY <1>2 DEF LogTraffic
<1>3. CASE RotateAuth
  BY <1>3 DEF RotateAuth, Rotate, Fresh, Change
<1>4. CASE RotateTraffic \/ ViewSessions \/ ViewTraffic \/ ViewExplorer \/ Restart
  BY <1>4 DEF RotateTraffic, Change, ViewSessions, ViewTraffic, ViewExplorer, Restart
<1>5. ASSUME NEW u \in User, ResetSessions(u) \/ SetUser(u) \/ DeleteInternal(u) PROVE Typed'
  BY <1>5 DEF ResetSessions, SetUser, DeleteInternal, Change
<1>6. CASE SetTtl \/ Tick
  <2>1. auth # None => \A i \in DOMAIN auth.records : auth.records[i].at \in Nat
    <3> SUFFICES ASSUME auth # None, NEW i \in DOMAIN auth.records
                 PROVE  auth.records[i] \in AuthRecord
      BY DEF AuthRecord
    <3> QED
      OBVIOUS
  <2> QED
    BY <1>6, <2>1, ViewsAssumption DEF SetTtl, Tick
<1>7. CASE UNCHANGED vars
  BY <1>7 DEF vars
<1>8. ASSUME NEW log \in {"auth", "traffic"}, PatchPath(log) PROVE Typed'
  BY <1>8 DEF PatchPath, Change
<1> QED
  BY <1>1, <1>2, <1>3, <1>4, <1>5, <1>6, <1>7, <1>8 DEF Next

LEMMA EntryFields ==
  ASSUME NEW e, NEW a \in Nat, NEW b \in Nat, NEW n \in Int,
         e = [first |-> a, last |-> b, active |-> b >= n]
  PROVE  e # None /\ e.first = a /\ e.last = b /\ (e.active => b >= n)
<1>1. e \in [first : Nat, last : Nat, active : BOOLEAN]
  OBVIOUS
<1>2. e # None
  BY <1>1, ViewsAssumption
<1> QED
  BY <1>2

\* The entry of a user at an address, of which something was seen.
LEMMA EntryOfSeen ==
  ASSUME Typed, auth # None, NEW x \in Pair, Seen(x[1], x[2]) # {}
  PROVE  /\ AuthMade[x] # None
         /\ AuthMade[x].last \in Nat
         /\ \A r \in Seen(x[1], x[2]) : r.at \in Nat /\ r.at <= AuthMade[x].last
         /\ resets[x[1]] # None => AuthMade[x].first > resets[x[1]]
         /\ AuthMade[x].active => AuthMade[x].last >= now - ttl
<1> DEFINE S == Seen(x[1], x[2])
           first == CHOOSE r \in S : \A s \in S : r.at <= s.at
           last  == CHOOSE r \in S : \A s \in S : r.at >= s.at
<1>1. ASSUME NEW r \in S
      PROVE  r.at \in 0 .. now /\ (resets[x[1]] # None => r.at > resets[x[1]])
  <2>1. PICK i \in DOMAIN auth.records : r = auth.records[i]
    BY DEF Seen, LogTail
  <2>2. auth.records[i] \in AuthRecord
    BY DEF Typed
  <2> QED
    BY <2>1, <2>2 DEF Seen, Typed, AuthRecord
<1>2. first \in S
  BY <1>1, FirstExists
<1>3. last \in S /\ \A s \in S : last.at >= s.at
  BY <1>1, LastExists DEF Typed
<1>4. AuthMade[x] = [first |-> first.at, last |-> last.at, active |-> last.at >= now - ttl]
  BY DEF AuthMade, Pair, Entry
<1>5. now - ttl \in Int
  BY ViewsAssumption DEF Typed
<1> HIDE DEF S, first, last
<1>6. first.at \in Nat /\ last.at \in Nat /\ (resets[x[1]] # None => first.at > resets[x[1]])
  BY <1>1, <1>2, <1>3
<1>7. /\ AuthMade[x] # None
      /\ AuthMade[x].first = first.at /\ AuthMade[x].last = last.at
      /\ AuthMade[x].active => last.at >= now - ttl
  BY <1>4, <1>5, <1>6, EntryFields
<1>8. \A r \in S : r.at \in Nat /\ r.at <= last.at
  BY <1>1, <1>3, <1>6
<1> QED
  BY <1>6, <1>7, <1>8 DEF S

\* A history made now.
LEMMA MadeHolds ==
  ASSUME Typed, auth # None
  PROVE  Hides(AuthMade) /\ Recent(AuthMade, now, ttl)
<1>1. ASSUME NEW x \in Pair, AuthMade[x] # None PROVE Seen(x[1], x[2]) # {}
  BY <1>1 DEF AuthMade, Entry, Pair
<1> QED
  BY <1>1, EntryOfSeen DEF Hides, Recent

\* What a request is answered from the cache, or from the log.
LEMMA HistoryViewHolds ==
  ASSUME Typed, AuthHolds(authCache)
  PROVE  Hides(AuthHistory) /\ Recent(AuthHistory, now, ttl + CacheTtl - 1)
<1> USE DEF Typed
<1>1. ttl \in Nat /\ CacheTtl \in Nat /\ CacheTtl > 0
  BY ViewsAssumption
<1>2. CASE AuthFile = None
  BY <1>2 DEF AuthHistory, NoHistory, Hides, Recent, Pair
<1>3. CASE AuthFile # None /\ Hit(authCache, AuthKey, CacheTtl)
  <2>1. AuthHistory = authCache.made /\ authCache.made # None
    BY <1>3 DEF AuthHistory, AuthCacheNow, Hit
  <2>2. authCache.key[2] = ttl /\ now - authCache.at < CacheTtl
    BY <1>3 DEF Hit, AuthKey
  <2>3. authCache.at \in Nat /\ Hides(authCache.made) /\ Recent(authCache.made, authCache.at, ttl)
    BY <2>1, <2>2 DEF AuthHolds
  <2>4. Recent(authCache.made, now, ttl + CacheTtl - 1)
    BY <1>1, <2>2, <2>3 DEF Recent
  <2> QED
    BY <2>1, <2>3, <2>4
<1>4. CASE AuthFile # None /\ ~Hit(authCache, AuthKey, CacheTtl)
  <2>1. AuthHistory = AuthMade
    BY <1>4 DEF AuthHistory, AuthCacheNow
  <2>2. Hides(AuthMade) /\ Recent(AuthMade, now, ttl)
    BY <1>4, MadeHolds DEF AuthFile
  <2>3. Recent(AuthMade, now, ttl + CacheTtl - 1)
    BY <1>1, <2>2 DEF Recent
  <2> QED
    BY <2>1, <2>2, <2>3
<1> QED
  BY <1>2, <1>3, <1>4

LEMMA ExplorerViewHolds ==
  ASSUME ViewsInv
  PROVE  /\ Hides(Explorer.history)
         /\ Recent(Explorer.history, now, ttl + (CacheTtl - 1) + (ExplorerTtl - 1))
<1> USE DEF ViewsInv, Typed
<1>1. /\ ttl \in Nat /\ CacheTtl \in Nat /\ CacheTtl > 0
      /\ ExplorerTtl \in Nat /\ ExplorerTtl > 0
  BY ViewsAssumption
<1>2. CASE Hit(explorerCache, ExplorerKey, ExplorerTtl)
  <2>1. Explorer = explorerCache.made /\ explorerCache.made # None
    BY <1>2 DEF Explorer, ExplorerCacheNow, Hit
  <2>2. explorerCache.key[4] = ttl /\ now - explorerCache.at < ExplorerTtl
    BY <1>2 DEF Hit, ExplorerKey
  <2>3. /\ explorerCache.at \in Nat
        /\ Hides(Explorer.history)
        /\ Recent(Explorer.history, explorerCache.at, ttl + CacheTtl - 1)
    BY <2>1, <2>2 DEF ExplorerHolds
  <2> QED
    BY <1>1, <2>2, <2>3 DEF Recent
<1>3. CASE ~Hit(explorerCache, ExplorerKey, ExplorerTtl)
  <2>1. Explorer = ExplorerMade
    BY <1>3 DEF Explorer, ExplorerCacheNow
  <2>2. \A x \in Pair : Explorer.history[x] # None => Explorer.history[x] = AuthHistory[x]
    BY <2>1 DEF ExplorerMade, Pair
  <2>3. Hides(AuthHistory) /\ Recent(AuthHistory, now, ttl + CacheTtl - 1)
    BY HistoryViewHolds
  <2> QED
    BY <1>1, <2>2, <2>3 DEF Hides, Recent
<1> QED
  BY <1>2, <1>3

\* What a request leaves in the caches.
LEMMA AuthCacheNowHolds == ASSUME ViewsInv PROVE AuthHolds(AuthCacheNow)
<1>1. CASE AuthCacheNow = authCache
  BY <1>1 DEF ViewsInv
<1>2. CASE auth # None /\ AuthCacheNow = [key |-> AuthKey, at |-> now, made |-> AuthMade]
  <2>1. Hides(AuthMade) /\ Recent(AuthMade, now, ttl)
    BY <1>2, MadeHolds DEF ViewsInv
  <2>2. AuthKey[2] = ttl /\ ttl \in Nat /\ now \in Nat
    BY ViewsAssumption DEF AuthKey, ViewsInv, Typed
  <2> QED
    BY <1>2, <2>1, <2>2 DEF AuthHolds
<1> QED
  BY <1>1, <1>2 DEF AuthCacheNow, AuthFile

LEMMA ExplorerCacheNowHolds == ASSUME ViewsInv PROVE ExplorerHolds(ExplorerCacheNow)
<1>1. CASE ExplorerCacheNow = explorerCache
  BY <1>1 DEF ViewsInv
<1>2. CASE ExplorerCacheNow = [key |-> ExplorerKey, at |-> now, made |-> ExplorerMade]
  <2>1. Hides(AuthHistory) /\ Recent(AuthHistory, now, ttl + CacheTtl - 1)
    BY HistoryViewHolds DEF ViewsInv
  <2>2. \A x \in Pair : ExplorerMade.history[x] # None => ExplorerMade.history[x] = AuthHistory[x]
    BY DEF ExplorerMade, Pair
  <2>3. /\ Hides(ExplorerMade.history)
        /\ Recent(ExplorerMade.history, now, ttl + CacheTtl - 1)
    BY <2>1, <2>2 DEF Hides, Recent
  <2>4. ExplorerKey[4] = ttl
    BY DEF ExplorerKey
  <2>5. ttl \in Nat /\ now \in Nat
    BY ViewsAssumption DEF ViewsInv, Typed
  <2> QED
    BY <1>2, <2>3, <2>4, <2>5 DEF ExplorerHolds
<1> QED
  BY <1>1, <1>2 DEF ExplorerCacheNow

LEMMA ViewsInitially == Init => ViewsInv
<1> SUFFICES ASSUME Init PROVE ViewsInv
  OBVIOUS
<1>1. Typed
  <2>1. auth = [generation |-> 0, records |-> <<>>] /\ <<>> \in Seq(AuthRecord)
    BY DEF Init, Fresh
  <2>2. auth \in [generation : Nat, records : Seq(AuthRecord)] /\ DOMAIN auth.records = {}
    BY <2>1
  <2> QED
    BY <2>2, ViewsAssumption DEF Init, Typed
<1>2. AuthHolds(authCache) /\ ExplorerHolds(explorerCache)
  BY DEF Init, Empty, AuthHolds, ExplorerHolds
<1> QED
  BY <1>1, <1>2 DEF ViewsInv

LEMMA ViewsStep == ViewsInv /\ [Next]_vars => ViewsInv'
<1> SUFFICES ASSUME ViewsInv, [Next]_vars PROVE ViewsInv'
  OBVIOUS
<1>1. Typed'
  BY TypedStep DEF ViewsInv
<1>2. \/ authCache' = authCache /\ resets' = resets
      \/ authCache' = AuthCacheNow /\ resets' = resets
      \/ authCache'.made = None
  <2> USE DEF database, settings, caches, logs
  <2>1. (\E u \in User : ResetSessions(u) \/ DeleteInternal(u)) \/ Restart
          => authCache'.made = None
    BY DEF ResetSessions, DeleteInternal, Restart, Empty
  <2>2. ViewSessions \/ ViewExplorer => authCache' = AuthCacheNow /\ resets' = resets
    BY DEF ViewSessions, ViewExplorer
  <2>3. ViewTraffic \/ Tick \/ RotateAuth \/ RotateTraffic \/ SetTtl
       \/ (\E log \in {"auth", "traffic"} : PatchPath(log)) \/ UNCHANGED vars
          => authCache' = authCache /\ resets' = resets
    BY DEF ViewTraffic, Tick, RotateAuth, RotateTraffic, SetTtl, PatchPath, vars
  <2>4. (\E u \in User : SetUser(u) \/ LogTraffic(u) \/ \E ip \in Ip : LogAuth(u, ip))
          => authCache' = authCache /\ resets' = resets
    BY DEF SetUser, LogTraffic, LogAuth
  <2> QED
    BY <2>1, <2>2, <2>3, <2>4 DEF Next
<1>3. \/ explorerCache' = explorerCache /\ resets' = resets
      \/ explorerCache' = ExplorerCacheNow /\ resets' = resets
      \/ explorerCache'.made = None
  <2> USE DEF database, settings, caches, logs
  <2>1. (\E u \in User : ResetSessions(u) \/ DeleteInternal(u)) \/ Restart
          => explorerCache'.made = None
    BY DEF ResetSessions, DeleteInternal, Restart, Empty
  <2>2. ViewExplorer => explorerCache' = ExplorerCacheNow /\ resets' = resets
    BY DEF ViewExplorer
  <2>3. ViewSessions \/ ViewTraffic \/ Tick \/ RotateAuth \/ RotateTraffic \/ SetTtl
       \/ (\E log \in {"auth", "traffic"} : PatchPath(log)) \/ UNCHANGED vars
          => explorerCache' = explorerCache /\ resets' = resets
    BY DEF ViewSessions, ViewTraffic, Tick, RotateAuth, RotateTraffic, SetTtl, PatchPath, vars
  <2>4. (\E u \in User : SetUser(u) \/ LogTraffic(u) \/ \E ip \in Ip : LogAuth(u, ip))
          => explorerCache' = explorerCache /\ resets' = resets
    BY DEF SetUser, LogTraffic, LogAuth
  <2> QED
    BY <2>1, <2>2, <2>3, <2>4 DEF Next
<1>4. AuthHolds(authCache)'
  BY <1>2, AuthCacheNowHolds DEF ViewsInv, AuthHolds, Hides, Recent
<1>5. ExplorerHolds(explorerCache)'
  BY <1>3, ExplorerCacheNowHolds DEF ViewsInv, ExplorerHolds, Hides, Recent
<1> QED
  BY <1>1, <1>4, <1>5 DEF ViewsInv

LEMMA ViewsInvariance == Spec => []ViewsInv
BY ViewsInitially, ViewsStep, PTL DEF Spec

\* A reset hides what was seen before it from every view, whatever the caches
\* hold and whenever they were filled.
THEOREM ResetTheorem == Spec => []ResetHides
<1>1. ViewsInv => ResetHides
  <2> SUFFICES ASSUME ViewsInv, NEW u \in User, NEW ip \in Ip, resets[u] # None,
                      NEW h \in {AuthHistory, Explorer.history}, h[<<u, ip>>] # None
               PROVE  h[<<u, ip>>].first > resets[u]
    BY DEF ResetHides
  <2>1. Hides(AuthHistory) /\ Hides(Explorer.history)
    BY HistoryViewHolds, ExplorerViewHolds DEF ViewsInv
  <2>2. Hides(h) /\ <<u, ip>> \in Pair
    BY <2>1 DEF Pair
  <2> QED
    BY <2>2 DEF Hides
<1> QED
  BY <1>1, ViewsInvariance, PTL

\* Who is called active was there within the session ttl and the lifetime of
\* the audit history.
THEOREM ActiveTheorem == Spec => []ActiveIsRecent
<1>1. ViewsInv => ActiveIsRecent
  <2> SUFFICES ASSUME ViewsInv, NEW x \in User \X Ip, AuthHistory[x] # None,
                      AuthHistory[x].active
               PROVE  AuthHistory[x].last >= now - ttl - (CacheTtl - 1)
    BY DEF ActiveIsRecent
  <2>1. now \in Nat /\ ttl \in Nat /\ CacheTtl \in Nat
    BY ViewsAssumption DEF ViewsInv, Typed
  <2>2. Recent(AuthHistory, now, ttl + CacheTtl - 1)
    BY HistoryViewHolds DEF ViewsInv
  <2> QED
    BY <2>1, <2>2 DEF Recent, Pair
<1> QED
  BY <1>1, ViewsInvariance, PTL

\* Whom the explorer calls active was there within the session ttl and the
\* lifetimes of both caches between the log and the view.
THEOREM ExplorerActiveTheorem == Spec => []ExplorerActiveIsRecent
<1>1. ViewsInv => ExplorerActiveIsRecent
  <2> SUFFICES ASSUME ViewsInv, NEW ip \in Ip, NEW u \in UsersAt(ip),
                      Explorer.history[<<u, ip>>].active
               PROVE  Explorer.history[<<u, ip>>].last
                        >= now - ttl - (CacheTtl - 1) - (ExplorerTtl - 1)
    BY DEF ExplorerActiveIsRecent
  <2>1. now \in Nat /\ ttl \in Nat /\ CacheTtl \in Nat /\ ExplorerTtl \in Nat
    BY ViewsAssumption DEF ViewsInv, Typed
  <2>2. Recent(Explorer.history, now, ttl + (CacheTtl - 1) + (ExplorerTtl - 1))
    BY ExplorerViewHolds
  <2>3. Explorer.history[<<u, ip>>] # None /\ <<u, ip>> \in Pair
    BY DEF UsersAt, Pair
  <2> QED
    BY <2>1, <2>2, <2>3 DEF Recent
<1> QED
  BY <1>1, ViewsInvariance, PTL

(***************************************************************************)
(* Nothing is missing.  A stat names one content of a log for good, since  *)
(* logs only grow and a new one has a new generation; a cache whose key is *)
(* the stat of today therefore was made from the records of today.  The    *)
(* explorer is the exception: while the settings name no log it is made    *)
(* without one, but under the key of the audit history there was before.   *)
(***************************************************************************)
TrafficLog == [generation : Nat, records : Seq([user : User])]

Generations ==
  /\ auth # None => auth.generation <= changes
  /\ traffic # None => traffic \in TrafficLog /\ traffic.generation <= changes

\* A stat the log under a name has, or some log had that was there before it.
Former(stat, log, generation) ==
  /\ stat[1] \in Nat /\ stat[2] \in Nat
  /\ stat[1] <= generation
  /\ log # None /\ stat[1] = log.generation => stat[2] <= Len(log.records)

\* A log grows by a record, goes away, or comes back as a new one.
LogStep(old, new, before, after) ==
  /\ before \in Nat /\ after \in Nat /\ before <= after
  /\ \/ new = old
     \/ new = None
     \/ new.generation = after /\ before < after
     \/ /\ old # None /\ new.generation = old.generation
        /\ Len(old.records) \in Nat /\ Len(new.records) = Len(old.records) + 1

\* A history that has all there is of some users.
Covers(h, U) ==
  \A u \in U, ip \in Ip : \A r \in Seen(u, ip) :
    r.at \in Nat /\ h[<<u, ip>>] # None /\ h[<<u, ip>>].last >= r.at

Counts(totals, U) == \A u \in U : totals[u] = TrafficMade[u]

AuthCurrent(c) ==
  c.key # None =>
    /\ Former(c.key[1], auth, changes)
    /\ auth # None /\ c.key[1] = Stat(auth) /\ c.made # None => Covers(c.made, User)

TrafficCurrent(c) ==
  c.key # None =>
    /\ Former(c.key, traffic, changes)
    /\ traffic # None /\ c.key = Stat(traffic) => Counts(c.made, User)

NamesOf(table) == {u \in User : table[u] # None}

ExplorerCurrent(c) ==
  c.made # None =>
    /\ c.at \in Nat /\ c.at <= now
    /\ c.made.users = c.key[1]
    /\ c.key[2] # None =>
         /\ Former(c.key[2][1], auth, changes)
         /\ AuthFile # None /\ c.key[2][1] = Stat(auth) /\ patched < c.at =>
              Covers(c.made.history, NamesOf(c.key[1]))
    /\ c.key[3] # None =>
         /\ Former(c.key[3], traffic, changes)
         /\ traffic # None /\ c.key[3] = Stat(traffic) =>
              Counts(c.made.traffic, NamesOf(c.key[1]))

Current ==
  /\ Generations
  /\ AuthCurrent(authCache) /\ TrafficCurrent(trafficCache)
  /\ ExplorerCurrent(explorerCache)

-----------------------------------------------------------------------------

LEMMA FormerStays ==
  ASSUME NEW stat, NEW old, NEW new, NEW before, NEW after,
         Former(stat, old, before), LogStep(old, new, before, after)
  PROVE  /\ Former(stat, new, after)
         /\ new # None /\ stat = Stat(new) => new = old
BY DEF Former, LogStep, Stat

LEMMA StatOfAuth ==
  ASSUME Typed, Generations, auth # None
  PROVE  Former(Stat(auth), auth, changes) /\ AuthKey # None
<1>1. auth.generation \in Nat /\ Len(auth.records) \in Nat
  BY DEF Typed
<1>2. Stat(auth) \in Nat \X Nat /\ Former(Stat(auth), auth, changes)
  BY <1>1 DEF Stat, Former, Generations
<1>3. AuthKey \in (Nat \X Nat) \X Nat \X Nat
  BY <1>2, ViewsAssumption DEF AuthKey, Typed
<1> QED
  BY <1>2, <1>3, ViewsAssumption

LEMMA StatOfTraffic ==
  ASSUME Generations, traffic # None
  PROVE  Former(Stat(traffic), traffic, changes) /\ Stat(traffic) # None
<1>1. traffic.generation \in Nat /\ Len(traffic.records) \in Nat
  BY DEF Generations, TrafficLog
<1>2. Stat(traffic) \in Nat \X Nat /\ Former(Stat(traffic), traffic, changes)
  BY <1>1 DEF Stat, Former, Generations
<1> QED
  BY <1>2, ViewsAssumption

LEMMA AuthMadeCovers == ASSUME Typed, auth # None PROVE Covers(AuthMade, User)
<1> SUFFICES ASSUME NEW u \in User, NEW ip \in Ip, NEW r \in Seen(u, ip)
             PROVE  /\ r.at \in Nat /\ AuthMade[<<u, ip>>] # None
                    /\ AuthMade[<<u, ip>>].last >= r.at
  BY DEF Covers
<1> DEFINE x == <<u, ip>>
<1>1. x \in Pair /\ x[1] = u /\ x[2] = ip
  BY DEF Pair
<1>2. /\ AuthMade[x] # None /\ AuthMade[x].last \in Nat
      /\ r.at \in Nat /\ r.at <= AuthMade[x].last
  <2> HIDE DEF x
  <2> QED
    BY <1>1, EntryOfSeen
<1> QED
  BY <1>2

\* What a request is answered, and what it leaves in the caches.
LEMMA HistoryIsCurrent ==
  ASSUME Typed, Current
  PROVE  /\ AuthCurrent(AuthCacheNow)
         /\ AuthFile # None => AuthCacheNow.key = AuthKey /\ Covers(AuthHistory, User)
<1> USE DEF AuthFile
<1>1. CASE AuthFile = None
  BY <1>1 DEF AuthCacheNow, Current
<1>2. CASE AuthFile # None /\ Hit(authCache, AuthKey, CacheTtl)
  <2>1. AuthCacheNow = authCache /\ AuthHistory = authCache.made
    BY <1>2 DEF AuthCacheNow, AuthHistory
  <2>2. authCache.key = AuthKey /\ AuthKey # None /\ authCache.made # None
    BY <1>2, StatOfAuth DEF Hit, Current
  <2>3. authCache.key[1] = Stat(auth)
    BY <2>2 DEF AuthKey
  <2> QED
    BY <1>2, <2>1, <2>2, <2>3 DEF Current, AuthCurrent
<1>3. CASE AuthFile # None /\ ~Hit(authCache, AuthKey, CacheTtl)
  <2>1. /\ AuthCacheNow = [key |-> AuthKey, at |-> now, made |-> AuthMade]
        /\ AuthHistory = AuthMade
    BY <1>3 DEF AuthCacheNow, AuthHistory
  <2>2. AuthKey[1] = Stat(auth)
    BY DEF AuthKey
  <2> QED
    BY <1>3, <2>1, <2>2, StatOfAuth, AuthMadeCovers DEF Current, AuthCurrent
<1> QED
  BY <1>1, <1>2, <1>3

LEMMA TotalsAreCurrent ==
  ASSUME Current
  PROVE  /\ TrafficCurrent(TrafficCacheNow)
         /\ TrafficFile # None => /\ TrafficCacheNow.key = Stat(traffic)
                              /\ Counts(TrafficTotals, User)
<1> USE DEF TrafficFile
<1>1. CASE TrafficFile = None
  BY <1>1 DEF TrafficCacheNow, TrafficCurrent
<1>2. CASE TrafficFile # None /\ trafficCache.key = Stat(traffic)
  BY <1>2, StatOfTraffic DEF TrafficCacheNow, TrafficTotals, TrafficCurrent, Current
<1>3. CASE TrafficFile # None /\ trafficCache.key # Stat(traffic)
  <2>1. /\ TrafficCacheNow = [key |-> Stat(traffic), at |-> 0, made |-> TrafficMade]
        /\ TrafficTotals = TrafficMade
    BY <1>3 DEF TrafficCacheNow, TrafficTotals
  <2>2. Counts(TrafficMade, User)
    BY DEF Counts
  <2> QED
    BY <1>3, <2>1, <2>2, StatOfTraffic DEF TrafficCurrent, Current
<1> QED
  BY <1>1, <1>2, <1>3

LEMMA ExplorerIsCurrent ==
  ASSUME Typed, Current
  PROVE  /\ ExplorerCurrent(ExplorerCacheNow)
         /\ Explorer.users = users
         /\ AuthFile # None /\ now - patched >= ExplorerTtl =>
              Covers(Explorer.history, Names)
         /\ TrafficFile # None => Counts(Explorer.traffic, Names)
<1>1. /\ ExplorerKey[1] = users /\ NamesOf(users) = Names
      /\ ExplorerKey[2] = AuthCacheNow.key /\ ExplorerKey[3] = TrafficCacheNow.key
  BY DEF ExplorerKey, NamesOf, Names
<1>2. AuthFile # None => ExplorerKey[2] # None /\ ExplorerKey[2][1] = Stat(auth)
  <2>1. AuthKey[1] = Stat(auth)
    BY DEF AuthKey
  <2> QED
    BY <1>1, <2>1, HistoryIsCurrent, StatOfAuth DEF Current, AuthFile
<1>3. TrafficFile # None => ExplorerKey[3] # None /\ ExplorerKey[3] = Stat(traffic)
  BY <1>1, TotalsAreCurrent, StatOfTraffic DEF Current, TrafficFile
<1>4. CASE Hit(explorerCache, ExplorerKey, ExplorerTtl)
  <2>1. ExplorerCacheNow = explorerCache /\ Explorer = explorerCache.made
    BY <1>4 DEF ExplorerCacheNow, Explorer
  <2>2. explorerCache.key = ExplorerKey /\ explorerCache.made # None
    BY <1>4 DEF Hit
  <2>3. now - patched >= ExplorerTtl => patched < explorerCache.at
    BY <1>4, <2>2, ViewsAssumption DEF Hit, Current, ExplorerCurrent, Typed
  <2>4. TrafficFile # None => traffic # None
    BY DEF TrafficFile
  <2> QED
    BY <1>1, <1>2, <1>3, <2>1, <2>2, <2>3, <2>4 DEF Current, ExplorerCurrent
<1>5. CASE ~Hit(explorerCache, ExplorerKey, ExplorerTtl)
  <2>1. ExplorerCacheNow = [key |-> ExplorerKey, at |-> now, made |-> ExplorerMade]
    BY <1>5 DEF ExplorerCacheNow
  <2>2. Explorer = ExplorerMade /\ ExplorerMade.users = users
    BY <2>1 DEF Explorer, ExplorerMade
  <2>3. AuthFile # None => Covers(ExplorerMade.history, Names)
    <3>1. \A u \in Names, ip \in Ip :
            u \in User /\ ExplorerMade.history[<<u, ip>>] = AuthHistory[<<u, ip>>]
      BY DEF ExplorerMade, Names
    <3> QED
      BY <3>1, HistoryIsCurrent DEF Covers
  <2>4. TrafficFile # None => Counts(ExplorerMade.traffic, Names)
    <3>1. \A u \in Names : u \in User /\ ExplorerMade.traffic[u] = TrafficTotals[u]
      BY DEF ExplorerMade, Names
    <3> QED
      BY <3>1, TotalsAreCurrent DEF Counts
  <2>5. /\ ExplorerKey[2] # None => Former(ExplorerKey[2][1], auth, changes)
        /\ ExplorerKey[3] # None => Former(ExplorerKey[3], traffic, changes)
    BY <1>1, HistoryIsCurrent, TotalsAreCurrent DEF AuthCurrent, TrafficCurrent
  <2>6. ExplorerKey[3] # None => TrafficFile # None
    BY <1>1 DEF TrafficCacheNow
  <2>7. now \in Nat /\ now <= now
    BY DEF Typed
  <2>8. ExplorerCurrent(ExplorerCacheNow)
    BY <1>1, <2>1, <2>2, <2>3, <2>4, <2>5, <2>6, <2>7 DEF ExplorerCurrent
  <2> QED
    BY <2>2, <2>3, <2>4, <2>8
<1> QED
  BY <1>4, <1>5

\* How the logs move.
LEMMA AuthLogStep ==
  ASSUME Typed, Generations, [Next]_vars
  PROVE  /\ LogStep(auth, auth', changes, changes')
         /\ auth' # None => auth'.generation <= changes'
<1> USE DEF logs, database, settings, caches
<1>1. ASSUME NEW u \in User, NEW ip \in Ip, LogAuth(u, ip)
      PROVE  /\ auth # None /\ changes' = changes /\ auth'.generation = auth.generation
             /\ Len(auth'.records) = Len(auth.records) + 1 /\ Len(auth.records) \in Nat
  <2> DEFINE r == [user |-> u, ip |-> ip, at |-> now]
  <2>1. auth # None /\ auth \in [generation : Nat, records : Seq(AuthRecord)]
    BY <1>1 DEF LogAuth, Typed
  <2>2. auth' = [auth EXCEPT !.records = Append(auth.records, r)] /\ changes' = changes
    BY <1>1 DEF LogAuth
  <2>3. auth'.generation = auth.generation /\ auth'.records = Append(auth.records, r)
    BY <2>1, <2>2
  <2> HIDE DEF r
  <2>4. Len(auth.records) \in Nat /\ Len(Append(auth.records, r)) = Len(auth.records) + 1
    BY <2>1
  <2> QED
    BY <2>1, <2>2, <2>3, <2>4
<1>2. CASE RotateAuth
  BY <1>2 DEF RotateAuth, Rotate, Fresh, Change, LogStep, Typed
<1>3. ASSUME auth' = auth, changes' \in Nat, changes <= changes'
      PROVE  /\ LogStep(auth, auth', changes, changes')
             /\ auth' # None => auth'.generation <= changes'
  <2>1. auth # None => auth.generation \in Nat /\ auth.generation <= changes
    BY DEF Typed, Generations
  <2>2. changes \in Nat
    BY DEF Typed
  <2> QED
    BY <1>3, <2>1, <2>2 DEF LogStep
<1>4. ASSUME NEW u \in User, LogTraffic(u) \/ ResetSessions(u) \/ SetUser(u) \/ DeleteInternal(u)
      PROVE  auth' = auth /\ changes' \in Nat /\ changes <= changes'
  BY <1>4 DEF LogTraffic, ResetSessions, SetUser, DeleteInternal, Change, Typed
<1>5. ASSUME NEW log \in {"auth", "traffic"}, PatchPath(log)
      PROVE  auth' = auth /\ changes' \in Nat /\ changes <= changes'
  BY <1>5 DEF PatchPath, Change, Typed
<1>6. CASE Tick \/ RotateTraffic \/ SetTtl \/ Restart \/ UNCHANGED vars
  <2>1. auth' = auth /\ changes' \in Nat /\ changes <= changes'
    BY <1>6 DEF Tick, RotateTraffic, SetTtl, Restart, vars, Change, Typed
  <2> QED
    BY <1>3, <2>1
<1>7. CASE ViewSessions \/ ViewTraffic \/ ViewExplorer
  <2>1. auth' = auth /\ changes' \in Nat /\ changes <= changes'
    BY <1>7 DEF ViewSessions, ViewTraffic, ViewExplorer, Typed
  <2> QED
    BY <1>3, <2>1
<1>8. ASSUME NEW u \in User, NEW ip \in Ip, LogAuth(u, ip)
      PROVE  /\ LogStep(auth, auth', changes, changes')
             /\ auth' # None => auth'.generation <= changes'
  BY <1>1, <1>8 DEF LogStep, Typed, Generations
<1> QED
  BY <1>2, <1>3, <1>4, <1>8, <1>6, <1>7, <1>5 DEF Next

LEMMA TrafficLogStep ==
  ASSUME Typed, Generations, [Next]_vars
  PROVE  /\ LogStep(traffic, traffic', changes, changes')
         /\ traffic' # None => traffic' \in TrafficLog /\ traffic'.generation <= changes'
<1> USE DEF logs, database, settings, caches
<1>1. ASSUME NEW u \in User, LogTraffic(u)
      PROVE  /\ LogStep(traffic, traffic', changes, changes')
             /\ traffic' # None => traffic' \in TrafficLog /\ traffic'.generation <= changes'
  <2> DEFINE r == [user |-> u]
  <2>1. traffic # None /\ traffic \in TrafficLog /\ traffic.generation <= changes
    BY <1>1 DEF LogTraffic, Generations
  <2>2. traffic' = [traffic EXCEPT !.records = Append(traffic.records, r)] /\ changes' = changes
    BY <1>1 DEF LogTraffic
  <2>3. r \in [user : User]
    OBVIOUS
  <2> HIDE DEF r
  <2>4. Append(traffic.records, r) \in Seq([user : User])
    BY <2>1, <2>3 DEF TrafficLog
  <2>5. /\ traffic' \in TrafficLog
        /\ traffic'.generation = traffic.generation
        /\ traffic'.records = Append(traffic.records, r)
    BY <2>1, <2>2, <2>4 DEF TrafficLog
  <2>6. Len(traffic.records) \in Nat /\ Len(traffic'.records) = Len(traffic.records) + 1
    BY <2>1, <2>3, <2>5 DEF TrafficLog
  <2> QED
    BY <2>1, <2>2, <2>5, <2>6 DEF LogStep, Typed
<1>2. CASE RotateTraffic
  <2>1. [generation |-> changes', records |-> <<>>] \in TrafficLog
    BY <1>2 DEF RotateTraffic, Change, Typed, TrafficLog
  <2> QED
    BY <1>2, <2>1 DEF RotateTraffic, Rotate, Fresh, Change, LogStep, Typed
<1>3. ASSUME traffic' = traffic, changes' \in Nat, changes <= changes'
      PROVE  /\ LogStep(traffic, traffic', changes, changes')
             /\ traffic' # None => traffic' \in TrafficLog /\ traffic'.generation <= changes'
  <2>1. traffic # None => /\ traffic \in TrafficLog /\ traffic.generation \in Nat
                          /\ traffic.generation <= changes
    BY DEF Generations, TrafficLog
  <2>2. changes \in Nat
    BY DEF Typed
  <2>3. LogStep(traffic, traffic', changes, changes')
    BY <1>3, <2>2 DEF LogStep
  <2>4. traffic # None => traffic.generation <= changes'
    BY <1>3, <2>1, <2>2
  <2> QED
    BY <1>3, <2>1, <2>3, <2>4
<1>4. ASSUME NEW u \in User, ResetSessions(u) \/ SetUser(u) \/ DeleteInternal(u)
      PROVE  traffic' = traffic /\ changes' \in Nat /\ changes <= changes'
  BY <1>4 DEF ResetSessions, SetUser, DeleteInternal, Change, Typed
<1>5. ASSUME NEW log \in {"auth", "traffic"}, PatchPath(log)
      PROVE  traffic' = traffic /\ changes' \in Nat /\ changes <= changes'
  BY <1>5 DEF PatchPath, Change, Typed
<1>6. ASSUME NEW u \in User, NEW ip \in Ip, LogAuth(u, ip)
      PROVE  traffic' = traffic /\ changes' = changes /\ changes \in Nat
  BY <1>6 DEF LogAuth, Typed
<1>7. CASE Tick \/ RotateAuth \/ SetTtl \/ Restart \/ UNCHANGED vars
  <2>1. traffic' = traffic /\ changes' \in Nat /\ changes <= changes'
    BY <1>7 DEF Tick, RotateAuth, SetTtl, Restart, vars, Change, Typed
  <2> QED
    BY <1>3, <2>1
<1>8. CASE ViewSessions \/ ViewTraffic \/ ViewExplorer
  <2>1. traffic' = traffic /\ changes' \in Nat /\ changes <= changes'
    BY <1>8 DEF ViewSessions, ViewTraffic, ViewExplorer, Typed
  <2> QED
    BY <1>3, <2>1
<1> QED
  BY <1>1, <1>2, <1>3, <1>4, <1>7, <1>8, <1>6, <1>5 DEF Next

\* How the caches move: they are kept, filled by a request that changes nothing
\* else, or dropped.
LEMMA CachesStep ==
  ASSUME Typed, [Next]_vars
  PROVE  /\ now' \in Nat /\ now <= now'
         /\ \/ patched' = patched /\ ("auth" \in paths' <=> "auth" \in paths)
            \/ patched' = now
         /\ \/ authCache' = authCache /\ resets' = resets
            \/ authCache' = AuthCacheNow /\ UNCHANGED <<auth, resets, now, changes>>
            \/ authCache' = Empty
         /\ \/ trafficCache' = trafficCache
            \/ trafficCache' = TrafficCacheNow /\ UNCHANGED <<traffic, changes>>
            \/ trafficCache' = Empty
         /\ \/ explorerCache' = explorerCache /\ resets' = resets
            \/ /\ explorerCache' = ExplorerCacheNow
               /\ UNCHANGED <<auth, traffic, resets, paths, patched, now, changes>>
            \/ explorerCache' = Empty
<1> USE DEF logs, database, settings, caches, Typed
<1>1. CASE ViewSessions \/ ViewTraffic \/ ViewExplorer
  BY <1>1 DEF ViewSessions, ViewTraffic, ViewExplorer
<1>2. CASE Restart \/ \E u \in User : ResetSessions(u) \/ DeleteInternal(u)
  BY <1>2 DEF Restart, ResetSessions, DeleteInternal
<1>3. CASE Tick \/ RotateAuth \/ RotateTraffic \/ SetTtl \/ UNCHANGED vars
  BY <1>3 DEF Tick, RotateAuth, RotateTraffic, SetTtl, vars
<1>4. ASSUME NEW u \in User, SetUser(u) \/ LogTraffic(u) \/ \E ip \in Ip : LogAuth(u, ip)
      PROVE  UNCHANGED <<now, resets, paths, patched, authCache, trafficCache, explorerCache>>
  BY <1>4 DEF SetUser, LogTraffic, LogAuth
<1>5. ASSUME NEW log \in {"auth", "traffic"}, PatchPath(log)
      PROVE  /\ UNCHANGED <<now, resets, authCache, trafficCache, explorerCache>>
             /\ \/ patched' = patched /\ ("auth" \in paths' <=> "auth" \in paths)
                \/ patched' = now
  BY <1>5 DEF PatchPath
<1> QED
  BY <1>1, <1>2, <1>3, <1>4, <1>5 DEF Next

\* With time less is seen.
LEMMA SeenShrinks ==
  ASSUME Typed, auth # None, UNCHANGED <<auth, resets>>, now' \in Nat, now <= now',
         NEW h, NEW U, Covers(h, U), U \subseteq User
  PROVE  \A u \in U, ip \in Ip : \A r \in Seen(u, ip)' :
           r.at \in Nat /\ h[<<u, ip>>] # None /\ h[<<u, ip>>].last >= r.at
<1> SUFFICES ASSUME NEW u \in U, NEW ip \in Ip, NEW r \in Seen(u, ip)'
             PROVE  r \in Seen(u, ip)
  BY DEF Covers
<1>1. PICK i \in LogTail(auth) : r = auth.records[i]
  BY DEF Seen, LogTail
<1>2. r \in AuthRecord
  BY <1>1 DEF Typed, LogTail
<1>3. r.at >= now' - HistoryTtl /\ r.at \in Nat
  BY <1>2 DEF Seen, AuthRecord
<1>4. r.at >= now - HistoryTtl
  BY <1>3, ViewsAssumption DEF Typed
<1> QED
  BY <1>1, <1>4 DEF Seen

LEMMA CurrentInitially == Init => Current
<1> SUFFICES ASSUME Init PROVE Current
  OBVIOUS
<1>1. traffic = [generation |-> 0, records |-> <<>>] /\ auth.generation = 0 /\ changes = 0
  BY DEF Init, Fresh
<1>2. traffic \in TrafficLog
  BY <1>1 DEF TrafficLog
<1>3. Generations
  BY <1>1, <1>2 DEF Generations
<1>4. /\ authCache.key = None /\ trafficCache.key = None /\ explorerCache.made = None
  BY DEF Init, Empty
<1> QED
  BY <1>3, <1>4 DEF Current, AuthCurrent, TrafficCurrent, ExplorerCurrent

LEMMA CurrentStep == Typed /\ Current /\ [Next]_vars => Current'
<1> SUFFICES ASSUME Typed, Current, [Next]_vars PROVE Current'
  OBVIOUS
<1>1. now' \in Nat /\ now <= now' /\ Generations
  BY CachesStep DEF Current
<1>2. /\ LogStep(auth, auth', changes, changes')
      /\ LogStep(traffic, traffic', changes, changes')
      /\ Generations'
  BY <1>1, AuthLogStep, TrafficLogStep DEF Generations
<1>3. Stat(auth)' = Stat(auth') /\ Stat(traffic)' = Stat(traffic')
  BY DEF Stat
<1>4. ASSUME NEW stat, Former(stat, auth, changes)
      PROVE  /\ Former(stat, auth', changes')
             /\ auth' # None /\ stat = Stat(auth)' => auth' = auth
  BY <1>2, <1>3, <1>4, FormerStays
<1>5. ASSUME NEW stat, Former(stat, traffic, changes)
      PROVE  /\ Former(stat, traffic', changes')
             /\ traffic' # None /\ stat = Stat(traffic)' => traffic' = traffic
  BY <1>2, <1>3, <1>5, FormerStays
<1>6. AuthCurrent(authCache)'
  <2>1. CASE authCache' = Empty
    BY <2>1 DEF AuthCurrent, Empty
  <2>2. CASE authCache' = AuthCacheNow /\ UNCHANGED <<auth, resets, now, changes>>
    <3>1. AuthCurrent(AuthCacheNow)
      BY HistoryIsCurrent
    <3> QED
      BY <2>2, <3>1 DEF AuthCurrent, Covers, Seen, Stat, Former
  <2>3. CASE authCache' = authCache /\ resets' = resets
    <3> SUFFICES ASSUME authCache.key # None
                 PROVE  /\ Former(authCache.key[1], auth', changes')
                        /\ auth' # None /\ authCache.key[1] = Stat(auth)' /\ authCache.made # None
                             => Covers(authCache.made, User)'
      BY <2>3 DEF AuthCurrent, Former
    <3>1. Former(authCache.key[1], auth, changes)
      BY DEF Current, AuthCurrent
    <3>2. /\ Former(authCache.key[1], auth', changes')
          /\ auth' # None /\ authCache.key[1] = Stat(auth)' => auth' = auth
      BY <1>4, <3>1
    <3>3. ASSUME auth' # None, authCache.key[1] = Stat(auth)', authCache.made # None
          PROVE  Covers(authCache.made, User)'
      <4>1. auth' = auth /\ Stat(auth)' = Stat(auth)
        BY <3>2, <3>3 DEF Stat
      <4>2. Covers(authCache.made, User)
        BY <3>3, <4>1 DEF Current, AuthCurrent
      <4>3. \A u \in User, ip \in Ip : \A r \in Seen(u, ip)' :
              /\ r.at \in Nat /\ authCache.made[<<u, ip>>] # None
              /\ authCache.made[<<u, ip>>].last >= r.at
        BY <1>1, <2>3, <3>3, <4>1, <4>2, SeenShrinks
      <4> QED
        BY <2>3, <4>3 DEF Covers
    <3> QED
      BY <3>2, <3>3
  <2> QED
    BY <2>1, <2>2, <2>3, CachesStep
<1>7. TrafficCurrent(trafficCache)'
  <2>1. CASE trafficCache' = Empty
    BY <2>1 DEF TrafficCurrent, Empty
  <2>2. CASE trafficCache' = TrafficCacheNow /\ UNCHANGED <<traffic, changes>>
    <3>1. TrafficCurrent(TrafficCacheNow)
      BY TotalsAreCurrent
    <3> QED
      BY <2>2, <3>1 DEF TrafficCurrent, Counts, TrafficMade, Stat, Former
  <2>3. CASE trafficCache' = trafficCache
    <3> SUFFICES ASSUME trafficCache.key # None
                 PROVE  /\ Former(trafficCache.key, traffic', changes')
                        /\ traffic' # None /\ trafficCache.key = Stat(traffic)'
                             => Counts(trafficCache.made, User)'
      BY <2>3 DEF TrafficCurrent, Former
    <3>1. Former(trafficCache.key, traffic, changes)
      BY DEF Current, TrafficCurrent
    <3>2. /\ Former(trafficCache.key, traffic', changes')
          /\ traffic' # None /\ trafficCache.key = Stat(traffic)' => traffic' = traffic
      BY <1>5, <3>1
    <3>3. ASSUME traffic' # None, trafficCache.key = Stat(traffic)'
          PROVE  Counts(trafficCache.made, User)'
      <4>1. traffic' = traffic /\ Stat(traffic)' = Stat(traffic)
        BY <3>2, <3>3 DEF Stat
      <4>2. Counts(trafficCache.made, User)
        BY <3>3, <4>1 DEF Current, TrafficCurrent
      <4> QED
        BY <2>3, <4>1, <4>2 DEF Counts, TrafficMade
    <3> QED
      BY <3>2, <3>3
  <2> QED
    BY <2>1, <2>2, <2>3, CachesStep
<1>8. ExplorerCurrent(explorerCache)'
  <2>1. CASE explorerCache' = Empty
    BY <2>1 DEF ExplorerCurrent, Empty
  <2>2. CASE /\ explorerCache' = ExplorerCacheNow
             /\ UNCHANGED <<auth, traffic, resets, paths, patched, now, changes>>
    <3>1. ExplorerCurrent(ExplorerCacheNow)
      BY ExplorerIsCurrent
    <3>2. ASSUME NEW h, NEW U PROVE Covers(h, U)' <=> Covers(h, U)
      BY <2>2 DEF Covers, Seen
    <3>3. ASSUME NEW h, NEW U PROVE Counts(h, U)' <=> Counts(h, U)
      BY <2>2 DEF Counts, TrafficMade
    <3>4. Stat(auth)' = Stat(auth) /\ Stat(traffic)' = Stat(traffic)
      BY <2>2 DEF Stat
    <3> QED
      BY <2>2, <3>1, <3>2, <3>3, <3>4 DEF ExplorerCurrent, Former, AuthFile
  <2>3. CASE explorerCache' = explorerCache /\ resets' = resets
    <3> DEFINE k == explorerCache.key
               m == explorerCache.made
               U == NamesOf(k[1])
    <3> SUFFICES ASSUME m # None
                 PROVE  /\ explorerCache.at \in Nat /\ explorerCache.at <= now'
                        /\ m.users = k[1]
                        /\ k[2] # None =>
                             /\ Former(k[2][1], auth', changes')
                             /\ AuthFile' # None /\ k[2][1] = Stat(auth)'
                                  /\ patched' < explorerCache.at => Covers(m.history, U)'
                        /\ k[3] # None =>
                             /\ Former(k[3], traffic', changes')
                             /\ traffic' # None /\ k[3] = Stat(traffic)' => Counts(m.traffic, U)'
      BY <2>3 DEF ExplorerCurrent, Former
    <3>1. ExplorerCurrent(explorerCache) /\ U \subseteq User
      BY DEF Current, NamesOf
    <3>2. m.users = k[1] /\ explorerCache.at \in Nat /\ explorerCache.at <= now'
      BY <1>1, <3>1 DEF ExplorerCurrent, Typed
    <3>3. ASSUME k[2] # None PROVE Former(k[2][1], auth, changes)
      BY <3>1, <3>3 DEF ExplorerCurrent
    <3>4. ASSUME k[2] # None, AuthFile' # None, k[2][1] = Stat(auth)',
                 patched' < explorerCache.at
          PROVE  Covers(m.history, U)'
      <4>1. auth' # None
        BY <3>4 DEF AuthFile
      <4>2. auth' = auth /\ Stat(auth)' = Stat(auth)
        BY <1>4, <3>3, <3>4, <4>1 DEF Stat
      <4>3. patched' # now
        BY <3>1, <3>4 DEF ExplorerCurrent, Typed
      <4>4. patched' = patched /\ AuthFile # None
        BY <3>4, <4>2, <4>3, CachesStep DEF AuthFile
      <4>5. Covers(m.history, U)
        BY <3>1, <3>4, <4>2, <4>4 DEF ExplorerCurrent
      <4>6. \A u \in U, ip \in Ip : \A r \in Seen(u, ip)' :
              r.at \in Nat /\ m.history[<<u, ip>>] # None /\ m.history[<<u, ip>>].last >= r.at
        BY <1>1, <2>3, <3>1, <3>4, <4>1, <4>2, <4>5, SeenShrinks
      <4> QED
        BY <2>3, <4>6 DEF Covers
    <3>5. ASSUME k[3] # None PROVE Former(k[3], traffic, changes)
      BY <3>1, <3>5 DEF ExplorerCurrent
    <3>6. ASSUME k[3] # None, traffic' # None, k[3] = Stat(traffic)'
          PROVE  Counts(m.traffic, U)'
      <4>1. traffic' = traffic /\ Stat(traffic)' = Stat(traffic)
        BY <1>5, <3>5, <3>6 DEF Stat
      <4>2. Counts(m.traffic, U)
        BY <3>1, <3>6, <4>1 DEF ExplorerCurrent
      <4> QED
        BY <2>3, <4>1, <4>2 DEF Counts, TrafficMade
    <3> HIDE DEF k, m, U
    <3> QED
      BY <1>4, <1>5, <3>2, <3>3, <3>4, <3>5, <3>6
  <2> QED
    BY <2>1, <2>2, <2>3, CachesStep
<1> QED
  BY <1>2, <1>6, <1>7, <1>8 DEF Current

\* Whatever was logged since the caches were filled, no view lacks it as far as
\* the tail of the log has it, except for an explorer whose thirty seconds run
\* since before the path of the log was last patched.
THEOREM MissingTheorem == Spec => []NothingMissing
<1>1. Typed /\ Current => NothingMissing
  <2> SUFFICES ASSUME Typed, Current PROVE NothingMissing
    OBVIOUS
  <2>1. Explorer.users = users
    BY ExplorerIsCurrent
  <2>2. ASSUME AuthFile # None, NEW u \in User, NEW ip \in Ip, NEW r \in Seen(u, ip)
        PROVE  /\ AuthHistory[<<u, ip>>] # None /\ AuthHistory[<<u, ip>>].last >= r.at
               /\ u \in Names /\ now - patched >= ExplorerTtl =>
                    u \in UsersAt(ip) /\ Explorer.history[<<u, ip>>].last >= r.at
    BY <2>2, HistoryIsCurrent, ExplorerIsCurrent DEF Covers, UsersAt
  <2>3. ASSUME TrafficFile # None, NEW u \in Names
        PROVE  TrafficTotals[u] = TrafficMade[u] /\ Explorer.traffic[u] = TrafficMade[u]
    <3>1. u \in User
      BY DEF Names
    <3> QED
      BY <2>3, <3>1, TotalsAreCurrent, ExplorerIsCurrent DEF Counts
  <2> QED
    BY <2>1, <2>2, <2>3 DEF NothingMissing
<1>2. Init => Typed
  BY ViewsInitially DEF ViewsInv
<1> QED
  BY <1>1, <1>2, TypedStep, CurrentInitially, CurrentStep, PTL DEF Spec

=============================================================================
