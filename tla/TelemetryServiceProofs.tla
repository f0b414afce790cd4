----------------------- MODULE TelemetryServiceProofs -----------------------
(***************************************************************************)
(* Proofs that the telemetry service never overlaps two collections, never *)
(* stops by itself and never loses the time of its last success.           *)
(***************************************************************************)
EXTENDS TelemetryService, TLAPS

\* Taking one collection out of those in progress, or putting one in.
LEMMA RunsChange ==
  ASSUME NEW r \in 0 .. 1, NEW n \in Int, runs \in [0 .. 1 -> Nat],
         runs' = [runs EXCEPT ![r] = @ + n]
  PROVE  InProgress' = InProgress + n
<1>1. CASE r = 0
  BY <1>1 DEF InProgress
<1>2. CASE r = 1
  BY <1>2 DEF InProgress
<1> QED
  BY <1>1, <1>2

\* After clearTimeout the event loop holds no timeout, after scheduleNext one.
LEMMA TimerChange ==
  ASSUME armed \in Nat, armed = IF timer = "armed" THEN 1 ELSE 0
  PROVE  /\ ClearTimer => timer' = "none" /\ armed' = 0
         /\ Schedule => timer' = "armed" /\ armed' = 1
BY DEF ClearTimer, Schedule, Others

\* Writing the collector state leaves the new one or the old one to be read.
LEMMA PersistChange ==
  ASSUME NEW s \in Statuses, NEW t \in 0 .. 1, Persist(s, t),
         recorded \in BOOLEAN, storage \in BOOLEAN, status \in Statuses, success \in 0 .. 1,
         failures \in 0 .. MaxFailures
  PROVE  /\ recorded' \in BOOLEAN /\ status' \in Statuses
         /\ success' \in {t, success}
         /\ failures' \in 0 .. MaxFailures
BY PatchAssumption DEF Persist

LEMMA OutcomeChange ==
  ASSUME NEW r \in 0 .. 1, Outcome(r), TypeOK
  PROVE  /\ recorded' \in BOOLEAN /\ status' \in Statuses
         /\ success' \in {r, success, 1}
         /\ failures' \in 0 .. MaxFailures
BY PersistChange DEF Outcome, TypeOK, Statuses

\* A collection that ends in the turn it began leaves the time of the last
\* success alone.
LEMMA AtOnceChange ==
  ASSUME PersistAtOnce, TypeOK
  PROVE  /\ recorded' \in BOOLEAN /\ status' \in Statuses
         /\ failures' \in 0 .. MaxFailures
         /\ UNCHANGED <<success, flight, runs>>
BY PersistChange DEF PersistAtOnce, TypeOK, Statuses

\* The initial states keep the books: start() has been called once.
LEMMA Initially ==
  ASSUME Init
  PROVE  Bookkeeping
<1>1. TypeOK
  <2>1. storage \in BOOLEAN /\ enabled \in BOOLEAN /\ stopped \in BOOLEAN /\ flight \in BOOLEAN
    BY Zenon DEF Init
  <2>2. timer \in {"none", "armed", "fired"} /\ recorded \in BOOLEAN
    BY Zenon DEF Init
  <2>3. /\ armed \in Nat /\ immediates \in Nat /\ refreshing \in Nat
        /\ patches \in 0 .. MaxPatches /\ failures \in 0 .. MaxFailures
    BY PatchAssumption DEF Init
  <2>4. runs \in [0 .. 1 -> Nat]
    BY DEF Init, Idle
  <2>5. status \in Statuses /\ success \in 0 .. 1
    BY DEF Init, Statuses
  <2> QED
    BY <2>1, <2>2, <2>3, <2>4, <2>5 DEF Init, TypeOK
<1>2. InProgress = 0
  BY DEF Init, Idle, InProgress
<1> QED
  BY <1>1, <1>2 DEF Init, Bookkeeping

\* Every step keeps the books.
LEMMA Preserved ==
  ASSUME Bookkeeping, [Next]_vars
  PROVE  Bookkeeping'
<1> USE PatchAssumption DEF Bookkeeping, TypeOK
<1> DEFINE Quiet == runs' = runs
<1>q. ASSUME Quiet
      PROVE  InProgress' = InProgress
  BY <1>q DEF InProgress
<1>t. CASE UNCHANGED vars
  BY <1>t DEF vars, service, state, process, InProgress
<1>c. /\ ClearTimer => timer' = "none" /\ armed' = 0
      /\ Schedule => timer' = "armed" /\ armed' = 1
  BY TimerChange
<1>b. ASSUME CollectBegins, ~flight
      PROVE  /\ flight' = TRUE
             /\ runs' \in [0 .. 1 -> Nat]
             /\ InProgress' = 1
             /\ UNCHANGED state
  BY <1>b, RunsChange DEF CollectBegins, InProgress
<1>1. CASE ImmediateRuns
  <2>1. CASE (stopped \/ flight) /\ UNCHANGED <<state, flight, runs, timer, armed>>
    BY <1>1, <1>q, <2>1 DEF ImmediateRuns, state, process
  <2>2. CASE ~stopped /\ ~flight /\ AtOnce /\ CollectAtOnce
    BY <1>1, <1>q, <2>2, AtOnceChange
       DEF ImmediateRuns, CollectAtOnce, Schedule, ClearTimer, Others, process
  <2>3. CASE /\ ~stopped /\ ~flight
             /\ CollectBegins
             /\ UNCHANGED <<timer, armed>>
    BY <1>1, <1>b, <2>3 DEF ImmediateRuns, state, process
  <2> QED
    BY <1>1, <2>1, <2>2, <2>3 DEF ImmediateRuns, InFlight
<1>2. CASE TimerFires
  <2>0. timer = "armed" /\ armed = 1 /\ ~stopped
    BY <1>2 DEF TimerFires
  <2>1. CASE /\ flight
             /\ timer' = "fired" /\ armed' = armed - 1
             /\ UNCHANGED <<state, flight, runs>>
    BY <1>2, <1>q, <2>0, <2>1 DEF TimerFires, state, process
  <2>2. CASE PersistAtOnce /\ timer' = "armed" /\ armed' = armed
    BY <1>2, <1>q, <2>0, <2>2, AtOnceChange DEF TimerFires, process
  <2>3. CASE /\ ~flight
             /\ timer' = "fired" /\ armed' = armed - 1
             /\ CollectBegins
    BY <1>2, <1>b, <2>0, <2>3 DEF TimerFires, state, process
  <2> QED
    BY <1>2, <2>0, <2>1, <2>2, <2>3 DEF TimerFires, InFlight
<1>3. CASE CollectionEnds
  <2> PICK r \in 0 .. 1 : /\ runs[r] > 0
                           /\ runs' = [runs EXCEPT ![r] = @ - 1]
                           /\ Outcome(r)
    BY <1>3 DEF CollectionEnds
  <2>1. /\ runs' \in [0 .. 1 -> Nat]
        /\ InProgress' = InProgress - 1
    <3>1. runs' = [runs EXCEPT ![r] = @ + (-1)]
      BY DEF TypeOK
    <3>2. runs' \in [0 .. 1 -> Nat]
      BY DEF TypeOK
    <3>3. InProgress' = InProgress + (-1)
      BY <3>1, RunsChange, -1 \in Int
    <3> QED
      BY <3>2, <3>3 DEF InProgress
  <2>2. flight /\ InProgress = 1
    BY DEF InProgress
  <2>3. /\ recorded' \in BOOLEAN /\ status' \in Statuses /\ success' \in 0 .. 1
        /\ failures' \in 0 .. MaxFailures
    BY OutcomeChange
  <2>4. /\ stage' \in {"running", "stopping", "closing", "exited"}
        /\ stage' = "running" => stage = "running"
        /\ flight' = FALSE
        /\ refreshing' = 0
        /\ UNCHANGED <<storage, enabled, code, patches>>
    BY <1>3 DEF CollectionEnds, AfterCollection
  <2>5. CASE refreshing > 0
    <3>1. /\ stopped' = FALSE
          /\ timer' = "none" /\ armed' = 0
          /\ immediates' = immediates + refreshing
      BY <1>3, <1>c, <2>5 DEF CollectionEnds, AfterCollection, Starts
    <3>2. storage' \in BOOLEAN /\ enabled' \in BOOLEAN /\ stopped' \in BOOLEAN /\ flight' \in BOOLEAN
      BY Zenon, <2>4, <3>1
    <3>3. TypeOK'
      BY <2>1, <2>3, <2>4, <2>5, <3>1, <3>2
    <3>4. ~stopped' /\ ~flight' /\ immediates' > 0 /\ armed' = 0 /\ timer' # "armed" /\ InProgress' = 0
      BY <2>1, <2>2, <2>3, <2>4, <2>5, <3>1
    <3> QED
      BY <2>4, <3>3, <3>4
  <2>6. CASE refreshing = 0 /\ stopped
    <3>1. timer' = "none" /\ armed' = 0 /\ UNCHANGED <<stopped, immediates>>
      BY <1>3, <1>c, <2>6 DEF CollectionEnds, AfterCollection
    <3>2. storage' \in BOOLEAN /\ enabled' \in BOOLEAN /\ stopped' \in BOOLEAN /\ flight' \in BOOLEAN
      BY Zenon, <2>4, <3>1
    <3>3. TypeOK'
      BY <2>1, <2>3, <2>4, <3>1, <3>2
    <3>4. stopped' /\ armed' = 0 /\ timer' # "armed" /\ ~flight' /\ InProgress' = 0
      BY <2>1, <2>2, <2>4, <2>6, <3>1
    <3> QED
      BY <2>4, <3>3, <3>4, <2>2, <2>6
  <2>7. CASE refreshing = 0 /\ ~stopped
    <3>1. timer' = "armed" /\ armed' = 1 /\ UNCHANGED <<stopped, immediates>>
      BY <1>3, <1>c, <2>7 DEF CollectionEnds, AfterCollection
    <3>2. storage' \in BOOLEAN /\ enabled' \in BOOLEAN /\ stopped' \in BOOLEAN /\ flight' \in BOOLEAN
      BY Zenon, <2>4, <3>1
    <3>3. TypeOK'
      BY <2>1, <2>3, <2>4, <3>1, <3>2
    <3>4. ~stopped' /\ armed' = 1 /\ timer' = "armed" /\ ~flight' /\ InProgress' = 0
      BY <2>1, <2>2, <2>4, <2>7, <3>1
    <3> QED
      BY <2>4, <3>3, <3>4
  <2> QED
    BY <2>5, <2>6, <2>7
<1>4. CASE RefreshGivesUp
  <2>1. /\ stopped' = FALSE
        /\ timer' = "none" /\ armed' = 0
        /\ immediates' = immediates + 1
        /\ refreshing' = refreshing - 1
    BY <1>4, <1>c DEF RefreshGivesUp, Starts
  <2>2. UNCHANGED <<storage, enabled, flight, runs, recorded, status, success, failures,
                    stage, code, patches>>
    BY <1>4 DEF RefreshGivesUp, state, process
  <2>3. storage' \in BOOLEAN /\ enabled' \in BOOLEAN /\ stopped' \in BOOLEAN /\ flight' \in BOOLEAN
    BY Zenon, <2>1, <2>2
  <2>4. TypeOK'
    BY <1>4, <2>1, <2>2, <2>3 DEF RefreshGivesUp
  <2>5. ~stopped' /\ flight' /\ armed' = 0 /\ timer' # "armed" /\ InProgress' = 1 /\ immediates' > 0
    BY <1>4, <1>q, <2>1, <2>2 DEF RefreshGivesUp
  <2> QED
    BY <2>4, <2>5
<1>5. ASSUME NEW on \in BOOLEAN, Patch(on)
      PROVE  Bookkeeping'
  <2>1. CASE flight
    <3>1. timer' = "none" /\ armed' = 0 /\ stopped' = TRUE
      BY <1>5, <1>c, <2>1 DEF Patch
    <3> QED
      BY <1>5, <1>q, <2>1, <3>1 DEF Patch, state, process
  <2>2. CASE ~flight
    <3>1. timer' = "none" /\ armed' = 0 /\ stopped' = FALSE /\ immediates' = immediates + 1
      BY <1>5, <1>c, <2>2 DEF Patch, Starts
    <3>2. /\ enabled' = on /\ patches' = patches + 1 /\ patches < MaxPatches
          /\ UNCHANGED <<storage, flight, refreshing, runs, recorded, status, success,
                          failures, stage, code>>
      BY <1>5, <2>2 DEF Patch, state, process
    <3>3. storage' \in BOOLEAN /\ enabled' \in BOOLEAN /\ stopped' \in BOOLEAN /\ flight' \in BOOLEAN
      BY Zenon, <3>1, <3>2
    <3>4. TypeOK'
      BY <3>1, <3>2, <3>3
    <3>5. ~stopped' /\ ~flight' /\ armed' = 0 /\ timer' # "armed" /\ InProgress' = 0 /\ immediates' > 0
      BY <1>q, <2>2, <3>1, <3>2
    <3>6. ~(refreshing' > 0)
      BY <2>2, <3>2
    <3> QED
      BY <3>4, <3>5, <3>6
  <2> QED
    BY <2>1, <2>2
<1>6. CASE Signal
  <2>1. timer' = "none" /\ armed' = 0 /\ stopped' = TRUE
    BY <1>6, <1>c DEF Signal
  <2> QED
    BY <1>6, <1>q, <2>1 DEF Signal, state
<1>7. ASSUME NEW on \in BOOLEAN, PatchRefused(on)
      PROVE  Bookkeeping'
  BY <1>7, <1>q DEF PatchRefused, service, state, process
<1>8. CASE StopGivesUp \/ Closed \/ Forced
  BY <1>8, <1>q DEF StopGivesUp, Closed, Forced, service, state
<1> QED
  BY <1>t, <1>1, <1>2, <1>3, <1>4, <1>5, <1>6, <1>7, <1>8 DEF Next

\* A collection that begins reads the state as it is, and while it runs no other
\* writes it.
LEMMA ReadsStayCurrent ==
  ASSUME ServiceInv, [Next]_vars
  PROVE  ReadsCurrent'
<1> USE DEF ServiceInv, Bookkeeping, TypeOK
<1>1. CASE UNCHANGED <<runs, success>>
  BY <1>1 DEF ReadsCurrent
<1>2. CASE CollectBegins /\ ~flight
  <2>1. runs[0] = 0 /\ runs[1] = 0
    BY <1>2 DEF InProgress
  <2> QED
    BY <1>2, <2>1 DEF CollectBegins, ReadsCurrent, state
<1>3. CASE CollectionEnds
  <2> PICK r \in 0 .. 1 : /\ runs[r] > 0
                          /\ runs' = [runs EXCEPT ![r] = @ - 1]
    BY <1>3 DEF CollectionEnds
  <2>1. runs'[0] = 0 /\ runs'[1] = 0
    BY DEF InProgress
  <2> QED
    BY <2>1 DEF ReadsCurrent
<1>4. UNCHANGED <<runs, success>> \/ (CollectBegins /\ ~flight) \/ CollectionEnds
  <2>1. CASE ImmediateRuns
    BY <2>1, AtOnceChange DEF ImmediateRuns, CollectAtOnce, InFlight, state
  <2>2. CASE TimerFires
    BY <2>2, AtOnceChange DEF TimerFires, InFlight, state
  <2>3. CASE RefreshGivesUp \/ Signal \/ StopGivesUp \/ Closed \/ Forced
    BY <2>3 DEF RefreshGivesUp, Signal, StopGivesUp, Closed, Forced, service, state
  <2>4. CASE \E on \in BOOLEAN : Patch(on) \/ PatchRefused(on)
    BY <2>4 DEF Patch, PatchRefused, service, state
  <2>5. CASE UNCHANGED vars
    BY <2>5 DEF vars, service, state
  <2> QED
    BY <2>1, <2>2, <2>3, <2>4, <2>5 DEF Next
<1> QED
  BY <1>1, <1>2, <1>3, <1>4

\* The invariant holds in every reachable state, for every number of changes of
\* the settings.
THEOREM Invariance == Spec => []ServiceInv
<1>1. Init => ServiceInv
  <2>1. Init => \A r \in 0 .. 1 : runs[r] = 0
    BY DEF Init, Idle
  <2>2. Init => ReadsCurrent
    BY <2>1 DEF ReadsCurrent
  <2> QED
    BY <2>2, Initially DEF ServiceInv
<1>2. ServiceInv /\ [Next]_vars => ServiceInv'
  BY Preserved, ReadsStayCurrent DEF ServiceInv
<1> QED
  BY <1>1, <1>2, PTL DEF Spec

\* Collections never overlap and the event loop holds one timer at most, none
\* while the service is stopped (collectOnceSafe, scheduleNext, stop, refresh).
THEOREM SingleFlightTheorem == Spec => []SingleFlight
<1>1. ServiceInv => SingleFlight
  BY DEF ServiceInv, Bookkeeping, TypeOK, SingleFlight, InProgress
<1> QED
  BY <1>1, Invariance, PTL

\* The collector never dies silently: what is not stopped has a collection
\* running or pending, and only a refresh() keeps a running process's stopped.
THEOREM NeverStallsTheorem == Spec => []NeverStalls
<1>1. ServiceInv => NeverStalls
  BY DEF ServiceInv, Bookkeeping, TypeOK, NeverStalls, InProgress
<1> QED
  BY <1>1, Invariance, PTL

\* The time of the last successful collection is never wiped out: a collection
\* that fails writes back what is still there.
THEOREM SuccessTheorem == Spec => SuccessIsKept
<1>1. ServiceInv /\ [Next]_vars => [success' >= success]_vars
  <2> SUFFICES ASSUME ServiceInv, Next
               PROVE  success' >= success
    BY DEF ServiceInv, Bookkeeping, TypeOK, vars, service, state
  <2>0. success \in 0 .. 1
    BY DEF ServiceInv, Bookkeeping, TypeOK
  <2>1. CASE CollectionEnds
    <3> PICK r \in 0 .. 1 : runs[r] > 0 /\ Outcome(r)
      BY <2>1 DEF CollectionEnds
    <3>1. success = r
      BY DEF ServiceInv, ReadsCurrent
    <3> QED
      BY <2>0, <3>1, OutcomeChange DEF ServiceInv, Bookkeeping
  <2>2. CASE ImmediateRuns \/ TimerFires
    BY <2>0, <2>2, AtOnceChange DEF ImmediateRuns, TimerFires, CollectAtOnce, CollectBegins,
       state, ServiceInv, Bookkeeping
  <2>3. CASE RefreshGivesUp \/ Signal \/ StopGivesUp \/ Closed \/ Forced
    BY <2>0, <2>3 DEF RefreshGivesUp, Signal, StopGivesUp, Closed, Forced, service, state
  <2>4. CASE \E on \in BOOLEAN : Patch(on) \/ PatchRefused(on)
    BY <2>0, <2>4 DEF Patch, PatchRefused, service, state
  <2> QED
    BY <2>1, <2>2, <2>3, <2>4 DEF Next
<1> QED
  BY <1>1, Invariance, PTL DEF Spec, SuccessIsKept

=============================================================================
