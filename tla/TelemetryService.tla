-------------------------- MODULE TelemetryService --------------------------
(***************************************************************************)
(* The life of the telemetry collector (telemetry/service.js) and of the   *)
(* process around it: start, the timer, collections that overlap with      *)
(* changes of the settings, refresh (stop, then start again), and the      *)
(* graceful shutdown of shutdown.js.                                       *)
(*                                                                         *)
(* Everything runs on one event loop.  An action is one turn of it: what a *)
(* callback does, and what the promises it settles let others do, up to    *)
(* the next await of all of them.                                          *)
(***************************************************************************)
EXTENDS Integers

CONSTANTS
  MaxPatches,  \* bound on changes of the telemetry settings
  MaxFailures  \* bound on failing writes of the collector state

ASSUME PatchAssumption == MaxPatches \in Nat /\ MaxFailures \in Nat

VARIABLES
  storage,     \* storageReady
  enabled,     \* cfg.telemetryEnabled
  stopped,     \* the service's stopped
  timer,       \* its timer: none, armed, or one that has fired
  armed,       \* the timeouts the event loop holds
  immediates,  \* the callbacks of start() that have not run yet
  flight,      \* inFlightPromise is set
  runs,        \* by what they read of it, the collections in progress
  refreshing,  \* the refresh() calls that wait for a collection to end
  recorded,    \* the database has a row with the collector state
  status,      \* the collector state that is read: the row, or else memory
  success,     \* its last_successful_collection_at: 0 for none, 1 for a time
  failures,    \* failing writes of it so far
  stage,       \* of shutdown()
  code,        \* the exit code
  patches      \* changes of the settings so far

service == <<stopped, timer, armed, immediates, flight, runs, refreshing>>
state == <<recorded, status, success, failures>>
process == <<stage, code>>
vars == <<storage, enabled, service, state, process, patches>>

Idle == [read \in 0 .. 1 |-> 0]
InProgress == runs[0] + runs[1]
Statuses == {"ok", "partial", "unavailable", "disabled"}

\* A row of an earlier process may be there.
Init ==
  /\ storage \in BOOLEAN
  /\ enabled \in BOOLEAN
  /\ stopped = FALSE
  /\ timer = "none"
  /\ armed = 0
  /\ immediates = 1
  /\ flight = FALSE
  /\ runs = Idle
  /\ refreshing = 0
  /\ recorded \in BOOLEAN /\ (recorded => storage)
  /\ status \in IF recorded THEN Statuses ELSE {IF enabled THEN "unavailable" ELSE "disabled"}
  /\ success \in IF recorded THEN 0 .. 1 ELSE {0}
  /\ status = "ok" => success = 1
  /\ failures = 0
  /\ stage = "running"
  /\ code = -1
  /\ patches = 0

Alive == stage # "exited"

-----------------------------------------------------------------------------
(* Scheduling.                                                             *)

\* clearTimeout of the timer the service knows of, with n other timeouts left.
Others == IF timer = "armed" THEN armed - 1 ELSE armed

\* Slip: the old timer is forgotten and not cleared.
ScheduleAnother == timer' = "armed" /\ armed' = armed + 1

\* scheduleNext: at most one timer.
Schedule == timer' = "armed" /\ armed' = Others + 1

ClearTimer == timer' = "none" /\ armed' = Others

\* start(), n times over in one turn.
Starts(n) ==
  /\ stopped' = FALSE
  /\ ClearTimer
  /\ immediates' = immediates + n

\* safePersistCollectorState: a write that fails leaves the row, which is read on;
\* without a row, memory is read.
Persist(s, t) ==
  \/ /\ status' = s /\ success' = t
     /\ recorded' = storage
     /\ UNCHANGED failures
  \/ /\ storage
     /\ failures < MaxFailures
     /\ failures' = failures + 1
     /\ IF recorded THEN UNCHANGED <<status, success>> ELSE status' = s /\ success' = t
     /\ UNCHANGED recorded

\* Slip: a collection does not ask whether telemetry is enabled.
AtOnceWithoutStorage == ~storage

\* A collection that has nothing to wait for: without storage, or disabled.
\* It persists its state and ends in the turn it began.
AtOnce == ~storage \/ ~enabled

PersistAtOnce ==
  /\ Persist(IF ~storage THEN "unavailable" ELSE "disabled", success)
  /\ UNCHANGED <<flight, runs>>

CollectAtOnce ==
  /\ PersistAtOnce
  /\ IF stopped THEN ClearTimer ELSE Schedule

\* collectOnceSafe when nothing is in flight: up to the first await.
CollectBegins ==
  /\ flight' = TRUE
  /\ runs' = [runs EXCEPT ![success] = @ + 1]
  /\ UNCHANGED state

\* Slip: overlapping collections are not prevented.
NeverInFlight == FALSE

InFlight == flight

\* The setImmediate callback of start().
ImmediateRuns ==
  /\ Alive
  /\ immediates > 0
  /\ immediates' = immediates - 1
  /\ \/ /\ stopped \/ InFlight
        /\ UNCHANGED <<state, flight, runs, timer, armed>>
     \/ /\ ~stopped /\ ~InFlight /\ AtOnce
        /\ CollectAtOnce
     \/ /\ ~stopped /\ ~InFlight /\ ~AtOnce
        /\ CollectBegins
        /\ UNCHANGED <<timer, armed>>
  /\ UNCHANGED <<storage, enabled, stopped, refreshing, process, patches>>

TimerFires ==
  /\ Alive
  /\ armed > 0
  /\ \/ /\ InFlight
        /\ timer' = "fired" /\ armed' = armed - 1
        /\ UNCHANGED <<state, flight, runs>>
     \/ /\ ~InFlight /\ AtOnce
        /\ PersistAtOnce
        /\ IF stopped THEN timer' = "fired" /\ armed' = armed - 1
           ELSE timer' = "armed" /\ armed' = armed
     \/ /\ ~InFlight /\ ~AtOnce
        /\ timer' = "fired" /\ armed' = armed - 1
        /\ CollectBegins
  /\ UNCHANGED <<storage, enabled, stopped, immediates, refreshing, process, patches>>

-----------------------------------------------------------------------------
(* The end of a collection, and of the calls that wait for it.             *)

\* Slip: refresh() leaves the service stopped when it had to wait.
RefreshForgetsStart ==
  /\ refreshing' = 0
  /\ IF stopped THEN ClearTimer ELSE Schedule
  /\ UNCHANGED <<stopped, immediates>>

\* The finally block of collectOnceSafe, then start() for every refresh() that
\* waited: start() clears the timer the finally block may just have set.
AfterCollection ==
  /\ refreshing' = 0
  /\ IF refreshing > 0
     THEN Starts(refreshing)
     ELSE /\ IF stopped THEN ClearTimer ELSE Schedule
          /\ UNCHANGED <<stopped, immediates>>

\* What a collection that had read r persists: one that failed, or brought
\* nothing of use, keeps what it read, an unexpected exception what is there now.
Outcome(r) ==
  \/ \E s \in {"ok", "partial"} : Persist(s, 1)
  \/ \E s \in {"partial", "unavailable"} : Persist(s, r)
  \/ Persist("unavailable", success)

\* The shutdown's own stop() returns as well and server.close() is called.
CollectionEnds ==
  /\ Alive
  /\ \E r \in 0 .. 1 :
       /\ runs[r] > 0
       /\ runs' = [runs EXCEPT ![r] = @ - 1]
       /\ Outcome(r)
  /\ flight' = FALSE
  /\ AfterCollection
  /\ stage' = IF stage = "stopping" THEN "closing" ELSE stage
  /\ UNCHANGED <<storage, enabled, code, patches>>

\* stop() gives up waiting (timeoutMs) and refresh() goes on to start().
RefreshGivesUp ==
  /\ Alive
  /\ refreshing > 0
  /\ refreshing' = refreshing - 1
  /\ Starts(1)
  /\ UNCHANGED <<storage, enabled, flight, runs, state, process, patches>>

\* A PATCH of the settings that changes something for telemetry: refresh().  A
\* connection that is still open can send one after server.close() as well.
Patch(on) ==
  /\ Alive
  /\ patches < MaxPatches
  /\ patches' = patches + 1
  /\ enabled' = on
  /\ IF flight
     THEN /\ stopped' = TRUE
          /\ ClearTimer
          /\ refreshing' = refreshing + 1
          /\ UNCHANGED immediates
     ELSE Starts(1) /\ UNCHANGED refreshing
  /\ UNCHANGED <<storage, flight, runs, state, process>>

\* A PATCH with a bad field after telemetryEnabled: the request is refused, the
\* switch stays turned, and nobody refreshes.
PatchRefused(on) ==
  /\ Alive
  /\ patches < MaxPatches
  /\ patches' = patches + 1
  /\ enabled' = on
  /\ UNCHANGED <<storage, service, state, process>>

-----------------------------------------------------------------------------
(* shutdown().                                                             *)

\* The first SIGTERM or SIGINT; the ones after it get the same promise.
Signal ==
  /\ stage = "running"
  /\ stage' = IF flight THEN "stopping" ELSE "closing"
  /\ stopped' = TRUE
  /\ ClearTimer
  /\ UNCHANGED <<storage, enabled, immediates, flight, runs, refreshing, state, code, patches>>

StopGivesUp ==
  /\ stage = "stopping"
  /\ stage' = "closing"
  /\ UNCHANGED <<storage, enabled, service, state, code, patches>>

\* server.close() calls back once every connection has ended, if they do.
Closed ==
  /\ stage = "closing"
  /\ stage' = "exited"
  /\ code' = 0
  /\ UNCHANGED <<storage, enabled, service, state, patches>>

\* Slip: the forced exit only guards the wait for telemetry.
ForcedWhileStopping ==
  /\ stage = "stopping"
  /\ stage' = "exited"
  /\ code' = 1
  /\ UNCHANGED <<storage, enabled, service, state, patches>>

\* server.close() fails, or the timer of shutdown() forces the exit.
Forced ==
  /\ stage \in {"stopping", "closing"}
  /\ stage' = "exited"
  /\ code' = 1
  /\ UNCHANGED <<storage, enabled, service, state, patches>>

Next ==
  \/ ImmediateRuns
  \/ TimerFires
  \/ CollectionEnds
  \/ RefreshGivesUp
  \/ \E on \in BOOLEAN : Patch(on) \/ PatchRefused(on)
  \/ Signal
  \/ StopGivesUp
  \/ Closed
  \/ Forced

Spec == Init /\ [][Next]_vars

\* The event loop runs what is due: callbacks, timers, and the collectors,
\* whose commands and reads have timeouts of their own.  A connection may stay
\* open for ever, so server.close() may never call back.
FairSpec ==
  /\ Spec
  /\ WF_vars(ImmediateRuns)
  /\ WF_vars(TimerFires)
  /\ WF_vars(CollectionEnds)
  /\ WF_vars(Forced)

-----------------------------------------------------------------------------
(* Properties.                                                             *)

TypeOK ==
  /\ storage \in BOOLEAN /\ enabled \in BOOLEAN /\ stopped \in BOOLEAN
  /\ timer \in {"none", "armed", "fired"}
  /\ armed \in Nat /\ immediates \in Nat /\ refreshing \in Nat
  /\ flight \in BOOLEAN
  /\ runs \in [0 .. 1 -> Nat]
  /\ recorded \in BOOLEAN /\ status \in Statuses /\ success \in 0 .. 1
  /\ failures \in 0 .. MaxFailures
  /\ stage \in {"running", "stopping", "closing", "exited"}
  /\ code \in {-1, 0, 1}
  /\ patches \in 0 .. MaxPatches

\* Collections never overlap, whatever refreshes, timeouts of refreshes and
\* leftover callbacks of start() come together (one mita command at a time, one
\* reader of a checkpoint at a time), and the event loop holds one timer of
\* the service at most, none while it is stopped.
SingleFlight ==
  /\ InProgress <= 1
  /\ armed <= 1
  /\ stopped => armed = 0

\* The collector never dies silently: unless it was told to stop, a collection
\* is running or something is pending that will begin one; and while the
\* process is not shutting down, only a refresh() that is still waiting keeps
\* it stopped.
NeverStalls ==
  /\ ~stopped => InProgress > 0 \/ armed > 0 \/ immediates > 0
  /\ stopped /\ stage = "running" => refreshing > 0 /\ InProgress > 0

\* A failed collection does not wipe out the time of the last successful one
\* that it read before it began to wait, nor does one whose result could not be
\* written.
SuccessIsKept ==
  [][success' >= success]_vars

\* Once the settings stay as they are and writes succeed, telemetry that was
\* switched off is reported as off, although a collection begun before may end
\* after, and also when the change came with a request that was refused.
OffIsReported ==
  <>[](Alive /\ storage /\ ~enabled => status = "disabled")

\* A process told to shut down exits, with connections that never end too.
Exits ==
  stage \in {"stopping", "closing"} ~> stage = "exited"

\* inFlightPromise is set exactly while a collection runs, the service knows of
\* every timeout the event loop holds, and a refresh() waits only for a
\* collection that is running.
Bookkeeping ==
  /\ TypeOK
  /\ InProgress = IF flight THEN 1 ELSE 0
  /\ armed = IF timer = "armed" THEN 1 ELSE 0
  /\ stopped => timer # "armed"
  /\ refreshing > 0 => flight
  /\ stopped /\ stage = "running" => refreshing > 0
  /\ ~stopped => flight \/ timer = "armed" \/ immediates > 0

\* What a collection has read of the collector state is still what is there.
ReadsCurrent == \A r \in 0 .. 1 : runs[r] > 0 => success = r

\* The inductive invariant behind SingleFlight, NeverStalls and SuccessIsKept
\* (proved in TelemetryServiceProofs).
ServiceInv == Bookkeeping /\ ReadsCurrent

=============================================================================
