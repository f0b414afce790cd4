------------------------------ MODULE NodeSync ------------------------------
(***************************************************************************)
(* The core of the node agent: POST /v1/sync and POST /v1/reload with the  *)
(* driver of the selected protocol (panel/server/index.js).                *)
(*                                                                         *)
(* A handler runs to completion before the next one starts: every call it  *)
(* makes is synchronous.  It is cut into one action per call that changes  *)
(* something outside the process, because each of those can fail and the   *)
(* process can die between any two of them.  A user list is an opaque      *)
(* Payload; equal lists have equal desired-state hashes.                   *)
(***************************************************************************)
EXTENDS Naturals

CONSTANTS
  Payload,    \* the user lists a request can carry
  Empty,      \* the list nobody can log in with (no user, or all disabled)
  Rejected,   \* lists the UNIQUE constraints of the users table refuse
  None,       \* no such file, no hash recorded
  Torn,       \* a file cut short by a crash in the middle of a write
  Down,       \* the proxy service runs no user list
  Unsettled,  \* see SyncContract
  Protocol,   \* cfg.protocolType
  Durable,    \* TRUE: users.db; FALSE: the in-memory fallback
  FaultKinds, \* the steps that may fail
  MaxVersion  \* bound on config_version

ASSUME EmptyAssumption == Empty \in Payload \ Rejected
ASSUME ValuesAssumption ==
  /\ \A x \in {None, Torn, Down, Unsettled} : x \notin Payload
  /\ None # Torn
ASSUME ProtocolAssumption == Protocol \in {"naive", "mieru"} /\ Durable \in BOOLEAN
ASSUME VersionAssumption == MaxVersion \in Nat

VARIABLES
  users,      \* the users cache
  file,       \* the user list in the Caddyfile or in mita-state.json
  running,    \* the user list the proxy service runs
  applied,    \* the applied-state file: version, hash, error
  pc,         \* the next step of the handler
  caller,     \* who called applySelectedProtocolConfig
  req,        \* the sync request being handled
  prevUsers,  \* the handler's previousUsers
  prevFile,   \* the driver's previous
  failed,     \* the outcome the handler is about to note and report
  reply,      \* the last answer: status, version
  faulted,    \* history: a step of the current request failed
  tainted     \* history: damage the agent has no record of

stores   == <<users, file, running, applied>>
snapshot == <<caller, req, prevUsers, prevFile, failed>>
history  == <<faulted, tainted>>
vars == <<stores, pc, snapshot, reply, history>>

Request == [version : 0 .. MaxVersion, payload : Payload]
NoRequest == [version |-> 0, payload |-> Empty]
Content == Payload \cup {None, Torn}

\* What the service runs once a list is applied: mita is stopped when there is
\* nobody to serve, caddy-naive keeps a placeholder credential.
Target(p) == IF Protocol = "mieru" /\ p \in {Empty, None, Torn} THEN Down
             ELSE IF p \in Payload THEN p ELSE Down

Steps == {"idle", "replace", "write", "validate", "perms", "quiesce", "activate",
          "discard", "restore", "reactivate", "record", "rollback", "note"}
Statuses == {"none", "refused", "stale", "uptodate", "ok", "apply_failed",
             "reloaded", "reload_failed", "error"}

TypeOK ==
  /\ users \in Payload
  /\ file \in Content
  /\ running \in Payload \cup {Down}
  /\ applied \in [version : 0 .. MaxVersion, hash : Payload \cup {None}, error : BOOLEAN]
  /\ pc \in Steps
  /\ caller \in {"none", "sync", "rollback", "reload"}
  /\ req \in Request
  /\ prevUsers \in Payload
  /\ prevFile \in Content
  /\ failed \in BOOLEAN
  /\ reply \in [status : Statuses, version : 0 .. MaxVersion]
  /\ faulted \in BOOLEAN
  /\ tainted \in BOOLEAN

\* A freshly installed node: nothing recorded, no user, and either the
\* placeholder configuration the installer wrote or none.
Init ==
  /\ users = Empty
  /\ file \in {None, Empty}
  /\ running = Target(file)
  /\ applied = [version |-> 0, hash |-> None, error |-> FALSE]
  /\ pc = "idle"
  /\ caller = "none"
  /\ req = NoRequest
  /\ prevUsers = Empty
  /\ prevFile = None
  /\ failed = FALSE
  /\ reply = [status |-> "none", version |-> 0]
  /\ faulted = FALSE
  /\ tainted = FALSE

-----------------------------------------------------------------------------
(* Control: how a handler and the driver it calls return.                  *)

\* The handler answers and its locals are gone.
Answer(status, v) ==
  /\ pc' = "idle"
  /\ reply' = [status |-> status, version |-> v]
  /\ caller' = "none"
  /\ req' = NoRequest
  /\ prevUsers' = Empty
  /\ prevFile' = None
  /\ failed' = FALSE

\* A step fails.  The second failure within one request hits the steps that
\* were to undo the first one.
Fault(kind) ==
  /\ kind \in FaultKinds
  /\ faulted' = TRUE
  /\ tainted' = (tainted \/ faulted)

\* applySelectedProtocolConfig returns ok.
ReturnOk ==
  /\ pc' = IF caller = "sync" THEN "record" ELSE "note"
  /\ prevFile' = None
  /\ UNCHANGED <<caller, req, prevUsers, failed, reply>>

\* applySelectedProtocolConfig returns not ok.  The catch block of /v1/sync
\* ignores what its own call returns.
ReturnFailed ==
  /\ pc' = IF caller = "sync" THEN "rollback" ELSE "note"
  /\ failed' = TRUE
  /\ prevFile' = None
  /\ UNCHANGED <<caller, req, prevUsers, reply>>

\* applySelectedProtocolConfig throws: both calls of /v1/sync catch it,
\* /v1/reload leaves it to Express and writes no last_error.
Throw ==
  \/ caller # "reload" /\ ReturnFailed
  \/ caller = "reload" /\ Answer("error", applied.version)

\* The handler goes on within the driver.
Goto(step) == pc' = step /\ UNCHANGED <<snapshot, reply>>

-----------------------------------------------------------------------------
(* POST /v1/sync up to its first effect.                                   *)

\* requireNodeAuth or validateSyncPayload turns the request away.
SyncRefuse ==
  /\ pc = "idle"
  /\ Answer("refused", applied.version)
  /\ UNCHANGED <<stores, history>>

SyncStale(r) ==
  /\ pc = "idle"
  /\ r.version < applied.version
  /\ Answer("stale", applied.version)
  /\ UNCHANGED <<stores, history>>

\* Slip: the hash alone decides that a request is known.
KnownByHash(r) == r.payload = applied.hash

Known(r) == r.version = applied.version /\ r.payload = applied.hash

SyncUpToDate(r) ==
  /\ pc = "idle"
  /\ Known(r)
  /\ Answer("uptodate", applied.version)
  /\ UNCHANGED <<stores, history>>

\* Slip: the stale_version check is missing.
SyncAcceptAnyVersion(r) ==
  /\ pc = "idle"
  /\ ~Known(r)
  /\ pc' = "replace"
  /\ caller' = "sync"
  /\ req' = r
  /\ prevUsers' = users
  /\ faulted' = FALSE
  /\ UNCHANGED <<stores, prevFile, failed, reply, tainted>>

SyncAccept(r) ==
  /\ pc = "idle"
  /\ r.version >= applied.version
  /\ ~Known(r)
  /\ pc' = "replace"
  /\ caller' = "sync"
  /\ req' = r
  /\ prevUsers' = users
  /\ faulted' = FALSE
  /\ UNCHANGED <<stores, prevFile, failed, reply, tainted>>

Reload ==
  /\ pc = "idle"
  /\ pc' = "write"
  /\ caller' = "reload"
  /\ faulted' = FALSE
  /\ UNCHANGED <<stores, req, prevUsers, prevFile, failed, reply, tainted>>

\* replaceUsersCache is one transaction: all of the list or none of it.
ReplaceUsers ==
  /\ pc = "replace"
  /\ req.payload \notin Rejected
  /\ users' = req.payload
  /\ Goto("write")
  /\ UNCHANGED <<file, running, applied, history>>

ReplaceUsersRefused ==
  /\ pc = "replace"
  /\ req.payload \in Rejected
  /\ ReturnFailed
  /\ UNCHANGED <<stores, history>>

ReplaceUsersFails ==
  /\ pc = "replace"
  /\ Fault("db")
  /\ ReturnFailed
  /\ UNCHANGED stores

-----------------------------------------------------------------------------
(* applySelectedProtocolConfig.                                            *)

\* Slip: the file is built from the users read before the cache was replaced.
WriteConfigFromSnapshot ==
  /\ pc = "write"
  /\ prevFile' = file
  /\ file' = prevUsers
  /\ pc' = IF Protocol = "naive" THEN "validate" ELSE "perms"
  /\ UNCHANGED <<users, running, applied, caller, req, prevUsers, failed, reply, history>>

\* Remember the previous file, build the new one from the users cache and
\* rename it into place.
WriteConfig ==
  /\ pc = "write"
  /\ prevFile' = file
  /\ file' = users
  /\ pc' = IF Protocol = "naive" THEN "validate" ELSE "perms"
  /\ UNCHANGED <<users, running, applied, caller, req, prevUsers, failed, reply, history>>

WriteConfigFails ==
  /\ pc = "write"
  /\ Fault("write")
  /\ Throw
  /\ UNCHANGED stores

\* caddy validate.
Validate ==
  /\ pc = "validate"
  /\ Goto("activate")
  /\ UNCHANGED <<stores, history>>

ValidateFails ==
  /\ pc = "validate"
  /\ Fault("validate")
  /\ IF prevFile = None THEN ReturnFailed ELSE Goto("discard")
  /\ UNCHANGED stores

\* Put the previous Caddyfile back; the service was never told of the new one.
Discard ==
  /\ pc = "discard"
  /\ file' = prevFile
  /\ ReturnFailed
  /\ UNCHANGED <<users, running, applied, history>>

DiscardFails ==
  /\ pc = "discard"
  /\ Fault("write")
  /\ Throw
  /\ UNCHANGED stores

\* mitaUserCount: a file that does not parse counts as no users.
HasUsers(f) == f \in Payload \ {Empty}

\* fixMieruStatePermissions.
FixPermissions ==
  /\ pc = "perms"
  /\ Goto(IF HasUsers(file) THEN "activate" ELSE "quiesce")
  /\ UNCHANGED <<stores, history>>

FixPermissionsFails ==
  /\ pc = "perms"
  /\ HasUsers(file)
  /\ Fault("perms")
  /\ IF prevFile = None THEN ReturnFailed ELSE Goto("restore")
  /\ UNCHANGED stores

\* Without users the failure is not "required": mita is left as it is and the
\* driver still returns ok.
FixPermissionsFailsIdle ==
  /\ pc = "perms"
  /\ ~HasUsers(file)
  /\ Fault("quiesce")
  /\ ReturnOk
  /\ UNCHANGED stores

\* stopMieruWhenNoUsers: the result of systemctl stop is not looked at.
Quiesce ==
  /\ pc = "quiesce"
  /\ running' = Down
  /\ ReturnOk
  /\ UNCHANGED <<users, file, applied, history>>

QuiesceFails ==
  /\ pc = "quiesce"
  /\ Fault("quiesce")
  /\ ReturnOk
  /\ UNCHANGED stores

\* reloadCaddy, or systemctl restart mita followed by is-active.
Activate ==
  /\ pc = "activate"
  /\ running' = Target(file)
  /\ ReturnOk
  /\ UNCHANGED <<users, file, applied, history>>

\* A reload or restart that reports failure may have left the old
\* configuration running, stopped the service, or (a timeout of the call, an
\* is-active asked too early) started the new one after all.
ActivateFails ==
  /\ pc = "activate"
  /\ Fault("activate")
  /\ running' \in {running, Target(file), Down}
  /\ IF prevFile = None THEN ReturnFailed ELSE Goto("restore")
  /\ UNCHANGED <<users, file, applied>>

\* ensureMitaJsonBootstrap cannot write the systemd drop-in.
BootstrapFails ==
  /\ pc = "activate"
  /\ Protocol = "mieru"
  /\ Fault("write")
  /\ Throw
  /\ UNCHANGED stores

\* Slip: the service is reloaded, but on the file that just failed.
RestoreNothing ==
  /\ pc = "restore"
  /\ Goto("reactivate")
  /\ UNCHANGED <<stores, history>>

Restore ==
  /\ pc = "restore"
  /\ file' = prevFile
  /\ Goto("reactivate")
  /\ UNCHANGED <<users, running, applied, history>>

\* naive swallows the exception, mieru does not.
RestoreFails ==
  /\ pc = "restore"
  /\ Fault("write")
  /\ IF Protocol = "naive" THEN ReturnFailed ELSE Throw
  /\ UNCHANGED stores

\* Apply what was put back; the result is ignored.
Reactivate ==
  /\ pc = "reactivate"
  /\ running' = Target(file)
  /\ ReturnFailed
  /\ UNCHANGED <<users, file, applied, history>>

ReactivateFails ==
  /\ pc = "reactivate"
  /\ Fault("activate")
  /\ running' \in {running, Target(file), Down}
  /\ ReturnFailed
  /\ UNCHANGED <<users, file, applied>>

-----------------------------------------------------------------------------
(* The ends of the handlers.                                               *)

\* Slip: the next version is recorded instead of the received one.
RecordOffByOne ==
  /\ pc = "record"
  /\ applied' = [version |-> req.version + 1, hash |-> req.payload, error |-> FALSE]
  /\ Answer("ok", req.version)
  /\ tainted' = faulted
  /\ UNCHANGED <<users, file, running, faulted>>

\* writeAppliedState with the received version and hash, and the 200.
Record ==
  /\ pc = "record"
  /\ applied' = [version |-> req.version, hash |-> req.payload, error |-> FALSE]
  /\ Answer("ok", req.version)
  /\ tainted' = faulted
  /\ UNCHANGED <<users, file, running, faulted>>

RecordFails ==
  /\ pc = "record"
  /\ Fault("record")
  /\ ReturnFailed
  /\ UNCHANGED stores

\* Slip: the catch block applies the driver but keeps the new users.
RollbackKeepsUsers ==
  /\ pc = "rollback"
  /\ pc' = "write"
  /\ caller' = "rollback"
  /\ UNCHANGED <<stores, req, prevUsers, prevFile, failed, reply, history>>

\* Slip: the catch block brings the users back but not the driver.
RollbackWithoutDriver ==
  /\ pc = "rollback"
  /\ users' = prevUsers
  /\ pc' = "note"
  /\ caller' = "rollback"
  /\ UNCHANGED <<file, running, applied, req, prevUsers, prevFile, failed, reply, history>>

\* The catch block of /v1/sync: previous users back, then the driver again.
Rollback ==
  /\ pc = "rollback"
  /\ users' = prevUsers
  /\ pc' = "write"
  /\ caller' = "rollback"
  /\ UNCHANGED <<file, running, applied, req, prevUsers, prevFile, failed, reply, history>>

RollbackFails ==
  /\ pc = "rollback"
  /\ Fault("db")
  /\ pc' = "note"
  /\ caller' = "rollback"
  /\ UNCHANGED <<stores, req, prevUsers, prevFile, failed, reply>>

\* writeAppliedState({last_error}) merges into the state on disk.
Note ==
  /\ pc = "note"
  /\ applied' = [applied EXCEPT !.error = failed]
  /\ Answer(IF caller = "rollback" THEN "apply_failed"
            ELSE IF failed THEN "reload_failed" ELSE "reloaded", applied.version)
  /\ UNCHANGED <<users, file, running, history>>

NoteFails ==
  /\ pc = "note"
  /\ Fault("record")
  /\ Answer("error", applied.version)
  /\ UNCHANGED stores

-----------------------------------------------------------------------------
(* The process and the machine.                                            *)

\* The list recorded as applied, and what each store holds when it holds that:
\* before the first sync there may be no file and no service yet.
Wanted == IF applied.hash = None THEN Empty ELSE applied.hash
FileAsWanted(f) == f = Wanted \/ (f = None /\ applied.hash = None)
RunningAsWanted(x) == x = Target(Wanted) \/ (x = Down /\ applied.hash = None)
AsRecorded == users = Wanted /\ FileAsWanted(file) /\ RunningAsWanted(running)

\* Where a death of the process can leave the stores apart from what is
\* recorded: once a sync has replaced the users and until it has settled, and
\* in a reload once a step of it failed.
Exposed == /\ pc \notin {"idle", "replace", "note"}
           /\ caller = "reload" => faulted

\* The process dies and is started again.  Nothing is re-applied at startup;
\* the in-memory fallback comes back empty; mieru's restore is not atomic.
Crash ==
  /\ users' = IF Durable THEN users ELSE Empty
  /\ file' \in IF pc = "restore" /\ Protocol = "mieru" THEN {file, Torn} ELSE {file}
  /\ tainted' = (tainted \/ Exposed \/ users' # users)
  /\ Answer("none", 0)
  /\ UNCHANGED <<running, applied, faulted>>

\* The machine restarts: systemd starts the service on the file it finds,
\* which nobody vouches for unless the agent was settled.
Reboot ==
  /\ pc = "idle"
  /\ users' = IF Durable THEN users ELSE Empty
  /\ running' \in {Target(file)} \cup (IF tainted THEN {Down} ELSE {})
  /\ tainted' = (tainted \/ users' # users)
  /\ Answer("none", 0)
  /\ UNCHANGED <<file, applied, faulted>>

\* The steps of a handler that work, the ones that fail, what arrives from
\* outside, and what stops the process.
Work ==
  \/ ReplaceUsers \/ ReplaceUsersRefused \/ WriteConfig \/ Validate \/ Discard
  \/ FixPermissions \/ Quiesce \/ Activate \/ Restore \/ Reactivate
  \/ Record \/ Rollback \/ Note

Failure ==
  \/ ReplaceUsersFails \/ WriteConfigFails \/ ValidateFails \/ DiscardFails
  \/ FixPermissionsFails \/ FixPermissionsFailsIdle \/ QuiesceFails
  \/ ActivateFails \/ BootstrapFails \/ RestoreFails \/ ReactivateFails
  \/ RecordFails \/ RollbackFails \/ NoteFails

Sync(r) == SyncStale(r) \/ SyncUpToDate(r) \/ SyncAccept(r)

Next ==
  \/ Work
  \/ Failure
  \/ \E r \in Request : Sync(r)
  \/ SyncRefuse
  \/ Reload
  \/ Crash
  \/ Reboot

Spec == Init /\ [][Next]_vars

-----------------------------------------------------------------------------
(* Properties.                                                             *)

\* Whenever no request is being handled and the node is not damaged, the users
\* cache, the configuration file and the proxy service all hold the user list
\* recorded in the applied-state file: a sync or a reload in which any single
\* step fails leaves nothing behind (the catch block of /v1/sync and the
\* restores of applySelectedProtocolConfig).
SettledServesRecorded == pc = "idle" /\ ~tainted => AsRecorded

\* A version and a hash are recorded only at a moment when the cache, the file
\* and the service hold that very list, whatever earlier crashes and failures
\* left behind, unless a step of the request failed without being reported.
RecordOnlyServed ==
  [][applied'.hash # applied.hash \/ applied'.version # applied.version =>
       faulted \/ (/\ users' = applied'.hash
                   /\ file' = applied'.hash
                   /\ running' = Target(applied'.hash))]_vars

\* The recorded version never goes back, and no other list replaces the recorded
\* one under an older version: no late, repeated or reordered request, reload,
\* rollback or crash undoes a newer sync.
VersionNeverGoesBack ==
  [][applied'.version >= applied.version]_vars

\* When one step of the driver fails, the file and the service are back to what
\* they were by the time the driver returns, before the catch block of /v1/sync
\* gets to work: a death of the process there still finds the old service.
DriverRestores ==
  [][(pc \in {"discard", "reactivate"} /\ pc' \in {"rollback", "note"} /\ ~tainted') =>
       FileAsWanted(file') /\ RunningAsWanted(running')]_vars

\* The list all layers of the node agree on, None when they do not agree.
Served ==
  IF /\ file = users \/ (file = None /\ applied.hash = None)
     /\ running = Target(users) \/ (running = Down /\ applied.hash = None)
  THEN users ELSE None

\* The node implements the contract: a request commits or leaves no trace.
Contract == INSTANCE SyncContract WITH
  version <- applied.version,
  wanted  <- Wanted,
  served  <- IF pc = "idle" /\ ~tainted THEN Served ELSE Unsettled
ContractSpec == Contract!Spec

-----------------------------------------------------------------------------
(* The inductive invariant behind them (proved in NodeSyncProofs).         *)

Driver == {"validate", "perms", "quiesce", "activate"}  \* the new file is in place
Undo   == {"discard", "restore", "reactivate"}          \* the old one is coming back

\* Who can be where.
Control ==
  /\ pc = "idle" <=> caller = "none"
  /\ pc \in {"replace", "record", "rollback"} => caller = "sync"
  /\ pc = "note" => caller # "sync"
  /\ pc \in {"perms", "quiesce"} => Protocol = "mieru"
  /\ pc = "quiesce" => ~HasUsers(file)
  /\ pc \in Undo => faulted /\ prevFile # None
  /\ caller = "sync" => req.version >= applied.version

\* How far the list of a sync request has got, whatever happened before it.
Progress ==
  caller = "sync" =>
    /\ pc \in Driver \cup {"write", "record"} => users = req.payload
    /\ pc \in Driver \cup {"record"} => file = req.payload
    /\ pc = "record" /\ ~faulted => running = Target(req.payload)

\* An undamaged node never loses sight of the recorded list: while the stores
\* are on their way to the new list, prevUsers and prevFile hold the old one.
Recoverable ==
  ~tainted =>
    /\ pc \in {"idle", "replace", "note"} => AsRecorded
    /\ caller = "sync" =>
         /\ prevUsers = Wanted
         /\ pc \in Driver \cup {"replace", "write"} => ~faulted
         /\ pc = "write" => FileAsWanted(file) /\ RunningAsWanted(running)
         /\ pc \in Driver => FileAsWanted(prevFile) /\ RunningAsWanted(running)
         /\ pc = "rollback" /\ ~faulted => AsRecorded
    /\ caller \in {"rollback", "reload"} =>
         /\ users = Wanted
         /\ pc = "write" /\ ~faulted => AsRecorded
         /\ pc \in Driver => file = Wanted
         /\ pc \in Driver /\ ~faulted => FileAsWanted(prevFile) /\ RunningAsWanted(running)
    /\ pc \in Undo => FileAsWanted(prevFile)
    /\ pc = "discard" => RunningAsWanted(running)
    /\ pc = "reactivate" => FileAsWanted(file) /\ file # None

Inv == TypeOK /\ Control /\ Progress /\ Recoverable

=============================================================================
