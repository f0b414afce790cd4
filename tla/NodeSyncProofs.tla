--------------------------- MODULE NodeSyncProofs ---------------------------
(***************************************************************************)
(* What TLC checks of NodeSync on a small instance, proved for every set   *)
(* of user lists, every driver, every set of failing steps and every bound *)
(* on versions.                                                            *)
(***************************************************************************)
EXTENDS NodeSync, TLAPS

LEMMA TargetType == ASSUME NEW p PROVE Target(p) \in Payload \cup {Down}
BY DEF Target

(***************************************************************************)
(* Type correctness.  Every action is covered by one step; Request is used *)
(* only through the types of its fields.                                   *)
(***************************************************************************)
LEMMA InitType == Init => TypeOK
<1> SUFFICES ASSUME Init PROVE TypeOK
  OBVIOUS
<1>1. Empty \in Payload /\ 0 \in 0 .. MaxVersion
  BY EmptyAssumption, VersionAssumption
<1>2. running \in Payload \cup {Down}
  BY TargetType DEF Init
<1> QED
  BY <1>1, <1>2 DEF Init, TypeOK, Content, Steps, Request, NoRequest, Statuses

LEMMA AnswerType ==
  ASSUME TypeOK, NEW status \in Statuses, NEW v \in 0 .. MaxVersion, Answer(status, v)
  PROVE  /\ pc' \in Steps
         /\ caller' \in {"none", "sync", "rollback", "reload"}
         /\ req' \in Request
         /\ prevUsers' \in Payload
         /\ prevFile' \in Content
         /\ failed' \in BOOLEAN
         /\ reply' \in [status : Statuses, version : 0 .. MaxVersion]
<1>1. Empty \in Payload /\ 0 \in 0 .. MaxVersion
  BY EmptyAssumption, VersionAssumption
<1> QED
  BY <1>1 DEF Answer, Steps, Request, NoRequest, Content

LEMMA TypeStep == TypeOK /\ [Next]_vars => TypeOK'
<1> SUFFICES ASSUME TypeOK, [Next]_vars PROVE TypeOK'
  OBVIOUS
<1> USE DEF TypeOK, stores, snapshot, history, Steps, Content, Statuses
<1>1. ASSUME Work PROVE TypeOK'
  <2> USE AnswerType, TargetType DEF Goto, ReturnOk, ReturnFailed
  <2>1. ASSUME ReplaceUsers PROVE TypeOK'
    BY <2>1 DEF ReplaceUsers, Request
  <2>2. ASSUME ReplaceUsersRefused PROVE TypeOK'
    BY <2>2 DEF ReplaceUsersRefused
  <2>3. ASSUME WriteConfig PROVE TypeOK'
    BY <2>3 DEF WriteConfig
  <2>4. ASSUME Validate PROVE TypeOK'
    BY <2>4 DEF Validate
  <2>5. ASSUME Discard PROVE TypeOK'
    BY <2>5 DEF Discard
  <2>6. ASSUME FixPermissions PROVE TypeOK'
    BY <2>6 DEF FixPermissions
  <2>7. ASSUME Quiesce PROVE TypeOK'
    BY <2>7 DEF Quiesce
  <2>8. ASSUME Activate PROVE TypeOK'
    BY <2>8 DEF Activate
  <2>9. ASSUME Restore PROVE TypeOK'
    BY <2>9 DEF Restore
  <2>10. ASSUME Reactivate PROVE TypeOK'
    BY <2>10 DEF Reactivate
  <2>11. ASSUME Record PROVE TypeOK'
    BY <2>11 DEF Record, Request
  <2>12. ASSUME Rollback PROVE TypeOK'
    BY <2>12 DEF Rollback
  <2>13. ASSUME Note PROVE TypeOK'
    BY <2>13 DEF Note
  <2>14. QED
    BY <1>1, <2>1, <2>2, <2>3, <2>4, <2>5, <2>6, <2>7, <2>8, <2>9, <2>10,
       <2>11, <2>12, <2>13 DEF Work
<1>2. ASSUME Failure PROVE TypeOK'
  <2> USE AnswerType, TargetType
        DEF Goto, ReturnOk, ReturnFailed, Throw, Fault
  <2>1. ASSUME ReplaceUsersFails PROVE TypeOK'
    BY <2>1 DEF ReplaceUsersFails
  <2>2. ASSUME WriteConfigFails PROVE TypeOK'
    BY <2>2 DEF WriteConfigFails
  <2>3. ASSUME ValidateFails PROVE TypeOK'
    BY <2>3 DEF ValidateFails
  <2>4. ASSUME DiscardFails PROVE TypeOK'
    BY <2>4 DEF DiscardFails
  <2>5. ASSUME FixPermissionsFails PROVE TypeOK'
    BY <2>5 DEF FixPermissionsFails
  <2>6. ASSUME FixPermissionsFailsIdle PROVE TypeOK'
    BY <2>6 DEF FixPermissionsFailsIdle
  <2>7. ASSUME QuiesceFails PROVE TypeOK'
    BY <2>7 DEF QuiesceFails
  <2>8. ASSUME ActivateFails PROVE TypeOK'
    BY <2>8 DEF ActivateFails
  <2>9. ASSUME BootstrapFails PROVE TypeOK'
    BY <2>9 DEF BootstrapFails
  <2>10. ASSUME RestoreFails PROVE TypeOK'
    BY <2>10 DEF RestoreFails
  <2>11. ASSUME ReactivateFails PROVE TypeOK'
    BY <2>11 DEF ReactivateFails
  <2>12. ASSUME RecordFails PROVE TypeOK'
    BY <2>12 DEF RecordFails
  <2>13. ASSUME RollbackFails PROVE TypeOK'
    BY <2>13 DEF RollbackFails
  <2>14. ASSUME NoteFails PROVE TypeOK'
    BY <2>14 DEF NoteFails
  <2>15. QED
    BY <1>2, <2>1, <2>2, <2>3, <2>4, <2>5, <2>6, <2>7, <2>8, <2>9, <2>10,
       <2>11, <2>12, <2>13, <2>14 DEF Failure
<1>3. ASSUME NEW r \in Request, Sync(r) PROVE TypeOK'
  BY <1>3, AnswerType DEF Sync, SyncStale, SyncUpToDate, SyncAccept
<1>4. ASSUME SyncRefuse PROVE TypeOK'
  BY <1>4, AnswerType DEF SyncRefuse
<1>5. ASSUME Reload PROVE TypeOK'
  BY <1>5 DEF Reload
<1>6. ASSUME Crash PROVE TypeOK'
  BY <1>6, AnswerType, EmptyAssumption, VersionAssumption DEF Crash
<1>7. ASSUME Reboot PROVE TypeOK'
  BY <1>7, AnswerType, TargetType, EmptyAssumption, VersionAssumption DEF
     Reboot
<1>8. CASE UNCHANGED vars
  BY <1>8 DEF vars
<1>9. QED
  BY <1>1, <1>2, <1>3, <1>4, <1>5, <1>6, <1>7, <1>8 DEF Next

\* Every variable keeps its type: TLC checks it in the runs of NodeSync.
THEOREM TypeCorrect == Spec => []TypeOK
BY InitType, TypeStep, PTL DEF Spec

(***************************************************************************)
(* The inductive invariant.  Recoverable is what the argument turns on: as *)
(* long as the node is not damaged, some snapshot of the handler still     *)
(* holds the recorded list whenever a store has left it.                   *)
(***************************************************************************)
LEMMA NoneIsNoList == None \notin Payload /\ Down \notin Payload /\ Torn # None
BY ValuesAssumption

LEMMA InitInv == Init => Inv
<1> SUFFICES ASSUME Init PROVE Inv
  OBVIOUS
<1>1. TypeOK
  BY InitType
<1>2. Control /\ Progress /\ Recoverable
  BY NoneIsNoList DEF Init, Control, Progress, Recoverable, AsRecorded, FileAsWanted,
     RunningAsWanted, Wanted, Driver, Undo, Target
<1> QED
  BY <1>1, <1>2 DEF Inv

LEMMA InvStep == Inv /\ [Next]_vars => Inv'
<1> SUFFICES ASSUME Inv, [Next]_vars PROVE Inv'
  OBVIOUS
<1>0. TypeOK'
  BY TypeStep DEF Inv
<1> USE <1>0 DEF Inv, Control, Progress, Recoverable, AsRecorded, FileAsWanted, RunningAsWanted, Wanted, Driver, Undo, stores, snapshot, history
<1>1. ASSUME Work PROVE Inv'
  <2> USE NoneIsNoList DEF TypeOK, Goto, ReturnOk, ReturnFailed, Answer
  <2>1. ASSUME ReplaceUsers PROVE Inv'
    BY <2>1 DEF ReplaceUsers
  <2>2. ASSUME ReplaceUsersRefused PROVE Inv'
    BY <2>2 DEF ReplaceUsersRefused
  <2>3. ASSUME WriteConfig PROVE Inv'
    BY <2>3, ProtocolAssumption DEF WriteConfig
  <2>4. ASSUME Validate PROVE Inv'
    BY <2>4 DEF Validate
  <2>5. ASSUME Discard PROVE Inv'
    BY <2>5 DEF Discard
  <2>6. ASSUME FixPermissions PROVE Inv'
    BY <2>6, ProtocolAssumption DEF FixPermissions, HasUsers
  <2>7. ASSUME Quiesce PROVE Inv'
    BY <2>7 DEF Quiesce, HasUsers, Target
  <2>8. ASSUME Activate PROVE Inv'
    BY <2>8 DEF Activate
  <2>9. ASSUME Restore PROVE Inv'
    BY <2>9 DEF Restore
  <2>10. ASSUME Reactivate PROVE Inv'
    BY <2>10 DEF Reactivate
  <2>11. ASSUME Record PROVE Inv'
    BY <2>11 DEF Record
  <2>12. ASSUME Rollback PROVE Inv'
    BY <2>12 DEF Rollback
  <2>13. ASSUME Note PROVE Inv'
    BY <2>13 DEF Note
  <2>14. QED
    BY <1>1, <2>1, <2>2, <2>3, <2>4, <2>5, <2>6, <2>7, <2>8, <2>9, <2>10,
       <2>11, <2>12, <2>13 DEF Work
<1>2. ASSUME Failure PROVE Inv'
  <2> USE NoneIsNoList DEF TypeOK, Goto, ReturnOk, ReturnFailed, Answer, Throw, Fault
  <2>1. ASSUME ReplaceUsersFails PROVE Inv'
    BY <2>1 DEF ReplaceUsersFails
  <2>2. ASSUME WriteConfigFails PROVE Inv'
    BY <2>2 DEF WriteConfigFails
  <2>3. ASSUME ValidateFails PROVE Inv'
    BY <2>3 DEF ValidateFails
  <2>4. ASSUME DiscardFails PROVE Inv'
    BY <2>4 DEF DiscardFails
  <2>5. ASSUME FixPermissionsFails PROVE Inv'
    BY <2>5 DEF FixPermissionsFails
  <2>6. ASSUME FixPermissionsFailsIdle PROVE Inv'
    BY <2>6 DEF FixPermissionsFailsIdle
  <2>7. ASSUME QuiesceFails PROVE Inv'
    BY <2>7 DEF QuiesceFails
  <2>8. ASSUME ActivateFails PROVE Inv'
    BY <2>8 DEF ActivateFails
  <2>9. ASSUME BootstrapFails PROVE Inv'
    BY <2>9 DEF BootstrapFails
  <2>10. ASSUME RestoreFails PROVE Inv'
    BY <2>10 DEF RestoreFails
  <2>11. ASSUME ReactivateFails PROVE Inv'
    BY <2>11 DEF ReactivateFails
  <2>12. ASSUME RecordFails PROVE Inv'
    BY <2>12 DEF RecordFails
  <2>13. ASSUME RollbackFails PROVE Inv'
    BY <2>13 DEF RollbackFails
  <2>14. ASSUME NoteFails PROVE Inv'
    BY <2>14 DEF NoteFails
  <2>15. QED
    BY <1>2, <2>1, <2>2, <2>3, <2>4, <2>5, <2>6, <2>7, <2>8, <2>9, <2>10,
       <2>11, <2>12, <2>13, <2>14 DEF Failure
<1>3. ASSUME NEW r \in Request, Sync(r) PROVE Inv'
  BY <1>3 DEF Sync, SyncStale, SyncUpToDate, SyncAccept, Answer, Known, TypeOK
<1>4. ASSUME SyncRefuse PROVE Inv'
  BY <1>4 DEF SyncRefuse, Answer
<1>5. ASSUME Reload PROVE Inv'
  BY <1>5 DEF Reload
<1>6. ASSUME Crash PROVE Inv'
  BY <1>6, NoneIsNoList DEF Crash, Answer, Exposed, TypeOK, Steps
<1>7. ASSUME Reboot PROVE Inv'
  BY <1>7, NoneIsNoList DEF Reboot, Answer, Target, TypeOK
<1>8. CASE UNCHANGED vars
  BY <1>8 DEF vars
<1>9. QED
  BY <1>1, <1>2, <1>3, <1>4, <1>5, <1>6, <1>7, <1>8 DEF Next

\* The invariant holds in every reachable state of a node.
THEOREM Invariance == Spec => []Inv
BY InitInv, InvStep, PTL DEF Spec

(***************************************************************************)
(* The properties of NodeSync.                                             *)
(***************************************************************************)

\* A node that is idle and undamaged serves what it has recorded: every single
\* failing step of a sync or a reload is undone before the handler answers.
THEOREM SettledTheorem == Spec => []SettledServesRecorded
<1>1. Inv => SettledServesRecorded
  BY DEF Inv, Recoverable, SettledServesRecorded
<1> QED
  BY <1>1, Invariance, PTL

\* Only Record writes a version or a hash.
LEMMA AppliedChanges ==
  ASSUME [Next]_vars,
         applied'.hash # applied.hash \/ applied'.version # applied.version,
         TypeOK
  PROVE  Record
<1>1. CASE Work
  BY <1>1 DEF Work, ReplaceUsers, ReplaceUsersRefused, WriteConfig, Validate, Discard,
     FixPermissions, Quiesce, Activate, Restore, Reactivate, Rollback, Note, stores, TypeOK
<1>2. CASE Failure
  BY <1>2 DEF Failure, ReplaceUsersFails, WriteConfigFails, ValidateFails, DiscardFails,
     FixPermissionsFails, FixPermissionsFailsIdle, QuiesceFails, ActivateFails,
     BootstrapFails, RestoreFails, ReactivateFails, RecordFails, RollbackFails, NoteFails,
     stores
<1>3. CASE \E r \in Request : Sync(r)
  BY <1>3 DEF Sync, SyncStale, SyncUpToDate, SyncAccept, stores
<1>4. CASE SyncRefuse \/ Reload \/ Crash \/ Reboot \/ UNCHANGED vars
  BY <1>4 DEF SyncRefuse, Reload, Crash, Reboot, vars, stores
<1> QED
  BY <1>1, <1>2, <1>3, <1>4 DEF Next

\* A version and a hash are written only while cache, file and service hold
\* that list, unless a step of the request failed without being reported.
THEOREM RecordTheorem == Spec => RecordOnlyServed
<1>1. Inv /\ [Next]_vars =>
        [applied'.hash # applied.hash \/ applied'.version # applied.version =>
           faulted \/ (/\ users' = applied'.hash
                       /\ file' = applied'.hash
                       /\ running' = Target(applied'.hash))]_vars
  <2> SUFFICES ASSUME Inv, [Next]_vars,
                      applied'.hash # applied.hash \/ applied'.version # applied.version
               PROVE  faulted \/ (/\ users' = applied'.hash
                                  /\ file' = applied'.hash
                                  /\ running' = Target(applied'.hash))
    OBVIOUS
  <2>1. Record
    BY AppliedChanges DEF Inv
  <2> QED
    BY <2>1 DEF Record, Inv, Control, Progress, Driver
<1> QED
  BY <1>1, Invariance, PTL DEF Spec, RecordOnlyServed

\* The recorded version never decreases.
THEOREM VersionTheorem == Spec => VersionNeverGoesBack
<1>1. Inv /\ [Next]_vars => [applied'.version >= applied.version]_vars
  <2> SUFFICES ASSUME Inv, [Next]_vars PROVE applied'.version >= applied.version
    OBVIOUS
  <2>1. applied.version \in Nat
    BY VersionAssumption DEF Inv, TypeOK
  <2>2. CASE applied'.version # applied.version
    <3>1. Record
      BY <2>2, AppliedChanges DEF Inv
    <3> QED
      BY <3>1 DEF Record, Inv, Control
  <2> QED
    BY <2>1, <2>2
<1> QED
  BY <1>1, Invariance, PTL DEF Spec, VersionNeverGoesBack

\* The driver itself undoes a single failing step: file and service are back
\* before the catch block of /v1/sync starts.
THEOREM DriverTheorem == Spec => DriverRestores
<1>1. Inv /\ [Next]_vars =>
        [(pc \in {"discard", "reactivate"} /\ pc' \in {"rollback", "note"} /\ ~tainted') =>
           FileAsWanted(file') /\ RunningAsWanted(running')]_vars
  <2> SUFFICES ASSUME Inv, Next,
                      pc \in {"discard", "reactivate"}, pc' \in {"rollback", "note"},
                      ~tainted'
               PROVE  FileAsWanted(file') /\ RunningAsWanted(running')
    BY DEF vars
  <2>1. faulted /\ prevFile # None
    BY DEF Inv, Control, Undo
  <2>2. CASE Discard \/ Reactivate
    BY <2>2, <2>1 DEF Discard, Reactivate, Inv, Recoverable, Undo, FileAsWanted,
       RunningAsWanted, ReturnFailed, history
  <2>3. CASE DiscardFails \/ ReactivateFails
    BY <2>3, <2>1 DEF DiscardFails, ReactivateFails, Fault, Inv, TypeOK
  <2>4. Discard \/ Reactivate \/ DiscardFails \/ ReactivateFails
    BY DEF Next, Work, Failure, ReplaceUsers, ReplaceUsersRefused, WriteConfig, Validate,
       FixPermissions, Quiesce, Activate, Restore, Record, Rollback, Note,
       ReplaceUsersFails, WriteConfigFails, ValidateFails, FixPermissionsFails,
       FixPermissionsFailsIdle, QuiesceFails, ActivateFails, BootstrapFails, RestoreFails,
       RecordFails, RollbackFails, NoteFails, Sync, SyncStale, SyncUpToDate, SyncAccept,
       SyncRefuse, Reload, Crash, Reboot, Answer
  <2> QED
    BY <2>2, <2>3, <2>4
<1> QED
  BY <1>1, Invariance, PTL DEF Spec, DriverRestores

(***************************************************************************)
(* The refinement.  A node that leaves an undamaged idle state suspends    *)
(* its promise, a handler that answers resumes it or commits.              *)
(***************************************************************************)
LEMMA ServedAsRecorded ==
  ASSUME TypeOK, AsRecorded PROVE Served = Wanted
BY EmptyAssumption, NoneIsNoList
   DEF Served, AsRecorded, FileAsWanted, RunningAsWanted, Wanted, TypeOK

LEMMA ServedAsRecordedNext ==
  ASSUME TypeOK', AsRecorded' PROVE Served' = Wanted'
BY EmptyAssumption, NoneIsNoList
   DEF Served, AsRecorded, FileAsWanted, RunningAsWanted, Wanted, TypeOK

LEMMA ContractInit == Init => Contract!Init
<1> SUFFICES ASSUME Init PROVE Contract!Init
  OBVIOUS
<1>1. TypeOK /\ AsRecorded /\ Wanted = Empty
  BY InitInv DEF Inv, Recoverable, Init, Wanted
<1> QED
  BY <1>1, ServedAsRecorded DEF Init, Contract!Init

LEMMA ContractStep == Inv /\ Inv' /\ [Next]_vars => [Contract!Next]_(Contract!vars)
<1> SUFFICES ASSUME Inv, Inv', [Next]_vars PROVE [Contract!Next]_(Contract!vars)
  OBVIOUS
<1> DEFINE view == IF pc = "idle" /\ ~tainted THEN Wanted ELSE Unsettled
           seen == IF pc = "idle" /\ ~tainted THEN Served ELSE Unsettled
<1>1. seen = view
  BY ServedAsRecorded DEF Inv, Recoverable
<1>2. seen' = view'
  BY ServedAsRecordedNext DEF Inv, Recoverable
<1>3. CASE Record
  <2>1. seen = Unsettled
    BY <1>3 DEF Record
  <2>2. seen' \in {req.payload, Unsettled}
    BY <1>3, <1>2, NoneIsNoList DEF Record, Wanted, Inv, TypeOK, Request
  <2>3. Wanted' = req.payload
    BY <1>3, NoneIsNoList DEF Record, Wanted, Inv, TypeOK, Request
  <2>4. Contract!Commit(req.version, req.payload)
    BY <1>3, <2>1, <2>2, <2>3 DEF Record, Contract!Commit, Inv, Control
  <2>5. req.version \in 0 .. MaxVersion /\ req.payload \in Payload
    BY DEF Inv, TypeOK, Request
  <2> QED
    BY <2>4, <2>5 DEF Contract!Next
<1>4. CASE ~Record
  <2>1. applied'.hash = applied.hash /\ applied'.version = applied.version
    BY <1>4, AppliedChanges DEF Inv
  <2>2. Wanted' = Wanted
    BY <2>1 DEF Wanted
  <2>3. seen' \in {Wanted, Unsettled}
    BY <1>2, <2>2
  <2>4. CASE seen' = Unsettled
    BY <2>4, <2>1, <2>2 DEF Contract!Suspend, Contract!Next
  <2>5. CASE seen' = Wanted /\ seen = Unsettled
    BY <2>5, <2>1, <2>2 DEF Contract!Resume, Contract!Next
  <2>6. CASE seen' = Wanted /\ seen = Wanted
    BY <2>6, <2>1, <2>2 DEF Contract!vars
  <2> QED
    BY <1>1, <2>3, <2>4, <2>5, <2>6
<1> QED
  BY <1>3, <1>4

\* The node implements the contract of SyncContract.
THEOREM Implements == Spec => ContractSpec
BY ContractInit, ContractStep, Invariance, PTL DEF Spec, ContractSpec, Contract!Spec

=============================================================================
