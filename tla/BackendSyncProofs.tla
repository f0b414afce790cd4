------------------------- MODULE BackendSyncProofs --------------------------
(***************************************************************************)
(* What an acknowledged desired state is worth, proved for any number of   *)
(* user lists, versions and mishaps, on the naive driver with users.db.    *)
(***************************************************************************)
EXTENDS BackendSync, NodeSyncProofs

LEMMA BackendInitInv == BackendInit => BackendInv
<1> SUFFICES ASSUME BackendInit PROVE BackendInv
  OBVIOUS
<1>1. Inv
  BY InitInv DEF BackendInit
<1>2. BackendTypeOK
  BY EmptyAssumption, VersionAssumption, MishapAssumption
     DEF BackendInit, BackendTypeOK, Request, NoRequest
<1> QED
  BY <1>1, <1>2 DEF BackendInit, BackendInv, CleanUntilRecord, Init, NoRequest

\* Whatever the Backend, the network and the mishaps do, the node takes one of
\* its own steps or none.
LEMMA NodeStep == BackendTypeOK /\ [BackendNext]_allVars => [Next]_vars
<1> SUFFICES ASSUME BackendTypeOK, [BackendNext]_allVars PROVE [Next]_vars
  OBVIOUS
<1>1. CASE \E r \in net : Deliver(r)
  BY <1>1 DEF Deliver, Next, BackendTypeOK
<1>2. CASE NodeWorks \/ Mishap
  BY <1>2 DEF NodeWorks, Mishap, Next
<1>3. CASE Issue \/ Send \/ Hear \/ UNCHANGED allVars
  BY <1>3 DEF Issue, Send, Hear, allVars
<1> QED
  BY <1>1, <1>2, <1>3 DEF BackendNext

LEMMA BackendTypeStep == BackendTypeOK /\ Inv /\ [BackendNext]_allVars => BackendTypeOK'
<1> SUFFICES ASSUME BackendTypeOK, Inv, [BackendNext]_allVars PROVE BackendTypeOK'
  OBVIOUS
<1> USE VersionAssumption, MishapAssumption DEF BackendTypeOK, backend
<1>1. CASE Issue
  BY <1>1 DEF Issue, Request
<1>2. CASE Send
  BY <1>2 DEF Send
<1>3. CASE \E r \in net : Deliver(r)
  BY <1>3 DEF Deliver
<1>4. CASE Hear
  BY <1>4 DEF Hear, Inv, TypeOK
<1>5. CASE NodeWorks \/ UNCHANGED allVars
  BY <1>5 DEF NodeWorks, allVars
<1>6. CASE Mishap
  BY <1>6 DEF Mishap
<1> QED
  BY <1>1, <1>2, <1>3, <1>4, <1>5, <1>6 DEF BackendNext

\* The bounds of BackendInv on the node's own state, apart from the requests.
Level ==
  /\ applied.version <= wants.version
  /\ acked <= applied.version
  /\ reply.status \in {"ok", "uptodate"} => reply.version <= applied.version
  /\ wants.version > 0 /\ applied.version = wants.version =>
       /\ applied.hash = wants.payload
       /\ pc = "idle"
       /\ ~tainted

LEMMA DeliverStep ==
  ASSUME BackendInv, NEW r \in net, Deliver(r)
  PROVE  CleanUntilRecord' /\ (caller' = "sync" => Issued(req)') /\ Level'
<1> USE DEF BackendInv, Deliver, Level, CleanUntilRecord, stores, history, backend
<1>0. wants.version \in Nat /\ applied.version \in Nat /\ acked \in Nat
  BY VersionAssumption DEF BackendTypeOK, Request, Inv, TypeOK
<1>1. Issued(r)
  OBVIOUS
<1>2. CASE SyncStale(r)
  BY <1>0, <1>2 DEF SyncStale, Answer
<1>3. CASE SyncUpToDate(r)
  BY <1>0, <1>3 DEF SyncUpToDate, Answer
<1>4. CASE SyncAccept(r)
  <2>1. ~(wants.version > 0 /\ applied.version = wants.version)
    BY <1>0, <1>1, <1>4 DEF SyncAccept, Known, Issued
  <2>2. caller' = "sync" /\ req' = r /\ wants' = wants /\ ~faulted'
    BY <1>4 DEF SyncAccept
  <2>3. applied' = applied /\ acked' = acked /\ reply' = reply
    BY <1>4 DEF SyncAccept
  <2>4. Issued(req)'
    BY <1>1, <2>2 DEF Issued
  <2> QED
    BY <2>1, <2>2, <2>3, <2>4
<1> QED
  BY <1>2, <1>3, <1>4 DEF Sync

LEMMA WorkStep ==
  ASSUME Protocol = "naive", BackendInv, NodeWorks
  PROVE  CleanUntilRecord' /\ (caller' = "sync" => Issued(req)') /\ Level'
<1> USE DEF BackendInv, NodeWorks, Level, CleanUntilRecord, Issued, Driver, stores, history, backend
<1>0. wants.version \in Nat /\ applied.version \in Nat /\ acked \in Nat /\ req.version \in Nat
  BY VersionAssumption DEF BackendTypeOK, Request, Inv, TypeOK
<1>1. CASE Record
  <2>1. ~faulted /\ Issued(req)
    BY <1>1 DEF Record, Inv, Control
  <2>2. req.version >= applied.version
    BY <1>1 DEF Record, Inv, Control
  <2> QED
    BY <1>0, <1>1, <2>1, <2>2 DEF Record, Answer
<1>2. CASE Note
  BY <1>0, <1>2 DEF Note, Answer, Inv, TypeOK
<1>3. CASE ReplaceUsers \/ ReplaceUsersRefused \/ WriteConfig \/ Validate
  BY <1>0, <1>3 DEF ReplaceUsers, ReplaceUsersRefused, WriteConfig, Validate, Goto,
     ReturnFailed, snapshot
<1>4. CASE FixPermissions \/ Quiesce
  BY <1>4 DEF FixPermissions, Quiesce, Inv, Control
<1>5. CASE Activate \/ Discard \/ Restore \/ Reactivate \/ Rollback
  BY <1>0, <1>5 DEF Activate, Discard, Restore, Reactivate, Rollback, Goto,
     ReturnOk, ReturnFailed, snapshot
<1> QED
  BY <1>1, <1>2, <1>3, <1>4, <1>5 DEF Work

LEMMA MishapStep ==
  ASSUME Protocol = "naive", Durable, BackendInv, Mishap
  PROVE  CleanUntilRecord' /\ (caller' = "sync" => Issued(req)') /\ Level'
<1> USE DEF BackendInv, Mishap, Level, CleanUntilRecord, Issued, Driver, stores, history, backend
<1>0. wants.version \in Nat /\ applied.version \in Nat /\ acked \in Nat /\ req.version \in Nat
  BY VersionAssumption DEF BackendTypeOK, Request, Inv, TypeOK
<1>1. CASE Crash \/ Reboot
  <2>1. applied' = applied /\ acked' = acked /\ wants' = wants
    BY <1>1 DEF Crash, Reboot
  <2>2. pc' = "idle" /\ caller' = "none" /\ reply'.status = "none"
    BY <1>1 DEF Crash, Reboot, Answer
  <2>3. pc = "idle" /\ ~tainted => ~tainted'
    BY <1>1 DEF Crash, Reboot, Exposed
  <2> QED
    BY <2>1, <2>2, <2>3
<1>2. CASE NoteFails
  BY <1>0, <1>2 DEF NoteFails, Fault, Answer
<1>3. CASE FixPermissionsFails \/ FixPermissionsFailsIdle \/ QuiesceFails \/ BootstrapFails
  BY <1>3 DEF FixPermissionsFails, FixPermissionsFailsIdle, QuiesceFails, BootstrapFails,
     Inv, Control
<1>4. CASE ReplaceUsersFails \/ WriteConfigFails \/ ValidateFails \/ DiscardFails
  BY <1>0, <1>4 DEF ReplaceUsersFails, WriteConfigFails, ValidateFails, DiscardFails, Fault,
     Goto, ReturnFailed, Throw, Answer, snapshot
<1>5. CASE ActivateFails \/ RestoreFails \/ ReactivateFails \/ RecordFails \/ RollbackFails
  BY <1>0, <1>5 DEF ActivateFails, RestoreFails, ReactivateFails, RecordFails, RollbackFails,
     Fault, Goto, ReturnFailed, Throw, Answer, snapshot
<1> QED
  BY <1>1, <1>2, <1>3, <1>4, <1>5 DEF Failure

LEMMA BackendStep ==
  ASSUME Protocol = "naive", Durable, BackendInv, [BackendNext]_allVars
  PROVE  BackendInv'
<1>1. Inv' /\ BackendTypeOK'
  BY NodeStep, InvStep, BackendTypeStep DEF BackendInv
<1> USE <1>1 DEF BackendInv, backend
<1>0. /\ wants \in Request /\ wants.version \in Nat /\ applied.version \in Nat /\ acked \in Nat
      /\ net \subseteq Request /\ \A r \in net : r.version \in Nat
      /\ reply.version \in Nat
  BY VersionAssumption DEF BackendTypeOK, Request, Inv, TypeOK
<1>2. CASE Issue
  <2>1. wants'.version = wants.version + 1
    BY <1>2 DEF Issue
  <2>2. UNCHANGED <<users, file, running, applied, pc, caller, req, reply, faulted, tainted, acked, net>>
    BY <1>2 DEF Issue, vars, stores, snapshot, history
  <2> QED
    BY <1>0, <2>1, <2>2 DEF CleanUntilRecord, Issued
<1>3. CASE Send
  <2>1. UNCHANGED <<pc, caller, req, reply, applied, faulted, tainted, acked, wants>>
    BY <1>3 DEF Send, vars, stores, snapshot, history
  <2>2. Issued(wants)
    BY <1>0, <1>3 DEF Send, Issued
  <2> QED
    BY <1>3, <2>1, <2>2 DEF Send, CleanUntilRecord, Issued
<1>4. CASE \E r \in net : Deliver(r)
  BY <1>4, DeliverStep DEF Deliver, Level, Issued
<1>5. CASE Hear
  <2>1. UNCHANGED <<pc, caller, req, reply, applied, faulted, tainted, net, wants>>
    BY <1>5 DEF Hear, vars, stores, snapshot, history
  <2> QED
    BY <1>5, <2>1 DEF Hear, CleanUntilRecord, Issued
<1>6. CASE NodeWorks
  BY <1>6, WorkStep DEF NodeWorks, Level, Issued
<1>7. CASE Mishap
  BY <1>7, MishapStep DEF Mishap, Level, Issued
<1>8. CASE UNCHANGED allVars
  BY <1>8 DEF allVars, vars, stores, snapshot, history, CleanUntilRecord, Issued
<1> QED
  BY <1>2, <1>3, <1>4, <1>5, <1>6, <1>7, <1>8 DEF BackendNext

\* The inductive invariant: the node is never ahead of the Backend, the Backend
\* never ahead of the node, and a node with the latest state on record is
\* settled on it.
THEOREM BackendInvariance ==
  ASSUME Protocol = "naive", Durable
  PROVE  BackendSpec => []BackendInv
<1>1. BackendInit => BackendInv
  BY BackendInitInv
<1>2. BackendInv /\ [BackendNext]_allVars => BackendInv'
  BY BackendStep
<1> QED
  BY <1>1, <1>2, PTL DEF BackendSpec

\* Once the Backend heard a 200 for its latest desired state, no crash, reboot,
\* failing step or late copy of an older request takes that state away.
THEOREM AckedTheorem ==
  ASSUME Protocol = "naive", Durable
  PROVE  BackendSpec => []AckedStays
<1>1. BackendInv => AckedStays
  <2> SUFFICES ASSUME BackendInv, acked > 0, acked = wants.version
               PROVE  /\ applied.version = wants.version
                      /\ applied.hash = wants.payload
                      /\ AsRecorded
    BY DEF AckedStays
  <2>1. applied.version = wants.version
    BY VersionAssumption DEF BackendInv, BackendTypeOK, Request, Inv, TypeOK
  <2>2. applied.hash = wants.payload /\ pc = "idle" /\ ~tainted
    BY <2>1 DEF BackendInv
  <2> QED
    BY <2>1, <2>2 DEF BackendInv, Inv, Recoverable
<1>2. BackendSpec => []BackendInv
  BY BackendInvariance
<1> QED
  BY <1>1, <1>2, PTL

=============================================================================
