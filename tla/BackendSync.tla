---------------------------- MODULE BackendSync -----------------------------
(***************************************************************************)
(* A node and the Backend Panel that drives it with /v1/sync.  The Backend *)
(* is outside the repository; what is modelled of it is what VETKA_NODE_   *)
(* AGENT.md and the handler rely on: it numbers its desired states, one    *)
(* list per version, and sends the latest one again until a 200 arrives.   *)
(* Requests stay in the network: they are delivered late, out of order and *)
(* more than once, or never.  An answer is lost when the Backend does not  *)
(* hear it before the next one.                                            *)
(***************************************************************************)
EXTENDS NodeSync

CONSTANT MaxMishaps  \* bound on failing steps, crashes and reboots

ASSUME MishapAssumption == MaxMishaps \in Nat

VARIABLES
  wants,    \* the Backend's latest desired state
  acked,    \* the newest version it got a 200 for
  net,      \* the requests in flight
  mishaps   \* failing steps, crashes and reboots so far

backend == <<wants, acked, net>>
allVars == <<vars, backend, mishaps>>

BackendTypeOK ==
  /\ wants \in Request
  /\ acked \in 0 .. MaxVersion
  /\ net \subseteq Request
  /\ mishaps \in 0 .. MaxMishaps

BackendInit ==
  /\ Init
  /\ wants = NoRequest
  /\ acked = 0
  /\ net = {}
  /\ mishaps = 0

\* The desired state changes: a new version, a list with distinct usernames.
Issue ==
  /\ wants.version < MaxVersion
  /\ \E p \in Payload \ Rejected :
       wants' = [version |-> wants.version + 1, payload |-> p]
  /\ UNCHANGED <<vars, acked, net, mishaps>>

Send ==
  /\ acked < wants.version
  /\ net' = net \cup {wants}
  /\ UNCHANGED <<vars, wants, acked, mishaps>>

\* A copy stays in the network.
Deliver(r) ==
  /\ r \in net
  /\ Sync(r)
  /\ UNCHANGED <<backend, mishaps>>

Hear ==
  /\ reply.status \in {"ok", "uptodate"}
  /\ acked < reply.version
  /\ acked' = reply.version
  /\ UNCHANGED <<vars, wants, net, mishaps>>

NodeWorks == Work /\ UNCHANGED <<backend, mishaps>>

Mishap ==
  /\ mishaps < MaxMishaps
  /\ Failure \/ Crash \/ Reboot
  /\ mishaps' = mishaps + 1
  /\ UNCHANGED backend

BackendNext ==
  \/ Issue
  \/ Send
  \/ \E r \in net : Deliver(r)
  \/ Hear
  \/ NodeWorks
  \/ Mishap

\* A handler that has started is not suspended, the Backend keeps sending, and
\* what is sent over and over is delivered to an idle node sometime.
Fairness ==
  /\ WF_allVars(NodeWorks)
  /\ WF_allVars(Send)
  /\ SF_allVars(Deliver(wants))

BackendSpec == BackendInit /\ [][BackendNext]_allVars /\ Fairness

-----------------------------------------------------------------------------
(* Properties.                                                             *)

\* Once the Backend heard a 200 for its latest desired state, the node serves
\* that list and has it on record, and no crash, reboot or late copy of an
\* older request takes that away.
AckedStays ==
  acked > 0 /\ acked = wants.version =>
    /\ applied.version = wants.version
    /\ applied.hash = wants.payload
    /\ AsRecorded

\* With finitely many mishaps and desired states, the node ends up serving the
\* latest one for good, whatever state the mishaps left it in.
Converges ==
  <>[](wants.version > 0 =>
         /\ applied.version = wants.version
         /\ applied.hash = wants.payload
         /\ AsRecorded)

-----------------------------------------------------------------------------
(* The inductive invariant behind AckedStays (proved in BackendSyncProofs). *)

\* A request of the Backend, old or new: one version never carries two lists.
Issued(r) ==
  /\ r.version \in 1 .. wants.version
  /\ r.version = wants.version => r = wants

\* What the naive driver returns ok for has had no failing step.
CleanUntilRecord ==
  caller = "sync" /\ pc \in Driver \cup {"replace", "write", "record"} => ~faulted

\* The node is never ahead of the Backend, the Backend never ahead of the node,
\* and a node that has the latest state on record is settled on it.
BackendInv ==
  /\ BackendTypeOK
  /\ Inv
  /\ CleanUntilRecord
  /\ \A r \in net : Issued(r)
  /\ caller = "sync" => Issued(req)
  /\ applied.version <= wants.version
  /\ acked <= applied.version
  /\ reply.status \in {"ok", "uptodate"} => reply.version <= applied.version
  /\ wants.version > 0 /\ applied.version = wants.version =>
       /\ applied.hash = wants.payload
       /\ pc = "idle"
       /\ ~tainted

=============================================================================
