---------------------------- MODULE SyncContract ----------------------------
(***************************************************************************)
(* What a node promises the Backend Panel about /v1/sync, with none of the *)
(* steps that keep the promise.  The node has one recorded state, a        *)
(* version and the user list recorded under it.  While a request is being  *)
(* handled, and after damage the node cannot see (a crash in the middle of *)
(* a request, a failure while undoing a failure), nothing is promised      *)
(* about what is served.  Whenever the node is settled, it serves exactly  *)
(* the list it has recorded: a request either commits or leaves no trace.  *)
(***************************************************************************)
EXTENDS Naturals

CONSTANTS Payload,    \* the user lists a Backend can ask for
          Empty,      \* the list that leaves nobody to serve
          MaxVersion, \* bound on config_version
          Unsettled   \* the value of "served" while nothing is promised

VARIABLES version,    \* the recorded config_version
          wanted,     \* the user list recorded under it
          served      \* the list every layer of the node agrees on

vars == <<version, wanted, served>>

Init == version = 0 /\ wanted = Empty /\ served = Empty

\* A request, a restart or damage: the promise is suspended.
Suspend == served' = Unsettled /\ UNCHANGED <<version, wanted>>

\* A request that fails, or a reload, comes back to the recorded list.
Resume == served = Unsettled /\ served' = wanted /\ UNCHANGED <<version, wanted>>

\* A request takes effect: never with an older version than the recorded one,
\* and never on a node that did not suspend its promise first.  A step that
\* failed unnoticed leaves the promise suspended.
Commit(v, p) ==
  /\ v >= version
  /\ served = Unsettled
  /\ version' = v
  /\ wanted' = p
  /\ served' \in {p, Unsettled}

Next ==
  \/ Suspend
  \/ Resume
  \/ \E v \in 0 .. MaxVersion, p \in Payload : Commit(v, p)

Spec == Init /\ [][Next]_vars

=============================================================================
