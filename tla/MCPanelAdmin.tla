---------------------------- MODULE MCPanelAdmin ----------------------------
(* The instance of PanelAdmin that TLC checks.                             *)
EXTENDS PanelAdmin

\* All but the histories of config.json: what they hold enables no step and
\* changes no other variable, and the invariants of the run do not read them.
WithoutHistory == <<users, services, handler, record, settings>>

=============================================================================
