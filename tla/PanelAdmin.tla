----------------------------- MODULE PanelAdmin -----------------------------
(***************************************************************************)
(* What the panel and the /internal API change on a node: local users and  *)
(* the settings that end up in the Caddyfile, together with syncs of the   *)
(* selected protocol (panel/server/index.js).  Every node has both proxy   *)
(* services; a sync drives the selected one, the panel drives both.        *)
(*                                                                         *)
(* A panel handler is a round over the legs Caddyfile, reload, mita state, *)
(* mita; it is cut at each of them because each can fail and the process   *)
(* can die in between.  A failed change of users is reverted and a second  *)
(* round applies the old users.  A sync is taken as SyncContract has it    *)
(* (module NodeSync shows that it behaves so): one step, all or nothing.   *)
(***************************************************************************)
EXTENDS NodeSettings

CONSTANTS
  User,       \* rows of the users table
  NaiveUser,  \* the rows that are enabled and list the protocol naive
  MieruUser,  \* the rows that are enabled and list the protocol mieru
  Selected,   \* cfg.protocolType
  Valid,      \* the settings caddy validate accepts
  Down        \* the service does not run

ASSUME PanelAssumption ==
  /\ NaiveUser \subseteq User /\ MieruUser \subseteq User
  /\ Selected \in {"naive", "mieru"}
  /\ Valid \subseteq Setting
  /\ Down \notin [users : SUBSET User, setting : Setting]

VARIABLES
  users,      \* the users table
  caddyfile,  \* the Caddyfile: its credentials and settings
  caddy,      \* what caddy-naive runs
  mitafile,   \* the users in mita-state.json
  mita,       \* the users mita serves
  pc,         \* the next leg of the handler
  op,         \* what the handler is doing
  old,        \* the rows its failure brings back
  ok,         \* no leg has failed so far
  hit,        \* history: a leg of this round met a fault
  applied,    \* the list of the last sync
  local,      \* history: a local change stands since then
  swept,      \* history: no sync has left the other service behind
  damaged,    \* history: services may differ from the table
  warned      \* history: the last round that wrote the Caddyfile answered a failure

services == <<caddyfile, caddy, mitafile, mita>>
handler  == <<pc, op, old, ok, hit>>
record   == <<applied, local, swept, damaged, warned>>
panelVars == <<users, services, handler, record, settingsVars>>

Proxy == [users : SUBSET User, setting : Setting]
Legs == {"idle", "caddyfile", "reload", "mitafile", "mita", "end"}
Ops == {"none", "change", "revert", "naive", "both", "mieru"}

PanelTypeOK ==
  /\ SettingsTypeOK
  /\ users \in SUBSET User
  /\ caddyfile \in Proxy
  /\ caddy \in Proxy \cup {Down}
  /\ mitafile \in SUBSET User
  /\ mita \in SUBSET User
  /\ pc \in Legs
  /\ op \in Ops
  /\ old \in SUBSET User
  /\ ok \in BOOLEAN
  /\ hit \in BOOLEAN
  /\ applied \in SUBSET User
  /\ local \in BOOLEAN
  /\ swept \in BOOLEAN
  /\ damaged \in BOOLEAN
  /\ warned \in BOOLEAN

-----------------------------------------------------------------------------

\* buildCaddyfile and the template: one credential per enabled naive user, an
\* unreachable placeholder when there is none, and the settings.
Caddyfile(u, c) == [users |-> u \cap NaiveUser, setting |-> c.caddy]

\* buildMitaStateFile.
MitaState(u) == u \cap MieruUser

PanelInit ==
  /\ SettingsInit
  /\ mem.caddy \in Valid
  /\ users = {}
  /\ caddyfile = Caddyfile({}, mem)
  /\ caddy = caddyfile
  /\ mitafile = {} /\ mita = {}
  /\ pc = "idle" /\ op = "none" /\ old = {}
  /\ ok = TRUE /\ hit = FALSE
  /\ applied = {} /\ local = FALSE /\ swept = TRUE
  /\ damaged = FALSE /\ warned = FALSE

\* A handler starts its round at a leg.
Start(o, leg) ==
  /\ pc = "idle"
  /\ pc' = leg
  /\ op' = o
  /\ ok' = TRUE
  /\ hit' = FALSE

Goto(leg) == pc' = leg /\ UNCHANGED <<op, old>>

-----------------------------------------------------------------------------
(* The requests.                                                           *)

\* POST, PUT, PATCH and DELETE of a user, enable and disable: one row more, one
\* row less, or one row in the place of another.
Edits(u) == {(u \ out) \cup new : out \in {{}} \cup {{x} : x \in u},
                                  new \in {{}} \cup {{x} : x \in User \ u}}

ChangeUsers(u) ==
  /\ Start("change", "caddyfile")
  /\ users' = u
  /\ old' = users
  /\ UNCHANGED <<services, record, settingsVars>>

\* probe-secret and probe-mode; naive-port restarts Caddy in place of a reload.
ChangeCaddy(s) ==
  /\ Start("naive", "caddyfile")
  /\ mem' = [mem EXCEPT !.caddy = s]
  /\ Save(mem')
  /\ UNCHANGED <<users, services, old, record>>

\* cascade: the upstream, then mita.
ChangeCascade(s) ==
  /\ Start("both", "caddyfile")
  /\ mem' = [mem EXCEPT !.caddy = s]
  /\ Save(mem')
  /\ UNCHANGED <<users, services, old, record>>

\* rebuild-all.
Rebuild ==
  /\ Start("both", "caddyfile")
  /\ UNCHANGED <<users, services, old, record, settingsVars>>

\* mieru-ports, traffic-pattern and udp-toggle: numbers that are not modelled,
\* saved with the rest of the configuration.
ChangeMieru ==
  /\ Start("mieru", "mitafile")
  /\ UNCHANGED mem
  /\ Save(mem)
  /\ UNCHANGED <<users, services, old, record>>

-----------------------------------------------------------------------------
(* The legs.                                                               *)

\* A leg that fails: applyAllConfigs goes on with the next service and reports
\* at the end, the settings handlers answer 500 at once.
LegFails(next) ==
  /\ ok' = FALSE
  /\ Goto(IF op \in {"change", "revert"} THEN next ELSE "end")

LegDone(next) == UNCHANGED ok /\ Goto(next)

WriteCaddyfile ==
  /\ pc = "caddyfile"
  /\ caddyfile' = Caddyfile(users, mem)
  /\ LegDone("reload")
  /\ UNCHANGED <<users, caddy, mitafile, mita, hit, record, settingsVars>>

WriteCaddyfileFails ==
  /\ pc = "caddyfile"
  /\ hit' = TRUE
  /\ LegFails("mitafile")
  /\ UNCHANGED <<users, services, record, settingsVars>>

\* Slip: nobody looks at what caddy validate says.
RefusalIgnored ==
  /\ pc = "reload"
  /\ caddyfile.setting \notin Valid
  /\ LegDone(IF op = "naive" THEN "end" ELSE "mitafile")
  /\ UNCHANGED <<users, services, hit, record, settingsVars>>

\* caddy validate refuses the file; it stays where it is.
ReloadRefused ==
  /\ pc = "reload"
  /\ caddyfile.setting \notin Valid
  /\ LegFails("mitafile")
  /\ UNCHANGED <<users, services, hit, record, settingsVars>>

ReloadCaddy ==
  /\ pc = "reload"
  /\ caddyfile.setting \in Valid
  /\ caddy' = caddyfile
  /\ LegDone(IF op = "naive" THEN "end" ELSE "mitafile")
  /\ UNCHANGED <<users, caddyfile, mitafile, mita, hit, record, settingsVars>>

\* Validation is cut short, or reload and then restart fail and leave behind
\* the old configuration, the new one or nothing.
ReloadFails ==
  /\ pc = "reload"
  /\ caddyfile.setting \in Valid
  /\ caddy' \in {caddy, caddyfile, Down}
  /\ hit' = TRUE
  /\ LegFails("mitafile")
  /\ UNCHANGED <<users, caddyfile, mitafile, mita, record, settingsVars>>

WriteMitaState ==
  /\ pc = "mitafile"
  /\ mitafile' = MitaState(users)
  /\ LegDone("mita")
  /\ UNCHANGED <<users, caddyfile, caddy, mita, hit, record, settingsVars>>

\* Writing mita-state.json throws.  The settings handlers answer 500; in
\* applyAllConfigs mitaRequired is still false, which makes the leg a success.
WriteMitaStateThrows ==
  /\ pc = "mitafile"
  /\ hit' = TRUE
  /\ ok' = (ok /\ op \in {"change", "revert"})
  /\ Goto("end")
  /\ UNCHANGED <<users, services, record, settingsVars>>

\* restartMieruAfterConfigApply, or stopMieruWhenNoUsers.
DriveMita ==
  /\ pc = "mita"
  /\ mita' = mitafile
  /\ LegDone("end")
  /\ UNCHANGED <<users, caddyfile, caddy, mitafile, hit, record, settingsVars>>

\* With users to serve a failure counts; the bootstrap drop-in of the unit
\* throws as above.
DriveMitaFails ==
  /\ pc = "mita"
  /\ mitafile # {}
  /\ mita' \in {mita, {}, mitafile}
  /\ hit' = TRUE
  /\ \/ LegFails("end")
     \/ ok' = (ok /\ op \in {"change", "revert"}) /\ Goto("end")
  /\ UNCHANGED <<users, caddyfile, caddy, mitafile, record, settingsVars>>

\* Without users mita is not required: what systemctl stop says is ignored.
StopMitaFails ==
  /\ pc = "mita"
  /\ mitafile = {}
  /\ hit' = TRUE
  /\ LegDone("end")
  /\ UNCHANGED <<users, services, record, settingsVars>>

-----------------------------------------------------------------------------
(* The ends of the handlers.                                               *)

\* A round that drives both services; it leaves them as the table has it when
\* it met no fault and Caddy took the settings.
Full == op \in {"change", "revert", "both"}
Clean == Full /\ ~hit /\ caddyfile.setting \in Valid

Finish(result) ==
  /\ pc' = "idle" /\ op' = "none" /\ old' = {} /\ ok' = TRUE /\ hit' = FALSE
  /\ damaged' = (hit \/ (damaged /\ ~Clean))
  /\ swept' = (swept \/ Clean)
  /\ warned' = IF op = "mieru" THEN warned ELSE result = "failed"

\* Slip: the row comes back, the configurations are not applied again.
RevertRowOnly ==
  /\ pc = "end"
  /\ op = "change" /\ ~ok
  /\ users' = old
  /\ Finish("failed")
  /\ UNCHANGED <<services, applied, local, settingsVars>>

\* Slip: the configurations are applied again, the row stays changed.
RevertConfigsOnly ==
  /\ pc = "end"
  /\ op = "change" /\ ~ok
  /\ op' = "revert"
  /\ pc' = "caddyfile"
  /\ hit' = FALSE
  /\ UNCHANGED <<users, services, old, ok, record, settingsVars>>

\* assertCaddyApplied throws: the row comes back and a second round, whose
\* result nobody looks at, applies it.
Revert ==
  /\ pc = "end"
  /\ op = "change" /\ ~ok
  /\ users' = old
  /\ op' = "revert"
  /\ pc' = "caddyfile"
  /\ hit' = FALSE
  /\ UNCHANGED <<services, old, ok, record, settingsVars>>

Answer ==
  /\ pc = "end"
  /\ op = "change" => ok
  /\ Finish(IF ok /\ op # "revert" THEN "ok" ELSE "failed")
  /\ local' = (local \/ op = "change")
  /\ UNCHANGED <<users, services, applied, settingsVars>>

-----------------------------------------------------------------------------
(* POST /v1/sync: only the selected service is driven.                     *)

\* A synced row lists the selected protocol only.
Syncable == User \ (IF Selected = "naive" THEN MieruUser ELSE NaiveUser)

\* Apply a list to the selected service.
ApplySelected(u) ==
  IF Selected = "naive"
  THEN /\ caddyfile' = Caddyfile(u, mem)
       /\ caddy' = caddyfile'
       /\ warned' = FALSE
       /\ UNCHANGED <<mitafile, mita>>
  ELSE /\ mitafile' = MitaState(u)
       /\ mita' = mitafile'
       /\ UNCHANGED <<caddyfile, caddy, warned>>

Applicable == Selected = "naive" => mem.caddy \in Valid

\* A list that is not the recorded one.
SyncCommits(l) ==
  /\ pc = "idle"
  /\ l # applied
  /\ Applicable
  /\ users' = l
  /\ applied' = l
  /\ ApplySelected(l)
  /\ local' = FALSE
  /\ swept' = IF Selected = "naive" THEN mita = {} /\ mitafile = {}
               ELSE caddy = Caddyfile({}, mem) /\ caddyfile = caddy
  /\ UNCHANGED <<handler, damaged, settingsVars>>

\* One step fails: the catch block applies the old list once more, with the
\* settings of today.  A Caddyfile that does not validate is taken back.
SyncFails ==
  /\ pc = "idle"
  /\ IF Applicable THEN ApplySelected(users) ELSE UNCHANGED <<services, warned>>
  /\ UNCHANGED <<users, handler, applied, local, swept, damaged, settingsVars>>

-----------------------------------------------------------------------------
(* The operator, the process and the machine.                              *)

\* /api/service/:name/:action.
StopService ==
  /\ pc = "idle"
  /\ \/ caddy' = Down /\ UNCHANGED mita
     \/ mita' = {} /\ UNCHANGED caddy
  /\ damaged' = TRUE
  /\ UNCHANGED <<users, caddyfile, mitafile, handler, applied, local, swept, warned, settingsVars>>

\* What a service runs once it starts on its file.
Started == IF caddyfile.setting \in Valid THEN caddyfile ELSE Down

StartService ==
  /\ pc = "idle"
  /\ \/ caddy' = Started /\ UNCHANGED mita
     \/ mita' = mitafile /\ UNCHANGED caddy
  /\ damaged' = (damaged \/ caddy' = Down)
  /\ UNCHANGED <<users, caddyfile, mitafile, handler, applied, local, swept, warned, settingsVars>>

\* The agent dies, at any leg, or a script restarts it; nothing is re-applied.
Crash ==
  /\ Restart
  /\ pc' = "idle" /\ op' = "none" /\ old' = {} /\ ok' = TRUE /\ hit' = FALSE
  /\ damaged' = (damaged \/ pc # "idle")
  /\ local' = (local \/ op = "change")
  /\ UNCHANGED <<users, services, applied, swept, warned>>

\* The machine restarts: the services start on the files they find.
Reboot ==
  /\ pc = "idle"
  /\ Restart
  /\ caddy' = Started
  /\ mita' = mitafile
  /\ damaged' = (damaged \/ caddy' = Down)
  /\ UNCHANGED <<users, caddyfile, mitafile, handler, applied, local, swept, warned>>

Requests ==
  \/ \E u \in Edits(users) : ChangeUsers(u)
  \/ \E s \in Settable : ChangeCaddy(s) \/ ChangeCascade(s)
  \/ Rebuild
  \/ ChangeMieru
  \/ pc = "idle" /\ Settings /\ UNCHANGED <<users, services, handler, record>>

Round ==
  \/ WriteCaddyfile \/ WriteCaddyfileFails
  \/ ReloadRefused \/ ReloadCaddy \/ ReloadFails
  \/ WriteMitaState \/ WriteMitaStateThrows
  \/ DriveMita \/ DriveMitaFails \/ StopMitaFails
  \/ Revert \/ Answer

PanelNext ==
  \/ Requests
  \/ Round
  \/ \E l \in SUBSET Syncable : SyncCommits(l)
  \/ SyncFails
  \/ StopService \/ StartService
  \/ ScriptStep /\ UNCHANGED <<users, services, handler, record>>
  \/ Crash \/ Reboot

PanelSpec == PanelInit /\ [][PanelNext]_panelVars

-----------------------------------------------------------------------------
(* Properties.                                                             *)

CaddyServes == caddy # Down /\ caddy.users = users \cap NaiveUser
MitaServes == mita = users \cap MieruUser

\* Between requests the selected service serves exactly the users of the table,
\* and so does the other one unless a sync passed it by: a change of users, the
\* revert of a failed one, a sync or a change of settings that Caddy refuses
\* leaves no user without access and nobody with access he no longer has.
\* Excepted are faults the agent does not undo, a death half-way and a stopped
\* service.
SettledServesTable ==
  pc = "idle" /\ ~damaged =>
    /\ Selected = "naive" \/ swept => CaddyServes
    /\ Selected = "mieru" \/ swept => MitaServes

\* The table is the list of the last sync unless a local change was acknowledged
\* since, or the agent died during one: a failed change is never what makes the
\* repeated sync of that list a no-op on a different table.
NoSilentDrift == pc = "idle" /\ ~local => users = applied

\* A Caddyfile that Caddy will not start on is left in place only after the
\* handler that wrote it reported the failure (or died): no acknowledged request
\* and no sync leaves a node that the next reboot takes down.
BrokenFileWasReported ==
  pc = "idle" /\ caddyfile.setting \notin Valid => warned \/ damaged

-----------------------------------------------------------------------------
(* The inductive invariant behind them (proved in PanelAdminProofs).       *)

Past == {"mitafile", "mita", "end"}  \* Caddy has been told

\* The table as the services had it when the handler started.
Base == IF op = "change" THEN old ELSE users

\* Who can be where.
RoundControl ==
  /\ pc = "idle" <=> op = "none"
  /\ pc \in {"caddyfile", "reload"} => op # "mieru"
  /\ pc \in {"mitafile", "mita"} => op # "naive"
  /\ op = "revert" => ~ok
  /\ pc # "end" /\ op \in {"naive", "both", "mieru"} => ok /\ ~hit

\* How far a round has got, whatever state it started from.
RoundProgress ==
  /\ pc = "reload" => caddyfile = Caddyfile(users, mem)
  /\ pc = "mita" => mitafile = MitaState(users)
  /\ pc \in Past /\ ok /\ op \in {"change", "naive", "both"} => caddyfile.setting \in Valid
  /\ ~hit /\ pc \in Past /\ op # "mieru" =>
       /\ caddyfile = Caddyfile(users, mem)
       /\ mem.caddy \in Valid => caddy = caddyfile
  /\ ~hit /\ pc = "end" /\ op # "naive" /\ (op = "both" => mem.caddy \in Valid) =>
       mitafile = MitaState(users) /\ mita = mitafile

\* The service still runs what it ran when the round started.
CaddyUntouched ==
  \/ op \in {"none", "mieru"}
  \/ mem.caddy \notin Valid
  \/ pc \in {"caddyfile", "reload"} /\ op # "revert"
MitaUntouched ==
  \/ op \in {"none", "naive"}
  \/ op = "both" /\ mem.caddy \notin Valid
  \/ pc \in {"caddyfile", "reload", "mitafile"} /\ op # "revert"

\* What an undamaged node keeps of the table the round started from.
CaddyKeeps ==
  ~damaged /\ (Selected = "naive" \/ swept) =>
    /\ CaddyUntouched => caddy # Down /\ caddy.users = Base \cap NaiveUser
    /\ op \in {"none", "mieru"} => caddyfile.users = users \cap NaiveUser
MitaKeeps ==
  ~damaged /\ (Selected = "mieru" \/ swept) /\ MitaUntouched =>
    mita = Base \cap MieruUser /\ mitafile = mita

\* What is recorded is the table, and a refused Caddyfile is on record.
TableRecorded == ~local => Base = applied
RefusalRecorded ==
  op \in {"none", "mieru"} /\ caddyfile.setting \notin Valid => warned \/ damaged

PanelInv ==
  /\ PanelTypeOK /\ RoundControl /\ RoundProgress
  /\ CaddyKeeps /\ MitaKeeps /\ TableRecorded /\ RefusalRecorded

-----------------------------------------------------------------------------
(* A comment the code does not keep.                                       *)

\* index.js:1163: applyAllConfigs "Rebuilds Caddyfile, reloads Caddy, rebuilds
\* mita state, and applies the local runtime state": a change of users about to
\* be acknowledged is served to everybody it concerns.
AcknowledgedIsServed ==
  pc = "end" /\ op = "change" /\ ok => CaddyServes /\ MitaServes

=============================================================================
