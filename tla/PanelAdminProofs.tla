-------------------------- MODULE PanelAdminProofs --------------------------
(***************************************************************************)
(* What TLC checks of PanelAdmin and NodeSettings on a small instance,     *)
(* proved for every set of users and their protocols, either selected      *)
(* protocol, and every set of settings, of which Caddy accepts any part.   *)
(***************************************************************************)
EXTENDS PanelAdmin, TLAPS

(***************************************************************************)
(* The configuration file.  Every action of PanelAdmin that touches it is  *)
(* one of NodeSettings.                                                    *)
(***************************************************************************)
Same(c, d) == d.allow = c.allow /\ d.any = c.any

\* What the file f brings of the agent's own settings when it is read.
Brings(c, f) ==
  Same(c, f) /\ (f.caddy = c.caddy \/ (c.caddy \in Legacy /\ f.caddy \in Setting \ Legacy))

\* What a script has read is the file, unless the agent saved since or the file
\* is being written; what it will write back is then as good as the file.
ScriptInv ==
  /\ disk \in Conf /\ copy \in Conf /\ ~raced => copy = disk
  /\ copy \in Conf /\ edit # Lost => copy.site = edit
  /\ ~behind /\ ~EnvIsSet /\ disk \in Conf => Brings(mem, disk)
  /\ ~behind /\ ~EnvIsSet /\ copy \in Conf /\ ~raced => Brings(mem, copy)

SettingsInv == SettingsTypeOK /\ EditKept /\ ScriptInv

LEMMA LoadType ==
  ASSUME NEW c \in Conf
  PROVE  Load(c) \in Conf /\ Load(c).site = c.site /\ (~EnvIsSet => Load(c) = c)
BY SettingsAssumption DEF Load, Conf

LEMMA DefaultType == Default \in Conf /\ Load(Torn) \in Conf
<1>1. Default \in Conf
  BY SettingsAssumption DEF Default, Conf
<1> QED
  BY <1>1, SettingsAssumption DEF Load, Conf

LEMMA PatchedType ==
  ASSUME NEW c \in Conf, NEW p \in Patch
  PROVE  Patched(c, p) \in Conf /\ Patched(c, p).site = c.site
BY DEF Patched, Patch, Conf

\* What update.sh fills in is in no other field.
LEMMA FilledBrings ==
  ASSUME NEW c \in Conf, NEW d \in Filled(c)
  PROVE  d \in Conf /\ d.site = c.site /\ \A m \in Conf : Brings(m, c) => Brings(m, d)
BY DEF Filled, Conf, Brings, Same

LEMMA SettingsInitially == SettingsInit => SettingsInv
<1> SUFFICES ASSUME SettingsInit PROVE SettingsInv
  OBVIOUS
<1>1. mem \in Conf
  BY LoadType DEF SettingsInit
<1>2. /\ disk = mem /\ edit = disk.site /\ copy = None
      /\ behind \in BOOLEAN /\ unread \in BOOLEAN /\ raced \in BOOLEAN
  BY DEF SettingsInit
<1>3. edit \in Site
  BY <1>1, <1>2 DEF Conf
<1>4. ScriptInv
  BY <1>1, <1>2, SettingsAssumption DEF ScriptInv, Brings, Same
<1> QED
  BY <1>1, <1>2, <1>3, <1>4 DEF SettingsInv, SettingsTypeOK, EditKept

\* A configuration that differs from memory in fields of the agent is saved.
LEMMA SavePreserves ==
  ASSUME SettingsInv, NEW c \in Conf, c.site = mem.site, mem' = c, Save(c)
  PROVE  SettingsInv'
<1>1. CASE Replace(c)
  <2>1. SettingsTypeOK'
    BY <1>1 DEF Replace, SettingsInv, SettingsTypeOK
  <2>2. EditKept'
    BY <1>1 DEF Replace, SettingsInv, EditKept
  <2>3. ScriptInv'
    BY <1>1, SettingsAssumption DEF Replace, SettingsInv, SettingsTypeOK, ScriptInv, Brings, Same
  <2> QED
    BY <2>1, <2>2, <2>3 DEF SettingsInv
<1>2. CASE behind' = TRUE /\ UNCHANGED <<disk, copy, unread, edit, raced>>
  <2>1. SettingsTypeOK'
    BY <1>2 DEF SettingsInv, SettingsTypeOK
  <2>2. EditKept'
    BY <1>2 DEF SettingsInv, EditKept
  <2>3. ScriptInv'
    BY <1>2 DEF SettingsInv, ScriptInv
  <2> QED
    BY <2>1, <2>2, <2>3 DEF SettingsInv
<1> QED
  BY <1>1, <1>2 DEF Save

LEMMA SettingsPreserves == SettingsInv /\ Settings => SettingsInv'
<1> SUFFICES ASSUME SettingsInv, Settings PROVE SettingsInv'
  OBVIOUS
<1>0. mem \in Conf
  BY DEF SettingsInv, SettingsTypeOK
<1>1. ASSUME NEW p \in Patch, PatchAccepted(p) PROVE SettingsInv'
  BY <1>0, <1>1, PatchedType, SavePreserves DEF PatchAccepted
<1>2. ASSUME NEW p \in Patch, PatchRejected(p) PROVE SettingsInv'
  <2>1. mem' \in Conf /\ mem'.site = mem.site
    BY <1>0, <1>2, PatchedType DEF PatchRejected
  <2>2. /\ UNCHANGED <<disk, copy, unread, edit, raced>>
        /\ behind' = (behind \/ Own(mem') # Own(mem))
    BY <1>2 DEF PatchRejected
  <2>3. SettingsTypeOK'
    BY <2>1, <2>2 DEF SettingsInv, SettingsTypeOK
  <2>4. EditKept'
    BY <2>1, <2>2 DEF SettingsInv, EditKept
  <2>5. ScriptInv'
    BY <2>2 DEF SettingsInv, ScriptInv, Brings, Same, Own
  <2> QED
    BY <2>3, <2>4, <2>5 DEF SettingsInv
<1>3. ASSUME NEW s \in Settable, StoreUnchecked(s) PROVE SettingsInv'
  <2>1. mem' \in Conf /\ mem'.site = mem.site
    BY <1>0, <1>3 DEF StoreUnchecked, Settable, Conf
  <2> QED
    BY <2>1, <1>3, SavePreserves DEF StoreUnchecked
<1> QED
  BY <1>1, <1>2, <1>3 DEF Settings

LEMMA ScriptPreserves == SettingsInv /\ ScriptStep => SettingsInv'
<1> SUFFICES ASSUME SettingsInv, ScriptStep PROVE SettingsInv'
  OBVIOUS
<1>0. mem \in Conf /\ disk \in Conf \cup {Torn} /\ copy \in Conf \cup {Torn, None}
  BY DEF SettingsInv, SettingsTypeOK
<1>1. ASSUME ScriptReads PROVE SettingsInv'
  <2>1. SettingsTypeOK' /\ EditKept'
    BY <1>1 DEF ScriptReads, SettingsInv, SettingsTypeOK, EditKept
  <2>2. ScriptInv'
    BY <1>0, <1>1, SettingsAssumption DEF ScriptReads, SettingsInv, EditKept, ScriptInv,
       Brings, Same
  <2> QED
    BY <2>1, <2>2 DEF SettingsInv
<1>2. ASSUME NEW s \in Site, SetStaticSite(s) PROVE SettingsInv'
  <2> DEFINE f == [(IF copy = Torn THEN Default ELSE copy) EXCEPT !.site = s]
  <2>1. f \in Conf /\ f.site = s /\ (copy # Torn => Own(f) = Own(copy))
    BY <1>0, <1>2, DefaultType DEF SetStaticSite, Conf, Own
  <2>2. /\ disk' = f /\ copy' = None /\ raced' = FALSE /\ mem' = mem
        /\ behind' = (behind \/ raced \/ copy = Torn)
        /\ unread' = TRUE /\ edit' = s /\ copy # None
    BY <1>2 DEF SetStaticSite, WriteBack
  <2> HIDE DEF f
  <2>3. SettingsTypeOK'
    BY <2>1, <2>2 DEF SettingsInv, SettingsTypeOK
  <2>4. EditKept'
    BY <2>1, <2>2 DEF EditKept
  <2>5. ScriptInv'
    BY <1>0, <2>1, <2>2, SettingsAssumption DEF SettingsInv, ScriptInv, Brings, Same, Own
  <2> QED
    BY <2>3, <2>4, <2>5 DEF SettingsInv
<1>3. ASSUME MigrateTruncates PROVE SettingsInv'
  <2>1. disk' = Torn /\ UNCHANGED <<mem, copy, behind, unread, edit, raced>>
    BY <1>3 DEF MigrateTruncates, tracked
  <2>2. SettingsTypeOK' /\ EditKept'
    BY <2>1 DEF SettingsInv, SettingsTypeOK, EditKept
  <2>3. ScriptInv'
    BY <2>1, SettingsAssumption DEF SettingsInv, ScriptInv
  <2> QED
    BY <2>2, <2>3 DEF SettingsInv
<1>4. ASSUME MigrateWrites PROVE SettingsInv'
  <2>1. PICK c \in {copy} \cup Filled(copy) : WriteBack(c)
    BY <1>4 DEF MigrateWrites
  <2>2. copy \in Conf /\ c \in Conf /\ c.site = copy.site
    BY <1>4, <2>1, FilledBrings DEF MigrateWrites
  <2>3. /\ disk' = c /\ copy' = None /\ raced' = FALSE /\ UNCHANGED <<mem, unread, edit>>
        /\ behind' = (behind \/ raced \/ copy = Torn)
    BY <1>4, <2>1 DEF MigrateWrites, WriteBack
  <2>4. SettingsTypeOK'
    BY <1>0, <2>2, <2>3 DEF SettingsInv, SettingsTypeOK
  <2>5. EditKept'
    BY <2>2, <2>3 DEF SettingsInv, EditKept, ScriptInv
  <2>6. ~behind' /\ ~EnvIsSet => Brings(mem, copy)
    BY <2>2, <2>3 DEF SettingsInv, ScriptInv
  <2>7. Brings(mem, copy) => Brings(mem, c)
    BY <1>0, <2>1, <2>2, FilledBrings
  <2>8. ScriptInv'
    BY <2>3, <2>6, <2>7, SettingsAssumption DEF ScriptInv, Brings, Same
  <2> QED
    BY <2>4, <2>5, <2>8 DEF SettingsInv
<1> QED
  BY <1>1, <1>2, <1>3, <1>4 DEF ScriptStep

LEMMA RestartPreserves == SettingsInv /\ Restart => SettingsInv'
<1> SUFFICES ASSUME SettingsInv, Restart PROVE SettingsInv'
  OBVIOUS
<1>0. mem \in Conf /\ disk \in Conf \cup {Torn} /\ copy \in Conf \cup {Torn, None}
  BY DEF SettingsInv, SettingsTypeOK
<1>1. mem' = Load(disk) /\ mem' \in Conf
  BY <1>0, LoadType, DefaultType DEF Restart, StartWith
<1>2. disk \in Conf => mem'.site = disk.site /\ (~EnvIsSet => mem' = disk)
  BY <1>1, LoadType
<1>3. /\ UNCHANGED <<disk, copy, raced>> /\ unread' = FALSE
      /\ edit' = (IF disk = Torn THEN Lost ELSE edit)
      /\ behind' = (disk = Torn \/ Own(mem') # Own(disk))
  BY <1>1 DEF Restart, StartWith
<1>4. SettingsTypeOK'
  BY <1>1, <1>3 DEF SettingsInv, SettingsTypeOK
<1>5. EditKept'
  BY <1>0, <1>2, <1>3 DEF SettingsInv, EditKept
<1>6. ScriptInv'
  BY <1>0, <1>2, <1>3, SettingsAssumption DEF SettingsInv, ScriptInv, Brings, Same
<1> QED
  BY <1>4, <1>5, <1>6 DEF SettingsInv

\* What an action of PanelAdmin does to the configuration.
LEMMA PanelStepOnSettings ==
  PanelNext => \/ Settings
               \/ UNCHANGED mem /\ Save(mem)
               \/ ScriptStep
               \/ Restart
               \/ UNCHANGED settingsVars
<1> USE DEF panelVars
<1>1. Requests => Settings \/ (UNCHANGED mem /\ Save(mem)) \/ UNCHANGED settingsVars
  BY DEF Requests, ChangeUsers, ChangeCaddy, ChangeCascade, Rebuild, ChangeMieru, StoreUnchecked,
     Settings
<1>2. Round => UNCHANGED settingsVars
  BY DEF Round, WriteCaddyfile, WriteCaddyfileFails, ReloadRefused, ReloadCaddy, ReloadFails,
     WriteMitaState, WriteMitaStateThrows, DriveMita, DriveMitaFails, StopMitaFails, Revert, Answer
<1>3. (\E l \in SUBSET Syncable : SyncCommits(l)) \/ SyncFails \/ StopService \/ StartService
        => UNCHANGED settingsVars
  BY DEF SyncCommits, SyncFails, StopService, StartService
<1>4. Crash \/ Reboot => Restart
  BY DEF Crash, Reboot
<1> QED
  BY <1>1, <1>2, <1>3, <1>4 DEF PanelNext

LEMMA SettingsInvariance == PanelSpec => []SettingsInv
<1>1. PanelInit => SettingsInv
  BY SettingsInitially DEF PanelInit
<1>2. SettingsInv /\ [PanelNext]_panelVars => SettingsInv'
  <2> SUFFICES ASSUME SettingsInv, [PanelNext]_panelVars PROVE SettingsInv'
    OBVIOUS
  <2>1. CASE UNCHANGED mem /\ Save(mem)
    BY <2>1, SavePreserves DEF SettingsInv, SettingsTypeOK
  <2>2. CASE UNCHANGED settingsVars
    BY <2>2 DEF settingsVars, settings, tracked, SettingsInv, SettingsTypeOK, EditKept,
       ScriptInv, Brings, Same
  <2>3. CASE UNCHANGED panelVars
    BY <2>2, <2>3 DEF panelVars
  <2> QED
    BY <2>1, <2>2, <2>3, SettingsPreserves, ScriptPreserves, RestartPreserves,
       PanelStepOnSettings
<1> QED
  BY <1>1, <1>2, PTL DEF PanelSpec

\* A change of staticSite by a script is lost only to a save of the agent that
\* had not read it.
THEOREM EditTheorem == PanelSpec => []EditKept
<1>1. SettingsInv => EditKept
  BY DEF SettingsInv
<1> QED
  BY <1>1, SettingsInvariance, PTL

\* A restart of the agent brings back the settings it has, or those with the
\* probeMode of update.sh, unless a patch was rejected half-way, a save failed
\* or met a script between its read and its write, the file is torn, or
\* BACKEND_ALLOWED_IPS is set.
THEOREM RestartTheorem == PanelSpec => []RestartKeepsSettings
<1>1. SettingsInv => RestartKeepsSettings
  <2> SUFFICES ASSUME SettingsInv, ~behind, ~EnvIsSet, disk # Torn
               PROVE  Own(Load(disk)) \in {Own(c) : c \in {mem} \cup Filled(mem)}
    BY DEF RestartKeepsSettings
  <2>1. mem \in Conf /\ disk \in Conf
    BY DEF SettingsInv, SettingsTypeOK
  <2>2. Load(disk) = disk /\ Brings(mem, disk)
    BY <2>1, LoadType DEF SettingsInv, ScriptInv
  <2>3. CASE disk.caddy = mem.caddy
    BY <2>2, <2>3 DEF Brings, Same, Own
  <2>4. CASE mem.caddy \in Legacy /\ disk.caddy \in Setting \ Legacy
    <3>1. [mem EXCEPT !.caddy = disk.caddy] \in Filled(mem)
      BY <2>4 DEF Filled
    <3>2. Own(disk) = Own([mem EXCEPT !.caddy = disk.caddy])
      BY <2>1, <2>2 DEF Brings, Same, Own, Conf
    <3> QED
      BY <2>2, <3>1, <3>2
  <2> QED
    BY <2>2, <2>3, <2>4 DEF Brings
<1> QED
  BY <1>1, SettingsInvariance, PTL

(***************************************************************************)
(* Type correctness.                                                       *)
(***************************************************************************)
LEMMA CaddyfileType ==
  ASSUME NEW u \in SUBSET User, NEW c \in Conf
  PROVE  Caddyfile(u, c) \in Proxy
BY DEF Caddyfile, Proxy, Conf

LEMMA CommitType ==
  ASSUME PanelTypeOK, SettingsTypeOK', NEW l \in SUBSET Syncable, SyncCommits(l)
  PROVE  PanelTypeOK'
<1>1. l \in SUBSET User /\ mem \in Conf
  BY DEF PanelTypeOK, SettingsTypeOK, Syncable
<1>2. /\ caddyfile' \in Proxy /\ caddy' \in Proxy \cup {Down}
      /\ mitafile' \in SUBSET User /\ mita' \in SUBSET User /\ warned' \in BOOLEAN
  BY <1>1, CaddyfileType DEF SyncCommits, ApplySelected, PanelTypeOK, MitaState
<1>3. swept' \in BOOLEAN
  BY DEF SyncCommits
<1> QED
  BY <1>1, <1>2, <1>3 DEF SyncCommits, PanelTypeOK, handler

LEMMA PanelTypeStep == PanelTypeOK /\ SettingsTypeOK' /\ [PanelNext]_panelVars => PanelTypeOK'
<1> SUFFICES ASSUME PanelTypeOK, SettingsTypeOK', [PanelNext]_panelVars PROVE PanelTypeOK'
  OBVIOUS
<1> USE DEF PanelTypeOK, services, handler, record, settingsVars, Legs, Ops
<1>1. ASSUME NEW u \in Edits(users), ChangeUsers(u) PROVE PanelTypeOK'
  <2>1. u \in SUBSET User
    BY <1>1 DEF Edits
  <2> QED
    BY <1>1, <2>1 DEF ChangeUsers, Start
<1>2. ASSUME NEW s \in Settable, ChangeCaddy(s) PROVE PanelTypeOK'
  BY <1>2 DEF ChangeCaddy, Start
<1>3. ASSUME NEW s \in Settable, ChangeCascade(s) PROVE PanelTypeOK'
  BY <1>3 DEF ChangeCascade, Start
<1>4. ASSUME Rebuild PROVE PanelTypeOK'
  BY <1>4 DEF Rebuild, Start
<1>5. ASSUME ChangeMieru PROVE PanelTypeOK'
  BY <1>5 DEF ChangeMieru, Start
<1>6. ASSUME pc = "idle", Settings, UNCHANGED <<users, services, handler, record>>
      PROVE  PanelTypeOK'
  BY <1>6
<1>7. ASSUME WriteCaddyfile PROVE PanelTypeOK'
  BY <1>7, CaddyfileType DEF SettingsTypeOK, WriteCaddyfile, LegDone, Goto
<1>8. ASSUME WriteCaddyfileFails PROVE PanelTypeOK'
  BY <1>8 DEF WriteCaddyfileFails, LegFails, Goto
<1>9. ASSUME ReloadRefused PROVE PanelTypeOK'
  BY <1>9 DEF ReloadRefused, LegFails, Goto
<1>10. ASSUME ReloadCaddy PROVE PanelTypeOK'
  BY <1>10 DEF ReloadCaddy, LegDone, Goto
<1>11. ASSUME ReloadFails PROVE PanelTypeOK'
  BY <1>11 DEF ReloadFails, LegFails, Goto
<1>12. ASSUME WriteMitaState PROVE PanelTypeOK'
  BY <1>12 DEF MitaState, WriteMitaState, LegDone, Goto
<1>13. ASSUME WriteMitaStateThrows PROVE PanelTypeOK'
  BY <1>13 DEF WriteMitaStateThrows, Goto
<1>14. ASSUME DriveMita PROVE PanelTypeOK'
  BY <1>14 DEF DriveMita, LegDone, Goto
<1>15. ASSUME DriveMitaFails PROVE PanelTypeOK'
  BY <1>15 DEF DriveMitaFails, LegFails, Goto
<1>16. ASSUME StopMitaFails PROVE PanelTypeOK'
  BY <1>16 DEF StopMitaFails, LegDone, Goto
<1>17. ASSUME Revert PROVE PanelTypeOK'
  BY <1>17 DEF Revert
<1>18. ASSUME Answer PROVE PanelTypeOK'
  BY <1>18 DEF Answer, Finish, Full, Clean
<1>19. ASSUME NEW l \in SUBSET Syncable, SyncCommits(l) PROVE PanelTypeOK'
  BY <1>19, CommitType
<1>20. ASSUME SyncFails PROVE PanelTypeOK'
  BY <1>20, CaddyfileType DEF SettingsTypeOK, MitaState, SyncFails, ApplySelected,
     Applicable
<1>21. ASSUME StopService PROVE PanelTypeOK'
  BY <1>21 DEF StopService
<1>22. ASSUME StartService PROVE PanelTypeOK'
  BY <1>22 DEF StartService, Started
<1>23. ASSUME Crash PROVE PanelTypeOK'
  BY <1>23 DEF Crash
<1>24. ASSUME Reboot PROVE PanelTypeOK'
  BY <1>24 DEF Reboot, Started
<1>25. ASSUME ScriptStep, UNCHANGED <<users, services, handler, record>>
       PROVE  PanelTypeOK'
  BY <1>25
<1>26. CASE UNCHANGED panelVars
  BY <1>26 DEF panelVars
<1> QED
  BY <1>1, <1>2, <1>3, <1>4, <1>5, <1>6, <1>7, <1>8, <1>9, <1>10, <1>11, <1>12,
     <1>13, <1>14, <1>15, <1>16, <1>17, <1>18, <1>19, <1>20, <1>21, <1>22, <1>23,
     <1>24, <1>25, <1>26 DEF PanelNext, Requests, Round

(***************************************************************************)
(* The inductive invariant.  RoundProgress says how much of a round is     *)
(* done; CaddyKeeps and MitaKeeps that a service the round has not reached *)
(* still runs the table the round began with, so that a change and its     *)
(* revert both start from something known.                                 *)
(***************************************************************************)
LEMMA AnswerKeepsMita == ASSUME PanelInv, Answer PROVE MitaKeeps'
<1>1. UNCHANGED <<users, mita, mitafile>> /\ op' = "none" /\ pc = "end"
  BY DEF Answer, Finish, services
<1>2. ASSUME ~hit
      PROVE  \/ op = "naive"
             \/ op = "both" /\ mem.caddy \notin Valid
             \/ mitafile = MitaState(users) /\ mita = mitafile
  BY <1>1, <1>2 DEF PanelInv, RoundProgress
<1>3. ASSUME ~hit, Clean PROVE mitafile = MitaState(users) /\ mita = mitafile
  BY <1>1, <1>3, <1>2 DEF PanelInv, RoundProgress, Clean, Full, Past, Caddyfile
<1>4. ASSUME ~damaged', Selected = "mieru" \/ swept'
      PROVE  mitafile = MitaState(users) /\ mita = mitafile
  <2>1. ~hit /\ (damaged => Clean) /\ (Selected = "mieru" \/ swept \/ Clean)
    BY <1>4 DEF Answer, Finish
  <2>2. CASE Clean
    BY <2>1, <2>2, <1>3
  <2>3. CASE ~Clean
    <3>1. ~damaged /\ (Selected = "mieru" \/ swept)
      BY <2>1, <2>3
    <3>2. MitaUntouched => mita = Base \cap MieruUser /\ mitafile = mita
      BY <3>1 DEF PanelInv, MitaKeeps
    <3>3. op = "naive" \/ (op = "both" /\ mem.caddy \notin Valid) => MitaUntouched /\ Base = users
      BY DEF MitaUntouched, Base
    <3> QED
      BY <1>2, <2>1, <3>2, <3>3 DEF MitaState
  <2> QED
    BY <2>2, <2>3
<1> QED
  BY <1>1, <1>4 DEF MitaKeeps, Base, MitaState

LEMMA CommitKeepsMita ==
  ASSUME PanelInv, NEW l \in SUBSET Syncable, SyncCommits(l)
  PROVE  MitaKeeps'
<1>1. op' = "none" /\ users' = l /\ damaged' = damaged
  BY DEF PanelInv, RoundControl, SyncCommits, handler
<1>2. CASE Selected = "naive"
  BY <1>1, <1>2 DEF SyncCommits, ApplySelected, MitaKeeps, Base, Syncable
<1>3. CASE Selected = "mieru"
  BY <1>1, <1>3 DEF SyncCommits, ApplySelected, MitaKeeps, Base, MitaState
<1> QED
  BY <1>2, <1>3, PanelAssumption

LEMMA RequestsPreserve == PanelInv /\ PanelTypeOK' /\ (Requests) => PanelInv'
<1> SUFFICES ASSUME PanelInv, PanelTypeOK', Requests PROVE PanelInv'
  OBVIOUS
<1> USE DEF PanelInv, services, handler, record, settingsVars, settings
<1>1. ASSUME NEW u \in Edits(users), ChangeUsers(u) PROVE PanelInv'
  <2>1. RoundControl' /\ TableRecorded'
    BY <1>1 DEF RoundControl, TableRecorded, Base, ChangeUsers, Start, Edits
  <2>2. RoundProgress'
    BY <1>1 DEF RoundProgress, Past, Caddyfile, MitaState, RoundControl,
       ChangeUsers, Start, Edits
  <2>3. CaddyKeeps'
    BY <1>1, PanelAssumption DEF CaddyKeeps, CaddyUntouched, Base, RoundControl,
       ChangeUsers, Start, Edits
  <2>4. MitaKeeps'
    BY <1>1 DEF MitaKeeps, MitaUntouched, Base, RoundControl, MitaState,
       ChangeUsers, Start, Edits
  <2>5. RefusalRecorded'
    BY <1>1 DEF RefusalRecorded, RoundControl, ChangeUsers, Start, Edits
  <2> QED
    BY <2>1, <2>2, <2>3, <2>4, <2>5
<1>2. ASSUME NEW s \in Settable, ChangeCaddy(s) PROVE PanelInv'
  <2>1. RoundControl' /\ TableRecorded'
    BY <1>2 DEF RoundControl, TableRecorded, Base, ChangeCaddy, Start
  <2>2. RoundProgress'
    BY <1>2 DEF RoundProgress, Past, Caddyfile, MitaState, RoundControl,
       ChangeCaddy, Start
  <2>3. CaddyKeeps'
    BY <1>2, PanelAssumption DEF CaddyKeeps, CaddyUntouched, Base, RoundControl,
       ChangeCaddy, Start
  <2>4. MitaKeeps'
    BY <1>2 DEF MitaKeeps, MitaUntouched, Base, RoundControl, MitaState,
       ChangeCaddy, Start
  <2>5. RefusalRecorded'
    BY <1>2 DEF RefusalRecorded, RoundControl, ChangeCaddy, Start
  <2> QED
    BY <2>1, <2>2, <2>3, <2>4, <2>5
<1>3. ASSUME NEW s \in Settable, ChangeCascade(s) PROVE PanelInv'
  <2>1. RoundControl' /\ TableRecorded'
    BY <1>3 DEF RoundControl, TableRecorded, Base, ChangeCascade, Start
  <2>2. RoundProgress'
    BY <1>3 DEF RoundProgress, Past, Caddyfile, MitaState, RoundControl,
       ChangeCascade, Start
  <2>3. CaddyKeeps'
    BY <1>3, PanelAssumption DEF CaddyKeeps, CaddyUntouched, Base, RoundControl,
       ChangeCascade, Start
  <2>4. MitaKeeps'
    BY <1>3 DEF MitaKeeps, MitaUntouched, Base, RoundControl, MitaState,
       ChangeCascade, Start
  <2>5. RefusalRecorded'
    BY <1>3 DEF RefusalRecorded, RoundControl, ChangeCascade, Start
  <2> QED
    BY <2>1, <2>2, <2>3, <2>4, <2>5
<1>4. ASSUME Rebuild PROVE PanelInv'
  <2>1. RoundControl' /\ TableRecorded'
    BY <1>4 DEF RoundControl, TableRecorded, Base, Rebuild, Start
  <2>2. RoundProgress'
    BY <1>4 DEF RoundProgress, Past, Caddyfile, MitaState, RoundControl, Rebuild,
       Start
  <2>3. CaddyKeeps'
    BY <1>4, PanelAssumption DEF CaddyKeeps, CaddyUntouched, Base, RoundControl,
       Rebuild, Start
  <2>4. MitaKeeps'
    BY <1>4 DEF MitaKeeps, MitaUntouched, Base, RoundControl, MitaState, Rebuild,
       Start
  <2>5. RefusalRecorded'
    BY <1>4 DEF RefusalRecorded, RoundControl, Rebuild, Start
  <2> QED
    BY <2>1, <2>2, <2>3, <2>4, <2>5
<1>5. ASSUME ChangeMieru PROVE PanelInv'
  <2>1. RoundControl' /\ TableRecorded'
    BY <1>5 DEF RoundControl, TableRecorded, Base, ChangeMieru, Start
  <2>2. RoundProgress'
    BY <1>5 DEF RoundProgress, Past, Caddyfile, MitaState, RoundControl,
       ChangeMieru, Start
  <2>3. CaddyKeeps'
    BY <1>5, PanelAssumption DEF CaddyKeeps, CaddyUntouched, Base, RoundControl,
       ChangeMieru, Start
  <2>4. MitaKeeps'
    BY <1>5 DEF MitaKeeps, MitaUntouched, Base, RoundControl, MitaState,
       ChangeMieru, Start
  <2>5. RefusalRecorded'
    BY <1>5 DEF RefusalRecorded, RoundControl, ChangeMieru, Start
  <2> QED
    BY <2>1, <2>2, <2>3, <2>4, <2>5
<1>6. ASSUME pc = "idle", Settings, UNCHANGED <<users, services, handler, record>>
      PROVE  PanelInv'
  <2>1. RoundControl' /\ TableRecorded'
    BY <1>6 DEF RoundControl, TableRecorded, Base
  <2>2. RoundProgress'
    BY <1>6 DEF RoundProgress, Past, Caddyfile, MitaState, RoundControl
  <2>3. CaddyKeeps'
    BY <1>6, PanelAssumption DEF CaddyKeeps, CaddyUntouched, Base, RoundControl
  <2>4. MitaKeeps'
    BY <1>6 DEF MitaKeeps, MitaUntouched, Base, RoundControl, MitaState
  <2>5. RefusalRecorded'
    BY <1>6 DEF RefusalRecorded, RoundControl
  <2> QED
    BY <2>1, <2>2, <2>3, <2>4, <2>5
<1> QED
  BY <1>1, <1>2, <1>3, <1>4, <1>5, <1>6 DEF Requests

LEMMA RoundPreserves == PanelInv /\ PanelTypeOK' /\ (Round) => PanelInv'
<1> SUFFICES ASSUME PanelInv, PanelTypeOK', Round PROVE PanelInv'
  OBVIOUS
<1> USE DEF PanelInv, services, handler, record, settingsVars, settings
<1>1. ASSUME WriteCaddyfile PROVE PanelInv'
  <2>1. RoundControl' /\ TableRecorded'
    BY <1>1 DEF RoundControl, TableRecorded, Base, WriteCaddyfile, LegDone, Goto
  <2>2. RoundProgress'
    BY <1>1 DEF RoundProgress, Past, Caddyfile, MitaState, RoundControl,
       WriteCaddyfile, LegDone, Goto
  <2>3. CaddyKeeps'
    BY <1>1, PanelAssumption DEF CaddyKeeps, CaddyUntouched, Base, RoundControl,
       WriteCaddyfile, LegDone, Goto
  <2>4. MitaKeeps'
    BY <1>1 DEF MitaKeeps, MitaUntouched, Base, RoundControl, MitaState,
       WriteCaddyfile, LegDone, Goto
  <2>5. RefusalRecorded'
    BY <1>1 DEF RefusalRecorded, RoundControl, WriteCaddyfile, LegDone, Goto
  <2> QED
    BY <2>1, <2>2, <2>3, <2>4, <2>5
<1>2. ASSUME WriteCaddyfileFails PROVE PanelInv'
  <2>1. RoundControl' /\ TableRecorded'
    BY <1>2 DEF RoundControl, TableRecorded, Base, WriteCaddyfileFails, LegFails,
       Goto
  <2>2. RoundProgress'
    BY <1>2 DEF RoundProgress, Past, Caddyfile, MitaState, RoundControl,
       WriteCaddyfileFails, LegFails, Goto
  <2>3. CaddyKeeps'
    BY <1>2, PanelAssumption DEF CaddyKeeps, CaddyUntouched, Base, RoundControl,
       WriteCaddyfileFails, LegFails, Goto
  <2>4. MitaKeeps'
    BY <1>2 DEF MitaKeeps, MitaUntouched, Base, RoundControl, MitaState,
       WriteCaddyfileFails, LegFails, Goto
  <2>5. RefusalRecorded'
    BY <1>2 DEF RefusalRecorded, RoundControl, WriteCaddyfileFails, LegFails, Goto
  <2> QED
    BY <2>1, <2>2, <2>3, <2>4, <2>5
<1>3. ASSUME ReloadRefused PROVE PanelInv'
  <2>1. RoundControl' /\ TableRecorded'
    BY <1>3 DEF RoundControl, TableRecorded, Base, ReloadRefused, LegFails, Goto
  <2>2. RoundProgress'
    BY <1>3 DEF RoundProgress, Past, Caddyfile, MitaState, RoundControl,
       PanelTypeOK, Legs, Ops, Proxy, ReloadRefused, LegFails, Goto
  <2>3. CaddyKeeps'
    BY <1>3, PanelAssumption DEF CaddyKeeps, CaddyUntouched, Base, RoundControl,
       ReloadRefused, LegFails, Goto
  <2>4. MitaKeeps'
    BY <1>3 DEF MitaKeeps, MitaUntouched, Base, RoundControl, MitaState,
       ReloadRefused, LegFails, Goto
  <2>5. RefusalRecorded'
    BY <1>3 DEF RefusalRecorded, RoundControl, ReloadRefused, LegFails, Goto
  <2> QED
    BY <2>1, <2>2, <2>3, <2>4, <2>5
<1>4. ASSUME ReloadCaddy PROVE PanelInv'
  <2>1. RoundControl' /\ TableRecorded'
    BY <1>4 DEF RoundControl, TableRecorded, Base, ReloadCaddy, LegDone, Goto
  <2>2. RoundProgress'
    BY <1>4 DEF RoundProgress, Past, Caddyfile, MitaState, RoundControl,
       ReloadCaddy, LegDone, Goto
  <2>3. CaddyKeeps'
    BY <1>4, PanelAssumption DEF CaddyKeeps, CaddyUntouched, RoundControl,
       RoundProgress, Caddyfile, ReloadCaddy, LegDone, Goto
  <2>4. MitaKeeps'
    BY <1>4 DEF MitaKeeps, MitaUntouched, Base, RoundControl, MitaState,
       ReloadCaddy, LegDone, Goto
  <2>5. RefusalRecorded'
    BY <1>4 DEF RefusalRecorded, RoundControl, ReloadCaddy, LegDone, Goto
  <2> QED
    BY <2>1, <2>2, <2>3, <2>4, <2>5
<1>5. ASSUME ReloadFails PROVE PanelInv'
  <2>1. RoundControl' /\ TableRecorded'
    BY <1>5 DEF RoundControl, TableRecorded, Base, ReloadFails, LegFails, Goto
  <2>2. RoundProgress'
    BY <1>5 DEF RoundProgress, Past, Caddyfile, MitaState, RoundControl,
       ReloadFails, LegFails, Goto
  <2>3. CaddyKeeps'
    BY <1>5, PanelAssumption DEF CaddyKeeps, CaddyUntouched, RoundControl,
       RoundProgress, Caddyfile, ReloadFails, LegFails, Goto
  <2>4. MitaKeeps'
    BY <1>5 DEF MitaKeeps, MitaUntouched, Base, RoundControl, MitaState,
       ReloadFails, LegFails, Goto
  <2>5. RefusalRecorded'
    BY <1>5 DEF RefusalRecorded, RoundControl, ReloadFails, LegFails, Goto
  <2> QED
    BY <2>1, <2>2, <2>3, <2>4, <2>5
<1>6. ASSUME WriteMitaState PROVE PanelInv'
  <2>1. RoundControl' /\ TableRecorded'
    BY <1>6 DEF RoundControl, TableRecorded, Base, WriteMitaState, LegDone, Goto
  <2>2. RoundProgress'
    BY <1>6 DEF RoundProgress, Past, Caddyfile, MitaState, RoundControl,
       WriteMitaState, LegDone, Goto
  <2>3. CaddyKeeps'
    BY <1>6, PanelAssumption DEF CaddyKeeps, CaddyUntouched, Base, RoundControl,
       WriteMitaState, LegDone, Goto
  <2>4. MitaKeeps'
    BY <1>6 DEF MitaKeeps, MitaUntouched, Base, RoundControl, MitaState,
       WriteMitaState, LegDone, Goto
  <2>5. RefusalRecorded'
    BY <1>6 DEF RefusalRecorded, RoundControl, WriteMitaState, LegDone, Goto
  <2> QED
    BY <2>1, <2>2, <2>3, <2>4, <2>5
<1>7. ASSUME WriteMitaStateThrows PROVE PanelInv'
  <2>1. RoundControl' /\ TableRecorded'
    BY <1>7 DEF RoundControl, TableRecorded, Base, WriteMitaStateThrows, Goto
  <2>2. RoundProgress'
    BY <1>7 DEF RoundProgress, Past, Caddyfile, MitaState, RoundControl,
       WriteMitaStateThrows, Goto
  <2>3. CaddyKeeps'
    BY <1>7, PanelAssumption DEF CaddyKeeps, CaddyUntouched, Base, RoundControl,
       WriteMitaStateThrows, Goto
  <2>4. MitaKeeps'
    BY <1>7 DEF MitaKeeps, MitaUntouched, Base, RoundControl, MitaState,
       WriteMitaStateThrows, Goto
  <2>5. RefusalRecorded'
    BY <1>7 DEF RefusalRecorded, RoundControl, WriteMitaStateThrows, Goto
  <2> QED
    BY <2>1, <2>2, <2>3, <2>4, <2>5
<1>8. ASSUME DriveMita PROVE PanelInv'
  <2>1. RoundControl' /\ TableRecorded'
    BY <1>8 DEF RoundControl, TableRecorded, Base, DriveMita, LegDone, Goto
  <2>2. RoundProgress'
    BY <1>8 DEF RoundProgress, Past, Caddyfile, MitaState, RoundControl, DriveMita,
       LegDone, Goto
  <2>3. CaddyKeeps'
    BY <1>8, PanelAssumption DEF CaddyKeeps, CaddyUntouched, Base, RoundControl,
       DriveMita, LegDone, Goto
  <2>4. MitaKeeps'
    BY <1>8 DEF MitaKeeps, MitaUntouched, Base, RoundControl, RoundProgress,
       MitaState, Caddyfile, Past, DriveMita, LegDone, Goto
  <2>5. RefusalRecorded'
    BY <1>8 DEF RefusalRecorded, RoundControl, DriveMita, LegDone, Goto
  <2> QED
    BY <2>1, <2>2, <2>3, <2>4, <2>5
<1>9. ASSUME DriveMitaFails PROVE PanelInv'
  <2>1. RoundControl' /\ TableRecorded'
    BY <1>9 DEF RoundControl, TableRecorded, Base, DriveMitaFails, LegFails, Goto
  <2>2. RoundProgress'
    BY <1>9 DEF RoundProgress, Past, Caddyfile, MitaState, RoundControl,
       DriveMitaFails, LegFails, Goto
  <2>3. CaddyKeeps'
    BY <1>9, PanelAssumption DEF CaddyKeeps, CaddyUntouched, Base, RoundControl,
       DriveMitaFails, LegFails, Goto
  <2>4. MitaKeeps'
    BY <1>9 DEF MitaKeeps, MitaUntouched, RoundControl, RoundProgress, Caddyfile,
       Past, DriveMitaFails, LegFails, Goto
  <2>5. RefusalRecorded'
    BY <1>9 DEF RefusalRecorded, RoundControl, DriveMitaFails, LegFails, Goto
  <2> QED
    BY <2>1, <2>2, <2>3, <2>4, <2>5
<1>10. ASSUME StopMitaFails PROVE PanelInv'
  <2>1. RoundControl' /\ TableRecorded'
    BY <1>10 DEF RoundControl, TableRecorded, Base, StopMitaFails, LegDone, Goto
  <2>2. RoundProgress'
    BY <1>10 DEF RoundProgress, Past, Caddyfile, MitaState, RoundControl,
       StopMitaFails, LegDone, Goto
  <2>3. CaddyKeeps'
    BY <1>10, PanelAssumption DEF CaddyKeeps, CaddyUntouched, Base, StopMitaFails,
       LegDone, Goto
  <2>4. MitaKeeps'
    BY <1>10 DEF MitaKeeps, MitaUntouched, Base, RoundControl, RoundProgress,
       Caddyfile, Past, MitaState, StopMitaFails, LegDone, Goto
  <2>5. RefusalRecorded'
    BY <1>10 DEF RefusalRecorded, RoundControl, StopMitaFails, LegDone, Goto
  <2> QED
    BY <2>1, <2>2, <2>3, <2>4, <2>5
<1>11. ASSUME Revert PROVE PanelInv'
  <2>1. RoundControl' /\ TableRecorded'
    BY <1>11 DEF RoundControl, TableRecorded, Base, Revert
  <2>2. RoundProgress'
    BY <1>11 DEF RoundProgress, Past, Caddyfile, MitaState, RoundControl, Revert
  <2>3. CaddyKeeps'
    BY <1>11, PanelAssumption DEF CaddyKeeps, CaddyUntouched, Base, Revert
  <2>4. MitaKeeps'
    BY <1>11 DEF MitaKeeps, MitaUntouched, Revert
  <2>5. RefusalRecorded'
    BY <1>11 DEF RefusalRecorded, RoundControl, Revert
  <2> QED
    BY <2>1, <2>2, <2>3, <2>4, <2>5
<1>12. ASSUME Answer PROVE PanelInv'
  <2>1. RoundControl' /\ TableRecorded'
    BY <1>12 DEF RoundControl, TableRecorded, Base, Answer, Finish, Full, Clean
  <2>2. RoundProgress'
    BY <1>12 DEF RoundProgress, Past, Caddyfile, MitaState, RoundControl, Answer,
       Finish, Full, Clean
  <2>3. CaddyKeeps'
    BY <1>12, PanelAssumption DEF CaddyKeeps, CaddyUntouched, Base, RoundControl,
       RoundProgress, Caddyfile, Past, PanelTypeOK, Legs, Ops, Proxy, Answer,
       Finish, Full, Clean
  <2>4. MitaKeeps'
    BY <1>12, AnswerKeepsMita
  <2>5. RefusalRecorded'
    BY <1>12 DEF RefusalRecorded, PanelTypeOK, Ops, RoundControl, RoundProgress,
       Past, Answer, Finish, Full, Clean
  <2> QED
    BY <2>1, <2>2, <2>3, <2>4, <2>5
<1> QED
  BY <1>1, <1>2, <1>3, <1>4, <1>5, <1>6, <1>7, <1>8, <1>9, <1>10, <1>11, <1>12 DEF
     Round

LEMMA SyncPreserves ==
  PanelInv /\ PanelTypeOK' /\ ((\E l \in SUBSET Syncable : SyncCommits(l)) \/ SyncFails)
    => PanelInv'
<1> SUFFICES ASSUME PanelInv, PanelTypeOK',
                    (\E l \in SUBSET Syncable : SyncCommits(l)) \/ SyncFails
             PROVE  PanelInv'
  OBVIOUS
<1> USE DEF PanelInv, services, handler, record, settingsVars, settings
<1>1. ASSUME NEW l \in SUBSET Syncable, SyncCommits(l) PROVE PanelInv'
  <2>1. RoundControl' /\ TableRecorded'
    BY <1>1 DEF RoundControl, TableRecorded, Base, SyncCommits, ApplySelected,
       Applicable, Syncable
  <2>2. RoundProgress'
    BY <1>1 DEF RoundProgress, Past, Caddyfile, MitaState, RoundControl,
       SyncCommits, ApplySelected, Applicable, Syncable
  <2>3. CaddyKeeps'
    BY <1>1, PanelAssumption DEF CaddyKeeps, CaddyUntouched, Base, RoundControl,
       Caddyfile, PanelTypeOK, Legs, Ops, Proxy, SyncCommits, ApplySelected,
       Applicable, Syncable
  <2>4. MitaKeeps'
    BY <1>1, CommitKeepsMita
  <2>5. RefusalRecorded'
    BY <1>1 DEF RefusalRecorded, RoundControl, Caddyfile, SyncCommits,
       ApplySelected, Applicable, Syncable
  <2> QED
    BY <2>1, <2>2, <2>3, <2>4, <2>5
<1>2. ASSUME SyncFails PROVE PanelInv'
  <2>1. RoundControl' /\ TableRecorded'
    BY <1>2 DEF RoundControl, TableRecorded, Base, SyncFails, ApplySelected,
       Applicable
  <2>2. RoundProgress'
    BY <1>2 DEF RoundProgress, Past, Caddyfile, MitaState, RoundControl, SyncFails,
       ApplySelected, Applicable
  <2>3. CaddyKeeps'
    BY <1>2, PanelAssumption DEF CaddyKeeps, CaddyUntouched, Base, RoundControl,
       Caddyfile, PanelTypeOK, Legs, Ops, Proxy, SyncFails, ApplySelected,
       Applicable
  <2>4. MitaKeeps'
    BY <1>2 DEF MitaKeeps, MitaUntouched, Base, RoundControl, MitaState, SyncFails,
       ApplySelected, Applicable
  <2>5. RefusalRecorded'
    BY <1>2 DEF RefusalRecorded, RoundControl, Caddyfile, SyncFails, ApplySelected,
       Applicable
  <2> QED
    BY <2>1, <2>2, <2>3, <2>4, <2>5
<1> QED
  BY <1>1, <1>2

LEMMA ScriptsPreserve ==
  PanelInv /\ PanelTypeOK' /\ ScriptStep /\ UNCHANGED <<users, services, handler, record>>
    => PanelInv'
<1>1. ScriptStep => UNCHANGED mem
  BY DEF ScriptStep, ScriptReads, SetStaticSite, MigrateTruncates, MigrateWrites, WriteBack
<1> QED
  BY <1>1 DEF services, handler, record, PanelInv, RoundControl, RoundProgress, CaddyKeeps,
     MitaKeeps, TableRecorded, RefusalRecorded, CaddyUntouched, MitaUntouched, Base, Caddyfile,
     MitaState

LEMMA OutsidePreserves ==
  PanelInv /\ PanelTypeOK' /\ (StopService \/ StartService \/ Crash \/ Reboot)
    => PanelInv'
<1> SUFFICES ASSUME PanelInv, PanelTypeOK',
                    StopService \/ StartService \/ Crash \/ Reboot
             PROVE  PanelInv'
  OBVIOUS
<1> USE DEF PanelInv, services, handler, record, settingsVars, settings
<1>1. ASSUME StopService PROVE PanelInv'
  <2>1. RoundControl' /\ TableRecorded'
    BY <1>1 DEF RoundControl, TableRecorded, Base, StopService
  <2>2. RoundProgress'
    BY <1>1 DEF RoundProgress, Past, Caddyfile, MitaState, RoundControl, StopService
  <2>3. CaddyKeeps'
    BY <1>1, PanelAssumption DEF CaddyKeeps, CaddyUntouched, Base, RoundControl,
       StopService
  <2>4. MitaKeeps'
    BY <1>1 DEF MitaKeeps, MitaUntouched, Base, RoundControl, MitaState, StopService
  <2>5. RefusalRecorded'
    BY <1>1 DEF RefusalRecorded, RoundControl, StopService
  <2> QED
    BY <2>1, <2>2, <2>3, <2>4, <2>5
<1>2. ASSUME StartService PROVE PanelInv'
  <2>1. RoundControl' /\ TableRecorded'
    BY <1>2 DEF RoundControl, TableRecorded, Base, StartService, Started
  <2>2. RoundProgress'
    BY <1>2 DEF RoundProgress, Past, Caddyfile, MitaState, RoundControl,
       StartService, Started
  <2>3. CaddyKeeps'
    BY <1>2, PanelAssumption DEF CaddyKeeps, CaddyUntouched, Base, RoundControl,
       Caddyfile, PanelTypeOK, Legs, Ops, Proxy, StartService, Started
  <2>4. MitaKeeps'
    BY <1>2 DEF MitaKeeps, MitaUntouched, Base, RoundControl, MitaState,
       StartService, Started
  <2>5. RefusalRecorded'
    BY <1>2 DEF RefusalRecorded, RoundControl, StartService, Started
  <2> QED
    BY <2>1, <2>2, <2>3, <2>4, <2>5
<1>3. ASSUME Crash PROVE PanelInv'
  <2>1. RoundControl' /\ TableRecorded'
    BY <1>3 DEF RoundControl, TableRecorded, Base, Crash
  <2>2. RoundProgress'
    BY <1>3 DEF RoundProgress, Past, Caddyfile, MitaState, RoundControl, Crash
  <2>3. CaddyKeeps'
    BY <1>3, PanelAssumption DEF CaddyKeeps, CaddyUntouched, Base, RoundControl,
       PanelTypeOK, Legs, Ops, Proxy, Crash
  <2>4. MitaKeeps'
    BY <1>3 DEF MitaKeeps, MitaUntouched, Base, RoundControl, MitaState, Crash
  <2>5. RefusalRecorded'
    BY <1>3 DEF RefusalRecorded, RoundControl, Crash
  <2> QED
    BY <2>1, <2>2, <2>3, <2>4, <2>5
<1>4. ASSUME Reboot PROVE PanelInv'
  <2>1. RoundControl' /\ TableRecorded'
    BY <1>4 DEF RoundControl, TableRecorded, Base, Reboot, Started
  <2>2. RoundProgress'
    BY <1>4 DEF RoundProgress, Past, Caddyfile, MitaState, RoundControl, Reboot,
       Started
  <2>3. CaddyKeeps'
    BY <1>4, PanelAssumption DEF CaddyKeeps, CaddyUntouched, Base, RoundControl,
       Caddyfile, PanelTypeOK, Legs, Ops, Proxy, Reboot, Started
  <2>4. MitaKeeps'
    BY <1>4 DEF MitaKeeps, MitaUntouched, Base, RoundControl, MitaState, Reboot,
       Started
  <2>5. RefusalRecorded'
    BY <1>4 DEF RefusalRecorded, RoundControl, Reboot, Started
  <2> QED
    BY <2>1, <2>2, <2>3, <2>4, <2>5
<1> QED
  BY <1>1, <1>2, <1>3, <1>4

\* The invariant holds in every reachable state.
THEOREM PanelInvariance == PanelSpec => []PanelInv
<1>1. PanelInit => PanelInv
  <2> SUFFICES ASSUME PanelInit PROVE PanelInv
    OBVIOUS
  <2>1. SettingsTypeOK
    BY SettingsInitially DEF PanelInit, SettingsInv
  <2>2. caddyfile \in Proxy /\ caddy = caddyfile /\ caddyfile.setting \in Valid
    BY <2>1, CaddyfileType DEF PanelInit, SettingsTypeOK, Caddyfile
  <2>3. caddyfile.users = {} /\ caddy # Down
    BY <2>2, PanelAssumption DEF PanelInit, Caddyfile, Proxy
  <2>4. PanelTypeOK
    BY <2>1, <2>2 DEF PanelInit, PanelTypeOK, Legs, Ops
  <2>5. RoundControl /\ TableRecorded /\ RefusalRecorded
    BY <2>2 DEF PanelInit, RoundControl, TableRecorded, RefusalRecorded, Base
  <2>6. RoundProgress
    BY DEF PanelInit, RoundProgress, Past
  <2>7. CaddyKeeps
    BY <2>2, <2>3 DEF PanelInit, CaddyKeeps, Base
  <2>8. MitaKeeps
    BY DEF PanelInit, MitaKeeps, Base
  <2> QED
    BY <2>4, <2>5, <2>6, <2>7, <2>8 DEF PanelInv
<1>2. PanelInv /\ SettingsTypeOK' /\ [PanelNext]_panelVars => PanelInv'
  <2> SUFFICES ASSUME PanelInv, SettingsTypeOK', [PanelNext]_panelVars PROVE PanelInv'
    OBVIOUS
  <2>1. PanelTypeOK'
    BY PanelTypeStep DEF PanelInv
  <2>2. CASE UNCHANGED panelVars
    BY <2>1, <2>2 DEF panelVars, services, handler, record, settingsVars, settings, PanelInv,
       RoundControl, RoundProgress, CaddyKeeps, MitaKeeps, TableRecorded, RefusalRecorded,
       CaddyUntouched, MitaUntouched, Base, Caddyfile, MitaState
  <2> QED
    BY <2>1, <2>2, RequestsPreserve, RoundPreserves, SyncPreserves, ScriptsPreserve,
       OutsidePreserves DEF PanelNext
<1>3. SettingsInv => SettingsTypeOK
  BY DEF SettingsInv
<1> QED
  BY <1>1, <1>2, <1>3, SettingsInvariance, PTL DEF PanelSpec

\* Between requests an undamaged node serves the table: applyAllConfigs, its
\* revert, the settings handlers and the syncs of the selected protocol keep
\* both services on it, whichever leg refuses.
THEOREM SettledTheorem == PanelSpec => []SettledServesTable
<1>1. PanelInv => SettledServesTable
  <2> SUFFICES ASSUME PanelInv, pc = "idle", ~damaged
               PROVE  /\ Selected = "naive" \/ swept => CaddyServes
                      /\ Selected = "mieru" \/ swept => MitaServes
    BY DEF SettledServesTable
  <2>1. op = "none"
    BY DEF PanelInv, RoundControl
  <2> QED
    BY <2>1 DEF PanelInv, CaddyKeeps, MitaKeeps, CaddyUntouched, MitaUntouched, Base,
       CaddyServes, MitaServes
<1> QED
  BY <1>1, PanelInvariance, PTL

\* A failed change of users does not part the table from the recorded list.
THEOREM DriftTheorem == PanelSpec => []NoSilentDrift
<1>1. PanelInv => NoSilentDrift
  BY DEF PanelInv, RoundControl, TableRecorded, Base, NoSilentDrift
<1> QED
  BY <1>1, PanelInvariance, PTL

\* A Caddyfile Caddy refuses stays only where a failure was reported.
THEOREM RefusalTheorem == PanelSpec => []BrokenFileWasReported
<1>1. PanelInv => BrokenFileWasReported
  BY DEF PanelInv, RoundControl, RefusalRecorded, BrokenFileWasReported
<1> QED
  BY <1>1, PanelInvariance, PTL

=============================================================================
