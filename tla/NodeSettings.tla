---------------------------- MODULE NodeSettings ----------------------------
(***************************************************************************)
(* The agent's configuration (panel/server/index.js): read from            *)
(* config.json once, at startup; changed in memory by the settings         *)
(* handlers; written back as a whole by saveConfig, which swallows its     *)
(* failure.  The handlers are synchronous, so each is one action.          *)
(*                                                                         *)
(* static-site.sh and update.sh edit the same file while the agent runs:   *)
(* each reads the whole file, changes a field and writes the whole file,   *)
(* with the agent free to save in between.  One script runs at a time.     *)
(***************************************************************************)

CONSTANTS
  Ip,        \* the addresses the Backend Panel can call from
  Setting,   \* values of what the Caddyfile takes from the configuration
  Legacy,    \* those of them that lack probeMode, written by an older version
  Site,      \* values of staticSite, which only the scripts write
  Fields,    \* the fields patches carry
  EnvIsSet,  \* BACKEND_ALLOWED_IPS is in the environment
  EnvAllow,  \* the addresses it lists
  DefaultAllow, DefaultCaddy, DefaultSite,  \* what an agent has without a file
  Scripts,   \* the scripts the operator runs
  Lost,      \* no staticSite value is known to be the last one
  None,      \* no script has read the file
  Torn       \* a file that is no JSON: it is being written, or its writer died

Conf == [allow : SUBSET Ip, any : BOOLEAN, caddy : Setting, site : Site]

ASSUME SettingsAssumption ==
  /\ Fields \subseteq {"allow", "any", "caddy"}
  /\ EnvIsSet \in BOOLEAN
  /\ EnvAllow \in SUBSET Ip
  /\ Lost \notin Site
  /\ Legacy \subseteq Setting
  /\ DefaultAllow \in SUBSET Ip /\ DefaultCaddy \in Setting \ Legacy /\ DefaultSite \in Site
  /\ Scripts \subseteq {"static-site", "update"}
  /\ None \notin Conf /\ Torn \notin Conf /\ None # Torn

VARIABLES
  mem,     \* cfg, the configuration the agent runs with
  disk,    \* config.json
  copy,    \* what a script has read of it and not written back
  behind,  \* history: memory and file may differ in what the agent itself writes
  unread,  \* history: staticSite was edited since the agent started
  edit,    \* history: the last staticSite written that no agent had to overwrite
  raced    \* history: the agent saved since the script read

settings == <<mem, disk, copy>>
tracked  == <<behind, unread, edit, raced>>
settingsVars == <<settings, tracked>>

SettingsTypeOK ==
  /\ mem \in Conf
  /\ disk \in Conf \cup {Torn}
  /\ copy \in Conf \cup {Torn, None}
  /\ raced \in BOOLEAN
  /\ behind \in BOOLEAN
  /\ unread \in BOOLEAN
  /\ edit \in Site \cup {Lost}

-----------------------------------------------------------------------------
(* Who may call: authorizeNodeRequest and requireInternalAuth.             *)

\* An address list that is not empty is the whole truth: allowAnyBackendIp
\* counts only when nothing is listed.
Admits(c, ip) == IF c.allow = {} THEN c.any ELSE ip \in c.allow

\* Nobody is let in, whatever secret he holds.
Locked(c) == \A ip \in Ip : ~Admits(c, ip)

-----------------------------------------------------------------------------

Default == [allow |-> DefaultAllow, any |-> FALSE, caddy |-> DefaultCaddy, site |-> DefaultSite]

\* What the agent runs with after reading the file: the defaults when it cannot
\* be parsed; the environment replaces the address list.
Load(f) == LET c == IF f = Torn THEN Default ELSE f
           IN IF EnvIsSet THEN [c EXCEPT !.allow = EnvAllow] ELSE c

\* The installer lists the Backend Panel's address.
SettingsInit ==
  /\ mem \in {Load(c) : c \in {d \in Conf : ~Locked(d) /\ ~d.any}}
  /\ disk = mem /\ copy = None
  /\ behind = FALSE
  /\ unread = FALSE
  /\ edit = disk.site
  /\ raced = FALSE

\* The fields of the agent itself.
Own(c) == <<c.allow, c.any, c.caddy>>

\* A configuration without probeMode once update.sh has added it.
Filled(c) == {[c EXCEPT !.caddy = s] : s \in IF c.caddy \in Legacy THEN Setting \ Legacy ELSE {}}

\* No request takes probeMode out of the configuration.
Settable == {s \in Setting : s \in Legacy => mem.caddy \in Legacy}

\* config.json is replaced by c.  An edit that was not read is gone, and a
\* script that is at work does not know c.
Replace(c) ==
  /\ disk' = c
  /\ behind' = FALSE
  /\ edit' = IF unread THEN Lost ELSE edit
  /\ raced' = (copy # None)
  /\ UNCHANGED <<copy, unread>>

\* Slip: the configuration is saved before the change is made.
SaveBeforeChange(c) == Replace(mem)

\* saveConfig: the whole of memory replaces the file, or nothing happens and
\* nobody is told.
Save(c) ==
  \/ Replace(c)
  \/ behind' = TRUE /\ UNCHANGED <<disk, copy, unread, edit, raced>>

\* The fields of a PATCH in the order they are looked at: the address list,
\* allowAnyBackendIp, a number, a log path that ends up in the Caddyfile, more
\* numbers.  stop names the first that does not validate.
Patch == [fields : SUBSET Fields, stop : {"none", "allow", "ttl", "hours"},
          allow : SUBSET Ip, any : BOOLEAN, caddy : Setting]

\* The fields that come before the invalid one.
Reached(p) == p.fields \cap (CASE p.stop = "allow" -> {}
                               [] p.stop = "ttl" -> {"allow", "any"}
                               [] OTHER -> {"allow", "any", "caddy"})

\* Each field that is valid is in memory before the next one is looked at.
Patched(c, p) ==
  [c EXCEPT !.allow = IF "allow" \in Reached(p) THEN p.allow ELSE @,
            !.any   = IF "any" \in Reached(p) THEN p.any ELSE @,
            !.caddy = IF "caddy" \in Reached(p) THEN p.caddy ELSE @]

\* The last check of applyNodeSettingsPatch.
NobodyListed(c) == c.allow = {} /\ ~c.any

PatchAccepted(p) ==
  /\ p.stop = "none"
  /\ ~NobodyListed(Patched(mem, p))
  /\ mem' = Patched(mem, p)
  /\ Save(Patched(mem, p))

\* 400: what was valid stays in memory and is not saved.
PatchRejected(p) ==
  /\ p.stop # "none" \/ NobodyListed(Patched(mem, p))
  /\ mem' = Patched(mem, p)
  /\ behind' = (behind \/ Own(mem') # Own(mem))
  /\ UNCHANGED <<disk, copy, unread, edit, raced>>

\* POST /api/config, language, password: stored and saved without a check.
StoreUnchecked(s) ==
  /\ mem' = [mem EXCEPT !.caddy = s]
  /\ Save(mem')

-----------------------------------------------------------------------------
(* The scripts.                                                            *)

ScriptReads ==
  /\ Scripts # {}
  /\ copy' = disk
  /\ raced' = FALSE
  /\ UNCHANGED <<mem, disk, behind, unread, edit>>

\* The whole of what was read is written back, changed to f; what the agent
\* saved meanwhile is undone.
WriteBack(f) ==
  /\ disk' = f
  /\ copy' = None
  /\ raced' = FALSE
  /\ behind' = (behind \/ raced \/ copy = Torn)
  /\ UNCHANGED mem

\* set_static_site_source: os.replace, and a file it cannot parse counts as empty.
SetStaticSite(s) ==
  /\ "static-site" \in Scripts
  /\ copy # None /\ (disk = Torn => copy = Torn)
  /\ WriteBack([(IF copy = Torn THEN Default ELSE copy) EXCEPT !.site = s])
  /\ unread' = TRUE
  /\ edit' = s

\* migrate_config: cat truncates the file ...
MigrateTruncates ==
  /\ "update" \in Scripts
  /\ copy \in Conf
  /\ disk' = Torn
  /\ UNCHANGED <<mem, copy, tracked>>

\* ... and fills it, with probeMode or another missing field added.  A save in
\* between put another file in its place.
MigrateWrites ==
  /\ disk = Torn
  /\ copy \in Conf
  /\ \E c \in {copy} \cup Filled(copy) : WriteBack(c)
  /\ UNCHANGED <<unread, edit>>

-----------------------------------------------------------------------------

\* The agent starts with c.
StartWith(c) ==
  /\ mem' = c
  /\ behind' = (disk = Torn \/ Own(c) # Own(disk))
  /\ unread' = FALSE
  /\ edit' = IF disk = Torn THEN Lost ELSE edit
  /\ UNCHANGED <<disk, copy, raced>>

\* Slip: the agent starts with the configuration of its predecessor.
RestartUnread == StartWith(Load(mem))

Restart == StartWith(Load(disk))

Settings ==
  \/ \E p \in Patch : p.caddy \in Settable /\ (PatchAccepted(p) \/ PatchRejected(p))
  \/ \E s \in Settable : StoreUnchecked(s)

ScriptStep ==
  \/ ScriptReads
  \/ \E s \in Site : SetStaticSite(s)
  \/ MigrateTruncates
  \/ MigrateWrites

SettingsSpec == SettingsInit /\ [][Settings \/ ScriptStep \/ Restart]_settingsVars

-----------------------------------------------------------------------------
(* Properties.                                                             *)

\* A change of staticSite made by a script is still in config.json, unless the
\* agent saved its own settings before it was restarted, or was started on a
\* torn file: restarting the agent after the script is enough to keep the
\* change, whatever is patched, rejected or fails to be saved before or after,
\* and whatever another script writes back.
EditKept ==
  edit # Lost => /\ disk # Torn => disk.site = edit
                 /\ ~unread => mem.site = edit

\* A restart changes none of what the agent itself writes, but for the probeMode
\* that update.sh adds, unless a patch was rejected half-way, a save failed or
\* fell between the read and the write of a script, the environment overrides
\* it, or a script is writing the file or died writing it.
RestartKeepsSettings ==
  ~behind /\ ~EnvIsSet /\ disk # Torn =>
    Own(Load(disk)) \in {Own(c) : c \in {mem} \cup Filled(mem)}

\* No patch, rejected or not, takes the last caller's access away
\* (index.js:719 refuses such a patch with "backendAllowedIps cannot be empty
\* unless allowAnyBackendIp=true").
PatchKeepsAccess ==
  [][(\E p \in Patch : PatchAccepted(p) \/ PatchRejected(p))
       => (Locked(mem') => Locked(mem))]_settingsVars

=============================================================================
