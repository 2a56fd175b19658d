----------------------------- MODULE ConfigSync -----------------------------
(***************************************************************************)
(* How a configuration made on the server reaches the agents of a vehicle:  *)
(* the operators' requests that change it (backend/app/devices/services.py, *)
(* backend/app/vehicle_profiles/services.py), the endpoint that puts it     *)
(* together (devices/routes.py), and the two programs of an agent that      *)
(* install it, the service and `config --pull`                              *)
(* (agent/cmd/vehinode-agent/main.go, agent/internal/store/config.go).      *)
(*                                                                         *)
(* A configuration is a version, a cadence, the profile of the vehicle and  *)
(* the definition of that profile. Definitions are numbered, None when there *)
(* is none. A request of an operator reads rows, then writes and commits;   *)
(* what it writes may rest on what it has read.                            *)
(***************************************************************************)
EXTENDS Naturals

CONSTANTS
  Agents,       \* the agents of the vehicle
  Operators,    \* requests of operators under way at once
  Profiles,     \* the profiles operators have made
  NoProfile,    \* a vehicle without a profile
  Cadences,     \* the values of the sampling and upload intervals
  MaxEdits,     \* bound: requests of operators
  MaxFaults     \* bound: restarts of an agent and failed downloads

ASSUME ConfigAssumption ==
  /\ NoProfile \notin Profiles
  /\ Cadences # {}
  /\ MaxEdits \in Nat /\ MaxFaults \in Nat

None == 0
Programs == {"run", "config"}   \* the service, and `config --pull`

VARIABLES
  \* the database
  version,    \* Device.config_version
  cadence,    \* Device.sampling_seconds and the three other intervals
  assigned,   \* Vehicle.vehicle_profile
  content,    \* VehicleProfile.definition
  \* the operators
  request,    \* what each request is doing, and what it has read
  edits,      \* how many requests there have been
  overtaken,  \* whether a request has been committed after what it rests on changed
  \* the agents
  stored,     \* config.json
  owner,      \* the program whose user config.json belongs to
  up,         \* whether the service has come up
  running,    \* the configuration the service holds in memory
  stage,      \* how far a program has come with a configuration
  reply,      \* the configuration it is downloading
  faults      \* how many faults have happened

serverVars == <<version, cadence, assigned, content>>
operatorVars == <<request, edits, overtaken>>
agentVars == <<stored, owner, up, running, stage, reply>>
vars == <<serverVars, operatorVars, agentVars, faults>>

Idle == [kind |-> "none"]

\* device_config: what an agent is to be configured with.
Config(a) ==
  [version |-> version[a], cadence |-> cadence[a], profile |-> assigned,
   content |-> IF assigned = NoProfile THEN None ELSE content[assigned]]

Init ==
  /\ version  = [a \in Agents |-> 1]
  /\ cadence  = [a \in Agents |-> CHOOSE c \in Cadences : TRUE]
  /\ assigned = NoProfile
  /\ content  = [p \in Profiles |-> 1]
  /\ request  = [o \in Operators |-> Idle]
  /\ edits    = 0
  /\ overtaken = FALSE
  /\ stored   = [a \in Agents |-> Config(a)]
  /\ owner    = [a \in Agents |-> "run"]
  /\ up       = [a \in Agents |-> TRUE]
  /\ running  = stored
  /\ stage    = [a \in Agents |-> [x \in Programs |-> "idle"]]
  /\ reply    = [a \in Agents |-> [x \in Programs |-> Config(a)]]
  /\ faults   = 0

Fault == faults < MaxFaults /\ faults' = faults + 1

----------------------------------------------------------------------------
(* The operators.                                                          *)

Begin(o, what) ==
  /\ request[o] = Idle
  /\ edits < MaxEdits
  /\ edits' = edits + 1
  /\ request' = [request EXCEPT ![o] = what]
  /\ UNCHANGED <<serverVars, overtaken, agentVars, faults>>

\* What a request rests on has changed since it read it: an edit will write a version
\* that is not newer; an update or a deletion has found no vehicle with the profile,
\* and by now there is one.
Overtaken(o) ==
  LET r == request[o] IN
  \/ r.kind = "edit" /\ r.cadence # r.was /\ r.version < version[r.agent]
  \/ r.kind \in {"updating", "cleared"} /\ ~r.hits /\ assigned = r.profile

End(o) ==
  /\ request' = [request EXCEPT ![o] = Idle]
  /\ UNCHANGED <<edits, agentVars, faults>>

Commit(o) ==
  /\ End(o)
  /\ overtaken' = (overtaken \/ Overtaken(o))

\* PUT /devices/{id}: the row of the agent is loaded.
BeginEdit(o, a, c) ==
  Begin(o, [kind |-> "edit", agent |-> a, cadence |-> c,
            version |-> version[a], was |-> cadence[a]])

\* PUT /vehicles/{id}/profile: the vehicle is loaded and the profile looked up.
BeginAssign(o, p) ==
  /\ p # NoProfile => content[p] # None
  /\ Begin(o, [kind |-> "assign", profile |-> p, was |-> assigned])

\* PUT and DELETE /vehicle-profiles/{id}: the profile is loaded.
BeginProfile(o, kind, p) ==
  /\ content[p] # None
  /\ Begin(o, [kind |-> kind, profile |-> p, content |-> edits + 2])

\* Requests that have incremented the versions of the agents and not committed
\* hold the locks of their rows.
HoldsRows(o) == request[o].kind \in {"updating", "deleting", "cleared"} /\ request[o].hits
RowsFree(o) == \A other \in Operators \ {o} : ~HoldsRows(other)

\* A deletion that has taken the profile away from the vehicle and not committed holds
\* the lock of the vehicle's row.
Clears(o) == request[o].kind = "cleared" /\ request[o].clears
VehicleFree(o) == \A other \in Operators \ {o} : ~Clears(other)

\* A request that has written a profile holds the lock of its row.
ProfileFree(o) ==
  \A other \in Operators \ {o} :
    ~(request[other].kind = "updating" /\ request[other].profile = request[o].profile)

\* _bump_assigned_devices: the agents of a vehicle that has the profile by now.
\* An update has written the profile before.
Bump(o) ==
  LET r == request[o]
      hits == assigned = r.profile
  IN
  /\ r.kind \in {"update", "delete"}
  /\ r.kind = "update" => content[r.profile] # None /\ ProfileFree(o)
  /\ hits => RowsFree(o)
  /\ request' = [request EXCEPT ![o] =
       [kind |-> IF r.kind = "update" THEN "updating" ELSE "deleting",
        profile |-> r.profile, content |-> r.content, hits |-> hits]]
  /\ UNCHANGED <<serverVars, edits, overtaken, agentVars, faults>>

\* delete_profile takes the profile away from the vehicle, if it has it by then.
Clear(o) ==
  LET r == request[o]
      clears == assigned = r.profile
  IN
  /\ r.kind = "deleting"
  /\ clears => VehicleFree(o)
  /\ request' = [request EXCEPT ![o] =
       [kind |-> "cleared", profile |-> r.profile, hits |-> r.hits, clears |-> clears]]
  /\ UNCHANGED <<serverVars, edits, overtaken, agentVars, faults>>

\* config_version = config_version + 1, in the database.
NotBumped(hits) == version   \* mutant: the version is not incremented
Bumped(hits) == [a \in Agents |-> IF hits THEN version[a] + 1 ELSE version[a]]

\* update_device. The new version is computed from the row as it was loaded.
CommitEdit(o) ==
  LET r == request[o] IN
  /\ r.kind = "edit"
  /\ RowsFree(o)
  /\ IF r.cadence # r.was
     THEN /\ cadence' = [cadence EXCEPT ![r.agent] = r.cadence]
          /\ version' = [version EXCEPT ![r.agent] = r.version + 1]
     ELSE UNCHANGED <<cadence, version>>
  /\ UNCHANGED <<assigned, content>>
  /\ Commit(o)

\* assign_profile, which does nothing for the profile the vehicle had.
CommitAssign(o) ==
  LET r == request[o] IN
  /\ r.kind = "assign"
  /\ r.profile # r.was => RowsFree(o) /\ VehicleFree(o)
  /\ assigned' = IF r.profile # r.was THEN r.profile ELSE assigned
  /\ version'  = Bumped(r.profile # r.was)
  /\ UNCHANGED <<cadence, content>>
  /\ Commit(o)

\* update_profile.
CommitUpdate(o) ==
  LET r == request[o] IN
  /\ r.kind = "updating"
  /\ content' = [content EXCEPT ![r.profile] = r.content]
  /\ version' = Bumped(r.hits)
  /\ UNCHANGED <<cadence, assigned>>
  /\ Commit(o)

\* delete_profile.
StillAssigned(clears) == assigned   \* mutant: the vehicle keeps the profile
Unassigned(clears) == IF clears THEN NoProfile ELSE assigned
CommitDelete(o) ==
  LET r == request[o] IN
  /\ r.kind = "cleared"
  /\ ProfileFree(o)
  /\ content'  = [content EXCEPT ![r.profile] = None]
  /\ assigned' = Unassigned(r.clears)
  /\ version'  = Bumped(r.hits)
  /\ UNCHANGED cadence
  /\ Commit(o)

\* A request is rolled back: its profile was deleted meanwhile, the database chose
\* it to break a deadlock, or a connection was lost.
RolledBack(o) ==
  /\ request[o] # Idle
  /\ UNCHANGED <<serverVars, overtaken>>
  /\ End(o)

----------------------------------------------------------------------------
(* An agent downloads its configuration. The endpoint reads the agent's row  *)
(* when it authenticates it, then the vehicle, then, after a commit, the    *)
(* definition of its profile.                                              *)

At(a, x, place) == stage' = [stage EXCEPT ![a][x] = place]

\* The files of an agent are for their owner only (mode 0600). `config --pull` runs as
\* root, which reads any file; the service runs as the user vehinode-agent.
Readable(a, x) == x = "config" \/ owner[a] = x

ReadDevice(a, x) ==
  /\ stage[a][x] = "idle"
  /\ x = "run" => up[a]
  /\ At(a, x, "device")
  /\ reply' = [reply EXCEPT ![a][x].version = version[a], ![a][x].cadence = cadence[a]]
  /\ UNCHANGED <<serverVars, operatorVars, stored, owner, up, running, faults>>

ReadVehicle(a, x) ==
  /\ stage[a][x] = "device"
  /\ At(a, x, "vehicle")
  /\ reply' = [reply EXCEPT ![a][x].profile = assigned]
  /\ UNCHANGED <<serverVars, operatorVars, stored, owner, up, running, faults>>

\* The time of the synchronization is committed, and profile_definition read for
\* the answer with the version read at first. A commit that waits for the row's lock
\* reads what it would have read after the lock.
LatestVersion(a, x) == version[a]   \* mutant: the version is read again at the end
SeenVersion(a, x) == reply[a][x].version
ReadDefinition(a, x) ==
  LET p == reply[a][x].profile IN
  /\ stage[a][x] = "vehicle"
  /\ At(a, x, "fetched")
  /\ reply' = [reply EXCEPT ![a][x].content = IF p = NoProfile THEN None ELSE content[p],
                            ![a][x].version = SeenVersion(a, x)]
  /\ UNCHANGED <<serverVars, operatorVars, stored, owner, up, running, faults>>

\* The download or the write fails, or the program is killed; the service tries
\* again at its next synchronization.
SyncFails(a, x) ==
  /\ stage[a][x] # "idle"
  /\ Fault
  /\ At(a, x, "idle")
  /\ UNCHANGED <<serverVars, operatorVars, stored, owner, up, running, reply>>

\* Configuration.Validate: a profile comes with its definition.
Valid(r) == r.profile # NoProfile => r.content # None

\* ConfigurationStore.InstallIfNewer up to the comparison with config.json.
\* Rejected: an invalid or an older configuration. A file that cannot be loaded is
\* compared with nothing: any valid answer replaces it.
Reject(a, x) ==
  /\ stage[a][x] = "fetched"
  /\ \/ ~Valid(reply[a][x])
     \/ Readable(a, x) /\ reply[a][x].version < stored[a].version
  /\ At(a, x, "idle")
  /\ UNCHANGED <<serverVars, operatorVars, stored, owner, up, running, reply, faults>>

\* What the service runs when a program has come to an installed configuration c.
OnlyWritten(a, x, c) == running   \* mutant: the service goes on as before
TakenUp(a, x, c) == IF x = "run" THEN [running EXCEPT ![a] = c] ELSE running

\* The version is the installed one: the installed configuration stays.
KeepInstalled(a, x) ==
  /\ stage[a][x] = "fetched"
  /\ Valid(reply[a][x])
  /\ Readable(a, x)
  /\ reply[a][x].version = stored[a].version
  /\ At(a, x, "idle")
  /\ running' = TakenUp(a, x, stored[a])
  /\ UNCHANGED <<serverVars, operatorVars, stored, owner, up, reply, faults>>

AcceptNewer(a, x) ==
  /\ stage[a][x] = "fetched"
  /\ Valid(reply[a][x])
  /\ Readable(a, x) => reply[a][x].version > stored[a].version
  /\ At(a, x, "accepted")
  /\ UNCHANGED <<serverVars, operatorVars, stored, owner, up, running, reply, faults>>

\* WriteJSONAtomic renames a new file over the old one, which is now its own; the
\* service goes on with the new configuration.
Install(a, x) ==
  /\ stage[a][x] = "accepted"
  /\ At(a, x, "idle")
  /\ stored'  = [stored EXCEPT ![a] = reply[a][x]]
  /\ owner'   = [owner EXCEPT ![a] = x]
  /\ running' = TakenUp(a, x, reply[a][x])
  /\ UNCHANGED <<serverVars, operatorVars, up, reply, faults>>

\* The service is stopped or dies anywhere, and starts from config.json; systemd
\* starts it again and again when it cannot load that file.
Restart(a) ==
  /\ up[a]
  /\ Fault
  /\ At(a, "run", "idle")
  /\ up' = [up EXCEPT ![a] = Readable(a, "run")]
  /\ running' = IF up'[a] THEN [running EXCEPT ![a] = stored[a]] ELSE running
  /\ UNCHANGED <<serverVars, operatorVars, stored, owner, reply>>

----------------------------------------------------------------------------

Start(o) ==
  \/ \E a \in Agents, c \in Cadences : BeginEdit(o, a, c)
  \/ \E p \in Profiles \cup {NoProfile} : BeginAssign(o, p)
  \/ \E p \in Profiles, kind \in {"update", "delete"} : BeginProfile(o, kind, p)

Proceed(o) ==
  \/ Bump(o)
  \/ Clear(o)
  \/ CommitEdit(o)
  \/ CommitAssign(o)
  \/ CommitUpdate(o)
  \/ CommitDelete(o)
  \/ RolledBack(o)

Sync(a, x) ==
  \/ ReadDevice(a, x)
  \/ ReadVehicle(a, x)
  \/ ReadDefinition(a, x)
  \/ Reject(a, x)
  \/ KeepInstalled(a, x)
  \/ AcceptNewer(a, x)
  \/ Install(a, x)

Next ==
  \/ \E o \in Operators : Start(o) \/ Proceed(o)
  \/ \E a \in Agents, x \in Programs : Sync(a, x) \/ SyncFails(a, x)
  \/ \E a \in Agents : Restart(a)

Spec == Init /\ [][Next]_vars

\* A request that was begun ends; the service comes back to its synchronization
\* every config-sync-seconds; `config --pull` may stall, or never be run.
Fairness ==
  /\ \A o \in Operators : WF_vars(Proceed(o))
  /\ \A a \in Agents : WF_vars(Sync(a, "run"))

FairSpec == Spec /\ Fairness

----------------------------------------------------------------------------
(* Properties.                                                             *)

\* The types of the variables. Every configuration an agent has stored or runs is
\* complete: a profile comes with its definition, although the profile may be
\* deleted while the configuration is put together.
Configuration(n) ==
  [version : 1 .. n, cadence : Cadences, profile : Profiles \cup {NoProfile},
   content : 0 .. MaxEdits + 1]
TypeOK ==
  /\ version \in [Agents -> 1 .. MaxEdits + 1]
  /\ cadence \in [Agents -> Cadences]
  /\ assigned \in Profiles \cup {NoProfile}
  /\ content \in [Profiles -> 0 .. MaxEdits + 1]
  /\ \A o \in Operators : request[o].kind \in
       {"none", "edit", "assign", "update", "delete", "updating", "deleting", "cleared"}
  /\ edits \in 0 .. MaxEdits
  /\ overtaken \in BOOLEAN
  /\ stored \in [Agents -> Configuration(MaxEdits + 1)]
  /\ owner \in [Agents -> Programs]
  /\ up \in [Agents -> BOOLEAN]
  /\ running \in [Agents -> Configuration(MaxEdits + 1)]
  /\ \A a \in Agents : \A c \in {stored[a], running[a]} :
       c.profile # NoProfile => c.content # None
  /\ stage \in [Agents -> [Programs ->
                 {"idle", "device", "vehicle", "fetched", "accepted"}]]
  /\ reply \in [Agents -> [Programs -> Configuration(MaxEdits + 1)]]
  /\ faults \in 0 .. MaxFaults

\* An agent that has the server's version has the server's configuration, although
\* a download is put together from rows read at different times. The agent never
\* looks further than the version. It takes a request that was overtaken
\* (EveryChangeIsVersioned) to make it otherwise.
SameVersionSameConfiguration ==
  overtaken \/ \A a \in Agents : stored[a].version = version[a] => stored[a] = Config(a)

\* Why it is so: the invariant the proofs are about, in named parts.
SyncShape ==
  /\ version \in [Agents -> Nat]
  /\ cadence \in [Agents -> Cadences]
  /\ assigned \in Profiles \cup {NoProfile}
  /\ content \in [Profiles -> Nat]
  /\ DOMAIN request = Operators
  /\ edits \in Nat
  /\ stored \in [Agents -> [version : Nat, cadence : Cadences,
                            profile : Profiles \cup {NoProfile}, content : Nat]]
  /\ stage \in [Agents -> [Programs ->
                 {"idle", "device", "vehicle", "fetched", "accepted"}]]
  /\ reply \in [Agents -> [Programs ->
                 [version : Nat, cadence : Cadences,
                  profile : Profiles \cup {NoProfile}, content : Nat]]]
\* What a request has come with and read. It need not be so any more, but for the
\* profile of a vehicle whose row is locked.
RequestShape ==
  \A o \in Operators : LET r == request[o] IN
    /\ r.kind = "edit" => r.agent \in Agents /\ r.cadence \in Cadences /\ r.version \in Nat
    /\ r.kind = "assign" => r.profile \in Profiles \cup {NoProfile}
    /\ r.kind \in {"update", "delete", "updating", "deleting", "cleared"} =>
         r.profile \in Profiles
    /\ r.kind \in {"update", "delete", "updating", "deleting"} =>
         r.content \in Nat /\ r.content # None
    /\ r.kind \in {"updating", "deleting", "cleared"} => r.hits \in BOOLEAN
    /\ r.kind = "cleared" => r.clears \in BOOLEAN
    /\ Clears(o) => assigned = r.profile /\ VehicleFree(o)
\* What was read for a download is still so, or has an older version.
DownloadIsCurrent ==
  \A a \in Agents, x \in Programs : stage[a][x] # "idle" =>
    LET r == reply[a][x] IN
    /\ r.version <= version[a]
    /\ r.version = version[a] =>
         /\ r.cadence = cadence[a]
         /\ stage[a][x] # "device" => r.profile = assigned
         /\ stage[a][x] \in {"fetched", "accepted"} => r = Config(a)
StoredIsCurrent ==
  \A a \in Agents :
    /\ stored[a].version <= version[a]
    /\ stored[a].version = version[a] => stored[a] = Config(a)
SyncInv ==
  /\ SyncShape
  /\ RequestShape
  /\ overtaken \/ (DownloadIsCurrent /\ StoredIsCurrent)

\* "Editing or deleting an assigned custom profile increments each affected device's
\* config version" (docs/developers/vehicle-profiles.md:64-65), and "changing a cadence
\* issues a new configuration version" (docs/user-guide/devices.md:63-64): all that
\* changes what an agent is to be configured with. Two requests can change it at once,
\* so that the version is the one before, or an older one.
EveryChangeIsVersioned ==
  [][\A a \in Agents :
       Config(a)' # Config(a) => Config(a)'.version > Config(a).version]_vars

\* There is no other way to it: a change has a newer version, unless it is that of an
\* edit that read an older version than there is, or of a profile that was not assigned
\* when the request incremented the versions of its agents, and is by now.
OnlyOvertakenIsUnversioned ==
  [][\A a \in Agents :
       Config(a)' # Config(a) =>
         \/ Config(a)'.version > Config(a).version
         \/ \E o \in Operators : Overtaken(o) /\ request'[o] = Idle]_vars

\* "Deletion also clears the vehicle assignment"
\* (docs/developers/vehicle-profiles.md:65): the profile of a vehicle exists. An
\* assignment that looked the profile up before it was deleted makes it otherwise.
AssignedExists == assigned # NoProfile => content[assigned] # None

\* There is no other way to it: a vehicle is left with a profile that is gone by an
\* assignment that looked it up and was committed after the deletion had gone through
\* the vehicles, before or after the deletion itself is committed.
OnlyAssignmentOfDeletedDangles ==
  [][AssignedExists =>
       \/ AssignedExists'
       \/ \E o \in Operators : LET r == request[o] IN
            /\ request'[o] = Idle
            /\ \/ r.kind = "assign" /\ content[r.profile] = None
               \/ r.kind = "cleared" /\ ~r.clears /\ assigned = r.profile]_vars

\* "changing a cadence issues a new configuration version, which the agent picks up
\* at its next sync" (docs/user-guide/devices.md:63-64): when nothing is changed any
\* more, a service that is up ends up with the server's configuration, even after
\* `config --pull` has put back an older file or one the service cannot load, unless a
\* change got no version of its own or the profile is gone (see the two rules above).
Converges ==
  \A a \in Agents :
    <>[](up[a] /\ ~overtaken /\ AssignedExists => running[a] = Config(a))

\* "To apply it immediately, on the agent run" `config --pull` and then
\* `systemctl restart vehinode-agent` (docs/user-guide/devices.md:64-69): a service
\* that is restarted comes up with the configuration that is stored.
RestartApplies ==
  [][\A a \in Agents : Restart(a) => up'[a] /\ running'[a] = stored[a]]_vars
=============================================================================
