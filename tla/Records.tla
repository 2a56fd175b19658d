------------------------------ MODULE Records ------------------------------
(***************************************************************************)
(* The rows of the database and what a removal takes along: the tables with    *)
(* their foreign keys (backend/migrations), what ingestion and the manual run   *)
(* of a hook insert, and the handlers that delete. A row is the value of its    *)
(* foreign keys; the vehicle is the only one.                                *)
(*                                                                         *)
(* A statement deletes a row and what its keys cascade to in one step: an      *)
(* insertion holds the rows it refers to, so the deletion waits for it or it    *)
(* fails. The requests of several statements are in TelemetryUplink and        *)
(* HookEdits, the jobs that go with executions in HookQueue, and profiles,     *)
(* which nothing refers to by a key, in ConfigSync.                           *)
(***************************************************************************)
EXTENDS Naturals, FiniteSets, Functions

CONSTANTS
  MaxSamples, MaxHooks, MaxRuns,   \* bounds: rows of telemetry, of hooks, of
                                   \* triggers and of executions
  None

VARIABLE db    \* the rows by id: a table and a number

----------------------------------------------------------------------------
(* The schema: which column refers to which table, and what becomes of the     *)
(* row when that row is deleted.                                            *)

Key(table, column, parent, ondelete) ==
  [table |-> table, column |-> column, parent |-> parent, ondelete |-> ondelete]

AccountKeys == {
  Key("auth_identities", "user_id", "users", "cascade"),
  Key("dashboards", "owner_id", "users", "cascade"),
  Key("sessions", "user_id", "users", "cascade")}

GarageKeys == {
  Key("vehicle_profiles", "created_by", "users", "set_null"),
  Key("vehicles", "created_by", "users", "set_null")}

DeviceKeys == {
  Key("device_enrollment_tokens", "vehicle_id", "vehicles", "cascade"),
  Key("devices", "vehicle_id", "vehicles", "cascade")}

HookKeys == {
  Key("hooks", "created_by", "users", "set_null"),
  Key("hooks", "vehicle_id", "vehicles", "cascade")}

RevisionKeys == {
  Key("hook_revisions", "hook_id", "hooks", "cascade"),
  Key("hook_revisions", "created_by", "users", "cascade"),
  Key("hook_state", "hook_id", "hooks", "cascade")}

SharedKeys == {
  Key("vehicle_access_grants", "user_id", "users", "cascade"),
  Key("vehicle_access_grants", "vehicle_id", "vehicles", "cascade"),
  Key("vehicle_photos", "vehicle_id", "vehicles", "cascade")}

ReadingKeys == {
  Key("telemetry", "device_id", "devices", "cascade"),
  Key("telemetry", "vehicle_id", "vehicles", "cascade")}

StateKeys == {
  Key("vehicle_state", "telemetry_id", "telemetry", "cascade"),
  Key("vehicle_state", "vehicle_id", "vehicles", "cascade")}

\* Mutant: a trigger forgets a deleted reading, as an execution does.
ForgetfulTriggers == {
  Key("triggers", "device_id", "devices", "set_null"),
  Key("triggers", "telemetry_id", "telemetry", "set_null"),
  Key("triggers", "vehicle_id", "vehicles", "cascade")}

TriggerKeys == {
  Key("triggers", "device_id", "devices", "set_null"),
  Key("triggers", "telemetry_id", "telemetry", "cascade"),
  Key("triggers", "vehicle_id", "vehicles", "cascade")}

ExecutionKeys == {
  Key("hook_executions", "hook_id", "hooks", "cascade"),
  Key("hook_executions", "telemetry_id", "telemetry", "set_null"),
  Key("hook_executions", "trigger_id", "triggers", "cascade")}

Keys == AccountKeys \cup GarageKeys \cup DeviceKeys \cup HookKeys \cup RevisionKeys
        \cup SharedKeys \cup ReadingKeys \cup StateKeys \cup TriggerKeys \cup ExecutionKeys

----------------------------------------------------------------------------

Id(table, n) == <<table, n>>
Vehicle == Id("vehicles", 1)
Rows(table) == {id \in DOMAIN db : id[1] = table}
There(id) == id \in DOMAIN db

\* Ids are new; here the lowest that are not taken.
New(table, max, n) ==
  LET unused == {m \in 1..max : ~There(Id(table, m))} IN
  {Id(table, m) : m \in {k \in unused : Cardinality({l \in unused : l < k}) < n}}

\* A vehicle with two agents, made by one account and shared with the other,
\* which has a dashboard and a profile of its own
Init ==
  LET first == {"users", "auth_identities", "sessions", "dashboards", "vehicle_profiles", "vehicles",
                "device_enrollment_tokens", "devices", "vehicle_access_grants", "vehicle_photos"}
      u(n) == Id("users", n)
      keys(table) ==
        CASE table = "users" -> <<>>
          [] table \in {"auth_identities", "sessions"} -> [user_id |-> u(2)]
          [] table = "dashboards" -> [owner_id |-> u(2)]
          [] table = "vehicle_profiles" -> [created_by |-> u(2)]
          [] table = "vehicles" -> [created_by |-> u(1)]
          [] table = "vehicle_access_grants" -> [user_id |-> u(2), vehicle_id |-> Vehicle]
          [] OTHER -> [vehicle_id |-> Vehicle]
  IN db = [id \in {Id(table, 1) : table \in first} \cup {u(2), Id("devices", 2)} |-> keys(id[1])]

\* A row as a function of its id, and rows of which the new ones count
Row(id, keys) == [i \in {id} |-> keys]
Over(new, old) ==
  [id \in DOMAIN new \cup DOMAIN old |-> IF id \in DOMAIN new THEN new[id] ELSE old[id]]

\* Rows whose foreign keys find their rows
Insert(rows) ==
  LET known == DOMAIN db \cup DOMAIN rows \cup {None} IN
  /\ \A id \in DOMAIN rows : Range(rows[id]) \subseteq known
  /\ db' = Over(rows, db)

\* These rows, and those that a key that cascades ties to one of them
Taken(rows) ==
  LET cascade == {<<k.table, k.column>> : k \in {q \in Keys : q.ondelete = "cascade"}} IN
  rows \cup {id \in DOMAIN db \ rows :
    LET row == db[id] IN \E c \in DOMAIN row : row[c] \in rows /\ <<id[1], c>> \in cascade}

\* What is deleted with these rows: no chain of keys is longer than from the
\* vehicle to an agent, a reading, a trigger and an execution.
Gone(deleted) == Taken(Taken(Taken(Taken(deleted))))

\* A key that does not cascade is set null.
Delete(deleted) ==
  LET gone == Gone(deleted) IN
  db' = [id \in DOMAIN db \ gone |->
           LET row == db[id] IN [c \in DOMAIN row |-> IF row[c] \in gone THEN None ELSE row[c]]]

----------------------------------------------------------------------------
(* What is inserted.                                                       *)

\* The hooks that are about this vehicle, some of which may be enabled
Matching == {h \in Rows("hooks") : db[h].vehicle_id \in {None, Vehicle}}

\* A trigger for a reading, and an execution of each of these hooks
Runs(trigger, agent, reading, ids) ==
  Over(Row(trigger, [vehicle_id |-> Vehicle, device_id |-> agent, telemetry_id |-> reading]),
       [e \in Range(ids) |-> [hook_id |-> CHOOSE h \in DOMAIN ids : ids[h] = e,
                              trigger_id |-> trigger, telemetry_id |-> reading]])

\* ingest_batch: the newest of the batch is what the trigger is about, and what
\* the vehicle shows, unless it is older than what it showed.
Ingest(agent) ==
  \E size \in 1..MaxSamples, trigger \in New("triggers", MaxRuns, 1), fired \in SUBSET Matching :
    LET batch == New("telemetry", MaxSamples, size)
        newest == CHOOSE r \in batch : \A other \in batch : other[2] <= r[2]
        stored == [r \in batch |-> [vehicle_id |-> Vehicle, device_id |-> agent]]
        state == Id("vehicle_state", 1)
        current == Row(state, [vehicle_id |-> Vehicle, telemetry_id |-> newest])
    IN
    /\ There(agent)
    /\ Cardinality(batch) = size
    /\ \E ids \in Bijection(fired, New("hook_executions", MaxRuns, Cardinality(fired))) :
         LET fresh == Over(stored, Runs(trigger, agent, newest, ids)) IN
         Insert(Over(current, fresh)) \/ (There(state) /\ Insert(fresh))

\* queue_manual_execution
Queue(h, reading) ==
  \E trigger \in New("triggers", MaxRuns, 1), e \in New("hook_executions", MaxRuns, 1) :
    Insert(Runs(trigger, db[reading].device_id, reading, Row(h, e)))

TestHook == \E h \in Rows("hooks"), r \in Rows("telemetry") : Queue(h, r)

\* An execution that failed is queued again, if it still has its reading.
RetryExecution ==
  \E old \in Rows("hook_executions") :
    /\ db[old].telemetry_id # None
    /\ Queue(db[old].hook_id, db[old].telemetry_id)

\* create_hook, with its first revision
AddHook ==
  \E h \in New("hooks", MaxHooks, 1), u \in Rows("users"), vehicle \in {None, Vehicle} :
    LET first == Id("hook_revisions", h[2]) IN
    /\ ~There(first)
    /\ Insert(Over(Row(h, [created_by |-> u, vehicle_id |-> vehicle]),
                   Row(first, [hook_id |-> h, created_by |-> u])))

\* What a successful execution leaves behind: ctx.state
SaveState ==
  \E e \in Rows("hook_executions") :
    LET state == Id("hook_state", db[e].hook_id[2]) IN
    /\ ~There(state)
    /\ Insert(Row(state, [hook_id |-> db[e].hook_id]))

----------------------------------------------------------------------------
(* What is deleted.                                                        *)

\* remove_account: an administrator stays.
RemoveAccount == \E u \in Rows("users") : Rows("users") # {u} /\ Delete({u})

RemoveVehicle == There(Vehicle) /\ Delete({Vehicle})
RemoveDevice == \E d \in Rows("devices") : Delete({d})
RemoveHook == \E h \in Rows("hooks") : Delete({h})

\* reset_vehicle_telemetry
ClearTelemetry == Rows("telemetry") # {} /\ Delete(Rows("telemetry") \cup Rows("vehicle_state"))

Next ==
  \/ \E d \in Rows("devices") : Ingest(d)
  \/ TestHook \/ RetryExecution \/ AddHook \/ SaveState
  \/ RemoveAccount \/ RemoveVehicle \/ RemoveDevice \/ RemoveHook \/ ClearTelemetry

Spec == Init /\ [][Next]_db

----------------------------------------------------------------------------
(* Although a trigger forgets a deleted device and an execution a deleted      *)
(* reading, no removal leaves a trigger or an execution that is not about one   *)
(* reading with its device and its vehicle, all of which are there: an execution *)
(* that exists finds its inputs (hooks/runtime.py:79, hooks/routes.py:147).      *)
ExecutionFindsInputs ==
  /\ \A t \in Rows("triggers") :
       LET reading == db[t].telemetry_id IN
       /\ reading # None
       /\ There(reading)
       /\ db[t].device_id = db[reading].device_id
       /\ db[t].vehicle_id = db[reading].vehicle_id
       /\ There(db[t].device_id)
  /\ \A e \in Rows("hook_executions") :
       /\ db[e].telemetry_id = db[db[e].trigger_id].telemetry_id
       /\ db[db[e].hook_id].vehicle_id \in {None, db[db[e].trigger_id].vehicle_id}

(* With the vehicle goes all that was its own, and nothing else does: the       *)
(* accounts, their dashboards and profiles and the hooks that are not about it   *)
(* stay, with their revisions and their state (docs/user-guide/vehicles.md:55).   *)
VehicleTakesItsOwn ==
  [][There(Vehicle) /\ ~There(Vehicle)' =>
       DOMAIN db' = {id \in DOMAIN db :
         \/ id[1] \in {"users", "auth_identities", "sessions", "dashboards", "vehicle_profiles"}
         \/ id[1] = "hooks" /\ db[id].vehicle_id = None
         \/ id[1] \in {"hook_revisions", "hook_state"} /\ db[db[id].hook_id].vehicle_id = None}]_db

=============================================================================
