# VehiNode: a TLA+ verification project

VehiNode is a self-hosted vehicle telemetry system: a FastAPI backend on
PostgreSQL, a worker that runs user-written hooks, a Go agent in the vehicle and a
web interface. This directory holds TLA+ models of its core, the TLC runs that
check them, and theorems about them that TLAPS proves. `PROJECT.json` maps every
definition to the lines it models and lists the runs, the mutants that show each
property can fail, the findings, the hazards and the theorems.

| module | what it is |
|---|---|
| `HookQueue` | the job queue and the hook worker |
| `HookLedger` | what the queue promises of each execution, without workers, jobs or locks |
| `HookQueueProofs` | theorems about `HookQueue` |
| `TelemetryUplink` | the way of a reading from an agent's queue to the history and the current state |
| `ReadingLog` | what that way promises of each reading |
| `TelemetryUplinkProofs` | theorems about `TelemetryUplink` |
| `ConfigSync` | how a configuration made on the server reaches the agents |
| `ConfigSyncProofs` | theorems about `ConfigSync` |
| `Accounts` | accounts, their administrators, the first account and logins with OIDC |
| `AccountsProofs` | theorems about `Accounts` |
| `VehicleSensing` | the agent's sampling loop, its receiver, its adapter and the activity detector |
| `VehicleSensingProofs` | theorems about `VehicleSensing` |
| `LiveAccess` | sessions, grants of access and the event stream of a browser |
| `LiveAccessProofs` | theorems about `LiveAccess` |
| `Enrollment` | one-time tokens, the installation on a host, rotation and revocation |
| `HookEdits` | edits, restorations and revisions of a hook |
| `Dashboards` | the dashboards of one owner and the default among them |
| `VehiclePhotos` | the photo of a vehicle, its row and its file |
| `History` | charts and tables that are read while readings arrive |
| `Records` | the tables and foreign keys, and what a removal takes along |
| `MCConsole` | `Accounts` and the six above, as one instance: they share no state, and the first state chooses the part that moves |
| `ConsoleProofs` | theorems about `Enrollment`, `HookEdits`, `VehiclePhotos` and `Dashboards` |
| `RecordsProofs` | theorems about `Records` and `History` |
| `MCHookQueue`, `MCTelemetryUplink`, `MCConfigSync`, `MCVehicleSensing`, `MCLiveAccess` | the instances TLC checks |

## 1. Inventory

### Components, their state and how they interact

* **Telemetry ingestion** (`backend/app/telemetry`). State: `telemetry`,
  `vehicle_state`, `hook_triggers`. One operation, the batch upload, in one
  transaction: lock the vehicle's row, insert each sample under its unique key,
  merge into the current state, queue one execution per enabled hook.
* **Job queue and hook worker** (`backend/app/jobs`, `backend/app/worker.py`,
  `backend/app/hooks/runtime.py`). State: `jobs`, `hook_executions`, `hook_state`,
  and the PostgreSQL advisory lock of each hook. A worker recovers expired leases,
  claims the oldest job, takes the hook's lock, runs a child process with the
  hook's state as input and commits status and new state.
* **Hook administration** (`backend/app/hooks`). Creates, edits (revisions), deletes,
  tests and retries; each writes rows the worker reads.
* **Devices and vehicle profiles** (`backend/app/devices`, `vehicle_profiles`). State:
  `devices` with credential, cadence and `config_version`, enrollment tokens,
  profiles, the vehicle's `vehicle_profile`. Serve `GET /device/config`.
* **Agent** (`agent/cmd/vehinode-agent`, `agent/internal`). State: `queue.sqlite3`,
  `config.json`, `credentials.json`, the boot id and sequence number in memory. One
  loop: synchronize the configuration, collect, upload, sleep.
* **Accounts** (`backend/app/auth`, `users`, `access`). Users, identities, browser
  sessions, grants; local and OIDC login; the rule that one active administrator
  remains.
* **Access and live events** (`backend/app/access`, `backend/app/api/events.py`). State:
  `vehicle_access_grants`, the default access in `app_settings`. Grants are replaced as
  a list. One polling stream per browser checks session, account and grants for each
  frame, by several queries.
* **Dashboards** (`backend/app/dashboards`). Rows of an owner, one of them the default,
  with layouts that name vehicles.
* **Vehicles and photos** (`backend/app/vehicles`). Rows, and a file under the media
  root that is written and removed outside the transaction.
* **History** (`backend/app/history`). A sampled chart, and a table by pages; each is
  several statements.
* **Schema** (`backend/migrations`). Which row goes, and which forgets, when another one
  is deleted.
* **Secrets**: encrypted rows.
* **Agent sensing** (`agent/internal/providers`, `agent/internal/runtime`). State: the
  receiver's last fix and its age; of each vehicle source the adapter's port, the
  values decoded so far, the time of the next attempt and the fault to report; the
  detector's anchor and the time of its last evidence. A profile's source leaves the
  bus to a goroutine, the loop reads what it has collected.
* **CAN decoding**, **modem** and **hardware detection** of the agent, **host
  administration** (installer, update, diagnostics), the **legacy Python agent**, the
  **web interface** and **deployment**.

They interact through the database, without messages of their own: ingestion
queues jobs that the worker polls; deletions cascade into rows the worker and
ingestion have in hand; a configuration is versioned on the server and pulled by
the agent over HTTP, as telemetry is pushed.

### What is hard, and what makes each part correct

* *Queue and worker*: a child process runs outside any transaction, between a row
  lock and a session-level lock; a lease expires under a live worker; a row is
  deleted under a running child; a worker dies anywhere. Correct means: at most one
  child per execution and one at a time per hook, a state that carries the effects of
  recorded successes and of nothing else, rows that agree, every job ending.
* *Upload and ingestion*: lost answers, retries that overlap the original, batches
  cut differently, restarts, clocks that jump, deletions in the middle. Correct
  means: nothing is forgotten, nothing is stored or announced twice, the current
  state is a stored reading and does not go back.
* *Configuration*: read in pieces, versioned by two different mechanisms, installed
  by two programs. Correct means: an agent that has the server's version has the
  server's configuration, and gets there.
* *Enrollment*: a single-use token, an answer that can be lost, files on the agent
  written one after the other.
* *Accounts*: decisions on a read that another request invalidates (last
  administrator, first account, first OIDC login).
* *Sensing*: a port that the loop and a goroutine use one after the other without a
  mutex, adapters that are pulled out, values that outlive their frames, a fix that
  ages. Correct means: one user of the port, a loop nothing blocks, an adapter that is
  read again, a fault that has a name, and a cadence that follows the vehicle.
* *Access*: a frame whose queries straddle a revocation, lists of grants written at
  the same time, a login that has checked a password which is then changed. Correct
  means: nothing is shown that was not granted while the frame was made, what may be
  seen comes to be shown, an old password opens nothing.
* *Dashboards, photos, hooks*: a default among rows, a layout that is saved while a
  vehicle is removed from it, files next to rows, revision numbers computed from
  what was loaded.
* *History*: a count, a stride and rows from different moments.
* *Schema*: keys that cascade and keys that are set null meet in one execution.

`PROJECT.json` has the hazards one by one, each at its line.

## 2. Plan

1. `HookQueue`, `TelemetryUplink`, `ConfigSync`, `Accounts`, `VehicleSensing`, with the
   abstract specifications `HookLedger` and `ReadingLog`, and proofs of each: done.
2. `LiveAccess`, `Enrollment`, `HookEdits` and their proofs, `Dashboards`,
   `VehiclePhotos`, `History`, `Records`: done.
3. Proofs of the parts behind the console, `ConsoleProofs` and `RecordsProofs`: done. Every
   safety property a run checks is now a theorem.
4. A ledger of what enrollment promises of a token and of a device (redeemed once, revoked
   for good), with the refinement, as `HookLedger` and `ReadingLog` are for their parts.
5. More of the agent: the modem as a position source, and the detection of the
   hardware (`resolveDevices`, `detection.json`), in which an empty sweep that was stored
   once decides later starts.
6. What a crash between the claim of a job and the start of its child leaves behind
   (`jobs/services.py:30`): the execution stays pending although its job has failed. The
   model has it (`RecoveredExec`); what should happen is for the project to say.

The inductive invariants are proved and the runs check what follows from them. Before
a proof was tried, TLC checked its invariant, or the property it was made for, on the
same instances. Properties that follow from a proved invariant are stated in the
proof modules and no run repeats them (`QueueInv`, `RowsAgree`, `SuccessStands`,
`AloneLosesNothing`, `NoAddressTwice`, `LastAdminKeptAlone`, the types).

## 3. The job queue: HookQueue

**State.** `job`, `age` (ticks since `Job.locked_at`), `exec` (`HookExecution.status`),
`hookOf`, `vehOf` and `state` (`HookState.value`) are rows. `lock` and `leaked` are the
advisory locks: who holds a hook's lock, and which locks were taken once more than
they will be released. `pc`, `cur`, `ran`, `input`, `result` and `found` are a worker's
place in `process_one` and its locals. `runs` counts children, for the properties.
A hook's value is the set of executions whose effect it carries, which is what a
counter or a journal in `ctx.state` would be.

**Actions.** `QueueExecution`, `RetryExecution`, `DeleteHook` and `ClearTelemetry` are
requests. A turn of the worker's loop is `ClaimJob` (with the recovery of expired
leases, which is in the same transaction) or `RecoverOnly`, then `SelectExecution`,
`AcquireLock` or `LockRefused` (PostgreSQL's deadlock detector), `StartChild` (commits
`running`) or `InputUnavailable`, `ChildEnds` or `FlushFails`, `CommitOutcome` or
`CommitFails`, and `HandleError`. The boundaries are where another session can see or
change something: `ChildEnds` releases the advisory lock and `CommitOutcome` commits,
as `worker.py:79-130` does. `Crash` rolls back, closes the session and leaves the job
running. `Tick` ages leases and children; a child is killed at `MaxRun`. With `Prompt`
a worker that could go on does so before time passes; without it a worker may stall
anywhere, as under memory pressure or a slow database.

Row locks are modelled where they exclude something: a deletion waits for an
execution that is selected `FOR UPDATE` or flushed, and recovery and a committing
worker may deadlock, in which case one is aborted (`DeadlockVictims`).

**Abstract specification.** `HookLedger`: an execution is queued, starts at most once,
is saved after it started, and only a deletion withdraws it. `LedgerHolds` maps jobs to
`queued`, cascaded executions to `gone`, `runs` to `starts` and successes to `saved`.

**Runs.**

| run | instance | shows |
|---|---|---|
| `two_hooks` | 2 workers, 2 hooks, 4 executions, deletions, no crash, lease 1 | exclusion per hook, no phantom effects and the ledger, through leaked locks and the lock cycles they cause |
| `queue_liveness` | 2 workers that may stall, one of which may crash, 1 hook, 3 executions | an execution starts at most once; every job ends and every waiter is served |
| `lost_update` | 2 prompt workers, 2 executions | violation: the second execution starts on the old state |

`queue_liveness` has no deletions: an execution deleted under a running child leaves
the hook's lock with the pooled connection (`leaked`), and a second worker may then
wait for it until the connection is closed, which no fairness ends.

Two executions of one hook are the smallest number that overlap, a third one makes
a worker wait behind two; two hooks and two workers with leaked locks are the
smallest lock cycle. `Lease` above `MaxRun` is the assumption the code states
(`jobs/services.py:11-13`). `Workers = 1` is `docker-compose.yml`; nothing in the code
forbids more, and its locks are there for them.

**Fairness.** Weak fairness of each worker's step, because the loop of `main` never
ends and the child is killed at its timeout, and of `Tick`. Requests and crashes are
never forced. A crashed worker is restarted by the container.

**Proofs** (`HookQueueProofs`). `TypeCorrect` and `QueueInvariant` (`Spec => []QueueInv`)
for all constants. `RunsAtMostOnce` is not inductive: one must know that a worker
that has not started its child holds an execution nobody has started
(`PlaceMatchesRow`), that a pending job has not started (`UnclaimedNotStarted`), and that
no two workers hold one job (`OneHolderPerJob`), which rests on claims taking only
pending jobs and recovery never making one pending again. `SectionHoldsLock` gives
`OneChildPerHook`; `EffectsAreSaved`, which follows effects through the input of
running children, gives `NoPhantomEffect`. `SuccessStands` proves an action property
from the invariant, `QueueImplementsLedger` the refinement, and `AloneLosesNothing`
proves `NoLostUpdate` when there is one worker, from `InputIsCurrent`.

## 4. From agent to history: TelemetryUplink

**State.** Per agent the rows of its queue, its boot, sequence number and the request
it waits for. A slot is one HTTP request with the transaction that serves it; it
outlives the client's interest, so a retry overlaps its original. The database is
`device`, `history`, `bootOf`, `triggers`, `current` and `merged` (from which reading the
state has each agent's metrics), plus a clearing transaction under way. A reading is
a number with an owner, a sequence number, a clock that may jump and a heading.

**Actions.** `Collect`, `CollectFails`, `Upload`, `GiveUp` and `Restart` are the agent;
`Respond` delivers an answer and acknowledges in the queue. `Admit`, `LockVehicle`,
`InsertSamples`, `FlushState`, `CommitBatch` and `ServerFails` are ingestion, split where
locks are taken and where a deletion can come in between. `RevokeDevice`,
`DeleteDevice`, `RemoveVehicle` and the four steps of clearing are the operator.
PostgreSQL is modelled at read committed with the locks its foreign keys imply: a
deletion of an agent waits for uncommitted readings that refer to it. A batch is in the
order of the queue (`Before`): by number, then by clock, since numbers start anew when the
agent starts and cannot ask its queue for the last one (`Restart`, the error that
`main.go:1007` drops). `FlushState` is one step; the code writes the row of the state once
more before each further insert of a batch (`begin_nested` flushes), which takes the
row's lock a little earlier and shows nobody anything.

**Abstract specification.** `ReadingLog`: readings are taken, stored in whole batches
that are new, released only when stored or erased, and erased in whole batches.

**Runs.**

| run | instance | shows |
|---|---|---|
| `uplink_requests` | 2 agents, 2 requests at once, 2 readings, a fault, all operator requests, headings 0 and 360 | nothing forgotten, one trigger per reading, the state does not rewind, the log is implemented |
| `uplink_agent` | 1 agent, 2 starts, 3 readings, batches of 2, a fault | the newest reading is current, every reading arrives |
| `poison_batch` | heading 360 | violation: the queue never drains |

Two requests are the smallest overlap, one fault the smallest lost answer; three
readings in batches of two let a retry be cut differently. `CHECK_DEADLOCK FALSE`
where all readings may be taken and delivered: an agent at its bound stops.

**Fairness.** The loop comes back to the upload and the server ends every request it
has; losses are bounded by `MaxFaults`, which stands for a network that is up for long
enough. Nothing forces collection, restarts or operators.

**Proofs** (`TelemetryUplinkProofs`). `UplinkInvariant` for any number of agents, requests,
readings and faults. `NothingForgotten` needs to know what an answered request
carries (`AnsweredIsStored`), hence what ingestion takes for a duplicate
(`DuplicatesAreStored`: stored, or the agent is deleted and the transaction cannot
commit), hence that what it took for new is still new (`OneIngestion`, from the
vehicle's lock). `BatchesPartitionHistory` needs `DoomedIsWhole` for clearing and
`OwnReadings` for the deletion of an agent. `UplinkImplementsLog` is the refinement.

`CurrentInv` adds why the current state is right: `Before` orders the readings of a batch,
however their numbers fell out (`BeforeOrders`), so that a batch has a last reading that
advances the state (`LastOf`, `LatestAdvances`); what an ingestion has read of the row is
what it holds, until it is deleted, and it is not deleted once the ingestion has updated
it (`SeenIsCurrent`, from the vehicle's lock and the row's). From these follow
`CurrentDoesNotRewind`, `ShownIsStored` and `NewestIsShown`. The last assumes that no
request clears the telemetry: such a request deletes the readings it saw at its start but
the state row as it is at its end, so that a batch committed in between stays in the
history while the vehicle shows nothing until its next reading.

## 5. Configuration: ConfigSync

**State.** Rows: `version`, `cadence`, `assigned` and the definition of each profile, a
number or none. `request` is what an operator's request has read and intends. Per
agent `stored` (`config.json`), `owner` (the program as whose user it was written), `up`
(whether the service has come up), `running` (what the service has in memory), and for each
of the two programs that install a configuration, the service and `config --pull`,
how far it is and what it has downloaded.

**Actions.** A request begins by loading rows and commits later; `Bump` is the UPDATE of
`_bump_assigned_devices`, which decides which agents are affected and locks their
rows until `CommitUpdate` or `CommitDelete`. `CommitEdit` writes the version computed
from the row as loaded, the others increment in SQL. `RolledBack` is a request whose
profile is gone, a deadlock's victim or a lost connection. The download reads
the agent's row, then the vehicle, then the definition (`ReadDevice`, `ReadVehicle`,
`ReadDefinition`). `Reject`, `KeepInstalled`, `AcceptNewer` and `Install` are
`InstallIfNewer`; the comparison and the rename are apart, because two programs do
both. `SyncFails` and `Restart` are faults. The file is readable for its owner
(`Readable`): `config --pull` runs as root and reads any, the service, which runs as
`vehinode-agent`, only its own. A file that cannot be loaded is replaced by any valid
configuration while the service is up, and keeps it from starting when it is not.

A deletion is `Bump`, `Clear` and `CommitDelete`: the statement that clears the assignments
sees the vehicles of its moment (`clears`), and waits for rows that another deletion has
cleared, as an assignment does (`VehicleFree`). `Overtaken(o)` says that what a request rests
on has changed since it read it: an edit will write a version that is not newer, or a
profile has been assigned after the request looked for its agents. `overtaken` remembers that
such a request was committed.

**Runs.**

| run | instance | shows |
|---|---|---|
| `config_sync` | 2 operators' requests at once, an agent with both its programs, 2 requests, 2 faults | an agent with the server's version has its configuration although the download is torn, until a request is overtaken; nothing but an overtaken request changes what an agent should have under an old number; a vehicle is left with a profile that is gone only by an assignment that looked it up before its deletion; the service ends up with the server's configuration as long as it is up and no request was overtaken |
| `stale_version` | 2 operators, 2 requests, no fault | violation: a change that gets no version of its own (`EveryChangeIsVersioned`) |
| `pulled_file` | 1 operator, no faults | violation: `config --pull`, then the restart the documentation asks for |

With two requests at once the rule of the documentation fails: `CommitEdit` writes the
version computed from a row that another request has changed since, or a profile is
edited that no vehicle had when the versions were incremented, and the agent that has
that number keeps the older content. What is true without any assumption
is that this is the only way (`OnlyOvertakenIsUnversioned`), and as long as it
has not happened the version identifies the configuration. In the same way nothing but a
look-up before the assignment keeps a vehicle's profile (`OnlyAssignmentOfDeletedDangles`).
Two requests are the smallest overlap, and make a version that is skipped and an older one
that is installed late by the other program; a second
profile or agent adds no interaction, since agents share nothing but the rows and a
vehicle has one profile. `Converges` excuses what the code cannot repair: a change without a
version (`overtaken`), and a vehicle whose profile is gone (`AssignedExists`), for which the
server has no configuration to give.

**Fairness.** A request that was begun ends; the service returns to its synchronization
(`config-sync-seconds`); `config --pull` may stall or never be run.

**Proofs** (`ConfigSyncProofs`), for any number of operators, agents and profiles, and requests
that overlap as they like: `VersionIdentifiesConfiguration`, `OvertakenAreUnversioned` and
`OverlapsDangle`. The invariant `SyncInv` says what a download may hold: rows read at
different moments are current as long as the version read first is (`DownloadIsCurrent`),
because every step of the server that changes them makes a newer version, unless its request
is overtaken; `RequestShape` says what a request can have read and what it locks. The
overtaken request is why the excuse is needed, and it is the only one.

## 6. Accounts

**State.** Rows: `email` (none for an id without a row), `active`, `admin` (the
permission `system.admin`), the account of each identity (`linked`) and of each browser
session (`session`). `creator` is the request that holds `LOCK TABLE users`. `pc` and
`call` are a request's place and what it has read or decided. `founders` and
`disturbed` are history, for the properties: accounts made by the registration or the
bootstrap, and requests during which another one committed.

**Actions.** A request of an administrator is `BeginAdmin` (`current_user`,
`require_admin_write`), `LoadUpdate`, `LoadDelete` or `LoadCreate`, `GuardLastAdmin` where
the code asks for it, and a commit. `BeginFirst` is the registration or the bootstrap at
start-up: `LockCreation`, `CountUsers`, `CommitFirst`. `BeginLogin` is the OIDC callback:
`Match` by the identity, or `FirstLogin` and the lock, then `Match` again, `MatchAddress`
or `Provision`; `MapGroup` is the mapping of the administrator's group with its guard;
`CommitLogin` or `CommitProvision`. What a request asks for is chosen where it is first
used. Each refusal, a failed unique index, an UPDATE that matches no row, a deadlock's
victim and a lost connection end the request without a change.

Three things of the database and the ORM decide what can happen, and are modelled:

* The caller's row is in the identity map of the request's session, so
  `_other_active_admin_exists` sees the caller as it was when it was authorized. The
  caller is never the account the request is about, so the guard lets every
  administrator's request pass; only in `MapGroup`, where nobody is logged in yet, can
  it find nobody.
* The first query flushes `last_seen_at`, which locks the row of the caller's session
  until the request ends. Two requests of one session come one after the other, and a
  deletion, which cascades to sessions and identities, waits for the requests of the
  account it deletes (`Pins`). This, not the guard, is what keeps an account when
  administrators delete one another: one of them waits, or is a deadlock's victim.
* `LOCK TABLE users IN SHARE ROW EXCLUSIVE MODE` excludes other writers of the table
  (`UsersFree`), so that an administrator's `create_local_user`, which does not take the
  lock, cannot get in between a first login's check and its commit.

**Run.** `console` has two accounts, two addresses, one identity, two sessions and two
requests at once, with OIDC, provisioning and the group mapping: one first account,
first logins undisturbed, an account always left, an administrator left unless a
commit comes in between. The race in which two administrators demote or suspend each
other, and each finds itself in office, is a behaviour of the model, and so is the
one of a demotion and a login whose group mapping demotes: `LastAdminOnlyInRace`
says that there is no other way. The rule as documented, `AdminRemains`, is what the race
breaks (section 10). Two requests are the
smallest overlap, and every lock has two sides; a third account, which is neither the
caller's nor the one in hand, is left to the proofs, which are for any number.

**Proofs** (`AccountsProofs`), for any number of accounts, sessions and requests and
every setting. `AccountsInv` says of each request what it may rely on: its caller's
session (`CallerKept`), the lock under what it decided (`CreatorHolds`), the identity of
the account a login found (`LoginIdentified`: an identity that lost its account never
gets it back), and, as long as nothing else commits, its caller's rights
(`UndisturbedHolds`). `ToStep`, `RefusedStep` and `CommitStep` reduce each action to what it
changes. From it follow `FirstAccountIsOnce`, `FirstLoginUndisturbed`, `NoAddressTwice`,
`InstanceKeepsAccount` and `LastAdminLostInRace`; `LastAdminKeptAlone` proves the documented
rule for an instance that serves one request at a time; the race shows why that is
assumed.

## 7. Sensing the vehicle: VehicleSensing

**State.** `car`, `place` and `plugged` are the vehicle and the plug. `fix` and `fixAge`
are `parser.LastFix` and the time since `lastFix`. `kind` is which provider
`vehicleProvider` made, `port` its adapter's serial port (`dead` when the plug was pulled
under it: every call fails), `running` is `stop # nil` of a profile's provider or
`connected` of the standard one, `stopping` says that `Close` has closed the channel and
waits, `monitors` are the goroutines of the present source. `retry` counts down to
`nextTry`, `failure` is whether `Status` has a text. `metrics` keeps of each decoded value
whether it speaks for a vehicle in use, `anchor` and `since` are the detector's. `step` is
where the loop is, `busy` the time its pass has taken, `due` the time to `nextSample`.

**Actions.** A pass of the loop is `ReadPosition`, then for the vehicle `Connect` with
`ConnectFails` or `Connected`, or `Query` or `QueryFails`, or nothing, then `Observe`, which
is the detector, the cadence it decides and the end of `Collect`. A goroutine is `Begin` or
`BeginFails`, then `Frame` for each value it decodes, `Stopped` when the channel is closed
under it, and `CloseAdapter`: giving up the source (`stop = nil`) and closing the adapter
are apart, because the code does the second without the mutex, and the loop may connect
in between. A goroutine in its loop whose port has been closed reads through a nil port
(`Panicked`) and takes the process down; the service restarts it (`Restart`). A
configuration sync replaces the source: `CloseSource`, where it has to wait for a
goroutine, and `Replace`. `Turn`, `Move` and `Plug` are the world; `Tick` is time, which
passes while the loop sleeps and while it connects.

**Runs.**

| run | instance | shows |
|---|---|---|
| `sensing` | both sources, a vehicle that sleeps, is off or drives, one trip between two places, one readiness signal, 2 goroutines, the same interval in both states | one listener, a fault that has a name whenever no source is there, a loop that is never blocked for good, reconnection, driving noticed, parking found |

`Reconnects` and `DrivingIsNoticed` hold from where the operator stops interfering
(`Undisturbed`) and unless a goroutine is so slow that it closes the adapter under the
next connection again and again; both assume a port that did not die under an open
connection. They cannot do without: `MonitorUntil` treats an error of a read as an empty
line (`obd.go:275`), so that the goroutine of an adapter that was pulled out listens on for
ever, and neither a reconnection nor a fault follows until the source is replaced.
`FaultIsNamed` is about a source that is not there; of one whose goroutine is alive it says
nothing, and on a dead port nothing is named: the vehicle looks like one that is silent.
`ParkedInTheEnd` likewise excuses a decoded value that says the vehicle is in use: it is
published again at each sample after the bus fell silent, and the driving cadence stays.

The bounds: two goroutines are one that is late with closing and its successor.
`Retry`, `ConnectTime`, both intervals and the least age of a fix are one tick and `Grace`
two, which is enough for a retry that comes before or after a sample, a connection
that outlasts an interval and a sample within the grace period; `MaxAge` follows as two
ticks. One trip leaves the displacement either before or after the anchor. The world
may change for ever, so every liveness property says of what it assumes that it holds
from some point on. A restart is always possible, so that the model never deadlocks; that
the loop does not stand still is what `SamplingGoesOn` says.

**Fairness.** Weak fairness of the loop (its pass, the time it sleeps or connects and the
replacement it waits for: one of them at a time), of each goroutine, of each frame (a
vehicle that is awake repeats what it broadcasts) and of the restart after a panic
(`Restart=always` in the unit). Strong fairness of `Connected` is an assumption about the
hardware: an adapter that is there accepts a connection at last.

**Proofs** (`VehicleSensingProofs`). `SourceInOrder` for any number of goroutines and every
interval. `OneListener` is inductive only with `ClosingWaits` and `ConnectsAlone` (a
connection is begun only without a source, so that nobody listens then), and
`FaultIsNamed` only with `FailureKept`: whatever ended or prevented the source, as long as
the next attempt is not due, has left its fault. The lemmas `GivenUp`, `StartsOver` and
`SourceKept` reduce each action to what it does to the source.

**Observed while modelling, not checked.** The first readiness signal that has a value
decides alone, so `vehicle.ready = false` with `charging.active = true` is parked,
although charging counts as in use (`activity.go:26-30`). The age a fix may have is
sized at start and does not follow a cadence that is changed later. A receiver's
backlog is modelled as unlimited: what a read consumes last is what was published
last.

## 8. Who sees what: LiveAccess

**State.** `users`, `active`, `admin`, `vehicles`, `grant` (a level of each vehicle and user),
`template` (the default access), `password` (which one is in force), and of each session
its `owner` and whether it is `valid`. `call` is what a request has read: the password a
login checked, the rows a replacement deletes, the template a new account is given.
`stream` is a browser's stream: where `load_vehicle_snapshot` is, whether the user was an
administrator when it began, what is still to be serialized, the frame so far and what
was last sent. `known`, `late`, `listed`, `mixed` and `held` are history, for the properties.

**Actions.** A frame is `Check` (session and account, one query), `List` (the visible ids
and the vehicles), `Serialize` for each vehicle (its level is queried again) and `Send`;
or `Expired`. A replacement of grants is `BeginReplace`, `Delete` and `Replace`, since the
DELETE sees the rows of its moment, waits for others that have deleted them, and the
INSERTs meet what was inserted meanwhile. `Verify` and `Login` are the two sides of the
check of a password, `BeginChange` and `Change` those of its change. An administrator is
not one of `Users`, and may do anything at any time.

**Run.** `live_access`: two users, one vehicle, two sessions one of which has a stream, two
requests at once and three changes: enough for a grant that is revoked and restored
within a frame, for two lists at once, for a login that straddles a change. What a
frame shows was granted at some moment since its list was made; a change of the
password leaves no older session but those whose login had already checked it; the
grants of a vehicle are one list unless two were stored at the same time (`mixed`: then
each request deletes only what it saw, and the lists merge); a stream whose session ends
or whose account is suspended ends; one that stays open comes to show what may be seen,
although only differences are sent. Changes are bounded, so that the last sentence
says something: after the last of them the stream catches up.

**Fairness.** Weak fairness of each stream's next step: the loop of
`vehicle_event_stream` polls for as long as the client is connected. Browsers,
administrators and logins are never forced.

**Proofs** (`LiveAccessProofs`), for any number of everything. `AccessInv` adds what the
three properties need: a frame exists only between its list and its end, during
which `Watch` only adds to `held` (`FramesListed`, `HeldGrows`); a replacement covers all
grants that are there, until somebody else writes grants of the vehicle (`Covers`), which
is why a list that nobody overlapped is the whole list. `GrantSteps`, `SessionSteps`,
`StreamSteps` and `RowSteps` say which actions write what.

## 9. Behind the console: one run for parts that share nothing

`MCConsole` extends `Accounts` and instantiates six more modules. They share no variable, so
that an interleaving of two of them shows nothing that one of them does not; the first
state chooses the part that moves (`part`), and the state graph is the union of seven.
Requests are interchangeable, and so are accounts (`Symmetry`).

* **Dashboards.** `board` has each dashboard's default flag and the vehicles its layout
  names; `job` what a request has loaded, which rows it has locked by an UPDATE or a
  DELETE that was flushed, and how far it is. The UPDATE that clears the other defaults
  sees what is committed when it starts and waits for rows others have written. The
  ORM writes the columns that differ from the row as loaded, which is why a removed
  vehicle that was loaded before the owner's change can undo it (`Merged`, `Remove`).
  `OneDefault` and `LayoutIsOwners` say what remains of "one default" and "a layout is what
  its owner saved" under two requests at once: everything but what `excused` and
  `crossed` name, two requests that overlapped in the rows in question. Bounds: one
  vehicle, two dashboards at once, two requests.
* **VehiclePhotos.** `photo` is the key of the row, `files` the directory. An upload loads,
  takes the body, stores the file, commits and then removes the file it replaced, as
  remembered; each of the five can be the last before the process ends. The body is
  where other requests come in. `PhotoIsThere` excuses contents that two requests had
  in hand at once (`contested`: the file's name is the hash of its content, so that one
  request's clean-up removes the other's file), or whose commit raised after the database
  had it (`UndoCommitted`: the file goes, the row names it). `NoFileLeft` excuses overlaps,
  crashes, such a commit and a file that cannot be removed (`RemovalFails`), as `astray`,
  until the directory is in order again. A deletion whose commit raises after the fact is
  its commit followed by `RemovalFails`.
  Bounds: two contents, two requests.
* **Enrollment.** `token` and `device` are rows, `host` how far an installation is, what it
  has been answered, and its two files with their owner. Redeeming locks the token's row;
  the answer may be lost, and the installer may be run again over what is there. A
  rotation or an edit writes two columns, or one, of a row that was loaded earlier.
  Bounds: two tokens, devices and hosts, one operator's request that straddles a
  revocation.
* **History.** `readings` by id, which is random, and one `reader`. A chart counts, numbers
  and samples, and then looks up the newest row: three statements, between which rows
  arrive. A table counts and then reads a page, whose window begins so many days
  before now. `Pages` is what LIMIT and OFFSET may return: any rows in an order that the ORDER BY
  allows. Bounds: three readings at two times, two points of a chart, pages of two.
* **Records.** `db` is a partial function from ids to rows, a row the values of its foreign
  keys, `Keys` the schema with what each key does on a deletion. `Ingest`, `TestHook`,
  `RetryExecution`, `AddHook` and `SaveState` insert, the five removals delete. An execution
  survives its reading's deletion only if its trigger does, and a trigger its device's
  only if the reading does: no chain leaves an execution without inputs. Bounds: two
  readings, a hook, two triggers and executions; one vehicle with two agents and two accounts.
* **HookEdits.** `hook`, `revisions` and what each edit has loaded. The number of the next
  revision is computed from the loaded row, and UNIQUE (hook_id, revision) alone keeps two
  edits apart. Bounds: two administrators, requests and sources, three revisions.
  Revisions do not stay, even with one edit at a time: they go with the account that saved
  them (`lost`).

The run shows, one part at a time: the four properties of `Accounts` above, `OneDefault`,
`LayoutIsOwners`, `PhotoIsThere`, `NoFileLeft`, `OneDevicePerToken`, `RevokedStaysOut`,
`ChartInOrder`, `PagesSkipNothing`, `ExecutionFindsInputs` and `CurrentRevisionIsLast`. Nothing has to happen in these parts: no fairness is assumed.
Two requests are the smallest overlap. `CHECK_DEADLOCK FALSE`: without a vehicle, with
all tokens used or all ids taken, a part stops.

**Proofs** (`ConsoleProofs`, `RecordsProofs`), of `ConsoleSpec` and so of the very formulas
the run checks, for any number of requests, rows and values. A step of the console is a step
of one part or leaves it alone (`PartsMove`, `PartsSpec`), so that each part has an
inductive invariant of its own:

* *Enrollment* (`EnrollInv`): a token in hand is open and in one hand (`Holding`, from the
  lock), an open token has made nothing (`OpenIsUnused`), and a row that is written never
  loses its revocation (`RevocationsStay`). From it `TokenMakesOneDevice` and
  `RevocationHolds`.
* *HookEdits* (`EditsInv`): nothing an edit has loaded is ahead of the hook
  (`LoadedIsBehind`); the number an edit finds free is the one after the newest only because
  no number below it is missing, and then what it loaded is the newest
  (`NumberFreeIsNext`). From it `NewestRevisionRuns` and `NextEditIsFree`.
* *VehiclePhotos* (`PhotosInv`, `FilesInv`): what a request will still remove is not the photo,
  and an upload that commits has its file, unless its content is `contested`
  (`PhotoStays`, `StoredIsThere`, `SharedIsContested`): `PhotoHasFile`. Without overlaps
  the one request accounts for every file that is not the photo's (`Accounted`):
  `FilesHavePhotos`.
* *Dashboards* (`BoardsInv`): while nobody else has committed, the dashboards are as a request
  found them, and it holds the rows whose default it cleared (`AsFound`); a layout it has loaded
  is the one that is there unless it is said to have missed a write (`LayoutsAsLoaded`);
  a row that a request has locked stays (`LocksThere`). `CommitKept` shows for all commits at
  once that the other requests keep theirs. From it `DefaultIsOne` and `LayoutsAreOwners`.
* *Records* (`RecordsInv`): the keys hold and a trigger, an execution and their reading
  agree. `InputsAreThere` follows. `TakesItsOwn` says what the deletion of a vehicle leaves
  (`VehicleTakesItsOwn`, which no run repeats); that the
  rounds of `Gone` reach every row follows from the depth of a table: a cascading key leads
  to a lesser one, and there are five.
* *History* (`HistoryInv`). Rows have the places from 0 on, one each (`PlacesAreTaken`), hence
  the rows picked by a stride are no more than its multiples (`PickedFew`), also
  with those that arrived after the count, and every row has a point less than a stride
  before it (`SampledNear`): `ChartIsInOrder`. For the table the invariant must say how far
  down a row is that no page has shown: at least n other rows are above it where the next
  page starts after n rows, unless two tied rows may have changed places (`After`,
  `TieAbove`). Arrivals only add rows above; a window that moves along drops the oldest, which
  in the order of the newest first are below; and a page with those before it is
  closed upwards, so that a row it lacks has all of it above (`Paged`). At the last page
  there is no room below: `PagesAreComplete`.

The invariants of `Dashboards`, `VehiclePhotos`, `Records` and `History` were run in TLC on the
instance of `console` before they were proved, that of `History` also with pages of one row
and four readings.

## 10. Findings

Each of these is a run with expectation "violation"; `PROJECT.json` quotes the lines.

* `lost_update`: the advisory lock is released before the commit of the new state.
* `poison_batch`: a course of 360 degrees is refused by the schema and blocks the queue.
* `stale_version`: an edit of an agent writes a version computed from a row that has changed
  since, so that a change gets no version of its own.
* `pulled_file`: `config --pull` leaves a file that the service cannot load.

`lost_update` needs a second worker, which the compose file does not start;
`poison_batch` needs nothing but the receiver and `pulled_file` an operator who follows the
documentation; `stale_version` needs two requests at the same moment.

Met while modelling, and not runs: each is a behaviour of a model above, or a text that
says something else than the code, and the properties are stated around it.

* Re-enrollment "uses a new enrollment token" (`docs/user-guide/devices.md:77`), but on a
  host that has a `config.json` the new identity's version 1 is refused as a rollback after
  the credentials were replaced, or ignored as equal (`main.go:176-181`; `Refused`, `Newer`).
* "Deletion also clears the vehicle assignment" (`docs/developers/vehicle-profiles.md:65`), but an assignment that looked the profile up before
  (`vehicles/routes.py:95`) commits afterwards and the vehicle names a profile that is gone
  (`AssignedExists`; `OnlyAssignmentOfDeletedDangles` says that this is the only way).
* "The last active administrator can never be demoted, suspended or deleted"
  (`docs/developers/auth.md:32-33`), but two
  administrators who suspend or demote one another at once each find the other in office
  (`users/services.py:19`): `AdminRemains` fails, `LastAdminOnlyInRace` is what holds.
* "Without this a dead adapter is indistinguishable from a vehicle that simply has nothing to
  report" (`runtime.go:35-36`, of `Status`), but an adapter that is pulled out under
  its goroutine reads as a silent bus (`obd.go:275`) and no fault is named.
* The evidence is "not the decoded values, which are republished unchanged after the bus goes
  quiet" (`docs/user-guide/devices.md:50-53`), but a readiness signal is such a value and
  decides first (`activity.go:95-96`): a vehicle that slept while it was `ready` is never
  found parked.
* Sessions "are invalidated by password change" (`docs/developers/auth.md:10-11`), but a login
  that had checked the old one commits its session afterwards (`late`).
* A list of grants is a "full replacement" (`.agent/PERMISSIONS_SPEC.md:89`), but two that are
  stored at once merge, since each deletes only the rows it saw (`access/services.py:88`; `mixed`).
* "Revisions keep earlier source" and leave "the audit trail intact" (`docs/user-guide/hooks.md:84-85`), but they go with the account that
  saved them (`hooks/models.py:57`). After that a slow edit can set the hook back to a number
  below a row that is still there, and every further edit meets the unique key.
* "Deleting an account deletes what it owned. Vehicles, telemetry, agents and hooks
  cascade" (`docs/developers/auth.md:41`), but `created_by` is set null and they stay, as
  `test_user_administration.py` expects.
* An agent that is deleted "should leave nothing behind" (`devices/services.py:134`); what
  it contributed to the current state, merged with another agent's newer reading, stays.
* An execution that is deleted under its running child leaves the hook's advisory lock
  with the pooled connection (`leaked`); `WaiterIsServed` fails with deletions.

## 11. What is proved, what is only checked, what is left out

Proved for all values of the constants: the theorems in `PROJECT.json`, from the
named assumptions on the constants (which TLC evaluates in every run), and where a theorem
says so from one request at a time (`LastAdminKeptAlone`), one worker (`AloneLosesNothing`)
or no request that clears telemetry.
`ConsoleAssumption` says that the bounds are numbers, that `max_points` and `limit` are positive,
as the routes demand, and that `None` is none of the values in whose place it
stands. Every invariant and every action property of the passing runs, and both
refinements, are proved.
Only model-checked: all liveness (fairness and ENABLED are out of the prover's reach):
`EveryJobEnds`, `WaiterIsServed`, `EveryReadingArrives`, `Converges`, `SamplingGoesOn`,
`Reconnects`, `DrivingIsNoticed`, `ParkedInTheEnd`, `StreamsEnd` and `ShowsCurrent`. The counting
in the proof about charts needs no induction over data: it goes through injections into
intervals, of which the library knows the size.

Abstracted on purpose: values of metrics, texts, secrets, the wire format, the workers'
heartbeats, authentication of operators outside `Accounts` and `LiveAccess` (any request
may come at any time). Unbounded quantities are cut by the constants named `Max...` and
the clock's `Times`; each is a guard on the action that consumes it, and apart from the
types only `ChartInOrder` mentions one, which is a parameter of the request.

Not modelled: the sandbox a hook runs in and what `ctx` offers it (Python's own, and input
and output); secrets and encryption; the bytes of the serial protocols and the decoder
of frames, which are arithmetic and tested as such; the modem and hardware detection (see
the plan); updates, captures and diagnostics, which an operator runs once; the loop of the
legacy Python agent, which is given its boot id on the command line; the web interface; backups and the
start order of the containers.
