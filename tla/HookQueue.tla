----------------------------- MODULE HookQueue -----------------------------
(***************************************************************************)
(* The durable job queue that runs hooks: backend/app/worker.py and        *)
(* backend/app/jobs/services.py, the rows they read and write              *)
(* (backend/app/hooks/models.py, backend/app/jobs/models.py) and the API   *)
(* calls that create and delete those rows.                                *)
(*                                                                         *)
(* Every job carries exactly one execution, so one identifier names both;  *)
(* identifiers are handed out in the order of Job.created_at.  One action  *)
(* is one database transaction, or the part of a worker's loop between two *)
(* points at which another process can be seen or can interfere.           *)
(*                                                                         *)
(* The value of a hook's persistent state is the set of executions whose   *)
(* effect it carries: every run returns its input plus itself, which is    *)
(* what a counter or a journal kept in ctx.state does.                     *)
(***************************************************************************)
EXTENDS Naturals

CONSTANTS
  Workers,    \* worker processes, each with one pooled database session
  NoWorker,   \* the holder of a free advisory lock
  Hooks,      \* the hooks of the instance
  Vehicles,   \* the vehicles whose samples executions are pinned to
  MaxExec,    \* bound: how many executions are ever queued
  Lease,      \* LEASE_SECONDS, in ticks
  MaxRun,     \* the cap on timeout_seconds, in ticks
  Crashable,  \* the workers that may be killed
  Deletes,    \* whether hooks and telemetry are deleted while the queue runs
  Prompt      \* whether workers are never stalled between two statements

ASSUME QueueAssumption ==
  /\ NoWorker \notin Workers
  /\ Hooks # {} /\ Vehicles # {}
  /\ MaxExec \in Nat /\ Lease \in Nat /\ MaxRun \in Nat
  /\ MaxRun < Lease
  /\ Crashable \subseteq Workers
  /\ Deletes \in BOOLEAN /\ Prompt \in BOOLEAN

Execs  == 1 .. MaxExec
NoExec == 0

VARIABLES
  hooks,   \* the hooks that still exist
  job,     \* Job.status; "absent" before the row is inserted
  age,     \* ticks since Job.locked_at, for a running job
  exec,    \* HookExecution.status; "absent" before insertion and after a cascade
  hookOf,  \* HookExecution.hook_id
  vehOf,   \* the vehicle of the sample the execution is pinned to
  state,   \* HookState.value; {} when the row does not exist
  lock,    \* the session that holds a hook's advisory lock
  leaked,  \* hooks whose lock is held once more than its holder will release it
  pc,      \* where each worker is in process_one
  cur,     \* the execution it works on
  ran,     \* ticks its child process has been running
  input,   \* the state its child was given
  result,  \* what its child reported
  found,   \* whether it saw a HookState row after the child ended
  runs     \* history: how many times a child was started for an execution

jobVars    == <<job, age>>
execVars   == <<exec, hookOf, vehOf>>
lockVars   == <<lock, leaked>>
childVars  == <<ran, input, result, found>>
workerVars == <<pc, cur, ran, input, result, found>>
vars == <<hooks, job, age, exec, hookOf, vehOf, state, lock, leaked,
          pc, cur, ran, input, result, found, runs>>

JobStatus  == {"absent", "pending", "running", "completed", "failed"}
Outcome    == {"success", "failed", "timeout"}
ExecStatus == Outcome \cup {"absent", "pending", "running"}
Place      == {"idle", "claimed", "waiting", "locked", "running", "commit", "failing"}

Init ==
  /\ hooks  = Hooks
  /\ job    = [e \in Execs |-> "absent"]
  /\ age    = [e \in Execs |-> 0]
  /\ exec   = [e \in Execs |-> "absent"]
  /\ hookOf = [e \in Execs |-> CHOOSE h \in Hooks : TRUE]
  /\ vehOf  = [e \in Execs |-> CHOOSE v \in Vehicles : TRUE]
  /\ state  = [h \in Hooks |-> {}]
  /\ lock   = [h \in Hooks |-> NoWorker]
  /\ leaked = {}
  /\ pc     = [w \in Workers |-> "idle"]
  /\ cur    = [w \in Workers |-> NoExec]
  /\ ran    = [w \in Workers |-> 0]
  /\ input  = [w \in Workers |-> {}]
  /\ result = [w \in Workers |-> "failed"]
  /\ found  = [w \in Workers |-> FALSE]
  /\ runs   = [e \in Execs |-> 0]

----------------------------------------------------------------------------
(* What the database does for the workers.                                 *)

HookAt(w) == hookOf[cur[w]]

\* Execution rows a worker's open transaction has locked: from SELECT ... FOR
\* UPDATE to the commit that stores "running", and again once the query for the
\* hook's state has flushed the final status of a successful run.
RowLocked ==
  {cur[w] : w \in {x \in Workers : \/ pc[x] \in {"waiting", "locked"}
                                   \/ pc[x] = "commit" /\ result[x] = "success"}}

\* pg_advisory_lock: the session that already holds the lock is never blocked.
AnyoneEnters(h, w) == TRUE                 \* mutant: no lock at all
LockFree(h, w) == lock[h] \in {NoWorker, w}

\* pg_advisory_unlock: undoes one acquisition.
Unlocked(w) == [lock EXCEPT ![HookAt(w)] = IF HookAt(w) \in leaked THEN w ELSE NoWorker]

\* What is left of the locks when the connection of w closes.
LocksSurvive(w) == lock   \* mutant: locks outlive the session
LocksAfterClose(w) == [h \in Hooks |-> IF lock[h] = w THEN NoWorker ELSE lock[h]]

At(w, place) == pc' = [pc EXCEPT ![w] = place]

\* The worker is back at the top of its loop; its locals are forgotten.
ToIdle(w) ==
  /\ At(w, "idle")
  /\ cur'    = [cur    EXCEPT ![w] = NoExec]
  /\ ran'    = [ran    EXCEPT ![w] = 0]
  /\ input'  = [input  EXCEPT ![w] = {}]
  /\ result' = [result EXCEPT ![w] = "failed"]
  /\ found'  = [found  EXCEPT ![w] = FALSE]

----------------------------------------------------------------------------
(* Requests of the API.                                                    *)

\* A job and its execution are inserted by one transaction: by ingestion for
\* every enabled hook, or by a manual test.
Enqueue(e, h, v) ==
  /\ job[e] = "absent"
  /\ \A d \in Execs : d < e => job[d] # "absent"
  /\ h \in hooks
  /\ job'    = [job    EXCEPT ![e] = "pending"]
  /\ exec'   = [exec   EXCEPT ![e] = "pending"]
  /\ hookOf' = [hookOf EXCEPT ![e] = h]
  /\ vehOf'  = [vehOf  EXCEPT ![e] = v]
  /\ UNCHANGED <<hooks, age, state, lockVars, workerVars, runs>>

\* POST /hooks/{id}/test, and one turn of the loop of _enqueue_hooks.
QueueExecution(h, v) == \E e \in Execs : Enqueue(e, h, v)

Retriable == {"failed", "timeout"}

\* POST /hooks/executions/{id}/retry: a new execution with the same sample. The
\* sample exists whenever the execution does, because both go with the trigger.

RetryExecution(d) ==
  /\ exec[d] \in Retriable
  /\ \E e \in Execs : Enqueue(e, hookOf[d], vehOf[d])

\* The rows that go with a set of executions; the jobs stay, they have no
\* foreign key. The cascade waits for the row locks of the workers.
Cascade(gone) ==
  /\ gone \cap RowLocked = {}
  /\ exec' = [e \in Execs |-> IF e \in gone THEN "absent" ELSE exec[e]]

\* DELETE /hooks/{id}: its executions and its state go with it.
DeleteHook(h) ==
  /\ Deletes
  /\ h \in hooks
  /\ hooks' = hooks \ {h}
  /\ Cascade({e \in Execs : job[e] # "absent" /\ hookOf[e] = h})
  /\ state' = [state EXCEPT ![h] = {}]
  /\ UNCHANGED <<job, age, hookOf, vehOf, lockVars, workerVars, runs>>

\* DELETE /vehicles/{id}/telemetry: telemetry, its triggers, their executions.
ClearTelemetry(v) ==
  /\ Deletes
  /\ Cascade({e \in Execs : job[e] # "absent" /\ vehOf[e] = v})
  /\ UNCHANGED <<hooks, jobVars, hookOf, vehOf, state, lockVars, workerVars, runs>>

----------------------------------------------------------------------------
(* recover_expired_leases and claim_job, one transaction at the top of      *)
(* every turn of the loop.                                                  *)

NeverExpired == {}   \* mutant: abandoned jobs are not looked for
Expired == {e \in Execs : job[e] = "running" /\ age[e] > Lease}

RequeuedJob  == "pending"   \* mutant: an abandoned job is tried again
RecoveredJob == "failed"

\* The only executions recovery fails: the ones it reads as running.
RecoveredExec(e) ==
  IF e \in Expired /\ exec[e] = "running" THEN "failed" ELSE exec[e]

\* A successful worker between its last query and its commit holds the row of
\* the execution and needs the row of the job; recovery holds the job and needs
\* the execution. PostgreSQL aborts one of them: here the successful worker,
\* otherwise the recovering one, which changes nothing.
DeadlockVictims ==
  {x \in Workers : pc[x] = "commit" /\ result[x] = "success" /\ cur[x] \in Expired}

Claimable(e) == job[e] = "pending"

Oldest(e) == Claimable(e) /\ \A d \in Execs : Claimable(d) => e <= d

ClaimJob(w, e) ==
  /\ pc[w] = "idle"
  /\ Oldest(e)
  /\ job' = [d \in Execs |-> IF d = e THEN "running"
                             ELSE IF d \in Expired THEN RecoveredJob ELSE job[d]]
  /\ age' = [d \in Execs |-> IF d = e \/ d \in Expired THEN 0 ELSE age[d]]
  /\ exec' = [d \in Execs |-> RecoveredExec(d)]
  /\ pc' = [x \in Workers |-> IF x = w THEN "claimed"
                              ELSE IF x \in DeadlockVictims THEN "failing" ELSE pc[x]]
  /\ cur' = [cur EXCEPT ![w] = e]
  /\ UNCHANGED <<hooks, hookOf, vehOf, state, lockVars, childVars, runs>>

\* The same transaction when no job is pending.
RecoverOnly(w) ==
  /\ pc[w] = "idle"
  /\ \A e \in Execs : job[e] # "pending"
  /\ Expired # {}
  /\ job' = [d \in Execs |-> IF d \in Expired THEN RecoveredJob ELSE job[d]]
  /\ age' = [d \in Execs |-> IF d \in Expired THEN 0 ELSE age[d]]
  /\ exec' = [d \in Execs |-> RecoveredExec(d)]
  /\ pc' = [x \in Workers |-> IF x \in DeadlockVictims THEN "failing" ELSE pc[x]]
  /\ UNCHANGED <<hooks, hookOf, vehOf, state, lockVars, cur, childVars, runs>>

----------------------------------------------------------------------------
(* execute_hook_job.                                                       *)

\* The execution is selected FOR UPDATE. A missing one is an error; one that is
\* already over completes the job; otherwise the worker asks for the hook's lock.
SelectExecution(w) ==
  LET e == cur[w] IN
  /\ pc[w] = "claimed"
  /\ IF exec[e] = "absent"
     THEN At(w, "failing") /\ UNCHANGED <<jobVars, cur, childVars>>
     ELSE IF exec[e] \in {"pending", "running"}
     THEN At(w, "waiting") /\ UNCHANGED <<jobVars, cur, childVars>>
     ELSE /\ job' = [job EXCEPT ![e] = "completed"]
          /\ age' = [age EXCEPT ![e] = 0]
          /\ ToIdle(w)
  /\ UNCHANGED <<hooks, execVars, state, lockVars, runs>>

AcquireLock(w) ==
  /\ pc[w] = "waiting"
  /\ LockFree(HookAt(w), w)
  /\ lock' = [lock EXCEPT ![HookAt(w)] = w]
  /\ At(w, "locked")
  /\ UNCHANGED <<hooks, jobVars, execVars, state, leaked, cur, childVars, runs>>

\* Workers that wait for one another in a circle: PostgreSQL's deadlock
\* detector fails one of the pg_advisory_lock calls.
InCycle(w) ==
  \E S \in SUBSET Workers :
    /\ w \in S
    /\ \A x \in S : pc[x] = "waiting"
    /\ S = {lock[HookAt(x)] : x \in S}
    /\ \A x \in S : lock[HookAt(x)] # x

LockRefused(w) ==
  /\ pc[w] = "waiting"
  /\ InCycle(w)
  /\ At(w, "failing")
  /\ UNCHANGED <<hooks, jobVars, execVars, state, lockVars, cur, childVars, runs>>

LoadedState(w)  == state[HookAt(w)]

\* build_runtime_input and the commit of status "running"; the child starts on
\* the state read here.
StartChild(w) ==
  LET e == cur[w] IN
  /\ pc[w] = "locked"
  /\ exec'  = [exec  EXCEPT ![e] = "running"]
  /\ input' = [input EXCEPT ![w] = LoadedState(w)]
  /\ ran'   = [ran   EXCEPT ![w] = 0]
  /\ runs'  = [runs  EXCEPT ![e] = @ + 1]
  /\ At(w, "running")
  /\ UNCHANGED <<hooks, jobVars, hookOf, vehOf, state, lockVars, cur, result, found>>

\* build_runtime_input raises (a secret that cannot be decrypted): the context
\* manager releases the lock on the way out.
InputUnavailable(w) ==
  /\ pc[w] = "locked"
  /\ lock' = Unlocked(w)
  /\ At(w, "failing")
  /\ UNCHANGED <<hooks, jobVars, execVars, state, leaked, cur, childVars, runs>>

\* The child ends, or is killed at its timeout; the outcome is put on the cached
\* row objects and, after a success, the row of the hook's state is looked up.
\* Leaving the with-block releases the advisory lock: nothing is committed yet.
ChildEnds(w, outcome) ==
  /\ pc[w] = "running"
  /\ outcome = "success" => exec[cur[w]] # "absent"
  /\ lock'   = Unlocked(w)
  /\ result' = [result EXCEPT ![w] = outcome]
  /\ found'  = [found  EXCEPT ![w] = outcome = "success" /\ state[HookAt(w)] # {}]
  /\ At(w, "commit")
  /\ UNCHANGED <<hooks, jobVars, execVars, state, leaked, cur, ran, input, runs>>

\* After a success the lookup first flushes the execution's new status. When the
\* row was deleted meanwhile the flush raises, the session refuses every further
\* statement, pg_advisory_unlock among them, and the lock stays with the pooled
\* connection.
FlushFails(w) ==
  /\ pc[w] = "running"
  /\ exec[cur[w]] = "absent"
  /\ leaked' = leaked \cup {HookAt(w)}
  /\ At(w, "failing")
  /\ UNCHANGED <<hooks, jobVars, execVars, state, lock, cur, childVars, runs>>

\* The state row inserted by this worker exists already, or the execution of an
\* unsuccessful run was deleted meanwhile: the flush of the commit raises.
NeverRaises(w) == FALSE   \* mutant: writing to a deleted row goes unnoticed
CommitRaises(w) ==
  \/ exec[cur[w]] = "absent"
  \/ result[w] = "success" /\ ~found[w] /\ state[HookAt(w)] # {}

\* What a finished run leaves in the row of the hook's state: its own effect on
\* top of the input it was started with.
AlwaysSaved(w) ==   \* mutant: the state of an unsuccessful run is kept too
  [state EXCEPT ![HookAt(w)] = input[w] \cup {cur[w]}]
SavedState(w) ==
  IF result[w] = "success"
  THEN [state EXCEPT ![HookAt(w)] = input[w] \cup {cur[w]}]
  ELSE state

CompletedJob(w) == [job EXCEPT ![cur[w]] = "completed"]

CommitOutcome(w) ==
  LET e == cur[w] IN
  /\ pc[w] = "commit"
  /\ ~CommitRaises(w)
  /\ exec'  = [exec EXCEPT ![e] = result[w]]
  /\ state' = SavedState(w)
  /\ job'   = CompletedJob(w)
  /\ age'   = [age EXCEPT ![e] = 0]
  /\ ToIdle(w)
  /\ UNCHANGED <<hooks, hookOf, vehOf, lockVars, runs>>

CommitFails(w) ==
  /\ pc[w] = "commit"
  /\ CommitRaises(w)
  /\ At(w, "failing")
  /\ UNCHANGED <<hooks, jobVars, execVars, state, lockVars, cur, childVars, runs>>

\* The exception handler of process_one: its own transaction after the rollback.
HandleError(w) ==
  LET e == cur[w] IN
  /\ pc[w] = "failing"
  /\ job' = [job EXCEPT ![e] = "failed"]
  /\ age' = [age EXCEPT ![e] = 0]
  /\ exec' = [exec EXCEPT ![e] = IF @ \in {"pending", "running"} THEN "failed" ELSE @]
  /\ ToIdle(w)
  /\ UNCHANGED <<hooks, hookOf, vehOf, state, lockVars, runs>>

----------------------------------------------------------------------------
(* The environment.                                                        *)

\* The process dies and is restarted: its transaction is rolled back, its
\* session closes, its child dies with the container. The job stays "running".
Crash(w) ==
  /\ w \in Crashable
  /\ pc[w] # "idle"
  /\ lock'   = LocksAfterClose(w)
  /\ leaked' = {h \in leaked : lock[h] # w}
  /\ ToIdle(w)
  /\ UNCHANGED <<hooks, jobVars, execVars, state, runs>>

\* The places where a healthy worker can spend time.
MayLinger(w) ==
  \/ pc[w] \in {"idle", "running"}
  \/ pc[w] = "waiting" /\ ~LockFree(HookAt(w), w)

\* A child is killed at the hook's timeout.
TimeLeft(w) == pc[w] = "running" => ran[w] < MaxRun

Tick ==
  /\ \A w \in Workers : TimeLeft(w)
  /\ Prompt => \A w \in Workers : MayLinger(w)
  /\ age' = [e \in Execs |-> IF job[e] = "running" /\ age[e] <= Lease
                             THEN age[e] + 1 ELSE age[e]]
  /\ ran' = [w \in Workers |-> IF pc[w] = "running" THEN ran[w] + 1 ELSE ran[w]]
  /\ UNCHANGED <<hooks, job, execVars, state, lockVars, pc, cur, input, result, found, runs>>

Step(w) ==
  \/ \E e \in Execs : ClaimJob(w, e)
  \/ RecoverOnly(w)
  \/ SelectExecution(w)
  \/ AcquireLock(w)
  \/ LockRefused(w)
  \/ StartChild(w)
  \/ InputUnavailable(w)
  \/ \E outcome \in Outcome : ChildEnds(w, outcome)
  \/ FlushFails(w)
  \/ CommitOutcome(w)
  \/ CommitFails(w)
  \/ HandleError(w)

Next ==
  \/ \E h \in Hooks, v \in Vehicles : QueueExecution(h, v)
  \/ \E d \in Execs : RetryExecution(d)
  \/ \E h \in Hooks : DeleteHook(h)
  \/ \E v \in Vehicles : ClearTelemetry(v)
  \/ \E w \in Workers : Step(w) \/ Crash(w)
  \/ Tick

Spec == Init /\ [][Next]_vars

----------------------------------------------------------------------------
(* Fairness: the loop of main never ends, the child is killed at its         *)
(* timeout, PostgreSQL answers, time passes.                                *)

Fairness ==
  /\ \A w \in Workers : WF_vars(Step(w))
  /\ WF_vars(Tick)

FairSpec == Spec /\ Fairness

----------------------------------------------------------------------------
(* Properties.                                                             *)

TypeOK ==
  /\ hooks \subseteq Hooks
  /\ job \in [Execs -> JobStatus]
  /\ age \in [Execs -> 0 .. Lease + 1]
  /\ exec \in [Execs -> ExecStatus]
  /\ hookOf \in [Execs -> Hooks]
  /\ vehOf \in [Execs -> Vehicles]
  /\ state \in [Hooks -> SUBSET Execs]
  /\ lock \in [Hooks -> Workers \cup {NoWorker}]
  /\ leaked \subseteq Hooks
  /\ pc \in [Workers -> Place]
  /\ cur \in [Workers -> Execs \cup {NoExec}]
  /\ \A w \in Workers : cur[w] = NoExec <=> pc[w] = "idle"
  /\ ran \in [Workers -> 0 .. MaxRun]
  /\ input \in [Workers -> SUBSET Execs]
  /\ result \in [Workers -> Outcome]
  /\ found \in [Workers -> BOOLEAN]
  /\ runs \in [Execs -> Nat]

\* "Hooks execute once by default" (docs/adr/0004-trusted-hooks.md): whatever
\* crashes, expires or is retried, one execution starts at most one child.
RunsAtMostOnce == \A e \in Execs : runs[e] <= 1

\* Children of one hook never run at the same time, not even when a lease
\* expires under a running child or its lock was leaked.
InSection(w) == pc[w] \in {"locked", "running"}
OneChildPerHook ==
  \A v, w \in Workers : InSection(v) /\ InSection(w) /\ HookAt(v) = HookAt(w) => v = w

\* A hook's state carries the effect of an execution only if that execution
\* succeeded, or was deleted since: a run that failed, timed out, was given up
\* by recovery or is still open has left no trace in it.
NoPhantomEffect ==
  \A h \in Hooks : \A e \in state[h] :
    hookOf[e] = h /\ exec[e] \in {"success", "absent"}

\* The two rows of a unit of work agree: a recorded success has a completed job,
\* and a completed job has an execution that is over.
JobMatchesExecution ==
  \A e \in Execs :
    /\ exec[e] = "success" => job[e] = "completed"
    /\ job[e] = "completed" => exec[e] \notin {"pending", "running"}

\* The queue implements the ledger: what is promised of each execution.
Ledger == INSTANCE HookLedger WITH
  queued <- {e \in Execs : job[e] # "absent"},
  gone   <- {e \in Execs : job[e] # "absent" /\ exec[e] = "absent"},
  starts <- runs,
  saved  <- {e \in Execs : exec[e] = "success"}
LedgerHolds == Ledger!Spec

\* A success is never taken back, by recovery, by another worker or by a retry.
SuccessIsFinal ==
  [][\A e \in Execs : exec[e] = "success" => exec'[e] \in {"success", "absent"}]_vars

\* The inductive invariant behind the safety properties: who holds which job,
\* what has not started yet, who holds which lock, and where the effects a
\* worker is about to save come from.
OneHolderPerJob ==
  \A v, w \in Workers : pc[v] # "idle" /\ cur[v] = cur[w] => v = w
HeldJobIsOpen == \A w \in Workers : pc[w] # "idle" => job[cur[w]] \in {"running", "failed"}
UnclaimedNotStarted ==
  \A e \in Execs : job[e] \in {"absent", "pending"} =>
    runs[e] = 0 /\ exec[e] \in {"absent", "pending"}
PlaceMatchesRow ==
  \A w \in Workers :
    /\ pc[w] \in {"claimed", "waiting", "locked"} =>
         runs[cur[w]] = 0 /\ exec[cur[w]] \in {"absent", "pending"}
    /\ pc[w] \in {"waiting", "locked"} => exec[cur[w]] = "pending"
    /\ pc[w] \in {"running", "commit"} => runs[cur[w]] = 1
    /\ pc[w] = "commit" /\ result[w] = "success" => exec[cur[w]] # "absent"
SectionHoldsLock == \A w \in Workers : InSection(w) => lock[HookAt(w)] = w
Saved(e, h) == hookOf[e] = h /\ job[e] = "completed" /\ exec[e] \in {"success", "absent"}
EffectsAreSaved ==
  /\ \A h \in Hooks : \A e \in state[h] : Saved(e, h)
  /\ \A w \in Workers : pc[w] \in {"running", "commit"} =>
       \A e \in input[w] : Saved(e, HookAt(w))
QueueInv ==
  /\ TypeOK
  /\ OneHolderPerJob
  /\ HeldJobIsOpen
  /\ UnclaimedNotStarted
  /\ PlaceMatchesRow
  /\ RunsAtMostOnce
  /\ SectionHoldsLock
  /\ JobMatchesExecution
  /\ EffectsAreSaved

\* The state of a hook carries every recorded success: "Serialize executions per
\* hook so read-modify-write state is deterministic" (worker.py:30).
NoLostUpdate ==
  \A e \in Execs : exec[e] = "success" => e \in state[hookOf[e]]

\* Why one worker alone loses nothing: the state it handed to its child is still
\* the whole state when the outcome is committed.
InputIsCurrent ==
  \A w \in Workers : pc[w] \in {"running", "commit"} =>
    \A e \in Execs : exec[e] = "success" /\ hookOf[e] = HookAt(w) => e \in input[w]
AloneInv == QueueInv /\ NoLostUpdate /\ InputIsCurrent

\* Once an execution is over its outcome stands, until it is deleted.
OutcomeIsFinal ==
  [][\A e \in Execs : exec[e] \in Outcome => exec'[e] \in {exec[e], "absent"}]_vars

\* No worker keeps a hook's lock once it has left the section the lock guards.
LockHeldOnlyInSection ==
  \A h \in Hooks : lock[h] # NoWorker => InSection(lock[h]) /\ HookAt(lock[h]) = h

\* Every queued job comes to an end, whoever crashes.
EveryJobEnds ==
  \A e \in Execs : job[e] = "pending" ~> job[e] \in {"completed", "failed"}

\* A worker that waits for a hook's lock gets it, or is told that it cannot.
WaiterIsServed ==
  \A w \in Workers : pc[w] = "waiting" ~> pc[w] # "waiting"
=============================================================================
