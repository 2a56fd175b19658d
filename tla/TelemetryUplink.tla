--------------------------- MODULE TelemetryUplink ---------------------------
(***************************************************************************)
(* The way of a reading from an agent to the server: the loop of the Go     *)
(* agent (agent/internal/runtime/runtime.go, agent/internal/store/queue.go),*)
(* the network between them, ingestion (backend/app/telemetry/services.py), *)
(* and the operator's requests that delete what was ingested                *)
(* (backend/app/devices/services.py).                                      *)
(*                                                                         *)
(* The agents of one vehicle share its current-state row. A reading is a     *)
(* number, given in the order in which readings are taken. Of its content    *)
(* the model keeps the agent's clock, which may jump, and the heading, which *)
(* may be one the server refuses. The metrics of different agents have      *)
(* different names; `merged` tells from which reading the current state has  *)
(* the metrics of each agent.                                              *)
(*                                                                         *)
(* A slot is one HTTP request together with the transaction that serves it.  *)
(* It outlives the agent's interest in it: a client that timed out retries   *)
(* while the first request is still being served.                          *)
(***************************************************************************)
EXTENDS Naturals, FiniteSets

CONSTANTS
  Devices,     \* the agents enrolled on the vehicle
  Slots,       \* bound: requests under way at once
  NoSlot,      \* an agent that waits for no answer
  MaxSamples,  \* bound: readings ever taken
  MaxBoots,    \* bound: starts of one agent
  MaxFaults,   \* bound: losses, timeouts and failures
  BatchLimit,  \* how many readings one upload carries
  Times,       \* what an agent's clock can show
  Headings,    \* what a receiver reports as course over ground, in degrees
  Requests     \* what the operator does: "revoke", "delete", "remove", "clear"

ASSUME UplinkAssumption ==
  /\ Devices # {} /\ NoSlot \notin Slots
  /\ MaxSamples \in Nat /\ MaxBoots \in Nat \ {0} /\ MaxFaults \in Nat
  /\ BatchLimit \in Nat \ {0}
  /\ Times \subseteq Nat /\ Headings \subseteq Nat
  /\ Requests \subseteq {"revoke", "delete", "remove", "clear"}

Samples == 1 .. MaxSamples
None    == 0
AnyDevice == CHOOSE d \in Devices : TRUE   \* stands for no agent in particular

VARIABLES
  \* the agents
  taken,     \* how many readings have been taken
  owner,     \* the agent that took a reading
  seq,       \* its sequence number
  at,        \* its recorded_at
  heading,   \* its heading
  queue,     \* the rows of each agent's queue.sqlite3
  boot,      \* Agent.BootID
  sequence,  \* Agent.Sequence
  waits,     \* the request whose answer the agent waits for
  \* requests being served
  step,      \* how far a request has come
  from,      \* the agent that sent it
  under,     \* its boot_id
  batch,     \* its samples
  fresh,     \* IngestionResult.accepted
  seen,      \* the current-state row as the transaction has read it
  \* the database
  device,    \* the rows of the agents
  history,   \* the rows of Telemetry
  bootOf,    \* Telemetry.boot_id
  triggers,  \* Trigger.payload["telemetry_ids"] of every trigger
  current,   \* VehicleState.telemetry_id, None without a row
  merged,    \* the reading latest_metrics has each agent's metrics from
  clearing,  \* how far a request to clear the vehicle's telemetry has come
  doomed,    \* the rows its first statement has deleted, uncommitted
  \* history of the run
  erased,    \* readings deleted at least once
  faults     \* how many faults have happened

sampleVars  == <<taken, owner, seq, at, heading>>
agentVars   == <<queue, boot, sequence, waits>>
requestVars == <<from, under, batch, fresh, seen>>
storeVars   == <<history, bootOf, triggers, current, merged>>
clearVars   == <<clearing, doomed>>
vars == <<sampleVars, agentVars, step, requestVars, device, storeVars, clearVars,
          erased, faults>>

Place == {"free", "sent", "admitted", "locked", "inserted", "flushed", "answered", "refused"}

Init ==
  /\ taken = 0
  /\ owner    = [s \in Samples |-> AnyDevice]
  /\ seq      = [s \in Samples |-> 0]
  /\ at       = [s \in Samples |-> 0]
  /\ heading  = [s \in Samples |-> 0]
  /\ queue    = [d \in Devices |-> {}]
  /\ boot     = [d \in Devices |-> 1]
  /\ sequence = [d \in Devices |-> 0]
  /\ waits    = [d \in Devices |-> NoSlot]
  /\ step     = [k \in Slots |-> "free"]
  /\ from     = [k \in Slots |-> AnyDevice]
  /\ under    = [k \in Slots |-> 0]
  /\ batch    = [k \in Slots |-> {}]
  /\ fresh    = [k \in Slots |-> {}]
  /\ seen     = [k \in Slots |-> None]
  /\ device   = [d \in Devices |-> "active"]
  /\ history  = {}
  /\ bootOf   = [s \in Samples |-> 0]
  /\ triggers = {}
  /\ current  = None
  /\ merged   = [d \in Devices |-> None]
  /\ clearing = "no"
  /\ doomed   = {}
  /\ erased   = {}
  /\ faults   = 0

Fault == faults < MaxFaults /\ faults' = faults + 1

----------------------------------------------------------------------------
(* The agent: one thread, which samples, then uploads, then waits.          *)

Collected(d, s, t, h) ==
  /\ s = taken + 1
  /\ taken'   = s
  /\ owner'   = [owner   EXCEPT ![s] = d]
  /\ seq'     = [seq     EXCEPT ![s] = sequence[d] + 1]
  /\ at'      = [at      EXCEPT ![s] = t]
  /\ heading' = [heading EXCEPT ![s] = h]

\* Agent.Collect. The receiver's course is passed on as it comes.
Collect(d, s, t, h) ==
  /\ waits[d] = NoSlot
  /\ Collected(d, s, t, h)
  /\ sequence' = [sequence EXCEPT ![d] = @ + 1]
  /\ queue'    = [queue    EXCEPT ![d] = @ \cup {s}]
  /\ UNCHANGED <<boot, waits, step, requestVars, device, storeVars, clearVars, erased, faults>>

\* The queue cannot be written: the reading is lost, its number is used up.
CollectFails(d) ==
  /\ waits[d] = NoSlot
  /\ Fault
  /\ sequence' = [sequence EXCEPT ![d] = @ + 1]
  /\ UNCHANGED <<sampleVars, queue, boot, waits, step, requestVars, device, storeVars,
                 clearVars, erased>>

\* The order of a queue and of the batches cut from it: the number, and for the same
\* number the clock when the reading was queued.
Before(r, s) ==
  \/ seq[r] < seq[s]
  \/ seq[r] = seq[s] /\ at[r] < at[s]
  \/ seq[r] = seq[s] /\ at[r] = at[s] /\ r < s

\* Queue.Pending: the first readings of the queue.
Pending(d) ==
  {s \in queue[d] : Cardinality({r \in queue[d] : Before(r, s)}) < BatchLimit}

\* Agent.Upload, up to the request.
Upload(d, k) ==
  /\ waits[d] = NoSlot
  /\ queue[d] # {}
  /\ step[k] = "free"
  /\ step'  = [step  EXCEPT ![k] = "sent"]
  /\ from'  = [from  EXCEPT ![k] = d]
  /\ under' = [under EXCEPT ![k] = boot[d]]
  /\ batch' = [batch EXCEPT ![k] = Pending(d)]
  /\ waits' = [waits EXCEPT ![d] = k]
  /\ UNCHANGED <<sampleVars, queue, boot, sequence, fresh, seen, device, storeVars,
                 clearVars, erased, faults>>

\* Queue.Acknowledge of the accepted and the duplicate readings of an answer.
OnlyAccepted(k) == fresh[k]       \* mutant: duplicates are not acknowledged
Acknowledged(k) == batch[k]

\* The request is over. Its sender gets the answer if it still waits for it.
Respond(k) ==
  LET d == from[k] IN
  /\ step[k] \in {"answered", "refused"}
  /\ queue' = [queue EXCEPT ![d] =
                 IF waits[d] = k /\ step[k] = "answered" THEN @ \ Acknowledged(k) ELSE @]
  /\ waits' = [waits EXCEPT ![d] = IF @ = k THEN NoSlot ELSE @]
  /\ step'  = [step  EXCEPT ![k] = "free"]
  /\ from'  = [from  EXCEPT ![k] = AnyDevice]
  /\ under' = [under EXCEPT ![k] = 0]
  /\ batch' = [batch EXCEPT ![k] = {}]
  /\ fresh' = [fresh EXCEPT ![k] = {}]
  /\ seen'  = [seen  EXCEPT ![k] = None]
  /\ UNCHANGED <<sampleVars, boot, sequence, device, storeVars, clearVars, erased, faults>>

\* The client gives up after 30 s, or the answer is lost; the server carries on.
GiveUp(d) ==
  /\ waits[d] # NoSlot
  /\ Fault
  /\ waits' = [waits EXCEPT ![d] = NoSlot]
  /\ UNCHANGED <<sampleVars, queue, boot, sequence, step, requestVars, device, storeVars,
                 clearVars, erased>>

LastSequence(d) ==
  IF queue[d] = {} THEN 0
  ELSE CHOOSE n \in {seq[s] : s \in queue[d]} : \A s \in queue[d] : seq[s] <= n

\* The agent dies, or loses power, and is started again. The error is dropped when the
\* queue cannot be asked for its last number: the numbers start anew, and readings of
\* the queue have the same ones.
Restart(d) ==
  /\ boot[d] < MaxBoots
  /\ boot'     = [boot     EXCEPT ![d] = @ + 1]
  /\ waits'    = [waits    EXCEPT ![d] = NoSlot]
  /\ \/ sequence' = [sequence EXCEPT ![d] = LastSequence(d)] /\ UNCHANGED faults
     \/ sequence' = [sequence EXCEPT ![d] = 0] /\ Fault
  /\ UNCHANGED <<sampleVars, queue, step, requestVars, device, storeVars, clearVars, erased>>

----------------------------------------------------------------------------
(* Ingestion: one transaction for a request, in the steps between which      *)
(* other transactions can be seen or can interfere.                         *)

Goes(k, place) == step' = [step EXCEPT ![k] = place]

\* The server's schema: a heading is at least 0 and less than 360.
Fit(s) == heading[s] < 360

\* current_device and the validation of the batch.
Admit(k) ==
  /\ step[k] = "sent"
  /\ Goes(k, IF device[from[k]] = "active" /\ \A s \in batch[k] : Fit(s)
             THEN "admitted" ELSE "refused")
  /\ UNCHANGED <<sampleVars, agentVars, requestVars, device, storeVars, clearVars, erased, faults>>

HoldsVehicle(k) == step[k] \in {"locked", "inserted", "flushed"}

\* SELECT ... FROM vehicles ... FOR UPDATE.
NotSerialized == TRUE   \* mutant: ingestion does not lock the vehicle
VehicleFree == \A k \in Slots : ~HoldsVehicle(k)
LockVehicle(k) ==
  /\ step[k] = "admitted"
  /\ VehicleFree
  /\ Goes(k, "locked")
  /\ UNCHANGED <<sampleVars, agentVars, requestVars, device, storeVars, clearVars, erased, faults>>

\* The readings whose insertion succeeds. Without the row of the agent every
\* insertion fails, and ingestion takes each failure for a duplicate.
NoUniqueKey(k) == batch[k]   \* mutant: nothing keeps a reading from being stored twice
Accepted(k) == IF device[from[k]] = "deleted" THEN {} ELSE batch[k] \ history

\* The insertions; an uncommitted deletion of one of the rows is waited for.
\* The current-state row is read with them. (From the second insertion on, the state
\* that the readings before it have changed is written at once, where FlushState writes
\* it for the whole batch: a batch of several readings that finds the row deleted is
\* refused a little earlier, and holds the row a little longer.)
InsertSamples(k) ==
  /\ step[k] = "locked"
  /\ batch[k] \cap doomed = {}
  /\ fresh' = [fresh EXCEPT ![k] = Accepted(k)]
  /\ seen'  = [seen  EXCEPT ![k] = current]
  /\ Goes(k, "inserted")
  /\ UNCHANGED <<sampleVars, agentVars, from, under, batch, device, storeVars, clearVars,
                 erased, faults>>

\* _update_current_state, run for every stored reading in the order of the batch:
\* the ones that are not older than what the state shows by then.
AnyAge(k) == fresh[k]   \* mutant: a delayed reading replaces a newer one
Advancing(k) ==
  {s \in fresh[k] :
     /\ seen[k] # None => at[seen[k]] <= at[s]
     /\ \A r \in fresh[k] : Before(r, s) => at[r] <= at[s]}
Latest(k) == CHOOSE s \in Advancing(k) : \A r \in Advancing(k) : ~Before(s, r)
WritesState(k) == Advancing(k) # {}

\* The update of the row, which is locked from here to the commit.
HoldsState(k) == step[k] = "flushed" /\ WritesState(k) /\ seen[k] # None

\* The flush before the trigger is inserted. An update finds no row when it has
\* been deleted since it was read: StaleDataError, and the batch is rolled back.
FlushState(k) ==
  /\ step[k] = "inserted"
  /\ WritesState(k) /\ seen[k] # None => ~(clearing = "cascaded" /\ current \in doomed)
  /\ Goes(k, IF WritesState(k) /\ seen[k] # None /\ current = None
             THEN "refused" ELSE "flushed")
  /\ UNCHANGED <<sampleVars, agentVars, requestVars, device, storeVars, clearVars, erased, faults>>

\* The commit, with one trigger for the whole batch. The update of last_seen_at
\* fails when the agent was deleted while none of its rows were locked.
SeenNever(k) == FALSE   \* mutant: last_seen_at is not written
SenderGone(k) == device[from[k]] = "deleted"
CommitBatch(k) ==
  /\ step[k] = "flushed"
  /\ IF SenderGone(k)
     THEN Goes(k, "refused") /\ UNCHANGED storeVars
     ELSE /\ history'  = history \cup fresh[k]
          /\ bootOf'   = [s \in Samples |-> IF s \in fresh[k] THEN under[k] ELSE bootOf[s]]
          /\ triggers' = triggers \cup ({fresh[k]} \ {{}})
          /\ current'  = IF WritesState(k) THEN Latest(k) ELSE current
          /\ merged'   = IF WritesState(k) THEN [merged EXCEPT ![from[k]] = Latest(k)]
                         ELSE merged
          /\ Goes(k, "answered")
  /\ UNCHANGED <<sampleVars, agentVars, requestVars, device, clearVars, erased, faults>>

\* The request is lost, the process dies, or the database refuses: rolled back.
ServerFails(k) ==
  /\ step[k] \in {"sent", "admitted", "locked", "inserted", "flushed"}
  /\ Fault
  /\ Goes(k, "refused")
  /\ UNCHANGED <<sampleVars, agentVars, requestVars, device, storeVars, clearVars, erased>>

----------------------------------------------------------------------------
(* The operator.                                                           *)

\* POST /devices/{id}/revoke.
RevokeDevice(d) ==
  /\ "revoke" \in Requests
  /\ device[d] = "active"
  /\ device' = [device EXCEPT ![d] = "revoked"]
  /\ UNCHANGED <<sampleVars, agentVars, step, requestVars, storeVars, clearVars, erased, faults>>

KeepsTriggers(gone) ==   \* mutant: Trigger.telemetry_id is set to NULL, not cascaded
  /\ history' = history \ gone
  /\ erased'  = erased \cup (history \cap gone)
  /\ UNCHANGED <<triggers, bootOf>>

\* What is left of the store when rows of telemetry and everything that refers
\* to them are gone.
Without(gone) ==
  /\ history'  = history \ gone
  /\ triggers' = {t \in triggers : t \cap gone = {}}
  /\ erased'   = erased \cup (history \cap gone)
  /\ UNCHANGED bootOf
NoState == current' = None /\ merged' = [d \in Devices |-> None]

\* DELETE /devices/{id}: its readings go with it, and the current-state row if
\* it shows one of them. The deletion waits for insertions that refer to the
\* agent and for whoever has locked a row it deletes.
DeleteDevice(d) ==
  LET gone == {s \in history : owner[s] = d} IN
  /\ "delete" \in Requests
  /\ device[d] # "deleted"
  /\ \A k \in Slots : step[k] \in {"inserted", "flushed"} /\ from[k] = d => fresh[k] = {}
  /\ current \in gone => \A k \in Slots : ~HoldsState(k)
  /\ gone \cap doomed = {}
  /\ device' = [device EXCEPT ![d] = "deleted"]
  /\ Without(gone)
  /\ IF current \in gone THEN NoState ELSE UNCHANGED <<current, merged>>
  /\ UNCHANGED <<sampleVars, agentVars, step, requestVars, clearVars, faults>>

\* DELETE /vehicles/{id}: everything goes, once no batch is being ingested.
RemoveVehicle ==
  /\ "remove" \in Requests
  /\ \E d \in Devices : device[d] # "deleted"
  /\ VehicleFree
  /\ clearing = "no"
  /\ device' = [d \in Devices |-> "deleted"]
  /\ Without(history)
  /\ NoState
  /\ UNCHANGED <<sampleVars, agentVars, step, requestVars, clearVars, faults>>

\* DELETE /vehicles/{id}/telemetry. The first statement deletes the readings it
\* can see, without taking the vehicle's lock.
ClearReadings ==
  /\ "clear" \in Requests
  /\ clearing = "no"
  /\ clearing' = "readings"
  /\ doomed'   = history
  /\ UNCHANGED <<sampleVars, agentVars, step, requestVars, device, storeVars, erased, faults>>

\* At its end the rows that refer to them are deleted; it waits for a
\* transaction that has updated the current-state row, and passes over the row
\* when that transaction has moved it to another reading.
ClearCascades ==
  /\ clearing = "readings"
  /\ current \in doomed => \A k \in Slots : ~HoldsState(k)
  /\ clearing' = "cascaded"
  /\ UNCHANGED <<sampleVars, agentVars, step, requestVars, device, storeVars, doomed,
                 erased, faults>>

\* The second statement deletes the current-state row, and the commit.
ClearedState == NoState
ClearCommits ==
  /\ clearing = "cascaded"
  /\ current \notin doomed => \A k \in Slots : ~HoldsState(k)
  /\ Without(doomed)
  /\ ClearedState
  /\ clearing' = "no"
  /\ doomed'   = {}
  /\ UNCHANGED <<sampleVars, agentVars, step, requestVars, device, faults>>

\* The clearing transaction fails or is chosen as a deadlock's victim.
ClearFails ==
  /\ clearing # "no"
  /\ Fault
  /\ clearing' = "no"
  /\ doomed'   = {}
  /\ UNCHANGED <<sampleVars, agentVars, step, requestVars, device, storeVars, erased>>

----------------------------------------------------------------------------

Agent(d) ==
  \/ \E s \in Samples, t \in Times, h \in Headings : Collect(d, s, t, h)
  \/ CollectFails(d)
  \/ \E k \in Slots : Upload(d, k)
  \/ GiveUp(d)
  \/ Restart(d)

Serve(k) ==
  \/ Admit(k)
  \/ LockVehicle(k)
  \/ InsertSamples(k)
  \/ FlushState(k)
  \/ CommitBatch(k)
  \/ Respond(k)

Operator ==
  \/ \E d \in Devices : RevokeDevice(d) \/ DeleteDevice(d)
  \/ RemoveVehicle
  \/ ClearReadings
  \/ ClearCascades
  \/ ClearCommits
  \/ ClearFails

Next ==
  \/ \E d \in Devices : Agent(d)
  \/ \E k \in Slots : Serve(k) \/ ServerFails(k)
  \/ Operator

Spec == Init /\ [][Next]_vars

\* The loop of commandRun comes back to the upload, and the server answers every
\* request it gets: faults are bounded, so the network is up for long enough.
Fairness ==
  /\ \A d \in Devices : WF_vars(\E k \in Slots : Upload(d, k))
  /\ \A k \in Slots : WF_vars(Serve(k))

FairSpec == Spec /\ Fairness

----------------------------------------------------------------------------
(* Properties.                                                             *)

\* The types of the variables; a sequence number is used up by a reading or by
\* a failure to queue one, never by a restart.
TypeOK ==
  /\ taken \in 0 .. MaxSamples
  /\ owner \in [Samples -> Devices]
  /\ seq \in [Samples -> 0 .. MaxSamples + MaxFaults]
  /\ at \in [Samples -> Times \cup {0}]
  /\ heading \in [Samples -> Headings \cup {0}]
  /\ queue \in [Devices -> SUBSET Samples]
  /\ boot \in [Devices -> 1 .. MaxBoots]
  /\ sequence \in [Devices -> 0 .. MaxSamples + MaxFaults]
  /\ waits \in [Devices -> Slots \cup {NoSlot}]
  /\ step \in [Slots -> Place]
  /\ from \in [Slots -> Devices]
  /\ under \in [Slots -> 0 .. MaxBoots]
  /\ batch \in [Slots -> SUBSET Samples]
  /\ fresh \in [Slots -> SUBSET Samples]
  /\ seen \in [Slots -> Samples \cup {None}]
  /\ device \in [Devices -> {"active", "revoked", "deleted"}]
  /\ history \subseteq Samples
  /\ bootOf \in [Samples -> 0 .. MaxBoots]
  /\ triggers \subseteq SUBSET Samples
  /\ current \in Samples \cup {None}
  /\ merged \in [Devices -> Samples \cup {None}]
  /\ clearing \in {"no", "readings", "cascaded"}
  /\ doomed \subseteq Samples
  /\ erased \subseteq Samples
  /\ faults \in 0 .. MaxFaults

\* A reading that was queued is in its agent's queue or in the history, or an
\* operator has deleted it: no lost answer, timeout, restart, failed transaction
\* or deletion of the agent under way makes the agent forget a reading that was
\* never stored.
NothingForgotten ==
  \A s \in 1 .. taken : s \in queue[owner[s]] \cup history \cup erased

\* The outbox, the history and the triggers do what ReadingLog says.
Log == INSTANCE ReadingLog WITH outbox <- UNION {queue[d] : d \in Devices},
                                log <- history, told <- triggers
LogHolds == Log!Spec

\* "Accepted samples queue one hook execution per batch" and a retry does not
\* rerun hooks (docs/developers/telemetry.md:5-9): every stored reading belongs
\* to exactly one trigger.
BatchesPartitionHistory ==
  /\ UNION triggers = history
  /\ \A t, u \in triggers : t # u => t \cap u = {}

\* Why it is so: the invariant the proofs are about, in named parts. Only the rows
\* it relates have to be functions and sets of the right kind.
Shape ==
  /\ taken \in 0 .. MaxSamples
  /\ owner \in [Samples -> Devices]
  /\ queue \in [Devices -> SUBSET Samples]
  /\ step \in [Slots -> Place]
  /\ from \in [Slots -> Devices]
  /\ batch \in [Slots -> SUBSET Samples]
  /\ fresh \in [Slots -> SUBSET Samples]
  /\ device \in [Devices -> {"active", "revoked", "deleted"}]
\* Readings exist before they are anywhere; queues, batches and triggers carry the
\* readings of one agent.
OwnReadings ==
  /\ \A d \in Devices : \A s \in queue[d] : s \in 1 .. taken /\ owner[s] = d
  /\ \A k \in Slots : \A s \in batch[k] : s \in 1 .. taken /\ owner[s] = from[k]
  /\ \A k \in Slots : fresh[k] \subseteq batch[k]
  /\ \A k \in Slots : step[k] = "free" => batch[k] = {}
  /\ \A t \in triggers : \A r, s \in t : owner[r] = owner[s]
  /\ history \cup erased \subseteq 1 .. taken
\* The lock of the vehicle's row: transactions that have it exclude each other, so
\* what one takes for new stays new until it commits.
OneIngestion ==
  /\ \A j, k \in Slots : HoldsVehicle(j) /\ HoldsVehicle(k) => j = k
  /\ \A k \in Slots : step[k] \in {"inserted", "flushed"} => fresh[k] \cap history = {}
\* A reading is taken for a duplicate only when it was stored, unless the agent was
\* deleted, and then the transaction cannot commit.
DuplicatesAreStored ==
  \A k \in Slots :
    step[k] \in {"inserted", "flushed"} /\ device[from[k]] # "deleted" =>
      batch[k] \subseteq fresh[k] \cup history \cup erased
AnsweredIsStored ==
  \A k \in Slots : step[k] = "answered" => batch[k] \subseteq history \cup erased
\* The readings a request to clear the telemetry deletes are whole batches.
DoomedIsWhole ==
  /\ doomed \subseteq history
  /\ clearing = "no" => doomed = {}
  /\ \A t \in triggers : t \subseteq doomed \/ t \cap doomed = {}
UplinkInv ==
  /\ Shape
  /\ OwnReadings
  /\ OneIngestion
  /\ DuplicatesAreStored
  /\ AnsweredIsStored
  /\ DoomedIsWhole
  /\ BatchesPartitionHistory
  /\ NothingForgotten

\* What the vehicle shows is a reading that exists: "or the vehicle would keep
\* showing a reading nothing now supports" (devices/services.py:144-145), also
\* when a batch is being ingested while readings or agents are deleted.
CurrentIsStored == current # None => current \in history

\* As long as nothing was deleted, the vehicle shows the newest reading, whichever
\* agent it is from and however late the others arrive.
CurrentIsNewest ==
  erased = {} => \A s \in history : current # None /\ at[s] <= at[current]

\* As long as the row of the current state exists it never goes back in time, and
\* neither do the metrics that are merged into it from each agent.
CurrentNeverRewinds ==
  [][current # None /\ current' # None =>
       /\ at[current] <= at[current']
       /\ \A d \in Devices : merged[d] # None =>
            merged'[d] # None /\ at[merged[d]] <= at[merged'[d]]]_vars

\* "Restore networking and let the next upload acknowledge queued UUIDs"
\* (docs/agent/diagnostics.md:114-115): every queued reading is stored and then
\* leaves the queue.
EveryReadingArrives ==
  \A s \in Samples :
    taken >= s ~> s \in history /\ \A d \in Devices : s \notin queue[d]
=============================================================================
