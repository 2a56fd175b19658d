------------------------ MODULE TelemetryUplinkProofs ------------------------
(***************************************************************************)
(* Theorems about TelemetryUplink, for any agents, requests under way,      *)
(* batch size, clocks, faults and requests of an operator: the invariant    *)
(* UplinkInv is inductive, no reading is forgotten, the triggers partition   *)
(* the history, and the path implements ReadingLog; the current state does  *)
(* not go back and, while nothing is deleted, is the newest reading.        *)
(***************************************************************************)
EXTENDS TelemetryUplink, FiniteSetTheorems, TLAPS

\* The variables UplinkInv is about.
invVars == <<taken, owner, queue, step, from, batch, fresh, device, history,
             triggers, clearing, doomed, erased>>

LEMMA SomeDevice == AnyDevice \in Devices
BY UplinkAssumption DEF UplinkAssumption, AnyDevice

\* UplinkInv holds at the start.
LEMMA Starts == Init => UplinkInv
<1> SUFFICES ASSUME Init PROVE UplinkInv
  OBVIOUS
<1> USE DEF Init
<1>1. Shape
  BY SomeDevice, UplinkAssumption DEF Shape, Place, UplinkAssumption
<1>2. OwnReadings
  BY DEF OwnReadings
<1>3. OneIngestion
  BY DEF OneIngestion, HoldsVehicle
<1>4. DuplicatesAreStored /\ AnsweredIsStored /\ DoomedIsWhole
  BY DEF DuplicatesAreStored, AnsweredIsStored, DoomedIsWhole
<1>5. BatchesPartitionHistory /\ NothingForgotten
  BY DEF BatchesPartitionHistory, NothingForgotten
<1> QED
  BY <1>1, <1>2, <1>3, <1>4, <1>5 DEF UplinkInv

\* Steps of an agent or of the server that touch none of these variables.
LEMMA QuietKeeps == UplinkInv /\ UNCHANGED invVars => UplinkInv'
BY DEF UplinkInv, invVars, Shape, OwnReadings, OneIngestion, DuplicatesAreStored,
       AnsweredIsStored, DoomedIsWhole, BatchesPartitionHistory, NothingForgotten,
       HoldsVehicle

\* A new reading goes into its agent's queue.
LEMMA CollectKeeps ==
  ASSUME NEW d \in Devices, NEW s \in Samples, NEW t, NEW h, UplinkInv, Collect(d, s, t, h)
  PROVE  UplinkInv'
<1> USE DEF Collect, Collected, UplinkInv
<1>1. taken' = taken + 1 /\ taken \in Nat /\ s = taken + 1
  BY DEF Shape
<1>2. Shape'
  BY <1>1 DEF Shape, requestVars, Samples
<1>3. \A r \in 1 .. taken : r \in 1 .. taken' /\ owner'[r] = owner[r]
  BY <1>1 DEF Shape, Samples
<1>4. OwnReadings'
  <2>1. \A e \in Devices : \A r \in queue'[e] : r \in 1 .. taken' /\ owner'[r] = e
    BY <1>1, <1>3 DEF OwnReadings, Shape
  <2>2. \A k \in Slots : \A r \in batch[k] : r \in 1 .. taken' /\ owner'[r] = from[k]
    BY <1>3 DEF OwnReadings
  <2>3. \A u \in triggers : u \subseteq 1 .. taken
    BY DEF OwnReadings, BatchesPartitionHistory
  <2>4. \A u \in triggers : \A q, r \in u : owner'[q] = owner'[r]
    BY <2>3, <1>3 DEF OwnReadings
  <2>5. history \cup erased \subseteq 1 .. taken'
    BY <1>3 DEF OwnReadings
  <2> QED
    BY <2>1, <2>2, <2>4, <2>5 DEF OwnReadings, requestVars, storeVars
<1>5. OneIngestion' /\ DuplicatesAreStored' /\ AnsweredIsStored' /\ DoomedIsWhole'
  BY DEF OneIngestion, HoldsVehicle, DuplicatesAreStored, AnsweredIsStored, DoomedIsWhole,
         requestVars, storeVars, clearVars
<1>6. BatchesPartitionHistory'
  BY DEF BatchesPartitionHistory, storeVars
<1>7. NothingForgotten'
  <2>1. ASSUME NEW r \in 1 .. taken, r \in queue[owner[r]] PROVE r \in queue'[owner'[r]]
    BY <2>1, <1>3, <1>1 DEF Shape, Samples
  <2>2. s \in queue'[owner'[s]]
    BY <1>1 DEF Shape
  <2>3. \A r \in 1 .. taken' : r \in 1 .. taken \/ r = s
    BY <1>1
  <2> QED
    BY <2>1, <2>2, <2>3 DEF NothingForgotten, storeVars
<1> QED
  BY <1>2, <1>4, <1>5, <1>6, <1>7

\* A request takes its batch from the queue.
LEMMA UploadKeeps ==
  ASSUME NEW d \in Devices, NEW k \in Slots, UplinkInv, Upload(d, k)
  PROVE  UplinkInv'
<1> USE DEF Upload, UplinkInv
<1>1. Pending(d) \subseteq queue[d]
  BY DEF Pending
<1>2. Shape'
  BY <1>1 DEF Shape, Place, sampleVars
<1>3. batch[k] = {} /\ fresh[k] = {}
  BY DEF OwnReadings
<1>4. OwnReadings'
  <2>1. \A j \in Slots : \A r \in batch'[j] : r \in 1 .. taken /\ owner[r] = from'[j]
    BY <1>1 DEF OwnReadings, Shape
  <2>2. \A j \in Slots : fresh[j] \subseteq batch'[j]
    BY <1>3 DEF OwnReadings, Shape
  <2>3. \A j \in Slots : step'[j] = "free" => batch'[j] = {}
    BY DEF OwnReadings, Shape
  <2> QED
    BY <2>1, <2>2, <2>3 DEF OwnReadings, Shape, sampleVars, storeVars
<1>5. OneIngestion' /\ DuplicatesAreStored' /\ AnsweredIsStored'
  BY DEF OneIngestion, HoldsVehicle, DuplicatesAreStored, AnsweredIsStored, Shape, storeVars
<1>6. DoomedIsWhole' /\ BatchesPartitionHistory' /\ NothingForgotten'
  BY DEF DoomedIsWhole, BatchesPartitionHistory, NothingForgotten, sampleVars, storeVars, clearVars
<1> QED
  BY <1>2, <1>4, <1>5, <1>6

\* An answer takes readings out of the queue that are stored or were deleted.
LEMMA RespondKeeps ==
  ASSUME NEW k \in Slots, UplinkInv, Respond(k)
  PROVE  UplinkInv'
<1> USE DEF Respond, UplinkInv
<1>1. Shape'
  BY SomeDevice DEF Shape, Place, sampleVars
<1>2. \A d \in Devices : queue'[d] \subseteq queue[d]
  BY DEF Shape
<1>3. OwnReadings'
  <2>1. \A j \in Slots : \A r \in batch'[j] : r \in 1 .. taken /\ owner[r] = from'[j]
    BY DEF OwnReadings, Shape
  <2>2. \A j \in Slots : fresh'[j] \subseteq batch'[j]
    BY DEF OwnReadings, Shape
  <2>3. \A j \in Slots : step'[j] = "free" => batch'[j] = {}
    BY DEF OwnReadings, Shape
  <2> QED
    BY <1>2, <2>1, <2>2, <2>3 DEF OwnReadings, Shape, sampleVars, storeVars
<1>4. OneIngestion' /\ DuplicatesAreStored' /\ AnsweredIsStored'
  BY DEF OneIngestion, HoldsVehicle, DuplicatesAreStored, AnsweredIsStored, Shape, storeVars
<1>5. DoomedIsWhole' /\ BatchesPartitionHistory'
  BY DEF DoomedIsWhole, BatchesPartitionHistory, storeVars, clearVars
<1>6. NothingForgotten'
  <2>1. ASSUME NEW s \in 1 .. taken, s \in queue[owner[s]]
        PROVE  s \in queue'[owner[s]] \cup history \cup erased
    BY <2>1 DEF Shape, AnsweredIsStored, Acknowledged
  <2> QED
    BY <2>1 DEF NothingForgotten, sampleVars, storeVars
<1> QED
  BY <1>1, <1>3, <1>4, <1>5, <1>6

\* A request goes on to a place where nothing has been inserted yet, or back out.
LEMMA GoesKeeps ==
  ASSUME NEW k \in Slots, NEW place \in {"admitted", "locked", "refused"},
         UplinkInv, step[k] # "free", Goes(k, place),
         place = "locked" => VehicleFree,
         UNCHANGED <<taken, owner, queue, from, batch, fresh, device, history,
                     triggers, clearing, doomed, erased>>
  PROVE  UplinkInv'
<1> USE DEF UplinkInv, Goes
<1>1. Shape'
  BY DEF Shape, Place
<1>2. OwnReadings'
  BY DEF OwnReadings, Shape
<1>3. OneIngestion'
  BY DEF OneIngestion, HoldsVehicle, VehicleFree, Shape
<1>4. DuplicatesAreStored' /\ AnsweredIsStored'
  BY DEF DuplicatesAreStored, AnsweredIsStored, Shape
<1>5. DoomedIsWhole' /\ BatchesPartitionHistory' /\ NothingForgotten'
  BY DEF DoomedIsWhole, BatchesPartitionHistory, NothingForgotten
<1> QED
  BY <1>1, <1>2, <1>3, <1>4, <1>5

\* What is inserted is new; what is not is stored, or the agent is deleted.
LEMMA InsertKeeps ==
  ASSUME NEW k \in Slots, UplinkInv, InsertSamples(k)
  PROVE  UplinkInv'
<1> USE DEF InsertSamples, UplinkInv, Goes
<1>1. Accepted(k) \subseteq batch[k] /\ Accepted(k) \cap history = {}
  BY DEF Accepted
<1>2. device[from[k]] # "deleted" => batch[k] \subseteq Accepted(k) \cup history
  BY DEF Accepted
<1>3. Shape'
  BY <1>1 DEF Shape, Place, sampleVars, agentVars
<1>4. OwnReadings'
  BY <1>1 DEF OwnReadings, Shape, sampleVars, agentVars, storeVars
<1>5. OneIngestion'
  BY <1>1 DEF OneIngestion, HoldsVehicle, Shape, storeVars
<1>6. DuplicatesAreStored' /\ AnsweredIsStored'
  BY <1>2 DEF DuplicatesAreStored, AnsweredIsStored, Shape, storeVars
<1>7. DoomedIsWhole' /\ BatchesPartitionHistory' /\ NothingForgotten'
  BY DEF DoomedIsWhole, BatchesPartitionHistory, NothingForgotten, sampleVars, agentVars,
         storeVars, clearVars
<1> QED
  BY <1>3, <1>4, <1>5, <1>6, <1>7

LEMMA FlushKeeps ==
  ASSUME NEW k \in Slots, UplinkInv, FlushState(k)
  PROVE  UplinkInv'
<1> USE DEF FlushState, UplinkInv, Goes
<1>0. UNCHANGED <<taken, owner, queue, from, batch, fresh, device, history, triggers,
                  clearing, doomed, erased>>
  BY DEF sampleVars, agentVars, requestVars, storeVars, clearVars
<1>1. CASE Goes(k, "refused")
  BY <1>0, <1>1, GoesKeeps
<1>2. CASE Goes(k, "flushed")
  <2> USE <1>0, <1>2
  <2>1. Shape'
    BY DEF Shape, Place
  <2>2. OwnReadings'
    BY DEF OwnReadings, Shape
  <2>3. OneIngestion'
    BY DEF OneIngestion, HoldsVehicle, Shape
  <2>4. DuplicatesAreStored' /\ AnsweredIsStored'
    BY DEF DuplicatesAreStored, AnsweredIsStored, Shape
  <2>5. DoomedIsWhole' /\ BatchesPartitionHistory' /\ NothingForgotten'
    BY DEF DoomedIsWhole, BatchesPartitionHistory, NothingForgotten
  <2> QED
    BY <2>1, <2>2, <2>3, <2>4, <2>5
<1> QED
  BY <1>1, <1>2

\* The commit adds one trigger for what is new in the batch.
LEMMA CommitKeeps ==
  ASSUME NEW k \in Slots, UplinkInv, CommitBatch(k)
  PROVE  UplinkInv'
<1> USE DEF CommitBatch, UplinkInv, Goes
<1>0. UNCHANGED <<taken, owner, queue, from, batch, fresh, device, clearing, doomed, erased>>
  BY DEF sampleVars, agentVars, requestVars, clearVars
<1>1. CASE SenderGone(k)
  BY <1>0, <1>1, GoesKeeps DEF storeVars
<1>2. CASE ~SenderGone(k)
  <2> USE <1>0, <1>2
  <2>1. Shape'
    BY DEF Shape, Place
  <2>2. fresh[k] \subseteq 1 .. taken /\ \A r, s \in fresh[k] : owner[r] = owner[s]
    BY DEF OwnReadings
  <2>3. fresh[k] \cap history = {}
    BY DEF OneIngestion
  <2>4. OwnReadings'
    BY <2>2 DEF OwnReadings, Shape
  <2>5. OneIngestion'
    BY DEF OneIngestion, HoldsVehicle, Shape
  <2>6. DuplicatesAreStored'
    BY DEF DuplicatesAreStored, Shape
  <2>7. AnsweredIsStored'
    <3>1. batch[k] \subseteq history' \cup erased'
      BY DEF DuplicatesAreStored, SenderGone
    <3>2. \A j \in Slots : step'[j] = "answered" => j = k \/ step[j] = "answered"
      BY DEF Shape
    <3> QED
      BY <3>1, <3>2 DEF AnsweredIsStored
  <2>8. DoomedIsWhole'
    BY <2>3 DEF DoomedIsWhole
  <2>9. BatchesPartitionHistory'
    <3>1. \A t \in triggers : t \cap fresh[k] = {}
      BY <2>3 DEF BatchesPartitionHistory
    <3>2. UNION triggers' = history'
      BY DEF BatchesPartitionHistory
    <3>3. \A t, u \in triggers' : t # u => t \cap u = {}
      BY <3>1 DEF BatchesPartitionHistory
    <3> QED
      BY <3>2, <3>3 DEF BatchesPartitionHistory
  <2>10. NothingForgotten'
    BY DEF NothingForgotten
  <2> QED
    BY <2>1, <2>4, <2>5, <2>6, <2>7, <2>8, <2>9, <2>10
<1> QED
  BY <1>1, <1>2

\* Deleting whole batches, and everything that refers to them, keeps the order of
\* the store: what the deletion has to wait for is in its hypotheses.
LEMMA DeletionKeeps ==
  ASSUME UplinkInv, NEW gone, Without(gone),
         gone \subseteq history,
         \A t \in triggers : t \subseteq gone \/ t \cap gone = {},
         UNCHANGED <<taken, owner, queue, step, from, batch, fresh>>,
         device' \in [Devices -> {"active", "revoked", "deleted"}],
         \A d \in Devices : device[d] = "deleted" => device'[d] = "deleted",
         doomed' \subseteq history', doomed' \subseteq doomed,
         clearing' = "no" => doomed' = {},
         doomed' = doomed \/ doomed' = {}
  PROVE  UplinkInv'
<1> USE DEF UplinkInv, Without
<1>1. Shape'
  BY DEF Shape
<1>2. OwnReadings'
  BY DEF OwnReadings
<1>3. OneIngestion'
  BY DEF OneIngestion, HoldsVehicle
<1>4. DuplicatesAreStored'
  BY DEF DuplicatesAreStored, Shape
<1>5. AnsweredIsStored'
  BY DEF AnsweredIsStored
<1>6. DoomedIsWhole'
  BY DEF DoomedIsWhole
<1>7. BatchesPartitionHistory'
  <2>1. UNION triggers' = history'
    BY DEF BatchesPartitionHistory
  <2> QED
    BY <2>1 DEF BatchesPartitionHistory
<1>8. NothingForgotten'
  BY DEF NothingForgotten
<1> QED
  BY <1>1, <1>2, <1>3, <1>4, <1>5, <1>6, <1>7, <1>8

\* The readings of one agent, and all readings, are whole batches.
LEMMA WholeBatches ==
  ASSUME UplinkInv
  PROVE  /\ \A d \in Devices : LET gone == {s \in history : owner[s] = d} IN
              \A t \in triggers : t \subseteq gone \/ t \cap gone = {}
         /\ \A t \in triggers : t \subseteq history
BY DEF UplinkInv, OwnReadings, BatchesPartitionHistory

LEMMA DeleteKeeps ==
  ASSUME NEW d \in Devices, UplinkInv, DeleteDevice(d)
  PROVE  UplinkInv'
<1> DEFINE gone == {s \in history : owner[s] = d}
<1>1. Without(gone) /\ gone \cap doomed = {} /\ UNCHANGED <<clearing, doomed>>
  BY DEF DeleteDevice, clearVars
<1>2. UNCHANGED <<taken, owner, queue, step, from, batch, fresh>>
  BY DEF DeleteDevice, sampleVars, agentVars, requestVars
<1>3. \A t \in triggers : t \subseteq gone \/ t \cap gone = {}
  BY WholeBatches
<1>4. /\ device' \in [Devices -> {"active", "revoked", "deleted"}]
      /\ \A e \in Devices : device[e] = "deleted" => device'[e] = "deleted"
  BY DEF DeleteDevice, UplinkInv, Shape
<1>5. doomed \subseteq history' /\ (clearing = "no" => doomed = {})
  BY <1>1 DEF Without, UplinkInv, DoomedIsWhole
<1> HIDE DEF gone
<1>6. gone \subseteq history
  BY DEF gone
<1> QED
  BY <1>1, <1>2, <1>3, <1>4, <1>5, <1>6, DeletionKeeps

LEMMA RemoveKeeps ==
  ASSUME UplinkInv, RemoveVehicle
  PROVE  UplinkInv'
<1>1. Without(history) /\ clearing = "no" /\ UNCHANGED <<clearing, doomed>>
  BY DEF RemoveVehicle, clearVars
<1>2. UNCHANGED <<taken, owner, queue, step, from, batch, fresh>>
  BY DEF RemoveVehicle, sampleVars, agentVars, requestVars
<1>3. \A t \in triggers : t \subseteq history \/ t \cap history = {}
  BY WholeBatches
<1>4. /\ device' \in [Devices -> {"active", "revoked", "deleted"}]
      /\ \A e \in Devices : device[e] = "deleted" => device'[e] = "deleted"
  BY DEF RemoveVehicle
<1>5. doomed = {}
  BY <1>1 DEF UplinkInv, DoomedIsWhole
<1> QED
  BY <1>1, <1>2, <1>3, <1>4, <1>5, DeletionKeeps

LEMMA ClearKeeps ==
  ASSUME UplinkInv, ClearReadings \/ ClearCascades \/ ClearCommits \/ ClearFails
  PROVE  UplinkInv'
<1>1. CASE ClearReadings
  <2>1. UNCHANGED <<taken, owner, queue, step, from, batch, fresh, device, history,
                    triggers, erased>>
    BY <1>1 DEF ClearReadings, sampleVars, agentVars, requestVars, storeVars
  <2>2. DoomedIsWhole'
    BY <1>1, <2>1, WholeBatches DEF ClearReadings, DoomedIsWhole
  <2> QED
    BY <2>1, <2>2 DEF UplinkInv, Shape, OwnReadings, OneIngestion, HoldsVehicle,
       DuplicatesAreStored, AnsweredIsStored, BatchesPartitionHistory, NothingForgotten
<1>2. CASE ClearCascades \/ ClearFails
  <2>1. UNCHANGED <<taken, owner, queue, step, from, batch, fresh, device, history,
                    triggers, erased>>
    BY <1>2 DEF ClearCascades, ClearFails, sampleVars, agentVars, requestVars, storeVars
  <2>2. DoomedIsWhole'
    BY <1>2, <2>1 DEF ClearCascades, ClearFails, UplinkInv, DoomedIsWhole
  <2> QED
    BY <2>1, <2>2 DEF UplinkInv, Shape, OwnReadings, OneIngestion, HoldsVehicle,
       DuplicatesAreStored, AnsweredIsStored, BatchesPartitionHistory, NothingForgotten
<1>3. CASE ClearCommits
  <2>1. Without(doomed) /\ clearing' = "no" /\ doomed' = {}
    BY <1>3 DEF ClearCommits
  <2>2. UNCHANGED <<taken, owner, queue, step, from, batch, fresh, device>>
    BY <1>3 DEF ClearCommits, sampleVars, agentVars, requestVars
  <2>3. doomed \subseteq history /\ \A t \in triggers : t \subseteq doomed \/ t \cap doomed = {}
    BY DEF UplinkInv, DoomedIsWhole
  <2>4. device' \in [Devices -> {"active", "revoked", "deleted"}]
    BY <2>2 DEF UplinkInv, Shape
  <2> QED
    BY <2>1, <2>2, <2>3, <2>4, DeletionKeeps
<1> QED
  BY <1>1, <1>2, <1>3

LEMMA RevokeKeeps ==
  ASSUME NEW d \in Devices, UplinkInv, RevokeDevice(d)
  PROVE  UplinkInv'
<1>1. UNCHANGED <<taken, owner, queue, step, from, batch, fresh, history, triggers,
                  clearing, doomed, erased>>
  BY DEF RevokeDevice, sampleVars, agentVars, requestVars, storeVars, clearVars
<1>2. Shape' /\ \A e \in Devices : device[e] = "deleted" <=> device'[e] = "deleted"
  BY <1>1 DEF RevokeDevice, UplinkInv, Shape
<1>3. DuplicatesAreStored'
  BY <1>1, <1>2 DEF UplinkInv, Shape, DuplicatesAreStored
<1> QED
  BY <1>1, <1>2, <1>3 DEF UplinkInv, OwnReadings, OneIngestion, HoldsVehicle, AnsweredIsStored,
     DoomedIsWhole, BatchesPartitionHistory, NothingForgotten

LEMMA AdmitKeeps ==
  ASSUME NEW k \in Slots, UplinkInv, Admit(k) \/ LockVehicle(k) \/ ServerFails(k)
  PROVE  UplinkInv'
<1>1. UNCHANGED <<taken, owner, queue, from, batch, fresh, device, history, triggers,
                  clearing, doomed, erased>>
  BY DEF Admit, LockVehicle, ServerFails, sampleVars, agentVars, requestVars, storeVars, clearVars
<1>2. step[k] # "free"
  BY DEF Admit, LockVehicle, ServerFails
<1>3. PICK place \in {"admitted", "locked", "refused"} :
        Goes(k, place) /\ (place = "locked" => VehicleFree)
  <2>1. CASE Admit(k)
    <3>1. Goes(k, "admitted") \/ Goes(k, "refused")
      BY <2>1 DEF Admit
    <3> QED BY <3>1
  <2>2. CASE LockVehicle(k) \/ ServerFails(k)
    BY <2>2 DEF LockVehicle, ServerFails
  <2> QED BY <2>1, <2>2
<1> QED
  BY <1>1, <1>2, <1>3, GoesKeeps

\* UplinkInv is inductive.
LEMMA NextKeeps == UplinkInv /\ [Next]_vars => UplinkInv'
<1> SUFFICES ASSUME UplinkInv, [Next]_vars PROVE UplinkInv'
  OBVIOUS
<1>1. CASE UNCHANGED vars
  BY <1>1, QuietKeeps DEF vars, invVars, sampleVars, agentVars, requestVars, storeVars, clearVars
<1>2. ASSUME NEW d \in Devices, Agent(d) PROVE UplinkInv'
  <2>1. ASSUME NEW s \in Samples, NEW t \in Times, NEW h \in Headings, Collect(d, s, t, h)
        PROVE  UplinkInv'
    BY <2>1, CollectKeeps
  <2>2. ASSUME NEW k \in Slots, Upload(d, k) PROVE UplinkInv'
    BY <2>2, UploadKeeps
  <2>3. CASE CollectFails(d) \/ GiveUp(d) \/ Restart(d)
    BY <2>3, QuietKeeps DEF CollectFails, GiveUp, Restart, invVars, sampleVars, requestVars,
       storeVars, clearVars
  <2> QED
    BY <1>2, <2>1, <2>2, <2>3 DEF Agent
<1>3. ASSUME NEW k \in Slots, Serve(k) \/ ServerFails(k) PROVE UplinkInv'
  BY <1>3, AdmitKeeps, InsertKeeps, FlushKeeps, CommitKeeps, RespondKeeps DEF Serve
<1>4. CASE Operator
  BY <1>4, RevokeKeeps, DeleteKeeps, RemoveKeeps, ClearKeeps DEF Operator
<1> QED
  BY <1>1, <1>2, <1>3, <1>4 DEF Next

\* UplinkInv holds in every reachable state.
THEOREM UplinkInvariant == Spec => []UplinkInv
BY Starts, NextKeeps, PTL DEF Spec

\* No reading is forgotten: a queued reading is in its queue, in the history, or
\* was deleted by an operator.
THEOREM NothingIsForgotten == Spec => []NothingForgotten
<1>1. UplinkInv => NothingForgotten
  BY DEF UplinkInv
<1> QED
  BY <1>1, UplinkInvariant, PTL

\* Every stored reading belongs to exactly one trigger: hooks run once per reading.
THEOREM HooksToldOnce == Spec => []BatchesPartitionHistory
<1>1. UplinkInv => BatchesPartitionHistory
  BY DEF UplinkInv
<1> QED
  BY <1>1, UplinkInvariant, PTL

----------------------------------------------------------------------------
(* The path implements ReadingLog.                                         *)

Outbox == UNION {queue[d] : d \in Devices}

\* Steps that leave the queues and the store alone.
LEMMA LogStutters ==
  ASSUME UNCHANGED <<queue, history, triggers, erased>>
  PROVE  UNCHANGED Log!vars
BY DEF Log!vars

LEMMA CollectTakes ==
  ASSUME NEW d \in Devices, NEW s \in Samples, NEW t, NEW h, UplinkInv, Collect(d, s, t, h)
  PROVE  Log!Take(s)
<1> USE DEF Collect, Collected
<1>1. s \notin 1 .. taken
  BY DEF UplinkInv, Shape
<1>2. s \notin Outbox \cup history \cup erased
  BY <1>1 DEF UplinkInv, OwnReadings, Outbox
<1>3. Outbox' = Outbox \cup {s}
  BY DEF UplinkInv, Shape, Outbox
<1> QED
  BY <1>2, <1>3 DEF Log!Take, Outbox, storeVars

LEMMA RespondReleases ==
  ASSUME NEW k \in Slots, UplinkInv, Respond(k)
  PROVE  (\E b \in SUBSET Samples : Log!Release(b)) \/ UNCHANGED Log!vars
<1> USE DEF Respond
<1>0. UNCHANGED <<history, triggers, erased>>
  BY DEF storeVars
<1>1. CASE waits[from[k]] = k /\ step[k] = "answered"
  <2>1. batch[k] \subseteq history \cup erased /\ batch[k] \in SUBSET Samples
    BY <1>1 DEF UplinkInv, Shape, AnsweredIsStored
  <2>2. Outbox' = Outbox \ batch[k]
    <3>1. \A d \in Devices : queue'[d] = queue[d] \ batch[k]
      BY <1>1 DEF UplinkInv, Shape, OwnReadings, Acknowledged
    <3> QED
      BY <3>1 DEF Outbox, UplinkInv, Shape
  <2> QED
    BY <1>0, <2>1, <2>2 DEF Log!Release, Outbox
<1>2. CASE ~(waits[from[k]] = k /\ step[k] = "answered")
  BY <1>0, <1>2, LogStutters DEF UplinkInv, Shape
<1> QED
  BY <1>1, <1>2

LEMMA CommitStores ==
  ASSUME NEW k \in Slots, UplinkInv, CommitBatch(k)
  PROVE  (\E b \in SUBSET Samples : Log!Store(b)) \/ UNCHANGED Log!vars
<1> USE DEF CommitBatch
<1>0. UNCHANGED <<queue, erased>>
  BY DEF agentVars
<1>1. CASE SenderGone(k) \/ fresh[k] = {}
  <2>1. UNCHANGED <<history, triggers>>
    BY <1>1 DEF storeVars
  <2> QED
    BY <1>0, <2>1, LogStutters
<1>2. CASE ~SenderGone(k) /\ fresh[k] # {}
  <2>1. fresh[k] \cap history = {} /\ fresh[k] \in SUBSET Samples
    BY DEF UplinkInv, Shape, OneIngestion
  <2>2. fresh[k] \subseteq Outbox \cup erased
    <3>1. \A s \in fresh[k] : s \in 1 .. taken /\ owner[s] \in Devices
      BY DEF UplinkInv, Shape, OwnReadings
    <3> QED
      BY <2>1, <3>1 DEF UplinkInv, NothingForgotten, Outbox
  <2>3. history' = history \cup fresh[k] /\ triggers' = triggers \cup {fresh[k]}
    BY <1>2
  <2> QED
    BY <1>0, <1>2, <2>1, <2>2, <2>3 DEF Log!Store, Outbox
<1> QED
  BY <1>1, <1>2

LEMMA DeletionErases ==
  ASSUME UplinkInv, NEW gone, Without(gone), gone \subseteq history,
         \A t \in triggers : t \subseteq gone \/ t \cap gone = {}, queue' = queue
  PROVE  \E b \in SUBSET Samples : Log!Erase(b)
<1>1. gone \in SUBSET Samples
  BY UplinkAssumption DEF UplinkAssumption, UplinkInv, OwnReadings, Shape, Samples
<1>2. Log!Erase(gone)
  BY DEF Log!Erase, Without
<1> QED
  BY <1>1, <1>2

\* Every step of the path is a step of the log or leaves it alone.
LEMMA StepsImplement == UplinkInv /\ [Next]_vars => [Log!Next]_(Log!vars)
<1> SUFFICES ASSUME UplinkInv, [Next]_vars PROVE Log!Next \/ UNCHANGED Log!vars
  OBVIOUS
<1>1. CASE UNCHANGED vars
  BY <1>1, LogStutters DEF vars, agentVars, storeVars
<1>2. ASSUME NEW d \in Devices, Agent(d) PROVE Log!Next \/ UNCHANGED Log!vars
  <2>1. ASSUME NEW s \in Samples, NEW t \in Times, NEW h \in Headings, Collect(d, s, t, h)
        PROVE  Log!Next
    BY <2>1, CollectTakes DEF Log!Next
  <2>2. ASSUME NEW k \in Slots, Upload(d, k) PROVE UNCHANGED Log!vars
    BY <2>2, LogStutters DEF Upload, storeVars
  <2>3. CASE CollectFails(d) \/ GiveUp(d) \/ Restart(d)
    BY <2>3, LogStutters DEF CollectFails, GiveUp, Restart, storeVars
  <2> QED
    BY <1>2, <2>1, <2>2, <2>3 DEF Agent
<1>3. ASSUME NEW k \in Slots, Serve(k) \/ ServerFails(k) PROVE Log!Next \/ UNCHANGED Log!vars
  <2>1. CASE Admit(k) \/ LockVehicle(k) \/ InsertSamples(k) \/ FlushState(k) \/ ServerFails(k)
    BY <2>1, LogStutters DEF Admit, LockVehicle, InsertSamples, FlushState, ServerFails,
       agentVars, storeVars
  <2>2. CASE CommitBatch(k)
    BY <2>2, CommitStores DEF Log!Next
  <2>3. CASE Respond(k)
    BY <2>3, RespondReleases DEF Log!Next
  <2> QED
    BY <1>3, <2>1, <2>2, <2>3 DEF Serve
<1>4. CASE Operator
  <2>1. ASSUME NEW d \in Devices, RevokeDevice(d) PROVE UNCHANGED Log!vars
    BY <2>1, LogStutters DEF RevokeDevice, agentVars, storeVars
  <2>2. ASSUME NEW d \in Devices, DeleteDevice(d) PROVE \E b \in SUBSET Samples : Log!Erase(b)
    <3> DEFINE gone == {s \in history : owner[s] = d}
    <3>1. Without(gone) /\ queue' = queue
      BY <2>2 DEF DeleteDevice, agentVars
    <3>2. gone \subseteq history
      OBVIOUS
    <3>3. \A t \in triggers : t \subseteq gone \/ t \cap gone = {}
      BY WholeBatches
    <3> HIDE DEF gone
    <3> QED
      BY <3>1, <3>2, <3>3, DeletionErases
  <2>3. CASE RemoveVehicle
    BY <2>3, WholeBatches, DeletionErases DEF RemoveVehicle, agentVars, Log!Next
  <2>4. CASE ClearCommits
    BY <2>4, DeletionErases DEF ClearCommits, agentVars, Log!Next, UplinkInv, DoomedIsWhole
  <2>5. CASE ClearReadings \/ ClearCascades \/ ClearFails
    BY <2>5, LogStutters DEF ClearReadings, ClearCascades, ClearFails, agentVars, storeVars
  <2> QED
    BY <1>4, <2>1, <2>2, <2>3, <2>4, <2>5 DEF Operator, Log!Next
<1> QED
  BY <1>1, <1>2, <1>3, <1>4 DEF Next

\* The agents' queues, the history and the triggers implement ReadingLog.
THEOREM UplinkImplementsLog == Spec => LogHolds
<1>1. Init => Log!Init
  BY DEF Init, Log!Init
<1> QED
  BY <1>1, UplinkInvariant, StepsImplement, PTL DEF Spec, LogHolds, Log!Spec

----------------------------------------------------------------------------
(* The current state. CurrentInv is inductive together with UplinkInv.       *)

\* The numbers are numbers. They are in no order: those of an agent start anew when it
\* could not ask its queue for the last one.
Numbered == seq \in [Samples -> Nat] /\ sequence \in [Devices -> Nat]

\* What an ingestion has read of the current state is what the row holds, or the
\* row is gone; after the update it cannot go, and a request to clear the telemetry
\* that has come to the row has waited for the update.
SeenIsCurrent ==
  /\ seen \in [Slots -> Samples \cup {None}]
  /\ \A k \in Slots : step[k] \in {"inserted", "flushed"} =>
       /\ current # None => seen[k] = current
       /\ seen[k] # None => seen[k] \in 1 .. taken
       /\ HoldsState(k) => current = seen[k]
  /\ clearing = "cascaded" /\ current \in doomed => \A k \in Slots : ~HoldsState(k)

\* No agent's metrics are newer than the reading the state shows.
StateIsStored ==
  /\ at \in [Samples -> Nat]
  /\ CurrentIsStored
  /\ merged \in [Devices -> Samples \cup {None}]
  /\ \A d \in Devices : merged[d] # None =>
       merged[d] \in 1 .. taken /\ current # None /\ at[merged[d]] <= at[current]

CurrentInv == Numbered /\ SeenIsCurrent /\ StateIsStored

\* A finite set that is not empty has a last element in every strict order.
LEMMA HasLast ==
  ASSUME NEW S, IsFiniteSet(S), S # {}, NEW R,
         \A x \in S : <<x, x>> \notin R,
         \A x, y, z \in S : <<x, y>> \in R /\ <<y, z>> \in R => <<x, z>> \in R
  PROVE  \E m \in S : \A x \in S : <<m, x>> \notin R
<1> DEFINE After(x) == {y \in S : <<x, y>> \in R}
           T == {After(x) : x \in S}
<1>1. IsWellFoundedOn(StrictSubsetOrdering(S), SUBSET S)
  <2>1. IsFiniteSet(S)
    OBVIOUS
  <2>2. IsWellFoundedOn(StrictSubsetOrdering(S), FiniteSubsetsOf(S))
    BY FS_StrictSubsetOrderingWellFounded
  <2> QED
    BY <2>1, FS_FiniteSubsetsOfFinite, FS_StrictSubsetOrderingWellFounded
<1>2. T \subseteq SUBSET S
  OBVIOUS
<1>3. \A x \in S : After(x) \in T
  <2> HIDE DEF After
  <2> QED
    OBVIOUS
<1>4. PICK a \in T : \A b \in T : ~(<<b, a>> \in StrictSubsetOrdering(S))
  <2>1. T # {}
    <3> HIDE DEF After, T
    <3> QED
      BY <1>3
  <2> HIDE DEF T
  <2> QED
    BY <1>1, <1>2, <2>1, WFMin
<1>5. PICK m \in S : \A x \in S : ~(<<After(x), After(m)>> \in StrictSubsetOrdering(S))
  <2>1. PICK m \in S : a = After(m)
    <3> HIDE DEF After
    <3> QED
      OBVIOUS
  <2> HIDE DEF After, T
  <2> QED
    BY <1>3, <1>4, <2>1
<1>6. ASSUME NEW x \in S, <<m, x>> \in R PROVE <<After(x), After(m)>> \in StrictSubsetOrdering(S)
  <2>1. After(x) \subseteq After(m)
    BY <1>6
  <2>2. x \in After(m) /\ x \notin After(x)
    BY <1>6
  <2> QED
    BY <2>1, <2>2 DEF StrictSubsetOrdering
<1>7. \A x \in S : <<m, x>> \notin R
  <2> HIDE DEF After
  <2> QED
    BY <1>5, <1>6
<1> QED
  BY <1>7

\* Before orders the readings: it is irreflexive, transitive and total.
LEMMA BeforeOrders ==
  ASSUME CurrentInv
  PROVE  /\ \A r \in Samples : ~Before(r, r)
         /\ \A q, r, s \in Samples : Before(q, r) /\ Before(r, s) => Before(q, s)
         /\ \A r, s \in Samples : r = s \/ Before(r, s) \/ Before(s, r)
<1>1. \A r \in Samples : r \in Nat /\ seq[r] \in Nat /\ at[r] \in Nat
  BY DEF CurrentInv, Numbered, StateIsStored, Samples
<1>2. \A r \in Samples : ~Before(r, r)
  BY <1>1 DEF Before
<1>3. ASSUME NEW q \in Samples, NEW r \in Samples, NEW s \in Samples,
             Before(q, r), Before(r, s)
      PROVE  Before(q, s)
  BY <1>1, <1>3 DEF Before
<1>4. \A r, s \in Samples : r = s \/ Before(r, s) \/ Before(s, r)
  BY <1>1 DEF Before
<1> QED
  BY <1>2, <1>3, <1>4

\* A set of readings that is not empty has a last one.
LEMMA LastOf ==
  ASSUME CurrentInv, NEW S \in SUBSET Samples, S # {}
  PROVE  \E m \in S : \A x \in S : ~Before(m, x)
<1> DEFINE R == {p \in Samples \X Samples : Before(p[1], p[2])}
<1>1. IsFiniteSet(S)
  <2>1. IsFiniteSet(Samples)
    BY UplinkAssumption, FS_Interval DEF UplinkAssumption, Samples
  <2> QED
    BY <2>1, FS_Subset
<1>2. \A x, y \in Samples : <<x, y>> \in R <=> Before(x, y)
  OBVIOUS
<1> HIDE DEF R
<1>3. /\ \A x \in S : <<x, x>> \notin R
      /\ \A x, y, z \in S : <<x, y>> \in R /\ <<y, z>> \in R => <<x, z>> \in R
  BY <1>2, BeforeOrders
<1>4. \E m \in S : \A x \in S : <<m, x>> \notin R
  BY <1>1, <1>3, HasLast
<1> QED
  BY <1>2, <1>4

\* And a first one.
LEMMA FirstOf ==
  ASSUME CurrentInv, NEW S \in SUBSET Samples, S # {}
  PROVE  \E m \in S : \A x \in S : ~Before(x, m)
<1> DEFINE R == {p \in Samples \X Samples : Before(p[2], p[1])}
<1>1. IsFiniteSet(S)
  <2>1. IsFiniteSet(Samples)
    BY UplinkAssumption, FS_Interval DEF UplinkAssumption, Samples
  <2> QED
    BY <2>1, FS_Subset
<1>2. \A x, y \in Samples : <<x, y>> \in R <=> Before(y, x)
  OBVIOUS
<1> HIDE DEF R
<1>3. /\ \A x \in S : <<x, x>> \notin R
      /\ \A x, y, z \in S : <<x, y>> \in R /\ <<y, z>> \in R => <<x, z>> \in R
  BY <1>2, BeforeOrders
<1>4. \E m \in S : \A x \in S : <<m, x>> \notin R
  BY <1>1, <1>3, HasLast
<1> QED
  BY <1>2, <1>4

\* If one of an ingestion's new readings is not older than the state it has read,
\* the row gets the last such reading.
LEMMA LatestAdvances ==
  ASSUME NEW k \in Slots, UplinkInv, CurrentInv, WritesState(k)
  PROVE  /\ Latest(k) \in Advancing(k)
         /\ \A r \in Advancing(k) : ~Before(Latest(k), r)
<1>1. Advancing(k) \in SUBSET Samples /\ Advancing(k) # {}
  BY DEF UplinkInv, Shape, Advancing, WritesState
<1>2. \E m \in Advancing(k) : \A r \in Advancing(k) : ~Before(m, r)
  BY <1>1, LastOf
<1> QED
  BY <1>2 DEF Latest

\* It is one of the new readings, and not older than what was read.
LEMMA LatestIsNewer ==
  ASSUME NEW k \in Slots, UplinkInv, CurrentInv, WritesState(k)
  PROVE  /\ Latest(k) \in fresh[k] /\ Latest(k) \in 1 .. taken /\ Latest(k) \in Samples
         /\ seen[k] # None => at[seen[k]] <= at[Latest(k)]
<1>1. Latest(k) \in Advancing(k)
  BY LatestAdvances
<1>2. Latest(k) \in fresh[k] /\ (seen[k] # None => at[seen[k]] <= at[Latest(k)])
  BY <1>1 DEF Advancing
<1>3. Latest(k) \in 1 .. taken
  BY <1>2 DEF UplinkInv, Shape, OwnReadings
<1> QED
  BY <1>2, <1>3 DEF UplinkInv, Shape, Samples

LEMMA CurrentStarts == Init => CurrentInv
<1> SUFFICES ASSUME Init PROVE CurrentInv
  OBVIOUS
<1> USE DEF Init
<1>1. Numbered
  BY DEF Numbered
<1>2. SeenIsCurrent
  BY DEF SeenIsCurrent
<1>3. StateIsStored
  BY DEF StateIsStored, CurrentIsStored
<1> QED
  BY <1>1, <1>2, <1>3 DEF CurrentInv

\* What an agent that is started again takes for its number is one of a queued reading.
LEMMA LastIsNumber ==
  ASSUME NEW d \in Devices, UplinkInv, CurrentInv
  PROVE  LastSequence(d) \in Nat
<1>1. queue[d] \in SUBSET Samples /\ \A s \in queue[d] : seq[s] \in Nat
  BY DEF UplinkInv, Shape, CurrentInv, Numbered
<1>2. CASE queue[d] = {}
  BY <1>2 DEF LastSequence
<1>3. CASE queue[d] # {}
  <2>1. PICK m \in queue[d] : \A r \in queue[d] : ~Before(m, r)
    BY <1>1, <1>3, LastOf
  <2>2. \A r \in queue[d] : seq[r] <= seq[m]
    BY <1>1, <2>1 DEF Before
  <2>3. \E n \in {seq[s] : s \in queue[d]} : \A s \in queue[d] : seq[s] <= n
    BY <2>2
  <2>4. LastSequence(d) \in {seq[s] : s \in queue[d]}
    BY <1>3, <2>3 DEF LastSequence
  <2> QED
    BY <1>1, <2>4
<1> QED
  BY <1>2, <1>3

LEMMA NumbersKept == UplinkInv /\ CurrentInv /\ [Next]_vars => Numbered'
<1> SUFFICES ASSUME UplinkInv, CurrentInv, [Next]_vars PROVE Numbered'
  OBVIOUS
<1>0. Numbered
  BY DEF CurrentInv
<1>1. ASSUME NEW d \in Devices, NEW s \in Samples, NEW t \in Times, NEW h \in Headings,
             Collect(d, s, t, h)
      PROVE  Numbered'
  BY <1>0, <1>1 DEF Collect, Collected, Numbered
<1>2. ASSUME NEW d \in Devices, CollectFails(d) PROVE Numbered'
  BY <1>0, <1>2 DEF CollectFails, sampleVars, Numbered
<1>3. ASSUME NEW d \in Devices, Restart(d) PROVE Numbered'
  <2>1. seq' = seq /\ \E n \in Nat : sequence' = [sequence EXCEPT ![d] = n]
    BY <1>3, LastIsNumber DEF Restart, sampleVars
  <2> QED
    BY <1>0, <2>1 DEF Numbered
<1>4. \/ \E d \in Devices : \/ \E s \in Samples, t \in Times, h \in Headings : Collect(d, s, t, h)
                           \/ CollectFails(d) \/ Restart(d)
      \/ UNCHANGED <<seq, sequence>>
  BY DEF Next, Agent, Serve, Operator, vars, sampleVars, agentVars, Upload, GiveUp, Admit,
     LockVehicle, InsertSamples, FlushState, CommitBatch, Respond, ServerFails,
     RevokeDevice, DeleteDevice, RemoveVehicle, ClearReadings, ClearCascades, ClearCommits,
     ClearFails
<1> QED
  BY <1>0, <1>1, <1>2, <1>3, <1>4 DEF Numbered

\* The readings there are keep their clocks and numbers.
LEMMA ReadingsStay ==
  ASSUME UplinkInv, CurrentInv, [Next]_vars
  PROVE  /\ taken \in Nat /\ taken' \in Nat /\ taken <= taken'
         /\ at' \in [Samples -> Nat]
         /\ \A r \in 1 .. taken : at'[r] = at[r] /\ seq'[r] = seq[r]
<1>0. taken \in Nat /\ at \in [Samples -> Nat] /\ seq \in [Samples -> Nat]
  BY DEF UplinkInv, Shape, CurrentInv, StateIsStored, Numbered
<1>1. CASE UNCHANGED <<taken, at, seq>>
  BY <1>0, <1>1
<1>2. ASSUME NEW d \in Devices, NEW s \in Samples, NEW t \in Times, NEW h \in Headings,
             Collect(d, s, t, h)
      PROVE  /\ taken' \in Nat /\ taken <= taken'
             /\ at' \in [Samples -> Nat]
             /\ \A r \in 1 .. taken : at'[r] = at[r] /\ seq'[r] = seq[r]
  <2>1. s = taken + 1 /\ taken' = taken + 1 /\ \A r \in 1 .. taken : r # s
    BY <1>0, <1>2 DEF Collect, Collected
  <2>2. t \in Nat
    BY UplinkAssumption DEF UplinkAssumption
  <2>3. at' = [at EXCEPT ![s] = t] /\ seq' = [seq EXCEPT ![s] = sequence[d] + 1]
    BY <1>2 DEF Collect, Collected
  <2> QED
    BY <1>0, <2>1, <2>2, <2>3
<1>3. (\E d \in Devices, s \in Samples, t \in Times, h \in Headings : Collect(d, s, t, h))
        \/ UNCHANGED <<taken, at, seq>>
  BY DEF Next, Agent, Serve, Operator, vars, sampleVars, CollectFails, Upload, GiveUp, Restart,
     Admit, LockVehicle, InsertSamples, FlushState, CommitBatch, Respond, ServerFails,
     RevokeDevice, DeleteDevice, RemoveVehicle, ClearReadings, ClearCascades, ClearCommits,
     ClearFails
<1> QED
  BY <1>0, <1>1, <1>2, <1>3

\* An ingestion that goes on holds the state after a step only if it did before.
LEMMA HoldsStays ==
  ASSUME UplinkInv, CurrentInv, [Next]_vars, NEW k \in Slots,
         step[k] = "flushed", UNCHANGED <<step[k], fresh[k], seen[k]>>
  PROVE  HoldsState(k)' <=> HoldsState(k)
<1>1. fresh[k] \subseteq 1 .. taken /\ (seen[k] # None => seen[k] \in 1 .. taken)
  BY DEF UplinkInv, OwnReadings, CurrentInv, SeenIsCurrent
<1>2. \A r, s \in 1 .. taken : Before(r, s)' <=> Before(r, s)
  BY ReadingsStay DEF Before
<1>3. Advancing(k)' = Advancing(k)
  BY <1>1, <1>2, ReadingsStay DEF Advancing
<1> QED
  BY <1>3 DEF HoldsState, WritesState

\* What steps do to the state: a commit writes it, a deletion removes the row, and
\* others leave it alone.
StateStays == UNCHANGED <<current, merged>>
LEMMA StateSteps ==
  ASSUME UplinkInv, CurrentInv, [Next]_vars
  PROVE  \/ StateStays
         \/ NoState /\ \A k \in Slots : ~HoldsState(k)
         \/ \E k \in Slots : CommitBatch(k)
<1>1. ASSUME NEW d \in Devices, DeleteDevice(d)
      PROVE  StateStays \/ (NoState /\ \A k \in Slots : ~HoldsState(k))
  BY <1>1 DEF DeleteDevice, StateStays
<1>2. CASE RemoveVehicle
  BY <1>2 DEF RemoveVehicle, VehicleFree, HoldsVehicle, HoldsState
<1>3. CASE ClearCommits
  BY <1>3 DEF ClearCommits, ClearedState, CurrentInv, SeenIsCurrent
<1>4. (\E d \in Devices : DeleteDevice(d)) \/ RemoveVehicle \/ ClearCommits
        \/ (\E k \in Slots : CommitBatch(k)) \/ StateStays
  BY DEF Next, Agent, Serve, Operator, vars, storeVars, StateStays, Collect, CollectFails,
     Upload, GiveUp, Restart, Admit, LockVehicle, InsertSamples, FlushState, Respond,
     ServerFails, RevokeDevice, ClearReadings, ClearCascades, ClearFails
<1> QED
  BY <1>1, <1>2, <1>3, <1>4

\* A step that leaves the transactions between insertion and commit as they are
\* keeps what they have read.
LEMMA SeenQuiet ==
  ASSUME UplinkInv, CurrentInv, [Next]_vars,
         seen' \in [Slots -> Samples \cup {None}],
         \A k \in Slots : step'[k] \in {"inserted", "flushed"} =>
           UNCHANGED <<step[k], fresh[k], seen[k]>>,
         StateStays \/ (NoState /\ \A k \in Slots : ~HoldsState(k)),
         clearing' = "cascaded" /\ current' \in doomed' =>
           (clearing = "cascaded" /\ current \in doomed) \/ \A k \in Slots : ~HoldsState(k)
  PROVE  SeenIsCurrent'
<1>1. ASSUME NEW k \in Slots, HoldsState(k)'
      PROVE  HoldsState(k)
  <2>1. step'[k] = "flushed" /\ step[k] = "flushed" /\ UNCHANGED <<step[k], fresh[k], seen[k]>>
    BY <1>1 DEF HoldsState
  <2> QED
    BY <1>1, <2>1, HoldsStays
<1>2. ASSUME NEW k \in Slots, step'[k] \in {"inserted", "flushed"}
      PROVE  /\ current' # None => seen'[k] = current'
             /\ seen'[k] # None => seen'[k] \in 1 .. taken'
             /\ HoldsState(k)' => current' = seen'[k]
  <2>1. step[k] \in {"inserted", "flushed"} /\ seen'[k] = seen[k]
    BY <1>2
  <2>2. /\ current # None => seen[k] = current
        /\ seen[k] # None => seen[k] \in 1 .. taken
        /\ HoldsState(k) => current = seen[k]
    BY <2>1 DEF CurrentInv, SeenIsCurrent
  <2>3. taken \in Nat /\ taken' \in Nat /\ taken <= taken'
    BY ReadingsStay
  <2>4. current' # None => seen'[k] = current'
    BY <2>1, <2>2 DEF StateStays, NoState
  <2>5. seen'[k] # None => seen'[k] \in 1 .. taken'
    BY <2>1, <2>2, <2>3
  <2>6. HoldsState(k)' => current' = seen'[k]
    BY <1>1, <2>1, <2>2 DEF StateStays
  <2> QED
    BY <2>4, <2>5, <2>6
<1>3. clearing' = "cascaded" /\ current' \in doomed' => \A k \in Slots : ~HoldsState(k)'
  BY <1>1 DEF CurrentInv, SeenIsCurrent
<1> QED
  BY <1>2, <1>3 DEF SeenIsCurrent

\* What ingestions have read stays what the row holds.
LEMMA SeenKept == UplinkInv /\ CurrentInv /\ [Next]_vars => SeenIsCurrent'
<1> SUFFICES ASSUME UplinkInv, CurrentInv, [Next]_vars PROVE SeenIsCurrent'
  OBVIOUS
<1>0. /\ seen \in [Slots -> Samples \cup {None}]
      /\ step \in [Slots -> Place]
      /\ current # None => current \in history /\ current \in 1 .. taken
      /\ doomed \subseteq history /\ None \notin history
  BY DEF CurrentInv, SeenIsCurrent, StateIsStored, CurrentIsStored, UplinkInv, Shape,
     OwnReadings, DoomedIsWhole, None
<1>1. ASSUME NEW k \in Slots, InsertSamples(k) PROVE SeenIsCurrent'
  <2>1. /\ step' = [step EXCEPT ![k] = "inserted"] /\ seen' = [seen EXCEPT ![k] = current]
        /\ fresh' = [fresh EXCEPT ![k] = Accepted(k)]
        /\ step[k] = "locked"
        /\ UNCHANGED <<current, merged, taken, clearing, doomed, at, seq>>
    BY <1>1 DEF InsertSamples, Goes, storeVars, sampleVars, clearVars
  <2>0. current \in Samples \cup {None}
    BY <1>0, UplinkAssumption DEF UplinkAssumption, UplinkInv, Shape, Samples
  <2>2. seen' \in [Slots -> Samples \cup {None}]
    BY <1>0, <2>0, <2>1
  <2>3. \A j \in Slots : step'[j] \in {"inserted", "flushed"} => j = k
    BY <1>0, <2>1 DEF UplinkInv, OneIngestion, HoldsVehicle
  <2>4. \A j \in Slots : ~HoldsState(j)'
    BY <1>0, <2>1, <2>3 DEF HoldsState
  <2> QED
    BY <1>0, <2>1, <2>2, <2>3, <2>4 DEF SeenIsCurrent
<1>2. ASSUME NEW k \in Slots, FlushState(k) PROVE SeenIsCurrent'
  <2>1. /\ step[k] = "inserted"
        /\ UNCHANGED <<current, merged, taken, clearing, doomed, at, seq, seen, fresh>>
        /\ WritesState(k) /\ seen[k] # None => ~(clearing = "cascaded" /\ current \in doomed)
        /\ step' = [step EXCEPT ![k] = IF WritesState(k) /\ seen[k] # None /\ current = None
                                       THEN "refused" ELSE "flushed"]
    BY <1>2 DEF FlushState, Goes, requestVars, storeVars, sampleVars, clearVars
  <2>2. \A j \in Slots : step'[j] \in {"inserted", "flushed"} => j = k
    BY <1>0, <2>1 DEF UplinkInv, OneIngestion, HoldsVehicle
  <2>3. WritesState(k)' <=> WritesState(k)
    BY <2>1 DEF WritesState, Advancing, Before
  <2>4. HoldsState(k)' => WritesState(k) /\ seen[k] # None /\ current # None
    BY <1>0, <2>1, <2>3 DEF HoldsState
  <2>5. HoldsState(k)' => current' = seen'[k] /\ ~(clearing' = "cascaded" /\ current' \in doomed')
    BY <2>1, <2>4 DEF CurrentInv, SeenIsCurrent
  <2>6. \A j \in Slots : HoldsState(j)' => j = k
    BY <2>2 DEF HoldsState
  <2>7. clearing' = "cascaded" /\ current' \in doomed' => \A j \in Slots : ~HoldsState(j)'
    BY <2>5, <2>6
  <2>8. /\ current' # None => seen'[k] = current'
        /\ seen'[k] # None => seen'[k] \in 1 .. taken'
    BY <2>1 DEF CurrentInv, SeenIsCurrent
  <2> QED
    BY <1>0, <2>1, <2>2, <2>5, <2>7, <2>8 DEF SeenIsCurrent
<1>3. ASSUME NEW k \in Slots, CommitBatch(k) PROVE SeenIsCurrent'
  <2>1. /\ step[k] = "flushed" /\ seen' = seen
        /\ step' = [step EXCEPT ![k] = "refused"] \/ step' = [step EXCEPT ![k] = "answered"]
    BY <1>3 DEF CommitBatch, Goes, requestVars
  <2>2. \A j \in Slots : step'[j] \notin {"inserted", "flushed"}
    BY <1>0, <2>1 DEF UplinkInv, OneIngestion, HoldsVehicle
  <2> QED
    BY <1>0, <2>1, <2>2 DEF SeenIsCurrent, HoldsState
<1>4. ASSUME NEW k \in Slots, Respond(k) PROVE SeenIsCurrent'
  <2>1. /\ step' = [step EXCEPT ![k] = "free"] /\ seen' = [seen EXCEPT ![k] = None]
        /\ fresh' = [fresh EXCEPT ![k] = {}]
        /\ UNCHANGED <<current, merged, clearing, doomed>>
    BY <1>4 DEF Respond, storeVars, clearVars
  <2>2. seen' \in [Slots -> Samples \cup {None}]
    BY <1>0, <2>1
  <2>3. \A j \in Slots : step'[j] \in {"inserted", "flushed"} =>
          UNCHANGED <<step[j], fresh[j], seen[j]>>
    BY <1>0, <2>1 DEF UplinkInv, Shape
  <2> QED
    BY <2>1, <2>2, <2>3, SeenQuiet DEF StateStays
<1>5. ASSUME NEW k \in Slots, Admit(k) \/ LockVehicle(k) \/ ServerFails(k) PROVE SeenIsCurrent'
  <2>1. /\ \E place \in Place \ {"inserted", "flushed"} : step' = [step EXCEPT ![k] = place]
        /\ UNCHANGED <<seen, fresh, current, merged, clearing, doomed>>
    BY <1>5 DEF Admit, LockVehicle, ServerFails, Goes, Place, requestVars, storeVars, clearVars
  <2>2. \A j \in Slots : step'[j] \in {"inserted", "flushed"} =>
          UNCHANGED <<step[j], fresh[j], seen[j]>>
    BY <1>0, <2>1
  <2> QED
    BY <1>0, <2>1, <2>2, SeenQuiet DEF StateStays
<1>6. ASSUME NEW d \in Devices, Agent(d) PROVE SeenIsCurrent'
  <2>1. UNCHANGED <<seen, fresh, current, merged, clearing, doomed>>
    BY <1>6 DEF Agent, Collect, CollectFails, Upload, GiveUp, Restart, requestVars, storeVars,
       clearVars
  <2>2. step' = step \/ \E k \in Slots : step' = [step EXCEPT ![k] = "sent"]
    BY <1>6 DEF Agent, Collect, CollectFails, Upload, GiveUp, Restart
  <2>3. \A j \in Slots : step'[j] \in {"inserted", "flushed"} =>
          UNCHANGED <<step[j], fresh[j], seen[j]>>
    BY <1>0, <2>1, <2>2
  <2> QED
    BY <1>0, <2>1, <2>3, SeenQuiet DEF StateStays
<1>7. CASE Operator
  <2>1. UNCHANGED <<step, seen, fresh>>
    BY <1>7 DEF Operator, RevokeDevice, DeleteDevice, RemoveVehicle, ClearReadings,
       ClearCascades, ClearCommits, ClearFails, requestVars
  <2>2. StateStays \/ (NoState /\ \A k \in Slots : ~HoldsState(k))
    <3>1. \A k \in Slots : CommitBatch(k) => FALSE
      <4>1. ASSUME NEW k \in Slots, CommitBatch(k) PROVE FALSE
        <5>1. step[k] = "flushed" /\ step'[k] \in {"refused", "answered"}
          BY <1>0, <4>1 DEF CommitBatch, Goes
        <5> QED
          BY <2>1, <5>1
      <4> QED
        BY <4>1
    <3> QED
      BY <3>1, StateSteps
  <2>3. clearing' = "cascaded" /\ current' \in doomed' =>
          (clearing = "cascaded" /\ current \in doomed) \/ \A k \in Slots : ~HoldsState(k)
    <3>1. CASE ClearCascades
      BY <3>1 DEF ClearCascades, storeVars
    <3>2. CASE ~ClearCascades /\ clearing' = "cascaded"
      <4>1. clearing' = clearing /\ doomed' = doomed
        BY <1>7, <3>2 DEF Operator, RevokeDevice, DeleteDevice, RemoveVehicle, ClearReadings,
           ClearCommits, ClearFails, clearVars
      <4> QED
        BY <1>0, <2>2, <3>2, <4>1 DEF StateStays, NoState
    <3> QED
      BY <3>1, <3>2
  <2> QED
    BY <1>0, <2>1, <2>2, <2>3, SeenQuiet
<1>8. CASE UNCHANGED vars
  BY <1>0, <1>8, SeenQuiet DEF vars, requestVars, storeVars, clearVars, StateStays
<1> QED
  BY <1>1, <1>2, <1>3, <1>4, <1>5, <1>6, <1>7, <1>8 DEF Next, Serve

\* What a commit does to the state: nothing, or it shows the last new reading, which
\* is not older than what it showed.
LEMMA CommitAdvances ==
  ASSUME NEW k \in Slots, UplinkInv, CurrentInv, CommitBatch(k)
  PROVE  \/ StateStays /\ history \subseteq history'
         \/ /\ current' = Latest(k) /\ merged' = [merged EXCEPT ![from[k]] = Latest(k)]
            /\ current' \in history' /\ current' \in 1 .. taken /\ current' \in Samples
            /\ current # None => at[current] <= at[current']
<1>1. CASE SenderGone(k) \/ ~WritesState(k)
  BY <1>1 DEF CommitBatch, storeVars, StateStays
<1>2. CASE ~SenderGone(k) /\ WritesState(k)
  <2>1. /\ current' = Latest(k) /\ merged' = [merged EXCEPT ![from[k]] = Latest(k)]
        /\ history' = history \cup fresh[k] /\ step[k] = "flushed"
    BY <1>2 DEF CommitBatch
  <2>2. current # None => seen[k] = current
    BY <2>1 DEF CurrentInv, SeenIsCurrent
  <2> QED
    BY <1>2, <2>1, <2>2, LatestIsNewer
<1> QED
  BY <1>1, <1>2

\* The state shows a stored reading, and no agent's metrics are newer.
LEMMA StateKept == UplinkInv /\ CurrentInv /\ [Next]_vars => StateIsStored'
<1> SUFFICES ASSUME UplinkInv, CurrentInv, [Next]_vars PROVE StateIsStored'
  OBVIOUS
<1>0. /\ merged \in [Devices -> Samples \cup {None}]
      /\ current # None => current \in history /\ current \in 1 .. taken
      /\ \A d \in Devices : merged[d] # None =>
           merged[d] \in 1 .. taken /\ current # None /\ at[merged[d]] <= at[current]
  BY DEF CurrentInv, StateIsStored, CurrentIsStored, UplinkInv, OwnReadings
<1>1. ASSUME NEW k \in Slots, CommitBatch(k) PROVE StateIsStored'
  <2>1. UNCHANGED <<taken, at>>
    BY <1>1 DEF CommitBatch, sampleVars
  <2>2. CASE StateStays /\ history \subseteq history'
    BY <1>0, <2>1, <2>2, ReadingsStay DEF StateStays, StateIsStored, CurrentIsStored
  <2>3. CASE /\ merged' = [merged EXCEPT ![from[k]] = current']
             /\ current' \in history' /\ current' \in 1 .. taken /\ current' \in Samples
             /\ current # None => at[current] <= at[current']
    <3>0. current' # None
      BY <2>3 DEF None, UplinkInv, Shape
    <3>1. merged' \in [Devices -> Samples \cup {None}] /\ current' # None
      BY <1>0, <2>3, <3>0
    <3>2. at \in [Samples -> Nat] /\ 1 .. taken \subseteq Samples
      BY UplinkAssumption DEF UplinkAssumption, UplinkInv, Shape, Samples, CurrentInv, StateIsStored
    <3>3. ASSUME NEW d \in Devices, merged'[d] # None
          PROVE  merged'[d] \in 1 .. taken /\ at[merged'[d]] <= at[current']
      <4>1. CASE d = from[k]
        BY <1>0, <2>3, <3>2, <4>1
      <4>2. CASE d # from[k]
        <5>1. merged[d] \in 1 .. taken /\ current # None /\ at[merged[d]] <= at[current]
          BY <1>0, <2>3, <3>3, <4>2
        <5>2. at[merged[d]] \in Nat /\ at[current] \in Nat /\ at[current'] \in Nat
          BY <1>0, <2>3, <3>2, <5>1
        <5> QED
          BY <1>0, <2>3, <4>2, <5>1, <5>2
      <4> QED
        BY <4>1, <4>2
    <3> QED
      BY <2>1, <2>3, <3>1, <3>2, <3>3 DEF StateIsStored, CurrentIsStored
  <2> QED
    BY <1>1, <2>2, <2>3, CommitAdvances
<1>2. CASE NoState
  BY <1>2, ReadingsStay DEF NoState, StateIsStored, CurrentIsStored, None
<1>3. CASE StateStays /\ (current # None => current \in history')
  <2>1. \A d \in Devices : merged[d] # None => merged[d] \in 1 .. taken'
    BY <1>0, ReadingsStay
  <2>2. \A d \in Devices : merged[d] # None => at'[merged[d]] <= at'[current]
    BY <1>0, ReadingsStay
  <2> QED
    BY <1>0, <1>3, <2>1, <2>2, ReadingsStay DEF StateStays, StateIsStored, CurrentIsStored
<1>4. ASSUME NEW d \in Devices, DeleteDevice(d)
      PROVE  NoState \/ (StateStays /\ (current # None => current \in history'))
  BY <1>0, <1>4 DEF DeleteDevice, Without, StateStays
<1>5. history \subseteq history' \/ (\E d \in Devices : DeleteDevice(d)) \/ NoState
  BY DEF Next, Agent, Serve, Operator, vars, storeVars, Collect, CollectFails,
     Upload, GiveUp, Restart, Admit, LockVehicle, InsertSamples, FlushState, Respond,
     CommitBatch, ServerFails, RevokeDevice, RemoveVehicle, ClearReadings, ClearCascades,
     ClearCommits, ClearedState, ClearFails
<1> QED
  BY <1>0, <1>1, <1>2, <1>3, <1>4, <1>5, StateSteps

\* Both invariants together are inductive.
LEMMA CurrentKeeps == UplinkInv /\ CurrentInv /\ [Next]_vars => CurrentInv'
BY NumbersKept, SeenKept, StateKept DEF CurrentInv

THEOREM CurrentInvariant == Spec => [](UplinkInv /\ CurrentInv)
BY Starts, NextKeeps, CurrentStarts, CurrentKeeps, PTL DEF Spec

\* What the vehicle shows never goes back in time, whichever agents and requests
\* overlap, and neither do the metrics of any agent, as long as the row exists.
THEOREM CurrentDoesNotRewind == Spec => CurrentNeverRewinds
<1>1. ASSUME UplinkInv, CurrentInv, [Next]_vars, current # None, current' # None
      PROVE  /\ at[current] <= at[current']
             /\ \A d \in Devices : merged[d] # None =>
                  merged'[d] # None /\ at[merged[d]] <= at[merged'[d]]
  <2>0. /\ at \in [Samples -> Nat] /\ 1 .. taken \subseteq Samples
        /\ merged \in [Devices -> Samples \cup {None}]
        /\ current \in 1 .. taken
        /\ \A d \in Devices : merged[d] # None =>
             merged[d] \in 1 .. taken /\ at[merged[d]] <= at[current]
    BY <1>1, UplinkAssumption DEF UplinkAssumption, UplinkInv, Shape, OwnReadings, Samples,
       CurrentInv, StateIsStored, CurrentIsStored
  <2>1. CASE StateStays
    <3>1. at[current] \in Nat /\ \A d \in Devices : merged[d] # None => at[merged[d]] \in Nat
      BY <2>0
    <3> QED
      BY <2>1, <3>1 DEF StateStays
  <2>2. ASSUME NEW k \in Slots,
               merged' = [merged EXCEPT ![from[k]] = current'],
               current' \in 1 .. taken, at[current] <= at[current']
        PROVE  \A d \in Devices : merged[d] # None =>
                 merged'[d] # None /\ at[merged[d]] <= at[merged'[d]]
    <3>1. at[current] \in Nat /\ at[current'] \in Nat
      BY <2>0, <2>2
    <3>2. ASSUME NEW d \in Devices, merged[d] # None
          PROVE  merged'[d] # None /\ at[merged[d]] <= at[merged'[d]]
      <4>1. at[merged[d]] \in Nat /\ at[merged[d]] <= at[current]
        BY <2>0, <3>2
      <4>2. merged'[d] = merged[d] \/ merged'[d] = current'
        BY <2>0, <2>2
      <4> QED
        BY <1>1, <2>2, <3>1, <3>2, <4>1, <4>2
    <3> QED
      BY <3>2
  <2>3. \A k \in Slots : CommitBatch(k) =>
          \/ StateStays
          \/ /\ merged' = [merged EXCEPT ![from[k]] = current']
             /\ current' \in 1 .. taken /\ at[current] <= at[current']
    BY <1>1, CommitAdvances
  <2> QED
    BY <1>1, <2>1, <2>2, <2>3, StateSteps DEF NoState
<1>2. UplinkInv /\ CurrentInv /\ [Next]_vars =>
        [current # None /\ current' # None =>
           /\ at[current] <= at[current']
           /\ \A d \in Devices : merged[d] # None =>
                merged'[d] # None /\ at[merged[d]] <= at[merged'[d]]]_vars
  BY <1>1
<1> QED
  BY <1>2, CurrentInvariant, PTL DEF Spec, CurrentNeverRewinds

\* The vehicle never shows a reading that was deleted, also when a batch is ingested
\* while readings or agents are deleted.
THEOREM ShownIsStored == Spec => []CurrentIsStored
<1>1. CurrentInv => CurrentIsStored
  BY DEF CurrentInv, StateIsStored
<1> QED
  BY <1>1, CurrentInvariant, PTL

\* Every new reading of an ingestion is covered: it is older than what was read of the
\* state, or not newer than the reading the state is going to show.
LEMMA FreshIsCovered ==
  ASSUME NEW k \in Slots, UplinkInv, CurrentInv,
         seen[k] # None => seen[k] \in 1 .. taken
  PROVE  \A s \in fresh[k] :
           \/ seen[k] # None /\ at[s] < at[seen[k]]
           \/ WritesState(k) /\ at[s] <= at[Latest(k)]
<1> DEFINE Covered(s) == \/ seen[k] # None /\ at[s] < at[seen[k]]
                         \/ WritesState(k) /\ at[s] <= at[Latest(k)]
           Bad == {s \in fresh[k] : ~Covered(s)}
<1>0. /\ fresh[k] \subseteq Samples /\ 1 .. taken \subseteq Samples
      /\ at \in [Samples -> Nat]
  <2>1. 1 .. taken \subseteq Samples
    BY UplinkAssumption DEF UplinkAssumption, UplinkInv, Shape, Samples
  <2> QED
    BY <2>1 DEF UplinkInv, Shape, CurrentInv, StateIsStored
<1>1. SUFFICES ASSUME Bad # {} PROVE FALSE
  <2>1. Bad = {} => \A s \in fresh[k] : Covered(s)
    OBVIOUS
  <2> QED
    BY <2>1
<1>2. PICK b \in Bad : \A x \in Bad : ~Before(x, b)
  <2>1. Bad \in SUBSET Samples
    BY <1>0
  <2> HIDE DEF Bad
  <2> QED
    BY <1>1, <2>1, FirstOf
<1>3. b \in fresh[k] /\ ~Covered(b)
  BY <1>2
<1>4. ASSUME NEW r \in fresh[k], Before(r, b) PROVE at[r] <= at[b]
  <2>1. Covered(r)
    BY <1>2, <1>4
  <2>2. at[r] \in Nat /\ at[b] \in Nat /\ (seen[k] # None => at[seen[k]] \in Nat)
    BY <1>0, <1>3
  <2>3. WritesState(k) => at[Latest(k)] \in Nat
    BY <1>0, LatestIsNewer
  <2> HIDE DEF Bad
  <2> QED
    BY <1>3, <2>1, <2>2, <2>3
<1>5. b \in Advancing(k)
  <2>1. at[b] \in Nat /\ (seen[k] # None => at[seen[k]] \in Nat)
    BY <1>0, <1>3
  <2>2. seen[k] # None => at[seen[k]] <= at[b]
    BY <1>3, <2>1
  <2> QED
    BY <1>3, <1>4, <2>2 DEF Advancing
<1>6. WritesState(k)
  BY <1>5 DEF WritesState
<1>7. /\ Latest(k) \in Advancing(k) /\ ~Before(Latest(k), b)
      /\ Latest(k) \in fresh[k] /\ Latest(k) \in Samples
  BY <1>5, <1>6, LatestAdvances, LatestIsNewer
<1>8. b # Latest(k) /\ ~(at[b] <= at[Latest(k)])
  <2>1. at[b] \in Nat /\ at[Latest(k)] \in Nat
    BY <1>0, <1>3, <1>7
  <2> QED
    BY <1>3, <1>6, <2>1
<1>9. Before(b, Latest(k))
  BY <1>0, <1>3, <1>7, <1>8, BeforeOrders
<1> QED
  BY <1>3, <1>7, <1>8, <1>9 DEF Advancing

\* As long as nothing is deleted and no request clears the telemetry, the newest
\* reading is current, and ingestions have read what is current.
NewestInv ==
  /\ clearing = "no"
  /\ CurrentIsNewest
  /\ erased = {} =>
       \A k \in Slots : step[k] \in {"inserted", "flushed"} => seen[k] = current

\* A transaction between insertion and commit has just read the state, or has what it
\* had read before.
LEMMA SeenSteps ==
  ASSUME UplinkInv, CurrentInv, [Next]_vars, NEW k \in Slots,
         step'[k] \in {"inserted", "flushed"}
  PROVE  \/ seen'[k] = current /\ current' = current
         \/ step[k] \in {"inserted", "flushed"} /\ seen'[k] = seen[k]
<1>0. seen \in [Slots -> Samples \cup {None}] /\ step \in [Slots -> Place]
  BY DEF CurrentInv, SeenIsCurrent, UplinkInv, Shape
<1>1. ASSUME NEW j \in Slots, InsertSamples(j)
      PROVE  \/ seen'[k] = current /\ current' = current
             \/ step[k] \in {"inserted", "flushed"} /\ seen'[k] = seen[k]
  BY <1>0, <1>1 DEF InsertSamples, Goes, storeVars
<1>2. ASSUME NEW j \in Slots,
             Admit(j) \/ LockVehicle(j) \/ FlushState(j) \/ CommitBatch(j) \/ ServerFails(j)
      PROVE  step[k] \in {"inserted", "flushed"} /\ seen'[k] = seen[k]
  BY <1>0, <1>2 DEF Admit, LockVehicle, FlushState, CommitBatch, ServerFails, Goes, requestVars
<1>3. ASSUME NEW j \in Slots, Respond(j)
      PROVE  step[k] \in {"inserted", "flushed"} /\ seen'[k] = seen[k]
  BY <1>0, <1>3 DEF Respond
<1>4. ASSUME NEW d \in Devices, Agent(d)
      PROVE  step[k] \in {"inserted", "flushed"} /\ seen'[k] = seen[k]
  BY <1>0, <1>4 DEF Agent, Collect, CollectFails, Upload, GiveUp, Restart, requestVars
<1>5. CASE Operator
  BY <1>0, <1>5 DEF Operator, RevokeDevice, DeleteDevice, RemoveVehicle, ClearReadings,
     ClearCascades, ClearCommits, ClearFails, requestVars
<1> QED
  BY <1>1, <1>2, <1>3, <1>4, <1>5 DEF Next, Serve, vars, requestVars

\* Steps that delete nothing leave the row and the history alone, or commit a batch.
LEMMA NothingDeleted ==
  ASSUME UplinkInv, CurrentInv, NewestInv, [Next]_vars, "clear" \notin Requests, erased' = {}
  PROVE  /\ erased = {}
         /\ \/ UNCHANGED <<current, history>>
            \/ \E k \in Slots : CommitBatch(k)
<1>0. current # None => current \in history
  BY DEF CurrentInv, StateIsStored, CurrentIsStored
<1>1. ASSUME NEW d \in Devices, DeleteDevice(d)
      PROVE  erased = {} /\ UNCHANGED <<current, history>>
  BY <1>1 DEF DeleteDevice, Without
<1>2. CASE RemoveVehicle
  BY <1>0, <1>2 DEF RemoveVehicle, Without, NoState
<1>3. \/ UNCHANGED <<current, history, erased>>
      \/ (\E d \in Devices : DeleteDevice(d)) \/ RemoveVehicle
      \/ \E k \in Slots : CommitBatch(k) /\ UNCHANGED erased
  BY DEF Next, Agent, Serve, Operator, vars, storeVars, Collect, CollectFails, Upload, GiveUp,
     Restart, Admit, LockVehicle, InsertSamples, FlushState, Respond, CommitBatch,
     ServerFails, RevokeDevice, ClearReadings, ClearCascades, ClearCommits, ClearFails, NewestInv
<1> QED
  BY <1>1, <1>2, <1>3

\* A batch leaves the newest reading current.
LEMMA CommitIsNewest ==
  ASSUME NEW k \in Slots, UplinkInv, CurrentInv, NewestInv, erased = {}, CommitBatch(k)
  PROVE  \A s \in history' : current' # None /\ at[s] <= at[current']
<1>0. /\ at \in [Samples -> Nat] /\ 1 .. taken \subseteq Samples /\ None \notin 1 .. taken
      /\ history \subseteq 1 .. taken /\ fresh[k] \subseteq 1 .. taken
      /\ step[k] = "flushed"
  BY UplinkAssumption DEF UplinkAssumption, UplinkInv, Shape, OwnReadings, Samples, None,
     CurrentInv, StateIsStored, CommitBatch
<1>1. /\ seen[k] = current
      /\ current # None => current \in 1 .. taken
      /\ \A s \in history : current # None /\ at[s] <= at[current]
  BY <1>0 DEF NewestInv, CurrentIsNewest, CurrentInv, StateIsStored, CurrentIsStored
<1>2. CASE SenderGone(k)
  BY <1>1, <1>2 DEF CommitBatch, storeVars
<1>3. CASE ~SenderGone(k) /\ ~WritesState(k)
  <2>1. history' = history \cup fresh[k] /\ current' = current
    BY <1>3 DEF CommitBatch
  <2>2. \A s \in fresh[k] : current # None /\ at[s] < at[current]
    BY <1>1, <1>3, FreshIsCovered
  <2>3. \A s \in fresh[k] : current # None /\ at[s] <= at[current]
    <3>1. ASSUME NEW s \in fresh[k] PROVE current # None /\ at[s] <= at[current]
      <4>1. at[s] \in Nat /\ current # None /\ at[current] \in Nat
        BY <1>0, <1>1, <2>2
      <4> QED
        BY <2>2, <4>1
    <3> QED
      BY <3>1
  <2> QED
    BY <1>1, <2>1, <2>3
<1>4. CASE ~SenderGone(k) /\ WritesState(k)
  <2>1. history' = history \cup fresh[k] /\ current' = Latest(k)
    BY <1>4 DEF CommitBatch
  <2>2. /\ Latest(k) \in 1 .. taken /\ at[Latest(k)] \in Nat
        /\ current # None => at[current] <= at[Latest(k)] /\ at[current] \in Nat
    BY <1>0, <1>1, <1>4, LatestIsNewer
  <2>3. ASSUME NEW s \in history' PROVE at[s] <= at[Latest(k)]
    <3>1. at[s] \in Nat
      BY <1>0, <2>1
    <3>2. CASE s \in history
      BY <1>1, <2>2, <3>1, <3>2
    <3>3. CASE s \in fresh[k]
      <4>1. (current # None /\ at[s] < at[current]) \/ at[s] <= at[Latest(k)]
        BY <1>1, <3>3, FreshIsCovered
      <4> QED
        BY <2>2, <3>1, <4>1
    <3> QED
      BY <2>1, <3>2, <3>3
  <2> QED
    BY <1>0, <2>1, <2>2, <2>3
<1> QED
  BY <1>2, <1>3, <1>4

LEMMA NewestStays ==
  ASSUME UplinkInv, CurrentInv, NewestInv, [Next]_vars, "clear" \notin Requests
  PROVE  NewestInv'
<1>1. clearing' = "no"
  BY DEF NewestInv, Next, Agent, Serve, Operator, vars, clearVars, Collect, CollectFails,
     Upload, GiveUp, Restart, Admit, LockVehicle, InsertSamples, FlushState, Respond,
     CommitBatch, ServerFails, RevokeDevice, DeleteDevice, RemoveVehicle, ClearReadings,
     ClearCascades, ClearCommits, ClearFails
<1>2. ASSUME erased' = {} PROVE \A s \in history' : current' # None /\ at'[s] <= at'[current']
  <2>1. CASE UNCHANGED <<current, history>>
    <3>1. history \subseteq 1 .. taken /\ (current # None => current \in history)
      BY DEF UplinkInv, OwnReadings, CurrentInv, StateIsStored, CurrentIsStored
    <3>2. \A s \in history : current # None /\ at[s] <= at[current]
      BY <1>2, NothingDeleted DEF NewestInv, CurrentIsNewest
    <3> QED
      BY <2>1, <3>1, <3>2, ReadingsStay
  <2>2. ASSUME NEW k \in Slots, CommitBatch(k)
        PROVE  \A s \in history' : current' # None /\ at'[s] <= at'[current']
    BY <1>2, <2>2, CommitIsNewest, NothingDeleted DEF CommitBatch, sampleVars
  <2> QED
    BY <1>2, <2>1, <2>2, NothingDeleted
<1>3. ASSUME erased' = {}, NEW k \in Slots, step'[k] \in {"inserted", "flushed"}
      PROVE  seen'[k] = current'
  <2>1. CASE UNCHANGED <<current, history>>
    BY <1>3, <2>1, SeenSteps, NothingDeleted DEF NewestInv
  <2>2. ASSUME NEW j \in Slots, CommitBatch(j) PROVE FALSE
    <3>1. step[j] = "flushed" /\ step'[j] \notin {"inserted", "flushed"} /\ \A i \in Slots \ {j} : step'[i] = step[i]
      BY <2>2 DEF CommitBatch, Goes, UplinkInv, Shape
    <3> QED
      BY <1>3, <3>1 DEF UplinkInv, OneIngestion, HoldsVehicle
  <2> QED
    BY <1>3, <2>1, <2>2, NothingDeleted
<1> QED
  BY <1>1, <1>2, <1>3 DEF NewestInv, CurrentIsNewest

\* The vehicle shows the newest reading of all its agents, however late and in whatever
\* order their batches come, as long as nothing is deleted and no request to clear the
\* telemetry is made.
THEOREM NewestIsShown ==
  ASSUME "clear" \notin Requests
  PROVE  Spec => []CurrentIsNewest
<1>1. Init => NewestInv
  BY DEF Init, NewestInv, CurrentIsNewest
<1>2. UplinkInv /\ CurrentInv /\ NewestInv /\ [Next]_vars => NewestInv'
  BY NewestStays
<1>3. NewestInv => CurrentIsNewest
  BY DEF NewestInv
<1> QED
  BY <1>1, <1>2, <1>3, CurrentInvariant, PTL DEF Spec
=============================================================================
