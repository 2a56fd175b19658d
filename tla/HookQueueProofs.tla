-------------------------- MODULE HookQueueProofs --------------------------
(***************************************************************************)
(* Proofs about HookQueue, for every number of workers, hooks, vehicles    *)
(* and executions, every lease and every timeout.                          *)
(***************************************************************************)
EXTENDS HookQueue, TLAPS

\* The identifiers of executions are positive: 0 names none.
LEMMA ExecsArePositive == NoExec \notin Execs /\ Execs \subseteq Nat
  BY DEF NoExec, Execs

----------------------------------------------------------------------------
(* Type correctness.                                                       *)

\* Counting one more keeps a family of counters a family of counters.
LEMMA CountUp ==
  ASSUME NEW S, NEW f \in [S -> Nat], NEW x \in S
  PROVE  [f EXCEPT ![x] = f[x] + 1] \in [S -> Nat]
  OBVIOUS

\* A worker that is not idle holds an execution, and through it a hook.
LEMMA HeldExec ==
  ASSUME TypeOK, NEW w \in Workers, pc[w] # "idle"
  PROVE  cur[w] \in Execs /\ HookAt(w) \in Hooks
  BY DEF TypeOK, HookAt

WorkerTypes ==
  /\ pc \in [Workers -> Place]
  /\ cur \in [Workers -> Execs \cup {NoExec}]
  /\ \A w \in Workers : cur[w] = NoExec <=> pc[w] = "idle"
  /\ ran \in [Workers -> 0 .. MaxRun]
  /\ input \in [Workers -> SUBSET Execs]
  /\ result \in [Workers -> Outcome]
  /\ found \in [Workers -> BOOLEAN]

\* Forgetting a worker's locals keeps their types.
LEMMA ToIdleTypes ==
  ASSUME TypeOK, NEW w \in Workers, ToIdle(w) PROVE WorkerTypes'
<1> USE QueueAssumption, ExecsArePositive DEF TypeOK, ToIdle, At, Place, Outcome
<1>1. pc' \in [Workers -> Place] /\ cur' \in [Workers -> Execs \cup {NoExec}]
  OBVIOUS
<1>2. ASSUME NEW x \in Workers PROVE cur'[x] = NoExec <=> pc'[x] = "idle"
  OBVIOUS
<1>3. /\ ran' \in [Workers -> 0 .. MaxRun] /\ input' \in [Workers -> SUBSET Execs]
      /\ result' \in [Workers -> Outcome]
  OBVIOUS
<1>4. found' \in [Workers -> BOOLEAN]
  OBVIOUS
<1> QED
  BY <1>1, <1>2, <1>3, <1>4 DEF WorkerTypes

\* TypeOK is inductive by itself: every action of the queue, the API and the
\* environment keeps every variable in its range.
LEMMA TypeStep == TypeOK /\ [Next]_vars => TypeOK'
<1> SUFFICES ASSUME TypeOK, [Next]_vars PROVE TypeOK'
  OBVIOUS
<1> USE QueueAssumption, ExecsArePositive
    DEF TypeOK, JobStatus, ExecStatus, Outcome, Place, jobVars, execVars, lockVars,
        childVars, workerVars
<1>1. ASSUME NEW e \in Execs, NEW h \in Hooks, NEW v \in Vehicles, Enqueue(e, h, v)
      PROVE TypeOK'
  BY <1>1 DEF Enqueue
<1>2. ASSUME NEW h \in Hooks, DeleteHook(h) PROVE TypeOK'
  BY <1>2 DEF DeleteHook, Cascade
<1>3. ASSUME NEW v \in Vehicles, ClearTelemetry(v) PROVE TypeOK'
  BY <1>3 DEF ClearTelemetry, Cascade
<1>4. ASSUME NEW w \in Workers, NEW e \in Execs, ClaimJob(w, e) PROVE TypeOK'
  BY <1>4 DEF ClaimJob, RecoveredJob, RecoveredExec, DeadlockVictims
<1>5. ASSUME NEW w \in Workers, RecoverOnly(w) PROVE TypeOK'
  BY <1>5 DEF RecoverOnly, RecoveredJob, RecoveredExec, DeadlockVictims
<1>6. ASSUME NEW w \in Workers, SelectExecution(w) PROVE TypeOK'
  <2>1. cur[w] \in Execs
    BY <1>6, HeldExec DEF SelectExecution
  <2>2. CASE ToIdle(w)
    <3>1. WorkerTypes'
      BY <2>2, ToIdleTypes
    <3>2. job' \in [Execs -> JobStatus] /\ age' \in [Execs -> 0 .. Lease + 1]
      BY <1>6, <2>1 DEF SelectExecution
    <3> QED
      BY <1>6, <3>1, <3>2 DEF SelectExecution, WorkerTypes
  <2>3. CASE (At(w, "failing") \/ At(w, "waiting")) /\ UNCHANGED <<jobVars, cur, childVars>>
    BY <1>6, <2>1, <2>3 DEF SelectExecution, At
  <2> QED
    BY <1>6, <2>2, <2>3 DEF SelectExecution
<1>7. ASSUME NEW w \in Workers, AcquireLock(w) PROVE TypeOK'
  BY <1>7 DEF AcquireLock, At, HookAt
<1>8. ASSUME NEW w \in Workers, LockRefused(w) PROVE TypeOK'
  BY <1>8 DEF LockRefused, At
<1>9. ASSUME NEW w \in Workers, StartChild(w) PROVE TypeOK'
  <2>1. cur[w] \in Execs /\ HookAt(w) \in Hooks
    BY <1>9, HeldExec DEF StartChild
  <2>2. exec' \in [Execs -> ExecStatus]
    BY <1>9, <2>1 DEF StartChild
  <2>3. input' \in [Workers -> SUBSET Execs]
    BY <1>9, <2>1 DEF StartChild, LoadedState
  <2>4. ran' \in [Workers -> 0 .. MaxRun]
    BY <1>9 DEF StartChild
  <2>5. runs' \in [Execs -> Nat]
    <3>1. runs \in [Execs -> Nat]
      OBVIOUS
    <3>2. runs' = [runs EXCEPT ![cur[w]] = runs[cur[w]] + 1]
      BY <1>9 DEF StartChild
    <3> QED
      BY ONLY <2>1, <3>1, <3>2, CountUp
  <2> QED
    BY <1>9, <2>1, <2>2, <2>3, <2>4, <2>5 DEF StartChild, At
<1>10. ASSUME NEW w \in Workers, InputUnavailable(w) PROVE TypeOK'
  BY <1>10 DEF InputUnavailable, At, HookAt, Unlocked
<1>11. ASSUME NEW w \in Workers, NEW o \in Outcome, ChildEnds(w, o) PROVE TypeOK'
  BY <1>11 DEF ChildEnds, At, HookAt, Unlocked
<1>12. ASSUME NEW w \in Workers, FlushFails(w) PROVE TypeOK'
  <2>1. cur[w] \in Execs /\ HookAt(w) \in Hooks
    BY <1>12, HeldExec DEF FlushFails
  <2> QED
    BY <1>12, <2>1 DEF FlushFails, At
<1>13. ASSUME NEW w \in Workers, CommitOutcome(w) PROVE TypeOK'
  <2>1. cur[w] \in Execs /\ HookAt(w) \in Hooks
    BY <1>13, HeldExec DEF CommitOutcome
  <2>2. WorkerTypes'
    BY <1>13, ToIdleTypes DEF CommitOutcome
  <2>3. state' \in [Hooks -> SUBSET Execs]
    BY <1>13, <2>1 DEF CommitOutcome, SavedState
  <2>4. /\ exec' \in [Execs -> ExecStatus] /\ job' \in [Execs -> JobStatus]
        /\ age' \in [Execs -> 0 .. Lease + 1]
    BY <1>13, <2>1 DEF CommitOutcome, CompletedJob
  <2> QED
    BY <1>13, <2>2, <2>3, <2>4 DEF CommitOutcome, WorkerTypes
<1>14. ASSUME NEW w \in Workers, CommitFails(w) PROVE TypeOK'
  BY <1>14 DEF CommitFails, At
<1>15. ASSUME NEW w \in Workers, HandleError(w) PROVE TypeOK'
  <2>1. cur[w] \in Execs
    BY <1>15, HeldExec DEF HandleError
  <2>2. WorkerTypes'
    BY <1>15, ToIdleTypes DEF HandleError
  <2>3. exec' \in [Execs -> ExecStatus]
    BY <1>15, <2>1 DEF HandleError
  <2>4. job' \in [Execs -> JobStatus] /\ age' \in [Execs -> 0 .. Lease + 1]
    BY <1>15, <2>1 DEF HandleError
  <2> QED
    BY <1>15, <2>2, <2>3, <2>4 DEF HandleError, WorkerTypes
<1>16. ASSUME NEW w \in Workers, Crash(w) PROVE TypeOK'
  BY <1>16 DEF Crash, ToIdle, At, LocksAfterClose
<1>17. CASE Tick
  BY <1>17 DEF Tick, TimeLeft
<1>18. CASE UNCHANGED vars
  BY <1>18 DEF vars
<1> QED
  BY <1>1, <1>2, <1>3, <1>4, <1>5, <1>6, <1>7, <1>8, <1>9, <1>10, <1>11, <1>12,
     <1>13, <1>14, <1>15, <1>16, <1>17, <1>18
     DEF Next, Step, QueueExecution, RetryExecution

LEMMA TypeInit == Init => TypeOK
  BY QueueAssumption, ExecsArePositive
     DEF Init, TypeOK, JobStatus, ExecStatus, Outcome, Place

\* Every reachable state is well typed: TypeOK of the runs, for all constants.
THEOREM TypeCorrect == Spec => []TypeOK
  BY TypeInit, TypeStep, PTL DEF Spec
LEMMA QueueInvStep == QueueInv /\ [Next]_vars => QueueInv'
<1> SUFFICES ASSUME QueueInv, [Next]_vars PROVE QueueInv'
  OBVIOUS
<1> USE QueueAssumption, ExecsArePositive
    DEF JobStatus, ExecStatus, Outcome, Place, jobVars, execVars, lockVars, childVars,
        workerVars
<1>0. TypeOK /\ TypeOK'
  BY TypeStep DEF QueueInv
<1>1. ASSUME NEW e \in Execs, NEW h \in Hooks, NEW v \in Vehicles, Enqueue(e, h, v)
      PROVE  QueueInv'
  <2>1. OneHolderPerJob'
    BY <1>0, <1>1 DEF QueueInv, TypeOK, OneHolderPerJob, Enqueue
  <2>2. HeldJobIsOpen'
    BY <1>0, <1>1 DEF QueueInv, TypeOK, HeldJobIsOpen, Enqueue
  <2>3. UnclaimedNotStarted'
    BY <1>0, <1>1 DEF QueueInv, TypeOK, UnclaimedNotStarted, Enqueue
  <2>4. PlaceMatchesRow'
    BY <1>0, <1>1 DEF QueueInv, TypeOK, PlaceMatchesRow, Enqueue
  <2>5. RunsAtMostOnce'
    BY <1>0, <1>1 DEF QueueInv, TypeOK, RunsAtMostOnce, Enqueue
  <2>6. SectionHoldsLock'
    BY <1>0, <1>1 DEF QueueInv, TypeOK, SectionHoldsLock, InSection, HookAt, Enqueue,
       HeldJobIsOpen
  <2>7. JobMatchesExecution'
    BY <1>0, <1>1 DEF QueueInv, TypeOK, JobMatchesExecution, Enqueue
  <2>8. EffectsAreSaved'
    BY <1>0, <1>1 DEF QueueInv, TypeOK, EffectsAreSaved, Saved, HookAt, Enqueue,
       HeldJobIsOpen
  <2> QED
    BY <1>0, <2>1, <2>2, <2>3, <2>4, <2>5, <2>6, <2>7, <2>8 DEF QueueInv
<1>2. ASSUME NEW h \in Hooks, DeleteHook(h)
      PROVE  QueueInv'
  <2>1. OneHolderPerJob'
    BY <1>0, <1>2 DEF QueueInv, TypeOK, OneHolderPerJob, DeleteHook, Cascade, RowLocked
  <2>2. HeldJobIsOpen'
    BY <1>0, <1>2 DEF QueueInv, TypeOK, HeldJobIsOpen, DeleteHook, Cascade, RowLocked
  <2>3. UnclaimedNotStarted'
    BY <1>0, <1>2 DEF QueueInv, TypeOK, UnclaimedNotStarted, DeleteHook, Cascade, RowLocked
  <2>4. PlaceMatchesRow'
    BY <1>0, <1>2 DEF QueueInv, TypeOK, PlaceMatchesRow, DeleteHook, Cascade, RowLocked
  <2>5. RunsAtMostOnce'
    BY <1>0, <1>2 DEF QueueInv, TypeOK, RunsAtMostOnce, DeleteHook, Cascade, RowLocked
  <2>6. SectionHoldsLock'
    BY <1>0, <1>2 DEF QueueInv, TypeOK, SectionHoldsLock, InSection, HookAt,
       DeleteHook, Cascade, RowLocked
  <2>7. JobMatchesExecution'
    BY <1>0, <1>2 DEF QueueInv, TypeOK, JobMatchesExecution, DeleteHook, Cascade, RowLocked
  <2>8. EffectsAreSaved'
    BY <1>0, <1>2 DEF QueueInv, TypeOK, EffectsAreSaved, Saved, HookAt, DeleteHook,
       Cascade, RowLocked
  <2> QED
    BY <1>0, <2>1, <2>2, <2>3, <2>4, <2>5, <2>6, <2>7, <2>8 DEF QueueInv
<1>3. ASSUME NEW v \in Vehicles, ClearTelemetry(v)
      PROVE  QueueInv'
  <2>1. OneHolderPerJob'
    BY <1>0, <1>3 DEF QueueInv, TypeOK, OneHolderPerJob, ClearTelemetry, Cascade, RowLocked
  <2>2. HeldJobIsOpen'
    BY <1>0, <1>3 DEF QueueInv, TypeOK, HeldJobIsOpen, ClearTelemetry, Cascade, RowLocked
  <2>3. UnclaimedNotStarted'
    BY <1>0, <1>3 DEF QueueInv, TypeOK, UnclaimedNotStarted, ClearTelemetry, Cascade,
       RowLocked
  <2>4. PlaceMatchesRow'
    BY <1>0, <1>3 DEF QueueInv, TypeOK, PlaceMatchesRow, ClearTelemetry, Cascade, RowLocked
  <2>5. RunsAtMostOnce'
    BY <1>0, <1>3 DEF QueueInv, TypeOK, RunsAtMostOnce, ClearTelemetry, Cascade, RowLocked
  <2>6. SectionHoldsLock'
    BY <1>0, <1>3 DEF QueueInv, TypeOK, SectionHoldsLock, InSection, HookAt,
       ClearTelemetry, Cascade, RowLocked
  <2>7. JobMatchesExecution'
    BY <1>0, <1>3 DEF QueueInv, TypeOK, JobMatchesExecution, ClearTelemetry, Cascade,
       RowLocked
  <2>8. EffectsAreSaved'
    BY <1>0, <1>3 DEF QueueInv, TypeOK, EffectsAreSaved, Saved, HookAt,
       ClearTelemetry, Cascade, RowLocked
  <2> QED
    BY <1>0, <2>1, <2>2, <2>3, <2>4, <2>5, <2>6, <2>7, <2>8 DEF QueueInv
<1>4. ASSUME NEW w \in Workers, NEW e \in Execs, ClaimJob(w, e)
      PROVE  QueueInv'
  <2>1. OneHolderPerJob'
    BY <1>0, <1>4 DEF QueueInv, TypeOK, OneHolderPerJob, ClaimJob, Oldest, Claimable,
       Expired, RecoveredJob, RecoveredExec, DeadlockVictims, HeldJobIsOpen
  <2>2. HeldJobIsOpen'
    BY <1>0, <1>4 DEF QueueInv, TypeOK, HeldJobIsOpen, ClaimJob, Oldest, Claimable,
       Expired, RecoveredJob, RecoveredExec, DeadlockVictims
  <2>3. UnclaimedNotStarted'
    BY <1>0, <1>4 DEF QueueInv, TypeOK, UnclaimedNotStarted, ClaimJob, Oldest,
       Claimable, Expired, RecoveredJob, RecoveredExec, DeadlockVictims
  <2>4. PlaceMatchesRow'
    BY <1>0, <1>4 DEF QueueInv, TypeOK, PlaceMatchesRow, ClaimJob, Oldest, Claimable,
       Expired, RecoveredJob, RecoveredExec, DeadlockVictims, UnclaimedNotStarted,
       HeldJobIsOpen
  <2>5. RunsAtMostOnce'
    BY <1>0, <1>4 DEF QueueInv, TypeOK, RunsAtMostOnce, ClaimJob, Oldest, Claimable,
       Expired, RecoveredJob, RecoveredExec, DeadlockVictims
  <2>6. SectionHoldsLock'
    BY <1>0, <1>4 DEF QueueInv, TypeOK, SectionHoldsLock, InSection, HookAt, ClaimJob,
       Oldest, Claimable, Expired, RecoveredJob, RecoveredExec, DeadlockVictims
  <2>7. JobMatchesExecution'
    BY <1>0, <1>4 DEF QueueInv, TypeOK, JobMatchesExecution, ClaimJob, Oldest,
       Claimable, Expired, RecoveredJob, RecoveredExec, DeadlockVictims
  <2>8. EffectsAreSaved'
    BY <1>0, <1>4 DEF QueueInv, TypeOK, EffectsAreSaved, Saved, HookAt, ClaimJob,
       Oldest, Claimable, Expired, RecoveredJob, RecoveredExec, DeadlockVictims
  <2> QED
    BY <1>0, <2>1, <2>2, <2>3, <2>4, <2>5, <2>6, <2>7, <2>8 DEF QueueInv
<1>5. ASSUME NEW w \in Workers, RecoverOnly(w)
      PROVE  QueueInv'
  <2>1. OneHolderPerJob'
    BY <1>0, <1>5 DEF QueueInv, TypeOK, OneHolderPerJob, RecoverOnly, Expired,
       RecoveredJob, RecoveredExec, DeadlockVictims
  <2>2. HeldJobIsOpen'
    BY <1>0, <1>5 DEF QueueInv, TypeOK, HeldJobIsOpen, RecoverOnly, Expired,
       RecoveredJob, RecoveredExec, DeadlockVictims
  <2>3. UnclaimedNotStarted'
    BY <1>0, <1>5 DEF QueueInv, TypeOK, UnclaimedNotStarted, RecoverOnly, Expired,
       RecoveredJob, RecoveredExec, DeadlockVictims
  <2>4. PlaceMatchesRow'
    BY <1>0, <1>5 DEF QueueInv, TypeOK, PlaceMatchesRow, RecoverOnly, Expired,
       RecoveredJob, RecoveredExec, DeadlockVictims
  <2>5. RunsAtMostOnce'
    BY <1>0, <1>5 DEF QueueInv, TypeOK, RunsAtMostOnce, RecoverOnly, Expired,
       RecoveredJob, RecoveredExec, DeadlockVictims
  <2>6. SectionHoldsLock'
    BY <1>0, <1>5 DEF QueueInv, TypeOK, SectionHoldsLock, InSection, HookAt,
       RecoverOnly, Expired, RecoveredJob, RecoveredExec, DeadlockVictims
  <2>7. JobMatchesExecution'
    BY <1>0, <1>5 DEF QueueInv, TypeOK, JobMatchesExecution, RecoverOnly, Expired,
       RecoveredJob, RecoveredExec, DeadlockVictims
  <2>8. EffectsAreSaved'
    BY <1>0, <1>5 DEF QueueInv, TypeOK, EffectsAreSaved, Saved, HookAt, RecoverOnly,
       Expired, RecoveredJob, RecoveredExec, DeadlockVictims
  <2> QED
    BY <1>0, <2>1, <2>2, <2>3, <2>4, <2>5, <2>6, <2>7, <2>8 DEF QueueInv
<1>6. ASSUME NEW w \in Workers, SelectExecution(w)
      PROVE  QueueInv'
  <2>0. cur[w] \in Execs /\ HookAt(w) \in Hooks
    BY <1>0, <1>6, HeldExec DEF SelectExecution
  <2>1. OneHolderPerJob'
    BY <1>0, <1>6 DEF QueueInv, TypeOK, OneHolderPerJob, SelectExecution, ToIdle, At
  <2>2. HeldJobIsOpen'
    BY <1>0, <1>6, <2>0 DEF QueueInv, TypeOK, HeldJobIsOpen, SelectExecution, ToIdle,
       At, PlaceMatchesRow
  <2>3. UnclaimedNotStarted'
    BY <1>0, <1>6 DEF QueueInv, TypeOK, UnclaimedNotStarted, SelectExecution, ToIdle, At
  <2>4. PlaceMatchesRow'
    BY <1>0, <1>6 DEF QueueInv, TypeOK, PlaceMatchesRow, SelectExecution, ToIdle, At
  <2>5. RunsAtMostOnce'
    BY <1>0, <1>6 DEF QueueInv, TypeOK, RunsAtMostOnce, SelectExecution, ToIdle, At
  <2>6. SectionHoldsLock'
    BY <1>0, <1>6 DEF QueueInv, TypeOK, SectionHoldsLock, InSection, HookAt,
       SelectExecution, ToIdle, At
  <2>7. JobMatchesExecution'
    BY <1>0, <1>6 DEF QueueInv, TypeOK, JobMatchesExecution, SelectExecution, ToIdle, At
  <2>8. EffectsAreSaved'
    BY <1>0, <1>6 DEF QueueInv, TypeOK, EffectsAreSaved, Saved, HookAt,
       SelectExecution, ToIdle, At
  <2> QED
    BY <1>0, <2>1, <2>2, <2>3, <2>4, <2>5, <2>6, <2>7, <2>8 DEF QueueInv
<1>7. ASSUME NEW w \in Workers, AcquireLock(w)
      PROVE  QueueInv'
  <2>1. OneHolderPerJob'
    BY <1>0, <1>7 DEF QueueInv, TypeOK, OneHolderPerJob, AcquireLock, LockFree, At
  <2>2. HeldJobIsOpen'
    BY <1>0, <1>7 DEF QueueInv, TypeOK, HeldJobIsOpen, AcquireLock, LockFree, At
  <2>3. UnclaimedNotStarted'
    BY <1>0, <1>7 DEF QueueInv, TypeOK, UnclaimedNotStarted, AcquireLock, LockFree, At
  <2>4. PlaceMatchesRow'
    BY <1>0, <1>7 DEF QueueInv, TypeOK, PlaceMatchesRow, AcquireLock, LockFree, At
  <2>5. RunsAtMostOnce'
    BY <1>0, <1>7 DEF QueueInv, TypeOK, RunsAtMostOnce, AcquireLock, LockFree, At
  <2>6. SectionHoldsLock'
    BY <1>0, <1>7 DEF QueueInv, TypeOK, SectionHoldsLock, InSection, HookAt,
       AcquireLock, LockFree, At
  <2>7. JobMatchesExecution'
    BY <1>0, <1>7 DEF QueueInv, TypeOK, JobMatchesExecution, AcquireLock, LockFree, At
  <2>8. EffectsAreSaved'
    BY <1>0, <1>7 DEF QueueInv, TypeOK, EffectsAreSaved, Saved, HookAt, AcquireLock,
       LockFree, At
  <2> QED
    BY <1>0, <2>1, <2>2, <2>3, <2>4, <2>5, <2>6, <2>7, <2>8 DEF QueueInv
<1>8. ASSUME NEW w \in Workers, LockRefused(w)
      PROVE  QueueInv'
  <2>1. OneHolderPerJob'
    BY <1>0, <1>8 DEF QueueInv, TypeOK, OneHolderPerJob, LockRefused, At
  <2>2. HeldJobIsOpen'
    BY <1>0, <1>8 DEF QueueInv, TypeOK, HeldJobIsOpen, LockRefused, At
  <2>3. UnclaimedNotStarted'
    BY <1>0, <1>8 DEF QueueInv, TypeOK, UnclaimedNotStarted, LockRefused, At
  <2>4. PlaceMatchesRow'
    BY <1>0, <1>8 DEF QueueInv, TypeOK, PlaceMatchesRow, LockRefused, At
  <2>5. RunsAtMostOnce'
    BY <1>0, <1>8 DEF QueueInv, TypeOK, RunsAtMostOnce, LockRefused, At
  <2>6. SectionHoldsLock'
    BY <1>0, <1>8 DEF QueueInv, TypeOK, SectionHoldsLock, InSection, HookAt, LockRefused, At
  <2>7. JobMatchesExecution'
    BY <1>0, <1>8 DEF QueueInv, TypeOK, JobMatchesExecution, LockRefused, At
  <2>8. EffectsAreSaved'
    BY <1>0, <1>8 DEF QueueInv, TypeOK, EffectsAreSaved, Saved, HookAt, LockRefused, At
  <2> QED
    BY <1>0, <2>1, <2>2, <2>3, <2>4, <2>5, <2>6, <2>7, <2>8 DEF QueueInv
<1>9. ASSUME NEW w \in Workers, StartChild(w)
      PROVE  QueueInv'
  <2>0. cur[w] \in Execs /\ HookAt(w) \in Hooks
    BY <1>0, <1>9, HeldExec DEF StartChild
  <2>1. OneHolderPerJob'
    BY <1>0, <1>9 DEF QueueInv, TypeOK, OneHolderPerJob, StartChild, LoadedState, At
  <2>2. HeldJobIsOpen'
    BY <1>0, <1>9 DEF QueueInv, TypeOK, HeldJobIsOpen, StartChild, LoadedState, At
  <2>3. UnclaimedNotStarted'
    BY <1>0, <1>9, <2>0 DEF QueueInv, TypeOK, UnclaimedNotStarted, StartChild,
       LoadedState, At, PlaceMatchesRow, HeldJobIsOpen
  <2>4. PlaceMatchesRow'
    BY <1>0, <1>9, <2>0 DEF QueueInv, TypeOK, PlaceMatchesRow, StartChild,
       LoadedState, At, OneHolderPerJob
  <2>5. RunsAtMostOnce'
    BY <1>0, <1>9, <2>0 DEF QueueInv, TypeOK, RunsAtMostOnce, StartChild, LoadedState,
       At, PlaceMatchesRow
  <2>6. SectionHoldsLock'
    BY <1>0, <1>9 DEF QueueInv, TypeOK, SectionHoldsLock, InSection, HookAt,
       StartChild, LoadedState, At
  <2>7. JobMatchesExecution'
    BY <1>0, <1>9, <2>0 DEF QueueInv, TypeOK, JobMatchesExecution, StartChild,
       LoadedState, At, HeldJobIsOpen
  <2>8. EffectsAreSaved'
    BY <1>0, <1>9, <2>0 DEF QueueInv, TypeOK, EffectsAreSaved, Saved, HookAt,
       StartChild, LoadedState, At, HeldJobIsOpen
  <2> QED
    BY <1>0, <2>1, <2>2, <2>3, <2>4, <2>5, <2>6, <2>7, <2>8 DEF QueueInv
<1>10. ASSUME NEW w \in Workers, InputUnavailable(w)
      PROVE  QueueInv'
  <2>1. OneHolderPerJob'
    BY <1>0, <1>10 DEF QueueInv, TypeOK, OneHolderPerJob, InputUnavailable, Unlocked, At
  <2>2. HeldJobIsOpen'
    BY <1>0, <1>10 DEF QueueInv, TypeOK, HeldJobIsOpen, InputUnavailable, Unlocked, At
  <2>3. UnclaimedNotStarted'
    BY <1>0, <1>10 DEF QueueInv, TypeOK, UnclaimedNotStarted, InputUnavailable, Unlocked, At
  <2>4. PlaceMatchesRow'
    BY <1>0, <1>10 DEF QueueInv, TypeOK, PlaceMatchesRow, InputUnavailable, Unlocked, At
  <2>5. RunsAtMostOnce'
    BY <1>0, <1>10 DEF QueueInv, TypeOK, RunsAtMostOnce, InputUnavailable, Unlocked, At
  <2>6. SectionHoldsLock'
    BY <1>0, <1>10 DEF QueueInv, TypeOK, SectionHoldsLock, InSection, HookAt,
       InputUnavailable, Unlocked, At
  <2>7. JobMatchesExecution'
    BY <1>0, <1>10 DEF QueueInv, TypeOK, JobMatchesExecution, InputUnavailable, Unlocked, At
  <2>8. EffectsAreSaved'
    BY <1>0, <1>10 DEF QueueInv, TypeOK, EffectsAreSaved, Saved, HookAt,
       InputUnavailable, Unlocked, At
  <2> QED
    BY <1>0, <2>1, <2>2, <2>3, <2>4, <2>5, <2>6, <2>7, <2>8 DEF QueueInv
<1>11. ASSUME NEW w \in Workers, NEW o \in Outcome, ChildEnds(w, o)
      PROVE  QueueInv'
  <2>1. OneHolderPerJob'
    BY <1>0, <1>11 DEF QueueInv, TypeOK, OneHolderPerJob, ChildEnds, Unlocked, At
  <2>2. HeldJobIsOpen'
    BY <1>0, <1>11 DEF QueueInv, TypeOK, HeldJobIsOpen, ChildEnds, Unlocked, At
  <2>3. UnclaimedNotStarted'
    BY <1>0, <1>11 DEF QueueInv, TypeOK, UnclaimedNotStarted, ChildEnds, Unlocked, At
  <2>4. PlaceMatchesRow'
    BY <1>0, <1>11 DEF QueueInv, TypeOK, PlaceMatchesRow, ChildEnds, Unlocked, At
  <2>5. RunsAtMostOnce'
    BY <1>0, <1>11 DEF QueueInv, TypeOK, RunsAtMostOnce, ChildEnds, Unlocked, At
  <2>6. SectionHoldsLock'
    BY <1>0, <1>11 DEF QueueInv, TypeOK, SectionHoldsLock, InSection, HookAt,
       ChildEnds, Unlocked, At
  <2>7. JobMatchesExecution'
    BY <1>0, <1>11 DEF QueueInv, TypeOK, JobMatchesExecution, ChildEnds, Unlocked, At
  <2>8. EffectsAreSaved'
    BY <1>0, <1>11 DEF QueueInv, TypeOK, EffectsAreSaved, Saved, HookAt, ChildEnds,
       Unlocked, At
  <2> QED
    BY <1>0, <2>1, <2>2, <2>3, <2>4, <2>5, <2>6, <2>7, <2>8 DEF QueueInv
<1>12. ASSUME NEW w \in Workers, FlushFails(w)
      PROVE  QueueInv'
  <2>1. OneHolderPerJob'
    BY <1>0, <1>12 DEF QueueInv, TypeOK, OneHolderPerJob, FlushFails, At
  <2>2. HeldJobIsOpen'
    BY <1>0, <1>12 DEF QueueInv, TypeOK, HeldJobIsOpen, FlushFails, At
  <2>3. UnclaimedNotStarted'
    BY <1>0, <1>12 DEF QueueInv, TypeOK, UnclaimedNotStarted, FlushFails, At
  <2>4. PlaceMatchesRow'
    BY <1>0, <1>12 DEF QueueInv, TypeOK, PlaceMatchesRow, FlushFails, At
  <2>5. RunsAtMostOnce'
    BY <1>0, <1>12 DEF QueueInv, TypeOK, RunsAtMostOnce, FlushFails, At
  <2>6. SectionHoldsLock'
    BY <1>0, <1>12 DEF QueueInv, TypeOK, SectionHoldsLock, InSection, HookAt, FlushFails, At
  <2>7. JobMatchesExecution'
    BY <1>0, <1>12 DEF QueueInv, TypeOK, JobMatchesExecution, FlushFails, At
  <2>8. EffectsAreSaved'
    BY <1>0, <1>12 DEF QueueInv, TypeOK, EffectsAreSaved, Saved, HookAt, FlushFails, At
  <2> QED
    BY <1>0, <2>1, <2>2, <2>3, <2>4, <2>5, <2>6, <2>7, <2>8 DEF QueueInv
<1>13. ASSUME NEW w \in Workers, CommitOutcome(w)
      PROVE  QueueInv'
  <2>0. cur[w] \in Execs /\ HookAt(w) \in Hooks
    BY <1>0, <1>13, HeldExec DEF CommitOutcome
  <2>1. OneHolderPerJob'
    BY <1>0, <1>13 DEF QueueInv, TypeOK, OneHolderPerJob, CommitOutcome, CommitRaises,
       SavedState, CompletedJob, ToIdle, At
  <2>2. HeldJobIsOpen'
    BY <1>0, <1>13, <2>0 DEF QueueInv, TypeOK, HeldJobIsOpen, CommitOutcome,
       CommitRaises, SavedState, CompletedJob, ToIdle, At, OneHolderPerJob
  <2>3. UnclaimedNotStarted'
    BY <1>0, <1>13 DEF QueueInv, TypeOK, UnclaimedNotStarted, CommitOutcome,
       CommitRaises, SavedState, CompletedJob, ToIdle, At
  <2>4. PlaceMatchesRow'
    BY <1>0, <1>13, <2>0 DEF QueueInv, TypeOK, PlaceMatchesRow, CommitOutcome,
       CommitRaises, SavedState, CompletedJob, ToIdle, At, OneHolderPerJob
  <2>5. RunsAtMostOnce'
    BY <1>0, <1>13 DEF QueueInv, TypeOK, RunsAtMostOnce, CommitOutcome, CommitRaises,
       SavedState, CompletedJob, ToIdle, At
  <2>6. SectionHoldsLock'
    BY <1>0, <1>13 DEF QueueInv, TypeOK, SectionHoldsLock, InSection, HookAt,
       CommitOutcome, CommitRaises, SavedState, CompletedJob, ToIdle, At
  <2>7. JobMatchesExecution'
    BY <1>0, <1>13 DEF QueueInv, TypeOK, JobMatchesExecution, CommitOutcome,
       CommitRaises, SavedState, CompletedJob, ToIdle, At
  <2>8. EffectsAreSaved'
    BY <1>0, <1>13, <2>0 DEF QueueInv, TypeOK, EffectsAreSaved, Saved, HookAt,
       CommitOutcome, CommitRaises, SavedState, CompletedJob, ToIdle, At,
       HeldJobIsOpen, JobMatchesExecution, OneHolderPerJob
  <2> QED
    BY <1>0, <2>1, <2>2, <2>3, <2>4, <2>5, <2>6, <2>7, <2>8 DEF QueueInv
<1>14. ASSUME NEW w \in Workers, CommitFails(w)
      PROVE  QueueInv'
  <2>1. OneHolderPerJob'
    BY <1>0, <1>14 DEF QueueInv, TypeOK, OneHolderPerJob, CommitFails, At
  <2>2. HeldJobIsOpen'
    BY <1>0, <1>14 DEF QueueInv, TypeOK, HeldJobIsOpen, CommitFails, At
  <2>3. UnclaimedNotStarted'
    BY <1>0, <1>14 DEF QueueInv, TypeOK, UnclaimedNotStarted, CommitFails, At
  <2>4. PlaceMatchesRow'
    BY <1>0, <1>14 DEF QueueInv, TypeOK, PlaceMatchesRow, CommitFails, At
  <2>5. RunsAtMostOnce'
    BY <1>0, <1>14 DEF QueueInv, TypeOK, RunsAtMostOnce, CommitFails, At
  <2>6. SectionHoldsLock'
    BY <1>0, <1>14 DEF QueueInv, TypeOK, SectionHoldsLock, InSection, HookAt,
       CommitFails, At
  <2>7. JobMatchesExecution'
    BY <1>0, <1>14 DEF QueueInv, TypeOK, JobMatchesExecution, CommitFails, At
  <2>8. EffectsAreSaved'
    BY <1>0, <1>14 DEF QueueInv, TypeOK, EffectsAreSaved, Saved, HookAt, CommitFails, At
  <2> QED
    BY <1>0, <2>1, <2>2, <2>3, <2>4, <2>5, <2>6, <2>7, <2>8 DEF QueueInv
<1>15. ASSUME NEW w \in Workers, HandleError(w)
      PROVE  QueueInv'
  <2>0. cur[w] \in Execs /\ HookAt(w) \in Hooks
    BY <1>0, <1>15, HeldExec DEF HandleError
  <2>1. OneHolderPerJob'
    BY <1>0, <1>15 DEF QueueInv, TypeOK, OneHolderPerJob, HandleError, ToIdle, At
  <2>2. HeldJobIsOpen'
    BY <1>0, <1>15 DEF QueueInv, TypeOK, HeldJobIsOpen, HandleError, ToIdle, At
  <2>3. UnclaimedNotStarted'
    BY <1>0, <1>15 DEF QueueInv, TypeOK, UnclaimedNotStarted, HandleError, ToIdle, At
  <2>4. PlaceMatchesRow'
    BY <1>0, <1>15, <2>0 DEF QueueInv, TypeOK, PlaceMatchesRow, HandleError, ToIdle,
       At, OneHolderPerJob
  <2>5. RunsAtMostOnce'
    BY <1>0, <1>15 DEF QueueInv, TypeOK, RunsAtMostOnce, HandleError, ToIdle, At
  <2>6. SectionHoldsLock'
    BY <1>0, <1>15 DEF QueueInv, TypeOK, SectionHoldsLock, InSection, HookAt,
       HandleError, ToIdle, At
  <2>7. JobMatchesExecution'
    BY <1>0, <1>15, <2>0 DEF QueueInv, TypeOK, JobMatchesExecution, HandleError,
       ToIdle, At, HeldJobIsOpen
  <2>8. EffectsAreSaved'
    BY <1>0, <1>15, <2>0 DEF QueueInv, TypeOK, EffectsAreSaved, Saved, HookAt,
       HandleError, ToIdle, At, HeldJobIsOpen
  <2> QED
    BY <1>0, <2>1, <2>2, <2>3, <2>4, <2>5, <2>6, <2>7, <2>8 DEF QueueInv
<1>16. ASSUME NEW w \in Workers, Crash(w)
      PROVE  QueueInv'
  <2>1. OneHolderPerJob'
    BY <1>0, <1>16 DEF QueueInv, TypeOK, OneHolderPerJob, Crash, LocksAfterClose, ToIdle, At
  <2>2. HeldJobIsOpen'
    BY <1>0, <1>16 DEF QueueInv, TypeOK, HeldJobIsOpen, Crash, LocksAfterClose, ToIdle, At
  <2>3. UnclaimedNotStarted'
    BY <1>0, <1>16 DEF QueueInv, TypeOK, UnclaimedNotStarted, Crash, LocksAfterClose,
       ToIdle, At
  <2>4. PlaceMatchesRow'
    BY <1>0, <1>16 DEF QueueInv, TypeOK, PlaceMatchesRow, Crash, LocksAfterClose, ToIdle, At
  <2>5. RunsAtMostOnce'
    BY <1>0, <1>16 DEF QueueInv, TypeOK, RunsAtMostOnce, Crash, LocksAfterClose, ToIdle, At
  <2>6. SectionHoldsLock'
    <3> SUFFICES ASSUME NEW x \in Workers, InSection(x)' PROVE (lock[HookAt(x)] = x)'
      BY DEF SectionHoldsLock
    <3>1. x # w /\ pc'[x] = pc[x] /\ cur'[x] = cur[x]
      BY <1>0, <1>16 DEF TypeOK, InSection, Crash, ToIdle, At
    <3>2. InSection(x) /\ HookAt(x) \in Hooks /\ lock[HookAt(x)] = x
      BY <1>0, <3>1, HeldExec DEF QueueInv, SectionHoldsLock, InSection
    <3> QED
      BY <1>16, <3>1, <3>2 DEF Crash, LocksAfterClose, HookAt
  <2>7. JobMatchesExecution'
    BY <1>0, <1>16 DEF QueueInv, TypeOK, JobMatchesExecution, Crash, LocksAfterClose,
       ToIdle, At
  <2>8. EffectsAreSaved'
    BY <1>0, <1>16 DEF QueueInv, TypeOK, EffectsAreSaved, Saved, HookAt, Crash,
       LocksAfterClose, ToIdle, At
  <2> QED
    BY <1>0, <2>1, <2>2, <2>3, <2>4, <2>5, <2>6, <2>7, <2>8 DEF QueueInv
<1>17. CASE Tick
  <2>1. OneHolderPerJob'
    BY <1>0, <1>17 DEF QueueInv, TypeOK, OneHolderPerJob, Tick
  <2>2. HeldJobIsOpen'
    BY <1>0, <1>17 DEF QueueInv, TypeOK, HeldJobIsOpen, Tick
  <2>3. UnclaimedNotStarted'
    BY <1>0, <1>17 DEF QueueInv, TypeOK, UnclaimedNotStarted, Tick
  <2>4. PlaceMatchesRow'
    BY <1>0, <1>17 DEF QueueInv, TypeOK, PlaceMatchesRow, Tick
  <2>5. RunsAtMostOnce'
    BY <1>0, <1>17 DEF QueueInv, TypeOK, RunsAtMostOnce, Tick
  <2>6. SectionHoldsLock'
    BY <1>0, <1>17 DEF QueueInv, TypeOK, SectionHoldsLock, InSection, HookAt, Tick
  <2>7. JobMatchesExecution'
    BY <1>0, <1>17 DEF QueueInv, TypeOK, JobMatchesExecution, Tick
  <2>8. EffectsAreSaved'
    BY <1>0, <1>17 DEF QueueInv, TypeOK, EffectsAreSaved, Saved, HookAt, Tick
  <2> QED
    BY <1>0, <2>1, <2>2, <2>3, <2>4, <2>5, <2>6, <2>7, <2>8 DEF QueueInv
<1>18. CASE UNCHANGED vars
  <2>1. OneHolderPerJob'
    BY <1>0, <1>18 DEF QueueInv, TypeOK, OneHolderPerJob, vars
  <2>2. HeldJobIsOpen'
    BY <1>0, <1>18 DEF QueueInv, TypeOK, HeldJobIsOpen, vars
  <2>3. UnclaimedNotStarted'
    BY <1>0, <1>18 DEF QueueInv, TypeOK, UnclaimedNotStarted, vars
  <2>4. PlaceMatchesRow'
    BY <1>0, <1>18 DEF QueueInv, TypeOK, PlaceMatchesRow, vars
  <2>5. RunsAtMostOnce'
    BY <1>0, <1>18 DEF QueueInv, TypeOK, RunsAtMostOnce, vars
  <2>6. SectionHoldsLock'
    BY <1>0, <1>18 DEF QueueInv, TypeOK, SectionHoldsLock, InSection, HookAt, vars
  <2>7. JobMatchesExecution'
    BY <1>0, <1>18 DEF QueueInv, TypeOK, JobMatchesExecution, vars
  <2>8. EffectsAreSaved'
    BY <1>0, <1>18 DEF QueueInv, TypeOK, EffectsAreSaved, Saved, HookAt, vars
  <2> QED
    BY <1>0, <2>1, <2>2, <2>3, <2>4, <2>5, <2>6, <2>7, <2>8 DEF QueueInv
<1>19. ASSUME NEW w \in Workers, Step(w) \/ Crash(w) PROVE QueueInv'
  BY <1>4, <1>5, <1>6, <1>7, <1>8, <1>9, <1>10, <1>11, <1>12, <1>13, <1>14, <1>15,
     <1>16, <1>19 DEF Step
<1>20. ASSUME NEW d \in Execs, RetryExecution(d) PROVE QueueInv'
  <2>1. hookOf[d] \in Hooks /\ vehOf[d] \in Vehicles
    BY <1>0 DEF TypeOK
  <2> QED
    BY <1>1, <1>20, <2>1 DEF RetryExecution
<1> QED
  BY <1>1, <1>2, <1>3, <1>17, <1>18, <1>19, <1>20 DEF Next, QueueExecution

LEMMA QueueInvInit == Init => QueueInv
<1> SUFFICES ASSUME Init PROVE QueueInv
  OBVIOUS
<1>1. TypeOK
  BY TypeInit
<1> QED
  BY <1>1, QueueAssumption
     DEF Init, QueueInv, OneHolderPerJob, HeldJobIsOpen, UnclaimedNotStarted,
         PlaceMatchesRow, RunsAtMostOnce, SectionHoldsLock, InSection,
         JobMatchesExecution, EffectsAreSaved

\* The inductive invariant holds in every reachable state.
THEOREM QueueInvariant == Spec => []QueueInv
  BY QueueInvInit, QueueInvStep, PTL DEF Spec

----------------------------------------------------------------------------
(* What follows from the invariant.                                        *)

\* "Hooks execute once by default": whatever crashes, expires, is retried or
\* deleted, no execution starts a second child.
THEOREM AtMostOnce == Spec => []RunsAtMostOnce
<1>1. QueueInv => RunsAtMostOnce
  BY DEF QueueInv
<1> QED
  BY <1>1, QueueInvariant, PTL

\* Holding the lock of one's section makes the sections of one hook exclusive.
THEOREM ChildrenExclude == Spec => []OneChildPerHook
<1>1. QueueInv => OneChildPerHook
  BY DEF QueueInv, SectionHoldsLock, OneChildPerHook
<1> QED
  BY <1>1, QueueInvariant, PTL

\* A hook's state carries effects of recorded or deleted successes only.
THEOREM NoTraceOfFailure == Spec => []NoPhantomEffect
<1>1. QueueInv => NoPhantomEffect
  BY DEF QueueInv, EffectsAreSaved, Saved, NoPhantomEffect
<1> QED
  BY <1>1, QueueInvariant, PTL

\* The rows of a job and of its execution agree.
THEOREM RowsAgree == Spec => []JobMatchesExecution
<1>1. QueueInv => JobMatchesExecution
  BY DEF QueueInv
<1> QED
  BY <1>1, QueueInvariant, PTL

\* No step takes a recorded success back other than by deleting the execution.
LEMMA SuccessStep ==
  ASSUME QueueInv, [Next]_vars, NEW e \in Execs, exec[e] = "success"
  PROVE  exec'[e] \in {"success", "absent"}
<1>0. TypeOK
  BY DEF QueueInv
<1>1. ASSUME NEW d \in Execs, NEW h \in Hooks, NEW v \in Vehicles, Enqueue(d, h, v)
      PROVE  exec'[e] \in {"success", "absent"}
  BY <1>0, <1>1 DEF QueueInv, TypeOK, UnclaimedNotStarted, Enqueue
<1>2. ASSUME NEW d \in Execs, RetryExecution(d) PROVE exec'[e] \in {"success", "absent"}
  <2>1. hookOf[d] \in Hooks /\ vehOf[d] \in Vehicles
    BY <1>0 DEF TypeOK
  <2> QED
    BY <1>1, <1>2, <2>1 DEF RetryExecution
<1>3. ASSUME NEW h \in Hooks, DeleteHook(h) PROVE exec'[e] \in {"success", "absent"}
  BY <1>3 DEF DeleteHook, Cascade
<1>4. ASSUME NEW v \in Vehicles, ClearTelemetry(v) PROVE exec'[e] \in {"success", "absent"}
  BY <1>4 DEF ClearTelemetry, Cascade
<1>5. ASSUME NEW w \in Workers, NEW d \in Execs, ClaimJob(w, d) \/ RecoverOnly(w)
      PROVE  exec'[e] \in {"success", "absent"}
  BY <1>5 DEF ClaimJob, RecoverOnly, RecoveredExec
<1>6. ASSUME NEW w \in Workers, StartChild(w) \/ CommitOutcome(w) \/ HandleError(w)
      PROVE  exec'[e] \in {"success", "absent"}
  <2>1. pc[w] # "idle"
    BY <1>6 DEF StartChild, CommitOutcome, HandleError
  <2>2. cur[w] # e
    BY <2>1 DEF QueueInv, HeldJobIsOpen, JobMatchesExecution
  <2> QED
    BY <1>0, <1>6, <2>2 DEF TypeOK, StartChild, CommitOutcome, HandleError
<1>7. ASSUME NEW w \in Workers,
             \/ SelectExecution(w) \/ AcquireLock(w) \/ LockRefused(w)
             \/ InputUnavailable(w) \/ FlushFails(w) \/ CommitFails(w) \/ Crash(w)
             \/ \E o \in Outcome : ChildEnds(w, o)
      PROVE  exec' = exec
  BY <1>7 DEF SelectExecution, AcquireLock, LockRefused, InputUnavailable, FlushFails,
              CommitFails, Crash, ChildEnds, execVars
<1>8. CASE Tick \/ UNCHANGED vars
  BY <1>8 DEF Tick, vars, execVars
<1>9. ASSUME NEW w \in Workers, RecoverOnly(w) PROVE exec'[e] \in {"success", "absent"}
  BY <1>5, <1>9
<1>10. ASSUME NEW w \in Workers, Step(w) \/ Crash(w)
       PROVE  exec'[e] \in {"success", "absent"}
  BY <1>5, <1>6, <1>7, <1>9, <1>10 DEF Step
<1> QED
  BY <1>1, <1>2, <1>3, <1>4, <1>8, <1>10 DEF Next, QueueExecution

\* A recorded success stands, whatever recovery, retries and late workers do.
THEOREM SuccessStands == Spec => SuccessIsFinal
<1>1. QueueInv /\ [Next]_vars =>
        \A e \in Execs : exec[e] = "success" => exec'[e] \in {"success", "absent"}
  BY SuccessStep
<1> QED
  BY <1>1, QueueInvariant, PTL DEF Spec, SuccessIsFinal

----------------------------------------------------------------------------
(* The queue implements the ledger.                                        *)

Queued  == {e \in Execs : job[e] # "absent"}
Gone    == {e \in Execs : job[e] # "absent" /\ exec[e] = "absent"}
Success == {e \in Execs : exec[e] = "success"}

\* Steps that the ledger does not see.
LEMMA LedgerStutter ==
  ASSUME \A e \in Execs : job'[e] = "absent" <=> job[e] = "absent",
         \A e \in Execs : job[e] # "absent" =>
                            (exec'[e] = "absent" <=> exec[e] = "absent"),
         \A e \in Execs : exec'[e] = "success" <=> exec[e] = "success",
         runs' = runs
  PROVE  UNCHANGED Ledger!vars
  BY DEF Ledger!vars

\* An insertion queues, a cascade deletes.
LEMMA LedgerQueue ==
  ASSUME QueueInv, NEW e \in Execs, NEW h \in Hooks, NEW v \in Vehicles, Enqueue(e, h, v)
  PROVE  Ledger!Queue(e)
<1>1. Queued' = Queued \cup {e} /\ e \notin Queued
  BY DEF QueueInv, TypeOK, Enqueue, Queued
<1>2. Gone' = Gone
  BY DEF QueueInv, TypeOK, Enqueue, Gone
<1>3. Success' = Success /\ runs' = runs
  BY DEF QueueInv, TypeOK, UnclaimedNotStarted, Enqueue, Success
<1> QED
  BY <1>1, <1>2, <1>3 DEF Ledger!Queue, Queued, Gone, Success

LEMMA LedgerDelete ==
  ASSUME TypeOK, NEW S \in SUBSET Execs, S \subseteq Queued, Cascade(S), job' = job, runs' = runs
  PROVE  Ledger!Delete(S)
<1>1. Queued' = Queued
  BY DEF Queued
<1>2. Gone' = Gone \cup S
  BY DEF Gone, Queued, Cascade
<1>3. Success' = Success \ S
  BY DEF Success, Cascade
<1> QED
  BY <1>1, <1>2, <1>3 DEF Ledger!Delete, Queued, Gone, Success

LEMMA LedgerStart ==
  ASSUME QueueInv, NEW w \in Workers, NEW e \in Execs, e = cur[w], StartChild(w)
  PROVE  Ledger!Start(e)
<1>0. TypeOK
  BY DEF QueueInv
<1>1. exec[e] = "pending" /\ runs[e] = 0 /\ job[e] # "absent"
  BY DEF QueueInv, PlaceMatchesRow, HeldJobIsOpen, StartChild
<1>2. Queued' = Queued /\ Gone' = Gone /\ Success' = Success
  BY <1>0, <1>1 DEF TypeOK, Queued, Gone, Success, StartChild, jobVars
<1>3. runs' = [runs EXCEPT ![e] = 1]
  BY <1>0, <1>1 DEF StartChild
<1>4. e \in Queued \ Gone
  BY <1>0, <1>1 DEF Queued, Gone
<1> QED
  BY <1>1, <1>2, <1>3, <1>4 DEF Ledger!Start, Queued, Gone, Success

LEMMA LedgerCommit ==
  ASSUME QueueInv, NEW w \in Workers, NEW e \in Execs, e = cur[w], CommitOutcome(w)
  PROVE  Ledger!Save(e) \/ UNCHANGED Ledger!vars
<1>0. TypeOK
  BY DEF QueueInv
<1>1. exec[e] \notin {"absent", "success"} /\ runs[e] = 1 /\ job[e] # "absent"
  <2>1. pc[w] = "commit" /\ exec[e] # "absent"
    BY DEF CommitOutcome, CommitRaises
  <2>2. runs[e] = 1 /\ job[e] \in {"running", "failed"}
    BY <2>1 DEF QueueInv, PlaceMatchesRow, HeldJobIsOpen
  <2> QED
    BY <1>0, <2>1, <2>2 DEF QueueInv, JobMatchesExecution
<1>2. exec' = [exec EXCEPT ![e] = result[w]] /\ job' = [job EXCEPT ![e] = "completed"]
      /\ runs' = runs /\ result[w] \in Outcome
  BY <1>0 DEF CommitOutcome, CompletedJob, TypeOK
<1>3. Queued' = Queued /\ Gone' = Gone
  BY <1>0, <1>1, <1>2 DEF TypeOK, Queued, Gone, Outcome
<1>4. CASE result[w] = "success"
  <2>1. Success' = Success \cup {e} /\ e \notin Success
    BY <1>0, <1>1, <1>2, <1>4 DEF TypeOK, Success
  <2>2. e \notin Gone
    BY <1>1 DEF Gone
  <2> QED
    BY <1>1, <1>2, <1>3, <2>1, <2>2 DEF Ledger!Save, Queued, Gone, Success
<1>5. CASE result[w] # "success"
  <2>1. Success' = Success
    BY <1>0, <1>1, <1>2, <1>5 DEF TypeOK, Success
  <2> QED
    BY <1>2, <1>3, <2>1 DEF Ledger!vars, Queued, Gone, Success
<1> QED
  BY <1>4, <1>5

\* Recovery and claims only move jobs and executions between states that the
\* ledger does not tell apart.
LEMMA LedgerClaim ==
  ASSUME QueueInv, NEW w \in Workers, NEW e \in Execs, ClaimJob(w, e) \/ RecoverOnly(w)
  PROVE  UNCHANGED Ledger!vars
<1>0. TypeOK /\ runs' = runs
  BY DEF QueueInv, ClaimJob, RecoverOnly
<1>1. \A d \in Execs : exec'[d] = RecoveredExec(d)
  BY DEF ClaimJob, RecoverOnly
<1>2. \A d \in Execs : job'[d] = "absent" <=> job[d] = "absent"
  BY DEF ClaimJob, RecoverOnly, Oldest, Claimable, Expired, RecoveredJob
<1> QED
  BY <1>0, <1>1, <1>2, LedgerStutter DEF RecoveredExec

LEMMA LedgerError ==
  ASSUME QueueInv, NEW w \in Workers, HandleError(w) \/ SelectExecution(w)
  PROVE  UNCHANGED Ledger!vars
<1>0. cur[w] \in Execs /\ TypeOK /\ runs' = runs
  BY HeldExec DEF QueueInv, HandleError, SelectExecution
<1>1. job[cur[w]] # "absent"
  BY DEF QueueInv, HeldJobIsOpen, HandleError, SelectExecution
<1>2. \A d \in Execs : job'[d] = "absent" <=> job[d] = "absent"
  BY <1>0, <1>1 DEF TypeOK, HandleError, SelectExecution, jobVars
<1>3. \A d \in Execs : exec'[d] = exec[d] \/ (exec[d] \in {"pending", "running"} /\ exec'[d] = "failed")
  <2>1. CASE SelectExecution(w)
    <3>1. exec' = exec
      BY <2>1 DEF SelectExecution, execVars
    <3> QED
      BY <3>1
  <2>2. CASE HandleError(w)
    BY <1>0, <2>2 DEF TypeOK, HandleError
  <2> QED
    BY <2>1, <2>2
<1>4. \A d \in Execs : job[d] # "absent" => (exec'[d] = "absent" <=> exec[d] = "absent")
  BY <1>3
<1>5. \A d \in Execs : exec'[d] = "success" <=> exec[d] = "success"
  BY <1>3
<1> QED
  BY ONLY <1>0, <1>2, <1>4, <1>5, LedgerStutter

LEMMA LedgerInit == Init => Ledger!Init
  BY DEF Init, Ledger!Init

LEMMA LedgerStep ==
  ASSUME QueueInv, [Next]_vars
  PROVE  [Ledger!Next]_(Ledger!vars)
<1>0. TypeOK
  BY DEF QueueInv
<1>1. ASSUME NEW e \in Execs, NEW h \in Hooks, NEW v \in Vehicles, Enqueue(e, h, v)
      PROVE  Ledger!Next
  BY <1>1, LedgerQueue DEF Ledger!Next
<1>2. ASSUME NEW d \in Execs, RetryExecution(d) PROVE Ledger!Next
  <2>1. hookOf[d] \in Hooks /\ vehOf[d] \in Vehicles
    BY <1>0 DEF TypeOK
  <2> QED
    BY <1>1, <1>2, <2>1 DEF RetryExecution
<1>3. ASSUME NEW h \in Hooks, DeleteHook(h) PROVE Ledger!Next
  <2>1. PICK S \in SUBSET Execs : S = {e \in Execs : job[e] # "absent" /\ hookOf[e] = h}
    OBVIOUS
  <2>2. Cascade(S) /\ S \subseteq Queued /\ job' = job /\ runs' = runs
    BY <1>3, <2>1 DEF DeleteHook, Queued
  <2>3. Ledger!Delete(S)
    BY <1>0, <2>2, LedgerDelete
  <2> QED
    BY <2>3 DEF Ledger!Next
<1>4. ASSUME NEW v \in Vehicles, ClearTelemetry(v) PROVE Ledger!Next
  <2>1. PICK S \in SUBSET Execs : S = {e \in Execs : job[e] # "absent" /\ vehOf[e] = v}
    OBVIOUS
  <2>2. Cascade(S) /\ S \subseteq Queued /\ job' = job /\ runs' = runs
    BY <1>4, <2>1 DEF ClearTelemetry, jobVars, Queued
  <2>3. Ledger!Delete(S)
    BY <1>0, <2>2, LedgerDelete
  <2> QED
    BY <2>3 DEF Ledger!Next
<1>5. ASSUME NEW w \in Workers, NEW e \in Execs, ClaimJob(w, e)
      PROVE  UNCHANGED Ledger!vars
  BY <1>5, LedgerClaim
<1>6. ASSUME NEW w \in Workers, RecoverOnly(w) PROVE UNCHANGED Ledger!vars
  <2>1. PICK e \in Execs : e \in Expired
    BY <1>6 DEF RecoverOnly, Expired
  <2> QED
    BY <1>6, <2>1, LedgerClaim
<1>7. ASSUME NEW w \in Workers, StartChild(w) PROVE Ledger!Next
  <2>1. PICK e \in Execs : e = cur[w]
    BY <1>0, <1>7, HeldExec DEF StartChild
  <2> QED
    BY <1>7, <2>1, LedgerStart DEF Ledger!Next
<1>8. ASSUME NEW w \in Workers, CommitOutcome(w) PROVE [Ledger!Next]_(Ledger!vars)
  <2>1. PICK e \in Execs : e = cur[w]
    BY <1>0, <1>8, HeldExec DEF CommitOutcome
  <2> QED
    BY <1>8, <2>1, LedgerCommit DEF Ledger!Next
<1>9. ASSUME NEW w \in Workers, HandleError(w) \/ SelectExecution(w)
      PROVE  UNCHANGED Ledger!vars
  BY <1>9, LedgerError
<1>10. ASSUME NEW w \in Workers,
              \/ AcquireLock(w) \/ LockRefused(w) \/ InputUnavailable(w)
              \/ FlushFails(w) \/ CommitFails(w) \/ Crash(w)
              \/ \E o \in Outcome : ChildEnds(w, o)
       PROVE  UNCHANGED Ledger!vars
  <2>1. job' = job /\ exec' = exec /\ runs' = runs
    BY <1>10 DEF AcquireLock, LockRefused, InputUnavailable, FlushFails, CommitFails,
                 Crash, ChildEnds, jobVars, execVars
  <2> QED
    BY <2>1, LedgerStutter
<1>11. CASE Tick \/ UNCHANGED vars
  <2>1. job' = job /\ exec' = exec /\ runs' = runs
    BY <1>11 DEF Tick, vars, execVars
  <2> QED
    BY <2>1, LedgerStutter
<1>12. ASSUME NEW w \in Workers, Step(w) \/ Crash(w) PROVE [Ledger!Next]_(Ledger!vars)
  BY <1>5, <1>6, <1>7, <1>8, <1>9, <1>10, <1>12 DEF Step
<1> QED
  BY <1>1, <1>2, <1>3, <1>4, <1>11, <1>12 DEF Next, QueueExecution

\* Workers, jobs, leases, locks, crashes and deletions implement the ledger: an
\* execution is queued, starts at most once and is saved at most once.
THEOREM QueueImplementsLedger == Spec => LedgerHolds
<1>1. QueueInv /\ [Next]_vars => [Ledger!Next]_(Ledger!vars)
  BY LedgerStep
<1> QED
  BY <1>1, LedgerInit, QueueInvariant, PTL DEF Spec, LedgerHolds, Ledger!Spec

----------------------------------------------------------------------------
(* One worker alone.                                                       *)

\* With one worker the input of a child is still current when it commits.
LEMMA AloneStep ==
  ASSUME \A v, w \in Workers : v = w, AloneInv, [Next]_vars
  PROVE  NoLostUpdate' /\ InputIsCurrent'
<1>0. TypeOK /\ HeldJobIsOpen /\ JobMatchesExecution /\ UnclaimedNotStarted
  BY DEF AloneInv, QueueInv
<1>1. ASSUME NEW e \in Execs, NEW h \in Hooks, NEW v \in Vehicles, Enqueue(e, h, v)
      PROVE  NoLostUpdate' /\ InputIsCurrent'
  <2>1. NoLostUpdate'
    BY <1>0, <1>1 DEF AloneInv, TypeOK, NoLostUpdate, InputIsCurrent, HookAt,
       HeldJobIsOpen, JobMatchesExecution, UnclaimedNotStarted, Enqueue, workerVars
  <2>2. InputIsCurrent'
    BY <1>0, <1>1 DEF AloneInv, TypeOK, NoLostUpdate, InputIsCurrent, HookAt,
       HeldJobIsOpen, JobMatchesExecution, UnclaimedNotStarted, Enqueue, workerVars
  <2> QED
    BY <2>1, <2>2
<1>2. ASSUME NEW h \in Hooks, DeleteHook(h)
      PROVE  NoLostUpdate' /\ InputIsCurrent'
  <2>1. ASSUME NEW e \in Execs, exec'[e] = "success"
        PROVE  exec[e] = "success" /\ hookOf[e] # h
    BY <1>0, <1>2, <2>1 DEF JobMatchesExecution, DeleteHook, Cascade
  <2>2. /\ hookOf' = hookOf /\ state' = [state EXCEPT ![h] = {}]
        /\ pc' = pc /\ cur' = cur /\ input' = input
    BY <1>2 DEF DeleteHook, workerVars
  <2>3. NoLostUpdate'
    BY <1>0, <2>1, <2>2 DEF AloneInv, TypeOK, NoLostUpdate
  <2>4. InputIsCurrent'
    BY <2>1, <2>2 DEF AloneInv, InputIsCurrent, HookAt
  <2> QED
    BY <2>3, <2>4
<1>3. ASSUME NEW v \in Vehicles, ClearTelemetry(v)
      PROVE  NoLostUpdate' /\ InputIsCurrent'
  BY <1>0, <1>3 DEF AloneInv, TypeOK, NoLostUpdate, InputIsCurrent, HookAt,
     HeldJobIsOpen, ClearTelemetry, Cascade, workerVars
<1>4. ASSUME NEW w \in Workers, NEW e \in Execs, ClaimJob(w, e)
      PROVE  NoLostUpdate' /\ InputIsCurrent'
  <2>1. NoLostUpdate'
    BY <1>0, <1>4 DEF AloneInv, TypeOK, NoLostUpdate, InputIsCurrent, HookAt,
       HeldJobIsOpen, JobMatchesExecution, UnclaimedNotStarted, ClaimJob,
       RecoveredExec, DeadlockVictims, childVars
  <2>2. InputIsCurrent'
    BY <1>0, <1>4 DEF AloneInv, TypeOK, NoLostUpdate, InputIsCurrent, HookAt,
       HeldJobIsOpen, JobMatchesExecution, UnclaimedNotStarted, ClaimJob,
       RecoveredExec, DeadlockVictims, childVars
  <2> QED
    BY <2>1, <2>2
<1>5. ASSUME NEW w \in Workers, RecoverOnly(w)
      PROVE  NoLostUpdate' /\ InputIsCurrent'
  <2>1. NoLostUpdate'
    BY <1>0, <1>5 DEF AloneInv, TypeOK, NoLostUpdate, InputIsCurrent, HookAt,
       HeldJobIsOpen, JobMatchesExecution, UnclaimedNotStarted, RecoverOnly,
       RecoveredExec, DeadlockVictims, childVars
  <2>2. InputIsCurrent'
    BY <1>0, <1>5 DEF AloneInv, TypeOK, NoLostUpdate, InputIsCurrent, HookAt,
       HeldJobIsOpen, JobMatchesExecution, UnclaimedNotStarted, RecoverOnly,
       RecoveredExec, DeadlockVictims, childVars
  <2> QED
    BY <2>1, <2>2
<1>6. ASSUME NEW w \in Workers, SelectExecution(w)
      PROVE  NoLostUpdate' /\ InputIsCurrent'
  <2>1. NoLostUpdate'
    BY <1>0, <1>6 DEF AloneInv, TypeOK, NoLostUpdate, InputIsCurrent, HookAt,
       HeldJobIsOpen, JobMatchesExecution, UnclaimedNotStarted, SelectExecution,
       execVars, ToIdle, At, childVars
  <2>2. InputIsCurrent'
    BY <1>0, <1>6 DEF AloneInv, TypeOK, NoLostUpdate, InputIsCurrent, HookAt,
       HeldJobIsOpen, JobMatchesExecution, UnclaimedNotStarted, SelectExecution,
       execVars, ToIdle, At, childVars
  <2> QED
    BY <2>1, <2>2
<1>7. ASSUME NEW w \in Workers, AcquireLock(w)
      PROVE  NoLostUpdate' /\ InputIsCurrent'
  BY <1>0, <1>7 DEF AloneInv, TypeOK, NoLostUpdate, InputIsCurrent, HookAt,
     HeldJobIsOpen, AcquireLock, execVars, At, childVars
<1>8. ASSUME NEW w \in Workers, LockRefused(w)
      PROVE  NoLostUpdate' /\ InputIsCurrent'
  BY <1>0, <1>8 DEF AloneInv, TypeOK, NoLostUpdate, InputIsCurrent, HookAt,
     HeldJobIsOpen, LockRefused, execVars, At, childVars
<1>9. ASSUME NEW w \in Workers, StartChild(w)
      PROVE  NoLostUpdate' /\ InputIsCurrent'
  <2>0. cur[w] \in Execs /\ HookAt(w) \in Hooks
    BY <1>0, <1>9, HeldExec DEF StartChild
  <2>1. NoLostUpdate'
    BY <1>0, <1>9, <2>0 DEF AloneInv, TypeOK, NoLostUpdate, InputIsCurrent, HookAt,
       HeldJobIsOpen, JobMatchesExecution, UnclaimedNotStarted, StartChild,
       LoadedState, At
  <2>2. InputIsCurrent'
    BY <1>0, <1>9, <2>0 DEF AloneInv, TypeOK, NoLostUpdate, InputIsCurrent, HookAt,
       HeldJobIsOpen, JobMatchesExecution, UnclaimedNotStarted, StartChild,
       LoadedState, At
  <2> QED
    BY <2>1, <2>2
<1>10. ASSUME NEW w \in Workers, InputUnavailable(w)
      PROVE  NoLostUpdate' /\ InputIsCurrent'
  BY <1>0, <1>10 DEF AloneInv, TypeOK, NoLostUpdate, InputIsCurrent, HookAt,
     HeldJobIsOpen, InputUnavailable, execVars, At, childVars
<1>11. ASSUME NEW w \in Workers, NEW o \in Outcome, ChildEnds(w, o)
      PROVE  NoLostUpdate' /\ InputIsCurrent'
  BY <1>0, <1>11 DEF AloneInv, TypeOK, NoLostUpdate, InputIsCurrent, HookAt,
     HeldJobIsOpen, ChildEnds, execVars, At
<1>12. ASSUME NEW w \in Workers, FlushFails(w)
      PROVE  NoLostUpdate' /\ InputIsCurrent'
  BY <1>0, <1>12 DEF AloneInv, TypeOK, NoLostUpdate, InputIsCurrent, HookAt,
     HeldJobIsOpen, FlushFails, execVars, At, childVars
<1>13. ASSUME NEW w \in Workers, CommitOutcome(w)
      PROVE  NoLostUpdate' /\ InputIsCurrent'
  <2>0. cur[w] \in Execs /\ HookAt(w) \in Hooks
    BY <1>0, <1>13, HeldExec DEF CommitOutcome
  <2>1. NoLostUpdate'
    BY <1>0, <1>13, <2>0 DEF AloneInv, TypeOK, NoLostUpdate, InputIsCurrent, HookAt,
       HeldJobIsOpen, JobMatchesExecution, UnclaimedNotStarted, CommitOutcome,
       CommitRaises, SavedState, ToIdle, At
  <2>2. InputIsCurrent'
    BY <1>0, <1>13, <2>0 DEF AloneInv, TypeOK, NoLostUpdate, InputIsCurrent, HookAt,
       HeldJobIsOpen, JobMatchesExecution, UnclaimedNotStarted, CommitOutcome,
       CommitRaises, SavedState, ToIdle, At
  <2> QED
    BY <2>1, <2>2
<1>14. ASSUME NEW w \in Workers, CommitFails(w)
      PROVE  NoLostUpdate' /\ InputIsCurrent'
  BY <1>0, <1>14 DEF AloneInv, TypeOK, NoLostUpdate, InputIsCurrent, HookAt,
     HeldJobIsOpen, CommitFails, execVars, At, childVars
<1>15. ASSUME NEW w \in Workers, HandleError(w)
      PROVE  NoLostUpdate' /\ InputIsCurrent'
  <2>0. cur[w] \in Execs /\ HookAt(w) \in Hooks
    BY <1>0, <1>15, HeldExec DEF HandleError
  <2>1. NoLostUpdate'
    BY <1>0, <1>15, <2>0 DEF AloneInv, TypeOK, NoLostUpdate, InputIsCurrent, HookAt,
       HeldJobIsOpen, JobMatchesExecution, UnclaimedNotStarted, HandleError, ToIdle,
       At
  <2>2. InputIsCurrent'
    BY <1>0, <1>15, <2>0 DEF AloneInv, TypeOK, NoLostUpdate, InputIsCurrent, HookAt,
       HeldJobIsOpen, JobMatchesExecution, UnclaimedNotStarted, HandleError, ToIdle,
       At
  <2> QED
    BY <2>1, <2>2
<1>16. ASSUME NEW w \in Workers, Crash(w)
      PROVE  NoLostUpdate' /\ InputIsCurrent'
  BY <1>0, <1>16 DEF AloneInv, TypeOK, NoLostUpdate, InputIsCurrent, HookAt,
     HeldJobIsOpen, Crash, execVars, ToIdle, At
<1>17. CASE Tick
  BY <1>0, <1>17 DEF AloneInv, TypeOK, NoLostUpdate, InputIsCurrent, HookAt,
     HeldJobIsOpen, Tick, execVars
<1>18. CASE UNCHANGED vars
  BY <1>0, <1>18 DEF AloneInv, TypeOK, NoLostUpdate, InputIsCurrent, HookAt,
     HeldJobIsOpen, vars
<1>19. ASSUME NEW d \in Execs, RetryExecution(d) PROVE NoLostUpdate' /\ InputIsCurrent'
  <2>1. hookOf[d] \in Hooks /\ vehOf[d] \in Vehicles
    BY <1>0 DEF TypeOK
  <2> QED
    BY <1>1, <1>19, <2>1 DEF RetryExecution
<1>20. ASSUME NEW w \in Workers, Step(w) \/ Crash(w)
       PROVE  NoLostUpdate' /\ InputIsCurrent'
  BY <1>4, <1>5, <1>6, <1>7, <1>8, <1>9, <1>10, <1>11, <1>12, <1>13, <1>14, <1>15,
     <1>16, <1>20 DEF Step
<1> QED
  BY <1>1, <1>2, <1>3, <1>17, <1>18, <1>19, <1>20 DEF Next, QueueExecution

\* With a single worker, as the compose file ships the program, the state of a
\* hook carries every recorded success: no update is ever lost.
THEOREM AloneLosesNothing ==
  ASSUME \A v, w \in Workers : v = w PROVE Spec => []NoLostUpdate
<1>1. Init => AloneInv
  <2>1. Init => NoLostUpdate /\ InputIsCurrent
    BY DEF Init, NoLostUpdate, InputIsCurrent
  <2> QED
    BY <2>1, QueueInvInit DEF AloneInv
<1>2. AloneInv /\ [Next]_vars => AloneInv'
  BY AloneStep, QueueInvStep DEF AloneInv
<1>3. AloneInv => NoLostUpdate
  BY DEF AloneInv
<1> QED
  BY <1>1, <1>2, <1>3, PTL DEF Spec
=============================================================================
