----------------------------- MODULE HookLedger -----------------------------
(***************************************************************************)
(* What the queue promises about hook executions, with neither workers nor *)
(* jobs, locks or leases: an execution is queued, starts at most once, may *)
(* be recorded as a success once it has started, and may be deleted, which *)
(* is the only way a recorded success is ever withdrawn.                   *)
(*                                                                         *)
(* HookQueue implements it (HookQueue!LedgerHolds).                        *)
(***************************************************************************)
EXTENDS Naturals

CONSTANT Execs

VARIABLES
  queued,   \* executions ever queued
  gone,     \* queued executions whose record was deleted
  starts,   \* how many times a child process was started for each
  saved     \* executions recorded as a success

vars == <<queued, gone, starts, saved>>

Init ==
  /\ queued = {} /\ gone = {} /\ saved = {}
  /\ starts = [e \in Execs |-> 0]

Queue(e) ==
  /\ e \notin queued
  /\ queued' = queued \cup {e}
  /\ UNCHANGED <<gone, starts, saved>>

Start(e) ==
  /\ e \in queued \ gone
  /\ starts[e] = 0
  /\ starts' = [starts EXCEPT ![e] = 1]
  /\ UNCHANGED <<queued, gone, saved>>

Save(e) ==
  /\ e \notin gone /\ e \notin saved
  /\ starts[e] = 1
  /\ saved' = saved \cup {e}
  /\ UNCHANGED <<queued, gone, starts>>

Delete(S) ==
  /\ S \subseteq queued
  /\ gone' = gone \cup S
  /\ saved' = saved \ S
  /\ UNCHANGED <<queued, starts>>

Next ==
  \/ \E e \in Execs : Queue(e) \/ Start(e) \/ Save(e)
  \/ \E S \in SUBSET Execs : Delete(S)

Spec == Init /\ [][Next]_vars
=============================================================================
