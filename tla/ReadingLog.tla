----------------------------- MODULE ReadingLog -----------------------------
(***************************************************************************)
(* What the path from an agent to the server promises of every reading:    *)
(* it leaves the agent's outbox only when the log has it or an operator     *)
(* has erased it, it is in the log at most once, and the hooks are told of  *)
(* it exactly once for as long as it is there.                             *)
(***************************************************************************)
CONSTANT Samples

VARIABLES
  outbox,  \* readings kept by the agents
  log,     \* readings stored by the server
  told,    \* the batches hooks were told of, for readings still in the log
  erased   \* readings an operator has deleted at least once

vars == <<outbox, log, told, erased>>

Init == outbox = {} /\ log = {} /\ told = {} /\ erased = {}

\* An agent takes a reading it has not taken before.
Take(s) ==
  /\ s \notin outbox \cup log \cup erased
  /\ outbox' = outbox \cup {s}
  /\ UNCHANGED <<log, told, erased>>

\* A batch arrives for the first time. One that was erased may arrive again.
Store(batch) ==
  /\ batch # {}
  /\ batch \cap log = {}
  /\ batch \subseteq outbox \cup erased
  /\ log' = log \cup batch
  /\ told' = told \cup {batch}
  /\ UNCHANGED <<outbox, erased>>

\* The agent forgets what it no longer has to keep.
Release(batch) ==
  /\ batch \subseteq log \cup erased
  /\ outbox' = outbox \ batch
  /\ UNCHANGED <<log, told, erased>>

\* An operator deletes whole batches.
Erase(batch) ==
  /\ batch \subseteq log
  /\ \A t \in told : t \subseteq batch \/ t \cap batch = {}
  /\ log' = log \ batch
  /\ told' = {t \in told : t \cap batch = {}}
  /\ erased' = erased \cup batch
  /\ UNCHANGED outbox

Next ==
  \/ \E s \in Samples : Take(s)
  \/ \E batch \in SUBSET Samples : Store(batch) \/ Release(batch) \/ Erase(batch)

Spec == Init /\ [][Next]_vars
=============================================================================
