----------------------------- MODULE HookEdits -----------------------------
(***************************************************************************)
(* How administrators write a hook: creation, edits, the restoration of an    *)
(* earlier revision, removal (backend/app/hooks/services.py, hooks/routes.py). *)
(* Hooks share neither rows nor numbers, so there is one here.               *)
(*                                                                         *)
(* An edit loads the row, computes the next revision from what it loaded, and  *)
(* writes the columns that differ from it: edits under way at once are kept    *)
(* apart by UNIQUE (hook_id, revision) alone. The rows of revisions go with    *)
(* the account that saved them, while the hook stays.                        *)
(***************************************************************************)
EXTENDS Naturals

CONSTANTS
  Users,       \* administrators
  Requests,    \* edits under way at once
  Sources,     \* texts that compile
  None,
  MaxRevision  \* bound: revisions of the hook

VARIABLES
  users,       \* accounts that are there
  vehicle,     \* whether the vehicle a hook can be about is there
  hook,        \* the row of the hook, None without one
  revisions,   \* rows of hook_revisions
  job,         \* what an edit has loaded
  lost         \* for the properties: revisions went with an account

vars == <<users, vehicle, hook, revisions, job, lost>>

Idle == [op |-> "none"]

\* Hook.vehicle_id: every vehicle, or the one
Filters == {"every", "one"}

Row(revision, source, user) == [revision |-> revision, source |-> source, by |-> user]

Init ==
  /\ users = Users
  /\ vehicle = TRUE
  /\ hook = None
  /\ revisions = {}
  /\ job = [r \in Requests |-> Idle]
  /\ lost = FALSE

\* "vehicle filter does not exist", or the foreign key at the commit
Known(filter) == filter = "one" => vehicle

\* create_hook. The one after this one has another id: no edit has loaded it.
Create ==
  \E u \in users, s \in Sources, f \in Filters :
    /\ hook = None
    /\ \A r \in Requests : job[r] = Idle
    /\ Known(f)
    /\ hook' = [source |-> s, revision |-> 1, filter |-> f]
    /\ revisions' = {Row(1, s, u)}
    /\ lost' = FALSE
    /\ UNCHANGED <<users, vehicle, job>>

\* What edit_hook loads, and restore_revision with the revision it is asked for
Load(r) ==
  \E u \in users :
    /\ job[r] = Idle
    /\ hook # None
    /\ \/ job' = [job EXCEPT ![r] = [op |-> "edit", by |-> u, loaded |-> hook]]
       \/ \E saved \in revisions :
            job' = [job EXCEPT ![r] =
              [op |-> "restore", by |-> u, loaded |-> hook, source |-> saved.source]]
    /\ UNCHANGED <<users, vehicle, hook, revisions, lost>>

\* Mutant: the table has no such constraint.
AnyNumber(revision) == TRUE

\* UNIQUE (hook_id, revision)
Free(revision) == \A row \in revisions : row.revision # revision

\* update_hook: the columns that differ from the row that was loaded
Written(loaded, source, filter) ==
  [source   |-> IF source # loaded.source THEN source ELSE hook.source,
   revision |-> IF source # loaded.source THEN loaded.revision + 1 ELSE hook.revision,
   filter   |-> IF filter # loaded.filter THEN filter ELSE hook.filter]

\* Another source is another revision, of an account that is still there.
Saves(r, source, filter) ==
  LET loaded == job[r].loaded IN
  /\ hook # None
  /\ Known(filter)
  /\ loaded.revision < MaxRevision
  /\ hook' = Written(loaded, source, filter)
  /\ \/ source = loaded.source /\ UNCHANGED revisions
     \/ /\ source # loaded.source
        /\ Free(loaded.revision + 1)
        /\ job[r].by \in users
        /\ revisions' = revisions \cup {Row(loaded.revision + 1, source, job[r].by)}
  /\ job' = [job EXCEPT ![r] = Idle]
  /\ UNCHANGED <<users, vehicle, lost>>

Edit(r) ==
  /\ job[r].op = "edit"
  /\ \E s \in Sources, f \in Filters : Saves(r, s, f)

\* The filter stays as it was loaded.
Restore(r) ==
  /\ job[r].op = "restore"
  /\ Saves(r, job[r].source, job[r].loaded.filter)

\* The source does not compile, the row is gone, the number is taken, or the
\* database is not reached.
Fail(r) ==
  /\ job[r] # Idle
  /\ job' = [job EXCEPT ![r] = Idle]
  /\ UNCHANGED <<users, vehicle, hook, revisions, lost>>

\* remove_hook, and the vehicle with its hooks: the revisions go with them.
RemoveHook ==
  /\ hook # None
  /\ hook' = None
  /\ revisions' = {}
  /\ UNCHANGED <<users, vehicle, job, lost>>

RemoveVehicle ==
  /\ vehicle
  /\ vehicle' = FALSE
  /\ IF hook # None /\ hook.filter = "one"
     THEN hook' = None /\ revisions' = {}
     ELSE UNCHANGED <<hook, revisions>>
  /\ UNCHANGED <<users, job, lost>>

\* remove_account: ON DELETE CASCADE for revisions. Somebody stays.
RemoveAccount(u) ==
  /\ u \in users
  /\ users # {u}
  /\ users' = users \ {u}
  /\ revisions' = {row \in revisions : row.by # u}
  /\ lost' = (lost \/ revisions' # revisions)
  /\ UNCHANGED <<vehicle, hook, job>>

Next ==
  \/ Create \/ RemoveHook \/ RemoveVehicle
  \/ \E r \in Requests : Load(r) \/ Edit(r) \/ Restore(r) \/ Fail(r)
  \/ \E u \in Users : RemoveAccount(u)

Spec == Init /\ [][Next]_vars

----------------------------------------------------------------------------
(* Whatever edits and restorations overlap, the revisions of a hook are       *)
(* numbered without a gap or a second row of one number, the newest has the    *)
(* source that runs, and none is above it, so the next edit can be saved: as    *)
(* long as no revision went with the account that saved it                   *)
(* (hooks/services.py:57).                                                 *)
CurrentRevisionIsLast ==
  hook # None /\ ~lost =>
    /\ \A row \in revisions : row.revision \in 1..hook.revision
    /\ \A n \in 1..hook.revision : \E row \in revisions : row.revision = n
    /\ \A row, other \in revisions : row.revision = other.revision => row = other
    /\ \A row \in revisions : row.revision = hook.revision => row.source = hook.source

=============================================================================
