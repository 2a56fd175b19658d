----------------------------- MODULE Dashboards -----------------------------
(***************************************************************************)
(* The dashboards of one owner (backend/app/dashboards), one of which is to  *)
(* be the default, and the removal of a vehicle, which takes the vehicle off *)
(* the layouts (backend/app/vehicles/services.py, delete_vehicle).           *)
(*                                                                         *)
(* The owner has several browsers open. A request is a transaction under     *)
(* READ COMMITTED: what it writes shows when it commits, and the rows it has  *)
(* written are locked until then. The ORM writes a column whose value differs *)
(* from the one it loaded, fails if a row to update is gone, and does not     *)
(* mind if a row to delete is.                                             *)
(***************************************************************************)
EXTENDS Naturals, FiniteSets

CONSTANTS
  Vehicles,
  Requests,    \* requests under way at once, each by a session of its own
  None,
  MaxBoards    \* bound: dashboards at once

VARIABLES
  board,       \* rows of dashboards, the oldest first: is_default and the
               \* vehicles that widgets of the layout name
  vehicles,    \* rows of vehicles
  job,         \* what a request is about, and how far it has come
  \* for the properties
  wrote,       \* what the owner last put on a dashboard and is still there
  crossed,     \* dashboards whose layout two requests wrote at once
  excused      \* since a default was last chosen, two requests overlapped or the
               \* owner said that the default is none

ghosts == <<wrote, crossed, excused>>
vars == <<board, vehicles, job, ghosts>>

Boards == 1..MaxBoards
Idle == [op |-> "none"]

\* list_dashboards; what a statement sees: all committed rows
Rows == {d \in Boards : board[d] # None}

Init ==
  /\ board = [d \in Boards |-> None]
  /\ vehicles = Vehicles
  /\ job = [r \in Requests |-> Idle]
  /\ wrote = [d \in Boards |-> {}]
  /\ crossed = {} /\ excused = FALSE

Is(r, op, at) == job[r].op = op /\ job[r].at = at

\* Dashboards in the hands of a request, and the rows among them it has written
\* and not committed
Names(r) == IF job[r] = Idle THEN {} ELSE job[r].ids
Locks(r) == IF job[r] = Idle THEN {} ELSE job[r].locks
Free(r, rows) == \A q \in Requests \ {r} : Locks(q) \cap rows = {}

Starts(r, j) ==
  /\ job[r] = Idle
  /\ job' = [job EXCEPT ![r] = j]
  /\ UNCHANGED <<board, vehicles, ghosts>>

\* r commits: of the requests under way, some have loaded layouts of `rows` that
\* are no longer so, or a default that no longer is.
Watched(q) ==
  CASE job[q].op = "update" -> {job[q].id} [] job[q].op = "remove" -> Boards [] OTHER -> {}

Commits(r, rows) ==
  job' = [q \in Requests |->
    IF q = r THEN Idle
    ELSE IF job[q] = Idle THEN Idle
    ELSE [job[q] EXCEPT !.missed = @ \cup (rows \cap Watched(q)),
                        !.late = @ \/ "remove" \notin {job[q].op, job[r].op}]]

----------------------------------------------------------------------------
(* Creating and changing. An owner's first dashboard is the default.        *)

BeginCreate(r) ==
  \E asked \in BOOLEAN :
    LET default == asked \/ Rows = {} IN
    Starts(r, [op |-> "create", at |-> IF default THEN "clear" ELSE "write",
               ids |-> {}, locks |-> {}, missed |-> {}, late |-> FALSE, default |-> default])

BeginUpdate(r) ==
  \E d \in Rows, asked \in BOOLEAN :
    Starts(r, [op |-> "update", at |-> IF asked THEN "clear" ELSE "write",
               ids |-> {d}, locks |-> {}, missed |-> {}, late |-> FALSE,
               default |-> asked, id |-> d, loaded |-> board[d]])

Own(r) == IF job[r].op = "update" THEN {job[r].id} ELSE {}

\* The UPDATE after which the others are not the default: it sees the rows that
\* are committed when it starts, and waits for those that others have written.
Others(r) == Rows \ Own(r)

Clear(r) ==
  /\ Is(r, "create", "clear") \/ Is(r, "update", "clear")
  /\ job' = [job EXCEPT ![r] =
       IF Free(r, Others(r)) THEN [@ EXCEPT !.at = "write", !.locks = Others(r)]
       ELSE [@ EXCEPT !.at = "wait", !.ids = job[r].ids \cup Others(r)]]
  /\ UNCHANGED <<board, vehicles, ghosts>>

Resume(r) ==
  /\ Is(r, "create", "wait") \/ Is(r, "update", "wait")
  /\ Free(r, job[r].ids \ Own(r))
  /\ job' = [job EXCEPT ![r] = [@ EXCEPT !.at = "write", !.locks = (job[r].ids \ Own(r)) \cap Rows]]
  /\ UNCHANGED <<board, vehicles, ghosts>>

\* Mutant: the other dashboards keep their default.
KeepsOthers(r) == board

Cleared(r) ==
  [d \in Boards |-> IF d \in Locks(r) THEN [board[d] EXCEPT !.default = FALSE] ELSE board[d]]

\* A dashboard became the default by the commit of r.
Chosen(r) == excused' = job[r].late
NotChosen(r, forgone) == excused' = (excused \/ job[r].late \/ forgone)

\* A new id: the number of a dashboard is used again when nobody knows it.
Create(r) ==
  /\ Is(r, "create", "write")
  /\ \E d \in Boards, layout \in SUBSET Vehicles :
       /\ \A e \in Rows : e < d
       /\ \A q \in Requests : d \notin Names(q)
       /\ board' = [Cleared(r) EXCEPT ![d] = [default |-> job[r].default, layout |-> layout]]
       /\ wrote' = [wrote EXCEPT ![d] = layout]
       /\ crossed' = crossed \ {d}
       /\ Commits(r, {d})
  /\ IF job[r].default THEN Chosen(r) ELSE NotChosen(r, FALSE)
  /\ UNCHANGED vehicles

\* Mutant: a layout is written only with another default.
NoLayout(r, layout) ==
  [default |-> job[r].default,
   layout |-> IF job[r].default = job[r].loaded.default THEN board[job[r].id].layout ELSE layout]

\* setattr on the loaded row: a value that is as it was loaded is not written.
Merged(r, layout) ==
  LET row == board[job[r].id]
      loaded == job[r].loaded
  IN [default |-> IF job[r].default = loaded.default THEN row.default ELSE job[r].default,
      layout |-> IF layout = loaded.layout THEN row.layout ELSE layout]

Update(r) ==
  /\ Is(r, "update", "write")
  /\ \E layout \in SUBSET Vehicles :
       LET d == job[r].id
           same == job[r].loaded = [default |-> job[r].default, layout |-> layout]
           over == d \in job[r].missed
       IN
       /\ same \/ (Free(r, {d}) /\ d \in Rows)
       /\ board' = IF d \in Rows THEN [Cleared(r) EXCEPT ![d] = Merged(r, layout)] ELSE Cleared(r)
       /\ wrote' = [wrote EXCEPT ![d] = IF over \/ d \notin Rows THEN {} ELSE layout]
       /\ crossed' = IF over /\ d \in Rows THEN crossed \cup {d} ELSE crossed \ {d}
       /\ Commits(r, {d})
  /\ IF job[r].default THEN Chosen(r) ELSE NotChosen(r, job[r].loaded.default)
  /\ UNCHANGED vehicles

----------------------------------------------------------------------------
(* Deleting. The oldest of the others takes over from the default.          *)

BeginDelete(r) ==
  \E d \in Rows :
    Starts(r, [op |-> "delete", at |-> IF board[d].default THEN "replace" ELSE "write",
               ids |-> {d}, locks |-> {}, missed |-> {}, late |-> FALSE, id |-> d, heir |-> None])

\* The query for the replacement flushes the DELETE first. A replacement that
\* is a default already is not written.
Replace(r) ==
  /\ Is(r, "delete", "replace")
  /\ LET d == job[r].id IN
     /\ Free(r, {d})
     /\ job' = [job EXCEPT ![r] = [@ EXCEPT !.at = "write", !.locks = {d} \cap Rows,
          !.ids = job[r].ids \cup Rows,
          !.heir = IF Rows \subseteq {d} THEN None
                   ELSE LET o == CHOOSE o \in Rows \ {d} : \A e \in Rows \ {d} : o <= e
                        IN IF board[o].default THEN None ELSE o]]
  /\ UNCHANGED <<board, vehicles, ghosts>>

Delete(r) ==
  /\ Is(r, "delete", "write")
  /\ LET d == job[r].id
         heir == {job[r].heir} \ {None}
     IN
     /\ Free(r, {d} \cup heir)
     /\ heir \subseteq Rows
     /\ board' = [e \in Boards |->
          IF e = d THEN None
          ELSE IF e \in heir THEN [board[e] EXCEPT !.default = TRUE] ELSE board[e]]
     /\ wrote' = [wrote EXCEPT ![d] = {}]
     /\ crossed' = crossed \ {d}
     /\ Commits(r, {d})
  /\ NotChosen(r, FALSE)
  /\ UNCHANGED vehicles

----------------------------------------------------------------------------
(* remove_vehicle: takes the vehicle off all dashboards, as they were loaded. *)

BeginRemove(r) ==
  \E v \in vehicles :
    Starts(r, [op |-> "remove", at |-> "write",
               ids |-> Rows, locks |-> {}, missed |-> {}, late |-> FALSE, vehicle |-> v,
               on |-> {d \in Rows : v \in board[d].layout},
               loaded |-> [d \in Rows |-> board[d].layout]])

Remove(r) ==
  /\ Is(r, "remove", "write")
  /\ Free(r, job[r].on)
  /\ job[r].on \subseteq Rows
  /\ LET v == job[r].vehicle IN
     /\ board' = [d \in Boards |->
          IF d \in job[r].on THEN [board[d] EXCEPT !.layout = job[r].loaded[d] \ {v}] ELSE board[d]]
     /\ vehicles' = vehicles \ {v}
     /\ wrote' = [d \in Boards |-> IF d \in job[r].missed THEN {} ELSE wrote[d] \ {v}]
  /\ crossed' = crossed \cup (job[r].missed \cap Rows)
  /\ Commits(r, job[r].on)
  /\ UNCHANGED excused

\* A row to update is gone, the database ends a deadlock, or is not reached: 500.
Fail(r) ==
  /\ job[r] # Idle
  /\ job' = [job EXCEPT ![r] = Idle]
  /\ UNCHANGED <<board, vehicles, ghosts>>

Next ==
  \E r \in Requests :
    \/ BeginCreate(r) \/ BeginUpdate(r) \/ Clear(r) \/ Resume(r) \/ Create(r) \/ Update(r)
    \/ BeginDelete(r) \/ Replace(r) \/ Delete(r)
    \/ BeginRemove(r) \/ Remove(r) \/ Fail(r)

Spec == Init /\ [][Next]_vars

----------------------------------------------------------------------------
(* An owner who has dashboards has one default among them, unless the owner  *)
(* said that the default is none, or two requests of the owner overlapped    *)
(* since a default was last chosen: creating the first, choosing another and  *)
(* deleting the default keep it so (dashboards/routes.py:33, :64 and :87).    *)
OneDefault ==
  \/ excused \/ Rows = {}
  \/ Cardinality({d \in Rows : board[d].default}) = 1

(* A dashboard names the vehicles its owner last put there, less those that   *)
(* were removed since, unless two requests that write the layout overlapped:   *)
(* a removal does not undo what the owner arranged, and forgets no dashboard   *)
(* (vehicles/services.py:85).                                               *)
LayoutIsOwners == \A d \in Rows \ crossed : board[d].layout = wrote[d]

=============================================================================
