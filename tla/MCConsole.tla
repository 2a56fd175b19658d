----------------------------- MODULE MCConsole -----------------------------
(***************************************************************************)
(* The parts of the server behind its web console that share no state the     *)
(* models have, checked in one run: the first state chooses the part that       *)
(* moves, and the others stay in their initial states (Records: without rows). *)
(***************************************************************************)
EXTENDS Accounts, Integers, TLC

CONSTANTS
  Vehicles, MaxBoards,                             \* Dashboards
  Contents,                                        \* VehiclePhotos
  Tokens, Devices, Operators, Hosts, MaxVersion,   \* Enrollment
  MaxReadings, Times, MaxPoints, Limit,            \* History
  MaxSamples, MaxHooks, MaxRuns,                   \* Records
  Sources, MaxRevision                             \* HookEdits

VARIABLES
  part,
  board, vehicles, boardJob, wrote, crossed, excused,
  photographed, photo, files, photoJob, astray, contested,
  equipped, token, device, deviceJob, host, made, revoked,
  readings, reader,
  db,
  users, hooked, hook, revisions, edit, lost

D == INSTANCE Dashboards WITH job <- boardJob
P == INSTANCE VehiclePhotos WITH vehicle <- photographed, job <- photoJob
E == INSTANCE Enrollment WITH vehicle <- equipped, job <- deviceJob
H == INSTANCE History
R == INSTANCE Records
K == INSTANCE HookEdits WITH Users <- Accounts, vehicle <- hooked, job <- edit

\* None is none of the values in whose place it stands.
NoneIsNoValue ==
  /\ None \notin Nat
  /\ None \notin [default : BOOLEAN, layout : SUBSET Vehicles]
  /\ None \notin Contents \cup Tokens \cup Devices
  /\ None # "open"
  /\ None \notin [at : Times, metric : H!Metrics]
  /\ None \notin (UNION {{k.table, k.parent} : k \in R!Keys}) \X Nat

\* max_points is at least 10 and limit at least 1 (history/routes.py:101 and :211).
Bounds ==
  /\ {MaxBoards, MaxSamples, MaxReadings} \cup Times \subseteq Nat
  /\ {MaxPoints, Limit} \subseteq Nat \ {0}

ASSUME ConsoleAssumption == Bounds /\ NoneIsNoValue

dashboards == <<board, vehicles, boardJob, wrote, crossed, excused>>
photos == <<photographed, photo, files, photoJob, astray, contested>>
enrollment == <<equipped, token, device, deviceJob, host, made, revoked>>
history == <<readings, reader>>
edits == <<users, hooked, hook, revisions, edit, lost>>

ConsoleInit ==
  /\ part \in {"accounts", "dashboards", "photos", "enrollment", "history", "records", "edits"}
  /\ Init /\ D!Init /\ P!Init /\ E!Init /\ H!Init /\ K!Init
  /\ IF part = "records" THEN R!Init ELSE db = <<>>

ConsoleNext ==
  \/ /\ part = "accounts" /\ Next
     /\ UNCHANGED <<part, dashboards, photos, enrollment, history, db, edits>>
  \/ /\ part = "dashboards" /\ D!Next
     /\ UNCHANGED <<part, vars, photos, enrollment, history, db, edits>>
  \/ /\ part = "photos" /\ P!Next
     /\ UNCHANGED <<part, vars, dashboards, enrollment, history, db, edits>>
  \/ /\ part = "enrollment" /\ E!Next
     /\ UNCHANGED <<part, vars, dashboards, photos, history, db, edits>>
  \/ /\ part = "history" /\ H!Next
     /\ UNCHANGED <<part, vars, dashboards, photos, enrollment, db, edits>>
  \/ /\ part = "records" /\ R!Next
     /\ UNCHANGED <<part, vars, dashboards, photos, enrollment, history, edits>>
  \/ /\ part = "edits" /\ K!Next
     /\ UNCHANGED <<part, vars, dashboards, photos, enrollment, history, db>>

ConsoleSpec ==
  ConsoleInit /\ [][ConsoleNext]_<<part, vars, dashboards, photos, enrollment, history, db, edits>>

Symmetry == Permutations(Requests) \cup Permutations(Accounts)

(* The owner of dashboards has one default: Dashboards, OneDefault.          *)
OneDefault == D!OneDefault
(* Layouts are as the owner left them: Dashboards, LayoutIsOwners.           *)
LayoutIsOwners == D!LayoutIsOwners
(* The row of a photo has its file: VehiclePhotos, PhotoIsThere.             *)
PhotoIsThere == P!PhotoIsThere
(* Photos leave no files behind: VehiclePhotos, NoFileLeft.                  *)
NoFileLeft == P!NoFileLeft
(* A token makes one device: Enrollment, OneDevicePerToken.                  *)
OneDevicePerToken == E!OneDevicePerToken
(* A revoked device stays out: Enrollment, RevokedStaysOut.                  *)
RevokedStaysOut == E!RevokedStaysOut
(* A chart has its points in order: History, ChartInOrder.                   *)
ChartInOrder == H!ChartInOrder
(* The pages of the table skip no reading: History, PagesSkipNothing.        *)
PagesSkipNothing == H!PagesSkipNothing
(* An execution finds its inputs: Records, ExecutionFindsInputs.             *)
ExecutionFindsInputs == R!ExecutionFindsInputs
(* A vehicle takes along what is its own: Records, VehicleTakesItsOwn.       *)
VehicleTakesItsOwn == R!VehicleTakesItsOwn
(* The newest revision is what runs: HookEdits, CurrentRevisionIsLast.       *)
CurrentRevisionIsLast == K!CurrentRevisionIsLast
=============================================================================
