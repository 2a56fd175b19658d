--------------------------- MODULE VehiclePhotos ---------------------------
(***************************************************************************)
(* The photo of a vehicle: a row that names a file by the hash of its        *)
(* content (backend/app/vehicles). Vehicles share neither rows nor files,     *)
(* so there is one here.                                                   *)
(*                                                                         *)
(* The handlers of deletions run in threads. The upload is a coroutine of the *)
(* only process: from the body on, no other upload runs beside it, while      *)
(* deletions do. What a request loaded before the body it remembers.         *)
(***************************************************************************)
EXTENDS Naturals, FiniteSets

CONSTANTS
  Contents,
  Requests,    \* requests under way at once
  None

VARIABLES
  vehicle,     \* whether the row of the vehicle is there
  photo,       \* VehiclePhoto.storage_key, None without a row
  files,       \* files below vehicle-photos/<vehicle>
  job,         \* what a request is about, and how far it has come
  \* for the properties
  astray,      \* two requests overlapped, a process ended, or a removal or the
               \* answer to a commit failed, and a file was left
  contested    \* contents that two requests had in hand at once, or that were
               \* removed after a commit whose answer was lost

vars == <<vehicle, photo, files, job, astray, contested>>

Idle == [op |-> "none"]

Init ==
  /\ vehicle = TRUE
  /\ photo = None
  /\ files = {}
  /\ job = [r \in Requests |-> Idle]
  /\ astray = FALSE
  /\ contested = {}

Is(r, op, at) == job[r].op = op /\ job[r].at = at
Busy(r) == job[r] # Idle

\* Files a request has stored or means to remove
InHand(r) == IF Busy(r) THEN {job[r].old, job[r].new} \ {None} ELSE {}

\* load_vehicle, with its photo
Starts(r, op, at) ==
  /\ ~Busy(r)
  /\ vehicle
  /\ job' = [job EXCEPT ![r] = [op |-> op, at |-> at, old |-> photo, new |-> None]]
  /\ astray' = ((\E q \in Requests : Busy(q)) \/ (astray /\ files # {photo} \ {None}))
  /\ contested' = contested \cup ({photo} \cap UNION {InHand(q) : q \in Requests})
  /\ UNCHANGED <<vehicle, photo, files>>

Goes(r, at) == job' = [job EXCEPT ![r].at = at]
Ends(r) == job' = [job EXCEPT ![r] = Idle]

----------------------------------------------------------------------------
(* Upload.                                                                 *)

BeginUpload(r) == Starts(r, "upload", "body")

\* An upload whose body has arrived goes on alone.
Refuse(r) ==
  /\ Is(r, "upload", "body")
  /\ Ends(r)
  /\ UNCHANGED <<vehicle, photo, files, astray, contested>>

Store(r) ==
  /\ Is(r, "upload", "body")
  /\ \A q \in Requests : job[q].op = "upload" => job[q].at = "body"
  /\ \E c \in Contents :
       /\ files' = files \cup {c}
       /\ job' = [job EXCEPT ![r].at = "commit", ![r].new = c]
       /\ contested' =
            IF c \in UNION {InHand(q) : q \in Requests \ {r}} \/ (c = photo /\ job[r].old # c)
            THEN contested \cup {c} ELSE contested \ {c}
  /\ UNCHANGED <<vehicle, photo, astray>>

\* replace_vehicle_photo: a row that was loaded is kept and written if the key
\* is another one, and must be there then; without one it is queried again.
Stored(r) ==
  LET j == job[r] IN
  IF j.old = j.new THEN photo ELSE j.new
CanStore(r) ==
  LET j == job[r] IN
  IF j.old = None THEN vehicle ELSE j.old = j.new \/ photo # None

CommitUpload(r) ==
  /\ Is(r, "upload", "commit")
  /\ CanStore(r)
  /\ photo' = Stored(r)
  /\ Goes(r, "clean")
  /\ UNCHANGED <<vehicle, files, astray, contested>>

\* Mutant: the file of a failed upload goes, whoever needs it.
UndoAlways(r) ==
  /\ Is(r, "upload", "commit")
  /\ files' = files \ {job[r].new}
  /\ Ends(r)
  /\ UNCHANGED <<vehicle, photo, astray, contested>>

\* The commit fails: for lack of the row, of the vehicle, or of the database. The
\* file that was stored for it goes, unless the photo had it before.
Undo(r) ==
  /\ Is(r, "upload", "commit")
  /\ files' = IF job[r].new # job[r].old THEN files \ {job[r].new} ELSE files
  /\ Ends(r)
  /\ UNCHANGED <<vehicle, photo, astray, contested>>

\* The commit raises though the database has it, since its answer was lost: the
\* file goes all the same.
UndoCommitted(r) ==
  /\ Is(r, "upload", "commit")
  /\ CanStore(r)
  /\ photo' = Stored(r)
  /\ files' = IF job[r].new # job[r].old THEN files \ {job[r].new} ELSE files
  /\ contested' = contested \cup ({job[r].new} \ {job[r].old})
  /\ astray' = TRUE
  /\ Ends(r)
  /\ UNCHANGED vehicle

\* Mutant: the file of the photo that was there stays.
KeepsOld(r) ==
  /\ Is(r, "upload", "clean")
  /\ Ends(r)
  /\ UNCHANGED <<vehicle, photo, files, astray, contested>>

\* The file of the photo that was there goes, unless it is the same.
CleanUpload(r) ==
  /\ Is(r, "upload", "clean")
  /\ files' = IF job[r].new # job[r].old THEN files \ {job[r].old} ELSE files
  /\ Ends(r)
  /\ UNCHANGED <<vehicle, photo, astray, contested>>

----------------------------------------------------------------------------
(* Deletion of the photo, and of the vehicle with it.                       *)

BeginDelete(r) == Starts(r, "delete", "commit")
BeginRemove(r) == Starts(r, "remove", "commit")

\* delete_vehicle_photo: a row that was not loaded is queried again, and its
\* file is not known. The row may be gone when it is deleted: no error.
DeletePhoto(r) ==
  /\ Is(r, "delete", "commit")
  /\ photo' = None
  /\ IF job[r].old = None THEN Ends(r) ELSE Goes(r, "clean")
  /\ UNCHANGED <<vehicle, files, astray, contested>>

RemoveVehicle(r) ==
  /\ Is(r, "remove", "commit")
  /\ vehicle' = FALSE
  /\ photo' = None
  /\ IF job[r].old = None THEN Ends(r) ELSE Goes(r, "clean")
  /\ UNCHANGED <<files, astray, contested>>

CleanDeleted(r) ==
  /\ Is(r, "delete", "clean") \/ Is(r, "remove", "clean")
  /\ files' = files \ {job[r].old}
  /\ Ends(r)
  /\ UNCHANGED <<vehicle, photo, astray, contested>>

\* remove_photo_file raises, or the answer to the commit of a deletion is lost and
\* it is not called: the file stays, whatever the request was about.
RemovalFails(r) ==
  /\ Busy(r)
  /\ Is(r, "upload", "commit") \/ job[r].at = "clean"
  /\ Ends(r)
  /\ astray' = TRUE
  /\ UNCHANGED <<vehicle, photo, files, contested>>

Fail(r) ==
  /\ Is(r, "delete", "commit") \/ Is(r, "remove", "commit")
  /\ Ends(r)
  /\ UNCHANGED <<vehicle, photo, files, astray, contested>>

\* The process ends and is started again.
Crash ==
  /\ \E r \in Requests : Busy(r)
  /\ job' = [r \in Requests |-> Idle]
  /\ astray' = TRUE
  /\ UNCHANGED <<vehicle, photo, files, contested>>

Next ==
  \/ Crash
  \/ \E r \in Requests :
       \/ BeginUpload(r) \/ Refuse(r) \/ Store(r) \/ CommitUpload(r) \/ Undo(r)
       \/ UndoCommitted(r) \/ CleanUpload(r) \/ RemovalFails(r)
       \/ BeginDelete(r) \/ BeginRemove(r) \/ DeletePhoto(r) \/ RemoveVehicle(r)
       \/ CleanDeleted(r) \/ Fail(r)

Spec == Init /\ [][Next]_vars

----------------------------------------------------------------------------
(* A photo that is in the database is on the disk, whatever uploads and      *)
(* deletions overlap, fail or are cut off, unless two of them had the very   *)
(* same content in hand (vehicles/routes.py:125), or the commit of one       *)
(* raised although the database has it (vehicles/routes.py:130).            *)
PhotoIsThere == photo # None => photo \in files \cup contested

(* Files do not pile up: when no request is under way there is none but that *)
(* of the photo, unless requests overlapped, the process ended, the answer   *)
(* to a commit was lost, or a file could not be removed                     *)
(* (vehicles/routes.py:130, :135 and :168).                                *)
NoFileLeft == astray \/ (\E r \in Requests : Busy(r)) \/ files \subseteq {photo}

=============================================================================
