---------------------------- MODULE ConsoleProofs -----------------------------
(***************************************************************************)
(* Theorems about the parts of the console that are small state machines:    *)
(* Enrollment, HookEdits, VehiclePhotos and Dashboards, for any number of     *)
(* requests, hosts, browsers, operators and rows. Each has an inductive      *)
(* invariant of its own: EnrollInv, EditsInv, PhotosInv with FilesInv, and     *)
(* BoardsInv.                                                              *)
(***************************************************************************)
EXTENDS MCConsole, FiniteSetTheorems, TLAPS

----------------------------------------------------------------------------
(* The parts side by side: each moves by its own steps only.                 *)

LEMMA PartsMove ==
  ASSUME [ConsoleNext]_<<part, vars, dashboards, photos, enrollment, history, db, edits>>
  PROVE  [D!Next]_(D!vars) /\ [P!Next]_(P!vars) /\ [E!Next]_(E!vars) /\ [K!Next]_(K!vars)
<1> USE DEF D!vars, D!ghosts, P!vars, E!vars, K!vars, dashboards, photos, enrollment, edits
<1>1. CASE D!Next /\ UNCHANGED <<photos, enrollment, edits>>
  BY <1>1
<1>2. CASE P!Next /\ UNCHANGED <<dashboards, enrollment, edits>>
  BY <1>2
<1>3. CASE E!Next /\ UNCHANGED <<dashboards, photos, edits>>
  BY <1>3
<1>4. CASE K!Next /\ UNCHANGED <<dashboards, photos, enrollment>>
  BY <1>4
<1>5. CASE UNCHANGED <<dashboards, photos, enrollment, edits>>
  BY <1>5
<1>6. \/ D!Next /\ UNCHANGED <<photos, enrollment, edits>>
      \/ P!Next /\ UNCHANGED <<dashboards, enrollment, edits>>
      \/ E!Next /\ UNCHANGED <<dashboards, photos, edits>>
      \/ K!Next /\ UNCHANGED <<dashboards, photos, enrollment>>
      \/ UNCHANGED <<dashboards, photos, enrollment, edits>>
  BY DEF ConsoleNext
<1> QED
  BY <1>1, <1>2, <1>3, <1>4, <1>5, <1>6

LEMMA PartsSpec == ConsoleSpec => D!Spec /\ P!Spec /\ E!Spec /\ K!Spec
<1>1. ConsoleInit => D!Init /\ P!Init /\ E!Init /\ K!Init
  BY DEF ConsoleInit
<1>2. [ConsoleNext]_<<part, vars, dashboards, photos, enrollment, history, db, edits>>
        => [D!Next]_(D!vars) /\ [P!Next]_(P!vars) /\ [E!Next]_(E!vars) /\ [K!Next]_(K!vars)
  BY PartsMove
<1> QED
  BY <1>1, <1>2, PTL DEF ConsoleSpec, D!Spec, P!Spec, E!Spec, K!Spec

----------------------------------------------------------------------------
(* Enrollment                                                                *)

LEMMA NoneIsNoToken == None \notin Devices /\ None \notin Tokens /\ None # "open"
BY ConsoleAssumption DEF NoneIsNoValue

EnrollShape ==
  /\ DOMAIN token = Tokens /\ DOMAIN device = Devices /\ DOMAIN made = Devices
  /\ DOMAIN host = Hosts
  /\ \A h \in Hosts : "at" \in DOMAIN host[h]
  /\ \A d \in E!Rows : "revoked" \in DOMAIN device[d]

\* The token in hand is open, and nobody else's.
Holding ==
  \A h \in Hosts : host[h].at = "redeeming" =>
    /\ host[h].token \in Tokens /\ token[host[h].token] = "open"
    /\ \A g \in Hosts : host[g].at = "redeeming" /\ host[g].token = host[h].token => g = h

\* An open token has made nothing.
OpenIsUnused == \A t \in Tokens : token[t] = "open" => \A d \in Devices : made[d] # t

\* An id that had a row has a maker, so that it is never used again.
RowsAreMade == \A d \in E!Rows \cup revoked : d \in Devices /\ made[d] # None

RevocationsStay == \A d \in revoked \cap E!Rows : device[d].revoked

EnrollInv ==
  EnrollShape /\ Holding /\ OpenIsUnused /\ RowsAreMade /\ RevocationsStay /\ E!OneDevicePerToken

LEMMA EnrollInit == E!Init => EnrollInv
BY NoneIsNoToken
   DEF E!Init, EnrollInv, EnrollShape, Holding, OpenIsUnused, RowsAreMade, RevocationsStay,
       E!OneDevicePerToken, E!Rows

\* A new id is unused.
LEMMA FreshIsUnused ==
  ASSUME NEW ids, NEW id, id = E!Fresh(ids), id # None PROVE id \in ids
BY DEF E!Fresh

----------------------------------------------------------------------------
(* Steps of hosts. *)

\* What a host does without a token in hand, with rows and tokens as they are.
LEMMA HostKept ==
  ASSUME EnrollInv, UNCHANGED <<token, device, made, revoked>>,
         NEW h \in Hosts, NEW state, "at" \in DOMAIN state, state.at # "redeeming",
         host' = [host EXCEPT ![h] = state]
  PROVE  EnrollInv'
<1> USE DEF EnrollInv
<1>1. EnrollShape'
  BY DEF EnrollShape, E!Rows
<1>2. Holding'
  BY DEF Holding, EnrollShape
<1> QED
  BY <1>1, <1>2 DEF OpenIsUnused, RowsAreMade, RevocationsStay, E!OneDevicePerToken, E!Rows

LEMMA RedeemKept ==
  ASSUME EnrollInv, NEW h \in Hosts, E!Redeem(h)
  PROVE  EnrollInv'
<1> USE DEF EnrollInv
<1>1. PICK t \in Tokens :
        /\ E!Unlocked(t) /\ token[t] = "open"
        /\ host' = [host EXCEPT ![h] = [at |-> "redeeming", token |-> t, files |-> @.files]]
        /\ UNCHANGED <<token, device, made, revoked>>
  BY DEF E!Redeem
<1>2. EnrollShape'
  BY <1>1 DEF EnrollShape, E!Rows
<1>3. Holding'
  BY <1>1 DEF Holding, EnrollShape, E!Unlocked
<1> QED
  BY <1>1, <1>2, <1>3
     DEF OpenIsUnused, RowsAreMade, RevocationsStay, E!OneDevicePerToken, E!Rows

LEMMA EnrollKept ==
  ASSUME EnrollInv, NEW h \in Hosts, E!Enroll(h)
  PROVE  EnrollInv'
<1> USE DEF EnrollInv
<1> DEFINE t == host[h].token
<1>1. host[h].at = "redeeming" /\ t \in Tokens /\ token[t] = "open" /\ t # None
  BY NoneIsNoToken DEF E!Enroll, Holding
<1>2. PICK d \in Devices :
        /\ d = E!Fresh({e \in Devices : made[e] = None})
        /\ device' = [device EXCEPT ![d] =
             [secret |-> E!New, version |-> 1, config |-> 1, revoked |-> FALSE]]
        /\ made' = [made EXCEPT ![d] = t]
        /\ token' = [token EXCEPT ![t] = "used"]
        /\ host' = [host EXCEPT ![h] = [at |-> "enrolled", files |-> @.files,
                      answer |-> [device |-> d, secret |-> E!New, config |-> 1]]]
        /\ UNCHANGED revoked
  BY DEF E!Enroll
<1>3. made[d] = None
  BY <1>2, FreshIsUnused, NoneIsNoToken
<1>4. d \notin E!Rows /\ d \notin revoked
  BY <1>3 DEF RowsAreMade
<1>5. EnrollShape'
  BY <1>2 DEF EnrollShape, E!Rows
<1>6. Holding'
  BY <1>1, <1>2 DEF Holding, EnrollShape
<1>7. OpenIsUnused'
  BY <1>1, <1>2 DEF OpenIsUnused, EnrollShape
<1>8. RowsAreMade'
  BY <1>1, <1>2, <1>4 DEF RowsAreMade, EnrollShape, E!Rows
<1>9. RevocationsStay'
  BY <1>2, <1>4 DEF RevocationsStay, EnrollShape, E!Rows
<1>10. E!OneDevicePerToken'
  BY <1>1, <1>2, <1>3 DEF E!OneDevicePerToken, OpenIsUnused, EnrollShape
<1> QED
  BY <1>5, <1>6, <1>7, <1>8, <1>9, <1>10

----------------------------------------------------------------------------
(* Steps of people. *)

\* A row is written without bringing back what was revoked, or is gone.
LEMMA RowKept ==
  ASSUME EnrollInv, UNCHANGED <<token, host, made, revoked>>,
         NEW d \in E!Rows, NEW row, device' = [device EXCEPT ![d] = row],
         row # None => "revoked" \in DOMAIN row /\ (device[d].revoked => row.revoked)
  PROVE  EnrollInv'
<1> USE DEF EnrollInv
<1>1. d \in Devices /\ E!Rows' \subseteq E!Rows
  BY DEF E!Rows, EnrollShape
<1>2. EnrollShape'
  BY <1>1 DEF EnrollShape, E!Rows
<1>3. RevocationsStay'
  BY <1>1 DEF RevocationsStay, EnrollShape, E!Rows
<1> QED
  BY <1>1, <1>2, <1>3 DEF Holding, OpenIsUnused, RowsAreMade, E!OneDevicePerToken

LEMMA PeopleKept ==
  ASSUME EnrollInv,
         \/ \E o \in Operators : E!Rotate(o) \/ E!Edit(o)
         \/ \E d \in Devices : E!Delete(d) \/ E!Revoke(d)
  PROVE  EnrollInv'
<1> USE DEF EnrollInv
<1>1. ASSUME NEW o \in Operators, E!Rotate(o) PROVE EnrollInv'
  <2>1. /\ deviceJob[o].id \in E!Rows /\ device' = [device EXCEPT ![deviceJob[o].id] = E!Rotated(o)]
        /\ UNCHANGED <<token, host, made, revoked>>
    BY <1>1 DEF E!Rotate, E!Commits
  <2>2. /\ "revoked" \in DOMAIN E!Rotated(o)
        /\ E!Rotated(o).revoked = device[deviceJob[o].id].revoked
    BY <2>1 DEF E!Rotated, EnrollShape
  <2> QED
    BY <2>1, <2>2, RowKept
<1>2. ASSUME NEW o \in Operators, E!Edit(o) PROVE EnrollInv'
  <2> DEFINE d == deviceJob[o].id
             row == [device[d] EXCEPT !.config = deviceJob[o].loaded + 1]
  <2>1. d \in E!Rows /\ device' = [device EXCEPT ![d] = row] /\ UNCHANGED <<token, host, made, revoked>>
    BY <1>2 DEF E!Edit, E!Commits
  <2>2. "revoked" \in DOMAIN row /\ row.revoked = device[d].revoked
    BY <2>1 DEF EnrollShape
  <2> HIDE DEF row, d
  <2> QED
    BY <2>1, <2>2, RowKept
<1>3. ASSUME NEW d \in Devices, E!Delete(d) PROVE EnrollInv'
  BY <1>3, RowKept DEF E!Delete
<1>4. ASSUME NEW d \in Devices, E!Revoke(d) PROVE EnrollInv'
  <2>1. /\ d \in E!Rows /\ device' = [device EXCEPT ![d].revoked = TRUE]
        /\ revoked' = revoked \cup {d} /\ UNCHANGED <<token, host, made>>
    BY <1>4 DEF E!Revoke
  <2>2. device'[d] = [device[d] EXCEPT !.revoked = TRUE] /\ device'[d].revoked
    BY <2>1 DEF EnrollShape
  <2>3. EnrollShape'
    BY <2>1, <2>2 DEF EnrollShape, E!Rows
  <2>4. E!Rows' \subseteq E!Rows /\ \A e \in E!Rows \ {d} : device'[e] = device[e]
    BY <2>1 DEF E!Rows, EnrollShape
  <2>5. RevocationsStay'
    BY <2>1, <2>2, <2>4 DEF RevocationsStay
  <2>6. RowsAreMade'
    BY <2>1, <2>4 DEF RowsAreMade
  <2> QED
    BY <2>1, <2>3, <2>5, <2>6 DEF Holding, OpenIsUnused, E!OneDevicePerToken
<1> QED
  BY <1>1, <1>2, <1>3, <1>4

LEMMA TokensKept ==
  ASSUME EnrollInv, E!RemoveVehicle \/ \E t \in Tokens : E!CreateEnrollment(t) \/ E!Expire(t)
  PROVE  EnrollInv'
<1> USE DEF EnrollInv
<1>1. ASSUME NEW t \in Tokens, E!CreateEnrollment(t) PROVE EnrollInv'
  <2> DEFINE unused == {u \in Tokens : token[u] = None /\ \A d \in Devices : made[d] # u}
  <2>1. t = E!Fresh(unused) /\ token' = [token EXCEPT ![t] = "open"]
        /\ UNCHANGED <<device, host, made, revoked>>
    BY <1>1 DEF E!CreateEnrollment
  <2>2. t \in unused
    <3> HIDE DEF unused
    <3> QED
      BY <2>1, FreshIsUnused, NoneIsNoToken
  <2>3. EnrollShape' /\ Holding'
    BY <2>1 DEF EnrollShape, E!Rows, Holding
  <2>4. OpenIsUnused'
    BY <2>1, <2>2 DEF OpenIsUnused, EnrollShape
  <2> QED
    BY <2>1, <2>3, <2>4 DEF RowsAreMade, RevocationsStay, E!OneDevicePerToken, E!Rows
<1>2. ASSUME NEW t \in Tokens, E!Expire(t) PROVE EnrollInv'
  <2>1. /\ \A h \in Hosts : host[h].at = "redeeming" => host[h].token # t
        /\ token' = [token EXCEPT ![t] = "expired"]
        /\ UNCHANGED <<device, host, made, revoked>>
    BY <1>2 DEF E!Expire
  <2>2. EnrollShape' /\ Holding' /\ OpenIsUnused'
    BY <2>1 DEF EnrollShape, E!Rows, Holding, OpenIsUnused
  <2> QED
    BY <2>1, <2>2 DEF RowsAreMade, RevocationsStay, E!OneDevicePerToken, E!Rows
<1>3. CASE E!RemoveVehicle
  <2>1. /\ \A t \in Tokens : E!Unlocked(t)
        /\ token' = [t \in Tokens |-> None] /\ device' = [d \in Devices |-> None]
        /\ UNCHANGED <<host, made, revoked>>
    BY <1>3 DEF E!RemoveVehicle
  <2>2. E!Rows' = {}
    BY <2>1 DEF E!Rows
  <2>3. \A h \in Hosts : host[h].at # "redeeming"
    BY <2>1 DEF Holding, E!Unlocked
  <2>4. EnrollShape' /\ Holding'
    BY <2>1, <2>2, <2>3 DEF EnrollShape, Holding
  <2>5. OpenIsUnused'
    BY <2>1, NoneIsNoToken DEF OpenIsUnused
  <2> QED
    BY <2>1, <2>2, <2>4, <2>5 DEF RowsAreMade, RevocationsStay, E!OneDevicePerToken
<1> QED
  BY <1>1, <1>2, <1>3

LEMMA HostsKept ==
  ASSUME EnrollInv, NEW h \in Hosts,
         \/ E!Redeem(h) \/ E!Enroll(h) \/ E!GiveUp(h) \/ E!StoreCredentials(h) \/ E!InstallIfNewer(h)
         \/ E!InstallService(h) \/ E!Sync(h)
  PROVE  EnrollInv'
<1> DEFINE Follows(state) ==
      /\ host' = [host EXCEPT ![h] = state] /\ UNCHANGED <<token, device, made, revoked>>
      /\ "at" \in DOMAIN state /\ state.at # "redeeming"
<1>1. DOMAIN host = Hosts /\ "at" \in DOMAIN host[h]
  BY DEF EnrollInv, EnrollShape
<1>2. CASE E!Redeem(h)
  BY <1>2, RedeemKept
<1>3. CASE E!Enroll(h)
  BY <1>3, EnrollKept
<1>4. CASE E!GiveUp(h)
  <2>1. Follows([at |-> "off", files |-> host[h].files])
    BY <1>1, <1>4 DEF E!GiveUp
  <2> QED
    BY <2>1, HostKept
<1>5. CASE E!StoreCredentials(h)
  <2>1. Follows([host[h] EXCEPT !.at = "stored",
          !.files = [@ EXCEPT !.credentials = host[h].answer, !.readable = FALSE]])
    BY <1>1, <1>5 DEF E!StoreCredentials
  <2> QED
    BY <2>1, HostKept
<1>6. CASE E!InstallIfNewer(h)
  <2>1. Follows([host[h] EXCEPT !.at = "configured",
          !.files.config = IF E!Newer(host[h].answer.config, host[h].files.config)
                           THEN [device |-> host[h].answer.device, version |-> host[h].answer.config]
                           ELSE @])
    BY <1>1, <1>6 DEF E!InstallIfNewer
  <2> QED
    BY <2>1, HostKept
<1>7. CASE E!InstallService(h)
  <2>1. Follows([at |-> "running", files |-> [host[h].files EXCEPT !.readable = TRUE]])
    BY <1>1, <1>7 DEF E!InstallService
  <2> QED
    BY <2>1, HostKept
<1>8. CASE E!Sync(h)
  <2>1. PICK d : Follows([host[h] EXCEPT !.files.config = [device |-> d, version |-> device[d].config]])
    BY <1>1, <1>8 DEF E!Sync
  <2> QED
    BY <2>1, HostKept
<1> QED
  BY <1>2, <1>3, <1>4, <1>5, <1>6, <1>7, <1>8

----------------------------------------------------------------------------

\* The inductive invariant of Enrollment.
THEOREM EnrollInductive ==
  E!Spec => []EnrollInv
<1>1. ASSUME EnrollInv, E!Next PROVE EnrollInv'
  <2>1. ASSUME NEW o \in Operators, E!Load(o) \/ E!Fail(o) PROVE EnrollInv'
    BY <1>1, <2>1
       DEF E!Load, E!Fail, EnrollInv, EnrollShape, Holding, OpenIsUnused, RowsAreMade,
           RevocationsStay, E!OneDevicePerToken, E!Rows
  <2> QED
    BY <1>1, <2>1, TokensKept, HostsKept, PeopleKept DEF E!Next
<1>2. ASSUME EnrollInv, UNCHANGED E!vars PROVE EnrollInv'
  BY <1>2
     DEF E!vars, EnrollInv, EnrollShape, Holding, OpenIsUnused, RowsAreMade, RevocationsStay,
         E!OneDevicePerToken, E!Rows
<1>3. EnrollInv /\ [E!Next]_(E!vars) => EnrollInv'
  BY <1>1, <1>2
<1> QED
  BY <1>3, EnrollInit, PTL DEF E!Spec

\* The lock on its row makes a token single-use, for any number of hosts that
\* redeem it at once, repeat an installation or lose the answer (enroll).
THEOREM TokenMakesOneDevice == ConsoleSpec => []OneDevicePerToken
<1>1. EnrollInv => OneDevicePerToken
  BY DEF OneDevicePerToken, EnrollInv
<1> QED
  BY <1>1, EnrollInductive, PartsSpec, PTL

\* No rotation or edit under way undoes a revocation (rotate_credential, revoke).
THEOREM RevocationHolds == ConsoleSpec => []RevokedStaysOut
<1>1. EnrollInv => RevokedStaysOut
  BY DEF RevokedStaysOut, EnrollInv, RevocationsStay, E!RevokedStaysOut, E!Opens
<1> QED
  BY <1>1, EnrollInductive, PartsSpec, PTL

----------------------------------------------------------------------------
(* HookEdits                                                                 *)

HookRows == [source : Sources, revision : Nat, filter : K!Filters]

EditTyped(r) ==
  edit[r] # K!Idle =>
    edit[r].loaded \in HookRows /\ (edit[r].op = "restore" => edit[r].source \in Sources)

EditsTypes ==
  /\ hook # None => hook \in HookRows
  /\ \A row \in revisions : row.revision \in Nat /\ row.source \in Sources
  /\ DOMAIN edit = Requests
  /\ \A r \in Requests : EditTyped(r)
  /\ lost \in BOOLEAN

\* What UNIQUE (hook_id, revision) needs to keep edits apart: what an edit has
\* loaded is no newer than the hook, and the same if its revision is.
Behind(loaded) ==
  /\ loaded.revision <= hook.revision
  /\ loaded.revision = hook.revision => loaded.source = hook.source

LoadedIsBehind ==
  hook # None /\ ~lost => \A r \in Requests : edit[r] # K!Idle => Behind(edit[r].loaded)

EditsInv == EditsTypes /\ K!CurrentRevisionIsLast /\ LoadedIsBehind

LEMMA EditsInit == K!Init => EditsInv
BY DEF K!Init, EditsInv, EditsTypes, EditTyped, K!CurrentRevisionIsLast, LoadedIsBehind

----------------------------------------------------------------------------
(* Types.                                                                  *)

LEMMA SavedTypes ==
  ASSUME EditsInv, NEW r \in Requests, edit[r] # K!Idle,
         NEW s \in Sources, NEW f \in K!Filters, K!Saves(r, s, f)
  PROVE  EditsTypes'
<1> DEFINE loaded == edit[r].loaded
<1>1. hook \in HookRows /\ loaded \in HookRows
  BY DEF EditsInv, EditsTypes, EditTyped, K!Saves
<1>2. hook' \in HookRows
  <2>1. /\ (IF s # loaded.source THEN s ELSE hook.source) \in Sources
        /\ (IF s # loaded.source THEN loaded.revision + 1 ELSE hook.revision) \in Nat
        /\ (IF f # loaded.filter THEN f ELSE hook.filter) \in K!Filters
    BY <1>1 DEF HookRows
  <2>2. hook' = K!Written(loaded, s, f)
    BY DEF K!Saves
  <2> QED
    BY <2>1, <2>2 DEF K!Written, HookRows
<1>3. \A row \in revisions' : row.revision \in Nat /\ row.source \in Sources
  <2>1. \A row \in revisions : row.revision \in Nat /\ row.source \in Sources
    BY DEF EditsInv, EditsTypes
  <2>2. loaded.revision + 1 \in Nat
    BY <1>1 DEF HookRows
  <2> QED
    BY <2>1, <2>2 DEF K!Saves, K!Row
<1>4. DOMAIN edit' = Requests /\ \A q \in Requests : EditTyped(q)'
  BY DEF EditsInv, EditsTypes, EditTyped, K!Saves
<1> QED
  BY <1>2, <1>3, <1>4 DEF EditsInv, EditsTypes, K!Saves

LEMMA LoadedTypes ==
  ASSUME EditsInv, NEW r \in Requests, K!Load(r)
  PROVE  EditsTypes'
<1>1. PICK u \in users :
        /\ edit[r] = K!Idle
        /\ hook # None
        /\ \/ edit' = [edit EXCEPT ![r] = [op |-> "edit", by |-> u, loaded |-> hook]]
           \/ \E saved \in revisions :
                edit' = [edit EXCEPT ![r] =
                  [op |-> "restore", by |-> u, loaded |-> hook, source |-> saved.source]]
        /\ UNCHANGED <<users, hooked, hook, revisions, lost>>
  BY DEF K!Load
<1>2. hook \in HookRows /\ DOMAIN edit = Requests
  BY <1>1 DEF EditsInv, EditsTypes
<1>3. DOMAIN edit' = Requests /\ \A q \in Requests : EditTyped(q)'
  <2>1. CASE edit' = [edit EXCEPT ![r] = [op |-> "edit", by |-> u, loaded |-> hook]]
    BY <2>1, <1>2 DEF EditsInv, EditsTypes, EditTyped
  <2>2. CASE \E saved \in revisions :
                edit' = [edit EXCEPT ![r] =
                  [op |-> "restore", by |-> u, loaded |-> hook, source |-> saved.source]]
    BY <2>2, <1>2 DEF EditsInv, EditsTypes, EditTyped
  <2> QED
    BY <1>1, <2>1, <2>2
<1> QED
  BY <1>1, <1>3 DEF EditsInv, EditsTypes

LEMMA EditTypesKept ==
  ASSUME EditsInv, [K!Next]_(K!vars)
  PROVE  EditsTypes'
<1>1. CASE UNCHANGED K!vars
  BY <1>1 DEF EditsInv, EditsTypes, EditTyped, K!vars
<1>2. CASE K!Create
  <2>1. PICK u \in users, s \in Sources, f \in K!Filters :
          /\ hook' = [source |-> s, revision |-> 1, filter |-> f]
          /\ revisions' = {K!Row(1, s, u)}
          /\ lost' = FALSE
          /\ UNCHANGED edit
    BY <1>2 DEF K!Create
  <2>2. hook' \in HookRows
    BY <2>1 DEF HookRows
  <2>3. K!Row(1, s, u).revision \in Nat /\ K!Row(1, s, u).source \in Sources
    BY DEF K!Row
  <2> QED
    BY <2>1, <2>2, <2>3 DEF EditsInv, EditsTypes, EditTyped
<1>3. ASSUME NEW r \in Requests, K!Load(r) PROVE EditsTypes'
  BY <1>3, LoadedTypes
<1>4. ASSUME NEW r \in Requests, K!Edit(r) PROVE EditsTypes'
  BY <1>4, SavedTypes DEF K!Edit, K!Idle
<1>5. ASSUME NEW r \in Requests, K!Restore(r) PROVE EditsTypes'
  <2>1. edit[r].loaded \in HookRows /\ edit[r].source \in Sources /\ edit[r] # K!Idle
    BY <1>5 DEF K!Restore, EditsInv, EditsTypes, EditTyped, K!Idle
  <2>2. edit[r].loaded.filter \in K!Filters
    BY <2>1 DEF HookRows
  <2> QED
    BY <1>5, <2>1, <2>2, SavedTypes DEF K!Restore
<1>6. ASSUME NEW r \in Requests, K!Fail(r) PROVE EditsTypes'
  BY <1>6 DEF K!Fail, EditsInv, EditsTypes, EditTyped
<1>7. CASE K!RemoveHook
  BY <1>7 DEF K!RemoveHook, EditsInv, EditsTypes, EditTyped
<1>8. CASE K!RemoveVehicle
  BY <1>8 DEF K!RemoveVehicle, EditsInv, EditsTypes, EditTyped
<1>9. ASSUME NEW u \in Accounts, K!RemoveAccount(u) PROVE EditsTypes'
  <2>1. lost' \in BOOLEAN
    BY <1>9 DEF K!RemoveAccount
  <2> QED
    BY <1>9, <2>1 DEF K!RemoveAccount, EditsInv, EditsTypes, EditTyped
<1> QED
  BY <1>1, <1>2, <1>3, <1>4, <1>5, <1>6, <1>7, <1>8, <1>9 DEF K!Next

----------------------------------------------------------------------------
(* Revisions.                                                              *)

\* Only an edit that has loaded the newest revision finds the next number free.
LEMMA NumberFreeIsNext ==
  ASSUME EditsInv, hook # None, ~lost,
         NEW r \in Requests, edit[r] # K!Idle, K!Free(edit[r].loaded.revision + 1)
  PROVE  /\ edit[r].loaded.revision = hook.revision
         /\ edit[r].loaded.source = hook.source
<1> DEFINE n == edit[r].loaded.revision
<1>1. n \in Nat /\ hook.revision \in Nat /\ Behind(edit[r].loaded)
  BY DEF EditsInv, EditsTypes, EditTyped, HookRows, LoadedIsBehind
<1>2. n + 1 \notin 1..hook.revision
  BY DEF EditsInv, K!CurrentRevisionIsLast, K!Free
<1>3. n = hook.revision
  BY <1>1, <1>2 DEF Behind
<1> QED
  BY <1>1, <1>3 DEF Behind

LEMMA SavedKept ==
  ASSUME EditsInv, NEW r \in Requests, edit[r] # K!Idle,
         NEW s \in Sources, NEW f \in K!Filters, K!Saves(r, s, f)
  PROVE  K!CurrentRevisionIsLast' /\ LoadedIsBehind'
<1> DEFINE loaded == edit[r].loaded
<1> SUFFICES ASSUME ~lost PROVE K!CurrentRevisionIsLast' /\ LoadedIsBehind'
  BY DEF K!Saves, K!CurrentRevisionIsLast, LoadedIsBehind
<1>1. hook # None /\ hook \in HookRows /\ hook.revision \in Nat
  BY DEF EditsInv, EditsTypes, K!Saves, HookRows
<1>2. \A q \in Requests : edit'[q] # K!Idle => edit'[q] = edit[q]
  BY DEF EditsInv, EditsTypes, K!Saves
<1>3. CASE s = loaded.source
  <2>1. hook'.source = hook.source /\ hook'.revision = hook.revision /\ UNCHANGED <<revisions, lost>>
    BY <1>3 DEF K!Saves, K!Written
  <2> QED
    BY <2>1, <1>1, <1>2 DEF EditsInv, K!CurrentRevisionIsLast, LoadedIsBehind, Behind
<1>4. CASE s # loaded.source
  <2>1. K!Free(loaded.revision + 1)
    BY <1>4 DEF K!Saves
  <2>2. loaded.revision = hook.revision /\ loaded.source = hook.source
    BY <2>1, <1>1, NumberFreeIsNext
  <2>3. /\ hook'.source = s /\ hook'.revision = hook.revision + 1
        /\ revisions' = revisions \cup {K!Row(hook.revision + 1, s, edit[r].by)}
        /\ lost' = lost
    BY <1>4, <2>2 DEF K!Saves, K!Written
  <2>4. /\ K!Row(hook.revision + 1, s, edit[r].by).revision = hook.revision + 1
        /\ K!Row(hook.revision + 1, s, edit[r].by).source = s
    BY DEF K!Row
  <2>5. K!CurrentRevisionIsLast'
    <3>1. /\ \A row \in revisions : row.revision \in 1..hook.revision
          /\ \A n \in 1..hook.revision : \E row \in revisions : row.revision = n
          /\ \A row, other \in revisions : row.revision = other.revision => row = other
      BY <1>1 DEF EditsInv, K!CurrentRevisionIsLast
    <3>2. \A row \in revisions' : row.revision \in 1..hook'.revision
      BY <3>1, <2>3, <2>4, <1>1
    <3>3. \A n \in 1..hook'.revision : \E row \in revisions' : row.revision = n
      <4>1. \A n \in 1..hook'.revision : n \in 1..hook.revision \/ n = hook.revision + 1
        BY <2>3, <1>1
      <4> QED
        BY <4>1, <3>1, <2>3, <2>4
    <3>4. \A row \in revisions : row.revision # hook.revision + 1
      BY <3>1, <1>1
    <3>5. \A row, other \in revisions' : row.revision = other.revision => row = other
      BY <3>1, <3>4, <2>3, <2>4
    <3>6. \A row \in revisions' : row.revision = hook'.revision => row.source = hook'.source
      BY <3>4, <2>3, <2>4
    <3> QED
      BY <3>2, <3>3, <3>5, <3>6 DEF K!CurrentRevisionIsLast
  <2>6. LoadedIsBehind'
    <3> SUFFICES ASSUME NEW q \in Requests, edit'[q] # K!Idle
                 PROVE  Behind(edit[q].loaded)'
      BY DEF LoadedIsBehind
    <3>1. edit'[q] = edit[q] /\ edit[q] # K!Idle
      BY <1>2
    <3>2. Behind(edit[q].loaded) /\ edit[q].loaded.revision \in Nat
      BY <3>1, <1>1 DEF EditsInv, LoadedIsBehind, EditsTypes, EditTyped, HookRows
    <3> QED
      BY <3>1, <3>2, <2>3, <1>1 DEF Behind
  <2> QED
    BY <2>5, <2>6
<1> QED
  BY <1>3, <1>4

LEMMA RevisionsKept ==
  ASSUME EditsInv, [K!Next]_(K!vars)
  PROVE  K!CurrentRevisionIsLast' /\ LoadedIsBehind'
<1> USE DEF EditsInv
<1>1. CASE UNCHANGED K!vars
  BY <1>1 DEF K!vars, K!CurrentRevisionIsLast, LoadedIsBehind, Behind
<1>2. CASE K!Create
  <2>1. PICK u \in users, s \in Sources, f \in K!Filters :
          /\ \A r \in Requests : edit[r] = K!Idle
          /\ hook' = [source |-> s, revision |-> 1, filter |-> f]
          /\ revisions' = {K!Row(1, s, u)}
          /\ UNCHANGED edit
    BY <1>2 DEF K!Create
  <2>2. hook'.revision = 1 /\ hook'.source = s
    BY <2>1
  <2>3. K!Row(1, s, u).revision = 1 /\ K!Row(1, s, u).source = s
    BY DEF K!Row
  <2>4. K!CurrentRevisionIsLast'
    <3>1. \A n \in 1..1 : n = 1
      OBVIOUS
    <3> QED
      BY <2>1, <2>2, <2>3, <3>1 DEF K!CurrentRevisionIsLast
  <2> QED
    BY <2>1, <2>4 DEF LoadedIsBehind
<1>3. ASSUME NEW r \in Requests, K!Load(r) PROVE K!CurrentRevisionIsLast' /\ LoadedIsBehind'
  <2>1. UNCHANGED <<hook, revisions, lost>> /\ hook # None
    BY <1>3 DEF K!Load
  <2>2. \A q \in Requests : edit'[q] = edit[q] \/ edit'[q].loaded = hook
    BY <1>3 DEF K!Load, EditsTypes
  <2>3. hook.revision \in Nat
    BY <2>1 DEF EditsTypes, HookRows
  <2> QED
    BY <2>1, <2>2, <2>3 DEF K!CurrentRevisionIsLast, LoadedIsBehind, Behind
<1>4. ASSUME NEW r \in Requests, K!Edit(r) PROVE K!CurrentRevisionIsLast' /\ LoadedIsBehind'
  BY <1>4, SavedKept DEF K!Edit, K!Idle
<1>5. ASSUME NEW r \in Requests, K!Restore(r) PROVE K!CurrentRevisionIsLast' /\ LoadedIsBehind'
  <2>1. edit[r].loaded \in HookRows /\ edit[r].source \in Sources /\ edit[r] # K!Idle
    BY <1>5 DEF K!Restore, EditsTypes, EditTyped, K!Idle
  <2>2. edit[r].loaded.filter \in K!Filters
    BY <2>1 DEF HookRows
  <2> QED
    BY <1>5, <2>1, <2>2, SavedKept DEF K!Restore
<1>6. ASSUME NEW r \in Requests, K!Fail(r) PROVE K!CurrentRevisionIsLast' /\ LoadedIsBehind'
  BY <1>6 DEF K!Fail, EditsTypes, K!CurrentRevisionIsLast, LoadedIsBehind, Behind
<1>7. CASE K!RemoveHook
  BY <1>7 DEF K!RemoveHook, K!CurrentRevisionIsLast, LoadedIsBehind
<1>8. CASE K!RemoveVehicle
  BY <1>8 DEF K!RemoveVehicle, K!CurrentRevisionIsLast, LoadedIsBehind, Behind
<1>9. ASSUME NEW u \in Accounts, K!RemoveAccount(u) PROVE K!CurrentRevisionIsLast' /\ LoadedIsBehind'
  <2>1. UNCHANGED <<hook, edit>> /\ (~lost' => ~lost /\ revisions' = revisions)
    BY <1>9 DEF K!RemoveAccount, EditsTypes
  <2> QED
    BY <2>1 DEF K!CurrentRevisionIsLast, LoadedIsBehind, Behind
<1> QED
  BY <1>1, <1>2, <1>3, <1>4, <1>5, <1>6, <1>7, <1>8, <1>9 DEF K!Next

----------------------------------------------------------------------------

\* The inductive invariant of HookEdits.
THEOREM EditsInductive == K!Spec => []EditsInv
<1>1. EditsInv /\ [K!Next]_(K!vars) => EditsInv'
  BY EditTypesKept, RevisionsKept DEF EditsInv
<1> QED
  BY <1>1, EditsInit, PTL DEF K!Spec

\* However many edits and restorations overlap, the unique number alone keeps
\* the revisions in order: no gap, no second row of one number, and the newest
\* is what runs (update_hook, restore_revision).
THEOREM NewestRevisionRuns == ConsoleSpec => []CurrentRevisionIsLast
<1>1. EditsInv => CurrentRevisionIsLast
  BY DEF CurrentRevisionIsLast, EditsInv
<1> QED
  BY <1>1, EditsInductive, PartsSpec, PTL

\* The next edit of a hook, when nobody else is editing it, finds its number
\* free (update_hook).
THEOREM NextEditIsFree ==
  ConsoleSpec => [](hook # None /\ ~lost => K!Free(hook.revision + 1))
<1>1. EditsInv => (hook # None /\ ~lost => K!Free(hook.revision + 1))
  BY DEF EditsInv, EditsTypes, HookRows, K!CurrentRevisionIsLast, K!Free
<1> QED
  BY <1>1, EditsInductive, PartsSpec, PTL

----------------------------------------------------------------------------
(* VehiclePhotos                                                             *)

PhotoKeys == Contents \cup {None}
PhotoWork == [op : {"upload", "delete", "remove"}, at : {"body", "commit", "clean"},
         old : PhotoKeys, new : PhotoKeys]

LEMMA NoneIsNoPhoto == None \notin Contents
BY ConsoleAssumption DEF NoneIsNoValue

\* Of an upload nothing is stored while its body arrives, and something after it.
PhotosTyped ==
  /\ photo \in PhotoKeys
  /\ photoJob \in [Requests -> {P!Idle} \cup PhotoWork]
  /\ \A r \in Requests : photoJob[r].op = "upload" =>
       (photoJob[r].new = None <=> photoJob[r].at = "body")
  /\ \A r \in Requests : P!Busy(r) /\ photoJob[r].op # "upload" =>
       photoJob[r].new = None /\ photoJob[r].at # "body"

\* Contents that two requests have in hand are contested.
SharedIsContested ==
  \A q, r \in Requests : q # r => P!InHand(q) \cap P!InHand(r) \subseteq contested

\* What a request will remove is not the photo: not the file of an upload that
\* may be undone, and not the one a clean-up is about.
WillRemove(r) ==
  IF photoJob[r].at = "commit" THEN {photoJob[r].new} \ {photoJob[r].old} ELSE {photoJob[r].old} \ {photoJob[r].new}

PhotoStays ==
  \A r \in Requests :
    P!Busy(r) /\ photoJob[r].at \in (IF photoJob[r].op = "upload" THEN {"commit", "clean"} ELSE {"clean"})
      => {photo} \cap (WillRemove(r) \ {None}) \subseteq contested

\* An upload that commits has its file.
StoredIsThere ==
  \A r \in Requests : P!Is(r, "upload", "commit") => photoJob[r].new \in files \cup contested

PhotosInv == PhotosTyped /\ SharedIsContested /\ PhotoStays /\ StoredIsThere /\ P!PhotoIsThere

\* Without overlaps there is one request, and it accounts for every file.
Accounted(r) ==
  CASE photoJob[r].op = "upload" /\ photoJob[r].at = "commit" -> photoJob[r].old = photo /\ files \subseteq {photo, photoJob[r].new}
    [] photoJob[r].op = "upload" /\ photoJob[r].at = "clean" ->
         files \subseteq {photo} \cup ({photoJob[r].old} \ {photoJob[r].new})
    [] photoJob[r].op # "upload" /\ photoJob[r].at = "clean" -> files \subseteq {photoJob[r].old}
    [] OTHER -> photoJob[r].old = photo /\ files \subseteq {photo}

FilesInv ==
  astray \/
    /\ \A q, r \in Requests : P!Busy(q) /\ P!Busy(r) => q = r
    /\ \A r \in Requests : P!Busy(r) => Accounted(r)
    /\ (\A r \in Requests : ~P!Busy(r)) => files \subseteq {photo}

LEMMA PhotosInit == P!Init => PhotosInv /\ FilesInv
BY NoneIsNoPhoto
   DEF P!Init, PhotosInv, PhotosTyped, SharedIsContested, P!InHand, P!Busy, PhotoStays,
       WillRemove, StoredIsThere, P!PhotoIsThere, FilesInv, PhotoKeys, P!Idle, P!Is

\* What a step of one request does to the work in hand.
LEMMA PhotoTypesKept ==
  ASSUME PhotosTyped, P!Next PROVE PhotosTyped'
<1> USE DEF PhotosTyped
<1>1. CASE P!Crash
  BY <1>1 DEF P!Crash, P!Idle, P!Busy
<1>2. ASSUME NEW r \in Requests, NEW op \in {"upload", "delete", "remove"},
             NEW at \in {"body", "commit"},
             at = "body" <=> op = "upload", P!Starts(r, op, at)
      PROVE  PhotosTyped'
  BY <1>2 DEF P!Starts, P!Busy, PhotoWork, PhotoKeys, P!Idle
<1>3. ASSUME NEW r \in Requests, P!Ends(r), photo' = photo \/ photo' = None \/ photo' \in PhotoKeys
      PROVE  PhotosTyped'
  BY <1>3 DEF P!Ends, P!Busy, P!Idle, PhotoKeys
<1>4. ASSUME NEW r \in Requests, P!Busy(r), photoJob[r].at = "commit", P!Goes(r, "clean"),
             photo' \in PhotoKeys
      PROVE  PhotosTyped'
  <2>1. photoJob[r] \in PhotoWork
    BY <1>4 DEF P!Busy
  <2>2. photoJob'[r] \in PhotoWork /\ photoJob'[r].op = photoJob[r].op /\ photoJob'[r].new = photoJob[r].new /\ photoJob'[r].at = "clean"
    BY <1>4, <2>1 DEF P!Goes, PhotoWork
  <2> QED
    BY <1>4, <2>2 DEF P!Goes, P!Busy
<1>5. ASSUME NEW r \in Requests, P!Store(r) PROVE PhotosTyped'
  <2>1. PICK c \in Contents : photoJob' = [photoJob EXCEPT ![r].at = "commit", ![r].new = c]
    BY <1>5 DEF P!Store
  <2>2. photoJob[r] \in PhotoWork
    BY <1>5 DEF P!Store, P!Is, P!Idle
  <2>3. photoJob'[r] \in PhotoWork /\ photoJob'[r].op = "upload" /\ photoJob'[r].new = c /\ photoJob'[r].at = "commit"
    BY <1>5, <2>1, <2>2 DEF P!Store, P!Is, PhotoWork, PhotoKeys
  <2> QED
    BY <1>5, <2>1, <2>3, NoneIsNoPhoto DEF P!Store, P!Busy
<1>6. ASSUME NEW r \in Requests, P!CommitUpload(r) PROVE PhotosTyped'
  <2>1. P!Busy(r) /\ photoJob[r].at = "commit" /\ photo' \in PhotoKeys
    BY <1>6 DEF P!CommitUpload, P!Is, P!Stored, P!Busy, P!Idle, PhotoWork
  <2> QED
    BY <1>4, <1>6, <2>1 DEF P!CommitUpload
<1>7. ASSUME NEW r \in Requests, P!DeletePhoto(r) \/ P!RemoveVehicle(r) PROVE PhotosTyped'
  <2>1. P!Busy(r) /\ photoJob[r].at = "commit" /\ photo' = None
    BY <1>7 DEF P!DeletePhoto, P!RemoveVehicle, P!Is, P!Busy, P!Idle
  <2> QED
    BY <1>3, <1>4, <1>7, <2>1 DEF P!DeletePhoto, P!RemoveVehicle, PhotoKeys
<1>8. ASSUME NEW r \in Requests, P!UndoCommitted(r) PROVE PhotosTyped'
  <2>1. photo' \in PhotoKeys /\ P!Ends(r)
    BY <1>8 DEF P!UndoCommitted, P!Is, P!Stored, P!Idle, PhotoWork
  <2> QED
    BY <1>3, <2>1
<1> QED
  BY <1>1, <1>2, <1>3, <1>5, <1>6, <1>7, <1>8
     DEF P!Next, P!BeginUpload, P!BeginDelete, P!BeginRemove, P!Refuse, P!Undo, P!CleanUpload,
         P!CleanDeleted, P!RemovalFails, P!Fail

LEMMA PhotosKept ==
  ASSUME PhotosInv, P!Next PROVE PhotosInv'
<1> USE DEF PhotosInv
<1>0. PhotosTyped' /\ PhotosTyped
  BY PhotoTypesKept
<1>1. CASE P!Crash
  BY <1>0, <1>1
     DEF P!Crash, SharedIsContested, P!InHand, P!Busy, PhotoStays, StoredIsThere,
         P!PhotoIsThere, P!Is, P!Idle
<1>2. ASSUME NEW r \in Requests, NEW op \in {"upload", "delete", "remove"},
             NEW at \in {"body", "commit"},
             at = "body" <=> op = "upload", P!Starts(r, op, at)
      PROVE  PhotosInv'
  <2>1. photoJob'[r].op = op /\ photoJob'[r].at = at /\ photoJob'[r].old = photo /\ photoJob'[r].new = None /\ P!Busy(r)'
    BY <1>0, <1>2 DEF P!Starts, PhotosTyped, P!Busy, P!Idle
  <2>2. \A q \in Requests \ {r} : photoJob'[q] = photoJob[q] /\ P!InHand(q)' = P!InHand(q)
    BY <1>0, <1>2 DEF P!Starts, PhotosTyped, P!InHand, P!Busy
  <2>3. P!InHand(r)' = {photo} \ {None}
    BY <2>1 DEF P!InHand
  <2>4. \A q \in Requests : P!InHand(q) \cap {photo} \subseteq contested'
    BY <1>2 DEF P!Starts
  <2>5. contested \subseteq contested' /\ UNCHANGED <<photo, files>>
    BY <1>2 DEF P!Starts
  <2>6. SharedIsContested'
    BY <2>2, <2>3, <2>4, <2>5 DEF SharedIsContested
  <2>7. PhotoStays' /\ StoredIsThere'
    BY <1>2, <2>1, <2>2, <2>5 DEF PhotoStays, StoredIsThere, WillRemove, P!Busy, P!Is
  <2> QED
    BY <1>0, <2>5, <2>6, <2>7 DEF P!PhotoIsThere
<1>3. ASSUME NEW r \in Requests, P!Busy(r), P!Ends(r),
             NEW gone \in SUBSET (P!InHand(r) \cup {None}),
             files' = files \ gone, {photo} \cap (gone \ {None}) \subseteq contested,
             photo' = photo \/ photo' = None, UNCHANGED contested
      PROVE  PhotosInv'
  <2>1. photoJob'[r] = P!Idle /\ \A q \in Requests \ {r} :
          photoJob'[q] = photoJob[q] /\ P!InHand(q)' = P!InHand(q)
    BY <1>0, <1>3 DEF P!Ends, PhotosTyped, P!InHand, P!Busy
  <2>2. P!InHand(r)' = {}
    BY <2>1 DEF P!InHand, P!Busy
  <2>3. SharedIsContested'
    BY <1>3, <2>1, <2>2 DEF SharedIsContested
  <2>4. PhotoStays'
    BY <1>3, <2>1 DEF PhotoStays, WillRemove, P!Busy
  <2>5. ASSUME NEW q \in Requests, P!Is(q, "upload", "commit")'
        PROVE  photoJob'[q].new \in files' \cup contested'
    <3>1. q # r /\ photoJob'[q] = photoJob[q] /\ P!Is(q, "upload", "commit") /\ P!Busy(q)
      BY <2>1, <2>5 DEF P!Is, P!Idle, P!Busy
    <3>2. photoJob[q].new \in files \cup contested /\ photoJob[q].new # None /\ photoJob[q].new \in P!InHand(q)
      BY <1>0, <3>1 DEF StoredIsThere, PhotosTyped, P!Is, P!InHand, P!Busy
    <3>3. photoJob[q].new \in gone => photoJob[q].new \in contested
      BY <1>3, <3>1, <3>2 DEF SharedIsContested
    <3> QED
      BY <1>3, <3>1, <3>2, <3>3
  <2> QED
    BY <1>0, <1>3, <2>3, <2>4, <2>5 DEF StoredIsThere, P!PhotoIsThere
<1>4. ASSUME NEW r \in Requests, P!Refuse(r) \/ P!Fail(r) \/ P!RemovalFails(r) PROVE PhotosInv'
  <2>1. P!Busy(r) /\ files' = files \ {}
    BY <1>4 DEF P!Refuse, P!Fail, P!RemovalFails, P!Is, P!Busy, P!Idle
  <2> QED
    BY <1>3, <1>4, <2>1 DEF P!Refuse, P!Fail, P!RemovalFails
<1>5. ASSUME NEW r \in Requests, P!Store(r) PROVE PhotosInv'
  <2>1. PICK c \in Contents :
          /\ files' = files \cup {c}
          /\ photoJob' = [photoJob EXCEPT ![r].at = "commit", ![r].new = c]
          /\ contested' = IF c \in UNION {P!InHand(q) : q \in Requests \ {r}} \/ (c = photo /\ photoJob[r].old # c)
                          THEN contested \cup {c} ELSE contested \ {c}
    BY <1>5 DEF P!Store
  <2>2. photoJob[r] \in PhotoWork /\ P!Busy(r) /\ photoJob[r].op = "upload" /\ photoJob[r].new = None /\ photo' = photo
    BY <1>0, <1>5 DEF P!Store, P!Is, P!Idle, PhotosTyped, P!Busy
  <2>3. photoJob'[r] \in PhotoWork /\ photoJob'[r].op = "upload" /\ photoJob'[r].new = c /\ photoJob'[r].at = "commit"
        /\ photoJob'[r].old = photoJob[r].old /\ P!Busy(r)'
    BY <1>0, <2>1, <2>2 DEF PhotoWork, PhotoKeys, PhotosTyped, P!Busy, P!Idle
  <2>4. \A q \in Requests \ {r} : photoJob'[q] = photoJob[q] /\ P!InHand(q)' = P!InHand(q)
    BY <1>0, <2>1 DEF PhotosTyped, P!InHand, P!Busy
  <2>5. P!InHand(r)' \subseteq P!InHand(r) \cup {c}
    BY <2>2, <2>3 DEF P!InHand
  <2>6. \A q \in Requests \ {r} : P!InHand(q) \cap {c} \subseteq contested'
    BY <2>1
  <2>7. \A x \in contested : x = c \/ x \in contested'
    BY <2>1
  <2>8. SharedIsContested'
    BY <2>4, <2>5, <2>6, <2>7 DEF SharedIsContested
  <2>9. ASSUME NEW q \in Requests, P!Busy(q)',
               photoJob'[q].at \in (IF photoJob'[q].op = "upload" THEN {"commit", "clean"} ELSE {"clean"}),
               photo \in WillRemove(q)' \ {None}
        PROVE  photo \in contested'
    <3>1. CASE q = r
      BY <2>1, <2>2, <2>3, <2>9, <3>1 DEF WillRemove
    <3>2. CASE q # r
      <4>1. photo \in contested
        BY <2>4, <2>9, <3>2 DEF PhotoStays, WillRemove, P!Busy
      <4>2. photo \in P!InHand(q)
        BY <2>4, <2>9, <3>2 DEF WillRemove, P!InHand, P!Busy
      <4> QED
        BY <2>6, <2>7, <3>2, <4>1, <4>2
    <3> QED
      BY <3>1, <3>2
  <2>10. ASSUME NEW q \in Requests, P!Is(q, "upload", "commit")'
         PROVE  photoJob'[q].new \in files' \cup contested'
    <3>1. CASE q = r
      BY <2>1, <2>3, <3>1
    <3>2. CASE q # r
      <4>1. photoJob[q].new \in files \cup contested
        BY <2>4, <2>10, <3>2 DEF StoredIsThere, P!Is
      <4>2. photoJob[q].new \in files \/ photoJob[q].new = c \/ photoJob[q].new \in contested'
        BY <2>7, <4>1
      <4>3. photoJob[q].new \in files' \cup contested'
        BY <2>1, <4>2
      <4> QED
        BY <2>4, <3>2, <4>3
    <3> QED
      BY <3>1, <3>2
  <2> QED
    BY <1>0, <2>1, <2>2, <2>7, <2>8, <2>9, <2>10 DEF P!PhotoIsThere, PhotoStays, StoredIsThere
<1>6. ASSUME NEW r \in Requests, P!Busy(r), photoJob[r].at = "commit", P!Goes(r, "clean"),
             UNCHANGED <<files, contested>>,
             \/ photo' = None
             \/ photoJob[r].op = "upload" /\ photo' = P!Stored(r)
      PROVE  PhotosInv'
  <2>1. photoJob[r] \in PhotoWork
    BY <1>0, <1>6 DEF PhotosTyped, P!Busy
  <2>2. photoJob'[r] \in PhotoWork /\ photoJob'[r].op = photoJob[r].op /\ photoJob'[r].new = photoJob[r].new /\ photoJob'[r].old = photoJob[r].old
        /\ photoJob'[r].at = "clean" /\ P!Busy(r)'
    BY <1>0, <1>6, <2>1 DEF P!Goes, PhotosTyped, PhotoWork, P!Busy, P!Idle
  <2>3. \A q \in Requests \ {r} : photoJob'[q] = photoJob[q] /\ P!InHand(q)' = P!InHand(q)
    BY <1>0, <1>6 DEF P!Goes, PhotosTyped, P!InHand, P!Busy
  <2>4. P!InHand(r)' = P!InHand(r)
    BY <1>6, <2>2 DEF P!InHand
  <2>5. SharedIsContested'
    BY <1>6, <2>3, <2>4 DEF SharedIsContested
  <2>6. StoredIsThere'
    BY <1>6, <2>2, <2>3 DEF StoredIsThere, P!Is
  <2>7. CASE photo' = None
    BY <1>0, <2>5, <2>6, <2>7 DEF PhotoStays, P!PhotoIsThere
  <2>8. CASE photo' = photo /\ photoJob[r].op = "upload" /\ photoJob[r].old = photoJob[r].new
    <3>1. PhotoStays'
      BY <1>6, <2>2, <2>3, <2>8 DEF PhotoStays, WillRemove, P!Busy
    <3> QED
      BY <1>0, <1>6, <2>5, <2>6, <2>8, <3>1 DEF P!PhotoIsThere
  <2>9. CASE photo' = photoJob[r].new /\ photoJob[r].op = "upload" /\ photoJob[r].old # photoJob[r].new
    <3>1. photo' \in files \cup contested /\ photo' \in P!InHand(r)
      BY <1>0, <1>6, <2>9 DEF StoredIsThere, P!Is, P!InHand, PhotosTyped, P!Busy
    <3>2. PhotoStays'
      <4> SUFFICES ASSUME NEW q \in Requests, P!Busy(q)',
               photoJob'[q].at \in (IF photoJob'[q].op = "upload" THEN {"commit", "clean"} ELSE {"clean"}),
               photo' \in WillRemove(q)' \ {None}
          PROVE  photo' \in contested'
        BY DEF PhotoStays
      <4>1. q # r
        BY <2>2, <2>9 DEF WillRemove
      <4>2. photo' \in P!InHand(q)
        BY <2>3, <4>1 DEF WillRemove, P!InHand, P!Busy
      <4> QED
        BY <1>6, <3>1, <4>1, <4>2 DEF SharedIsContested
    <3> QED
      BY <1>0, <1>6, <2>5, <2>6, <3>1, <3>2 DEF P!PhotoIsThere
  <2> QED
    BY <1>6, <2>7, <2>8, <2>9 DEF P!Stored
<1>7. ASSUME NEW r \in Requests, P!CommitUpload(r) PROVE PhotosInv'
  BY <1>6, <1>7 DEF P!CommitUpload, P!Is, P!Busy, P!Idle
<1>8. ASSUME NEW r \in Requests, P!DeletePhoto(r) \/ P!RemoveVehicle(r) PROVE PhotosInv'
  <2>1. P!Busy(r) /\ photoJob[r].at = "commit" /\ photo' = None /\ UNCHANGED <<files, contested>>
    BY <1>8 DEF P!DeletePhoto, P!RemoveVehicle, P!Is, P!Busy, P!Idle
  <2>2. files' = files \ {}
    BY <2>1
  <2> QED
    BY <1>3, <1>6, <1>8, <2>1, <2>2 DEF P!DeletePhoto, P!RemoveVehicle
<1>9. ASSUME NEW r \in Requests, P!Undo(r) PROVE PhotosInv'
  <2>1. P!Busy(r) /\ P!Is(r, "upload", "commit")
    BY <1>9 DEF P!Undo, P!Is, P!Busy, P!Idle
  <2> DEFINE gone == {photoJob[r].new} \ {photoJob[r].old}
  <2>2. gone \subseteq P!InHand(r) \cup {None} /\ files' = files \ gone
    BY <1>9, <2>1 DEF P!Undo, P!InHand
  <2>3. {photo} \cap (gone \ {None}) \subseteq contested
    BY <2>1 DEF PhotoStays, WillRemove, P!Is
  <2> QED
    BY <1>3, <1>9, <2>1, <2>2, <2>3 DEF P!Undo
<1>10. ASSUME NEW r \in Requests, P!CleanUpload(r) PROVE PhotosInv'
  <2>1. P!Busy(r) /\ photoJob[r].at = "clean" /\ photoJob[r].op = "upload"
    BY <1>10 DEF P!CleanUpload, P!Is, P!Busy, P!Idle
  <2> DEFINE gone == {photoJob[r].old} \ {photoJob[r].new}
  <2>2. gone \subseteq P!InHand(r) \cup {None} /\ files' = files \ gone
    BY <1>10, <2>1 DEF P!CleanUpload, P!InHand
  <2>3. {photo} \cap (gone \ {None}) \subseteq contested
    BY <2>1 DEF PhotoStays, WillRemove
  <2> QED
    BY <1>3, <1>10, <2>1, <2>2, <2>3 DEF P!CleanUpload
<1>11. ASSUME NEW r \in Requests, P!CleanDeleted(r) PROVE PhotosInv'
  <2>1. P!Busy(r) /\ photoJob[r].at = "clean" /\ photoJob[r].op # "upload"
    BY <1>11 DEF P!CleanDeleted, P!Is, P!Busy, P!Idle
  <2> DEFINE gone == {photoJob[r].old}
  <2>2. gone \subseteq P!InHand(r) \cup {None} /\ files' = files \ gone
    BY <1>11, <2>1 DEF P!CleanDeleted, P!InHand
  <2>3. {photo} \cap (gone \ {None}) \subseteq contested
    BY <1>0, <2>1 DEF PhotoStays, WillRemove, PhotosTyped
  <2> QED
    BY <1>3, <1>11, <2>1, <2>2, <2>3 DEF P!CleanDeleted
<1>12. ASSUME NEW r \in Requests, P!UndoCommitted(r) PROVE PhotosInv'
  <2>1. P!Busy(r) /\ P!Is(r, "upload", "commit") /\ P!Ends(r)
    BY <1>12 DEF P!UndoCommitted, P!Is, P!Busy, P!Idle
  <2>2. CASE photoJob[r].new = photoJob[r].old
    <3>1. photo' = photo /\ files' = files \ {} /\ contested' = contested
      BY <1>12, <2>2 DEF P!UndoCommitted, P!Stored
    <3> QED
      BY <1>3, <2>1, <3>1
  <2>3. CASE photoJob[r].new # photoJob[r].old
    <3>1. /\ photo' = photoJob[r].new
          /\ files' = files \ {photoJob[r].new}
          /\ contested' = contested \cup {photoJob[r].new}
      BY <1>12, <2>3 DEF P!UndoCommitted, P!Stored
    <3>2. photoJob'[r] = P!Idle /\ \A q \in Requests \ {r} :
            photoJob'[q] = photoJob[q] /\ P!InHand(q)' = P!InHand(q)
      BY <1>0, <2>1 DEF P!Ends, PhotosTyped, P!InHand, P!Busy
    <3>3. P!InHand(r)' = {}
      BY <3>2 DEF P!InHand, P!Busy
    <3>4. SharedIsContested'
      BY <3>1, <3>2, <3>3 DEF SharedIsContested
    <3>5. PhotoStays' /\ P!PhotoIsThere'
      BY <3>1 DEF PhotoStays, P!PhotoIsThere
    <3>6. ASSUME NEW q \in Requests, P!Is(q, "upload", "commit")'
          PROVE  photoJob'[q].new \in files' \cup contested'
      <4>1. q # r /\ photoJob'[q] = photoJob[q] /\ P!Is(q, "upload", "commit")
        BY <3>2, <3>6 DEF P!Is, P!Idle
      <4> QED
        BY <3>1, <4>1 DEF StoredIsThere
    <3> QED
      BY <1>0, <3>4, <3>5, <3>6 DEF StoredIsThere
  <2> QED
    BY <2>2, <2>3
<1> QED
  BY <1>1, <1>2, <1>4, <1>5, <1>7, <1>8, <1>9, <1>10, <1>11, <1>12
     DEF P!Next, P!BeginUpload, P!BeginDelete, P!BeginRemove

----------------------------------------------------------------------------
(* Files.                                                                  *)

LEMMA FilesKept ==
  ASSUME PhotosTyped, FilesInv, P!Next PROVE FilesInv'
<1>0. PhotosTyped' /\ PhotosTyped
  BY PhotoTypesKept
<1>1. CASE P!Crash
  BY <1>1 DEF P!Crash, FilesInv
<1>2. ASSUME NEW r \in Requests, NEW op \in {"upload", "delete", "remove"},
             NEW at \in {"body", "commit"},
             at = "body" <=> op = "upload", P!Starts(r, op, at)
      PROVE  FilesInv'
  <2>1. photoJob'[r].op = op /\ photoJob'[r].at = at /\ photoJob'[r].old = photo
    BY <1>0, <1>2 DEF P!Starts, PhotosTyped
  <2>2. \A q \in Requests \ {r} : photoJob'[q] = photoJob[q]
    BY <1>0, <1>2 DEF P!Starts, PhotosTyped
  <2>3. (\E q \in Requests : P!Busy(q)) => astray'
    BY <1>2 DEF P!Starts
  <2>4. CASE \A q \in Requests : ~P!Busy(q)
    <3>1. \/ astray'
          \/ files \subseteq {photo}
      BY <1>2, <2>4 DEF P!Starts, FilesInv
    <3>2. UNCHANGED <<photo, files>>
      BY <1>2 DEF P!Starts
    <3>3. \A q \in Requests : P!Busy(q)' => q = r
      BY <2>2, <2>4 DEF P!Busy
    <3>4. files \subseteq {photo} => Accounted(r)'
      BY <1>2, <2>1, <3>2 DEF Accounted
    <3> QED
      BY <3>1, <3>2, <3>3, <3>4 DEF FilesInv
  <2> QED
    BY <2>3, <2>4 DEF FilesInv
<1>3. ASSUME NEW r \in Requests, P!Busy(r), P!Ends(r), UNCHANGED astray,
             Accounted(r) => files' \subseteq {photo'}
      PROVE  FilesInv'
  <2>1. photoJob'[r] = P!Idle /\ \A q \in Requests \ {r} : photoJob'[q] = photoJob[q]
    BY <1>0, <1>3 DEF P!Ends, PhotosTyped
  <2>2. ~astray => \A q \in Requests : ~P!Busy(q)'
    BY <1>3, <2>1 DEF FilesInv, P!Busy
  <2> QED
    BY <1>3, <2>2 DEF FilesInv
<1>4. ASSUME NEW r \in Requests, P!Busy(r), P!Busy(r)',
             \A q \in Requests \ {r} : photoJob'[q] = photoJob[q],
             UNCHANGED astray, Accounted(r) => Accounted(r)'
      PROVE  FilesInv'
  <2>1. ~astray => \A q \in Requests : P!Busy(q)' => q = r
    BY <1>4 DEF FilesInv, P!Busy
  <2> QED
    BY <1>4, <2>1 DEF FilesInv
<1>5. ASSUME NEW r \in Requests, P!Refuse(r) \/ P!Fail(r) \/ P!Undo(r) \/ P!CleanUpload(r) \/ P!CleanDeleted(r)
      PROVE  FilesInv'
  <2>1. P!Busy(r) /\ P!Ends(r) /\ UNCHANGED <<photo, astray>>
    BY <1>5 DEF P!Refuse, P!Fail, P!Undo, P!CleanUpload, P!CleanDeleted, P!Is, P!Busy, P!Idle
  <2>2. ASSUME Accounted(r) PROVE files' \subseteq {photo'}
    <3>1. CASE P!Refuse(r) \/ P!Fail(r)
      BY <2>1, <2>2, <3>1 DEF P!Refuse, P!Fail, P!Is, Accounted
    <3>2. CASE P!Undo(r)
      BY <2>1, <2>2, <3>2 DEF P!Undo, P!Is, Accounted
    <3>3. CASE P!CleanUpload(r)
      BY <2>1, <2>2, <3>3 DEF P!CleanUpload, P!Is, Accounted
    <3>4. CASE P!CleanDeleted(r)
      BY <2>1, <2>2, <3>4 DEF P!CleanDeleted, P!Is, Accounted
    <3> QED
      BY <1>5, <3>1, <3>2, <3>3, <3>4
  <2> QED
    BY <1>3, <2>1, <2>2
<1>6. ASSUME NEW r \in Requests, P!Store(r) PROVE FilesInv'
  <2>1. PICK c \in Contents : files' = files \cup {c} /\ photoJob' = [photoJob EXCEPT ![r].at = "commit", ![r].new = c]
    BY <1>6 DEF P!Store
  <2>2. photoJob[r] \in PhotoWork /\ P!Busy(r) /\ P!Is(r, "upload", "body") /\ UNCHANGED <<photo, astray>>
    BY <1>0, <1>6 DEF P!Store, P!Is, P!Idle, PhotosTyped, P!Busy
  <2>3. photoJob'[r].op = "upload" /\ photoJob'[r].new = c /\ photoJob'[r].at = "commit" /\ photoJob'[r].old = photoJob[r].old /\ P!Busy(r)'
    BY <1>0, <2>1, <2>2 DEF PhotoWork, PhotosTyped, P!Busy, P!Idle, P!Is
  <2>4. \A q \in Requests \ {r} : photoJob'[q] = photoJob[q]
    BY <1>0, <2>1 DEF PhotosTyped
  <2>5. Accounted(r) => Accounted(r)'
    BY <2>1, <2>2, <2>3 DEF Accounted, P!Is
  <2> QED
    BY <1>4, <2>2, <2>3, <2>4, <2>5
<1>7. ASSUME NEW r \in Requests, P!CommitUpload(r) \/ P!DeletePhoto(r) \/ P!RemoveVehicle(r) PROVE FilesInv'
  <2>1. photoJob[r] \in PhotoWork /\ P!Busy(r) /\ photoJob[r].at = "commit" /\ UNCHANGED <<files, astray>>
    BY <1>0, <1>7
       DEF P!CommitUpload, P!DeletePhoto, P!RemoveVehicle, P!Is, P!Idle, PhotosTyped, P!Busy
  <2>2. CASE P!Goes(r, "clean")
    <3>1. photoJob'[r].op = photoJob[r].op /\ photoJob'[r].new = photoJob[r].new /\ photoJob'[r].at = "clean" /\ photoJob'[r].old = photoJob[r].old
          /\ P!Busy(r)'
      BY <1>0, <2>1, <2>2 DEF P!Goes, PhotoWork, PhotosTyped, P!Busy, P!Idle
    <3>2. \A q \in Requests \ {r} : photoJob'[q] = photoJob[q]
      BY <1>0, <2>2 DEF PhotosTyped, P!Goes
    <3>3. Accounted(r) => Accounted(r)'
      <4>1. CASE P!CommitUpload(r)
        BY <2>1, <3>1, <4>1 DEF P!CommitUpload, Accounted, P!Is, P!Stored
      <4>2. CASE P!DeletePhoto(r) \/ P!RemoveVehicle(r)
        BY <2>1, <3>1, <4>2 DEF P!DeletePhoto, P!RemoveVehicle, Accounted, P!Is
      <4> QED
        BY <1>7, <4>1, <4>2
    <3> QED
      BY <1>4, <2>1, <3>1, <3>2, <3>3
  <2>3. CASE ~P!Goes(r, "clean")
    <3>1. P!Ends(r) /\ photoJob[r].old = None /\ photo' = None /\ photoJob[r].op # "upload"
      BY <1>7, <2>3 DEF P!CommitUpload, P!DeletePhoto, P!RemoveVehicle, P!Is
    <3>2. Accounted(r) => files' \subseteq {photo'}
      BY <2>1, <3>1 DEF Accounted
    <3> QED
      BY <1>3, <2>1, <3>1, <3>2
  <2> QED
    BY <2>2, <2>3
<1>8. ASSUME NEW r \in Requests, P!UndoCommitted(r) \/ P!RemovalFails(r) PROVE FilesInv'
  BY <1>8 DEF P!UndoCommitted, P!RemovalFails, FilesInv
<1> QED
  BY <1>1, <1>2, <1>5, <1>6, <1>7, <1>8 DEF P!Next, P!BeginUpload, P!BeginDelete, P!BeginRemove

\* The inductive invariants of VehiclePhotos.
THEOREM PhotosInductive == P!Spec => [](PhotosInv /\ FilesInv)
<1>1. PhotosInv /\ FilesInv /\ [P!Next]_(P!vars) => (PhotosInv /\ FilesInv)'
  <2>1. CASE P!Next
    BY <2>1, PhotosKept, FilesKept DEF PhotosInv
  <2>2. CASE UNCHANGED P!vars
    BY <2>2
       DEF P!vars, PhotosInv, PhotosTyped, SharedIsContested, P!InHand, P!Busy, PhotoStays,
           WillRemove, StoredIsThere, P!PhotoIsThere, FilesInv, Accounted, P!Is
  <2> QED
    BY <2>1, <2>2
<1> QED
  BY <1>1, PhotosInit, PTL DEF P!Spec

\* The row of a photo has its file, for any number of uploads and removals under
\* way, each of which may fail or be cut off (upload_vehicle_photo).
THEOREM PhotoHasFile == ConsoleSpec => []PhotoIsThere
<1>1. PhotosInv => PhotoIsThere
  BY DEF PhotoIsThere, PhotosInv
<1> QED
  BY <1>1, PhotosInductive, PartsSpec, PTL

\* Uploads and removals that do not overlap leave no file without its row
\* (upload_vehicle_photo).
THEOREM FilesHavePhotos == ConsoleSpec => []NoFileLeft
<1>1. FilesInv => NoFileLeft
  BY DEF NoFileLeft, FilesInv, P!NoFileLeft
<1> QED
  BY <1>1, PhotosInductive, PartsSpec, PTL

----------------------------------------------------------------------------
(* Dashboards                                                                *)

BoardRow == [default : BOOLEAN, layout : SUBSET Vehicles]

LEMMA NoneIsNoRow == None \notin BoardRow /\ None \notin Nat /\ MaxBoards \in Nat
BY ConsoleAssumption DEF BoardRow, Bounds, NoneIsNoValue

CreateWork == [op : {"create"}, at : {"clear", "wait", "write"}, ids : SUBSET D!Boards,
            locks : SUBSET D!Boards, missed : SUBSET D!Boards, late : BOOLEAN, default : BOOLEAN]
UpdateWork == [op : {"update"}, at : {"clear", "wait", "write"}, ids : SUBSET D!Boards,
            locks : SUBSET D!Boards, missed : SUBSET D!Boards, late : BOOLEAN, default : BOOLEAN,
            id : D!Boards, loaded : BoardRow]
DeleteWork == [op : {"delete"}, at : {"replace", "write"}, ids : SUBSET D!Boards,
            locks : SUBSET D!Boards, missed : SUBSET D!Boards, late : BOOLEAN,
            id : D!Boards, heir : D!Boards \cup {None}]
RemoveWork == [op : {"remove"}, at : {"write"}, ids : SUBSET D!Boards,
            locks : SUBSET D!Boards, missed : SUBSET D!Boards, late : BOOLEAN,
            vehicle : Vehicles, on : SUBSET D!Boards,
            loaded : UNION {[rows -> SUBSET Vehicles] : rows \in SUBSET D!Boards}]

BoardsTyped ==
  /\ board \in [D!Boards -> BoardRow \cup {None}]
  /\ vehicles \subseteq Vehicles
  /\ boardJob \in [Requests -> {D!Idle} \cup CreateWork \cup UpdateWork \cup DeleteWork \cup RemoveWork]
  /\ wrote \in [D!Boards -> SUBSET Vehicles]
  /\ crossed \subseteq D!Boards
  /\ excused \in BOOLEAN

Defaults == {d \in D!Rows : board[d].default}

\* While no other request has committed, the dashboards are as they were found.
AsFound(r) ==
  /\ boardJob[r].op = "create" =>
       /\ ~boardJob[r].default => D!Rows # {} /\ boardJob[r].at = "write" /\ boardJob[r].locks = {}
       /\ boardJob[r].default /\ boardJob[r].at = "write" => D!Rows \subseteq boardJob[r].locks
       /\ boardJob[r].at = "wait" => D!Rows \subseteq boardJob[r].ids
  /\ boardJob[r].op = "update" =>
       /\ boardJob[r].id \in D!Rows
       /\ boardJob[r].id \in Defaults <=> boardJob[r].loaded.default
       /\ ~boardJob[r].default => boardJob[r].at = "write" /\ boardJob[r].locks = {}
       /\ boardJob[r].default /\ boardJob[r].at = "write" =>
            D!Rows \ {boardJob[r].id} \subseteq boardJob[r].locks
       /\ boardJob[r].at = "wait" => D!Rows \subseteq boardJob[r].ids
  /\ boardJob[r].op = "delete" =>
       /\ boardJob[r].id \in D!Rows
       /\ boardJob[r].at = "replace" => boardJob[r].id \in Defaults
       /\ boardJob[r].at = "write" =>
            IF boardJob[r].heir # None
            THEN boardJob[r].heir \in D!Rows \ {boardJob[r].id} /\ boardJob[r].heir \notin Defaults /\ boardJob[r].id \in Defaults
            ELSE boardJob[r].id \notin Defaults \/ Defaults # {boardJob[r].id} \/ D!Rows = {boardJob[r].id}

\* Of the rows a request has loaded to write their layouts none has been written
\* that it is not said to have missed; a row is locked only if it is there or was.
LayoutsAsLoaded(r) ==
  /\ boardJob[r].op = "update" =>
       /\ boardJob[r].id \in boardJob[r].ids
       /\ boardJob[r].id \notin boardJob[r].missed =>
            boardJob[r].id \in D!Rows /\ board[boardJob[r].id].layout = boardJob[r].loaded.layout
  /\ boardJob[r].op = "remove" =>
       /\ boardJob[r].on = {d \in DOMAIN boardJob[r].loaded : boardJob[r].vehicle \in boardJob[r].loaded[d]}
       /\ \A d \in D!Rows \ boardJob[r].missed :
            d \in DOMAIN boardJob[r].loaded /\ board[d].layout = boardJob[r].loaded[d]

OneDefaultThere == excused \/ D!Rows = {} \/ \E d \in D!Rows : Defaults = {d}

DefaultInv ==
  /\ \A r \in Requests : boardJob[r] # D!Idle /\ ~boardJob[r].late => AsFound(r)
  /\ OneDefaultThere
LayoutInv ==
  /\ \A r \in Requests : boardJob[r] # D!Idle => LayoutsAsLoaded(r)
  /\ D!LayoutIsOwners

\* Nobody deletes a row that another request has written.
LocksThere == \A r \in Requests : D!Locks(r) \subseteq D!Rows

BoardsInv == BoardsTyped /\ LocksThere /\ DefaultInv /\ LayoutInv

BoardWork == CreateWork \cup UpdateWork \cup DeleteWork \cup RemoveWork

\* A set of rows that is not empty has a first one: the one with the smallest set
\* of rows before it.
LEMMA HasFirst ==
  ASSUME NEW n \in Nat, NEW S \in SUBSET (1 .. n), S # {}
  PROVE  \E m \in S : \A x \in S : m <= x
<1> DEFINE Below(x) == {y \in S : y < x}
           Order == StrictSubsetOrdering(S)
<1>0. \A x \in S : x \in Nat
  OBVIOUS
<1>1. IsFiniteSet(S)
  <2>1. IsFiniteSet(1 .. n)
    BY FS_Interval
  <2> QED
    BY <2>1, FS_Subset
<1>2. IsWellFoundedOn(Order, SUBSET S)
  BY <1>1, FS_StrictSubsetOrderingWellFounded, FS_FiniteSubsetsOfFinite
<1>3. \E m \in S : \A x \in S : <<Below(x), Below(m)>> \notin Order
  <2> DEFINE T == {Below(x) : x \in S}
  <2>1. T \subseteq SUBSET S /\ T # {}
    OBVIOUS
  <2>2. \E a \in T : \A b \in T : ~(<<b, a>> \in Order)
    <3> HIDE DEF T, Order
    <3> QED
      BY <1>2, <2>1, WFMin
  <2> QED
    BY <2>2
<1>4. PICK m \in S : \A x \in S : <<Below(x), Below(m)>> \notin Order
  BY <1>3
<1>5. ASSUME NEW x \in S, x < m PROVE <<Below(x), Below(m)>> \in Order
  <2>1. m \in Nat /\ x \in Nat /\ \A y \in S : y < x => y < m
    BY <1>0, <1>5
  <2>2. Below(x) \subseteq Below(m)
    BY <2>1
  <2>3. x \in Below(m) /\ x \notin Below(x)
    BY <1>5, <2>1
  <2> QED
    BY <2>2, <2>3 DEF StrictSubsetOrdering
<1>6. \A x \in S : ~(x < m)
  <2> HIDE DEF Order, Below
  <2> QED
    BY <1>4, <1>5
<1> QED
  BY <1>0, <1>6

LEMMA NotIdle == \A j \in BoardWork : j # D!Idle /\ j.op # "none"
BY DEF BoardWork, CreateWork, UpdateWork, DeleteWork, RemoveWork, D!Idle

\* Everything about a request but what it has missed.
Same(j, k) ==
  /\ k.op = j.op /\ k.at = j.at /\ k.ids = j.ids /\ k.locks = j.locks
  /\ j.op \in {"create", "update"} => k.default = j.default
  /\ j.op \in {"update", "delete"} => k.id = j.id
  /\ j.op \in {"update", "remove"} => k.loaded = j.loaded
  /\ j.op = "delete" => k.heir = j.heir
  /\ j.op = "remove" => k.on = j.on /\ k.vehicle = j.vehicle

LEMMA CommitMisses ==
  ASSUME BoardsTyped, NEW r \in Requests, boardJob[r] # D!Idle, NEW rows \in SUBSET D!Boards,
         D!Commits(r, rows)
  PROVE  /\ boardJob' \in [Requests -> {D!Idle} \cup BoardWork]
         /\ boardJob'[r] = D!Idle
         /\ \A q \in Requests \ {r} : boardJob'[q] = D!Idle <=> boardJob[q] = D!Idle
         /\ \A q \in Requests \ {r} : boardJob[q] # D!Idle =>
              /\ Same(boardJob[q], boardJob'[q])
              /\ boardJob'[q].missed = boardJob[q].missed \cup (rows \cap D!Watched(q))
              /\ boardJob'[q].late = (boardJob[q].late \/ "remove" \notin {boardJob[q].op, boardJob[r].op})
<1>1. ASSUME NEW q \in Requests \ {r}, boardJob[q] # D!Idle
      PROVE  /\ boardJob'[q] \in BoardWork /\ Same(boardJob[q], boardJob'[q])
             /\ boardJob'[q].missed = boardJob[q].missed \cup (rows \cap D!Watched(q))
             /\ boardJob'[q].late = (boardJob[q].late \/ "remove" \notin {boardJob[q].op, boardJob[r].op})
  <2> DEFINE missed == boardJob[q].missed \cup (rows \cap D!Watched(q))
             late == boardJob[q].late \/ "remove" \notin {boardJob[q].op, boardJob[r].op}
  <2>1. boardJob[q] \in BoardWork
    BY <1>1 DEF BoardsTyped, BoardWork
  <2>2. missed \in SUBSET D!Boards
    BY <2>1 DEF BoardWork, CreateWork, UpdateWork, DeleteWork, RemoveWork
  <2>3. late \in BOOLEAN
    OBVIOUS
  <2>4. boardJob'[q] = [boardJob[q] EXCEPT !.missed = missed, !.late = late]
    BY <1>1 DEF D!Commits
  <2> HIDE DEF missed, late
  <2>5. boardJob'[q] \in BoardWork /\ Same(boardJob[q], boardJob'[q]) /\ boardJob'[q].missed = missed /\ boardJob'[q].late = late
    <3>1. CASE boardJob[q] \in CreateWork
      BY <2>2, <2>3, <2>4, <3>1 DEF CreateWork, BoardWork, Same
    <3>2. CASE boardJob[q] \in UpdateWork
      BY <2>2, <2>3, <2>4, <3>2 DEF UpdateWork, BoardWork, Same
    <3>3. CASE boardJob[q] \in DeleteWork
      BY <2>2, <2>3, <2>4, <3>3 DEF DeleteWork, BoardWork, Same
    <3>4. CASE boardJob[q] \in RemoveWork
      BY <2>2, <2>3, <2>4, <3>4 DEF RemoveWork, BoardWork, Same
    <3> QED
      BY <2>1, <3>1, <3>2, <3>3, <3>4 DEF BoardWork
  <2> QED
    BY <2>5 DEF missed, late
<1>2. boardJob'[r] = D!Idle /\ \A q \in Requests \ {r} : boardJob[q] = D!Idle =>
        boardJob'[q] = D!Idle
  BY DEF D!Commits
<1>3. boardJob' = [q \in Requests |-> boardJob'[q]]
  BY DEF D!Commits
<1>4. \A q \in Requests : boardJob'[q] \in {D!Idle} \cup BoardWork
  BY <1>1, <1>2
<1>5. boardJob' \in [Requests -> {D!Idle} \cup BoardWork]
  BY <1>3, <1>4
<1> QED
  BY <1>1, <1>2, <1>5, NotIdle

----------------------------------------------------------------------------
(* Steps of one request that leave the rows alone.                          *)

LEMMA AloneKept ==
  ASSUME BoardsInv, NEW r \in Requests, NEW k \in {D!Idle} \cup BoardWork,
         boardJob' = [boardJob EXCEPT ![r] = k],
         UNCHANGED <<board, vehicles, D!ghosts>>,
         k # D!Idle => /\ k.late \/ AsFound(r)'
                     /\ LayoutsAsLoaded(r)'
                     /\ k.locks \subseteq D!Rows
  PROVE  BoardsInv'
<1> USE DEF BoardsInv
<1>1. boardJob'[r] = k /\ \A q \in Requests \ {r} : boardJob'[q] = boardJob[q]
  BY DEF BoardsTyped
<1>2. BoardsTyped'
  BY DEF BoardsTyped, BoardWork, D!ghosts
<1>3. D!Rows' = D!Rows /\ Defaults' = Defaults
  BY DEF D!Rows, Defaults
<1>4. LocksThere'
  BY <1>1, <1>3 DEF LocksThere, D!Locks
<1>5. ASSUME NEW q \in Requests, q # r PROVE AsFound(q)' <=> AsFound(q)
  BY <1>1, <1>3, <1>5 DEF AsFound
<1>6. ASSUME NEW q \in Requests, q # r PROVE LayoutsAsLoaded(q)' <=> LayoutsAsLoaded(q)
  BY <1>1, <1>3, <1>6 DEF LayoutsAsLoaded
<1>7. DefaultInv'
  BY <1>1, <1>3, <1>5 DEF DefaultInv, OneDefaultThere, D!ghosts
<1>8. LayoutInv'
  BY <1>1, <1>3, <1>6 DEF LayoutInv, D!LayoutIsOwners, D!ghosts
<1> QED
  BY <1>2, <1>4, <1>7, <1>8

LEMMA CreateBegun == ASSUME BoardsInv, NEW r \in Requests, D!BeginCreate(r) PROVE BoardsInv'
<1>1. PICK default \in BOOLEAN :
        /\ default \/ D!Rows # {}
        /\ D!Starts(r, [op |-> "create", at |-> IF default THEN "clear" ELSE "write",
                      ids |-> {}, locks |-> {}, missed |-> {}, late |-> FALSE, default |-> default])
  BY DEF D!BeginCreate
<1> DEFINE k == [op |-> "create", at |-> IF default THEN "clear" ELSE "write",
                 ids |-> {}, locks |-> {}, missed |-> {}, late |-> FALSE, default |-> default]
<1>2. k \in BoardWork /\ k.op = "create" /\ k.locks = {} /\ k.default = default
      /\ k.at = IF default THEN "clear" ELSE "write"
  BY DEF BoardWork, CreateWork
<1>3. boardJob' = [boardJob EXCEPT ![r] = k] /\ UNCHANGED <<board, vehicles, D!ghosts>>
  BY <1>1 DEF D!Starts
<1> HIDE DEF k
<1>4. boardJob'[r] = k /\ D!Rows' = D!Rows
  BY <1>3 DEF BoardsInv, BoardsTyped, D!Rows
<1>5. AsFound(r)' /\ LayoutsAsLoaded(r)'
  BY <1>1, <1>2, <1>4 DEF AsFound, LayoutsAsLoaded
<1> QED
  BY <1>2, <1>3, <1>5, AloneKept

LEMMA UpdateBegun == ASSUME BoardsInv, NEW r \in Requests, D!BeginUpdate(r) PROVE BoardsInv'
<1>1. PICK d \in D!Rows, default \in BOOLEAN :
        D!Starts(r, [op |-> "update", at |-> IF default THEN "clear" ELSE "write",
               ids |-> {d}, locks |-> {}, missed |-> {}, late |-> FALSE,
               default |-> default, id |-> d, loaded |-> board[d]])
  BY DEF D!BeginUpdate
<1> DEFINE k == [op |-> "update", at |-> IF default THEN "clear" ELSE "write",
               ids |-> {d}, locks |-> {}, missed |-> {}, late |-> FALSE,
               default |-> default, id |-> d, loaded |-> board[d]]
<1>0. d \in D!Boards /\ board[d] \in BoardRow
  BY DEF D!Rows, BoardsInv, BoardsTyped
<1>2. k \in BoardWork /\ k.op = "update" /\ k.locks = {} /\ k.missed = {} /\ k.default = default /\ k.id = d
      /\ k.ids = {d} /\ k.loaded = board[d] /\ k.at = IF default THEN "clear" ELSE "write"
  BY <1>0 DEF BoardWork, UpdateWork
<1>3. boardJob' = [boardJob EXCEPT ![r] = k] /\ UNCHANGED <<board, vehicles, D!ghosts>>
  BY <1>1 DEF D!Starts
<1> HIDE DEF k
<1>4. boardJob'[r] = k /\ D!Rows' = D!Rows
  BY <1>3 DEF BoardsInv, BoardsTyped, D!Rows
<1>5. AsFound(r)' /\ LayoutsAsLoaded(r)'
  BY <1>1, <1>2, <1>3, <1>4 DEF AsFound, LayoutsAsLoaded, Defaults
<1> QED
  BY <1>2, <1>3, <1>5, AloneKept

LEMMA DeleteBegun == ASSUME BoardsInv, NEW r \in Requests, D!BeginDelete(r) PROVE BoardsInv'
<1>1. PICK d \in D!Rows :
        D!Starts(r, [op |-> "delete", at |-> IF board[d].default THEN "replace" ELSE "write",
               ids |-> {d}, locks |-> {}, missed |-> {}, late |-> FALSE, id |-> d, heir |-> None])
  BY DEF D!BeginDelete
<1> DEFINE k == [op |-> "delete", at |-> IF board[d].default THEN "replace" ELSE "write",
               ids |-> {d}, locks |-> {}, missed |-> {}, late |-> FALSE, id |-> d, heir |-> None]
<1>0. d \in D!Boards /\ board[d] \in BoardRow
  BY DEF D!Rows, BoardsInv, BoardsTyped
<1>2. k \in BoardWork /\ k.op = "delete" /\ k.locks = {} /\ k.id = d /\ k.heir = None
      /\ k.at = IF board[d].default THEN "replace" ELSE "write"
  BY <1>0 DEF BoardWork, DeleteWork
<1>3. boardJob' = [boardJob EXCEPT ![r] = k] /\ UNCHANGED <<board, vehicles, D!ghosts>>
  BY <1>1 DEF D!Starts
<1> HIDE DEF k
<1>4. boardJob'[r] = k /\ D!Rows' = D!Rows /\ Defaults' = Defaults
  BY <1>3 DEF BoardsInv, BoardsTyped, D!Rows, Defaults
<1>5. AsFound(r)' /\ LayoutsAsLoaded(r)'
  BY <1>1, <1>2, <1>3, <1>4 DEF AsFound, LayoutsAsLoaded, Defaults
<1> QED
  BY <1>2, <1>3, <1>5, AloneKept

LEMMA RemoveBegun == ASSUME BoardsInv, NEW r \in Requests, D!BeginRemove(r) PROVE BoardsInv'
<1>1. PICK v \in vehicles :
        D!Starts(r, [op |-> "remove", at |-> "write",
               ids |-> D!Rows, locks |-> {}, missed |-> {}, late |-> FALSE, vehicle |-> v,
               on |-> {d \in D!Rows : v \in board[d].layout},
               loaded |-> [d \in D!Rows |-> board[d].layout]])
  BY DEF D!BeginRemove
<1> DEFINE k == [op |-> "remove", at |-> "write",
               ids |-> D!Rows, locks |-> {}, missed |-> {}, late |-> FALSE, vehicle |-> v,
               on |-> {d \in D!Rows : v \in board[d].layout},
               loaded |-> [d \in D!Rows |-> board[d].layout]]
<1>0. D!Rows \subseteq D!Boards /\ v \in Vehicles /\ \A d \in D!Rows : board[d] \in BoardRow
  BY DEF D!Rows, BoardsInv, BoardsTyped
<1>1a. [d \in D!Rows |-> board[d].layout] \in [D!Rows -> SUBSET Vehicles]
  BY <1>0 DEF BoardRow
<1>2. k \in BoardWork /\ k.op = "remove" /\ k.locks = {} /\ k.vehicle = v /\ k.missed = {}
      /\ k.on = {d \in D!Rows : v \in board[d].layout} /\ k.loaded = [d \in D!Rows |-> board[d].layout]
  BY <1>0, <1>1a DEF BoardWork, RemoveWork
<1>3. boardJob' = [boardJob EXCEPT ![r] = k] /\ UNCHANGED <<board, vehicles, D!ghosts>>
  BY <1>1 DEF D!Starts
<1> HIDE DEF k
<1>4. boardJob'[r] = k /\ D!Rows' = D!Rows
  BY <1>3 DEF BoardsInv, BoardsTyped, D!Rows
<1>5. AsFound(r)' /\ LayoutsAsLoaded(r)'
  BY <1>1, <1>2, <1>3, <1>4 DEF AsFound, LayoutsAsLoaded
<1> QED
  BY <1>2, <1>3, <1>5, AloneKept

LEMMA ClearKept == ASSUME BoardsInv, NEW r \in Requests, D!Clear(r) \/ D!Resume(r) PROVE BoardsInv'
<1>1. boardJob[r] \in BoardWork /\ boardJob[r].op \in {"create", "update"} /\ boardJob[r] # D!Idle
      /\ UNCHANGED <<board, vehicles, D!ghosts>>
  BY NotIdle DEF D!Clear, D!Resume, D!Is, D!Idle, BoardsInv, BoardsTyped, BoardWork
<1>2. boardJob[r] \in CreateWork \cup UpdateWork
  BY <1>1 DEF BoardWork, CreateWork, UpdateWork, DeleteWork, RemoveWork
<1>3. D!Rows \subseteq D!Boards /\ D!Rows' = D!Rows /\ Defaults' = Defaults
  BY <1>1 DEF D!Rows, Defaults
<1>6. boardJob[r].at # "write"
  BY DEF D!Clear, D!Resume, D!Is
<1>4. ASSUME NEW k \in BoardWork, boardJob' = [boardJob EXCEPT ![r] = k], k.op = boardJob[r].op,
             k.default = boardJob[r].default,
             k.op = "update" => k.id = boardJob[r].id /\ k.loaded = boardJob[r].loaded,
             k.missed = boardJob[r].missed, k.late = boardJob[r].late,
             boardJob[r].ids \subseteq k.ids, k.locks \subseteq D!Rows,
             k.at \in {"wait", "write"},
             k.late \/ IF k.at = "write" THEN D!Rows \ D!Own(r) \subseteq k.locks ELSE D!Rows \subseteq k.ids
      PROVE  BoardsInv'
  <2>1. boardJob'[r] = k
    BY <1>4 DEF BoardsInv, BoardsTyped
  <2>2. boardJob[r].late \/ (AsFound(r) /\ boardJob[r].default)
    BY <1>1, <1>6 DEF BoardsInv, DefaultInv, AsFound
  <2>3. k.late \/ AsFound(r)'
    <3>1. CASE boardJob[r].op = "create"
      BY <1>3, <1>4, <2>1, <2>2, <3>1 DEF AsFound, D!Own
    <3>2. CASE boardJob[r].op = "update"
      <4>1. k.late = boardJob[r].late /\ k.default = boardJob[r].default /\ k.id = boardJob[r].id /\ k.loaded = boardJob[r].loaded
        BY <1>4, <3>2
      <4>2. k.late \/ (boardJob[r].id \in D!Rows /\ (boardJob[r].id \in Defaults <=> boardJob[r].loaded.default))
        BY <1>4, <2>2, <3>2 DEF AsFound
      <4>3. k.late \/ (boardJob'[r].id \in D!Rows' /\ (boardJob'[r].id \in Defaults' <=> boardJob'[r].loaded.default))
        BY <1>3, <2>1, <4>1, <4>2
      <4>4. k.late \/ (boardJob'[r].default /\ (boardJob'[r].at = "wait" => D!Rows' \subseteq boardJob'[r].ids))
        BY <1>3, <1>4, <2>1, <2>2, <4>1
      <4>5. k.late \/ (boardJob'[r].at = "write" => D!Rows' \ {boardJob'[r].id} \subseteq boardJob'[r].locks)
        BY <1>3, <1>4, <2>1, <4>1, <3>2 DEF D!Own
      <4> QED
        BY <1>4, <2>1, <3>2, <4>3, <4>4, <4>5 DEF AsFound
    <3> QED
      BY <1>1, <3>1, <3>2
  <2>4. LayoutsAsLoaded(r)'
    BY <1>1, <1>3, <1>4, <2>1 DEF LayoutsAsLoaded, BoardsInv, LayoutInv
  <2> QED
    BY <1>1, <1>4, <2>3, <2>4, AloneKept
<1>5. CASE D!Clear(r)
  <2>1. CASE D!Free(r, D!Others(r))
    <3> DEFINE k == [boardJob[r] EXCEPT !.at = "write", !.locks = D!Others(r)]
    <3>1. boardJob' = [boardJob EXCEPT ![r] = k]
      BY <1>5, <2>1 DEF D!Clear
    <3>2. k \in BoardWork /\ k.op = boardJob[r].op /\ k.default = boardJob[r].default /\ k.missed = boardJob[r].missed
          /\ k.late = boardJob[r].late /\ k.ids = boardJob[r].ids /\ k.locks = D!Others(r) /\ k.at = "write"
          /\ (k.op = "update" => k.id = boardJob[r].id /\ k.loaded = boardJob[r].loaded)
      <4>1. CASE boardJob[r] \in CreateWork
        BY <1>3, <4>1 DEF CreateWork, BoardWork, D!Others
      <4>2. CASE boardJob[r] \in UpdateWork
        BY <1>3, <4>2 DEF UpdateWork, BoardWork, D!Others
      <4> QED
        BY <1>2, <4>1, <4>2
    <3> HIDE DEF k
    <3> QED
      BY <1>4, <3>1, <3>2 DEF D!Others
  <2>2. CASE ~D!Free(r, D!Others(r))
    <3> DEFINE ids == boardJob[r].ids \cup D!Others(r)
               k == [boardJob[r] EXCEPT !.at = "wait", !.ids = ids]
    <3>1. boardJob' = [boardJob EXCEPT ![r] = k]
      BY <1>5, <2>2 DEF D!Clear
    <3>2. ids \in SUBSET D!Boards
      BY <1>2, <1>3 DEF D!Others, CreateWork, UpdateWork
    <3>3. k \in BoardWork /\ k.op = boardJob[r].op /\ k.default = boardJob[r].default /\ k.missed = boardJob[r].missed
          /\ k.late = boardJob[r].late /\ k.ids = ids /\ k.locks = boardJob[r].locks /\ k.at = "wait"
          /\ (k.op = "update" => k.id = boardJob[r].id /\ k.loaded = boardJob[r].loaded)
      <4> HIDE DEF ids
      <4>1. CASE boardJob[r] \in CreateWork
        BY <3>2, <4>1 DEF CreateWork, BoardWork
      <4>2. CASE boardJob[r] \in UpdateWork
        BY <3>2, <4>2 DEF UpdateWork, BoardWork
      <4> QED
        BY <1>2, <4>1, <4>2
    <3> HIDE DEF k
    <3>4. k.locks \subseteq D!Rows
      BY <1>1, <3>3 DEF BoardsInv, LocksThere, D!Locks
    <3>5. D!Rows \subseteq k.ids
      BY <1>1, <3>3 DEF BoardsInv, LayoutInv, LayoutsAsLoaded, D!Others, D!Own
    <3> QED
      BY <1>4, <3>1, <3>3, <3>4, <3>5
  <2> QED
    BY <2>1, <2>2
<1>7. CASE D!Resume(r)
  <2> DEFINE locks == (boardJob[r].ids \ D!Own(r)) \cap D!Rows
             k == [boardJob[r] EXCEPT !.at = "write", !.locks = locks]
  <2>1. boardJob' = [boardJob EXCEPT ![r] = k]
    BY <1>7 DEF D!Resume
  <2>2. locks \in SUBSET D!Boards /\ locks \subseteq D!Rows
    BY <1>3
  <2>3. k \in BoardWork /\ k.op = boardJob[r].op /\ k.default = boardJob[r].default /\ k.missed = boardJob[r].missed
        /\ k.late = boardJob[r].late /\ k.ids = boardJob[r].ids /\ k.locks = locks /\ k.at = "write"
        /\ (k.op = "update" => k.id = boardJob[r].id /\ k.loaded = boardJob[r].loaded)
    <3> HIDE DEF locks
    <3>1. CASE boardJob[r] \in CreateWork
      BY <2>2, <3>1 DEF CreateWork, BoardWork
    <3>2. CASE boardJob[r] \in UpdateWork
      BY <2>2, <3>2 DEF UpdateWork, BoardWork
    <3> QED
      BY <1>2, <3>1, <3>2
  <2> HIDE DEF k
  <2>4. boardJob[r].late \/ D!Rows \subseteq boardJob[r].ids
    <3>1. boardJob[r].at = "wait"
      BY <1>7 DEF D!Resume, D!Is
    <3> QED
      BY <1>1, <3>1 DEF BoardsInv, DefaultInv, AsFound
  <2>5. k.late \/ D!Rows \ D!Own(r) \subseteq k.locks
    BY <2>3, <2>4
  <2> QED
    BY <1>4, <2>1, <2>2, <2>3, <2>5
<1> QED
  BY <1>5, <1>7

LEMMA ReplaceKept == ASSUME BoardsInv, NEW r \in Requests, D!Replace(r) PROVE BoardsInv'
<1> DEFINE d == boardJob[r].id
           others == D!Rows \ {d}
           oldest == CHOOSE o \in others : \A e \in others : o <= e
           heir == IF D!Rows \subseteq {d} THEN None ELSE IF board[oldest].default THEN None ELSE oldest
           locks == {d} \cap D!Rows
           ids == boardJob[r].ids \cup D!Rows
           k == [boardJob[r] EXCEPT !.at = "write", !.locks = locks, !.ids = ids, !.heir = heir]
<1>1. boardJob[r] \in DeleteWork /\ boardJob[r] # D!Idle /\ UNCHANGED <<board, vehicles, D!ghosts>> /\ boardJob[r].at = "replace"
  BY DEF D!Replace, D!Is, D!Idle, BoardsInv, BoardsTyped, CreateWork, UpdateWork, DeleteWork,
         RemoveWork
<1>2. boardJob' = [boardJob EXCEPT ![r] = k]
  BY DEF D!Replace
<1>3. D!Rows \subseteq D!Boards /\ D!Rows' = D!Rows /\ Defaults' = Defaults
  BY <1>1 DEF D!Rows, Defaults
<1>4. others # {} => oldest \in others
  BY <1>3, HasFirst, NoneIsNoRow DEF D!Boards
<1>5. heir \in D!Boards \cup {None} /\ locks \in SUBSET D!Boards /\ ids \in SUBSET D!Boards
  BY <1>1, <1>3, <1>4 DEF DeleteWork
<1>6. k \in BoardWork /\ k.op = "delete" /\ k.at = "write" /\ k.late = boardJob[r].late /\ k.locks = locks
      /\ k.id = d /\ k.heir = heir
  <2> HIDE DEF heir, ids, locks
  <2> QED
    BY <1>1, <1>5 DEF BoardWork, DeleteWork
<1> HIDE DEF k
<1>7. boardJob'[r] = k
  BY <1>2 DEF BoardsInv, BoardsTyped
<1>8. boardJob[r].late \/ d \in D!Rows \cap Defaults
  BY <1>1 DEF BoardsInv, DefaultInv, AsFound, DeleteWork
<1>9. ASSUME d \in D!Rows \cap Defaults
      PROVE  IF heir # None THEN heir \in D!Rows \ {d} /\ heir \notin Defaults
             ELSE Defaults # {d} \/ D!Rows = {d}
  <2>1. CASE others = {}
    BY <1>9, <2>1
  <2>2. CASE others # {} /\ board[oldest].default
    BY <1>4, <2>2 DEF Defaults
  <2>3. CASE others # {} /\ ~board[oldest].default
    <3> HIDE DEF oldest
    <3>1. oldest \in D!Rows \ {d}
      BY <1>4, <2>3
    <3>2. oldest \in Nat
      BY <1>3, <3>1 DEF D!Boards
    <3>3. oldest # None
      BY <3>2, NoneIsNoRow
    <3> QED
      BY <2>3, <3>1, <3>3 DEF Defaults
  <2> QED
    BY <2>1, <2>2, <2>3
<1> HIDE DEF heir
<1>10. k.late \/ AsFound(r)'
  BY <1>3, <1>6, <1>7, <1>8, <1>9 DEF AsFound
<1>11. LayoutsAsLoaded(r)'
  BY <1>6, <1>7 DEF LayoutsAsLoaded
<1> QED
  BY <1>1, <1>2, <1>3, <1>6, <1>10, <1>11, AloneKept

LEMMA FailKept == ASSUME BoardsInv, NEW r \in Requests, D!Fail(r) PROVE BoardsInv'
BY AloneKept DEF D!Fail

----------------------------------------------------------------------------
(* Commits.                                                                *)

\* A commit misses what others have loaded, so that their layouts are as loaded
\* or missed, and what they have found holds or they are late.
LEMMA CommitKept ==
  ASSUME BoardsInv, NEW r \in Requests, boardJob[r] # D!Idle, NEW rows \in SUBSET D!Boards,
         D!Commits(r, rows),
         board' \in [D!Boards -> BoardRow \cup {None}], vehicles' \subseteq Vehicles,
         wrote' \in [D!Boards -> SUBSET Vehicles], crossed' \subseteq D!Boards,
         excused' \in BOOLEAN,
         \A e \in D!Boards \ rows : e \in D!Rows' <=> e \in D!Rows,
         \A e \in D!Rows \ rows : board'[e].layout = board[e].layout,
         boardJob[r].op = "remove" => D!Rows' = D!Rows /\ Defaults' = Defaults,
         \A q \in Requests \ {r} : D!Locks(q) \subseteq D!Rows',
         OneDefaultThere', D!LayoutIsOwners'
  PROVE  BoardsInv'
<1> USE DEF BoardsInv
<1>1. /\ boardJob' \in [Requests -> {D!Idle} \cup BoardWork]
      /\ boardJob'[r] = D!Idle
      /\ \A q \in Requests \ {r} : boardJob'[q] = D!Idle <=> boardJob[q] = D!Idle
      /\ \A q \in Requests \ {r} : boardJob[q] # D!Idle =>
           /\ Same(boardJob[q], boardJob'[q])
           /\ boardJob'[q].missed = boardJob[q].missed \cup (rows \cap D!Watched(q))
           /\ boardJob'[q].late = (boardJob[q].late \/ "remove" \notin {boardJob[q].op, boardJob[r].op})
  BY CommitMisses
<1>2. BoardsTyped'
  BY <1>1 DEF BoardsTyped, BoardWork
<1>3. LocksThere'
  BY <1>1 DEF LocksThere, D!Locks, Same
<1>4. ASSUME NEW q \in Requests \ {r}, boardJob[q] # D!Idle, ~boardJob'[q].late PROVE AsFound(q)'
  <2>1. Same(boardJob[q], boardJob'[q]) /\ ~boardJob[q].late /\ (boardJob[q].op = "remove" \/ boardJob[r].op = "remove")
    BY <1>1, <1>4
  <2>2. AsFound(q)
    BY <1>4, <2>1 DEF DefaultInv
  <2>3. CASE boardJob[q].op = "remove"
    BY <2>1, <2>3 DEF AsFound, Same
  <2>4. CASE boardJob[r].op = "remove"
    <3>1. D!Rows' = D!Rows /\ Defaults' = Defaults
      BY <2>4
    <3>2. ASSUME boardJob[q].op = "create" PROVE AsFound(q)'
      BY <2>1, <2>2, <3>1, <3>2 DEF AsFound, Same
    <3>3. ASSUME boardJob[q].op = "update" PROVE AsFound(q)'
      BY <2>1, <2>2, <3>1, <3>3 DEF AsFound, Same
    <3>4. ASSUME boardJob[q].op = "delete" PROVE AsFound(q)'
      BY <2>1, <2>2, <3>1, <3>4 DEF AsFound, Same
    <3>5. boardJob[q].op \in {"create", "update", "delete", "remove"}
      BY <1>4 DEF BoardsTyped, CreateWork, UpdateWork, DeleteWork, RemoveWork
    <3> QED
      BY <2>3, <3>2, <3>3, <3>4, <3>5
  <2> QED
    BY <2>1, <2>3, <2>4
<1>5. ASSUME NEW q \in Requests \ {r}, boardJob[q] # D!Idle PROVE LayoutsAsLoaded(q)'
  <2>1. Same(boardJob[q], boardJob'[q]) /\ boardJob'[q].missed = boardJob[q].missed \cup (rows \cap D!Watched(q)) /\ LayoutsAsLoaded(q)
    BY <1>1, <1>5 DEF LayoutInv
  <2>2. ASSUME boardJob[q].op = "update" PROVE LayoutsAsLoaded(q)'
    <3>1. boardJob[q].id \in D!Boards /\ D!Watched(q) = {boardJob[q].id}
      BY <1>5, <2>2 DEF BoardsTyped, CreateWork, UpdateWork, DeleteWork, RemoveWork, D!Watched
    <3>2. /\ boardJob'[q].op = "update" /\ boardJob'[q].id = boardJob[q].id /\ boardJob'[q].ids = boardJob[q].ids
          /\ boardJob'[q].loaded = boardJob[q].loaded
      BY <2>1, <2>2 DEF Same
    <3>3. ASSUME boardJob'[q].id \notin boardJob'[q].missed
          PROVE  boardJob'[q].id \in D!Rows' /\ board'[boardJob'[q].id].layout = boardJob'[q].loaded.layout
      <4>1. boardJob[q].id \notin boardJob[q].missed /\ boardJob[q].id \in D!Boards \ rows
        BY <2>1, <3>1, <3>2, <3>3
      <4>2. boardJob[q].id \in D!Rows /\ board[boardJob[q].id].layout = boardJob[q].loaded.layout
        BY <2>1, <2>2, <4>1 DEF LayoutsAsLoaded
      <4>3. boardJob[q].id \in D!Rows' /\ board'[boardJob[q].id].layout = board[boardJob[q].id].layout
        BY <4>1, <4>2
      <4> QED
        BY <3>2, <4>2, <4>3
    <3>4. boardJob'[q].id \in boardJob'[q].ids
      BY <2>1, <2>2, <3>2 DEF LayoutsAsLoaded
    <3> QED
      BY <3>2, <3>3, <3>4 DEF LayoutsAsLoaded
  <2>3. ASSUME boardJob[q].op = "remove" PROVE LayoutsAsLoaded(q)'
    <3>1. D!Watched(q) = D!Boards /\ D!Rows' \subseteq D!Boards
      BY <2>3 DEF D!Watched, D!Rows
    <3>2. /\ boardJob'[q].op = "remove" /\ boardJob'[q].on = boardJob[q].on /\ boardJob'[q].vehicle = boardJob[q].vehicle
          /\ boardJob'[q].loaded = boardJob[q].loaded
      BY <2>1, <2>3 DEF Same
    <3>3. ASSUME NEW d \in D!Rows', d \notin boardJob'[q].missed
          PROVE  d \in DOMAIN boardJob'[q].loaded /\ board'[d].layout = boardJob'[q].loaded[d]
      <4>1. d \notin boardJob[q].missed /\ d \in D!Boards \ rows
        BY <2>1, <3>1, <3>3
      <4>2. d \in D!Rows /\ board'[d].layout = board[d].layout
        BY <4>1
      <4>3. d \in DOMAIN boardJob[q].loaded /\ board[d].layout = boardJob[q].loaded[d]
        BY <2>1, <2>3, <4>1, <4>2 DEF LayoutsAsLoaded
      <4> QED
        BY <3>2, <4>2, <4>3
    <3>4. boardJob[q].on = {d \in DOMAIN boardJob[q].loaded : boardJob[q].vehicle \in boardJob[q].loaded[d]}
      BY <2>1, <2>3 DEF LayoutsAsLoaded
    <3> QED
      BY <3>2, <3>3, <3>4 DEF LayoutsAsLoaded
  <2> QED
    BY <2>1, <2>2, <2>3 DEF LayoutsAsLoaded, Same
<1>6. DefaultInv' /\ LayoutInv'
  BY <1>1, <1>4, <1>5 DEF DefaultInv, LayoutInv
<1> QED
  BY <1>2, <1>3, <1>6

\* The rows another choice of the default has cleared, before the one it is about
\* is written.
LEMMA ClearedRows ==
  ASSUME BoardsInv, NEW r \in Requests
  PROVE  /\ D!Cleared(r) \in [D!Boards -> BoardRow \cup {None}]
         /\ \A e \in D!Boards : D!Cleared(r)[e] # None <=> e \in D!Rows
         /\ \A e \in D!Rows : D!Cleared(r)[e].layout = board[e].layout
         /\ \A e \in D!Rows : D!Cleared(r)[e].default <=> e \in Defaults \ D!Locks(r)
<1>1. ASSUME NEW e \in D!Rows
      PROVE  /\ D!Cleared(r)[e] \in BoardRow /\ D!Cleared(r)[e].layout = board[e].layout
             /\ D!Cleared(r)[e].default <=> e \in Defaults \ D!Locks(r)
  <2>1. e \in D!Boards /\ board[e] \in BoardRow
    BY DEF D!Rows, BoardsInv, BoardsTyped
  <2>2. CASE e \in D!Locks(r)
    <3>1. D!Cleared(r)[e] = [board[e] EXCEPT !.default = FALSE]
      BY <2>1, <2>2 DEF D!Cleared
    <3> QED
      BY <2>1, <2>2, <3>1 DEF BoardRow
  <2>3. CASE e \notin D!Locks(r)
    BY <2>1, <2>3 DEF D!Cleared, Defaults
  <2> QED
    BY <2>2, <2>3
<1>2. ASSUME NEW e \in D!Boards \ D!Rows PROVE D!Cleared(r)[e] = None
  BY DEF D!Cleared, D!Rows, BoardsInv, LocksThere
<1>3. D!Rows \subseteq D!Boards /\ D!Cleared(r) = [e \in D!Boards |-> D!Cleared(r)[e]]
  BY DEF D!Rows, D!Cleared
<1>4. \A e \in D!Boards : D!Cleared(r)[e] \in BoardRow \cup {None}
  BY <1>1, <1>2
<1>5. D!Cleared(r) \in [D!Boards -> BoardRow \cup {None}]
  BY <1>3, <1>4
<1> QED
  BY <1>1, <1>2, <1>5, NoneIsNoRow

LEMMA CreateKept == ASSUME BoardsInv, NEW r \in Requests, D!Create(r) PROVE BoardsInv'
<1> USE DEF BoardsInv
<1>1. PICK d \in D!Boards, layout \in SUBSET Vehicles :
        /\ \A e \in D!Rows : e < d
        /\ board' = [D!Cleared(r) EXCEPT ![d] = [default |-> boardJob[r].default, layout |-> layout]]
        /\ wrote' = [wrote EXCEPT ![d] = layout]
        /\ crossed' = crossed \ {d}
        /\ D!Commits(r, {d})
  BY DEF D!Create
<1>2. boardJob[r] \in CreateWork /\ boardJob[r] # D!Idle /\ boardJob[r].at = "write" /\ vehicles' = vehicles
  BY DEF D!Create, D!Is, D!Idle, BoardsTyped, CreateWork, UpdateWork, DeleteWork, RemoveWork
<1>3. D!Rows \subseteq D!Boards /\ d \notin D!Rows
  BY <1>1 DEF D!Rows, D!Boards
<1>4. /\ D!Cleared(r) \in [D!Boards -> BoardRow \cup {None}]
      /\ \A e \in D!Boards : D!Cleared(r)[e] # None <=> e \in D!Rows
      /\ \A e \in D!Rows : D!Cleared(r)[e].layout = board[e].layout
      /\ \A e \in D!Rows : D!Cleared(r)[e].default <=> e \in Defaults \ D!Locks(r)
  BY ClearedRows
<1>5. /\ board' \in [D!Boards -> BoardRow \cup {None}]
      /\ board'[d] = [default |-> boardJob[r].default, layout |-> layout]
      /\ \A e \in D!Boards \ {d} : board'[e] = D!Cleared(r)[e]
      /\ D!Rows' = D!Rows \cup {d}
  <2> DEFINE row == [default |-> boardJob[r].default, layout |-> layout]
  <2>1. row \in BoardRow /\ row # None
    BY <1>2, NoneIsNoRow DEF CreateWork, BoardRow
  <2> HIDE DEF row
  <2>2. board' \in [D!Boards -> BoardRow \cup {None}] /\ board'[d] = row /\ \A e \in D!Boards \ {d} : board'[e] = D!Cleared(r)[e]
    BY <1>1, <1>4, <2>1 DEF row
  <2>3. D!Rows' = D!Rows \cup {d}
    BY <1>4, <2>1, <2>2 DEF D!Rows
  <2> QED
    BY <2>2, <2>3 DEF row
<1>6. ASSUME NEW e \in D!Rows
      PROVE  board'[e].layout = board[e].layout /\ (e \in Defaults' <=> e \in Defaults \ D!Locks(r))
  <2>1. e \in D!Boards \ {d} /\ e \in D!Rows'
    BY <1>3, <1>5
  <2>2. board'[e] = D!Cleared(r)[e]
    BY <1>5, <2>1
  <2>3. e \in Defaults' <=> board'[e].default
    BY <2>1 DEF Defaults
  <2>4. D!Cleared(r)[e].layout = board[e].layout
    BY <1>4
  <2>5. D!Cleared(r)[e].default <=> e \in Defaults \ D!Locks(r)
    BY <1>4
  <2> QED
    BY <2>2, <2>3, <2>4, <2>5
<1>7. d \in Defaults' <=> boardJob[r].default
  BY <1>5 DEF Defaults
<1>8. excused' = IF boardJob[r].default THEN boardJob[r].late ELSE excused \/ boardJob[r].late
  BY DEF D!Create, D!Chosen, D!NotChosen
<1>9. OneDefaultThere'
  <2>1. CASE excused'
    BY <2>1 DEF OneDefaultThere
  <2>2. CASE ~excused'
    <3>1. ~boardJob[r].late /\ AsFound(r)
      BY <1>2, <1>8, <2>2 DEF DefaultInv
    <3>2. CASE boardJob[r].default
      <4>1. D!Rows \subseteq D!Locks(r)
        BY <1>2, <3>1, <3>2 DEF AsFound, D!Locks, CreateWork
      <4>2. Defaults' = {d}
        BY <1>5, <1>6, <1>7, <3>2, <4>1 DEF Defaults
      <4> QED
        BY <1>5, <4>2 DEF OneDefaultThere
    <3>3. CASE ~boardJob[r].default
      <4>1. D!Rows # {} /\ ~excused
        BY <1>2, <1>8, <2>2, <3>1, <3>3 DEF AsFound, CreateWork
      <4>2. PICK o \in D!Rows : Defaults = {o}
        BY <4>1 DEF OneDefaultThere, DefaultInv
      <4>3. Defaults' = {o}
        <5>1. D!Locks(r) = {}
          BY <1>2, <3>1, <3>3 DEF AsFound, D!Locks, CreateWork
        <5> QED
          BY <1>5, <1>6, <1>7, <3>3, <4>2, <5>1 DEF Defaults
      <4> QED
        BY <1>5, <4>2, <4>3 DEF OneDefaultThere
    <3> QED
      BY <3>2, <3>3
  <2> QED
    BY <2>1, <2>2
<1>10. D!LayoutIsOwners'
  BY <1>1, <1>3, <1>5, <1>6 DEF D!LayoutIsOwners, LayoutInv, BoardsTyped
<1>11. wrote' \in [D!Boards -> SUBSET Vehicles] /\ crossed' \subseteq D!Boards /\ excused' \in BOOLEAN
  BY <1>1, <1>2, <1>8 DEF BoardsTyped, CreateWork
<1>12. \A q \in Requests \ {r} : D!Locks(q) \subseteq D!Rows'
  BY <1>5 DEF LocksThere
<1> QED
  BY <1>1, <1>2, <1>5, <1>6, <1>9, <1>10, <1>11, <1>12, CommitKept DEF BoardsTyped, CreateWork

LEMMA UpdateKept == ASSUME BoardsInv, NEW r \in Requests, D!Update(r) PROVE BoardsInv'
<1> USE DEF BoardsInv
<1> DEFINE d == boardJob[r].id
           over == d \in boardJob[r].missed
           loaded == boardJob[r].loaded
           default == boardJob[r].default
<1>1. PICK layout \in SUBSET Vehicles :
        /\ loaded = [default |-> default, layout |-> layout] \/ (D!Free(r, {d}) /\ d \in D!Rows)
        /\ board' = IF d \in D!Rows THEN [D!Cleared(r) EXCEPT ![d] = D!Merged(r, layout)] ELSE D!Cleared(r)
        /\ wrote' = [wrote EXCEPT ![d] = IF over \/ d \notin D!Rows THEN {} ELSE layout]
        /\ crossed' = IF over /\ d \in D!Rows THEN crossed \cup {d} ELSE crossed \ {d}
        /\ D!Commits(r, {d})
  BY DEF D!Update
<1>2. boardJob[r] \in UpdateWork /\ boardJob[r] # D!Idle /\ boardJob[r].at = "write" /\ vehicles' = vehicles
  BY DEF D!Update, D!Is, D!Idle, BoardsTyped, CreateWork, UpdateWork, DeleteWork, RemoveWork
<1>3. d \in D!Boards /\ loaded \in BoardRow /\ default \in BOOLEAN /\ D!Rows \subseteq D!Boards
  BY <1>2 DEF UpdateWork, D!Rows
<1>4. ASSUME d \in D!Rows
      PROVE  /\ D!Merged(r, layout) \in BoardRow
             /\ D!Merged(r, layout).layout = IF layout = loaded.layout THEN board[d].layout ELSE layout
             /\ D!Merged(r, layout).default <=>
                  IF default = loaded.default THEN d \in Defaults ELSE default
  <2>1. board[d] \in BoardRow
    BY <1>3, <1>4 DEF BoardsTyped, D!Rows
  <2> QED
    BY <1>3, <1>4, <2>1 DEF D!Merged, BoardRow, Defaults
<1>5. board' \in [D!Boards -> BoardRow \cup {None}] /\ D!Rows' = D!Rows
      /\ \A e \in D!Rows \ {d} :
           board'[e].layout = board[e].layout /\ (e \in Defaults' <=> e \in Defaults \ D!Locks(r))
  <2>1. /\ D!Cleared(r) \in [D!Boards -> BoardRow \cup {None}]
        /\ \A e \in D!Boards : D!Cleared(r)[e] # None <=> e \in D!Rows
        /\ \A e \in D!Rows : D!Cleared(r)[e].layout = board[e].layout
        /\ \A e \in D!Rows : D!Cleared(r)[e].default <=> e \in Defaults \ D!Locks(r)
    BY ClearedRows
  <2>2. ASSUME d \in D!Rows
        PROVE  /\ board' \in [D!Boards -> BoardRow \cup {None}] /\ D!Rows' = D!Rows
               /\ \A e \in D!Boards \ {d} : board'[e] = D!Cleared(r)[e]
    <3> DEFINE m == D!Merged(r, layout)
    <3> HIDE DEF m, d
    <3>1. m \in BoardRow /\ m # None
      BY <1>4, <2>2, NoneIsNoRow DEF m, d
    <3>2. board' = [D!Cleared(r) EXCEPT ![d] = m]
      BY <1>1, <2>2 DEF m
    <3>3. board' \in [D!Boards -> BoardRow \cup {None}] /\ board'[d] = m /\ \A e \in D!Boards \ {d} : board'[e] = D!Cleared(r)[e]
      BY <1>3, <2>1, <3>1, <3>2
    <3>4. D!Rows' = D!Rows
      BY <2>1, <2>2, <3>1, <3>3 DEF D!Rows
    <3> QED
      BY <3>3, <3>4
  <2>3. ASSUME d \notin D!Rows
        PROVE  /\ board' \in [D!Boards -> BoardRow \cup {None}] /\ D!Rows' = D!Rows
               /\ \A e \in D!Boards \ {d} : board'[e] = D!Cleared(r)[e]
    <3>1. board' = D!Cleared(r)
      BY <1>1, <2>3
    <3>2. D!Rows' = D!Rows
      BY <2>1, <3>1 DEF D!Rows
    <3> QED
      BY <2>1, <3>1, <3>2
  <2>4. ASSUME NEW e \in D!Rows \ {d}
        PROVE  board'[e].layout = board[e].layout /\ (e \in Defaults' <=> e \in Defaults \ D!Locks(r))
    <3>1. e \in D!Boards \ {d} /\ e \in D!Rows'
      BY <1>3, <2>2, <2>3
    <3>2. board'[e] = D!Cleared(r)[e]
      BY <2>2, <2>3, <3>1
    <3>3. e \in Defaults' <=> board'[e].default
      BY <3>1 DEF Defaults
    <3>4. D!Cleared(r)[e].layout = board[e].layout
      BY <2>1
    <3>5. D!Cleared(r)[e].default <=> e \in Defaults \ D!Locks(r)
      BY <2>1
    <3> QED
      BY <3>2, <3>3, <3>4, <3>5
  <2> QED
    BY <2>2, <2>3, <2>4
<1>6. ASSUME d \in D!Rows PROVE board'[d] = D!Merged(r, layout)
  BY <1>1, <1>3, <1>6, ClearedRows
<1>7. excused' = IF default THEN boardJob[r].late ELSE excused \/ boardJob[r].late \/ loaded.default
  BY DEF D!Update, D!Chosen, D!NotChosen
<1>8. OneDefaultThere'
  <2>1. CASE excused'
    BY <2>1 DEF OneDefaultThere
  <2>2. CASE ~excused'
    <3>1. ~boardJob[r].late /\ AsFound(r)
      BY <1>2, <1>7, <2>2 DEF DefaultInv
    <3>2. d \in D!Rows /\ (d \in Defaults <=> loaded.default)
      BY <1>2, <3>1 DEF AsFound, UpdateWork
    <3>3. d \in Defaults' <=> IF default = loaded.default THEN d \in Defaults ELSE default
      BY <1>4, <1>5, <1>6, <3>2 DEF Defaults
    <3>4. CASE default
      <4>1. D!Rows \ {d} \subseteq D!Locks(r)
        BY <1>2, <3>1, <3>4 DEF AsFound, D!Locks, UpdateWork
      <4>2. loaded.default \in BOOLEAN
        BY <1>3 DEF BoardRow
      <4>3. d \in Defaults'
        BY <1>3, <3>2, <3>3, <3>4, <4>2
      <4>4. Defaults' = {d}
        BY <1>5, <4>1, <4>3 DEF Defaults
      <4> QED
        BY <1>5, <3>2, <4>4 DEF OneDefaultThere
    <3>5. CASE ~default
      <4>1. ~excused /\ ~loaded.default /\ D!Locks(r) = {}
        BY <1>2, <1>7, <2>2, <3>1, <3>5 DEF AsFound, UpdateWork, D!Locks
      <4>2. PICK o \in D!Rows : Defaults = {o}
        BY <3>2, <4>1 DEF OneDefaultThere, DefaultInv
      <4>3. d \notin Defaults' /\ d \notin Defaults
        BY <3>2, <3>3, <3>5, <4>1
      <4>4. Defaults' = {o}
        BY <1>5, <4>1, <4>2, <4>3 DEF Defaults
      <4> QED
        BY <1>5, <4>4 DEF OneDefaultThere
    <3> QED
      BY <3>4, <3>5
  <2> QED
    BY <2>1, <2>2
<1>9. D!LayoutIsOwners'
  <2> SUFFICES ASSUME NEW e \in D!Rows', e \notin crossed' PROVE board'[e].layout = wrote'[e]
    BY DEF D!LayoutIsOwners
  <2>1. CASE e # d
    BY <1>1, <1>3, <1>5, <2>1 DEF D!LayoutIsOwners, LayoutInv, BoardsTyped
  <2>2. CASE e = d
    <3>1. d \in D!Rows /\ ~over
      BY <1>1, <1>5, <2>2
    <3>2. board[d].layout = loaded.layout
      BY <1>2, <3>1 DEF LayoutInv, LayoutsAsLoaded, UpdateWork
    <3>3. board'[d].layout = layout
      BY <1>4, <1>6, <3>1, <3>2
    <3>4. wrote'[d] = layout
      BY <1>1, <1>3, <3>1 DEF BoardsTyped
    <3> QED
      BY <2>2, <3>3, <3>4
  <2> QED
    BY <2>1, <2>2
<1>10. wrote' \in [D!Boards -> SUBSET Vehicles] /\ crossed' \subseteq D!Boards /\ excused' \in BOOLEAN
  BY <1>1, <1>2, <1>3, <1>7 DEF BoardsTyped, UpdateWork, BoardRow
<1>11. \A q \in Requests \ {r} : D!Locks(q) \subseteq D!Rows'
  BY <1>5 DEF LocksThere
<1>12. /\ \A e \in D!Boards \ {d} : e \in D!Rows' <=> e \in D!Rows
       /\ \A e \in D!Rows \ {d} : board'[e].layout = board[e].layout
  BY <1>5
<1>13. boardJob[r].op # "remove" /\ vehicles' \subseteq Vehicles /\ {d} \in SUBSET D!Boards /\ D!Commits(r, {d})
  BY <1>1, <1>2, <1>3 DEF UpdateWork, BoardsTyped
<1> HIDE DEF d
<1> QED
  BY <1>2, <1>5, <1>8, <1>9, <1>10, <1>11, <1>12, <1>13, CommitKept

LEMMA DeleteKept == ASSUME BoardsInv, NEW r \in Requests, D!Delete(r) PROVE BoardsInv'
<1> USE DEF BoardsInv
<1> DEFINE d == boardJob[r].id
           heir == {boardJob[r].heir} \ {None}
<1>1. /\ D!Free(r, {d} \cup heir) /\ heir \subseteq D!Rows
      /\ board' = [e \in D!Boards |->
           IF e = d THEN None
           ELSE IF e \in heir THEN [board[e] EXCEPT !.default = TRUE] ELSE board[e]]
      /\ wrote' = [wrote EXCEPT ![d] = {}]
      /\ crossed' = crossed \ {d}
      /\ D!Commits(r, {d})
      /\ vehicles' = vehicles
      /\ excused' = (excused \/ boardJob[r].late)
  BY DEF D!Delete, D!NotChosen
<1>2. boardJob[r] \in DeleteWork /\ boardJob[r] # D!Idle /\ boardJob[r].at = "write"
  BY DEF D!Delete, D!Is, D!Idle, BoardsTyped, CreateWork, UpdateWork, DeleteWork, RemoveWork
<1>3. d \in D!Boards /\ D!Rows \subseteq D!Boards /\ \A e \in D!Rows : board[e] \in BoardRow
  BY <1>2 DEF DeleteWork, D!Rows, BoardsTyped
<1>4. \A e \in heir : [board[e] EXCEPT !.default = TRUE] \in BoardRow
                      /\ [board[e] EXCEPT !.default = TRUE].default = TRUE
                      /\ [board[e] EXCEPT !.default = TRUE].layout = board[e].layout
  BY <1>1, <1>3 DEF BoardRow
<1> HIDE DEF d, heir
<1>5. board' \in [D!Boards -> BoardRow \cup {None}]
  BY <1>1, <1>4 DEF BoardsTyped
<1>6. D!Rows' = D!Rows \ {d}
  BY <1>1, <1>3, <1>4, NoneIsNoRow DEF D!Rows
<1>7. Defaults' = (Defaults \ {d}) \cup (heir \ {d})
  BY <1>1, <1>3, <1>4, <1>6 DEF Defaults
<1>8. /\ \A e \in D!Boards \ {d} : e \in D!Rows' <=> e \in D!Rows
      /\ \A e \in D!Rows \ {d} : board'[e].layout = board[e].layout
  BY <1>1, <1>3, <1>4, <1>6
<1>9. OneDefaultThere'
  <2>1. CASE excused'
    BY <2>1 DEF OneDefaultThere
  <2>2. CASE ~excused'
    <3>1. ~boardJob[r].late /\ AsFound(r) /\ ~excused
      BY <1>1, <1>2, <2>2 DEF DefaultInv
    <3>2. /\ d \in D!Rows
          /\ IF boardJob[r].heir # None
             THEN boardJob[r].heir \in D!Rows \ {d} /\ boardJob[r].heir \notin Defaults /\ d \in Defaults
             ELSE d \notin Defaults \/ Defaults # {d} \/ D!Rows = {d}
      BY <1>2, <3>1 DEF AsFound, DeleteWork, d
    <3>3. PICK o \in D!Rows : Defaults = {o}
      BY <3>1, <3>2 DEF OneDefaultThere, DefaultInv
    <3>4. CASE boardJob[r].heir # None
      <4>1. Defaults' = {boardJob[r].heir} /\ boardJob[r].heir \in D!Rows'
        BY <1>6, <1>7, <3>2, <3>3, <3>4 DEF heir
      <4> QED
        BY <4>1 DEF OneDefaultThere
    <3>5. CASE boardJob[r].heir = None
      BY <1>6, <1>7, <3>2, <3>3, <3>5 DEF heir, OneDefaultThere
    <3> QED
      BY <3>4, <3>5
  <2> QED
    BY <2>1, <2>2
<1>10. D!LayoutIsOwners'
  BY <1>1, <1>3, <1>6, <1>8 DEF D!LayoutIsOwners, LayoutInv, BoardsTyped
<1>11. wrote' \in [D!Boards -> SUBSET Vehicles] /\ crossed' \subseteq D!Boards /\ excused' \in BOOLEAN
  BY <1>1, <1>2, <1>3 DEF BoardsTyped, DeleteWork
<1>12. \A q \in Requests \ {r} : D!Locks(q) \subseteq D!Rows'
  BY <1>1, <1>6 DEF LocksThere, D!Free
<1>13. boardJob[r].op # "remove" /\ vehicles' \subseteq Vehicles /\ {d} \in SUBSET D!Boards
  BY <1>1, <1>2, <1>3 DEF DeleteWork, BoardsTyped
<1> QED
  BY <1>1, <1>2, <1>5, <1>8, <1>9, <1>10, <1>11, <1>12, <1>13, CommitKept

LEMMA RemoveKept == ASSUME BoardsInv, NEW r \in Requests, D!Remove(r) PROVE BoardsInv'
<1> USE DEF BoardsInv
<1> DEFINE v == boardJob[r].vehicle
           on == boardJob[r].on
           loaded == boardJob[r].loaded
           missed == boardJob[r].missed
<1>1. /\ on \subseteq D!Rows
      /\ board' = [d \in D!Boards |->
          IF d \in on THEN [board[d] EXCEPT !.layout = loaded[d] \ {v}] ELSE board[d]]
      /\ vehicles' = vehicles \ {v}
      /\ wrote' = [d \in D!Boards |-> IF d \in missed THEN {} ELSE wrote[d] \ {v}]
      /\ crossed' = crossed \cup (missed \cap D!Rows)
      /\ D!Commits(r, on)
      /\ excused' = excused
  BY DEF D!Remove
<1>2. boardJob[r] \in RemoveWork /\ boardJob[r] # D!Idle
  BY DEF D!Remove, D!Is, D!Idle, BoardsTyped, CreateWork, UpdateWork, DeleteWork, RemoveWork
<1>3. /\ D!Rows \subseteq D!Boards /\ \A e \in D!Rows : board[e] \in BoardRow
      /\ \A d \in DOMAIN loaded : loaded[d] \subseteq Vehicles
  BY <1>2 DEF RemoveWork, D!Rows, BoardsTyped
<1>4. /\ on = {d \in DOMAIN loaded : v \in loaded[d]}
      /\ \A d \in D!Rows \ missed : d \in DOMAIN loaded /\ board[d].layout = loaded[d]
  BY <1>2 DEF LayoutInv, LayoutsAsLoaded, RemoveWork
<1>5. ASSUME NEW d \in on
      PROVE  /\ board'[d] \in BoardRow /\ board'[d].layout = loaded[d] \ {v}
             /\ board'[d].default <=> board[d].default
  <2>1. d \in D!Boards /\ board[d] \in BoardRow /\ loaded[d] \subseteq Vehicles
    BY <1>1, <1>3, <1>4
  <2>2. board'[d] = [board[d] EXCEPT !.layout = loaded[d] \ {v}]
    BY <1>1, <2>1
  <2> QED
    BY <2>1, <2>2 DEF BoardRow
<1> HIDE DEF on, v, loaded, missed
<1>6. board' \in [D!Boards -> BoardRow \cup {None}]
  <2>1. \A d \in D!Boards : board'[d] \in BoardRow \cup {None}
    BY <1>1, <1>5 DEF BoardsTyped
  <2> QED
    BY <1>1, <2>1
<1>7. D!Rows' = D!Rows
  BY <1>1, <1>3, <1>5, NoneIsNoRow DEF D!Rows
<1>8. Defaults' = Defaults
  BY <1>1, <1>3, <1>5, <1>7 DEF Defaults
<1>9. /\ \A e \in D!Boards \ on : e \in D!Rows' <=> e \in D!Rows
      /\ \A e \in D!Rows \ on : board'[e].layout = board[e].layout
  <2>1. ASSUME NEW e \in D!Rows \ on PROVE board'[e] = board[e]
    BY <1>1, <1>3
  <2> QED
    BY <1>7, <2>1
<1>10. OneDefaultThere'
  BY <1>1, <1>7, <1>8 DEF OneDefaultThere, DefaultInv
<1>11. D!LayoutIsOwners'
  <2> SUFFICES ASSUME NEW d \in D!Rows', d \notin crossed' PROVE board'[d].layout = wrote'[d]
    BY DEF D!LayoutIsOwners
  <2>1. d \in D!Rows /\ d \notin missed /\ d \notin crossed /\ d \in D!Boards
    BY <1>1, <1>3, <1>7
  <2>2. board[d].layout = wrote[d] /\ d \in DOMAIN loaded /\ board[d].layout = loaded[d]
    BY <1>4, <2>1 DEF D!LayoutIsOwners, LayoutInv
  <2>3. wrote'[d] = wrote[d] \ {v}
    BY <1>1, <2>1
  <2>4. CASE d \in on
    BY <1>5, <2>2, <2>3, <2>4
  <2>5. CASE d \notin on
    <3>1. board'[d] = board[d] /\ v \notin loaded[d]
      BY <1>1, <1>4, <2>1, <2>2, <2>5
    <3> QED
      BY <2>2, <2>3, <3>1
  <2> QED
    BY <2>4, <2>5
<1>12. wrote' \in [D!Boards -> SUBSET Vehicles] /\ crossed' \subseteq D!Boards /\ excused' \in BOOLEAN
  BY <1>1, <1>3 DEF BoardsTyped
<1>13. \A q \in Requests \ {r} : D!Locks(q) \subseteq D!Rows'
  BY <1>7 DEF LocksThere
<1>14. vehicles' \subseteq Vehicles /\ on \in SUBSET D!Boards
  BY <1>1, <1>3 DEF BoardsTyped
<1> QED
  BY <1>1, <1>2, <1>6, <1>7, <1>8, <1>9, <1>10, <1>11, <1>12, <1>13, <1>14, CommitKept

----------------------------------------------------------------------------

LEMMA BoardsInit == D!Init => BoardsInv
<1> SUFFICES ASSUME D!Init PROVE BoardsInv
  OBVIOUS
<1>1. D!Rows = {}
  BY DEF D!Init, D!Rows
<1>2. BoardsTyped
  BY DEF D!Init, BoardsTyped
<1> QED
  BY <1>1, <1>2
     DEF D!Init, BoardsInv, LocksThere, D!Locks, DefaultInv, OneDefaultThere, LayoutInv,
         D!LayoutIsOwners

\* The inductive invariant of Dashboards.
THEOREM BoardsInductive == D!Spec => []BoardsInv
<1>1. ASSUME BoardsInv, D!Next PROVE BoardsInv'
  BY <1>1, CreateBegun, UpdateBegun, DeleteBegun, RemoveBegun, ClearKept, CreateKept,
     UpdateKept, ReplaceKept, DeleteKept, RemoveKept, FailKept
     DEF D!Next
<1>2. ASSUME BoardsInv, UNCHANGED D!vars PROVE BoardsInv'
  BY <1>2
     DEF D!vars, D!ghosts, BoardsInv, BoardsTyped, LocksThere, D!Locks, D!Rows, Defaults,
         DefaultInv, OneDefaultThere, AsFound, LayoutInv, D!LayoutIsOwners, LayoutsAsLoaded
<1>3. BoardsInv /\ [D!Next]_(D!vars) => BoardsInv'
  BY <1>1, <1>2
<1> QED
  BY <1>3, BoardsInit, PTL DEF D!Spec

\* One of an owner's dashboards is the default, unless the owner gave it up or two
\* requests overlapped, for any number of browsers and dashboards (create_dashboard,
\* update_dashboard, delete_dashboard).
THEOREM DefaultIsOne == ConsoleSpec => []OneDefault
<1>1. ASSUME BoardsInv PROVE OneDefault
  <2>1. \A d : D!Cardinality({d}) = 1
    BY FS_Singleton DEF D!Cardinality, Cardinality
  <2> QED
    BY <1>1, <2>1 DEF BoardsInv, DefaultInv, OneDefaultThere, OneDefault, D!OneDefault, Defaults
<1> QED
  BY <1>1, BoardsInductive, PartsSpec, PTL

\* A dashboard names the vehicles its owner put there and has not removed, unless
\* two writers of the layout overlapped (delete_vehicle).
THEOREM LayoutsAreOwners == ConsoleSpec => []LayoutIsOwners
<1>1. BoardsInv => LayoutIsOwners
  BY DEF LayoutIsOwners, BoardsInv, LayoutInv
<1> QED
  BY <1>1, BoardsInductive, PartsSpec, PTL

=============================================================================
