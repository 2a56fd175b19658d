----------------------------- MODULE Enrollment -----------------------------
(***************************************************************************)
(* How a host becomes a device of a vehicle and stops being one: one-time     *)
(* tokens, the installation on the host, rotation, revocation and deletion    *)
(* (backend/app/devices, agent `install` and `enroll`).                       *)
(*                                                                         *)
(* Redeeming a token locks its row. The requests of operators load a row and   *)
(* later write the columns that differ from what was loaded, or fail if the    *)
(* row is gone. The installation is a sequence of writes on the host, cut off   *)
(* by an answer that is lost or a host that loses power, and may be repeated.   *)
(***************************************************************************)
EXTENDS Naturals, FiniteSets

CONSTANTS
  Tokens,
  Devices,     \* ids of devices; each is used once
  Operators,   \* requests of people under way at once
  Hosts,
  None,
  MaxVersion   \* bound: credential_version and config_version

VARIABLES
  vehicle,     \* whether the vehicle is there (vehicles share nothing here)
  token,       \* rows of device_enrollment_tokens: None, or open, used, expired
  device,      \* rows of devices
  job,         \* what an operator's request is about, and what it loaded
  host,        \* how far an installation has come, and the files on the host
  \* for the properties
  made,        \* the token that made a device
  revoked      \* devices whose revocation was answered

vars == <<vehicle, token, device, job, host, made, revoked>>

Rows == {d \in Devices : device[d] # None}
Idle == [op |-> "none"]
NoFiles == [credentials |-> None, readable |-> FALSE, config |-> None]

Init ==
  /\ vehicle = TRUE
  /\ token = [t \in Tokens |-> None]
  /\ device = [d \in Devices |-> None]
  /\ job = [o \in Operators |-> Idle]
  /\ host = [h \in Hosts |-> [at |-> "off", files |-> NoFiles]]
  /\ made = [d \in Devices |-> None]
  /\ revoked = {}

\* new_opaque_token: a credential nobody has
InUse ==
  {device[d].secret : d \in Rows}
    \cup {host[h].files.credentials.secret : h \in {g \in Hosts : host[g].files.credentials # None}}
    \cup {host[h].answer.secret : h \in {g \in Hosts : "answer" \in DOMAIN host[g]}}
New == CHOOSE n \in 1..(1 + Cardinality(InUse)) : n \notin InUse

\* current_device: the device a credential opens
Opens(secret) == {d \in Rows : device[d].secret = secret /\ ~device[d].revoked}

\* A new id is one nobody has had, no matter which.
Fresh(unused) == IF unused = {} THEN None ELSE CHOOSE id \in unused : TRUE

----------------------------------------------------------------------------
(* Tokens.                                                                 *)

\* new_enrollment; who gets the token starts the installer with it, perhaps on
\* two hosts.
CreateEnrollment(t) ==
  /\ vehicle
  /\ t = Fresh({u \in Tokens : token[u] = None /\ \A d \in Devices : made[d] # u})
  /\ token' = [token EXCEPT ![t] = "open"]
  /\ UNCHANGED <<vehicle, device, job, host, made, revoked>>

Expire(t) ==
  /\ token[t] = "open"
  /\ \A h \in Hosts : host[h].at = "redeeming" => host[h].token # t
  /\ token' = [token EXCEPT ![t] = "expired"]
  /\ UNCHANGED <<vehicle, device, job, host, made, revoked>>

Goes(h, at) == host' = [host EXCEPT ![h].at = at]

\* Mutant: the token is looked at without a lock on its row.
NotLocked(t) == TRUE

\* enroll: the row is locked, then looked at.
Unlocked(t) == \A h \in Hosts : host[h].at = "redeeming" => host[h].token # t

Redeem(h) ==
  \E t \in Tokens :
    /\ host[h].at \in {"off", "running"}
    /\ Unlocked(t)
    /\ token[t] = "open"
    /\ host' = [host EXCEPT ![h] = [at |-> "redeeming", token |-> t, files |-> @.files]]
    /\ UNCHANGED <<vehicle, token, device, job, made, revoked>>

\* The device is there and the token used in one transaction.
Enroll(h) ==
  /\ host[h].at = "redeeming"
  /\ vehicle
  /\ \E d \in Devices :
       /\ d = Fresh({e \in Devices : made[e] = None})
       /\ device' = [device EXCEPT ![d] =
            [secret |-> New, version |-> 1, config |-> 1, revoked |-> FALSE]]
       /\ made' = [made EXCEPT ![d] = host[h].token]
       /\ token' = [token EXCEPT ![host[h].token] = "used"]
       /\ host' = [host EXCEPT ![h] = [at |-> "enrolled", files |-> @.files,
                     answer |-> [device |-> d, secret |-> New, config |-> 1]]]
  /\ UNCHANGED <<vehicle, job, revoked>>

----------------------------------------------------------------------------
(* On the host.                                                            *)

\* The answer is lost or refused, or the host loses power: what was written
\* stays, and the service comes up if it may read its files.
GiveUp(h) ==
  /\ host[h].at \notin {"off", "running"}
  /\ host' = [host EXCEPT ![h] = [at |-> "off", files |-> @.files]]
  /\ UNCHANGED <<vehicle, token, device, job, made, revoked>>

\* credentials.json is replaced, by a file of root.
StoreCredentials(h) ==
  /\ host[h].at = "enrolled"
  /\ host' = [host EXCEPT ![h].at = "stored",
       ![h].files = [@ EXCEPT !.credentials = host[h].answer, !.readable = FALSE]]
  /\ UNCHANGED <<vehicle, token, device, job, made, revoked>>

\* install_if_newer: what is on the host may be of an earlier enrollment; then
\* an older version is refused, after the credentials were replaced.
Newer(config, current) == current = None \/ config > current.version
Refused(config, current) == current # None /\ config < current.version

InstallIfNewer(h) ==
  LET answer == host[h].answer
      current == host[h].files.config
  IN
  /\ host[h].at = "stored"
  /\ ~Refused(answer.config, current)
  /\ host' = [host EXCEPT ![h].at = "configured",
       ![h].files.config = IF Newer(answer.config, current)
                           THEN [device |-> answer.device, version |-> answer.config] ELSE @]
  /\ UNCHANGED <<vehicle, token, device, job, made, revoked>>

\* ChownAgent, and `systemctl enable --now`
InstallService(h) ==
  /\ host[h].at = "configured"
  /\ host' = [host EXCEPT ![h] = [at |-> "running", files |-> [@.files EXCEPT !.readable = TRUE]]]
  /\ UNCHANGED <<vehicle, token, device, job, made, revoked>>

\* get_config by the service, which takes up a newer version.
Sync(h) ==
  /\ host[h].at = "running"
  /\ host[h].files.readable
  /\ \E d \in Opens(host[h].files.credentials.secret) :
       /\ Newer(device[d].config, host[h].files.config)
       /\ host' = [host EXCEPT ![h].files.config = [device |-> d, version |-> device[d].config]]
  /\ UNCHANGED <<vehicle, token, device, job, made, revoked>>

----------------------------------------------------------------------------
(* Operators.                                                              *)

\* _authorized_device. What rotating and editing write depends on the row that
\* was loaded; what revoking and deleting write does not, so these are one step.
Load(o) ==
  \E d \in Rows, op \in {"rotate", "edit"} :
    /\ job[o] = Idle
    /\ op = "rotate" => ~device[d].revoked
    /\ job' = [job EXCEPT ![o] = [op |-> op, id |-> d,
                 loaded |-> IF op = "rotate" THEN device[d].version ELSE device[d].config]]
    /\ UNCHANGED <<vehicle, token, device, host, made, revoked>>

\* A row that is gone cannot be written.
Commits(o, op) ==
  /\ job[o].op = op
  /\ job[o].id \in Rows
  /\ job[o].loaded < MaxVersion
  /\ job' = [job EXCEPT ![o] = Idle]
  /\ UNCHANGED <<vehicle, token, host, made, revoked>>

\* Mutant: the row is written as it was loaded.
WholeRow(o) ==
  [device[job[o].id] EXCEPT !.secret = New, !.version = job[o].loaded + 1, !.revoked = FALSE]

\* rotate_credential: two columns of the row
Rotated(o) ==
  [device[job[o].id] EXCEPT !.secret = New, !.version = job[o].loaded + 1]

Rotate(o) ==
  /\ Commits(o, "rotate")
  /\ device' = [device EXCEPT ![job[o].id] = Rotated(o)]

\* edit_device: another cadence is another version.
Edit(o) ==
  /\ Commits(o, "edit")
  /\ device' = [device EXCEPT ![job[o].id].config = job[o].loaded + 1]

\* The row is gone, or the database is not reached: 500.
Fail(o) ==
  /\ job[o] # Idle
  /\ job' = [job EXCEPT ![o] = Idle]
  /\ UNCHANGED <<vehicle, token, device, host, made, revoked>>

Revoke(d) ==
  /\ d \in Rows
  /\ device' = [device EXCEPT ![d].revoked = TRUE]
  /\ revoked' = revoked \cup {d}
  /\ UNCHANGED <<vehicle, token, job, host, made>>

Delete(d) ==
  /\ d \in Rows
  /\ device' = [device EXCEPT ![d] = None]
  /\ UNCHANGED <<vehicle, token, job, host, made, revoked>>

\* The rows of tokens and devices go with the vehicle; a token that is being
\* redeemed is waited for.
RemoveVehicle ==
  /\ vehicle
  /\ \A t \in Tokens : Unlocked(t)
  /\ vehicle' = FALSE
  /\ token' = [t \in Tokens |-> None]
  /\ device' = [d \in Devices |-> None]
  /\ UNCHANGED <<job, host, made, revoked>>

Next ==
  \/ RemoveVehicle
  \/ \E t \in Tokens : CreateEnrollment(t) \/ Expire(t)
  \/ \E h \in Hosts :
       \/ Redeem(h) \/ Enroll(h) \/ GiveUp(h) \/ StoreCredentials(h) \/ InstallIfNewer(h)
       \/ InstallService(h) \/ Sync(h)
  \/ \E o \in Operators : Load(o) \/ Rotate(o) \/ Edit(o) \/ Fail(o)
  \/ \E d \in Devices : Revoke(d) \/ Delete(d)

Spec == Init /\ [][Next]_vars

----------------------------------------------------------------------------
(* A token makes one device, however many hosts redeem it at once, repeat an  *)
(* installation or lose the answer (devices/services.py:70).                 *)
OneDevicePerToken ==
  \A d, e \in Devices : made[d] # None /\ made[d] = made[e] => d = e

(* No credential opens a device after its revocation was answered: not one    *)
(* that a rotation under way at that moment makes, nor one on a host that is   *)
(* installed again (devices/routes.py:121 and :130).                        *)
RevokedStaysOut ==
  \A d \in revoked \cap Rows : d \notin Opens(device[d].secret)

=============================================================================
