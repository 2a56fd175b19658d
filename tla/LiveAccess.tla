----------------------------- MODULE LiveAccess -----------------------------
(***************************************************************************)
(* Who may see which vehicle, and what a browser is shown of it: sessions   *)
(* (backend/app/auth), grants (backend/app/access) and the live event       *)
(* stream (backend/app/api/events.py).                                      *)
(*                                                                         *)
(* A frame of the stream is put together by several queries, between which  *)
(* sessions end and grants change. The requests of an administrator, who is *)
(* not one of Users, are transactions under READ COMMITTED: replacing the   *)
(* grants of a vehicle deletes the rows one statement sees and inserts      *)
(* others, and a login checks a password before it makes a session.         *)
(***************************************************************************)
EXTENDS Naturals, FiniteSets

CONSTANTS
  Users, Vehicles, Sessions,
  Streamed,     \* sessions of Sessions whose browser opens the stream
  Requests,     \* requests under way at once
  None,
  MaxChanges    \* bound: requests and events in a run

ASSUME StreamedAssumption == Streamed \subseteq Sessions

VARIABLES
  \* the database
  active, admin,   \* User.is_active, system.admin
  users,           \* rows of users
  password,        \* which password the local identity has
  owner, valid,    \* BrowserSession.user_id; neither revoked nor expired
  vehicles,        \* rows of vehicles
  gone,            \* ids that had a row; none is given twice
  report,          \* what serialize_vehicle shows of a vehicle
  grant,           \* VehicleAccessGrant.level
  template,        \* the default access, None while app_settings has no row
  \* requests and streams
  call, stream,
  changes,
  \* for the properties
  known,    \* the password the owner of a session last proved to know
  late,     \* sessions whose login had checked a password since replaced
  listed,   \* the grants an administrator last asked for
  mixed,    \* vehicles with two lists of grants at once
  held      \* what a stream's user could see since the frame's list was made

userVars == <<users, active, admin>>
rowVars == <<userVars, vehicles, gone, report>>
sessionVars == <<password, owner, valid, known, late>>
grantVars == <<grant, template, listed, mixed>>
vars == <<rowVars, sessionVars, grantVars, call, stream, changes, held>>

Levels == {"none", "view", "operate"}
Idle == [op |-> "none"]
Closed == [at |-> "closed", admin |-> FALSE, todo |-> {}, frame |-> {}, shown |-> {None}]

\* What grants let a user see, and how; access_level, which puts
\* administration before them
Granted(u) == {<<v, grant[v][u]>> : v \in {w \in Vehicles : grant[w][u] # "none"}}
Rights(u) == IF u \in admin THEN {<<v, "operate">> : v \in vehicles} ELSE Granted(u)

\* current_user lets a session pass.
Works(s) == s \in valid /\ owner[s] \in active

Nobody == [u \in Users |-> "none"]

Init ==
  /\ users \in SUBSET Users \ {{}} /\ active = users /\ admin = {}
  /\ gone = {}
  /\ password = [u \in Users |-> 0]
  /\ \E u \in users : owner = [s \in Sessions |-> u]
  /\ valid = Streamed
  /\ known = [s \in Sessions |-> 0] /\ late = {}
  /\ vehicles \in SUBSET Vehicles
  /\ report = [v \in Vehicles |-> 0]
  /\ \E l \in Levels :
       grant = [v \in Vehicles |-> [u \in Users |->
                  IF v \in vehicles /\ u \in users THEN l ELSE "none"]]
  /\ listed = grant
  /\ mixed = {}
  /\ template = None
  /\ call = [r \in Requests |-> Idle]
  /\ stream = [s \in Sessions |-> Closed]
  /\ held = [s \in Sessions |-> {}]
  /\ changes = 0

Counts == changes < MaxChanges /\ changes' = changes + 1

\* get_db gives the session back when the request ends.
Finish(r) == call' = [call EXCEPT ![r] = Idle]
Begin(r, c) == call[r] = Idle /\ Counts /\ call' = [call EXCEPT ![r] = c]

----------------------------------------------------------------------------
(* Sessions.                                                               *)

\* login as far as LocalAuthenticationProvider.authenticate: the password is the one
\* in force.
Verify(r) ==
  \E u \in users :
    /\ Begin(r, [op |-> "login", user |-> u, password |-> password[u]])
    /\ UNCHANGED <<rowVars, sessionVars, grantVars, stream>>

\* The rest of login: the write of last_used_at waits for a change of the
\* password, and does not look at the password again.
Login(r) ==
  /\ call[r].op = "login"
  /\ call[r].user \in active
  /\ \E s \in Sessions \ valid :
       /\ stream[s] = Closed
       /\ owner' = [owner EXCEPT ![s] = call[r].user]
       /\ valid' = valid \cup {s}
       /\ known' = [known EXCEPT ![s] = call[r].password]
       /\ late'  = IF call[r].password = password[call[r].user] THEN late \ {s} ELSE late \cup {s}
  /\ Finish(r)
  /\ UNCHANGED <<rowVars, password, grantVars, stream, changes>>

\* A wrong password, a suspended or deleted account, a lost connection; for
\* the other requests a refusal that changes nothing.
Fail(r) ==
  /\ call[r] # Idle
  /\ Finish(r)
  /\ UNCHANGED <<rowVars, sessionVars, grantVars, stream, changes>>

Ends(s) ==
  /\ Counts
  /\ valid' = valid \ {s}
  /\ UNCHANGED <<rowVars, password, owner, known, late, grantVars, call, stream>>

Logout(s) == Works(s) /\ Ends(s)

\* revoke_session: another session of one's own
RevokeSession(s) ==
  \E t \in Sessions \ {s} : s \in valid /\ Works(t) /\ owner[t] = owner[s] /\ Ends(s)

Expire(s) == s \in valid /\ Ends(s)

\* update_password as far as the check of the current one
BeginChange(r) ==
  \E s \in valid :
    /\ owner[s] \in active
    /\ Begin(r, [op |-> "change", by |-> s, user |-> owner[s]])
    /\ UNCHANGED <<rowVars, sessionVars, grantVars, stream>>

NoOthers(u, s) == {}   \* mutant: a change of the password revokes nothing
\* revoke_other_sessions
Others(u, s) == {t \in Sessions : owner[t] = u /\ t # s}

\* change_password, revoke_other_sessions and the commit. The identity's row is
\* locked from the first write to the commit.
Change(r) ==
  LET u == call[r].user  s == call[r].by IN
  /\ call[r].op = "change" /\ u \in users /\ owner[s] = u
  /\ password' = [password EXCEPT ![u] = @ + 1]
  /\ valid' = valid \ Others(u, s)
  /\ known' = [known EXCEPT ![s] = password'[u]]
  /\ late'  = late \ {s}
  /\ Finish(r)
  /\ UNCHANGED <<rowVars, owner, grantVars, stream, changes>>

----------------------------------------------------------------------------
(* Accounts and vehicles, as far as access depends on them.                *)

SetActive(u) ==
  /\ u \in users /\ Counts
  /\ active' = IF u \in active THEN active \ {u} ELSE active \cup {u}
  /\ UNCHANGED <<users, admin, vehicles, gone, report, sessionVars, grantVars, call, stream>>

SetAdmin(u) ==
  /\ u \in users /\ Counts
  /\ admin' = IF u \in admin THEN admin \ {u} ELSE admin \cup {u}
  /\ UNCHANGED <<users, active, vehicles, gone, report, sessionVars, grantVars, call, stream>>

\* Rows a replacement of grants has deleted are locked until it ends.
Dropped(r) == IF call[r].op = "replaced" THEN call[r].seen ELSE {}

\* delete_user: sessions and grants go with the account.
RemoveUser(u) ==
  /\ u \in users /\ Counts
  /\ \A r \in Requests : u \notin Dropped(r)
  /\ users' = users \ {u} /\ gone' = gone \cup {u} /\ active' = active \ {u} /\ admin' = admin \ {u}
  /\ valid' = {s \in valid : owner[s] # u}
  /\ grant' = [v \in Vehicles |-> [grant[v] EXCEPT ![u] = "none"]]
  /\ listed' = [v \in Vehicles |-> [listed[v] EXCEPT ![u] = "none"]]
  /\ UNCHANGED <<password, owner, known, late, vehicles, report, template, mixed, call, stream>>

\* create_vehicle
AddVehicle(v) ==
  /\ v \notin vehicles \cup gone /\ Counts
  /\ vehicles' = vehicles \cup {v}
  /\ UNCHANGED <<userVars, gone, report, sessionVars, grantVars, call, stream>>

\* delete_vehicle, with its grants
RemoveVehicle(v) ==
  /\ v \in vehicles /\ Counts
  /\ \A r \in Requests : Dropped(r) # {} => call[r].vehicle # v
  /\ vehicles' = vehicles \ {v} /\ gone' = gone \cup {v}
  /\ grant' = [grant EXCEPT ![v] = Nobody]
  /\ listed' = [listed EXCEPT ![v] = Nobody]
  /\ UNCHANGED <<userVars, sessionVars, report, template, mixed, call, stream>>

\* A reading arrives, or the last one becomes too old to count as online.
Report(v) ==
  /\ v \in vehicles /\ Counts
  /\ report' = [report EXCEPT ![v] = 1 - @]
  /\ UNCHANGED <<userVars, sessionVars, vehicles, gone, grantVars, call, stream>>

----------------------------------------------------------------------------
(* Grants.                                                                 *)

ListedRows(v, l) == {u \in Users : grant[v][u] # "none" /\ l[u] # "none"}   \* mutant: those not listed stay
\* The rows the DELETE of replace_vehicle_grants is about
SeenRows(v, l) == {u \in Users : grant[v][u] # "none"}

\* update_vehicle_access: the users are looked up, and the DELETE sees the rows
\* that are committed when it starts.
BeginReplace(r) ==
  \E v \in vehicles, l \in [Users -> Levels] :
    /\ \A u \in Users \ users : l[u] = "none"
    /\ Begin(r, [op |-> "replace", vehicle |-> v, list |-> l, overlaps |-> FALSE,
                 seen |-> SeenRows(v, l)])
    /\ UNCHANGED <<rowVars, sessionVars, grantVars, stream>>

About(r, v) == call[r].op \in {"replace", "replaced"} /\ call[r].vehicle = v

\* The DELETE of replace_vehicle_grants waits for those who have deleted the
\* same rows.
Delete(r) ==
  /\ call[r].op = "replace"
  /\ \A q \in Requests \ {r} :
       About(q, call[r].vehicle) => Dropped(q) \cap call[r].seen = {}
  /\ call' = [call EXCEPT ![r].op = "replaced"]
  /\ UNCHANGED <<rowVars, sessionVars, grantVars, stream, changes>>

\* The primary key and the foreign keys of the rows to insert
Insertable(r) ==
  /\ call[r].vehicle \in vehicles
  /\ \A u \in Users : call[r].list[u] # "none" =>
       u \in users /\ (u \in call[r].seen \/ grant[call[r].vehicle][u] = "none")

\* What others have under way for the vehicles of V learns that rows of it were
\* committed, and no longer finds those that are gone.
Overlapped(r, V, rows) ==
  [q \in Requests |->
    IF q = r THEN Idle
    ELSE IF \E v \in V : About(q, v)
      THEN [call[q] EXCEPT !.overlaps = TRUE,
              !.seen = IF call[q].op = "replace" THEN @ \ rows ELSE @]
    ELSE call[q]]

\* The INSERTs of replace_vehicle_grants and the commit
Replace(r) ==
  LET v == call[r].vehicle  l == call[r].list IN
  /\ call[r].op = "replaced" /\ Insertable(r)
  /\ grant' = [grant EXCEPT ![v] =
       [u \in Users |-> IF l[u] # "none" \/ u \in call[r].seen THEN l[u] ELSE grant[v][u]]]
  /\ listed' = [listed EXCEPT ![v] = l]
  /\ mixed' = IF call[r].overlaps THEN mixed \cup {v} ELSE mixed \ {v}
  /\ call' = Overlapped(r, {v}, call[r].seen)
  /\ UNCHANGED <<rowVars, sessionVars, template, stream, changes>>

\* update_default_access: the row is read, and made when there is none.
BeginDefault(r) ==
  \E t \in [Vehicles -> Levels] :
    /\ Begin(r, [op |-> "default", value |-> t, loaded |-> template])
    /\ UNCHANGED <<rowVars, sessionVars, grantVars, stream>>

\* A row that was there is written if its value changes; of two that are made
\* the second violates the primary key.
SetDefault(r) ==
  /\ call[r].op = "default"
  /\ call[r].loaded = None => template = None
  /\ template' = IF call[r].value = call[r].loaded THEN template ELSE call[r].value
  /\ Finish(r)
  /\ UNCHANGED <<rowVars, sessionVars, grant, listed, mixed, stream, changes>>

\* apply_default_access: the template, as far as its vehicles exist
BeginAdd(r) ==
  \E u \in Users \ (users \cup gone) :
    /\ \A q \in Requests : call[q].op = "add" => call[q].user # u
    /\ Begin(r, [op |-> "add", user |-> u, list |->
         [v \in Vehicles |-> IF template # None /\ v \in vehicles THEN template[v] ELSE "none"]])
    /\ UNCHANGED <<rowVars, sessionVars, grantVars, stream>>

\* create_local_user and the commit
Add(r) ==
  LET u == call[r].user  l == call[r].list
      V == {v \in Vehicles : l[v] # "none"} IN
  /\ call[r].op = "add" /\ V \subseteq vehicles
  /\ users' = users \cup {u} /\ active' = active \cup {u}
  /\ grant'  = [v \in Vehicles |-> [grant[v] EXCEPT ![u] = l[v]]]
  /\ listed' = [v \in Vehicles |-> [listed[v] EXCEPT ![u] = l[v]]]
  /\ call' = Overlapped(r, V, {})
  /\ UNCHANGED <<gone, admin, sessionVars, vehicles, report, template, mixed, stream, changes>>

----------------------------------------------------------------------------
(* The live event stream of a session.                                     *)

Moves(s, st) ==
  /\ stream' = [stream EXCEPT ![s] = st]
  /\ UNCHANGED <<rowVars, sessionVars, grantVars, call>>

\* stream_events; the browser opens it again when it breaks off.
Open(s) ==
  /\ s \in Streamed /\ stream[s].at = "closed" /\ Works(s) /\ Counts
  /\ Moves(s, [Closed EXCEPT !.at = "waiting", !.shown = {None}])

AnyAccount(s) == s \in valid   \* mutant: a suspended account keeps its stream
\* load_vehicle_snapshot is not None.
Admits(s) == s \in valid /\ owner[s] \in active

\* load_vehicle_snapshot: the session and the account, which is kept as it was
\* read for the rest of the frame
Check(s) ==
  /\ stream[s].at = "waiting" /\ Admits(s)
  /\ Moves(s, [stream[s] EXCEPT !.at = "checked", !.admin = owner[s] \in admin])
  /\ UNCHANGED changes

\* session.expired
Expired(s) ==
  /\ stream[s].at = "waiting" /\ ~Admits(s)
  /\ Moves(s, Closed)
  /\ UNCHANGED changes

\* list_vehicles: the visible ids, and the rows with their state
List(s) ==
  LET u == owner[s]
      seen == {v \in vehicles : stream[s].admin \/ grant[v][u] # "none"} IN
  /\ stream[s].at = "checked"
  /\ Moves(s, [stream[s] EXCEPT !.at = "listed", !.todo = {<<v, report[v]>> : v \in seen}, !.frame = {}])
  /\ UNCHANGED changes

\* access_level of a vehicle that was listed: the row is in the identity map,
\* an administrator is one as of Check, the grant is read again.
OrOperate(s, v) ==   \* mutant: as GET /vehicles does, a level that is gone reads as operate
  IF stream[s].admin \/ grant[v][owner[s]] = "none" THEN "operate" ELSE grant[v][owner[s]]
LevelOf(s, v) == IF stream[s].admin THEN "operate" ELSE grant[v][owner[s]]

Serialize(s) ==
  /\ stream[s].at = "listed"
  /\ \E x \in stream[s].todo :
       LET l == LevelOf(s, x[1]) IN
       Moves(s, [stream[s] EXCEPT !.todo = @ \ {x},
                   !.frame = IF l = "none" THEN @ ELSE @ \cup {<<x[1], l, x[2]>>}])
  /\ UNCHANGED changes

OtherVehicles(a, b) ==   \* mutant: the digest is of the vehicles, not of their state
  b = {None} \/ {x[1] : x \in a} # {x[1] : x \in b}
\* The digests differ.
Differs(a, b) == a # b

\* vehicle.states, when the frame differs from the last one
Send(s) ==
  /\ stream[s].at = "listed" /\ stream[s].todo = {}
  /\ Moves(s, [stream[s] EXCEPT !.at = "waiting", !.admin = FALSE, !.frame = {}, 
                 !.shown = IF Differs(stream[s].frame, @) THEN stream[s].frame ELSE @])
  /\ UNCHANGED changes

\* The browser goes away, or a query fails.
BreakOff(s) ==
  /\ stream[s].at # "closed" /\ Counts
  /\ Moves(s, Closed)

Streaming(s) == Check(s) \/ Expired(s) \/ List(s) \/ Serialize(s) \/ Send(s)

\* For FrameIsHeld: what the grants let the user see at some moment since the
\* vehicles were listed.
Watch ==
  held' = [s \in Sessions |->
    CASE stream'[s].at # "listed" -> {}
      [] stream'[s].at = "listed" /\ stream[s].at = "checked" -> Granted(owner[s])
      [] OTHER -> held[s] \cup Granted(owner[s])']

Act ==
  \/ \E r \in Requests :
       \/ Verify(r) \/ Login(r) \/ BeginChange(r) \/ Change(r) \/ Fail(r)
       \/ BeginReplace(r) \/ Delete(r) \/ Replace(r)
       \/ BeginDefault(r) \/ SetDefault(r) \/ BeginAdd(r) \/ Add(r)
  \/ \E s \in Sessions : Logout(s) \/ RevokeSession(s) \/ Expire(s) \/ Open(s) \/ BreakOff(s) \/ Streaming(s)
  \/ \E u \in Users : SetActive(u) \/ SetAdmin(u) \/ RemoveUser(u)
  \/ \E v \in Vehicles : AddVehicle(v) \/ RemoveVehicle(v) \/ Report(v)

Next == Act /\ Watch

Spec == Init /\ [][Next]_vars

\* A stream polls every second for as long as it is open. Nothing else has to
\* happen.
FairSpec == Spec /\ \A s \in Sessions : WF_vars(Streaming(s) /\ Watch)

----------------------------------------------------------------------------
(* Properties.                                                             *)

Calls ==
  {Idle}
    \cup [op : {"login"}, user : Users, password : Nat]
    \cup [op : {"change"}, by : Sessions, user : Users]
    \cup [op : {"replace", "replaced"}, vehicle : Vehicles, list : [Users -> Levels],
          overlaps : BOOLEAN, seen : SUBSET Users]
    \cup [op : {"default"}, value : [Vehicles -> Levels], loaded : [Vehicles -> Levels] \cup {None}]
    \cup [op : {"add"}, user : Users, list : [Vehicles -> Levels]]

Frames == SUBSET (Vehicles \X Levels \X {0, 1})
Streams == [at : {"closed", "waiting", "checked", "listed"}, admin : BOOLEAN,
            todo : SUBSET (Vehicles \X {0, 1}), frame : Frames, shown : Frames \cup {{None}}]

TypeOK ==
  /\ users \subseteq Users /\ gone \subseteq Users \cup Vehicles
  /\ (users \cup vehicles) \cap gone = {}
  /\ active \subseteq users /\ admin \subseteq users
  /\ password \in [Users -> Nat] /\ known \in [Sessions -> Nat]
  /\ owner \in [Sessions -> Users] /\ valid \subseteq Sessions /\ late \subseteq Sessions
  /\ vehicles \subseteq Vehicles /\ report \in [Vehicles -> {0, 1}]
  /\ grant \in [Vehicles -> [Users -> Levels]] /\ listed \in [Vehicles -> [Users -> Levels]]
  /\ template \in [Vehicles -> Levels] \cup {None}
  /\ mixed \subseteq Vehicles
  /\ call \in [Requests -> Calls] /\ stream \in [Sessions -> Streams]
  /\ held \in [Sessions -> SUBSET (Vehicles \X Levels)]
  /\ changes \in Nat

\* A frame shows a vehicle at a level its user was granted at some moment since
\* the list was read that the frame is made from, unless the user was an
\* administrator when the account was read: "a grant revoked between listing and
\* serializing drops the vehicle from this frame" (api/events.py:43).
FrameIsHeld ==
  \A s \in Sessions : \A x \in stream[s].frame :
    \/ <<x[1], x[2]>> \in held[s]
    \/ stream[s].admin /\ x[2] = "operate"

\* A session that works is held by somebody who knows the password in force,
\* unless its login had checked the old password before the change and was
\* committed after it: a change revokes all others, whatever logins, changes and
\* revocations run beside it.
SessionsKnowPassword ==
  \A s \in valid \ late : known[s] = password[owner[s]]

\* The grants of a vehicle are the list an administrator last stored, with what
\* accounts were given since, unless two requests wrote them at the same time;
\* then the lists can merge.
GrantsAsListed == \A v \in vehicles \ mixed : grant[v] = listed[v]

\* A stream whose session ends or whose account is suspended ends, unless
\* access comes back first.
StreamsEnd ==
  \A s \in Streamed : ~Works(s) ~> (stream[s].at = "closed" \/ Works(s))

\* What a stream that stays open shows comes to be what its user may see.
View(s) == {<<x[1], x[2], report[x[1]]>> : x \in Rights(owner[s])}
ShowsCurrent ==
  \A s \in Streamed : <>[](stream[s].at # "closed" => stream[s].shown = View(s))
=============================================================================
