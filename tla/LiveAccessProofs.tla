-------------------------- MODULE LiveAccessProofs --------------------------
(***************************************************************************)
(* Theorems about LiveAccess, for any number of users, vehicles, sessions,  *)
(* streams and requests under way at once.                                  *)
(***************************************************************************)
EXTENDS LiveAccess, TLAPS

----------------------------------------------------------------------------
(* The inductive invariant.                                                *)

Shape ==
  /\ users \subseteq Users /\ active \subseteq Users /\ vehicles \subseteq Vehicles
  /\ owner \in [Sessions -> Users] /\ valid \subseteq Sessions
  /\ DOMAIN password = Users /\ DOMAIN known = Sessions
  /\ report \in [Vehicles -> {0, 1}]
  /\ grant \in [Vehicles -> [Users -> Levels]] /\ listed \in [Vehicles -> [Users -> Levels]]
  /\ DOMAIN call = Requests
  /\ stream \in [Sessions -> Streams]

Replacements ==
  [op : {"replace", "replaced"}, vehicle : Vehicles, list : [Users -> Levels],
   overlaps : BOOLEAN, seen : SUBSET Users]

\* What a replacement deletes covers the grants that are there, until another
\* request writes grants of the vehicle.
Covers(c) == ~c.overlaps => \A u \in Users : grant[c.vehicle][u] # "none" => u \in c.seen

Replacing(q) ==
  call[q].op \in {"replace", "replaced"} => call[q] \in Replacements /\ Covers(call[q])
Adding(q) ==
  call[q].op = "add" => call[q].user \in Users /\ call[q].list \in [Vehicles -> Levels]
Requested == \A q \in Requests : Replacing(q) /\ Adding(q)

\* A default access that is stored, or on its way, is one.
Offered ==
  /\ template # None => template \in [Vehicles -> Levels]
  /\ \A q \in Requests : call[q].op = "default" => call[q].value \in [Vehicles -> Levels]

\* Also of vehicles that are not there: they have no grants.
GrantsListed == \A v \in Vehicles \ mixed : grant[v] = listed[v]

\* A frame is under way only between the list and its end.
FramesListed == \A s \in Sessions : stream[s].frame # {} => stream[s].at = "listed"

AccessInv ==
  /\ Shape /\ Requested /\ Offered
  /\ GrantsListed /\ FramesListed /\ FrameIsHeld /\ SessionsKnowPassword

LEMMA ClosedType == Closed \in Streams
BY DEF Closed, Streams, Frames

LEMMA AccessInit == Init => AccessInv
<1> SUFFICES ASSUME Init PROVE AccessInv
  OBVIOUS
<1>1. Shape
  <2>1. grant \in [Vehicles -> [Users -> Levels]]
    <3>1. PICK l \in Levels :
            grant = [v \in Vehicles |-> [u \in Users |->
                      IF v \in vehicles /\ u \in users THEN l ELSE "none"]]
      BY DEF Init
    <3>2. "none" \in Levels
      BY DEF Levels
    <3> QED
      BY <3>1, <3>2
  <2>2. stream \in [Sessions -> Streams]
    BY ClosedType DEF Init
  <2>3. owner \in [Sessions -> Users] /\ report \in [Vehicles -> {0, 1}]
    BY DEF Init
  <2>4. /\ users \subseteq Users /\ active \subseteq Users /\ vehicles \subseteq Vehicles
        /\ DOMAIN password = Users /\ DOMAIN known = Sessions /\ DOMAIN call = Requests
    BY DEF Init
  <2>5. valid \subseteq Sessions /\ listed = grant
    BY StreamedAssumption DEF Init
  <2> QED
    BY <2>1, <2>2, <2>3, <2>4, <2>5 DEF Shape
<1>2. Requested /\ Offered
  BY DEF Init, Requested, Replacing, Adding, Offered, Idle
<1>3. GrantsListed
  BY DEF Init, GrantsListed
<1>4. FramesListed /\ FrameIsHeld
  BY DEF Init, FramesListed, FrameIsHeld, Closed
<1>5. SessionsKnowPassword
  BY <1>1 DEF Init, SessionsKnowPassword, Shape
<1> QED
  BY <1>1, <1>2, <1>3, <1>4, <1>5 DEF AccessInv

----------------------------------------------------------------------------
(* Which steps write what.                                                 *)

\* Steps that write no grants begin no replacement and give no access.
Quiet ==
  /\ UNCHANGED <<grant, listed, mixed>>
  /\ DOMAIN call' = DOMAIN call
  /\ \A q \in Requests : call'[q] = call[q] \/ call'[q].op \notin {"replace", "replaced", "add"}

LEMMA GrantSteps ==
  ASSUME AccessInv, Act
  PROVE  \/ Quiet
         \/ \E r \in Requests : BeginReplace(r) \/ Delete(r) \/ Replace(r) \/ BeginAdd(r) \/ Add(r)
         \/ \E u \in Users : RemoveUser(u)
         \/ \E v \in Vehicles : RemoveVehicle(v)
<1>1. DOMAIN call = Requests
  BY DEF AccessInv, Shape
<1>2. ASSUME NEW r \in Requests,
             Verify(r) \/ Login(r) \/ BeginChange(r) \/ Change(r) \/ Fail(r)
      PROVE  Quiet
  BY <1>1, <1>2 DEF Verify, Login, BeginChange, Change, Fail, Begin, Finish, Idle, Quiet, grantVars
<1>3. ASSUME NEW r \in Requests, BeginDefault(r) \/ SetDefault(r)
      PROVE  Quiet
  BY <1>1, <1>3 DEF BeginDefault, SetDefault, Begin, Finish, Idle, Quiet, grantVars
<1>4. ASSUME NEW s \in Sessions, Logout(s) \/ RevokeSession(s) \/ Expire(s)
      PROVE  Quiet
  BY <1>4 DEF Logout, RevokeSession, Expire, Ends, Quiet, grantVars
<1>5. ASSUME NEW s \in Sessions, Open(s) \/ BreakOff(s) \/ Streaming(s)
      PROVE  Quiet
  <2>1. ASSUME NEW st, Moves(s, st) PROVE Quiet
    BY <2>1 DEF Moves, Quiet, grantVars
  <2> QED
    BY <1>5, <2>1 DEF Open, BreakOff, Streaming, Check, Expired, List, Serialize, Send
<1>6. ASSUME NEW u \in Users, SetActive(u) \/ SetAdmin(u)
      PROVE  Quiet
  BY <1>6 DEF SetActive, SetAdmin, Quiet, grantVars
<1>7. ASSUME NEW v \in Vehicles, AddVehicle(v) \/ Report(v)
      PROVE  Quiet
  BY <1>7 DEF AddVehicle, Report, Quiet, grantVars
<1> QED
  BY <1>2, <1>3, <1>4, <1>5, <1>6, <1>7 DEF Act

LEMMA SessionSteps ==
  ASSUME Act
  PROVE  \/ UNCHANGED sessionVars
         \/ \E r \in Requests : Login(r) \/ Change(r)
         \/ \E s \in Sessions : Ends(s)
         \/ \E u \in Users : RemoveUser(u)
<1>1. ASSUME NEW r \in Requests,
             \/ Verify(r) \/ BeginChange(r) \/ Fail(r)
             \/ BeginReplace(r) \/ Delete(r) \/ Replace(r)
      PROVE  UNCHANGED sessionVars
  BY <1>1 DEF Verify, BeginChange, Fail, BeginReplace, Delete, Replace
<1>2. ASSUME NEW r \in Requests, BeginDefault(r) \/ SetDefault(r) \/ BeginAdd(r) \/ Add(r)
      PROVE  UNCHANGED sessionVars
  BY <1>2 DEF BeginDefault, SetDefault, BeginAdd, Add
<1>3. ASSUME NEW s \in Sessions, Logout(s) \/ RevokeSession(s) \/ Expire(s)
      PROVE  Ends(s)
  BY <1>3 DEF Logout, RevokeSession, Expire
<1>4. ASSUME NEW s \in Sessions, Open(s) \/ BreakOff(s) \/ Streaming(s)
      PROVE  UNCHANGED sessionVars
  BY <1>4 DEF Open, BreakOff, Streaming, Check, Expired, List, Serialize, Send, Moves
<1>5. ASSUME NEW u \in Users, SetActive(u) \/ SetAdmin(u)
      PROVE  UNCHANGED sessionVars
  BY <1>5 DEF SetActive, SetAdmin
<1>6. ASSUME NEW v \in Vehicles, AddVehicle(v) \/ RemoveVehicle(v) \/ Report(v)
      PROVE  UNCHANGED sessionVars
  BY <1>6 DEF AddVehicle, RemoveVehicle, Report
<1> QED
  BY <1>1, <1>2, <1>3, <1>4, <1>5, <1>6 DEF Act

LEMMA StreamSteps ==
  ASSUME Act
  PROVE  \/ UNCHANGED stream
         \/ \E s \in Sessions :
              Open(s) \/ BreakOff(s) \/ Check(s) \/ Expired(s) \/ List(s) \/ Serialize(s) \/ Send(s)
<1>1. ASSUME NEW r \in Requests,
             \/ Verify(r) \/ Login(r) \/ BeginChange(r) \/ Change(r) \/ Fail(r)
             \/ BeginReplace(r) \/ Delete(r) \/ Replace(r)
      PROVE  UNCHANGED stream
  BY <1>1 DEF Verify, Login, BeginChange, Change, Fail, BeginReplace, Delete, Replace
<1>2. ASSUME NEW r \in Requests, BeginDefault(r) \/ SetDefault(r) \/ BeginAdd(r) \/ Add(r)
      PROVE  UNCHANGED stream
  BY <1>2 DEF BeginDefault, SetDefault, BeginAdd, Add
<1>3. ASSUME NEW s \in Sessions, Logout(s) \/ RevokeSession(s) \/ Expire(s)
      PROVE  UNCHANGED stream
  BY <1>3 DEF Logout, RevokeSession, Expire, Ends
<1>4. ASSUME NEW u \in Users, SetActive(u) \/ SetAdmin(u) \/ RemoveUser(u)
      PROVE  UNCHANGED stream
  BY <1>4 DEF SetActive, SetAdmin, RemoveUser
<1>5. ASSUME NEW v \in Vehicles, AddVehicle(v) \/ RemoveVehicle(v) \/ Report(v)
      PROVE  UNCHANGED stream
  BY <1>5 DEF AddVehicle, RemoveVehicle, Report
<1> QED
  BY <1>1, <1>2, <1>3, <1>4, <1>5 DEF Act, Streaming

LEMMA RowSteps ==
  ASSUME Act
  PROVE  \/ UNCHANGED <<users, active, vehicles, report>>
         \/ \E r \in Requests : Add(r)
         \/ \E u \in Users : SetActive(u) \/ RemoveUser(u)
         \/ \E v \in Vehicles : AddVehicle(v) \/ RemoveVehicle(v) \/ Report(v)
<1> USE DEF rowVars, userVars
<1>1. ASSUME NEW r \in Requests,
             \/ Verify(r) \/ Login(r) \/ BeginChange(r) \/ Change(r) \/ Fail(r)
             \/ BeginReplace(r) \/ Delete(r) \/ Replace(r)
      PROVE  UNCHANGED <<users, active, vehicles, report>>
  BY <1>1 DEF Verify, Login, BeginChange, Change, Fail, BeginReplace, Delete, Replace
<1>2. ASSUME NEW r \in Requests, BeginDefault(r) \/ SetDefault(r) \/ BeginAdd(r)
      PROVE  UNCHANGED <<users, active, vehicles, report>>
  BY <1>2 DEF BeginDefault, SetDefault, BeginAdd
<1>3. ASSUME NEW s \in Sessions, Logout(s) \/ RevokeSession(s) \/ Expire(s)
      PROVE  UNCHANGED <<users, active, vehicles, report>>
  BY <1>3 DEF Logout, RevokeSession, Expire, Ends
<1>4. ASSUME NEW s \in Sessions, Open(s) \/ BreakOff(s) \/ Streaming(s)
      PROVE  UNCHANGED <<users, active, vehicles, report>>
  BY <1>4 DEF Open, BreakOff, Streaming, Check, Expired, List, Serialize, Send, Moves
<1>5. ASSUME NEW u \in Users, SetAdmin(u)
      PROVE  UNCHANGED <<users, active, vehicles, report>>
  BY <1>5 DEF SetAdmin
<1> QED
  BY <1>1, <1>2, <1>3, <1>4, <1>5 DEF Act

----------------------------------------------------------------------------
(* Accounts, vehicles, sessions.                                           *)

LEMMA RowsKept ==
  ASSUME AccessInv, Act
  PROVE  /\ users' \subseteq Users /\ active' \subseteq Users /\ vehicles' \subseteq Vehicles
         /\ report' \in [Vehicles -> {0, 1}]
<1> USE DEF AccessInv, Shape
<1>1. CASE UNCHANGED <<users, active, vehicles, report>>
  BY <1>1
<1>2. ASSUME NEW r \in Requests, Add(r)
      PROVE  /\ users' \subseteq Users /\ active' \subseteq Users
             /\ UNCHANGED <<vehicles, report>>
  BY <1>2 DEF Add, Requested, Adding
<1>3. ASSUME NEW u \in Users, SetActive(u) \/ RemoveUser(u)
      PROVE  /\ users' \subseteq Users /\ active' \subseteq Users
             /\ UNCHANGED <<vehicles, report>>
  BY <1>3 DEF SetActive, RemoveUser
<1>4. ASSUME NEW v \in Vehicles, AddVehicle(v) \/ RemoveVehicle(v)
      PROVE  vehicles' \subseteq Vehicles /\ UNCHANGED <<users, active, report>>
  BY <1>4 DEF AddVehicle, RemoveVehicle, userVars
<1>5. ASSUME NEW v \in Vehicles, Report(v)
      PROVE  report' \in [Vehicles -> {0, 1}] /\ UNCHANGED <<users, active, vehicles>>
  BY <1>5 DEF Report, userVars
<1> QED
  BY <1>1, <1>2, <1>3, <1>4, <1>5, RowSteps

LEMMA SessionsKept ==
  ASSUME AccessInv, Act
  PROVE  /\ owner' \in [Sessions -> Users] /\ valid' \subseteq Sessions
         /\ DOMAIN password' = Users /\ DOMAIN known' = Sessions
         /\ SessionsKnowPassword'
<1> USE DEF AccessInv, Shape
<1>1. CASE UNCHANGED sessionVars
  BY <1>1 DEF sessionVars, SessionsKnowPassword
<1>2. ASSUME NEW r \in Requests, Login(r)
      PROVE  /\ owner' \in [Sessions -> Users] /\ valid' \subseteq Sessions
             /\ DOMAIN password' = Users /\ DOMAIN known' = Sessions
             /\ SessionsKnowPassword'
  <2> DEFINE u == call[r].user
  <2>1. PICK s \in Sessions \ valid :
          /\ owner' = [owner EXCEPT ![s] = u]
          /\ valid' = valid \cup {s}
          /\ known' = [known EXCEPT ![s] = call[r].password]
          /\ late'  = IF call[r].password = password[u] THEN late \ {s} ELSE late \cup {s}
    BY <1>2 DEF Login
  <2>2. u \in Users /\ password' = password
    BY <1>2 DEF Login
  <2>3. owner' \in [Sessions -> Users] /\ valid' \subseteq Sessions /\ DOMAIN known' = Sessions
    BY <2>1, <2>2
  <2>4. SessionsKnowPassword'
    <3> SUFFICES ASSUME NEW t \in valid' \ late' PROVE (known[t] = password[owner[t]])'
      BY DEF SessionsKnowPassword
    <3>1. CASE t = s
      <4>1. call[r].password = password[u]
        BY <2>1, <3>1
      <4>2. known'[s] = call[r].password /\ owner'[s] = u
        BY <2>1
      <4> QED
        BY <3>1, <4>1, <4>2, <2>2
    <3>2. CASE t # s
      <4>1. t \in valid \ late
        BY <2>1, <3>2
      <4>2. known'[t] = known[t] /\ owner'[t] = owner[t]
        BY <4>1, <2>1, <3>2
      <4> QED
        BY <4>1, <4>2, <2>2 DEF SessionsKnowPassword
    <3> QED
      BY <3>1, <3>2
  <2> QED
    BY <2>2, <2>3, <2>4
<1>3. ASSUME NEW r \in Requests, Change(r)
      PROVE  /\ owner' \in [Sessions -> Users] /\ valid' \subseteq Sessions
             /\ DOMAIN password' = Users /\ DOMAIN known' = Sessions
             /\ SessionsKnowPassword'
  <2> DEFINE u == call[r].user
             s == call[r].by
  <2>1. /\ u \in Users /\ owner[s] = u /\ owner' = owner
        /\ password' = [password EXCEPT ![u] = @ + 1]
        /\ valid' = valid \ Others(u, s)
        /\ known' = [known EXCEPT ![s] = password'[u]]
        /\ late'  = late \ {s}
    BY <1>3 DEF Change
  <2> HIDE DEF u, s
  <2>2. SessionsKnowPassword'
    <3> SUFFICES ASSUME NEW t \in valid' \ late' PROVE (known[t] = password[owner[t]])'
      BY DEF SessionsKnowPassword
    <3>1. t \in valid /\ t \in Sessions
      BY <2>1
    <3>2. CASE t = s
      BY <3>1, <3>2, <2>1
    <3>3. CASE t # s
      <4>1. owner[t] # u /\ t \notin late
        BY <2>1, <3>1, <3>3 DEF Others
      <4>2. known'[t] = known[t] /\ password'[owner[t]] = password[owner[t]]
        BY <2>1, <3>1, <3>3, <4>1
      <4> QED
        BY <2>1, <3>1, <4>1, <4>2 DEF SessionsKnowPassword
    <3> QED
      BY <3>2, <3>3
  <2> QED
    BY <2>1, <2>2
<1>4. ASSUME NEW s \in Sessions, Ends(s)
      PROVE  valid' \subseteq valid /\ UNCHANGED <<owner, password, known, late>>
  BY <1>4 DEF Ends
<1>5. ASSUME NEW u \in Users, RemoveUser(u)
      PROVE  valid' \subseteq valid /\ UNCHANGED <<owner, password, known, late>>
  BY <1>5 DEF RemoveUser
<1>6. CASE valid' \subseteq valid /\ UNCHANGED <<owner, password, known, late>>
  BY <1>6 DEF SessionsKnowPassword
<1> QED
  BY <1>1, <1>2, <1>3, <1>4, <1>5, <1>6, SessionSteps

----------------------------------------------------------------------------
(* Grants.                                                                 *)

GrantsInv ==
  /\ grant \in [Vehicles -> [Users -> Levels]] /\ listed \in [Vehicles -> [Users -> Levels]]
  /\ DOMAIN call = Requests /\ Requested /\ GrantsListed

\* Where the others are left as they are, their grants only become fewer, and
\* stay covered.
LEMMA OthersCovered ==
  ASSUME AccessInv, NEW q \in Requests, call'[q] = call[q],
         \A v \in Vehicles : \A u \in Users : grant'[v][u] # "none" => grant[v][u] # "none"
  PROVE  Replacing(q)' /\ Adding(q)'
<1>1. Replacing(q) /\ Adding(q)
  BY DEF AccessInv, Requested
<1>2. ASSUME call[q].op \in {"replace", "replaced"} PROVE Covers(call[q])'
  BY <1>1, <1>2 DEF Replacing, Replacements, Covers
<1> QED
  BY <1>1, <1>2 DEF Replacing, Adding

LEMMA ReplaceKept ==
  ASSUME AccessInv, NEW r \in Requests, Replace(r)
  PROVE  GrantsInv'
<1> DEFINE v == call[r].vehicle
           l == call[r].list
<1> USE DEF AccessInv, Shape
<1>1. call[r] \in Replacements /\ Covers(call[r])
  BY DEF Replace, Requested, Replacing
<1>2. v \in Vehicles /\ l \in [Users -> Levels]
  BY <1>1 DEF Replacements
<1>3. /\ grant' = [grant EXCEPT ![v] =
           [u \in Users |-> IF l[u] # "none" \/ u \in call[r].seen THEN l[u] ELSE grant[v][u]]]
      /\ listed' = [listed EXCEPT ![v] = l]
      /\ mixed' = IF call[r].overlaps THEN mixed \cup {v} ELSE mixed \ {v}
      /\ call' = Overlapped(r, {v}, call[r].seen)
  BY DEF Replace
<1>4. grant' \in [Vehicles -> [Users -> Levels]] /\ listed' \in [Vehicles -> [Users -> Levels]]
  BY <1>2, <1>3
<1>5. GrantsListed'
  <2> SUFFICES ASSUME NEW w \in Vehicles \ mixed' PROVE (grant[w] = listed[w])'
    BY DEF GrantsListed
  <2>1. CASE w # v
    BY <2>1, <1>3 DEF GrantsListed
  <2>2. CASE w = v
    <3>1. ~call[r].overlaps
      BY <2>2, <1>3
    <3>2. \A u \in Users : grant[v][u] # "none" => u \in call[r].seen
      BY <3>1, <1>1 DEF Covers
    <3>3. grant'[v] = [u \in Users |-> l[u]]
      BY <1>2, <1>3, <3>2
    <3> QED
      BY <2>2, <1>2, <1>3, <3>3
  <2> QED
    BY <2>1, <2>2
<1>6. DOMAIN call' = Requests
  BY <1>3 DEF Overlapped
<1>7. Requested'
  <2> SUFFICES ASSUME NEW q \in Requests PROVE Replacing(q)' /\ Adding(q)'
    BY DEF Requested
  <2>1. CASE q = r
    BY <2>1, <1>3 DEF Overlapped, Replacing, Adding, Idle
  <2>2. CASE q # r /\ About(q, v)
    <3>1. call[q] \in Replacements
      BY <2>2 DEF About, Requested, Replacing
    <3>2. call'[q] = [call[q] EXCEPT !.overlaps = TRUE,
              !.seen = IF call[q].op = "replace" THEN @ \ call[r].seen ELSE @]
      BY <2>2, <1>3 DEF Overlapped
    <3>3. call'[q] \in Replacements /\ call'[q].overlaps = TRUE
      BY <3>1, <3>2 DEF Replacements
    <3>4. call'[q].op # "add"
      BY <3>3 DEF Replacements
    <3> QED
      BY <3>3, <3>4 DEF Replacing, Adding, Covers
  <2>3. CASE q # r /\ ~About(q, v)
    <3>1. call'[q] = call[q]
      BY <2>3, <1>3 DEF Overlapped
    <3>2. ASSUME call[q].op \in {"replace", "replaced"} PROVE Covers(call[q])'
      <4>1. call[q] \in Replacements /\ Covers(call[q]) /\ call[q].vehicle # v
        BY <3>2, <2>3 DEF About, Requested, Replacing
      <4>2. grant'[call[q].vehicle] = grant[call[q].vehicle]
        BY <4>1, <1>3 DEF Replacements
      <4> QED
        BY <3>1, <4>1, <4>2 DEF Covers
    <3> QED
      BY <3>1, <3>2 DEF Requested, Replacing, Adding
  <2> QED
    BY <2>1, <2>2, <2>3
<1> QED
  BY <1>4, <1>5, <1>6, <1>7 DEF GrantsInv

LEMMA AddKept ==
  ASSUME AccessInv, NEW r \in Requests, Add(r)
  PROVE  GrantsInv'
<1> DEFINE u == call[r].user
           l == call[r].list
           V == {v \in Vehicles : l[v] # "none"}
<1> USE DEF AccessInv, Shape
<1>1. u \in Users /\ l \in [Vehicles -> Levels]
  BY DEF Add, Requested, Adding
<1>2. /\ grant'  = [v \in Vehicles |-> [grant[v] EXCEPT ![u] = l[v]]]
      /\ listed' = [v \in Vehicles |-> [listed[v] EXCEPT ![u] = l[v]]]
      /\ mixed' = mixed
      /\ call' = Overlapped(r, V, {})
  BY DEF Add
<1>3. grant' \in [Vehicles -> [Users -> Levels]] /\ listed' \in [Vehicles -> [Users -> Levels]]
  BY <1>1, <1>2
<1>4. GrantsListed'
  BY <1>1, <1>2 DEF GrantsListed
<1>5. DOMAIN call' = Requests
  BY <1>2 DEF Overlapped
<1>6. Requested'
  <2> SUFFICES ASSUME NEW q \in Requests PROVE Replacing(q)' /\ Adding(q)'
    BY DEF Requested
  <2>1. CASE q = r
    BY <2>1, <1>2 DEF Overlapped, Replacing, Adding, Idle
  <2>2. CASE q # r /\ \E v \in V : About(q, v)
    <3>1. call[q] \in Replacements
      BY <2>2 DEF About, Requested, Replacing
    <3>2. call'[q] = [call[q] EXCEPT !.overlaps = TRUE,
              !.seen = IF call[q].op = "replace" THEN @ \ {} ELSE @]
      BY <2>2, <1>2 DEF Overlapped
    <3>3. call'[q] \in Replacements /\ call'[q].overlaps = TRUE
      BY <3>1, <3>2 DEF Replacements
    <3>4. call'[q].op # "add"
      BY <3>3 DEF Replacements
    <3> QED
      BY <3>3, <3>4 DEF Replacing, Adding, Covers
  <2>3. CASE q # r /\ ~\E v \in V : About(q, v)
    <3>1. call'[q] = call[q]
      BY <2>3, <1>2 DEF Overlapped
    <3>2. ASSUME call[q].op \in {"replace", "replaced"} PROVE Covers(call[q])'
      <4>1. call[q] \in Replacements /\ Covers(call[q]) /\ call[q].vehicle \notin V
        BY <3>2, <2>3 DEF About, Requested, Replacing
      <4>2. call[q].vehicle \in Vehicles /\ l[call[q].vehicle] = "none"
        BY <4>1 DEF Replacements
      <4>3. \A x \in Users : grant'[call[q].vehicle][x] # "none" => grant[call[q].vehicle][x] # "none"
        BY <4>2, <1>1, <1>2
      <4> QED
        BY <3>1, <4>1, <4>3 DEF Covers
    <3> QED
      BY <3>1, <3>2 DEF Requested, Replacing, Adding
  <2> QED
    BY <2>1, <2>2, <2>3
<1> QED
  BY <1>3, <1>4, <1>5, <1>6 DEF GrantsInv

LEMMA RemovalKept ==
  ASSUME AccessInv,
         \/ \E u \in Users : RemoveUser(u)
         \/ \E v \in Vehicles : RemoveVehicle(v)
  PROVE  GrantsInv'
<1> USE DEF AccessInv, Shape
<1>1. "none" \in Levels
  BY DEF Levels
<1>2. ASSUME NEW u \in Users, RemoveUser(u)
      PROVE  /\ grant' \in [Vehicles -> [Users -> Levels]] /\ listed' \in [Vehicles -> [Users -> Levels]]
             /\ UNCHANGED call /\ GrantsListed'
             /\ \A v \in Vehicles : \A x \in Users : grant'[v][x] # "none" => grant[v][x] # "none"
  BY <1>1, <1>2 DEF RemoveUser, GrantsListed
<1>3. ASSUME NEW w \in Vehicles, RemoveVehicle(w)
      PROVE  /\ grant' \in [Vehicles -> [Users -> Levels]] /\ listed' \in [Vehicles -> [Users -> Levels]]
             /\ UNCHANGED call /\ GrantsListed'
             /\ \A v \in Vehicles : \A x \in Users : grant'[v][x] # "none" => grant[v][x] # "none"
  BY <1>1, <1>3 DEF RemoveVehicle, GrantsListed, Nobody
<1>4. /\ grant' \in [Vehicles -> [Users -> Levels]] /\ listed' \in [Vehicles -> [Users -> Levels]]
      /\ UNCHANGED call /\ GrantsListed'
      /\ \A v \in Vehicles : \A x \in Users : grant'[v][x] # "none" => grant[v][x] # "none"
  BY <1>2, <1>3
<1>5. Requested'
  BY <1>4, OthersCovered DEF Requested
<1> QED
  BY <1>4, <1>5 DEF GrantsInv

LEMMA GrantsKept ==
  ASSUME AccessInv, Act
  PROVE  GrantsInv'
<1> USE DEF AccessInv, Shape
<1>1. CASE Quiet
  <2>1. \A q \in Requests : Replacing(q)' /\ Adding(q)'
    <3> SUFFICES ASSUME NEW q \in Requests PROVE Replacing(q)' /\ Adding(q)'
      OBVIOUS
    <3>1. CASE call'[q] = call[q]
      BY <1>1, <3>1, OthersCovered DEF Quiet
    <3>2. CASE call'[q].op \notin {"replace", "replaced", "add"}
      BY <3>2 DEF Replacing, Adding
    <3> QED
      BY <1>1, <3>1, <3>2 DEF Quiet
  <2> QED
    BY <1>1, <2>1 DEF Quiet, GrantsInv, Requested, GrantsListed
<1>2. ASSUME NEW r \in Requests, BeginReplace(r) PROVE GrantsInv'
  <2>1. PICK v \in vehicles, l \in [Users -> Levels] :
          /\ call' = [call EXCEPT ![r] =
               [op |-> "replace", vehicle |-> v, list |-> l, overlaps |-> FALSE,
                seen |-> SeenRows(v, l)]]
          /\ UNCHANGED grantVars
    BY <1>2 DEF BeginReplace, Begin
  <2>2. call'[r] \in Replacements
    BY <2>1 DEF Replacements, SeenRows
  <2>3. Replacing(r)' /\ Adding(r)'
    BY <2>1, <2>2 DEF Replacing, Adding, Covers, SeenRows, grantVars
  <2>4. \A q \in Requests : Replacing(q)' /\ Adding(q)'
    BY <2>1, <2>3, OthersCovered DEF grantVars
  <2> QED
    BY <2>1, <2>4 DEF GrantsInv, Requested, GrantsListed, grantVars
<1>3. ASSUME NEW r \in Requests, Delete(r) PROVE GrantsInv'
  <2>1. call' = [call EXCEPT ![r].op = "replaced"] /\ UNCHANGED grantVars
    BY <1>3 DEF Delete
  <2>2. call[r] \in Replacements /\ Covers(call[r])
    BY <1>3 DEF Delete, Requested, Replacing
  <2>3. call'[r] = [call[r] EXCEPT !.op = "replaced"]
    BY <2>1
  <2>4. call'[r] \in Replacements
    BY <2>2, <2>3 DEF Replacements
  <2>5. Replacing(r)' /\ Adding(r)'
    BY <2>1, <2>2, <2>3, <2>4 DEF Replacing, Adding, Covers, Replacements, grantVars
  <2>6. \A q \in Requests : Replacing(q)' /\ Adding(q)'
    BY <2>1, <2>5, OthersCovered DEF grantVars
  <2> QED
    BY <2>1, <2>6 DEF GrantsInv, Requested, GrantsListed, grantVars
<1>4. ASSUME NEW r \in Requests, BeginAdd(r) PROVE GrantsInv'
  <2>1. template # None => template \in [Vehicles -> Levels]
    BY DEF Offered
  <2>2. PICK u \in Users : call' = [call EXCEPT ![r] =
          [op |-> "add", user |-> u, list |->
             [v \in Vehicles |-> IF template # None /\ v \in vehicles THEN template[v] ELSE "none"]]]
    BY <1>4 DEF BeginAdd, Begin
  <2>3. Replacing(r)' /\ Adding(r)'
    BY <2>1, <2>2 DEF Replacing, Adding, Levels
  <2>4. UNCHANGED grantVars
    BY <1>4 DEF BeginAdd
  <2>5. \A q \in Requests : Replacing(q)' /\ Adding(q)'
    BY <2>2, <2>3, <2>4, OthersCovered DEF grantVars
  <2> QED
    BY <2>2, <2>4, <2>5 DEF GrantsInv, Requested, GrantsListed, grantVars
<1> QED
  BY <1>1, <1>2, <1>3, <1>4, GrantSteps, ReplaceKept, AddKept, RemovalKept

LEMMA OfferedKept ==
  ASSUME AccessInv, Act
  PROVE  Offered'
<1> USE DEF AccessInv, Shape
<1>1. ASSUME UNCHANGED template,
             \A q \in Requests : call'[q] = call[q] \/ call'[q].op # "default"
      PROVE  Offered'
  BY <1>1 DEF Offered
<1>2. ASSUME NEW r \in Requests, NEW c, c.op # "default", UNCHANGED template,
             call' = [call EXCEPT ![r] = c]
      PROVE  Offered'
  BY <1>1, <1>2
<1>3. ASSUME NEW r \in Requests, Verify(r) \/ BeginChange(r) \/ BeginReplace(r) \/ BeginAdd(r)
      PROVE  Offered'
  BY <1>1, <1>3 DEF Verify, BeginChange, BeginReplace, BeginAdd, Begin, grantVars
<1>4. ASSUME NEW r \in Requests, Login(r) \/ Change(r) \/ Fail(r)
      PROVE  Offered'
  BY <1>1, <1>4 DEF Login, Change, Fail, Finish, Idle, grantVars
<1>5. ASSUME NEW r \in Requests, Delete(r) PROVE Offered'
  <2>1. call[r] \in Replacements /\ call' = [call EXCEPT ![r].op = "replaced"] /\ UNCHANGED template
    BY <1>5 DEF Delete, Requested, Replacing, grantVars
  <2>2. call'[r] = [call[r] EXCEPT !.op = "replaced"]
    BY <2>1
  <2>3. call'[r].op = "replaced"
    BY <2>1, <2>2 DEF Replacements
  <2> QED
    BY <1>1, <2>1, <2>3
<1>6. ASSUME NEW r \in Requests, NEW V, NEW rows, UNCHANGED template, call' = Overlapped(r, V, rows)
      PROVE  Offered'
  <2> SUFFICES ASSUME NEW q \in Requests PROVE call'[q] = call[q] \/ call'[q].op # "default"
    BY <1>1, <1>6
  <2>1. CASE q = r
    BY <1>6, <2>1 DEF Overlapped, Idle
  <2>2. CASE q # r /\ \E v \in V : About(q, v)
    <3>1. call[q] \in Replacements
      BY <2>2 DEF About, Requested, Replacing
    <3>2. call'[q] = [call[q] EXCEPT !.overlaps = TRUE,
              !.seen = IF call[q].op = "replace" THEN @ \ rows ELSE @]
      BY <1>6, <2>2 DEF Overlapped
    <3>3. call'[q].op = call[q].op
      BY <3>1, <3>2 DEF Replacements
    <3> QED
      BY <3>1, <3>3 DEF Replacements
  <2>3. CASE q # r /\ ~\E v \in V : About(q, v)
    BY <1>6, <2>3 DEF Overlapped
  <2> QED
    BY <2>1, <2>2, <2>3
<1>7. ASSUME NEW r \in Requests, Replace(r) PROVE Offered'
  BY <1>6, <1>7 DEF Replace
<1>8. ASSUME NEW r \in Requests, Add(r) PROVE Offered'
  BY <1>6, <1>8 DEF Add
<1>9. ASSUME NEW r \in Requests, BeginDefault(r) PROVE Offered'
  BY <1>9 DEF BeginDefault, Begin, Offered, grantVars
<1>10. ASSUME NEW r \in Requests, SetDefault(r) PROVE Offered'
  BY <1>10 DEF SetDefault, Finish, Idle, Offered
<1>11. ASSUME NEW s \in Sessions, Logout(s) \/ RevokeSession(s) \/ Expire(s)
       PROVE  Offered'
  BY <1>1, <1>11 DEF Logout, RevokeSession, Expire, Ends, grantVars
<1>12. ASSUME NEW s \in Sessions, Open(s) \/ BreakOff(s) \/ Streaming(s)
       PROVE  Offered'
  BY <1>1, <1>12 DEF Open, BreakOff, Streaming, Check, Expired, List, Serialize, Send, Moves, grantVars
<1>13. ASSUME NEW u \in Users, SetActive(u) \/ SetAdmin(u) \/ RemoveUser(u)
       PROVE  Offered'
  BY <1>1, <1>13 DEF SetActive, SetAdmin, RemoveUser, grantVars
<1>14. ASSUME NEW v \in Vehicles, AddVehicle(v) \/ RemoveVehicle(v) \/ Report(v)
       PROVE  Offered'
  BY <1>1, <1>14 DEF AddVehicle, RemoveVehicle, Report, grantVars
<1> QED
  BY <1>3, <1>4, <1>5, <1>7, <1>8, <1>9, <1>10, <1>11, <1>12, <1>13, <1>14 DEF Act

----------------------------------------------------------------------------
(* Streams.                                                                *)

\* What was held stays held, and what is granted is, until the frame is sent.
LEMMA HeldGrows ==
  ASSUME AccessInv, Watch, NEW s \in Sessions, stream[s].at = "listed", stream'[s].at = "listed"
  PROVE  held[s] \cup Granted(owner[s])' \subseteq held'[s]
BY DEF Watch

LEMMA StreamsKept ==
  ASSUME AccessInv, Next
  PROVE  stream' \in [Sessions -> Streams] /\ FramesListed' /\ FrameIsHeld'
<1> USE DEF AccessInv, Shape
<1> DEFINE Kept(s) ==
      /\ stream[s].frame # {} => stream[s].at = "listed"
      /\ \A x \in stream[s].frame :
           <<x[1], x[2]>> \in held[s] \/ (stream[s].admin /\ x[2] = "operate")
<1>1. \A s \in Sessions : Kept(s)
  BY DEF FramesListed, FrameIsHeld
<1>2. ASSUME NEW s \in Sessions, stream'[s] = stream[s] PROVE Kept(s)'
  BY <1>1, <1>2, HeldGrows DEF Next
<1>3. ASSUME NEW s \in Sessions, stream'[s].frame = {} PROVE Kept(s)'
  BY <1>3
<1>4. SUFFICES stream' \in [Sessions -> Streams] /\ \A s \in Sessions : Kept(s)'
  BY DEF FramesListed, FrameIsHeld
<1>5. ASSUME NEW s \in Sessions, NEW st \in Streams, Moves(s, st), Kept(s)'
      PROVE  stream' \in [Sessions -> Streams] /\ \A t \in Sessions : Kept(t)'
  <2>1. stream' = [stream EXCEPT ![s] = st]
    BY <1>5 DEF Moves
  <2>2. \A t \in Sessions \ {s} : stream'[t] = stream[t]
    BY <2>1
  <2> QED
    BY <1>2, <1>5, <2>1, <2>2
<1>6. ASSUME NEW s \in Sessions, NEW st \in Streams, Moves(s, st), st.frame = {}
      PROVE  stream' \in [Sessions -> Streams] /\ \A t \in Sessions : Kept(t)'
  <2>1. stream'[s].frame = {}
    BY <1>6 DEF Moves
  <2> QED
    BY <1>3, <1>5, <1>6, <2>1
<1>7. CASE UNCHANGED stream
  BY <1>2, <1>7
<1>8. ASSUME NEW s \in Sessions, Open(s) \/ BreakOff(s) \/ Expired(s)
      PROVE  stream' \in [Sessions -> Streams] /\ \A t \in Sessions : Kept(t)'
  <2>1. Closed \in Streams /\ [Closed EXCEPT !.at = "waiting", !.shown = {None}] \in Streams
    BY DEF Closed, Streams, Frames
  <2>2. Closed.frame = {} /\ [Closed EXCEPT !.at = "waiting", !.shown = {None}].frame = {}
    BY DEF Closed
  <2> QED
    BY <1>6, <1>8, <2>1, <2>2 DEF Open, BreakOff, Expired
<1>9. ASSUME NEW s \in Sessions, Check(s)
      PROVE  stream' \in [Sessions -> Streams] /\ \A t \in Sessions : Kept(t)'
  <2> DEFINE st == [stream[s] EXCEPT !.at = "checked", !.admin = owner[s] \in admin]
  <2>1. st \in Streams /\ st.frame = stream[s].frame
    <3>1. (owner[s] \in admin) \in BOOLEAN /\ stream[s] \in Streams
      OBVIOUS
    <3> HIDE DEF AccessInv, Shape, Kept
    <3> QED
      BY <3>1 DEF Streams
  <2>2. stream[s].frame = {}
    BY <1>1, <1>9 DEF Check
  <2> HIDE DEF st
  <2>3. Moves(s, st)
    BY <1>9 DEF Check, st
  <2> QED
    BY <1>6, <2>1, <2>2, <2>3
<1>10. ASSUME NEW s \in Sessions, List(s)
       PROVE  stream' \in [Sessions -> Streams] /\ \A t \in Sessions : Kept(t)'
  <2> DEFINE seen == {v \in vehicles : stream[s].admin \/ grant[v][owner[s]] # "none"}
             st == [stream[s] EXCEPT !.at = "listed", !.todo = {<<v, report[v]>> : v \in seen}, !.frame = {}]
  <2>1. {<<v, report[v]>> : v \in seen} \in SUBSET (Vehicles \X {0, 1}) /\ stream[s] \in Streams
    OBVIOUS
  <2>2. st \in Streams /\ st.frame = {}
    <3> HIDE DEF seen, AccessInv, Shape, Kept
    <3> QED
      BY <2>1 DEF Streams, Frames
  <2>3. Moves(s, st)
    BY <1>10 DEF List
  <2> HIDE DEF st
  <2> QED
    BY <1>6, <2>2, <2>3
<1>11. ASSUME NEW s \in Sessions, Serialize(s)
       PROVE  stream' \in [Sessions -> Streams] /\ \A t \in Sessions : Kept(t)'
  <2> DEFINE st(x) == [stream[s] EXCEPT !.todo = @ \ {x},
               !.frame = IF LevelOf(s, x[1]) = "none" THEN @
                         ELSE @ \cup {<<x[1], LevelOf(s, x[1]), x[2]>>}]
  <2>1. PICK x \in stream[s].todo : Moves(s, st(x))
    BY <1>11 DEF Serialize
  <2>2. stream[s].at = "listed"
    BY <1>11 DEF Serialize
  <2>3. x[1] \in Vehicles /\ x[2] \in {0, 1}
    BY DEF Streams
  <2>4. LevelOf(s, x[1]) \in Levels
    BY <2>3 DEF LevelOf, Levels
  <2>5. st(x) \in Streams
    <3>1. /\ stream[s].todo \ {x} \in SUBSET (Vehicles \X {0, 1})
          /\ stream[s].frame \cup {<<x[1], LevelOf(s, x[1]), x[2]>>} \in Frames
      BY <2>3, <2>4 DEF Streams, Frames
    <3>2. stream[s] \in Streams
      OBVIOUS
    <3> HIDE DEF AccessInv, Shape, Kept
    <3>3. CASE LevelOf(s, x[1]) = "none"
      BY <3>1, <3>2, <3>3 DEF Streams
    <3>4. CASE LevelOf(s, x[1]) # "none"
      BY <3>1, <3>2, <3>4 DEF Streams
    <3> QED
      BY <3>3, <3>4
  <2>6. Kept(s)'
    <3>1. stream'[s] = st(x)
      BY <2>1 DEF Moves
    <3>2. /\ stream'[s].at = "listed" /\ stream'[s].admin = stream[s].admin
          /\ stream'[s].frame = IF LevelOf(s, x[1]) = "none" THEN stream[s].frame
                                ELSE stream[s].frame \cup {<<x[1], LevelOf(s, x[1]), x[2]>>}
      BY <3>1, <2>2 DEF Streams
    <3>3. held[s] \cup Granted(owner[s])' \subseteq held'[s]
      BY <2>2, <3>2, HeldGrows DEF Next
    <3>4. Granted(owner[s])' = Granted(owner[s])
      BY <2>1 DEF Moves, Granted, sessionVars, grantVars
    <3>5. LevelOf(s, x[1]) # "none" =>
            \/ <<x[1], LevelOf(s, x[1])>> \in Granted(owner[s])
            \/ stream[s].admin /\ LevelOf(s, x[1]) = "operate"
      BY <2>3 DEF LevelOf, Granted
    <3>6. ASSUME NEW y \in stream'[s].frame
          PROVE  <<y[1], y[2]>> \in held'[s] \/ (stream'[s].admin /\ y[2] = "operate")
      <4>1. CASE y \in stream[s].frame
        BY <1>1, <3>2, <3>3, <4>1
      <4>2. CASE y = <<x[1], LevelOf(s, x[1]), x[2]>> /\ LevelOf(s, x[1]) # "none"
        <5>1. y[1] = x[1] /\ y[2] = LevelOf(s, x[1])
          BY <4>2
        <5> QED
          BY <3>2, <3>3, <3>4, <3>5, <4>2, <5>1
      <4> QED
        BY <3>2, <4>1, <4>2
    <3> QED
      BY <3>2, <3>6
  <2> HIDE DEF st
  <2> QED
    BY <1>5, <2>1, <2>5, <2>6
<1>12. ASSUME NEW s \in Sessions, Send(s)
       PROVE  stream' \in [Sessions -> Streams] /\ \A t \in Sessions : Kept(t)'
  <2> DEFINE st == [stream[s] EXCEPT !.at = "waiting", !.admin = FALSE, !.frame = {},
               !.shown = IF Differs(stream[s].frame, @) THEN stream[s].frame ELSE @]
  <2>1. st \in Streams /\ st.frame = {}
    <3>1. stream[s] \in Streams
      OBVIOUS
    <3> HIDE DEF AccessInv, Shape, Kept
    <3>2. CASE Differs(stream[s].frame, stream[s].shown)
      BY <3>1, <3>2 DEF Streams, Frames
    <3>3. CASE ~Differs(stream[s].frame, stream[s].shown)
      BY <3>1, <3>3 DEF Streams, Frames
    <3> QED
      BY <3>2, <3>3
  <2>2. Moves(s, st)
    BY <1>12 DEF Send
  <2> HIDE DEF st
  <2> QED
    BY <1>6, <2>1, <2>2
<1> HIDE DEF Kept
<1> QED
  BY <1>7, <1>8, <1>9, <1>10, <1>11, <1>12, StreamSteps DEF Next

----------------------------------------------------------------------------

THEOREM AccessInductive == Spec => []AccessInv
<1>1. ASSUME AccessInv, Next PROVE AccessInv'
  BY <1>1, RowsKept, SessionsKept, GrantsKept, OfferedKept, StreamsKept
  DEF Next, AccessInv, Shape, GrantsInv
<1>2. ASSUME AccessInv, UNCHANGED vars PROVE AccessInv'
  <2>1. UNCHANGED <<users, active, vehicles, owner, valid, password, known, late, report, grant,
                    listed, mixed, template, call, stream, held>>
    BY <1>2 DEF vars, rowVars, userVars, sessionVars, grantVars
  <2>2. Shape' /\ Requested' /\ Offered'
    BY <1>2, <2>1 DEF AccessInv, Shape, Requested, Replacing, Adding, Covers, Offered
  <2>3. GrantsListed' /\ FramesListed' /\ FrameIsHeld' /\ SessionsKnowPassword'
    BY <1>2, <2>1 DEF AccessInv, GrantsListed, FramesListed, FrameIsHeld, SessionsKnowPassword
  <2> QED
    BY <2>2, <2>3 DEF AccessInv
<1>3. AccessInv /\ [Next]_vars => AccessInv'
  BY <1>1, <1>2
<1> QED
  BY <1>3, AccessInit, PTL DEF Spec

\* No frame shows more than was granted while it was made, whatever is revoked,
\* replaced, added or removed between its queries (load_vehicle_snapshot).
THEOREM FramesAreGranted == Spec => []FrameIsHeld
<1>1. AccessInv => FrameIsHeld
  BY DEF AccessInv
<1> QED
  BY <1>1, AccessInductive, PTL

\* A change of the password leaves no session of the old one, but those whose
\* login had already checked it (change_password, revoke_other_sessions).
THEOREM OldPasswordIsOut == Spec => []SessionsKnowPassword
<1>1. AccessInv => SessionsKnowPassword
  BY DEF AccessInv
<1> QED
  BY <1>1, AccessInductive, PTL

\* The grants of a vehicle are those of one list, unless two lists were stored
\* at the same time (replace_vehicle_grants, apply_default_access).
THEOREM GrantsAreOneList == Spec => []GrantsAsListed
<1>1. AccessInv => GrantsAsListed
  BY DEF AccessInv, Shape, GrantsListed, GrantsAsListed
<1> QED
  BY <1>1, AccessInductive, PTL
=============================================================================
