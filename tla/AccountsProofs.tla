--------------------------- MODULE AccountsProofs ---------------------------
(***************************************************************************)
(* Theorems about Accounts, for any number of accounts, addresses, sessions *)
(* and requests and for every setting of OIDC.                             *)
(*                                                                         *)
(* AccountsInv says of each request what it may rely on. A step that only   *)
(* moves a request keeps it if the request is in order where it arrives     *)
(* (InOrder); a step that commits is looked at for what it changes under    *)
(* the others.                                                             *)
(***************************************************************************)
EXTENDS Accounts, TLAPS

Provisioning(stage, c) == stage = "decided" /\ c.op = "login" /\ c.target = None

\* What AccountsInv says of a request at a stage with a call, apart from who
\* holds the creation lock.
Shaped(stage, c) ==
  /\ stage = "authorized" => c.op = "admin" /\ c.actor \in Accounts
  /\ stage \in {"claims", "locking", "locked"} =>
       /\ c.op \in First \cup {"login"} /\ c.actor = None /\ c.target = None
  /\ stage \in {"loaded", "decided"} =>
       \/ /\ c.op \in {"update", "delete"} /\ c.actor \in Accounts
          /\ c.target \in Accounts \ {c.actor}
       \/ c.op = "create" /\ c.actor \in Accounts
       \/ c.op \in First \cup {"login"} /\ c.actor = None
  /\ c.op = "login" /\ stage # "idle" => c.subject \in Subjects
  /\ stage = "loaded" => c.target # None
  /\ stage # "idle" /\ c.actor # None => c.via \in Sessions
  /\ Provisioning(stage, c) \/ (stage = "decided" /\ c.op = "create") => c.address \in Emails

Kept(stage, c) == stage \in {"loaded", "decided"} /\ c.actor # None => session[c.via] = c.actor

Steady(stage, c) ==
  /\ stage # "idle" /\ c.actor # None => c.actor \in ActiveAdmins
  /\ stage = "decided" /\ c.op = "login" /\ c.admin = "no" /\ c.target # None
       => ActiveAdmins \ {c.target} # {}

Alone(stage, c) ==
  /\ Provisioning(stage, c) =>
       linked[c.subject] = None /\ \A u \in Present : email[u] # c.address
  /\ stage = "decided" /\ c.op \in First => Present = {}

InOrder(r, stage, c) ==
  /\ Shaped(stage, c) /\ Kept(stage, c) /\ Alone(stage, c)
  /\ r \notin disturbed => Steady(stage, c)

Locking(stage, c) ==
  \/ stage = "locked"
  \/ stage = "decided" /\ c.op \in First
  \/ Provisioning(stage, c)

Found(stage, c) == stage \in {"loaded", "decided"} /\ c.op = "login" /\ c.target # None
Known(c) == linked[c.subject] = c.target \/ c.target \in used \ Present
Identified(r, stage, c) == Found(stage, c) => Known(c) \/ (linked[c.subject] = None /\ creator = r)

Founded == OneFounder /\ (used # {} => Present # {})

TypeRows ==
  /\ email \in [Accounts -> Emails \cup {None}]
  /\ used \subseteq Accounts /\ Present \subseteq used
  /\ active \subseteq Present /\ admin \subseteq Present /\ founders \subseteq used
  /\ linked \in [Subjects -> Present \cup {None}]
  /\ session \in [Sessions -> Present \cup {None}]

TypeRequests ==
  /\ creator \in Requests \cup {None}
  /\ pc \in [Requests -> Stages]
  /\ call \in [Requests -> Calls]
  /\ disturbed \subseteq Requests

Parts ==
  /\ TypeRows /\ TypeRequests /\ Founded
  /\ \A r \in Requests :
       /\ InOrder(r, pc[r], call[r])
       /\ Locking(pc[r], call[r]) => creator = r
       /\ Identified(r, pc[r], call[r])

LEMMA InvParts == AccountsInv <=> Parts
PROOF
<1>1. CallShape <=> \A r \in Requests : Shaped(pc[r], call[r])
  BY DEF CallShape, Shaped, Provisions, Provisioning
<1>2. CallerKept <=> \A r \in Requests : Kept(pc[r], call[r])
  BY DEF CallerKept, Kept
<1>3. CreatorHolds <=> \A r \in Requests : Locking(pc[r], call[r]) => creator = r
  BY DEF CreatorHolds, Locking, Provisions, Provisioning
<1>4. UndisturbedHolds <=> \A r \in Requests : r \notin disturbed => Steady(pc[r], call[r])
  BY DEF UndisturbedHolds, Steady
<1>5. FirstLoginIsAlone /\ (\A r \in Requests : pc[r] = "decided" /\ call[r].op \in First => Present = {})
        <=> \A r \in Requests : Alone(pc[r], call[r])
  BY DEF FirstLoginIsAlone, Alone, Provisions, Provisioning, Linked
<1>6. TypeOK <=> TypeRows /\ TypeRequests
  BY DEF TypeOK, TypeRows, TypeRequests
<1>7. LoginIdentified <=> \A r \in Requests : Identified(r, pc[r], call[r])
  BY DEF LoginIdentified, Identified, Found, Known, Linked
<1> QED
  BY <1>1, <1>2, <1>3, <1>4, <1>5, <1>6, <1>7 DEF AccountsInv, InOrder, Founded, Parts

LEMMA NextParts == AccountsInv' <=> Parts'
  BY InvParts, PTL

LEMMA NoCallType == NoCall \in Calls /\ NoCall.op = "none"
  BY DEF NoCall, Calls, Ops, Want

\* A request that is idle is in order.
LEMMA IdleInOrder == \A r : InOrder(r, "idle", NoCall) /\ ~Locking("idle", NoCall) /\ ~Found("idle", NoCall)
  BY NoCallType DEF Found, InOrder, Shaped, Kept, Steady, Alone, Locking, Provisioning

LEMMA InitInv == Init => AccountsInv
PROOF
<1> SUFFICES ASSUME Init PROVE AccountsInv
  OBVIOUS
<1>1. Present = {}
  BY DEF Init, Present
<1>2. TypeRows /\ Founded
  BY <1>1 DEF Init, TypeRows, Founded, OneFounder
<1>3. TypeRequests
  BY NoCallType DEF Init, TypeRequests, Stages
<1>4. \A r \in Requests : pc[r] = "idle" /\ call[r] = NoCall
  BY DEF Init
<1> QED
  BY <1>2, <1>3, <1>4, IdleInOrder, InvParts DEF Parts, Identified

\* A step that moves one request, and may give it the creation lock.
LEMMA ToStep ==
  ASSUME AccountsInv, NEW r \in Requests, NEW stage \in Stages, NEW c \in Calls,
         To(r, stage, c), InOrder(r, stage, c),
         creator' = creator \/ (creator = None /\ creator' = r),
         Locking(stage, c) => creator' = r,
         Found(stage, c) => Known(c) \/ (linked[c.subject] = None /\ creator' = r)
  PROVE  AccountsInv'
PROOF
<1>1. /\ TypeRows /\ TypeRequests /\ Founded
      /\ \A q \in Requests :
           /\ InOrder(q, pc[q], call[q])
           /\ Locking(pc[q], call[q]) => creator = q
           /\ Identified(q, pc[q], call[q])
  BY InvParts DEF Parts
<1>2. /\ UNCHANGED <<email, used, active, admin, linked, session, founders, disturbed>>
      /\ pc' = [pc EXCEPT ![r] = stage] /\ call' = [call EXCEPT ![r] = c]
  BY DEF To, rowVars, userVars, historyVars
<1>3. Present' = Present /\ ActiveAdmins' = ActiveAdmins
  BY <1>2 DEF Present, ActiveAdmins
<1>4. TypeRows' /\ Founded'
  BY <1>1, <1>2, <1>3 DEF TypeRows, Founded, OneFounder
<1>5. TypeRequests'
  BY <1>1, <1>2 DEF TypeRequests
<1>6. ASSUME NEW q \in Requests
      PROVE  /\ InOrder(q, pc[q], call[q])' /\ (Locking(pc[q], call[q]) => creator = q)'
             /\ Identified(q, pc[q], call[q])'
  <2>1. ASSUME NEW t, NEW d, InOrder(q, t, d)
        PROVE  /\ Shaped(t, d) /\ Kept(t, d)' /\ Alone(t, d)'
               /\ q \notin disturbed' => Steady(t, d)'
    BY <2>1, <1>2, <1>3 DEF InOrder, Kept, Steady, Alone
  <2>2. CASE q = r
    <3>1. pc'[q] = stage /\ call'[q] = c
      BY <2>2, <1>1, <1>2 DEF TypeRequests
    <3>2. Identified(q, pc[q], call[q])'
      BY <2>2, <3>1, <1>2, <1>3 DEF Identified, Found, Known
    <3> QED
      BY <2>1, <2>2, <3>1, <3>2 DEF InOrder, Kept, Steady, Alone, Shaped, Locking, Provisioning
  <2>3. CASE q # r
    <3>1. pc'[q] = pc[q] /\ call'[q] = call[q]
      BY <2>3, <1>1, <1>2 DEF TypeRequests
    <3>2. Locking(pc[q], call[q]) => creator' = q
      BY <1>1, AccountsAssumption
    <3>3. Identified(q, pc[q], call[q])'
      BY <3>1, <1>1, <1>2, <1>3, AccountsAssumption DEF Identified, Found, Known
    <3>4. /\ Shaped(pc[q], call[q]) /\ Kept(pc[q], call[q])' /\ Alone(pc[q], call[q])'
          /\ q \notin disturbed' => Steady(pc[q], call[q])'
      <4>1. InOrder(q, pc[q], call[q])
        BY <1>1
      <4> QED
        BY <4>1, <1>2, <1>3, <3>1 DEF InOrder, Kept, Steady, Alone, Provisioning
    <3>5. (Locking(pc[q], call[q]) => creator = q)'
      BY <3>1, <3>2 DEF Locking, Provisioning
    <3>6. Shaped(pc[q], call[q])'
      BY <3>1, <3>4 DEF Shaped, Provisioning
    <3> QED
      BY <3>3, <3>4, <3>5, <3>6 DEF InOrder
  <2> QED
    BY <2>2, <2>3
<1> QED
  BY <1>4, <1>5, <1>6, NextParts DEF Parts

\* A request that ends gives back what it holds; the others stay in order.
LEMMA EndStep ==
  ASSUME AccountsInv, NEW r \in Requests, Ends(r), TypeRows', Founded', disturbed' \subseteq Requests,
         \A q \in Requests \ {r} : (InOrder(q, pc[q], call[q]) /\ Identified(q, pc[q], call[q]))'
  PROVE  AccountsInv'
PROOF
<1>1. /\ TypeRequests
      /\ \A q \in Requests : Locking(pc[q], call[q]) => creator = q
  BY InvParts DEF Parts
<1>2. /\ pc' = [pc EXCEPT ![r] = "idle"] /\ call' = [call EXCEPT ![r] = NoCall]
      /\ creator' = IF creator = r THEN None ELSE creator
  BY DEF Ends, Released
<1>3. TypeRequests'
  BY <1>1, <1>2, NoCallType DEF TypeRequests, Stages
<1>4. ASSUME NEW q \in Requests
      PROVE  /\ InOrder(q, pc[q], call[q])' /\ (Locking(pc[q], call[q]) => creator = q)'
             /\ Identified(q, pc[q], call[q])'
  <2>1. CASE q = r
    <3>1. pc'[q] = "idle" /\ call'[q] = NoCall
      BY <2>1, <1>1, <1>2 DEF TypeRequests
    <3> QED
      BY <3>1, NoCallType
         DEF InOrder, Shaped, Kept, Steady, Alone, Locking, Provisioning, Identified, Found
  <2>2. CASE q # r
    <3>1. pc'[q] = pc[q] /\ call'[q] = call[q]
      BY <2>2, <1>1, <1>2 DEF TypeRequests
    <3>2. Locking(pc[q], call[q]) => creator' = q
      BY <1>1, <1>2, <2>2
    <3>3. (Locking(pc[q], call[q]) => creator = q)'
      BY <3>1, <3>2 DEF Locking, Provisioning
    <3> QED
      BY <2>2, <3>3
  <2> QED
    BY <2>1, <2>2
<1> QED
  BY <1>3, <1>4, NextParts DEF Parts

LEMMA RefusedStep ==
  ASSUME AccountsInv, NEW r \in Requests, Refused(r)
  PROVE  AccountsInv'
PROOF
<1>1. /\ TypeRows /\ TypeRequests /\ Founded
      /\ \A q \in Requests : InOrder(q, pc[q], call[q]) /\ Identified(q, pc[q], call[q])
  BY InvParts DEF Parts
<1>2. /\ UNCHANGED <<email, used, active, admin, linked, session, founders>>
      /\ Ends(r) /\ disturbed' = disturbed \ {r}
      /\ pc' = [pc EXCEPT ![r] = "idle"] /\ call' = [call EXCEPT ![r] = NoCall]
      /\ creator' = IF creator = r THEN None ELSE creator
  BY DEF Refused, Ends, Released, rowVars, userVars
<1>3. Present' = Present /\ ActiveAdmins' = ActiveAdmins
  BY <1>2 DEF Present, ActiveAdmins
<1>4. TypeRows' /\ Founded'
  BY <1>1, <1>2, <1>3 DEF TypeRows, Founded, OneFounder
<1>5. ASSUME NEW q \in Requests \ {r}
      PROVE  (InOrder(q, pc[q], call[q]) /\ Identified(q, pc[q], call[q]))'
  <2>1. pc'[q] = pc[q] /\ call'[q] = call[q] /\ (q \notin disturbed' => q \notin disturbed)
    BY <1>1, <1>2 DEF TypeRequests
  <2>2. InOrder(q, pc[q], call[q]) /\ Identified(q, pc[q], call[q])
    BY <1>1
  <2>3. Identified(q, pc[q], call[q])'
    BY <2>1, <2>2, <1>2, <1>3 DEF Identified, Found, Known
  <2> QED
    BY <2>1, <2>2, <2>3, <1>2, <1>3 DEF InOrder, Shaped, Kept, Steady, Alone, Provisioning
<1>6. disturbed' \subseteq Requests
  BY <1>1, <1>2 DEF TypeRequests
<1> QED
  BY <1>2, <1>4, <1>5, <1>6, EndStep

\* A commit disturbs every other request, which may still rely on its session
\* and on the creation lock.
LEMMA CommitStep ==
  ASSUME AccountsInv, NEW r \in Requests, Committed(r), TypeRows', Founded',
         \A q \in Requests \ {r} :
           (Kept(pc[q], call[q]) /\ Alone(pc[q], call[q]) /\ Identified(q, pc[q], call[q]))'
  PROVE  AccountsInv'
PROOF
<1>1. TypeRequests /\ \A q \in Requests : InOrder(q, pc[q], call[q])
  BY InvParts DEF Parts
<1>2. /\ Ends(r) /\ disturbed' = (disturbed \cup {q \in Requests : pc[q] # "idle"}) \ {r}
      /\ pc' = [pc EXCEPT ![r] = "idle"] /\ call' = [call EXCEPT ![r] = NoCall]
  BY DEF Committed, Ends
<1>3. disturbed' \subseteq Requests
  BY <1>1, <1>2 DEF TypeRequests
<1>4. ASSUME NEW q \in Requests \ {r}
      PROVE  (InOrder(q, pc[q], call[q]) /\ Identified(q, pc[q], call[q]))'
  <2>1. pc'[q] = pc[q] /\ call'[q] = call[q] /\ (pc[q] = "idle" \/ q \in disturbed')
    BY <1>1, <1>2 DEF TypeRequests
  <2>2. Shaped(pc[q], call[q])'
    <3>1. InOrder(q, pc[q], call[q])
      BY <1>1
    <3> QED
      BY <2>1, <3>1 DEF InOrder, Shaped, Provisioning
  <2>3. (q \notin disturbed => Steady(pc[q], call[q]))'
    BY <2>1 DEF Steady
  <2> QED
    BY <2>2, <2>3 DEF InOrder
<1> QED
  BY <1>2, <1>3, <1>4, EndStep

----------------------------------------------------------------------------
(* Steps that move one request.                                            *)

LEMMA Now ==
  ASSUME AccountsInv, NEW r \in Requests
  PROVE  /\ TypeRows /\ TypeRequests /\ Founded
         /\ pc[r] \in Stages /\ call[r] \in Calls
         /\ Shaped(pc[r], call[r]) /\ Kept(pc[r], call[r]) /\ Alone(pc[r], call[r])
         /\ r \notin disturbed => Steady(pc[r], call[r])
         /\ Locking(pc[r], call[r]) => creator = r
         /\ Identified(r, pc[r], call[r])
  BY InvParts DEF Parts, InOrder, TypeRequests

LEMMA StartStep ==
  ASSUME AccountsInv, NEW r \in Requests, Start(r)
  PROVE  AccountsInv'
PROOF
<1>1. TypeRows
  BY Now
<1>2. CASE BeginAdmin(r)
  <2>1. PICK s \in Sessions :
          /\ session[s] \in ActiveAdmins
          /\ Begin(r, "authorized", [NoCall EXCEPT !.op = "admin", !.via = s, !.actor = session[s]])
    BY <1>2 DEF BeginAdmin
  <2> DEFINE c == [NoCall EXCEPT !.op = "admin", !.via = s, !.actor = session[s]]
  <2>2. session[s] \in Accounts
    BY <2>1, <1>1 DEF ActiveAdmins, TypeRows
  <2>3. c \in Calls /\ c.op = "admin" /\ c.actor = session[s] /\ c.via = s
    BY <2>2 DEF NoCall, Calls, Ops, Want
  <2>4. To(r, "authorized", c) /\ creator' = creator
    BY <2>1 DEF Begin
  <2> HIDE DEF c
  <2>5. InOrder(r, "authorized", c) /\ ~Locking("authorized", c) /\ ~Found("authorized", c)
    BY <2>1, <2>2, <2>3 DEF Found, InOrder, Shaped, Kept, Steady, Alone, Provisioning, Locking
  <2> QED
    BY <2>3, <2>4, <2>5, ToStep DEF Stages
<1>3. CASE BeginFirst(r)
  <2>1. PICK op \in First : Begin(r, "locking", [NoCall EXCEPT !.op = op])
    BY <1>3 DEF BeginFirst, First
  <2> DEFINE c == [NoCall EXCEPT !.op = op]
  <2>2. c \in Calls /\ c.op = op /\ c.actor = None /\ c.target = None
    BY DEF NoCall, Calls, Ops, Want, First
  <2>3. To(r, "locking", c) /\ creator' = creator
    BY <2>1 DEF Begin
  <2> HIDE DEF c
  <2>4. InOrder(r, "locking", c) /\ ~Locking("locking", c) /\ ~Found("locking", c)
    BY <2>2 DEF Found, InOrder, Shaped, Kept, Steady, Alone, Provisioning, Locking, First
  <2> QED
    BY <2>2, <2>3, <2>4, ToStep DEF Stages
<1>4. CASE BeginLogin(r)
  <2>1. PICK i \in Subjects : Begin(r, "claims", [NoCall EXCEPT !.op = "login", !.subject = i])
    BY <1>4 DEF BeginLogin
  <2> DEFINE c == [NoCall EXCEPT !.op = "login", !.subject = i]
  <2>2. c \in Calls /\ c.op = "login" /\ c.actor = None /\ c.target = None /\ c.subject = i
    BY DEF NoCall, Calls, Ops, Want
  <2>3. To(r, "claims", c) /\ creator' = creator
    BY <2>1 DEF Begin
  <2> HIDE DEF c
  <2>4. InOrder(r, "claims", c) /\ ~Locking("claims", c) /\ ~Found("claims", c)
    BY <2>2 DEF Found, InOrder, Shaped, Kept, Steady, Alone, Provisioning, Locking
  <2> QED
    BY <2>2, <2>3, <2>4, ToStep DEF Stages
<1> QED
  BY <1>2, <1>3, <1>4 DEF Start

\* An administrator's request that loads what it is about: its session is
\* there.
LEMMA LoadStep ==
  ASSUME AccountsInv, NEW r \in Requests, LoadUpdate(r) \/ LoadDelete(r) \/ LoadCreate(r)
  PROVE  AccountsInv'
PROOF
<1>1. /\ pc[r] = "authorized" /\ call[r].actor \in Accounts /\ call[r] \in Calls
      /\ session[call[r].via] = call[r].actor /\ call[r].via \in Sessions
      /\ r \notin disturbed => call[r].actor \in ActiveAdmins
      /\ creator' = creator
  BY Now, AccountsAssumption
     DEF LoadUpdate, LoadDelete, LoadCreate, Ready, SessionKept, Shaped, Steady
<1>2. ASSUME NEW c \in Calls, c.via = call[r].via, c.actor = call[r].actor,
             NEW stage \in {"loaded", "decided"}, To(r, stage, c),
             \/ c.op \in {"update", "delete"} /\ c.target \in Accounts \ {c.actor}
             \/ c.op = "create" /\ stage = "decided" /\ c.address \in Emails
      PROVE  AccountsInv'
  <2>1. InOrder(r, stage, c) /\ ~Locking(stage, c) /\ ~Found(stage, c)
    BY <1>1, <1>2, AccountsAssumption
       DEF Found, InOrder, Shaped, Kept, Steady, Alone, Provisioning, Locking, First
  <2> QED
    BY <1>1, <1>2, <2>1, ToStep DEF Stages
<1>3. CASE LoadUpdate(r)
  <2>1. PICK u \in Present \ {call[r].actor}, w \in {"keep", "yes", "no"}, v \in {"keep", "yes", "no"},
             stage \in {"loaded", "decided"} :
          To(r, stage, [call[r] EXCEPT !.op = "update", !.target = u,
                        !.admin = Change(w, u \in admin), !.active = Change(v, u \in active)])
    BY <1>3 DEF LoadUpdate
  <2>2. Change(w, u \in admin) \in Want /\ Change(v, u \in active) \in Want
    BY DEF Change, Want
  <2> DEFINE c == [call[r] EXCEPT !.op = "update", !.target = u,
                     !.admin = Change(w, u \in admin), !.active = Change(v, u \in active)]
  <2>3. c \in Calls /\ c.via = call[r].via /\ c.actor = call[r].actor /\ c.op = "update" /\ c.target = u
    BY <1>1, <2>2 DEF Calls, Ops, Present
  <2> HIDE DEF c
  <2> QED
    BY <1>2, <2>1, <2>3 DEF Present, c
<1>4. CASE LoadDelete(r)
  <2>1. PICK u \in Present \ {call[r].actor}, stage \in {"loaded", "decided"} :
          To(r, stage, [call[r] EXCEPT !.op = "delete", !.target = u])
    BY <1>4 DEF LoadDelete
  <2> DEFINE c == [call[r] EXCEPT !.op = "delete", !.target = u]
  <2>2. c \in Calls /\ c.via = call[r].via /\ c.actor = call[r].actor /\ c.op = "delete" /\ c.target = u
    BY <1>1 DEF Calls, Ops, Present
  <2> HIDE DEF c
  <2> QED
    BY <1>2, <2>1, <2>2 DEF Present, c
<1>5. CASE LoadCreate(r)
  <2>1. PICK a \in Emails, w \in {"yes", "no"} :
          To(r, "decided", [call[r] EXCEPT !.op = "create", !.address = a, !.admin = w])
    BY <1>5 DEF LoadCreate
  <2> DEFINE c == [call[r] EXCEPT !.op = "create", !.address = a, !.admin = w]
  <2>2. c \in Calls /\ c.via = call[r].via /\ c.actor = call[r].actor /\ c.op = "create" /\ c.address = a
    BY <1>1 DEF Calls, Ops, Want
  <2> HIDE DEF c
  <2> QED
    BY <1>2, <2>1, <2>2 DEF c
<1> QED
  BY <1>3, <1>4, <1>5

\* A request for the first account, or a first login, under the creation lock
\* or on its way to it.
LEMMA CreationStep ==
  ASSUME AccountsInv, NEW r \in Requests, LockCreation(r) \/ CountUsers(r) \/ FirstLogin(r)
  PROVE  AccountsInv'
PROOF
<1>1. /\ call[r] \in Calls /\ Shaped(pc[r], call[r])
      /\ Locking(pc[r], call[r]) => creator = r
  BY Now
<1>2. CASE LockCreation(r)
  <2>1. pc[r] = "locking" /\ creator = None /\ creator' = r /\ To(r, "locked", call[r])
    BY <1>2 DEF LockCreation, TableFree
  <2>2. InOrder(r, "locked", call[r]) /\ ~Found("locked", call[r])
    BY <1>1, <2>1 DEF Found, InOrder, Shaped, Kept, Steady, Alone, Provisioning
  <2> QED
    BY <1>1, <2>1, <2>2, ToStep DEF Stages
<1>3. CASE CountUsers(r)
  <2>1. /\ pc[r] = "locked" /\ call[r].op \in First /\ Present = {} /\ creator' = creator
        /\ To(r, "decided", call[r])
    BY <1>3 DEF CountUsers, RegistrationOpen, First
  <2>2. creator = r
    BY <1>1, <2>1 DEF Locking
  <2>3. InOrder(r, "decided", call[r]) /\ ~Found("decided", call[r])
    BY <1>1, <2>1 DEF Found, InOrder, Shaped, Kept, Steady, Alone, Provisioning, First
  <2> QED
    BY <1>1, <2>1, <2>2, <2>3, ToStep DEF Stages
<1>4. CASE FirstLogin(r)
  <2>1. pc[r] = "claims" /\ creator' = creator /\ To(r, "locking", call[r])
    BY <1>4 DEF FirstLogin
  <2>2. InOrder(r, "locking", call[r]) /\ ~Locking("locking", call[r]) /\ ~Found("locking", call[r])
    BY <1>1, <2>1 DEF Found, InOrder, Shaped, Kept, Steady, Alone, Provisioning, Locking
  <2> QED
    BY <1>1, <2>1, <2>2, ToStep DEF Stages
<1> QED
  BY <1>2, <1>3, <1>4

\* A login that found its account.
LEMMA FinishStep ==
  ASSUME AccountsInv, NEW r \in Requests, Match(r) \/ MatchAddress(r)
  PROVE  AccountsInv'
PROOF
<1>1. /\ pc[r] \in {"claims", "locked"} /\ call[r].op = "login" /\ call[r] \in Calls
      /\ call[r].actor = None /\ call[r].subject \in Subjects /\ creator' = creator
  BY Now DEF Match, MatchAddress, Shaped
<1>2. PICK u \in active :
        /\ Finishes(r, u)
        /\ linked[call[r].subject] = u \/ (linked[call[r].subject] = None /\ creator = r)
  BY Now DEF Match, MatchAddress, Linked, Locking
<1>3. u \in Accounts /\ u # None
  BY Now, AccountsAssumption DEF TypeRows
<1>4. PICK a \in Want, stage \in {"loaded", "decided"} :
        /\ To(r, stage, [call[r] EXCEPT !.target = u, !.admin = a])
        /\ stage = "decided" => a # "no"
  <2>1. PICK w \in Desired :
          LET a == Change(w, u \in admin) IN
          To(r, IF a = "no" THEN "loaded" ELSE "decided", [call[r] EXCEPT !.target = u, !.admin = a])
    BY <1>2 DEF Finishes
  <2>2. Change(w, u \in admin) \in Want
    BY DEF Change, Want, Desired
  <2> QED
    BY <2>1, <2>2
<1> DEFINE c == [call[r] EXCEPT !.target = u, !.admin = a]
<1>5. /\ c \in Calls /\ c.op = "login" /\ c.actor = None /\ c.subject = call[r].subject
      /\ c.target = u /\ c.admin = a
  BY <1>1, <1>3 DEF Calls
<1> HIDE DEF c
<1>6. /\ InOrder(r, stage, c) /\ ~Locking(stage, c)
      /\ Known(c) \/ (linked[c.subject] = None /\ creator' = r)
  BY <1>1, <1>2, <1>3, <1>4, <1>5
     DEF InOrder, Shaped, Kept, Steady, Alone, Provisioning, Locking, First, Known
<1> QED
  BY <1>1, <1>4, <1>5, <1>6, ToStep DEF Stages, c

LEMMA ProvisionStep ==
  ASSUME AccountsInv, NEW r \in Requests, Provision(r)
  PROVE  AccountsInv'
PROOF
<1>1. /\ pc[r] = "locked" /\ call[r].op = "login" /\ call[r] \in Calls
      /\ call[r].actor = None /\ call[r].target = None /\ call[r].subject \in Subjects
      /\ linked[call[r].subject] = None /\ creator' = creator /\ creator = r
  BY Now DEF Provision, Shaped, Linked, Locking
<1>2. PICK a \in Emails, w \in Desired :
        /\ \A u \in Present : email[u] # a
        /\ To(r, "decided", [call[r] EXCEPT !.address = a, !.admin = w])
  BY DEF Provision
<1> DEFINE c == [call[r] EXCEPT !.address = a, !.admin = w]
<1>3. w \in Want
  BY DEF Desired, Want
<1>4. /\ c \in Calls /\ c.op = "login" /\ c.actor = None /\ c.subject = call[r].subject
      /\ c.target = None /\ c.address = a
  BY <1>1, <1>3 DEF Calls
<1>5. To(r, "decided", c)
  BY <1>2
<1> HIDE DEF c
<1>6. InOrder(r, "decided", c) /\ ~Found("decided", c)
  BY <1>1, <1>2, <1>4 DEF Found, InOrder, Shaped, Kept, Steady, Alone, Provisioning, First
<1> QED
  BY <1>1, <1>4, <1>5, <1>6, ToStep DEF Stages

GuardPasses(r) == GuardLastAdmin(r) /\ OtherActiveAdmin(r)

\* A login that demotes goes on only if it found another active
\* administrator; it has no caller that would count as one unseen.
LEMMA GuardStep ==
  ASSUME AccountsInv, NEW r \in Requests, GuardPasses(r) \/ MapGroup(r)
  PROVE  AccountsInv'
PROOF
<1>1. /\ pc[r] = "loaded" /\ call[r] \in Calls /\ creator' = creator
      /\ Shaped(pc[r], call[r]) /\ Kept(pc[r], call[r])
      /\ r \notin disturbed => Steady(pc[r], call[r])
      /\ Identified(r, pc[r], call[r])
  BY Now DEF GuardPasses, GuardLastAdmin, MapGroup
<1>2. CASE GuardPasses(r)
  <2>1. call[r].op \in {"update", "delete"} /\ To(r, "decided", call[r])
    BY <1>2 DEF GuardPasses, GuardLastAdmin
  <2>2. InOrder(r, "decided", call[r]) /\ ~Locking("decided", call[r]) /\ ~Found("decided", call[r])
    BY <1>1, <2>1 DEF Found, InOrder, Shaped, Kept, Steady, Alone, Provisioning, Locking, First
  <2> QED
    BY <1>1, <2>1, <2>2, ToStep DEF Stages
<1>3. CASE MapGroup(r)
  <2>1. call[r].op = "login" /\ call[r].actor = None /\ call[r].target # None
    BY <1>1, <1>3 DEF MapGroup, Shaped, First
  <2> DEFINE holds == linked[call[r].subject] = None /\ creator' = r
  <2>4. Known(call[r]) \/ holds
    BY <1>1, <2>1 DEF Identified, Found
  <2>2. CASE OtherActiveAdmin(r)
    <3>1. To(r, "decided", call[r])
      BY <1>3, <2>2 DEF MapGroup
    <3>2. ActiveAdmins \ {call[r].target} # {}
      BY <2>1, <2>2, AccountsAssumption DEF OtherActiveAdmin, Present
    <3>3. InOrder(r, "decided", call[r]) /\ ~Locking("decided", call[r])
      BY <1>1, <2>1, <3>2 DEF InOrder, Shaped, Kept, Steady, Alone, Provisioning, Locking, First
    <3> QED
      BY <1>1, <2>4, <3>1, <3>3, ToStep DEF Stages
  <2>3. CASE ~OtherActiveAdmin(r)
    <3> DEFINE c == [call[r] EXCEPT !.admin = "skip"]
    <3>1. To(r, "decided", c)
      BY <1>3, <2>3 DEF MapGroup
    <3>2. /\ c \in Calls /\ c.op = "login" /\ c.actor = None /\ c.target = call[r].target
          /\ c.subject = call[r].subject /\ c.admin = "skip"
      BY <1>1, <2>1 DEF Calls, Want
    <3> HIDE DEF c
    <3>4. Known(c) \/ (linked[c.subject] = None /\ creator' = r)
      BY <2>4, <3>2 DEF Known
    <3>3. InOrder(r, "decided", c) /\ ~Locking("decided", c)
      BY <1>1, <2>1, <3>2 DEF InOrder, Shaped, Kept, Steady, Alone, Provisioning, Locking, First
    <3> QED
      BY <1>1, <3>1, <3>2, <3>3, <3>4, ToStep DEF Stages
  <2> QED
    BY <2>2, <2>3
<1> QED
  BY <1>2, <1>3

----------------------------------------------------------------------------
(* Steps that commit.                                                      *)

\* A new session takes no session away.
LEMMA NewSessionKeeps ==
  ASSUME TypeRows, NEW u \in Accounts, NewSession(u)
  PROVE  /\ session' \in [Sessions -> Present \cup {u, None}]
         /\ \A s \in Sessions : session[s] # None => session'[s] = session[s]
PROOF
<1>1. session \in [Sessions -> Present \cup {None}]
  BY DEF TypeRows
<1>2. \/ session' = session
      \/ \E s \in Sessions : session[s] = None /\ session' = [session EXCEPT ![s] = u]
  BY DEF NewSession
<1> QED
  BY <1>1, <1>2

\* A request that makes an account while nobody else holds the creation lock.
LEMMA CreateStep ==
  ASSUME AccountsInv, NEW r \in Requests, Committed(r), creator \in {None, r},
         NEW u \in Fresh, NEW a \in Emails, NEW isAdmin \in BOOLEAN, Creates(u, a, isAdmin),
         founders' \subseteq used', OneFounder',
         linked' \in [Subjects -> Present \cup {u, None}],
         \A i \in Subjects : linked[i] # None => linked'[i] = linked[i],
         session' \in [Sessions -> Present \cup {u, None}],
         \A s \in Sessions : session[s] # None => session'[s] = session[s]
  PROVE  AccountsInv'
PROOF
<1>1. TypeRows /\ TypeRequests
  BY Now
<1>2. /\ email' = [email EXCEPT ![u] = a] /\ used' = used \cup {u} /\ active' = active \cup {u}
      /\ admin' \in {admin, admin \cup {u}} /\ u \in Accounts /\ u \notin used
  BY DEF Creates, Fresh
<1>3. Present' = Present \cup {u}
  BY <1>1, <1>2, AccountsAssumption DEF Present, TypeRows
<1>4. TypeRows'
  BY <1>1, <1>2, <1>3 DEF TypeRows
<1>5. Founded'
  BY <1>3 DEF Founded
<1>6. ASSUME NEW q \in Requests \ {r}
      PROVE  (Kept(pc[q], call[q]) /\ Alone(pc[q], call[q]) /\ Identified(q, pc[q], call[q]))'
  <2>1. pc'[q] = pc[q] /\ call'[q] = call[q]
    BY <1>1 DEF TypeRequests, Committed, Ends
  <2>2. /\ Shaped(pc[q], call[q]) /\ Kept(pc[q], call[q]) /\ Identified(q, pc[q], call[q])
        /\ ~Locking(pc[q], call[q])
    BY Now, AccountsAssumption
  <2>3. Kept(pc[q], call[q])'
    BY <2>1, <2>2 DEF Kept, Shaped
  <2>4. Alone(pc[q], call[q])'
    BY <2>1, <2>2 DEF Alone, Locking, Provisioning
  <2>5. Identified(q, pc[q], call[q])'
    <3>1. CASE Found(pc[q], call[q])
      <4>1. Known(call[q]) /\ call[q].target # None /\ call[q].subject \in Subjects
        BY <3>1, <2>2, AccountsAssumption DEF Identified, Found, Shaped
      <4> QED
        BY <4>1, <2>1, <1>2, <1>3 DEF Identified, Known
    <3>2. CASE ~Found(pc[q], call[q])
      BY <3>2, <2>1 DEF Identified, Found
    <3> QED
      BY <3>1, <3>2
  <2> QED
    BY <2>3, <2>4, <2>5
<1> QED
  BY <1>4, <1>5, <1>6, CommitStep

LEMMA NewAccountStep ==
  ASSUME AccountsInv, NEW r \in Requests,
         CommitCreate(r) \/ CommitFirst(r) \/ CommitProvision(r)
  PROVE  AccountsInv'
PROOF
<1>1. /\ TypeRows /\ Founded /\ call[r] \in Calls /\ Committed(r) /\ pc[r] = "decided"
      /\ Shaped(pc[r], call[r]) /\ Alone(pc[r], call[r])
      /\ Locking(pc[r], call[r]) => creator = r
  BY Now DEF CommitCreate, CommitFirst, CommitProvision
<1>2. CASE CommitCreate(r)
  <2>1. PICK u \in Fresh : Creates(u, call[r].address, call[r].admin = "yes")
    BY <1>2 DEF CommitCreate
  <2>2. PICK a \in Emails, b \in BOOLEAN : a = call[r].address /\ b = (call[r].admin = "yes")
    BY <1>1, <1>2 DEF CommitCreate, Shaped
  <2>3. creator \in {None, r} /\ UNCHANGED <<linked, session, founders>>
    BY <1>2 DEF CommitCreate, UsersFree
  <2>4. used' = used \cup {u} /\ Creates(u, a, b)
    BY <2>1, <2>2 DEF Creates
  <2>5. founders' \subseteq used' /\ OneFounder'
    BY <1>1, <2>3, <2>4 DEF TypeRows, Founded, OneFounder
  <2>6. /\ linked' \in [Subjects -> Present \cup {u, None}]
        /\ session' \in [Sessions -> Present \cup {u, None}]
    BY <1>1, <2>3 DEF TypeRows
  <2> QED
    BY <1>1, <2>3, <2>4, <2>5, <2>6, CreateStep
<1>3. CASE CommitFirst(r)
  <2>1. PICK u \in Fresh, a \in Emails :
          /\ Creates(u, a, TRUE)
          /\ founders' = founders \cup {u}
          /\ IF call[r].op = "register" THEN NewSession(u) ELSE UNCHANGED session
    BY <1>3 DEF CommitFirst
  <2>2. call[r].op \in First /\ creator = r /\ UNCHANGED linked /\ Present = {}
    BY <1>1, <1>3 DEF CommitFirst, First, Locking, Alone
  <2>3. founders = {} /\ used' = used \cup {u}
    BY <1>1, <2>1, <2>2 DEF Founded, TypeRows, Creates
  <2>4. founders' \subseteq used' /\ OneFounder'
    BY <2>1, <2>3 DEF OneFounder
  <2>5. /\ linked' \in [Subjects -> Present \cup {u, None}]
        /\ \A i \in Subjects : linked'[i] = linked[i]
    BY <1>1, <2>2 DEF TypeRows
  <2>6. /\ session' \in [Sessions -> Present \cup {u, None}]
        /\ \A s \in Sessions : session[s] # None => session'[s] = session[s]
    <3>1. u \in Accounts
      BY DEF Fresh
    <3> QED
      BY <1>1, <2>1, <3>1, NewSessionKeeps DEF TypeRows
  <2> QED
    BY <1>1, <2>1, <2>2, <2>4, <2>5, <2>6, CreateStep
<1>4. CASE CommitProvision(r)
  <2>1. /\ call[r].op = "login" /\ call[r].target = None /\ call[r].address \in Emails
        /\ call[r].subject \in Subjects /\ linked[call[r].subject] = None
        /\ creator = r /\ founders' = founders
    BY <1>1, <1>4 DEF CommitProvision, Locking, Provisioning, Shaped, Alone
  <2>2. PICK u \in Fresh :
          /\ Creates(u, call[r].address, call[r].admin = "yes")
          /\ linked' = [linked EXCEPT ![call[r].subject] = u]
          /\ NewSession(u)
    BY <1>4 DEF CommitProvision
  <2>3. PICK a \in Emails, b \in BOOLEAN : a = call[r].address /\ b = (call[r].admin = "yes")
    BY <2>1
  <2>4. used' = used \cup {u} /\ Creates(u, a, b)
    BY <2>2, <2>3 DEF Creates
  <2>5. founders' \subseteq used' /\ OneFounder'
    BY <1>1, <2>1, <2>4 DEF TypeRows, Founded, OneFounder
  <2>6. /\ linked' \in [Subjects -> Present \cup {u, None}]
        /\ \A i \in Subjects : linked[i] # None => linked'[i] = linked[i]
    BY <1>1, <2>1, <2>2 DEF TypeRows
  <2>7. /\ session' \in [Sessions -> Present \cup {u, None}]
        /\ \A s \in Sessions : session[s] # None => session'[s] = session[s]
    <3>1. u \in Accounts
      BY DEF Fresh
    <3> QED
      BY <1>1, <2>2, <3>1, NewSessionKeeps
  <2> QED
    BY <1>1, <2>1, <2>4, <2>5, <2>6, <2>7, CreateStep
<1> QED
  BY <1>2, <1>3, <1>4

LEMMA UpdateStep ==
  ASSUME AccountsInv, NEW r \in Requests, CommitUpdate(r)
  PROVE  AccountsInv'
PROOF
<1>1. TypeRows /\ TypeRequests /\ Founded
  BY Now
<1> DEFINE u == call[r].target
<1>2. /\ u \in Present /\ Committed(r)
      /\ admin' \in {admin, admin \cup {u}, admin \ {u}}
      /\ active' \in {active, active \cup {u}, active \ {u}}
      /\ UNCHANGED <<email, used, linked, session, founders>>
  BY DEF CommitUpdate, Written
<1>3. Present' = Present
  BY <1>2 DEF Present
<1>4. TypeRows' /\ Founded'
  BY <1>1, <1>2, <1>3 DEF TypeRows, Founded, OneFounder
<1>5. ASSUME NEW q \in Requests \ {r}
      PROVE  (Kept(pc[q], call[q]) /\ Alone(pc[q], call[q]) /\ Identified(q, pc[q], call[q]))'
  <2>1. /\ pc'[q] = pc[q] /\ call'[q] = call[q]
        /\ creator' = IF creator = r THEN None ELSE creator
    BY <1>1, <1>2 DEF TypeRequests, Committed, Ends, Released
  <2>2. Kept(pc[q], call[q]) /\ Alone(pc[q], call[q]) /\ Identified(q, pc[q], call[q])
    BY Now
  <2>3. Kept(pc[q], call[q])' /\ Alone(pc[q], call[q])'
    BY <1>2, <1>3, <2>1, <2>2 DEF Kept, Alone, Provisioning
  <2>4. Identified(q, pc[q], call[q])'
    BY <1>2, <1>3, <2>1, <2>2 DEF Identified, Found, Known
  <2> QED
    BY <2>3, <2>4
<1> QED
  BY <1>2, <1>4, <1>5, CommitStep

\* A deletion leaves the account that asked for it, and takes no session from a
\* request that relies on it.
LEMMA DeleteStep ==
  ASSUME AccountsInv, NEW r \in Requests, CommitDelete(r)
  PROVE  AccountsInv' /\ Present' # {}
PROOF
<1>1. TypeRows /\ TypeRequests /\ Founded
  BY Now
<1> DEFINE u == call[r].target
<1>2. /\ Committed(r) /\ CascadeFree(r) /\ UNCHANGED <<used, founders>>
      /\ email' = [email EXCEPT ![u] = None] /\ active' = active \ {u} /\ admin' = admin \ {u}
      /\ linked' = Without(u, linked) /\ session' = Without(u, session)
  BY DEF CommitDelete
<1>3. /\ u \in Accounts /\ call[r].actor \in Accounts \ {u}
      /\ call[r].via \in Sessions /\ session[call[r].via] = call[r].actor
  BY Now, AccountsAssumption DEF CommitDelete, Shaped, Kept, First
<1>4. Present' = Present \ {u}
  BY <1>1, <1>2, <1>3 DEF Present, TypeRows
<1>5. call[r].actor \in Present'
  BY <1>1, <1>3, <1>4, AccountsAssumption DEF TypeRows
<1>6. /\ DOMAIN linked = Subjects /\ \A i \in Subjects : linked[i] \in Present \cup {None}
      /\ DOMAIN session = Sessions /\ \A s \in Sessions : session[s] \in Present \cup {None}
  BY <1>1 DEF TypeRows
<1>7. /\ linked' \in [Subjects -> Present' \cup {None}]
      /\ \A i \in Subjects : linked'[i] = IF linked[i] = u THEN None ELSE linked[i]
  BY <1>2, <1>4, <1>6 DEF Without
<1>8. /\ session' \in [Sessions -> Present' \cup {None}]
      /\ \A s \in Sessions : session'[s] = IF session[s] = u THEN None ELSE session[s]
  BY <1>2, <1>4, <1>6 DEF Without
<1>9. TypeRows'
  BY <1>1, <1>2, <1>4, <1>7, <1>8 DEF TypeRows
<1>10. Founded'
  BY <1>1, <1>2, <1>5 DEF Founded, OneFounder
<1>11. ASSUME NEW q \in Requests \ {r}
       PROVE  (Kept(pc[q], call[q]) /\ Alone(pc[q], call[q]) /\ Identified(q, pc[q], call[q]))'
  <2>1. /\ pc'[q] = pc[q] /\ call'[q] = call[q]
        /\ creator' = IF creator = r THEN None ELSE creator
    BY <1>1, <1>2 DEF TypeRequests, Committed, Ends, Released
  <2>2. /\ Shaped(pc[q], call[q]) /\ Kept(pc[q], call[q]) /\ Alone(pc[q], call[q])
        /\ Identified(q, pc[q], call[q])
    BY Now
  <2>3. ~Pins(q, u)
    BY <1>2 DEF CascadeFree
  <2>4. Kept(pc[q], call[q])'
    BY <1>8, <2>1, <2>2, <2>3 DEF Kept, Shaped, Pins
  <2>5. Alone(pc[q], call[q])'
    <3>1. CASE Provisioning(pc[q], call[q])
      <4>1. call[q].subject \in Subjects
        BY <3>1, <2>2 DEF Provisioning, Shaped
      <4>2. linked'[call[q].subject] = None
        BY <3>1, <4>1, <1>7, <2>2 DEF Alone
      <4>3. \A v \in Present' : email'[v] # call[q].address
        BY <3>1, <1>1, <1>2, <1>4, <2>2 DEF Alone, TypeRows, Present
      <4> QED
        BY <3>1, <4>2, <4>3, <2>1 DEF Alone, Provisioning, First
    <3>2. CASE ~Provisioning(pc[q], call[q])
      BY <3>2, <1>4, <2>1, <2>2 DEF Alone, Provisioning
    <3> QED
      BY <3>1, <3>2
  <2>6. Identified(q, pc[q], call[q])'
    <3>1. CASE Found(pc[q], call[q])
      <4>1. call[q].subject \in Subjects
        BY <3>1, <2>2 DEF Found, Shaped
      <4>2. CASE linked[call[q].subject] = call[q].target
        <5>1. call[q].target \in used
          BY <3>1, <4>1, <4>2, <1>1, <1>6 DEF Found, TypeRows
        <5>2. CASE call[q].target = u
          BY <5>1, <5>2, <1>2, <1>4, <2>1 DEF Identified, Known
        <5>3. CASE call[q].target # u
          BY <4>1, <4>2, <5>3, <1>7, <2>1 DEF Identified, Known
        <5> QED
          BY <5>2, <5>3
      <4>3. CASE call[q].target \in used \ Present
        BY <4>3, <1>2, <1>4, <2>1 DEF Identified, Known
      <4>4. CASE linked[call[q].subject] = None /\ creator = q
        BY <4>1, <4>4, <1>7, <2>1 DEF Identified
      <4> QED
        BY <3>1, <4>2, <4>3, <4>4, <2>2 DEF Identified, Known
    <3>2. CASE ~Found(pc[q], call[q])
      BY <3>2, <2>1 DEF Identified, Found
    <3> QED
      BY <3>1, <3>2
  <2> QED
    BY <2>4, <2>5, <2>6
<1> QED
  BY <1>2, <1>5, <1>9, <1>10, <1>11, CommitStep

\* A login gives its account an identity that nobody else waits for.
LEMMA LoginStep ==
  ASSUME AccountsInv, NEW r \in Requests, CommitLogin(r)
  PROVE  AccountsInv'
PROOF
<1>1. TypeRows /\ TypeRequests /\ Founded
  BY Now
<1> DEFINE u == call[r].target
           i == call[r].subject
<1>2. /\ u \in Present /\ Committed(r) /\ NewSession(u)
      /\ admin' \in {admin, admin \cup {u}, admin \ {u}}
      /\ linked' = [linked EXCEPT ![i] = u]
      /\ UNCHANGED <<email, used, active, founders>>
  BY DEF CommitLogin, Written
<1>3. Present' = Present
  BY <1>2 DEF Present
<1>4. u \in Accounts /\ u # None
  BY <1>2, AccountsAssumption DEF Present
<1>5. i \in Subjects /\ (linked[i] = u \/ (linked[i] = None /\ creator = r))
  BY <1>2, <1>4, Now DEF CommitLogin, Shaped, Identified, Found, Known
<1>6. /\ session' \in [Sessions -> Present \cup {None}]
      /\ \A s \in Sessions : session[s] # None => session'[s] = session[s]
  BY <1>1, <1>2, <1>4, NewSessionKeeps
<1>7. TypeRows'
  BY <1>1, <1>2, <1>3, <1>5, <1>6 DEF TypeRows
<1>8. Founded'
  BY <1>1, <1>2, <1>3 DEF Founded, OneFounder
<1>9. ASSUME NEW q \in Requests \ {r}
      PROVE  (Kept(pc[q], call[q]) /\ Alone(pc[q], call[q]) /\ Identified(q, pc[q], call[q]))'
  <2>1. /\ pc'[q] = pc[q] /\ call'[q] = call[q]
        /\ creator' = IF creator = r THEN None ELSE creator
    BY <1>1, <1>2 DEF TypeRequests, Committed, Ends, Released
  <2>2. /\ Shaped(pc[q], call[q]) /\ Kept(pc[q], call[q]) /\ Alone(pc[q], call[q])
        /\ Identified(q, pc[q], call[q]) /\ (Locking(pc[q], call[q]) => creator = q)
    BY Now
  <2>3. Kept(pc[q], call[q])'
    BY <1>6, <2>1, <2>2 DEF Kept, Shaped
  <2>4. Alone(pc[q], call[q])'
    <3>1. CASE Provisioning(pc[q], call[q])
      <4>1. call[q].subject \in Subjects /\ linked[call[q].subject] = None /\ creator = q
        BY <3>1, <2>2 DEF Alone, Locking, Provisioning, Shaped
      <4>2. linked'[call[q].subject] = None
        BY <4>1, <1>1, <1>2, <1>4, <1>5 DEF TypeRows
      <4> QED
        BY <3>1, <4>2, <1>2, <1>3, <2>1, <2>2 DEF Alone, Provisioning
    <3>2. CASE ~Provisioning(pc[q], call[q])
      BY <3>2, <1>3, <2>1, <2>2 DEF Alone, Provisioning
    <3> QED
      BY <3>1, <3>2
  <2>5. Identified(q, pc[q], call[q])'
    <3>1. CASE Found(pc[q], call[q])
      <4>1. call[q].subject \in Subjects /\ call[q].target # None
        BY <3>1, <2>2 DEF Found, Shaped
      <4>2. CASE call[q].target \in used \ Present
        BY <4>2, <1>2, <1>3, <2>1 DEF Identified, Known
      <4>3. CASE linked[call[q].subject] = call[q].target
        <5>1. linked'[call[q].subject] = call[q].target
          BY <4>1, <4>3, <1>1, <1>2, <1>5 DEF TypeRows
        <5> QED
          BY <5>1, <2>1 DEF Identified, Known
      <4>4. CASE linked[call[q].subject] = None /\ creator = q
        <5>1. linked'[call[q].subject] = None /\ creator' = q
          BY <4>1, <4>4, <1>1, <1>2, <1>4, <1>5, <2>1 DEF TypeRows
        <5> QED
          BY <5>1, <2>1 DEF Identified
      <4> QED
        BY <3>1, <4>2, <4>3, <4>4, <2>2 DEF Identified, Known
    <3>2. CASE ~Found(pc[q], call[q])
      BY <3>2, <2>1 DEF Identified, Found
    <3> QED
      BY <3>1, <3>2
  <2> QED
    BY <2>3, <2>4, <2>5
<1> QED
  BY <1>2, <1>7, <1>8, <1>9, CommitStep

LEMMA LocalLoginStep ==
  ASSUME AccountsInv, NEW u \in Accounts, LocalLogin(u)
  PROVE  AccountsInv'
PROOF
<1>1. /\ TypeRows /\ TypeRequests /\ Founded
      /\ \A q \in Requests :
           /\ InOrder(q, pc[q], call[q])
           /\ Locking(pc[q], call[q]) => creator = q
           /\ Identified(q, pc[q], call[q])
  BY InvParts DEF Parts
<1>2. /\ u \in active /\ NewSession(u)
      /\ UNCHANGED <<email, used, active, admin, linked, creator, pc, call, founders, disturbed>>
  BY DEF LocalLogin, userVars, historyVars
<1>3. Present' = Present /\ ActiveAdmins' = ActiveAdmins
  BY <1>2 DEF Present, ActiveAdmins
<1>4. /\ session' \in [Sessions -> Present \cup {None}]
      /\ \A s \in Sessions : session[s] # None => session'[s] = session[s]
  BY <1>1, <1>2, NewSessionKeeps DEF TypeRows
<1>5. TypeRows' /\ TypeRequests' /\ Founded'
  BY <1>1, <1>2, <1>3, <1>4 DEF TypeRows, TypeRequests, Founded, OneFounder
<1>6. ASSUME NEW q \in Requests
      PROVE  /\ InOrder(q, pc[q], call[q])' /\ (Locking(pc[q], call[q]) => creator = q)'
             /\ Identified(q, pc[q], call[q])'
  <2>1. /\ Shaped(pc[q], call[q]) /\ Kept(pc[q], call[q]) /\ Alone(pc[q], call[q])
        /\ q \notin disturbed => Steady(pc[q], call[q])
        /\ Locking(pc[q], call[q]) => creator = q
        /\ Identified(q, pc[q], call[q])
    BY <1>1 DEF InOrder
  <2>2. Kept(pc[q], call[q])'
    BY <1>2, <1>4, <2>1 DEF Kept, Shaped
  <2>3. Shaped(pc[q], call[q])' /\ Alone(pc[q], call[q])'
    BY <1>2, <1>3, <2>1 DEF Shaped, Alone, Provisioning
  <2>4. (q \notin disturbed => Steady(pc[q], call[q]))'
    BY <1>2, <1>3, <2>1 DEF Steady
  <2>5. (Locking(pc[q], call[q]) => creator = q)' /\ Identified(q, pc[q], call[q])'
    BY <1>2, <1>3, <2>1 DEF Locking, Provisioning, Identified, Found, Known
  <2> QED
    BY <2>2, <2>3, <2>4, <2>5 DEF InOrder
<1> QED
  BY <1>5, <1>6, NextParts DEF Parts

Refusals(r) ==
  \/ LoadRefused(r) \/ (GuardLastAdmin(r) /\ ~OtherActiveAdmin(r)) \/ UpdateFails(r)
  \/ CreateFails(r) \/ RegistrationClosed(r)
  \/ LoginRefused(r) \/ LoginGone(r) \/ ProvisionFails(r) \/ DeadlockVictim(r) \/ Fails(r)

Moves(r) ==
  \/ Start(r) \/ LoadUpdate(r) \/ LoadDelete(r) \/ LoadCreate(r)
  \/ LockCreation(r) \/ CountUsers(r) \/ FirstLogin(r) \/ Match(r) \/ MatchAddress(r)
  \/ Provision(r) \/ GuardPasses(r) \/ MapGroup(r)

Creations(r) == CommitCreate(r) \/ CommitFirst(r) \/ CommitProvision(r)

LEMMA RefusalsRefuse == ASSUME NEW r, Refusals(r) PROVE Refused(r)
  BY DEF Refusals, LoadRefused, GuardLastAdmin, UpdateFails, CreateFails, RegistrationClosed,
         LoginRefused, LoginGone, ProvisionFails, DeadlockVictim, Fails

LEMMA StepKinds ==
  ASSUME NEW r, Start(r) \/ Step(r) \/ Fails(r)
  PROVE  \/ Refusals(r) \/ Moves(r) \/ Creations(r)
         \/ CommitUpdate(r) \/ CommitDelete(r) \/ CommitLogin(r)
  BY DEF Step, Refusals, Moves, Creations, GuardPasses

\* What a step that moves a request or refuses it leaves alone.
LEMMA RowsUntouched ==
  ASSUME NEW r \in Requests, Refusals(r) \/ Moves(r)
  PROVE  UNCHANGED <<email, used, active, admin, linked, session, founders>>
PROOF
<1>1. CASE Refusals(r)
  BY <1>1, RefusalsRefuse DEF Refused, rowVars, userVars
<1>2. CASE Start(r)
  BY <1>2 DEF Start, BeginAdmin, BeginFirst, BeginLogin, Begin, To, rowVars, userVars, historyVars
<1>3. CASE LoadUpdate(r) \/ LoadDelete(r) \/ LoadCreate(r)
  BY <1>3 DEF LoadUpdate, LoadDelete, LoadCreate, To, rowVars, userVars, historyVars
<1>4. CASE Match(r) \/ MatchAddress(r) \/ Provision(r)
  BY <1>4 DEF Match, MatchAddress, Finishes, Provision, To, rowVars, userVars, historyVars
<1>5. CASE LockCreation(r) \/ CountUsers(r) \/ FirstLogin(r) \/ GuardPasses(r) \/ MapGroup(r)
  BY <1>5 DEF LockCreation, CountUsers, FirstLogin, GuardPasses, GuardLastAdmin, MapGroup, To,
              rowVars, userVars, historyVars
<1> QED
  BY <1>1, <1>2, <1>3, <1>4, <1>5 DEF Moves

LEMMA NextInv == AccountsInv /\ [Next]_vars => AccountsInv'
PROOF
<1> SUFFICES ASSUME AccountsInv, [Next]_vars PROVE AccountsInv'
  OBVIOUS
<1>1. ASSUME NEW r \in Requests, Start(r) \/ Step(r) \/ Fails(r)
      PROVE  AccountsInv'
  <2>1. CASE Refusals(r)
    BY <2>1, RefusalsRefuse, RefusedStep
  <2>2. CASE Moves(r)
    BY <2>2, StartStep, LoadStep, CreationStep, FinishStep, ProvisionStep, GuardStep DEF Moves
  <2>3. CASE Creations(r)
    BY <2>3, NewAccountStep DEF Creations
  <2>4. CASE CommitUpdate(r) \/ CommitDelete(r) \/ CommitLogin(r)
    BY <2>4, UpdateStep, DeleteStep, LoginStep
  <2> QED
    BY <1>1, <2>1, <2>2, <2>3, <2>4, StepKinds
<1>2. ASSUME NEW u \in Accounts, LocalLogin(u)
      PROVE  AccountsInv'
  BY <1>2, LocalLoginStep
<1>3. CASE UNCHANGED vars
  <2>1. UNCHANGED <<email, used, active, admin, linked, session, creator, pc, call, founders, disturbed>>
    BY <1>3 DEF vars, rowVars, userVars, historyVars
  <2>2. TypeOK' /\ OneFounder' /\ FirstLoginIsAlone'
    BY <2>1 DEF AccountsInv, TypeOK, OneFounder, FirstLoginIsAlone, Present, Provisions, Linked
  <2>3. CallShape' /\ CallerKept' /\ CreatorHolds'
    BY <2>1 DEF AccountsInv, CallShape, CallerKept, CreatorHolds, Provisions
  <2>4. LoginIdentified' /\ UndisturbedHolds'
    BY <2>1 DEF AccountsInv, LoginIdentified, UndisturbedHolds, Linked, Present, ActiveAdmins
  <2> QED
    BY <2>1, <2>2, <2>3, <2>4 DEF AccountsInv, Present
<1> QED
  BY <1>1, <1>2, <1>3 DEF Next

\* Whatever requests run at the same time: a request that has loaded what it is
\* about keeps the session it came by, an account is made with nobody in
\* between, a login's account is the identity's, and while nothing else commits
\* the caller of _guard_last_admin is an administrator.
THEOREM AccountsInvariant == Spec => []AccountsInv
PROOF
<1> QED
  BY InitInv, NextInv, PTL DEF Spec

\* The registration and the bootstrap of the first administrator, which lock
\* the table of users before they count it, make one account at most.
THEOREM FirstAccountIsOnce == Spec => []OneFounder
PROOF
<1>1. AccountsInv => OneFounder
  BY DEF AccountsInv
<1> QED
  BY <1>1, AccountsInvariant, PTL

\* A first login of OIDC that is to make an account finds neither its address
\* nor its identity taken when it commits.
THEOREM FirstLoginUndisturbed == Spec => []FirstLoginIsAlone
PROOF
<1>1. AccountsInv => FirstLoginIsAlone
  BY DEF AccountsInv
<1> QED
  BY <1>1, AccountsInvariant, PTL

----------------------------------------------------------------------------
(* What a step does to accounts.                                           *)

\* Accounts are made by creations, removed by deletions, and never change
\* their address.
LEMMA EmailStep ==
  ASSUME AccountsInv, [Next]_vars
  PROVE  \/ UNCHANGED email
         \/ \E r \in Requests : CommitDelete(r)
         \/ \E r \in Requests, u \in Fresh, a \in Emails :
              /\ Creations(r) /\ email' = [email EXCEPT ![u] = a]
              /\ \A v \in Present : email[v] # a
PROOF
<1>1. ASSUME NEW r \in Requests, Start(r) \/ Step(r) \/ Fails(r)
      PROVE  \/ UNCHANGED email
             \/ CommitDelete(r)
             \/ \E u \in Fresh, a \in Emails :
                  /\ Creations(r) /\ email' = [email EXCEPT ![u] = a]
                  /\ \A v \in Present : email[v] # a
  <2>1. CASE Refusals(r) \/ Moves(r)
    BY <2>1, RowsUntouched
  <2>2. CASE CommitUpdate(r) \/ CommitLogin(r)
    BY <2>2 DEF CommitUpdate, CommitLogin
  <2>3. CASE Creations(r)
    <3>1. Shaped(pc[r], call[r]) /\ Alone(pc[r], call[r])
      BY Now
    <3>2. CASE CommitCreate(r)
      BY <2>3, <3>1, <3>2 DEF CommitCreate, Creates, Taken, Shaped
    <3>3. CASE CommitFirst(r)
      BY <2>3, <3>1, <3>3 DEF CommitFirst, Creates, Alone, First
    <3>4. CASE CommitProvision(r)
      BY <2>3, <3>1, <3>4 DEF CommitProvision, Creates, Conflict, Taken, Shaped, Provisioning
    <3> QED
      BY <2>3, <3>2, <3>3, <3>4 DEF Creations
  <2> QED
    BY <1>1, <2>1, <2>2, <2>3, StepKinds
<1>2. CASE \E u \in Accounts : LocalLogin(u)
  BY <1>2 DEF LocalLogin, userVars
<1>3. CASE UNCHANGED vars
  BY <1>3 DEF vars, rowVars, userVars
<1> QED
  BY <1>1, <1>2, <1>3 DEF Next

\* An instance that has an account always keeps one: the account that asks for
\* a deletion cannot be deleted until its request ends.
THEOREM InstanceKeepsAccount == Spec => NeverEmptied
PROOF
<1>1. ASSUME AccountsInv, [Next]_vars
      PROVE  Present # {} => Present' # {}
  <2>1. CASE UNCHANGED email
    BY <2>1 DEF Present
  <2>2. CASE \E r \in Requests : CommitDelete(r)
    BY <1>1, <2>2, DeleteStep
  <2>3. ASSUME NEW u \in Fresh, NEW a \in Emails, email' = [email EXCEPT ![u] = a]
        PROVE  Present' # {}
    <3>1. email \in [Accounts -> Emails \cup {None}]
      BY <1>1 DEF AccountsInv, TypeOK
    <3> QED
      BY <2>3, <3>1, AccountsAssumption DEF Present, Fresh
  <2> QED
    BY <1>1, <2>1, <2>2, <2>3, EmailStep
<1>2. AccountsInv /\ [Next]_vars => [Present # {} => Present' # {}]_vars
  BY <1>1
<1> QED
  BY <1>2, AccountsInvariant, PTL DEF Spec, NeverEmptied

\* No two accounts have the same address, whether an administrator, the
\* registration, the bootstrap or a login made them.
THEOREM NoAddressTwice == Spec => []AddressesDiffer
PROOF
<1>1. Init => AddressesDiffer
  BY DEF Init, AddressesDiffer, Present
<1>2. ASSUME AccountsInv, AddressesDiffer, [Next]_vars
      PROVE  AddressesDiffer'
  <2>1. email \in [Accounts -> Emails \cup {None}] /\ Present \subseteq used
    BY <1>2 DEF AccountsInv, TypeOK
  <2>2. CASE UNCHANGED email
    BY <1>2, <2>2 DEF AddressesDiffer, Present
  <2>3. ASSUME NEW r \in Requests, CommitDelete(r)
        PROVE  AddressesDiffer'
    <3>1. email' = [email EXCEPT ![call[r].target] = None]
      BY <2>3 DEF CommitDelete
    <3> QED
      BY <1>2, <2>1, <3>1 DEF AddressesDiffer, Present
  <2>4. ASSUME NEW u \in Fresh, NEW a \in Emails, email' = [email EXCEPT ![u] = a],
               \A v \in Present : email[v] # a
        PROVE  AddressesDiffer'
    BY <1>2, <2>1, <2>4 DEF AddressesDiffer, Present, Fresh
  <2> QED
    BY <1>2, <2>2, <2>3, <2>4, EmailStep
<1> QED
  BY <1>1, <1>2, AccountsInvariant, PTL DEF Spec

\* A request during which no other commits leaves an active administrator: its
\* caller, or the one the guard found.
LEMMA AdminStep ==
  ASSUME AccountsInv, [Next]_vars, ActiveAdmins # {}, ActiveAdmins' = {}
  PROVE  \E r \in disturbed : pc[r] = "decided" /\ pc'[r] = "idle"
PROOF
<1> SUFFICES ASSUME \A r \in disturbed : ~(pc[r] = "decided" /\ pc'[r] = "idle") PROVE FALSE
  OBVIOUS
<1>1. ASSUME NEW r \in Requests, CommitUpdate(r) \/ CommitDelete(r) \/ CommitLogin(r)
      PROVE  FALSE
  <2>1. pc[r] = "decided" /\ pc'[r] = "idle"
    BY <1>1, Now DEF CommitUpdate, CommitDelete, CommitLogin, Committed, Ends, TypeRequests
  <2>2. /\ Shaped(pc[r], call[r]) /\ Steady(pc[r], call[r])
    BY <2>1, Now
  <2>3. CASE CommitUpdate(r) \/ CommitDelete(r)
    <3>1. call[r].actor \in ActiveAdmins /\ call[r].actor # call[r].target
      BY <2>1, <2>2, <2>3, AccountsAssumption DEF Shaped, Steady, CommitUpdate, CommitDelete, First
    <3>2. \A S \in {active, admin} : call[r].actor \in S
      BY <3>1 DEF ActiveAdmins
    <3>3. call[r].actor \in active' /\ call[r].actor \in admin'
      BY <2>3, <3>1, <3>2 DEF CommitUpdate, CommitDelete, Written
    <3> QED
      BY <3>3 DEF ActiveAdmins
  <2>4. CASE CommitLogin(r)
    <3>1. active' = active /\ call[r].target # None
      BY <2>4, AccountsAssumption DEF CommitLogin, Present
    <3>2. CASE call[r].admin = "no"
      <4>1. ActiveAdmins \ {call[r].target} # {} /\ admin' = admin \ {call[r].target}
        BY <2>1, <2>2, <2>4, <3>1, <3>2 DEF Steady, CommitLogin, Written
      <4> QED
        BY <3>1, <4>1 DEF ActiveAdmins
    <3>3. CASE call[r].admin # "no"
      BY <2>4, <3>1, <3>3 DEF CommitLogin, Written, ActiveAdmins
    <3> QED
      BY <3>2, <3>3
  <2> QED
    BY <1>1, <2>3, <2>4
<1>2. ASSUME NEW r \in Requests, Creations(r)
      PROVE  FALSE
  BY <1>2 DEF Creations, CommitCreate, CommitFirst, CommitProvision, Creates, ActiveAdmins
<1>3. ASSUME NEW r \in Requests, Refusals(r) \/ Moves(r)
      PROVE  FALSE
  BY <1>3, RowsUntouched DEF ActiveAdmins
<1>4. CASE \E u \in Accounts : LocalLogin(u)
  BY <1>4 DEF LocalLogin, userVars, ActiveAdmins
<1>5. CASE UNCHANGED vars
  BY <1>5 DEF vars, rowVars, userVars, ActiveAdmins
<1> QED
  BY <1>1, <1>2, <1>3, <1>4, <1>5, StepKinds DEF Next

\* Of the documented rule about the last active administrator: it is broken
\* only by the commit of a request during which another one committed.
THEOREM LastAdminLostInRace == Spec => LastAdminOnlyInRace
PROOF
<1>1. AccountsInv /\ [Next]_vars
        => [ActiveAdmins # {} /\ ActiveAdmins' = {}
              => \E r \in disturbed : pc[r] = "decided" /\ pc'[r] = "idle"]_vars
  BY AdminStep
<1> QED
  BY <1>1, AccountsInvariant, PTL DEF Spec, LastAdminOnlyInRace

\* The rule itself holds where requests come one at a time: from the first
\* account on there is an active administrator.
THEOREM LastAdminKeptAlone ==
  ASSUME \A p, q \in Requests : p = q
  PROVE  Spec => []AdminRemains
PROOF
<1> DEFINE Quiet == AdminRemains /\ disturbed = {}
<1>1. Init => Quiet
  BY DEF Init, AdminRemains
<1>2. ASSUME AccountsInv, Quiet, [Next]_vars
      PROVE  Quiet'
  <2>1. ASSUME NEW r \in Requests, Committed(r) \/ Refused(r)
        PROVE  disturbed' = {}
    BY <1>2, <2>1 DEF Committed, Refused
  <2>2. ASSUME NEW r \in Requests, Moves(r)
        PROVE  disturbed' = {}
    <3>1. CASE Start(r)
      BY <1>2, <3>1 DEF Start, BeginAdmin, BeginFirst, BeginLogin, Begin, To, historyVars
    <3>2. CASE LoadUpdate(r) \/ LoadDelete(r) \/ LoadCreate(r)
      BY <1>2, <3>2 DEF LoadUpdate, LoadDelete, LoadCreate, To, historyVars
    <3>3. CASE Match(r) \/ MatchAddress(r) \/ Provision(r)
      BY <1>2, <3>3 DEF Match, MatchAddress, Finishes, Provision, To, historyVars
    <3>4. CASE LockCreation(r) \/ CountUsers(r) \/ FirstLogin(r) \/ GuardPasses(r) \/ MapGroup(r)
      BY <1>2, <3>4 DEF LockCreation, CountUsers, FirstLogin, GuardPasses, GuardLastAdmin,
                        MapGroup, To, historyVars
    <3> QED
      BY <2>2, <3>1, <3>2, <3>3, <3>4 DEF Moves
  <2>3. ASSUME NEW r \in Requests, Start(r) \/ Step(r) \/ Fails(r)
        PROVE  disturbed' = {} /\ (founders' = founders \/ ActiveAdmins' # {})
    <3>1. CASE Refusals(r)
      BY <2>1, <3>1, RowsUntouched, RefusalsRefuse
    <3>2. CASE Moves(r)
      BY <2>2, <3>2, RowsUntouched
    <3>3. CASE CommitUpdate(r) \/ CommitDelete(r) \/ CommitLogin(r) \/ CommitCreate(r) \/ CommitProvision(r)
      BY <2>1, <3>3 DEF CommitUpdate, CommitDelete, CommitLogin, CommitCreate, CommitProvision
    <3>4. CASE CommitFirst(r)
      BY <2>1, <3>4 DEF CommitFirst, Creates, ActiveAdmins
    <3> QED
      BY <2>3, <3>1, <3>2, <3>3, <3>4, StepKinds DEF Creations
  <2>4. disturbed' = {} /\ (founders' = founders \/ ActiveAdmins' # {})
    <3>1. CASE \E u \in Accounts : LocalLogin(u)
      BY <1>2, <3>1 DEF LocalLogin, historyVars
    <3>2. CASE UNCHANGED vars
      BY <1>2, <3>2 DEF vars, historyVars
    <3> QED
      BY <1>2, <2>3, <3>1, <3>2 DEF Next
  <2>5. ActiveAdmins # {} => ActiveAdmins' # {}
    BY <1>2, AdminStep
  <2> QED
    BY <1>2, <2>4, <2>5 DEF AdminRemains
<1>3. Quiet => AdminRemains
  OBVIOUS
<1> HIDE DEF Quiet
<1> QED
  BY <1>1, <1>2, <1>3, AccountsInvariant, PTL DEF Spec
=============================================================================
