------------------------------ MODULE Accounts ------------------------------
(***************************************************************************)
(* User accounts and who administers them: the first account              *)
(* (backend/app/auth/services.py), accounts made, changed and removed by    *)
(* administrators (backend/app/users), and accounts made, linked and        *)
(* promoted or demoted by a login with OIDC (backend/app/auth/oidc.py).     *)
(*                                                                         *)
(* A request is a transaction under READ COMMITTED that reads rows, decides *)
(* and commits. What it has read may be outdated when it decides, and what  *)
(* it decided on may be outdated when it commits. Row locks are kept where  *)
(* they order requests: the row of the session a request came by, and the   *)
(* table lock of those who create accounts (`creator`).                    *)
(***************************************************************************)
EXTENDS FiniteSets

CONSTANTS
  Accounts,       \* ids of accounts; an id is given once
  Emails,
  Subjects,       \* who the OIDC provider says somebody is
  Sessions,       \* rows of browser sessions
  Requests,       \* requests under way at once
  None,
  OidcEnabled,    \* settings.oidc_enabled
  AutoProvision,  \* settings.oidc_auto_provision
  GroupMapping    \* settings.oidc_admin_group is set

ASSUME AccountsAssumption ==
  /\ None \notin Accounts \cup Emails \cup Subjects \cup Sessions \cup Requests
  /\ OidcEnabled \in BOOLEAN /\ AutoProvision \in BOOLEAN /\ GroupMapping \in BOOLEAN

VARIABLES
  \* the database
  email,      \* User.email, None for an id without a row
  used,       \* ids that were given
  active,     \* User.is_active
  admin,      \* User.permissions has system.admin
  linked,     \* the account of an AuthenticationIdentity
  session,    \* the account of a BrowserSession
  creator,    \* the request that holds LOCK TABLE users
  \* the requests
  pc,         \* how far a request has come
  call,       \* what it asks for, and whom it has loaded
  \* for the properties
  founders,   \* accounts made by the registration or the bootstrap
  disturbed   \* requests during which another request committed

userVars == <<email, used, active, admin>>
rowVars == <<userVars, linked, session>>
historyVars == <<founders, disturbed>>
vars == <<rowVars, creator, pc, call, historyVars>>

Present == {u \in Accounts : email[u] # None}
ActiveAdmins == active \cap admin
Fresh == Accounts \ used

\* What a request does to a flag: nothing, set it, clear it, or nothing since
\* the guard of the last administrator had it skipped.
Want == {"keep", "yes", "no", "skip"}
NoCall == [op |-> "none", via |-> None, actor |-> None, target |-> None,
           address |-> None, subject |-> None, admin |-> "keep", active |-> "keep"]

Init ==
  /\ email   = [u \in Accounts |-> None]
  /\ used    = {} /\ active = {} /\ admin = {}
  /\ linked  = [i \in Subjects |-> None]
  /\ session = [s \in Sessions |-> None]
  /\ creator = None
  /\ pc      = [r \in Requests |-> "idle"]
  /\ call    = [r \in Requests |-> NoCall]
  /\ founders = {} /\ disturbed = {}

----------------------------------------------------------------------------
(* The life of a request. What it asks for is chosen where it is first used. *)

To(r, stage, c) ==
  /\ pc'   = [pc EXCEPT ![r] = stage]
  /\ call' = [call EXCEPT ![r] = c]
  /\ UNCHANGED <<rowVars, historyVars>>

Begin(r, stage, c) == pc[r] = "idle" /\ To(r, stage, c) /\ UNCHANGED creator

Released(r) == IF creator = r THEN None ELSE creator

\* The end of a request gives back its locks and its memory.
Ends(r) ==
  /\ pc'   = [pc EXCEPT ![r] = "idle"]
  /\ call' = [call EXCEPT ![r] = NoCall]
  /\ creator' = Released(r)

Refused(r) ==
  /\ Ends(r)
  /\ disturbed' = disturbed \ {r}
  /\ UNCHANGED <<rowVars, founders>>

Committed(r) ==
  /\ Ends(r)
  /\ disturbed' = (disturbed \cup {q \in Requests : pc[q] # "idle"}) \ {r}

\* Rows of users can be written while nobody else holds the table lock.
AnyTime(r)   == TRUE   \* mutant: creations are not serialized
UsersFree(r) == creator \in {None, r}

\* The accounts that cannot be deleted under a request: it has updated a row
\* that goes with them, its session's last_seen_at or its identity's
\* last_used_at, and not yet committed.
Pins(r, u) ==
  \/ pc[r] \in {"loaded", "decided"} /\ call[r].actor = u
  \/ /\ pc[r] = "decided" /\ call[r].op = "login"
     /\ call[r].target = u /\ call[r].admin \in {"no", "skip"}

\* A browser may or may not keep the session it is given: one it never uses
\* again is as good as none.
NewSession(u) ==
  session' \in {session} \cup
    {[session EXCEPT ![s] = u] : s \in {t \in Sessions : session[t] = None}}

\* A column is written when its value differs from the one that was loaded.
Change(want, value) ==
  IF want = (IF value THEN "no" ELSE "yes") THEN want ELSE "keep"
Written(set, u, want) ==
  CASE want = "yes" -> set \cup {u} [] want = "no" -> set \ {u} [] OTHER -> set

\* _other_active_admin_exists. The caller's row is in the session's identity
\* map, so the query returns the caller as it was when it was authorized.
AnyAccount(r) == Present \ {call[r].target} # {}   \* mutant: a suspended account or a driver will do
OtherActiveAdmin(r) ==
  \E u \in Present \ {call[r].target} : u = call[r].actor \/ u \in ActiveAdmins

----------------------------------------------------------------------------
(* Requests of administrators.                                             *)

\* current_user and require_admin_write
BeginAdmin(r) ==
  \E s \in Sessions :
    /\ session[s] \in ActiveAdmins
    /\ Begin(r, "authorized", [NoCall EXCEPT !.op = "admin", !.via = s, !.actor = session[s]])

\* The first query flushes last_seen_at: it waits for another request of the
\* session, and fails if the session has gone with its account.
SessionFree(r) ==
  \A q \in Requests \ {r} : pc[q] \in {"loaded", "decided"} => call[q].via # call[r].via
SessionKept(r) == session[call[r].via] = call[r].actor
Ready(r) == pc[r] = "authorized" /\ SessionFree(r) /\ SessionKept(r)

\* _owned and set_admin, set_active as far as _guard_last_admin. A request
\* about the caller's own account is refused or changes nothing.
LoadUpdate(r) ==
  \E u \in Present \ {call[r].actor}, w, v \in {"keep", "yes", "no"} :
    LET a == Change(w, u \in admin)
        b == Change(v, u \in active)
        staysAdmin == IF u \in admin THEN a # "no" ELSE a = "yes"
        guarded == a = "no" \/ (b = "no" /\ staysAdmin)
    IN /\ Ready(r)
       /\ a # "keep" \/ b # "keep"
       /\ To(r, IF guarded THEN "loaded" ELSE "decided",
             [call[r] EXCEPT !.op = "update", !.target = u, !.admin = a, !.active = b])
       /\ UNCHANGED creator

\* _owned and delete_user as far as _guard_last_admin
LoadDelete(r) ==
  \E u \in Present \ {call[r].actor} :
    /\ Ready(r)
    /\ To(r, IF u \in admin THEN "loaded" ELSE "decided",
          [call[r] EXCEPT !.op = "delete", !.target = u])
    /\ UNCHANGED creator

\* The search for the address in create_local_user
LoadCreate(r) ==
  \E a \in Emails, w \in {"yes", "no"} :
    /\ Ready(r)
    /\ \A u \in Present : email[u] # a
    /\ To(r, "decided", [call[r] EXCEPT !.op = "create", !.address = a, !.admin = w])
    /\ UNCHANGED creator

\* 404, 400, 422, or a session that is gone
LoadRefused(r) == pc[r] = "authorized" /\ SessionFree(r) /\ Refused(r)

\* _guard_last_admin in set_admin, set_active and delete_user. Of a request about
\* another account it lets every one pass: the caller itself is found.
GuardLastAdmin(r) ==
  /\ pc[r] = "loaded" /\ call[r].op \in {"update", "delete"}
  /\ IF OtherActiveAdmin(r) THEN To(r, "decided", call[r]) /\ UNCHANGED creator ELSE Refused(r)

CommitUpdate(r) ==
  LET u == call[r].target IN
  /\ pc[r] = "decided" /\ call[r].op = "update"
  /\ UsersFree(r) /\ u \in Present
  /\ admin'  = Written(admin, u, call[r].admin)
  /\ active' = Written(active, u, call[r].active)
  /\ Committed(r)
  /\ UNCHANGED <<email, used, linked, session, founders>>

\* The UPDATE matches no row.
UpdateFails(r) ==
  /\ pc[r] = "decided" /\ call[r].op = "update"
  /\ UsersFree(r) /\ call[r].target \notin Present
  /\ Refused(r)

\* db.delete and the rows that go with it; the cascade waits for the sessions
\* and identities other requests have updated.
NeverWaits(r)  == TRUE   \* mutant: a deletion does not wait for the rows it takes along
CascadeFree(r) == \A q \in Requests \ {r} : ~Pins(q, call[r].target)

Without(u, of) == [x \in DOMAIN of |-> IF of[x] = u THEN None ELSE of[x]]

\* A second DELETE of an account matches no row, and is no error.
CommitDelete(r) ==
  LET u == call[r].target IN
  /\ pc[r] = "decided" /\ call[r].op = "delete"
  /\ UsersFree(r) /\ CascadeFree(r)
  /\ email'   = [email EXCEPT ![u] = None]
  /\ active'  = active \ {u}
  /\ admin'   = admin \ {u}
  /\ linked'  = Without(u, linked)
  /\ session' = Without(u, session)
  /\ Committed(r)
  /\ UNCHANGED <<used, founders>>

\* The row of a new account; the caller has made sure of UsersFree.
Creates(u, address, isAdmin) ==
  /\ email'  = [email EXCEPT ![u] = address]
  /\ used'   = used \cup {u}
  /\ active' = active \cup {u}
  /\ admin'  = IF isAdmin THEN admin \cup {u} ELSE admin

\* The unique index on User.email; the ids of the model may run out.
Taken(r) == Fresh = {} \/ \E u \in Present : email[u] = call[r].address

CommitCreate(r) ==
  /\ pc[r] = "decided" /\ call[r].op = "create"
  /\ UsersFree(r) /\ ~Taken(r)
  /\ \E u \in Fresh : Creates(u, call[r].address, call[r].admin = "yes")
  /\ Committed(r)
  /\ UNCHANGED <<linked, session, founders>>

CreateFails(r) ==
  /\ pc[r] = "decided" /\ call[r].op = "create"
  /\ UsersFree(r) /\ Taken(r)
  /\ Refused(r)

----------------------------------------------------------------------------
(* The first account.                                                      *)

BeginFirst(r) ==
  \E op \in {"register", "bootstrap"} : Begin(r, "locking", [NoCall EXCEPT !.op = op])

NotLocked == TRUE   \* mutant: LOCK TABLE users is not taken
TableFree == creator = None

\* _lock_user_creation
LockCreation(r) ==
  /\ pc[r] = "locking" /\ TableFree
  /\ To(r, "locked", call[r])
  /\ creator' = r

\* registration_is_open, and the count of bootstrap_local_admin
RegistrationOpen(r) == Present = {} /\ (call[r].op = "register" => ~OidcEnabled)

CountUsers(r) ==
  /\ pc[r] = "locked" /\ call[r].op \in {"register", "bootstrap"}
  /\ RegistrationOpen(r)
  /\ To(r, "decided", call[r])
  /\ UNCHANGED creator

RegistrationClosed(r) ==
  /\ pc[r] = "locked" /\ call[r].op \in {"register", "bootstrap"}
  /\ ~RegistrationOpen(r)
  /\ Refused(r)

CommitFirst(r) ==
  /\ pc[r] = "decided" /\ call[r].op \in {"register", "bootstrap"}
  /\ \E u \in Fresh, a \in Emails :
       /\ Creates(u, a, TRUE)
       /\ founders' = founders \cup {u}
       /\ IF call[r].op = "register" THEN NewSession(u) ELSE UNCHANGED session
  /\ Committed(r)
  /\ UNCHANGED linked

----------------------------------------------------------------------------
(* Logins.                                                                 *)

\* login, with a password: it changes no account.
LocalLogin(u) ==
  /\ u \in active
  /\ NewSession(u)
  /\ UNCHANGED <<userVars, linked, creator, pc, call, historyVars>>

\* The ID token says who it is; the address has to be verified before anything
\* is looked up by it.
BeginLogin(r) ==
  \E i \in Subjects :
    /\ OidcEnabled
    /\ Begin(r, "claims", [NoCall EXCEPT !.op = "login", !.subject = i])

Linked(r)  == linked[call[r].subject]
Desired    == IF GroupMapping THEN {"yes", "no"} ELSE {"keep"}

\* _finish_login up to _guard_last_admin
Finishes(r, u) ==
  \E w \in Desired :
    LET a == Change(w, u \in admin) IN
    To(r, IF a = "no" THEN "loaded" ELSE "decided",
       [call[r] EXCEPT !.target = u, !.admin = a])

\* _identity_user, before the creation lock and again after it
Match(r) ==
  /\ pc[r] \in {"claims", "locked"} /\ call[r].op = "login"
  /\ Linked(r) \in active
  /\ Finishes(r, Linked(r))
  /\ UNCHANGED creator

FirstLogin(r) ==
  /\ pc[r] = "claims" /\ Linked(r) = None
  /\ To(r, "locking", call[r])
  /\ UNCHANGED creator

\* The account with the address of the claims gets the identity.
MatchAddress(r) ==
  /\ pc[r] = "locked" /\ call[r].op = "login" /\ Linked(r) = None
  /\ \E u \in active : Finishes(r, u)
  /\ UNCHANGED creator

\* Nobody has the address.
Provision(r) ==
  /\ pc[r] = "locked" /\ call[r].op = "login" /\ Linked(r) = None
  /\ AutoProvision
  /\ \E a \in Emails, w \in Desired :
       /\ \A u \in Present : email[u] # a
       /\ To(r, "decided", [call[r] EXCEPT !.address = a, !.admin = w])
  /\ UNCHANGED creator

\* The token or the address is not valid, the account is suspended, or nobody
\* has the address and no account is made for it.
LoginRefused(r) ==
  /\ pc[r] \in {"claims", "locked"} /\ call[r].op = "login"
  /\ Refused(r)

\* _map_admin_group: the demotion of the last active administrator is skipped.
MapGroup(r) ==
  /\ pc[r] = "loaded" /\ call[r].op = "login"
  /\ call[r].target \in Present
  /\ To(r, "decided", IF OtherActiveAdmin(r) THEN call[r] ELSE [call[r] EXCEPT !.admin = "skip"])
  /\ UNCHANGED creator

\* _establish_session
CommitLogin(r) ==
  LET u == call[r].target IN
  /\ pc[r] = "decided" /\ call[r].op = "login" /\ u \in Present
  /\ call[r].admin \in {"yes", "no"} => UsersFree(r)
  /\ admin'  = Written(admin, u, call[r].admin)
  /\ linked' = [linked EXCEPT ![call[r].subject] = u]
  /\ NewSession(u)
  /\ Committed(r)
  /\ UNCHANGED <<email, used, active, founders>>

\* The identity that was loaded went with its account.
LoginGone(r) ==
  /\ pc[r] \in {"loaded", "decided"} /\ call[r].op = "login"
  /\ call[r].target \notin Present \cup {None}
  /\ Refused(r)

\* The unique indexes on User.email and on the provider's subject.
Conflict(r) == Taken(r) \/ Linked(r) # None

CommitProvision(r) ==
  /\ pc[r] = "decided" /\ call[r].op = "login" /\ call[r].target = None
  /\ ~Conflict(r)
  /\ \E u \in Fresh :
       /\ Creates(u, call[r].address, call[r].admin = "yes")
       /\ linked' = [linked EXCEPT ![call[r].subject] = u]
       /\ NewSession(u)
  /\ Committed(r)
  /\ UNCHANGED founders

ProvisionFails(r) ==
  /\ pc[r] = "decided" /\ call[r].op = "login" /\ call[r].target = None
  /\ Conflict(r)
  /\ Refused(r)

----------------------------------------------------------------------------
(* What can happen to any request.                                         *)

\* Administrators who delete one another: each deletion waits for the session
\* the other came by, and PostgreSQL aborts one of them.
InCycle(r) ==
  \E S \in SUBSET Requests :
    /\ r \in S
    /\ \A x \in S : pc[x] = "decided" /\ call[x].op = "delete"
    /\ \A x \in S : \E y \in S \ {x} : Pins(y, call[x].target)
    /\ \A x \in S : \E y \in S \ {x} : Pins(x, call[y].target)

DeadlockVictim(r) == InCycle(r) /\ Refused(r)

\* The process, the connection or a check that has nothing to do with
\* administration fails; the transaction is rolled back.
Fails(r) == pc[r] # "idle" /\ Refused(r)

Start(r) == BeginAdmin(r) \/ BeginFirst(r) \/ BeginLogin(r)

Step(r) ==
  \/ LoadUpdate(r) \/ LoadDelete(r) \/ LoadCreate(r) \/ LoadRefused(r)
  \/ GuardLastAdmin(r)
  \/ CommitUpdate(r) \/ UpdateFails(r) \/ CommitDelete(r) \/ CommitCreate(r) \/ CreateFails(r)
  \/ LockCreation(r) \/ CountUsers(r) \/ RegistrationClosed(r) \/ CommitFirst(r)
  \/ Match(r) \/ FirstLogin(r) \/ MatchAddress(r) \/ Provision(r) \/ LoginRefused(r)
  \/ MapGroup(r) \/ CommitLogin(r) \/ LoginGone(r) \/ CommitProvision(r) \/ ProvisionFails(r)
  \/ DeadlockVictim(r)

Next ==
  \/ \E r \in Requests : Start(r) \/ Step(r) \/ Fails(r)
  \/ \E u \in Accounts : LocalLogin(u)

Spec == Init /\ [][Next]_vars

----------------------------------------------------------------------------
(* Properties.                                                             *)

Ops == {"none", "admin", "update", "delete", "create", "register", "bootstrap", "login"}
Calls == [op : Ops, via : Sessions \cup {None}, actor : Accounts \cup {None},
          target : Accounts \cup {None}, address : Emails \cup {None},
          subject : Subjects \cup {None}, admin : Want, active : Want]
Stages == {"idle", "authorized", "claims", "locking", "locked", "loaded", "decided"}

\* Accounts, identities and sessions have their types, and everything that
\* refers to an account refers to one that exists (the foreign keys cascade).
TypeOK ==
  /\ email \in [Accounts -> Emails \cup {None}]
  /\ used \subseteq Accounts /\ Present \subseteq used
  /\ active \subseteq Present /\ admin \subseteq Present /\ founders \subseteq used
  /\ linked \in [Subjects -> Present \cup {None}]
  /\ session \in [Sessions -> Present \cup {None}]
  /\ creator \in Requests \cup {None}
  /\ pc \in [Requests -> Stages]
  /\ call \in [Requests -> Calls]
  /\ disturbed \subseteq Requests

\* The first account is made once, whatever registrations, bootstraps and
\* logins run at the same time, and however many accounts are removed later.
OneFounder == \A u, v \in founders : u = v

\* Two accounts never have the same address, whether an administrator makes
\* them, a registration or a login.
AddressesDiffer == \A u, v \in Present : email[u] = email[v] => u = v

First == {"register", "bootstrap"}
Provisions(r) == pc[r] = "decided" /\ call[r].op = "login" /\ call[r].target = None

\* A first login that is to make an account finds neither its address nor its
\* identity taken: nobody gets in between its check and its commit.
FirstLoginIsAlone ==
  \A r \in Requests :
    Provisions(r) => Linked(r) = None /\ \A u \in Present : email[u] # call[r].address

\* The steps of a request come in order, with what they need.
CallShape ==
  \A r \in Requests :
    /\ pc[r] = "authorized" => call[r].op = "admin" /\ call[r].actor \in Accounts
    /\ pc[r] \in {"claims", "locking", "locked"} =>
         /\ call[r].op \in First \cup {"login"} /\ call[r].actor = None /\ call[r].target = None
    /\ pc[r] \in {"loaded", "decided"} =>
         \/ /\ call[r].op \in {"update", "delete"} /\ call[r].actor \in Accounts
            /\ call[r].target \in Accounts \ {call[r].actor}
         \/ call[r].op = "create" /\ call[r].actor \in Accounts
         \/ call[r].op \in First \cup {"login"} /\ call[r].actor = None
    /\ call[r].op = "login" /\ pc[r] # "idle" => call[r].subject \in Subjects
    /\ pc[r] = "loaded" => call[r].target # None
    /\ pc[r] # "idle" /\ call[r].actor # None => call[r].via \in Sessions
    /\ Provisions(r) \/ (pc[r] = "decided" /\ call[r].op = "create") => call[r].address \in Emails

\* A request that has loaded what it is about is made by an account that
\* exists: its session cannot go before it ends.
CallerKept ==
  \A r \in Requests :
    pc[r] \in {"loaded", "decided"} /\ call[r].actor # None
      => session[call[r].via] = call[r].actor

\* What is decided under the creation lock is committed under it.
CreatorHolds ==
  \A r \in Requests :
    pc[r] = "locked" \/ (pc[r] = "decided" /\ call[r].op \in First) \/ Provisions(r)
      => creator = r

\* The account a login found has its identity, or is gone, or is about to get it
\* under the creation lock.
LoginIdentified ==
  \A r \in Requests :
    pc[r] \in {"loaded", "decided"} /\ call[r].op = "login" /\ call[r].target # None =>
      \/ Linked(r) = call[r].target
      \/ call[r].target \in used \ Present
      \/ Linked(r) = None /\ creator = r

\* While nothing else commits, a caller is an administrator, and a login that
\* demotes leaves one.
UndisturbedHolds ==
  \A r \in Requests \ disturbed :
    /\ pc[r] # "idle" /\ call[r].actor # None => call[r].actor \in ActiveAdmins
    /\ pc[r] = "decided" /\ call[r].op = "login" /\ call[r].admin = "no" /\ call[r].target # None
         => ActiveAdmins \ {call[r].target} # {}

\* The inductive invariant.
AccountsInv ==
  /\ TypeOK /\ CallShape /\ CallerKept /\ CreatorHolds /\ LoginIdentified
  /\ UndisturbedHolds /\ FirstLoginIsAlone
  /\ OneFounder
  /\ used # {} => Present # {}
  /\ \A r \in Requests : pc[r] = "decided" /\ call[r].op \in First => Present = {}

\* An instance that has an account always keeps one, although administrators
\* can delete everybody else, each other included, at once.
NeverEmptied == [][Present # {} => Present' # {}]_vars

\* The documented rule (docs/developers/auth.md:32): the last active
\* administrator of an instance is never demoted, suspended or deleted.
AdminRemains == founders # {} => ActiveAdmins # {}

\* What of that rule the code keeps: only a request during which another one
\* committed takes the last active administrator away.
LastAdminOnlyInRace ==
  [][ActiveAdmins # {} /\ ActiveAdmins' = {}
       => \E r \in disturbed : pc[r] = "decided" /\ pc'[r] = "idle"]_vars

\* Requests that wait for a session, for a deletion or for the right to create
\* accounts never all wait for one another.
NoStandstill ==
  (\E r \in Requests : pc[r] # "idle") => \E r \in Requests : ENABLED Step(r)
=============================================================================
