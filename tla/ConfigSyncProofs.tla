-------------------------- MODULE ConfigSyncProofs --------------------------
(***************************************************************************)
(* Theorems about ConfigSync for any number of operators, agents, profiles, *)
(* requests and faults.                                                    *)
(***************************************************************************)
EXTENDS ConfigSync, TLAPS

\* A step of the server gives every agent whose configuration it changes a newer
\* version.
Versioned ==
  \A a \in Agents : Config(a)' = Config(a) \/ version'[a] > version[a]

\* A request ends that rests on what has changed.
Overtakes == \E o \in Operators : Overtaken(o) /\ request'[o] = Idle

LEMMA InitInv == Init => SyncInv
<1> SUFFICES ASSUME Init PROVE SyncInv
  OBVIOUS
<1>1. \E c \in Cadences : TRUE
  BY ConfigAssumption
<1>2. \A a \in Agents : stored[a] = Config(a) /\ version[a] = 1 /\ cadence[a] \in Cadences
  BY <1>1 DEF Init
<1>3. \A a \in Agents : Config(a) = [version |-> 1, cadence |-> cadence[a],
                                     profile |-> NoProfile, content |-> 0]
  BY <1>2 DEF Config, Init, None
<1>4. SyncShape
  <2>1. /\ version \in [Agents -> Nat] /\ cadence \in [Agents -> Cadences]
        /\ assigned \in Profiles \cup {NoProfile} /\ content \in [Profiles -> Nat]
        /\ DOMAIN request = Operators /\ edits \in Nat
    BY <1>1 DEF Init
  <2>2. \A a \in Agents : Config(a) \in [version : Nat, cadence : Cadences,
                            profile : Profiles \cup {NoProfile}, content : Nat]
    <3> SUFFICES ASSUME NEW a \in Agents
                 PROVE  Config(a) \in [version : Nat, cadence : Cadences,
                                      profile : Profiles \cup {NoProfile}, content : Nat]
      OBVIOUS
    <3>1. cadence[a] \in Cadences
      BY <1>2
    <3>2. Config(a) = [version |-> 1, cadence |-> cadence[a],
                       profile |-> NoProfile, content |-> 0]
      BY <1>3
    <3> QED
      BY <3>1, <3>2
  <2>3. stored = [a \in Agents |-> Config(a)]
    BY DEF Init
  <2>4. reply = [a \in Agents |-> [x \in Programs |-> Config(a)]]
    BY DEF Init
  <2>5. stage \in [Agents -> [Programs ->
                 {"idle", "device", "vehicle", "fetched", "accepted"}]]
    BY DEF Init
  <2> QED
    BY <2>1, <2>2, <2>3, <2>4, <2>5 DEF SyncShape
<1>5. RequestShape
  BY DEF Init, RequestShape, Clears, Idle
<1>6. DownloadIsCurrent
  BY DEF Init, DownloadIsCurrent
<1>7. \A a \in Agents : stored[a].version <= version[a]
  <2> SUFFICES ASSUME NEW a \in Agents PROVE stored[a].version <= version[a]
    OBVIOUS
  <2>1. stored[a] = Config(a) /\ version[a] = 1
    BY <1>2
  <2>2. Config(a).version = 1
    BY <1>2 DEF Config
  <2> QED
    BY <2>1, <2>2
<1> QED
  BY <1>2, <1>4, <1>5, <1>6, <1>7 DEF SyncInv, StoredIsCurrent

----------------------------------------------------------------------------
(* Steps of the server.                                                    *)

\* What the agents have stays current when every change has a newer version.
LEMMA ServerKeeps ==
  ASSUME SyncInv, SyncShape', RequestShape', UNCHANGED agentVars,
         overtaken => overtaken', overtaken' \/ Versioned
  PROVE  SyncInv'
<1> SUFFICES ASSUME ~overtaken' PROVE DownloadIsCurrent' /\ StoredIsCurrent'
  BY DEF SyncInv
<1>0. SyncShape /\ DownloadIsCurrent /\ StoredIsCurrent /\ Versioned
  BY DEF SyncInv
<1>1. stored' = stored /\ stage' = stage /\ reply' = reply
  BY DEF agentVars
<1>2. ASSUME NEW a \in Agents
      PROVE  \/ /\ version'[a] = version[a] /\ cadence'[a] = cadence[a]
                /\ assigned' = assigned /\ Config(a)' = Config(a)
             \/ version'[a] > version[a]
  <2>1. CASE Config(a)' = Config(a)
    BY <2>1 DEF Config
  <2> QED
    BY <1>0, <2>1 DEF Versioned
<1>3. \A a \in Agents : version[a] \in Nat /\ version'[a] \in Nat /\ stored[a].version \in Nat
  BY <1>0 DEF SyncShape
<1>4. StoredIsCurrent'
  BY <1>0, <1>1, <1>2, <1>3 DEF StoredIsCurrent
<1>5. DownloadIsCurrent'
  <2> SUFFICES ASSUME NEW a \in Agents, NEW x \in Programs, stage[a][x] # "idle"
               PROVE  LET r == reply[a][x] IN
                      /\ r.version <= version'[a]
                      /\ r.version = version'[a] =>
                           /\ r.cadence = cadence'[a]
                           /\ stage[a][x] # "device" => r.profile = assigned'
                           /\ stage[a][x] \in {"fetched", "accepted"} => r = Config(a)'
    BY <1>1 DEF DownloadIsCurrent
  <2>1. reply[a][x].version \in Nat /\ reply[a][x].version <= version[a]
    BY <1>0 DEF SyncShape, DownloadIsCurrent
  <2> QED
    BY <1>0, <1>2, <1>3, <2>1 DEF DownloadIsCurrent
<1> QED
  BY <1>4, <1>5

\* A request that comes to another step leaves the rest as it is.
LEMMA StepKeeps ==
  ASSUME SyncInv, NEW o \in Operators, NEW r,
         request' = [request EXCEPT ![o] = r], edits' \in Nat,
         UNCHANGED <<serverVars, overtaken, agentVars>>,
         r.kind = "edit" => r.agent \in Agents /\ r.cadence \in Cadences /\ r.version \in Nat,
         r.kind = "assign" => r.profile \in Profiles \cup {NoProfile},
         r.kind \in {"update", "delete", "updating", "deleting", "cleared"} =>
           r.profile \in Profiles,
         r.kind \in {"update", "delete", "updating", "deleting"} =>
           r.content \in Nat /\ r.content # None,
         r.kind \in {"updating", "deleting", "cleared"} => r.hits \in BOOLEAN,
         r.kind = "cleared" => r.clears \in BOOLEAN,
         r.kind = "cleared" /\ r.clears => assigned = r.profile /\ VehicleFree(o)
  PROVE  SyncInv' /\ Versioned
<1>0. SyncShape /\ RequestShape
  BY DEF SyncInv
<1>1. /\ assigned' = assigned /\ DOMAIN request' = Operators /\ request'[o] = r
      /\ \A q \in Operators \ {o} : request'[q] = request[q]
  BY <1>0 DEF SyncShape, serverVars
<1>2. SyncShape' /\ Versioned
  BY <1>0, <1>1 DEF SyncShape, serverVars, agentVars, Versioned, Config
<1>3. ASSUME NEW q \in Operators, Clears(q)'
      PROVE  assigned' = request'[q].profile /\ VehicleFree(q)'
  <2>1. CASE q = o
    BY <1>1, <1>3, <2>1 DEF Clears, VehicleFree
  <2>2. CASE q # o
    <3>1. Clears(q) /\ assigned = request[q].profile /\ VehicleFree(q)
      BY <1>0, <1>1, <1>3, <2>2 DEF Clears, RequestShape
    <3>2. ~Clears(o)'
      BY <1>1, <2>2, <3>1 DEF Clears, VehicleFree
    <3> QED
      BY <1>1, <2>2, <3>1, <3>2 DEF Clears, VehicleFree
  <2> QED
    BY <2>1, <2>2
<1>4. RequestShape'
  <2> SUFFICES ASSUME NEW q \in Operators
               PROVE  LET s == request'[q] IN
                 /\ s.kind = "edit" =>
                      s.agent \in Agents /\ s.cadence \in Cadences /\ s.version \in Nat
                 /\ s.kind = "assign" => s.profile \in Profiles \cup {NoProfile}
                 /\ s.kind \in {"update", "delete", "updating", "deleting", "cleared"} =>
                      s.profile \in Profiles
                 /\ s.kind \in {"update", "delete", "updating", "deleting"} =>
                      s.content \in Nat /\ s.content # None
                 /\ s.kind \in {"updating", "deleting", "cleared"} => s.hits \in BOOLEAN
                 /\ s.kind = "cleared" => s.clears \in BOOLEAN
    BY <1>3 DEF RequestShape
  <2>1. CASE q = o
    BY <1>1, <2>1
  <2>2. CASE q # o
    BY <1>0, <1>1, <2>2 DEF RequestShape
  <2> QED
    BY <2>1, <2>2
<1> QED
  BY <1>2, <1>4, ServerKeeps

\* A request that begins.
LEMMA StartKeeps ==
  ASSUME SyncInv, NEW o \in Operators, Start(o)
  PROVE  SyncInv' /\ Versioned
<1>0. SyncShape
  BY DEF SyncInv
<1>1. edits \in Nat /\ edits + 1 \in Nat /\ edits + 2 \in Nat /\ edits + 2 # None
  BY <1>0 DEF SyncShape, None
<1>2. ASSUME NEW a \in Agents, NEW c \in Cadences, BeginEdit(o, a, c)
      PROVE  SyncInv' /\ Versioned
  <2> DEFINE r == [kind |-> "edit", agent |-> a, cadence |-> c,
                   version |-> version[a], was |-> cadence[a]]
  <2>1. /\ request' = [request EXCEPT ![o] = r] /\ edits' = edits + 1
        /\ UNCHANGED <<serverVars, overtaken, agentVars>>
    BY <1>2 DEF BeginEdit, Begin
  <2>2. r.kind = "edit" /\ r.agent \in Agents /\ r.cadence \in Cadences /\ r.version \in Nat
    BY <1>0 DEF SyncShape
  <2> HIDE DEF r
  <2> QED
    BY <1>1, <2>1, <2>2, StepKeeps
<1>3. ASSUME NEW p \in Profiles \cup {NoProfile}, BeginAssign(o, p)
      PROVE  SyncInv' /\ Versioned
  <2> DEFINE r == [kind |-> "assign", profile |-> p, was |-> assigned]
  <2>1. /\ request' = [request EXCEPT ![o] = r] /\ edits' = edits + 1
        /\ UNCHANGED <<serverVars, overtaken, agentVars>>
    BY <1>3 DEF BeginAssign, Begin
  <2>2. r.kind = "assign" /\ r.profile \in Profiles \cup {NoProfile}
    OBVIOUS
  <2> HIDE DEF r
  <2> QED
    BY <1>1, <2>1, <2>2, StepKeeps
<1>4. ASSUME NEW p \in Profiles, NEW kind \in {"update", "delete"}, BeginProfile(o, kind, p)
      PROVE  SyncInv' /\ Versioned
  <2> DEFINE r == [kind |-> kind, profile |-> p, content |-> edits + 2]
  <2>1. /\ request' = [request EXCEPT ![o] = r] /\ edits' = edits + 1
        /\ UNCHANGED <<serverVars, overtaken, agentVars>>
    BY <1>4 DEF BeginProfile, Begin
  <2>2. /\ r.kind \in {"update", "delete"} /\ r.profile \in Profiles
        /\ r.content \in Nat /\ r.content # None
    BY <1>1
  <2> HIDE DEF r
  <2> QED
    BY <1>1, <2>1, <2>2, StepKeeps
<1> QED
  BY <1>2, <1>3, <1>4 DEF Start

\* The UPDATE finds the agents that have the profile by then.
LEMMA BumpKeeps ==
  ASSUME SyncInv, NEW o \in Operators, Bump(o)
  PROVE  SyncInv' /\ Versioned
<1> DEFINE r == [kind |-> IF request[o].kind = "update" THEN "updating" ELSE "deleting",
                 profile |-> request[o].profile, content |-> request[o].content,
                 hits |-> assigned = request[o].profile]
<1>1. /\ request' = [request EXCEPT ![o] = r] /\ edits' \in Nat
      /\ UNCHANGED <<serverVars, overtaken, agentVars>>
  BY DEF Bump, SyncInv, SyncShape
<1>2. /\ request[o].profile \in Profiles
      /\ request[o].content \in Nat /\ request[o].content # None
  BY DEF Bump, SyncInv, RequestShape
<1>3. r.kind \in {"updating", "deleting"}
  OBVIOUS
<1>4. r.profile \in Profiles /\ r.content \in Nat /\ r.content # None
  BY <1>2
<1>5. r.hits \in BOOLEAN
  OBVIOUS
<1> HIDE DEF r
<1> QED
  BY <1>1, <1>3, <1>4, <1>5, StepKeeps

\* A deletion that takes the profile away from the vehicle locks its row.
LEMMA ClearKeeps ==
  ASSUME SyncInv, NEW o \in Operators, Clear(o)
  PROVE  SyncInv' /\ Versioned
<1> DEFINE r == [kind |-> "cleared", profile |-> request[o].profile,
                 hits |-> request[o].hits, clears |-> assigned = request[o].profile]
<1>1. /\ request' = [request EXCEPT ![o] = r] /\ edits' \in Nat
      /\ UNCHANGED <<serverVars, overtaken, agentVars>>
      /\ assigned = request[o].profile => VehicleFree(o)
  BY DEF Clear, SyncInv, SyncShape
<1>2. request[o].profile \in Profiles /\ request[o].hits \in BOOLEAN
  BY DEF Clear, SyncInv, RequestShape
<1>3. /\ r.kind = "cleared" /\ r.profile \in Profiles /\ r.hits \in BOOLEAN
      /\ r.clears \in BOOLEAN /\ r.profile = request[o].profile
  BY <1>2
<1>4. r.clears => assigned = r.profile /\ VehicleFree(o)
  BY <1>1
<1> HIDE DEF r
<1> QED
  BY <1>1, <1>3, <1>4, StepKeeps

\* A request that ends leaves the others as they are. Those that have cleared the
\* vehicle keep its row.
LEMMA EndKeeps ==
  ASSUME SyncInv, NEW o \in Operators, End(o),
         overtaken => overtaken', overtaken' \/ Versioned,
         version' \in [Agents -> Nat], cadence' \in [Agents -> Cadences],
         assigned' \in Profiles \cup {NoProfile}, content' \in [Profiles -> Nat],
         assigned' = assigned \/ VehicleFree(o)
  PROVE  SyncInv'
<1>0. SyncShape /\ RequestShape
  BY DEF SyncInv
<1>1. /\ UNCHANGED agentVars /\ edits' = edits /\ DOMAIN request' = Operators
      /\ request'[o] = Idle /\ \A q \in Operators \ {o} : request'[q] = request[q]
  BY <1>0 DEF SyncShape, End
<1>2. SyncShape'
  BY <1>0, <1>1 DEF SyncShape, agentVars
<1>3. RequestShape'
  <2>1. ~Clears(o)' /\ \A q \in Operators \ {o} : Clears(q)' <=> Clears(q)
    BY <1>1 DEF Clears, Idle
  <2>2. ASSUME NEW q \in Operators, Clears(q)'
        PROVE  assigned' = request'[q].profile /\ VehicleFree(q)'
    BY <1>0, <1>1, <2>1, <2>2 DEF RequestShape, VehicleFree
  <2> QED
    BY <1>0, <1>1, <2>2 DEF RequestShape, Idle
<1> QED
  BY <1>1, <1>2, <1>3, ServerKeeps

\* A commit either gives every agent it changes a newer version or rests on what has
\* changed.
LEMMA CommitKeeps ==
  ASSUME SyncInv, NEW o \in Operators, Commit(o), Versioned \/ Overtaken(o),
         version' \in [Agents -> Nat], cadence' \in [Agents -> Cadences],
         assigned' \in Profiles \cup {NoProfile}, content' \in [Profiles -> Nat],
         assigned' = assigned \/ VehicleFree(o)
  PROVE  SyncInv' /\ (Versioned \/ Overtakes)
<1>1. /\ End(o)
      /\ overtaken => overtaken'
      /\ Overtaken(o) => overtaken'
  BY DEF Commit
<1>2. request'[o] = Idle
  BY <1>1 DEF SyncInv, SyncShape, End
<1>3. SyncInv'
  BY <1>1, EndKeeps
<1> QED
  BY <1>2, <1>3 DEF Overtakes

LEMMA CommitEditKeeps ==
  ASSUME SyncInv, NEW o \in Operators, CommitEdit(o)
  PROVE  SyncInv' /\ (Versioned \/ Overtakes)
<1> DEFINE r == request[o]
<1>0. /\ SyncShape /\ assigned' = assigned /\ content' = content /\ Commit(o)
      /\ r.kind = "edit" /\ r.agent \in Agents /\ r.cadence \in Cadences /\ r.version \in Nat
  BY DEF SyncInv, CommitEdit, RequestShape
<1>1. CASE r.cadence # r.was
  <2>1. /\ cadence' = [cadence EXCEPT ![r.agent] = r.cadence]
        /\ version' = [version EXCEPT ![r.agent] = r.version + 1]
    BY <1>0, <1>1 DEF CommitEdit
  <2>2. version' \in [Agents -> Nat] /\ cadence' \in [Agents -> Cadences]
    BY <1>0, <2>1 DEF SyncShape
  <2>3. ASSUME ~Overtaken(o), NEW a \in Agents
        PROVE  Config(a)' = Config(a) \/ version'[a] > version[a]
    <3>1. CASE a = r.agent
      <4>1. ~(r.version < version[a]) /\ version[a] \in Nat
        BY <1>0, <1>1, <2>3, <3>1 DEF Overtaken, SyncShape
      <4> QED
        BY <1>0, <2>1, <3>1, <4>1 DEF SyncShape
    <3>2. CASE a # r.agent
      BY <1>0, <2>1, <3>2 DEF SyncShape, Config
    <3> QED
      BY <3>1, <3>2
  <2> QED
    BY <1>0, <2>2, <2>3, CommitKeeps DEF SyncShape, Versioned
<1>2. CASE r.cadence = r.was
  <2>1. cadence' = cadence /\ version' = version
    BY <1>2 DEF CommitEdit
  <2>2. Versioned
    BY <1>0, <2>1 DEF Versioned, Config
  <2> QED
    BY <1>0, <2>1, <2>2, CommitKeeps DEF SyncShape
<1> QED
  BY <1>1, <1>2

\* An increment in the database.
LEMMA BumpedVersions ==
  ASSUME SyncInv, NEW hits \in BOOLEAN, version' = Bumped(hits)
  PROVE  /\ version' \in [Agents -> Nat]
         /\ hits => \A a \in Agents : version'[a] > version[a]
         /\ ~hits => \A a \in Agents : version'[a] = version[a]
BY DEF SyncInv, SyncShape, Bumped

LEMMA CommitAssignKeeps ==
  ASSUME SyncInv, NEW o \in Operators, CommitAssign(o)
  PROVE  SyncInv' /\ (Versioned \/ Overtakes)
<1> DEFINE hits == request[o].profile # request[o].was
<1>0. /\ SyncShape /\ cadence' = cadence /\ content' = content /\ Commit(o)
      /\ request[o].profile \in Profiles \cup {NoProfile}
      /\ assigned' = IF hits THEN request[o].profile ELSE assigned
      /\ hits \in BOOLEAN /\ version' = Bumped(hits)
      /\ hits => VehicleFree(o)
  BY DEF SyncInv, CommitAssign, RequestShape
<1> HIDE DEF hits
<1>1. /\ version' \in [Agents -> Nat] /\ assigned' \in Profiles \cup {NoProfile}
      /\ assigned' = assigned \/ VehicleFree(o)
  BY <1>0, BumpedVersions DEF SyncShape
<1>2. Versioned
  <2>1. CASE hits
    BY <1>0, <2>1, BumpedVersions DEF Versioned
  <2>2. CASE ~hits
    BY <1>0, <2>2, BumpedVersions DEF Versioned, Config
  <2> QED
    BY <2>1, <2>2
<1> QED
  BY <1>0, <1>1, <1>2, CommitKeeps DEF SyncShape

\* Writing or deleting a profile changes the configuration of the agents that have
\* it, and only of them. They were found when the versions were incremented, or the
\* profile has been assigned since.
LEMMA CommitProfileKeeps ==
  ASSUME SyncInv, NEW o \in Operators, CommitUpdate(o) \/ CommitDelete(o)
  PROVE  SyncInv' /\ (Versioned \/ Overtakes)
<1> DEFINE p == request[o].profile
           hits == request[o].hits
<1>0. /\ SyncShape /\ cadence' = cadence /\ Commit(o)
      /\ p \in Profiles /\ hits \in BOOLEAN
      /\ version' = Bumped(hits)
      /\ request[o].kind \in {"updating", "cleared"}
  BY DEF SyncInv, CommitUpdate, CommitDelete, RequestShape
<1>1. PICK n \in Nat : content' = [content EXCEPT ![p] = n]
  BY DEF SyncInv, CommitUpdate, CommitDelete, RequestShape, None
<1>2. \/ assigned' = assigned
      \/ assigned' = NoProfile /\ assigned = p /\ VehicleFree(o)
  <2>1. CASE CommitUpdate(o)
    BY <2>1 DEF CommitUpdate
  <2>2. CASE CommitDelete(o)
    <3>1. /\ request[o].kind = "cleared"
          /\ assigned' = IF request[o].clears THEN NoProfile ELSE assigned
      BY <2>2 DEF CommitDelete, Unassigned
    <3>2. request[o].clears => assigned = p /\ VehicleFree(o)
      BY <3>1 DEF SyncInv, RequestShape, Clears
    <3> QED
      BY <3>1, <3>2
  <2> QED
    BY <2>1, <2>2
<1>3. ~Overtaken(o) => hits \/ assigned # p
  BY <1>0 DEF Overtaken
<1> HIDE DEF p, hits
<1>4. version' \in [Agents -> Nat] /\ content' \in [Profiles -> Nat]
  BY <1>0, <1>1, BumpedVersions DEF SyncShape
<1>5. CASE hits
  <2>1. Versioned
    BY <1>0, <1>5, BumpedVersions DEF Versioned
  <2> QED
    BY <1>0, <1>2, <1>4, <2>1, CommitKeeps DEF SyncShape
<1>6. CASE ~hits /\ assigned # p
  <2>1. assigned' = assigned /\ \A a \in Agents : version'[a] = version[a]
    BY <1>0, <1>2, <1>6, BumpedVersions
  <2>2. assigned # NoProfile => content'[assigned] = content[assigned]
    BY <1>0, <1>1, <1>6 DEF SyncShape
  <2>3. Versioned
    BY <1>0, <2>1, <2>2 DEF Versioned, Config
  <2> QED
    BY <1>0, <1>2, <1>4, <2>3, CommitKeeps DEF SyncShape
<1>7. CASE Overtaken(o)
  BY <1>0, <1>2, <1>4, <1>7, CommitKeeps DEF SyncShape
<1> QED
  BY <1>3, <1>5, <1>6, <1>7

LEMMA RolledBackKeeps ==
  ASSUME SyncInv, NEW o \in Operators, RolledBack(o)
  PROVE  SyncInv' /\ Versioned
<1>1. UNCHANGED serverVars /\ End(o) /\ overtaken' = overtaken
  BY DEF RolledBack
<1>2. Versioned
  BY <1>1 DEF Versioned, Config, serverVars
<1> QED
  BY <1>1, <1>2, EndKeeps DEF SyncInv, SyncShape, serverVars

----------------------------------------------------------------------------
(* Steps of the agents.                                                    *)

Places == {"idle", "device", "vehicle", "fetched", "accepted"}
Conf == [version : Nat, cadence : Cadences, profile : Profiles \cup {NoProfile}, content : Nat]

\* What a download may hold once it has come to a place.
Part(a, place, r) ==
  \/ overtaken
  \/ /\ r.version <= version[a]
     /\ r.version = version[a] =>
          /\ r.cadence = cadence[a]
          /\ place # "device" => r.profile = assigned
          /\ place \in {"fetched", "accepted"} => r = Config(a)

\* What an agent may have stored.
Whole(a, c) ==
  \/ overtaken
  \/ c.version <= version[a] /\ (c.version = version[a] => c = Config(a))

\* A step of one program of one agent.
LEMMA AgentKeeps ==
  ASSUME SyncInv, NEW a \in Agents, NEW x \in Programs, NEW place \in Places,
         NEW r \in Conf, NEW c \in Conf,
         UNCHANGED <<serverVars, operatorVars>>,
         stage' = [stage EXCEPT ![a] = [stage[a] EXCEPT ![x] = place]],
         reply' = [reply EXCEPT ![a] = [reply[a] EXCEPT ![x] = r]],
         stored' = [stored EXCEPT ![a] = c],
         place # "idle" => Part(a, place, r),
         Whole(a, c)
  PROVE  SyncInv'
<1>1. /\ version' = version /\ cadence' = cadence /\ assigned' = assigned
      /\ content' = content /\ request' = request /\ edits' = edits
      /\ overtaken' = overtaken
  BY DEF serverVars, operatorVars
<1>2. \A b \in Agents : Config(b)' = Config(b)
  BY <1>1 DEF Config
<1>3. /\ stage \in [Agents -> [Programs -> Places]] /\ stored \in [Agents -> Conf]
      /\ reply \in [Agents -> [Programs -> Conf]]
  BY DEF SyncInv, SyncShape, Places, Conf
<1>4. /\ stage' \in [Agents -> [Programs -> Places]] /\ stored' \in [Agents -> Conf]
      /\ reply' \in [Agents -> [Programs -> Conf]]
  <2>1. /\ [stage[a] EXCEPT ![x] = place] \in [Programs -> Places]
        /\ [reply[a] EXCEPT ![x] = r] \in [Programs -> Conf]
    BY <1>3
  <2> QED
    BY <1>3, <2>1
<1>5. SyncShape'
  BY <1>1, <1>4 DEF SyncInv, SyncShape, Places, Conf
<1>6. RequestShape'
  BY <1>1 DEF SyncInv, RequestShape, Clears, VehicleFree
<1>7. ASSUME NEW b \in Agents, NEW y \in Programs, stage'[b][y] # "idle"
      PROVE  Part(b, stage'[b][y], reply'[b][y])
  <2>1. CASE b = a /\ y = x
    BY <1>3, <1>7, <2>1
  <2>2. CASE ~(b = a /\ y = x)
    <3>1. stage'[b][y] = stage[b][y] /\ reply'[b][y] = reply[b][y]
      BY <1>3, <2>2
    <3> QED
      BY <1>7, <3>1 DEF SyncInv, DownloadIsCurrent, Part
  <2> QED
    BY <2>1, <2>2
<1>8. overtaken' \/ DownloadIsCurrent'
  BY <1>1, <1>2, <1>7 DEF DownloadIsCurrent, Part
<1>9. ASSUME NEW b \in Agents PROVE Whole(b, stored'[b])
  BY <1>3 DEF SyncInv, StoredIsCurrent, Whole
<1>10. overtaken' \/ StoredIsCurrent'
  BY <1>1, <1>2, <1>9 DEF StoredIsCurrent, Whole
<1> QED
  BY <1>5, <1>6, <1>8, <1>10 DEF SyncInv

\* The rows are read one after the other; the version stays the one read first.
LEMMA ReadKeeps ==
  ASSUME SyncInv, NEW a \in Agents, NEW x \in Programs,
         ReadDevice(a, x) \/ ReadVehicle(a, x) \/ ReadDefinition(a, x)
  PROVE  SyncInv'
<1> DEFINE old == reply[a][x]
<1>0. /\ SyncShape /\ old \in Conf /\ stored[a] \in Conf
      /\ Whole(a, stored[a])
      /\ stored = [stored EXCEPT ![a] = stored[a]]
      /\ stage[a][x] # "idle" => Part(a, stage[a][x], old)
  BY DEF SyncInv, SyncShape, Conf, StoredIsCurrent, Whole, DownloadIsCurrent, Part
<1>1. UNCHANGED <<serverVars, operatorVars>> /\ stored' = [stored EXCEPT ![a] = stored[a]]
  BY <1>0 DEF ReadDevice, ReadVehicle, ReadDefinition
<1>2. /\ version[a] \in Nat /\ cadence[a] \in Cadences
      /\ assigned \in Profiles \cup {NoProfile} /\ content \in [Profiles -> Nat]
  BY <1>0 DEF SyncShape
<1>3. CASE ReadDevice(a, x)
  <2> DEFINE r == [old EXCEPT !.version = version[a], !.cadence = cadence[a]]
  <2>1. /\ reply' = [reply EXCEPT ![a] = [reply[a] EXCEPT ![x] = r]]
        /\ stage' = [stage EXCEPT ![a] = [stage[a] EXCEPT ![x] = "device"]]
    BY <1>0, <1>3 DEF ReadDevice, At, SyncShape
  <2>2. r \in Conf /\ r.version = version[a] /\ r.cadence = cadence[a]
    BY <1>0, <1>2 DEF Conf
  <2>3. Part(a, "device", r) /\ "device" \in Places
    BY <1>2, <2>2 DEF Part, Places
  <2> HIDE DEF r
  <2> QED
    BY <1>0, <1>1, <2>1, <2>2, <2>3, AgentKeeps
<1>4. CASE ReadVehicle(a, x)
  <2> DEFINE r == [old EXCEPT !.profile = assigned]
  <2>1. /\ reply' = [reply EXCEPT ![a] = [reply[a] EXCEPT ![x] = r]]
        /\ stage' = [stage EXCEPT ![a] = [stage[a] EXCEPT ![x] = "vehicle"]]
    BY <1>0, <1>4 DEF ReadVehicle, At, SyncShape
  <2>2. /\ r \in Conf /\ r.version = old.version /\ r.cadence = old.cadence
        /\ r.profile = assigned
    BY <1>0, <1>2 DEF Conf
  <2>3. Part(a, "vehicle", r) /\ "vehicle" \in Places
    BY <1>0, <1>4, <2>2 DEF Part, Places, ReadVehicle
  <2> HIDE DEF r
  <2> QED
    BY <1>0, <1>1, <2>1, <2>2, <2>3, AgentKeeps
<1>5. CASE ReadDefinition(a, x)
  <2> DEFINE d == IF old.profile = NoProfile THEN None ELSE content[old.profile]
             r == [old EXCEPT !.content = d]
  <2>0. d \in Nat
    BY <1>0, <1>2 DEF None, Conf
  <2>1. /\ reply' = [reply EXCEPT ![a] = [reply[a] EXCEPT ![x] = r]]
        /\ stage' = [stage EXCEPT ![a] = [stage[a] EXCEPT ![x] = "fetched"]]
    <3>1. r \in Conf /\ r = [r EXCEPT !.version = old.version]
      BY <1>0, <2>0 DEF Conf
    <3>2. reply' = [reply EXCEPT ![a][x] = [r EXCEPT !.version = old.version]]
      BY <1>0, <1>5 DEF ReadDefinition, SeenVersion, SyncShape
    <3> QED
      BY <1>5, <3>1, <3>2 DEF ReadDefinition, At
  <2>2. /\ r \in Conf /\ r.version = old.version /\ r.cadence = old.cadence
        /\ r.profile = old.profile /\ r.content = d
    BY <1>0, <2>0 DEF Conf
  <2>3. overtaken \/ (old.version = version[a] => r = Config(a))
    BY <1>0, <1>5, <2>2 DEF ReadDefinition, Part, Config, Conf
  <2>4. Part(a, "fetched", r) /\ "fetched" \in Places
    BY <1>0, <1>5, <2>2, <2>3 DEF Part, Places, ReadDefinition
  <2> HIDE DEF r
  <2> QED
    BY <1>0, <1>1, <2>1, <2>2, <2>4, AgentKeeps
<1> QED
  BY <1>3, <1>4, <1>5

\* What is installed was the server's configuration, or is older.
LEMMA InstallKeeps ==
  ASSUME SyncInv, NEW a \in Agents, NEW x \in Programs,
         \/ Reject(a, x) \/ KeepInstalled(a, x) \/ AcceptNewer(a, x) \/ Install(a, x)
         \/ SyncFails(a, x) \/ (x = "run" /\ Restart(a))
  PROVE  SyncInv'
<1> DEFINE old == reply[a][x]
<1>0. /\ SyncShape /\ old \in Conf /\ stored[a] \in Conf
      /\ Whole(a, stored[a])
      /\ stored = [stored EXCEPT ![a] = stored[a]]
      /\ stage[a][x] # "idle" => Part(a, stage[a][x], old)
      /\ reply = [reply EXCEPT ![a] = [reply[a] EXCEPT ![x] = old]]
  BY DEF SyncInv, SyncShape, Conf, StoredIsCurrent, Whole, DownloadIsCurrent, Part
<1>1. UNCHANGED <<serverVars, operatorVars>>
  BY DEF Reject, KeepInstalled, AcceptNewer, Install, SyncFails, Restart
<1>2. reply' = [reply EXCEPT ![a] = [reply[a] EXCEPT ![x] = old]]
  BY <1>0 DEF Reject, KeepInstalled, AcceptNewer, Install, SyncFails, Restart
<1> HIDE DEF old
<1>3. CASE Reject(a, x) \/ KeepInstalled(a, x) \/ SyncFails(a, x) \/ (x = "run" /\ Restart(a))
  <2>1. /\ stored' = [stored EXCEPT ![a] = stored[a]]
        /\ stage' = [stage EXCEPT ![a] = [stage[a] EXCEPT ![x] = "idle"]]
    BY <1>0, <1>3 DEF Reject, KeepInstalled, SyncFails, Restart, At, SyncShape
  <2>2. "idle" \in Places
    BY DEF Places
  <2> QED
    BY <1>0, <1>1, <1>2, <2>1, <2>2, AgentKeeps
<1>4. CASE AcceptNewer(a, x)
  <2>1. /\ stored' = [stored EXCEPT ![a] = stored[a]]
        /\ stage' = [stage EXCEPT ![a] = [stage[a] EXCEPT ![x] = "accepted"]]
        /\ stage[a][x] = "fetched"
    BY <1>0, <1>4 DEF AcceptNewer, At, SyncShape
  <2>2. "accepted" \in Places /\ Part(a, "accepted", old)
    BY <1>0, <2>1 DEF Places, Part
  <2> QED
    BY <1>0, <1>1, <1>2, <2>1, <2>2, AgentKeeps
<1>5. CASE Install(a, x)
  <2>1. /\ stored' = [stored EXCEPT ![a] = old]
        /\ stage' = [stage EXCEPT ![a] = [stage[a] EXCEPT ![x] = "idle"]]
        /\ stage[a][x] = "accepted"
    BY <1>5 DEF Install, At, old
  <2>2. "idle" \in Places /\ Whole(a, old)
    BY <1>0, <2>1 DEF Places, Part, Whole
  <2> QED
    BY <1>0, <1>1, <1>2, <2>1, <2>2, AgentKeeps
<1> QED
  BY <1>3, <1>4, <1>5

----------------------------------------------------------------------------

LEMMA NextKeeps ==
  ASSUME SyncInv, [Next]_vars
  PROVE  SyncInv' /\ (Versioned \/ Overtakes)
<1>1. ASSUME NEW o \in Operators, Start(o) \/ Proceed(o)
      PROVE  SyncInv' /\ (Versioned \/ Overtakes)
  BY <1>1, StartKeeps, BumpKeeps, ClearKeeps, CommitEditKeeps, CommitAssignKeeps,
     CommitProfileKeeps, RolledBackKeeps DEF Proceed
<1>2. ASSUME UNCHANGED serverVars PROVE Versioned
  BY <1>2 DEF Versioned, Config, serverVars
<1>3. ASSUME NEW a \in Agents, NEW x \in Programs, Sync(a, x) \/ SyncFails(a, x)
      PROVE  SyncInv' /\ Versioned
  <2>1. UNCHANGED serverVars
    BY <1>3 DEF Sync, ReadDevice, ReadVehicle, ReadDefinition, Reject, KeepInstalled,
       AcceptNewer, Install, SyncFails
  <2> QED
    BY <1>2, <1>3, <2>1, ReadKeeps, InstallKeeps DEF Sync
<1>4. ASSUME NEW a \in Agents, Restart(a) PROVE SyncInv' /\ Versioned
  <2>1. UNCHANGED serverVars /\ "run" \in Programs
    BY <1>4 DEF Restart, Programs
  <2> QED
    BY <1>2, <1>4, <2>1, InstallKeeps
<1>5. CASE UNCHANGED vars
  <2>1. UNCHANGED serverVars
    BY <1>5 DEF vars
  <2>2. SyncInv'
    <3>1. \A o \in Operators : Clears(o)' <=> Clears(o)
      BY <1>5 DEF vars, operatorVars, Clears
    <3>2. \A o \in Operators : VehicleFree(o)' <=> VehicleFree(o)
      BY <3>1 DEF VehicleFree
    <3>3. RequestShape' <=> RequestShape
      BY <1>5, <3>1, <3>2 DEF vars, serverVars, operatorVars, RequestShape
    <3> QED
      BY <1>5, <3>3 DEF vars, serverVars, operatorVars, agentVars, SyncInv, SyncShape,
         DownloadIsCurrent, StoredIsCurrent, Config
  <2> QED
    BY <1>2, <2>1, <2>2
<1> QED
  BY <1>1, <1>3, <1>4, <1>5 DEF Next

\* Unless a request was overtaken, an agent that has the server's version has the
\* server's configuration, whatever was read when and by however many.
THEOREM VersionIdentifiesConfiguration == Spec => []SameVersionSameConfiguration
<1>1. SyncInv /\ [Next]_vars => SyncInv'
  BY NextKeeps
<1>2. SyncInv => SameVersionSameConfiguration
  BY DEF SyncInv, StoredIsCurrent, SameVersionSameConfiguration
<1> QED
  BY <1>1, <1>2, InitInv, PTL DEF Spec

\* Every change of what an agent is to be configured with has a newer version, or is
\* that of a request that was overtaken.
THEOREM OvertakenAreUnversioned == Spec => OnlyOvertakenIsUnversioned
<1> DEFINE Newer ==
      \A a \in Agents :
        Config(a)' # Config(a) =>
          \/ Config(a)'.version > Config(a).version
          \/ \E o \in Operators : Overtaken(o) /\ request'[o] = Idle
<1>1. SyncInv /\ [Next]_vars => SyncInv'
  BY NextKeeps
<1>2. SyncInv /\ [Next]_vars => [Newer]_vars
  <2> SUFFICES ASSUME SyncInv, [Next]_vars PROVE Newer
    OBVIOUS
  <2>1. Versioned \/ Overtakes
    BY NextKeeps
  <2>2. \A a \in Agents : Config(a).version = version[a] /\ Config(a)'.version = version'[a]
    BY DEF Config
  <2> QED
    BY <2>1, <2>2 DEF Versioned, Overtakes
<1> QED
  BY <1>1, <1>2, InitInv, PTL DEF Spec, OnlyOvertakenIsUnversioned

----------------------------------------------------------------------------
(* The profile of a vehicle exists until an assignment of a deleted one is   *)
(* committed.                                                              *)

\* An assignment of a profile that was deleted since it was looked up is committed, or
\* its deletion after it.
Dangles ==
  \E o \in Operators : LET r == request[o] IN
    /\ request'[o] = Idle
    /\ \/ r.kind = "assign" /\ content[r.profile] = None
       \/ r.kind = "cleared" /\ ~r.clears /\ assigned = r.profile

LEMMA ProceedKeepsAssigned ==
  ASSUME SyncInv, AssignedExists, NEW o \in Operators, Proceed(o)
  PROVE  AssignedExists' \/ Dangles
<1>0. /\ content \in [Profiles -> Nat] /\ DOMAIN request = Operators /\ RequestShape
      /\ assigned \in Profiles \cup {NoProfile} /\ NoProfile \notin Profiles
  BY ConfigAssumption DEF SyncInv, SyncShape
<1>1. CASE Bump(o) \/ Clear(o) \/ CommitEdit(o) \/ RolledBack(o)
  <2>1. assigned' = assigned /\ content' = content
    BY <1>1 DEF Bump, Clear, CommitEdit, RolledBack, serverVars
  <2> QED
    BY <2>1 DEF AssignedExists
<1>2. CASE CommitAssign(o)
  <2>1. /\ content' = content
        /\ assigned' = request[o].profile \/ assigned' = assigned
        /\ request[o].kind = "assign" /\ request'[o] = Idle
    BY <1>0, <1>2 DEF CommitAssign, Commit, End
  <2> QED
    BY <2>1 DEF AssignedExists, Dangles
<1>3. CASE CommitUpdate(o)
  <2>1. /\ assigned' = assigned /\ request[o].content # None
        /\ content' = [content EXCEPT ![request[o].profile] = request[o].content]
    BY <1>0, <1>3 DEF CommitUpdate, RequestShape
  <2> QED
    BY <1>0, <2>1 DEF AssignedExists
<1>4. CASE CommitDelete(o)
  <2>1. /\ content' = [content EXCEPT ![request[o].profile] = None]
        /\ assigned' = IF request[o].clears THEN NoProfile ELSE assigned
        /\ request[o].kind = "cleared" /\ request'[o] = Idle
    BY <1>0, <1>4 DEF CommitDelete, Unassigned, Commit, End
  <2>2. CASE request[o].clears
    BY <2>1, <2>2 DEF AssignedExists
  <2>3. CASE ~request[o].clears /\ assigned = request[o].profile
    BY <2>1, <2>3 DEF Dangles
  <2>4. CASE ~request[o].clears /\ assigned # request[o].profile
    BY <1>0, <2>1, <2>4 DEF AssignedExists
  <2> QED
    BY <2>2, <2>3, <2>4
<1> QED
  BY <1>1, <1>2, <1>3, <1>4 DEF Proceed

\* A vehicle is left with a profile that is gone by an assignment that overlaps its
\* deletion, and in no other way.
THEOREM OverlapsDangle == Spec => OnlyAssignmentOfDeletedDangles
<1> DEFINE Kept == AssignedExists => AssignedExists' \/ Dangles
<1>1. SyncInv /\ [Next]_vars => SyncInv'
  BY NextKeeps
<1>2. SyncInv /\ [Next]_vars => [Kept]_vars
  <2> SUFFICES ASSUME SyncInv, AssignedExists, [Next]_vars PROVE AssignedExists' \/ Dangles
    OBVIOUS
  <2>1. ASSUME assigned' = assigned, content' = content PROVE AssignedExists'
    BY <2>1 DEF AssignedExists
  <2>2. ASSUME NEW o \in Operators, Start(o) PROVE AssignedExists'
    BY <2>1, <2>2 DEF Start, BeginEdit, BeginAssign, BeginProfile, Begin, serverVars
  <2>3. ASSUME NEW a \in Agents, NEW x \in Programs, Sync(a, x) \/ SyncFails(a, x)
        PROVE  AssignedExists'
    BY <2>1, <2>3 DEF Sync, ReadDevice, ReadVehicle, ReadDefinition, Reject, KeepInstalled,
       AcceptNewer, Install, SyncFails, serverVars
  <2>4. ASSUME NEW a \in Agents, Restart(a) PROVE AssignedExists'
    BY <2>1, <2>4 DEF Restart, serverVars
  <2>5. CASE UNCHANGED vars
    BY <2>1, <2>5 DEF vars, serverVars
  <2> QED
    BY <2>2, <2>3, <2>4, <2>5, ProceedKeepsAssigned DEF Next
<1>3. [Kept]_vars => [AssignedExists =>
        \/ AssignedExists'
        \/ \E o \in Operators : LET r == request[o] IN
             /\ request'[o] = Idle
             /\ \/ r.kind = "assign" /\ content[r.profile] = None
                \/ r.kind = "cleared" /\ ~r.clears /\ assigned = r.profile]_vars
  BY DEF Dangles
<1> QED
  BY <1>1, <1>2, <1>3, InitInv, PTL DEF Spec, OnlyAssignmentOfDeletedDangles
=============================================================================
