---------------------------- MODULE RecordsProofs -----------------------------
(***************************************************************************)
(* Theorems about Records and History, for any numbers of rows.             *)
(*                                                                         *)
(* The inductive invariant of Records is RecordsInv: the foreign keys hold,    *)
(* and so does what a trigger, an execution and their reading agree on. That a *)
(* deletion takes along all it should follows from the depth of a table: every *)
(* cascading key leads to a table of a lesser one.                           *)
(*                                                                         *)
(* That of History is HistoryInv. For the chart it counts: rows have the       *)
(* places from 0 on, one each, so the multiples of the stride are few, and     *)
(* none is far from the next. For the table it says how far down a row must be  *)
(* that no page has shown: After(n) at the point where the next page starts     *)
(* after n rows.                                                           *)
(***************************************************************************)
EXTENDS MCConsole, Sequences, FiniteSetTheorems, TLAPS

LEMMA NoneIsNoTable == None \notin (UNION {{k.table, k.parent} : k \in R!Keys}) \X Nat /\ MaxSamples \in Nat
BY ConsoleAssumption DEF Bounds, NoneIsNoValue

\* A row of this table among rows with these ids: it has the keys of the table, and
\* each finds a row of the table it refers to, or is null where that is allowed.
Fits(table, row, ids) ==
  /\ DOMAIN row = {k.column : k \in {q \in R!Keys : q.table = table}}
  /\ \A k \in R!Keys : k.table = table =>
       \/ row[k.column] \in ids /\ row[k.column][1] = k.parent
       \/ row[k.column] = None /\ (k.ondelete = "set_null" \/ table = "hooks")

KeysHold == \A id \in DOMAIN db : Fits(id[1], db[id], DOMAIN db)

Tables == {
  "users", "auth_identities", "sessions", "dashboards", "vehicle_profiles", "vehicles",
  "device_enrollment_tokens", "devices", "vehicle_access_grants", "vehicle_photos",
  "hooks", "hook_revisions", "hook_state", "telemetry", "vehicle_state", "triggers",
  "hook_executions"}

\* An id is a table with a number, and there is one vehicle.
IsId(id) == id = R!Id(id[1], id[2]) /\ id[2] \in Nat

OneVehicle ==
  \A id \in DOMAIN db : /\ IsId(id)
                        /\ id[1] \in Tables
                        /\ id[1] = "vehicles" => id = R!Vehicle

RecordsInv == KeysHold /\ OneVehicle /\ R!ExecutionFindsInputs

----------------------------------------------------------------------------
(* What a deletion takes along.                                             *)

\* How far a table is from those to which nothing cascades.
Depth(table) ==
  IF table \in {"users", "vehicles", "vehicle_profiles"} THEN 0
  ELSE IF table \in {"devices", "hooks"} THEN 1
  ELSE IF table = "telemetry" THEN 2
  ELSE IF table = "triggers" THEN 3
  ELSE 4

LEMMA KeysGoDown ==
  \A k \in R!Keys : k.ondelete = "cascade" => Depth(k.parent) < Depth(k.table)
BY DEF R!Keys, R!AccountKeys, R!GarageKeys, R!DeviceKeys, R!HookKeys, R!RevisionKeys,
       R!SharedKeys, R!ReadingKeys, R!StateKeys, R!TriggerKeys, R!ExecutionKeys, R!Key, Depth

LEMMA DepthIsNat == \A table : Depth(table) \in 0 .. 4
BY DEF Depth

\* The row p is one that the row id does not survive.
Ties(id, p) ==
  \E k \in R!Keys : k.ondelete = "cascade" /\ k.table = id[1] /\ db[id][k.column] = p

LEMMA NoneIsNoId ==
  ASSUME NEW id, IsId(id), id[1] \in Tables
  PROVE  id # None
<1>1. id[1] \in UNION {{k.table, k.parent} : k \in R!Keys}
  <2>1. \E k \in R!Keys : id[1] \in {k.table, k.parent}
    BY DEF Tables, R!Keys, R!AccountKeys, R!GarageKeys, R!DeviceKeys, R!HookKeys,
           R!RevisionKeys, R!SharedKeys, R!ReadingKeys, R!StateKeys, R!TriggerKeys,
           R!ExecutionKeys, R!Key
  <2> QED
    BY <2>1
<1> QED
  BY <1>1, NoneIsNoTable DEF IsId, R!Id

LEMMA TiesGoDown ==
  ASSUME KeysHold, OneVehicle, NEW id \in DOMAIN db, NEW p \in DOMAIN db, Ties(id, p)
  PROVE  Depth(p[1]) < Depth(id[1])
<1>1. PICK k \in R!Keys : k.ondelete = "cascade" /\ k.table = id[1] /\ db[id][k.column] = p
  BY DEF Ties
<1>2. p # None
  BY NoneIsNoId DEF OneVehicle
<1>3. p[1] = k.parent
  BY <1>1, <1>2 DEF KeysHold, Fits
<1> QED
  BY <1>1, <1>3, KeysGoDown

LEMMA TakenIsTied ==
  ASSUME KeysHold, NEW rows
  PROVE  R!Taken(rows) = rows \cup {id \in DOMAIN db : \E p \in rows : Ties(id, p)}
<1> DEFINE cascade == {<<k.table, k.column>> : k \in {q \in R!Keys : q.ondelete = "cascade"}}
<1>1. ASSUME NEW id \in DOMAIN db
      PROVE  (\E c \in DOMAIN db[id] : db[id][c] \in rows /\ <<id[1], c>> \in cascade)
             <=> \E p \in rows : Ties(id, p)
  <2>1. DOMAIN db[id] = {k.column : k \in {q \in R!Keys : q.table = id[1]}}
    BY DEF KeysHold, Fits
  <2>2. ASSUME NEW c \in DOMAIN db[id], db[id][c] \in rows, <<id[1], c>> \in cascade
        PROVE  \E p \in rows : Ties(id, p)
    <3>1. PICK k \in R!Keys : k.ondelete = "cascade" /\ <<k.table, k.column>> = <<id[1], c>>
      BY <2>2
    <3> QED
      BY <2>2, <3>1 DEF Ties
  <2>3. ASSUME NEW p \in rows, Ties(id, p)
        PROVE  \E c \in DOMAIN db[id] : db[id][c] \in rows /\ <<id[1], c>> \in cascade
    <3>1. PICK k \in R!Keys : k.ondelete = "cascade" /\ k.table = id[1] /\ db[id][k.column] = p
      BY <2>3 DEF Ties
    <3>2. k.column \in DOMAIN db[id] /\ <<id[1], k.column>> \in cascade
      BY <2>1, <3>1
    <3> QED
      BY <3>1, <3>2
  <2> QED
    BY <2>2, <2>3
<1>2. R!Taken(rows) = rows \cup {id \in DOMAIN db \ rows :
                                  \E c \in DOMAIN db[id] :
                                    db[id][c] \in rows /\ <<id[1], c>> \in cascade}
  BY DEF R!Taken
<1> HIDE DEF cascade
<1> QED
  BY <1>1, <1>2

\* What goes, goes for a reason; and whatever a row that goes ties goes with it: four
\* rounds are enough, for want of a table further down.
LEMMA GoneIsClosed ==
  ASSUME KeysHold, OneVehicle, NEW deleted \in SUBSET DOMAIN db
  PROVE  /\ R!Gone(deleted) \subseteq DOMAIN db
         /\ deleted \subseteq R!Gone(deleted)
         /\ \A id \in R!Gone(deleted) \ deleted : \E p \in R!Gone(deleted) : Ties(id, p)
         /\ \A id \in DOMAIN db, p \in R!Gone(deleted) : Ties(id, p) => id \in R!Gone(deleted)
<1> DEFINE one == R!Taken(deleted)
           two == R!Taken(one)
           three == R!Taken(two)
           four == R!Taken(three)
           Tied(rows) == {id \in DOMAIN db : \E p \in rows : Ties(id, p)}
<1>1. one = deleted \cup Tied(deleted)
  BY TakenIsTied
<1>2. two = one \cup Tied(one)
  BY TakenIsTied
<1>3. three = two \cup Tied(two)
  BY TakenIsTied
<1>4. four = three \cup Tied(three)
  BY TakenIsTied
<1>5. R!Gone(deleted) = four
  BY DEF R!Gone
<1> HIDE DEF one, two, three, four
<1>6. four \subseteq DOMAIN db /\ deleted \subseteq one /\ one \subseteq two /\ two \subseteq three /\ three \subseteq four
  BY <1>1, <1>2, <1>3, <1>4
<1>7. ASSUME NEW id \in four, id \notin deleted PROVE \E p \in four : Ties(id, p)
  BY <1>1, <1>2, <1>3, <1>4, <1>6, <1>7
<1>8. ASSUME NEW id \in DOMAIN db, NEW p \in DOMAIN db, Ties(id, p) PROVE Depth(p[1]) < Depth(id[1])
  BY <1>8, TiesGoDown
<1>9. \A id \in four : Depth(id[1]) \in 0 .. 4
  BY DepthIsNat
<1>10. \A id \in four : Depth(id[1]) < 1 => id \in deleted
  BY <1>6, <1>7, <1>8, <1>9
<1>11. \A id \in four : Depth(id[1]) < 2 => id \in one
  BY <1>1, <1>6, <1>7, <1>8, <1>9, <1>10
<1>12. \A id \in four : Depth(id[1]) < 3 => id \in two
  BY <1>2, <1>6, <1>7, <1>8, <1>9, <1>11
<1>13. \A id \in four : Depth(id[1]) < 4 => id \in three
  BY <1>3, <1>6, <1>7, <1>8, <1>9, <1>12
<1>14. ASSUME NEW id \in DOMAIN db, NEW p \in four, Ties(id, p) PROVE id \in four
  <2>1. Depth(p[1]) < Depth(id[1]) /\ Depth(id[1]) \in 0 .. 4 /\ Depth(p[1]) \in 0 .. 4
    BY <1>6, <1>8, <1>14, DepthIsNat
  <2>2. p \in three
    BY <1>13, <2>1
  <2> QED
    BY <1>4, <1>14, <2>2
<1> QED
  BY <1>5, <1>6, <1>7, <1>14

LEMMA KeysListed ==
  /\ R!Key("devices", "vehicle_id", "vehicles", "cascade") \in R!Keys
  /\ R!Key("device_enrollment_tokens", "vehicle_id", "vehicles", "cascade") \in R!Keys
  /\ R!Key("hooks", "vehicle_id", "vehicles", "cascade") \in R!Keys
  /\ R!Key("hook_revisions", "hook_id", "hooks", "cascade") \in R!Keys
  /\ R!Key("hook_state", "hook_id", "hooks", "cascade") \in R!Keys
  /\ R!Key("vehicle_access_grants", "vehicle_id", "vehicles", "cascade") \in R!Keys
  /\ R!Key("vehicle_photos", "vehicle_id", "vehicles", "cascade") \in R!Keys
  /\ R!Key("telemetry", "device_id", "devices", "cascade") \in R!Keys
  /\ R!Key("telemetry", "vehicle_id", "vehicles", "cascade") \in R!Keys
  /\ R!Key("vehicle_state", "vehicle_id", "vehicles", "cascade") \in R!Keys
  /\ R!Key("triggers", "telemetry_id", "telemetry", "cascade") \in R!Keys
  /\ R!Key("triggers", "vehicle_id", "vehicles", "cascade") \in R!Keys
  /\ R!Key("hook_executions", "hook_id", "hooks", "cascade") \in R!Keys
  /\ R!Key("hook_executions", "trigger_id", "triggers", "cascade") \in R!Keys
  /\ R!Key("triggers", "device_id", "devices", "set_null") \in R!Keys
  /\ R!Key("hook_executions", "telemetry_id", "telemetry", "set_null") \in R!Keys
BY DEF R!Keys, R!DeviceKeys, R!HookKeys, R!RevisionKeys, R!SharedKeys, R!ReadingKeys,
       R!StateKeys, R!TriggerKeys, R!ExecutionKeys

LEMMA ColumnsThere ==
  ASSUME KeysHold, NEW table, NEW column, NEW parent, NEW ondelete,
         R!Key(table, column, parent, ondelete) \in R!Keys,
         NEW id \in R!Rows(table)
  PROVE  column \in DOMAIN db[id]
<1> DEFINE k == R!Key(table, column, parent, ondelete)
<1>1. k \in R!Keys /\ k.table = table /\ k.column = column
  BY DEF R!Key
<1>2. id \in DOMAIN db /\ id[1] = table
  BY DEF R!Rows
<1> HIDE DEF k
<1>3. DOMAIN db[id] = {q.column : q \in {o \in R!Keys : o.table = table}}
  BY <1>2 DEF KeysHold, Fits
<1>4. k.column \in {q.column : q \in {o \in R!Keys : o.table = table}}
  BY <1>1
<1> QED
  BY <1>1, <1>3, <1>4

\* A key that cascades is not null, but for the vehicle of a hook.
LEMMA CascadeFinds ==
  ASSUME KeysHold, NEW table, NEW column, NEW parent,
         R!Key(table, column, parent, "cascade") \in R!Keys,
         NEW id \in R!Rows(table)
  PROVE  /\ column \in DOMAIN db[id]
         /\ Ties(id, db[id][column])
         /\ \/ db[id][column] \in R!Rows(parent)
            \/ table = "hooks" /\ db[id][column] = None
<1> DEFINE k == R!Key(table, column, parent, "cascade")
<1>1. k \in R!Keys /\ k.table = table /\ k.column = column /\ k.parent = parent /\ k.ondelete = "cascade"
  BY DEF R!Key
<1>2. id \in DOMAIN db /\ id[1] = table
  BY DEF R!Rows
<1> HIDE DEF k
<1> QED
  BY <1>1, <1>2 DEF KeysHold, Fits, Ties, R!Rows

\* What executions, triggers and readings refer to.
LEMMA RecordsFind ==
  ASSUME KeysHold
  PROVE  /\ \A t \in R!Rows("triggers") : /\ db[t].telemetry_id \in R!Rows("telemetry") /\ Ties(t, db[t].telemetry_id)
                                        /\ db[t].vehicle_id \in R!Rows("vehicles") /\ Ties(t, db[t].vehicle_id)
         /\ \A r \in R!Rows("telemetry") : /\ db[r].device_id \in R!Rows("devices") /\ Ties(r, db[r].device_id)
                                         /\ db[r].vehicle_id \in R!Rows("vehicles") /\ Ties(r, db[r].vehicle_id)
         /\ \A e \in R!Rows("hook_executions") : /\ db[e].hook_id \in R!Rows("hooks") /\ Ties(e, db[e].hook_id)
                                               /\ db[e].trigger_id \in R!Rows("triggers") /\ Ties(e, db[e].trigger_id)
         /\ \A h \in R!Rows("hooks") : /\ db[h].vehicle_id \in R!Rows("vehicles") \cup {None}
                                     /\ Ties(h, db[h].vehicle_id)
<1>1. ASSUME NEW t \in R!Rows("triggers")
      PROVE  /\ db[t].telemetry_id \in R!Rows("telemetry") /\ Ties(t, db[t].telemetry_id)
             /\ db[t].vehicle_id \in R!Rows("vehicles") /\ Ties(t, db[t].vehicle_id)
  BY KeysListed, CascadeFinds
<1>2. ASSUME NEW r \in R!Rows("telemetry")
      PROVE  /\ db[r].device_id \in R!Rows("devices") /\ Ties(r, db[r].device_id)
             /\ db[r].vehicle_id \in R!Rows("vehicles") /\ Ties(r, db[r].vehicle_id)
  BY KeysListed, CascadeFinds
<1>3. ASSUME NEW e \in R!Rows("hook_executions")
      PROVE  /\ db[e].hook_id \in R!Rows("hooks") /\ Ties(e, db[e].hook_id)
             /\ db[e].trigger_id \in R!Rows("triggers") /\ Ties(e, db[e].trigger_id)
  BY KeysListed, CascadeFinds
<1>4. ASSUME NEW h \in R!Rows("hooks")
      PROVE  db[h].vehicle_id \in R!Rows("vehicles") \cup {None} /\ Ties(h, db[h].vehicle_id)
  BY KeysListed, CascadeFinds
<1> QED
  BY <1>1, <1>2, <1>3, <1>4

LEMMA DeleteKept ==
  ASSUME RecordsInv, NEW deleted \in SUBSET DOMAIN db, R!Delete(deleted)
  PROVE  RecordsInv'
<1> USE DEF RecordsInv
<1> DEFINE gone == R!Gone(deleted)
<1>1. /\ gone \subseteq DOMAIN db
      /\ \A id \in DOMAIN db, p \in gone : Ties(id, p) => id \in gone
  BY GoneIsClosed
<1>2. /\ DOMAIN db' = DOMAIN db \ gone
      /\ \A id \in DOMAIN db' : /\ DOMAIN db'[id] = DOMAIN db[id]
                                /\ \A c \in DOMAIN db[id] :
                                     db'[id][c] = IF db[id][c] \in gone THEN None ELSE db[id][c]
  BY DEF R!Delete
<1> HIDE DEF gone
<1>3. ASSUME NEW id \in DOMAIN db' PROVE Fits(id[1], db'[id], DOMAIN db')
  <2>1. Fits(id[1], db[id], DOMAIN db)
    BY <1>2 DEF KeysHold
  <2>2. ASSUME NEW k \in R!Keys, k.table = id[1]
        PROVE  \/ db'[id][k.column] \in DOMAIN db' /\ db'[id][k.column][1] = k.parent
               \/ db'[id][k.column] = None /\ (k.ondelete = "set_null" \/ k.table = "hooks")
    <3>1. k.column \in DOMAIN db[id]
      BY <2>1, <2>2 DEF Fits
    <3>2. CASE db[id][k.column] \in gone
      <4>1. k.ondelete # "cascade"
        BY <1>1, <1>2, <2>2, <3>2 DEF Ties
      <4>2. k.ondelete = "set_null"
        BY <4>1
           DEF R!Keys, R!AccountKeys, R!GarageKeys, R!DeviceKeys, R!HookKeys, R!RevisionKeys,
               R!SharedKeys, R!ReadingKeys, R!StateKeys, R!TriggerKeys, R!ExecutionKeys, R!Key
      <4> QED
        BY <1>2, <3>1, <3>2, <4>2
    <3>3. CASE db[id][k.column] \notin gone
      BY <1>2, <2>1, <2>2, <3>1, <3>3 DEF Fits
    <3> QED
      BY <3>2, <3>3
  <2> QED
    BY <1>2, <2>1, <2>2 DEF Fits
<1>4. KeysHold' /\ OneVehicle'
  BY <1>2, <1>3 DEF KeysHold, OneVehicle
<1>5. \A table : R!Rows(table)' = R!Rows(table) \ gone
  BY <1>2 DEF R!Rows
<1>6. ASSUME NEW id \in DOMAIN db', NEW c \in DOMAIN db[id], db[id][c] \notin gone
      PROVE  db'[id][c] = db[id][c] /\ (db[id][c] \in DOMAIN db => db[id][c] \in DOMAIN db')
  BY <1>2, <1>6
<1>7. ASSUME NEW t \in R!Rows("triggers")'
      PROVE  /\ db'[t].telemetry_id = db[t].telemetry_id
             /\ db'[t].vehicle_id = db[t].vehicle_id
             /\ db'[t].telemetry_id # None
             /\ db'[t].telemetry_id \in DOMAIN db'
             /\ db'[t].device_id = db'[db'[t].telemetry_id].device_id
             /\ db'[t].vehicle_id = db'[db'[t].telemetry_id].vehicle_id
             /\ db'[t].device_id \in DOMAIN db'
  <2> DEFINE r == db[t].telemetry_id
  <2>1. t \in R!Rows("triggers") /\ t \in DOMAIN db' /\ t \notin gone
    BY <1>2, <1>5 DEF R!Rows
  <2>2. /\ r # None /\ R!There(r)
        /\ db[t].device_id = db[r].device_id /\ db[t].vehicle_id = db[r].vehicle_id
        /\ R!There(db[t].device_id)
    BY <2>1 DEF R!ExecutionFindsInputs
  <2>3. r \in R!Rows("telemetry") /\ Ties(t, r) /\ Ties(t, db[t].vehicle_id) /\ db[t].vehicle_id \in R!Rows("vehicles")
    BY <2>1, RecordsFind
  <2>4. db[r].device_id \in R!Rows("devices") /\ Ties(r, db[r].device_id)
    BY <2>3, RecordsFind
  <2>5. r \in DOMAIN db /\ r \notin gone /\ r \in DOMAIN db'
    BY <1>1, <1>2, <2>1, <2>3 DEF R!Rows
  <2>6. db[r].device_id \in DOMAIN db /\ db[r].device_id \notin gone
    BY <1>1, <2>4, <2>5 DEF R!Rows
  <2>7. db[t].vehicle_id \notin gone
    BY <1>1, <2>1, <2>3 DEF R!Rows
  <2>8. {"telemetry_id", "vehicle_id", "device_id"} \subseteq DOMAIN db[t]
    BY <2>1, KeysListed, ColumnsThere
  <2>9. {"vehicle_id", "device_id"} \subseteq DOMAIN db[r]
    BY <2>3, KeysListed, ColumnsThere
  <2> HIDE DEF r
  <2>10. db'[t].telemetry_id = r /\ db'[t].vehicle_id = db[t].vehicle_id
    <3>1. db[t].telemetry_id = r
      BY DEF r
    <3> QED
      BY <1>6, <2>1, <2>5, <2>7, <2>8, <3>1
  <2>11. db'[t].device_id = db[t].device_id
    BY <1>6, <2>1, <2>2, <2>6, <2>8
  <2>12. db'[r].device_id = db[r].device_id /\ db'[r].vehicle_id = db[r].vehicle_id
    BY <1>6, <2>2, <2>5, <2>6, <2>7, <2>9
  <2>13. db[t].telemetry_id = r
    BY DEF r
  <2>14. db[r].device_id \in DOMAIN db'
    BY <1>2, <2>6
  <2> QED
    BY <2>2, <2>5, <2>10, <2>11, <2>12, <2>13, <2>14
<1>8. ASSUME NEW e \in R!Rows("hook_executions")'
      PROVE  /\ db'[e].telemetry_id = db'[db'[e].trigger_id].telemetry_id
             /\ db'[db'[e].hook_id].vehicle_id \in {None, db'[db'[e].trigger_id].vehicle_id}
  <2> DEFINE t == db[e].trigger_id
             h == db[e].hook_id
  <2>1. e \in R!Rows("hook_executions") /\ e \in DOMAIN db' /\ e \notin gone
    BY <1>2, <1>5 DEF R!Rows
  <2>2. /\ t \in R!Rows("triggers") /\ Ties(e, t)
        /\ h \in R!Rows("hooks") /\ Ties(e, h) /\ Ties(h, db[h].vehicle_id)
    BY <2>1, RecordsFind
  <2>3. /\ db[e].telemetry_id = db[t].telemetry_id
        /\ db[h].vehicle_id \in {None, db[t].vehicle_id}
    BY <2>1 DEF R!ExecutionFindsInputs
  <2>4. {"telemetry_id", "trigger_id", "hook_id"} \subseteq DOMAIN db[e]
    BY <2>1, KeysListed, ColumnsThere
  <2>5. "vehicle_id" \in DOMAIN db[h]
    BY <2>2, KeysListed, ColumnsThere
  <2>6. db[e].trigger_id = t /\ db[e].hook_id = h
    OBVIOUS
  <2> HIDE DEF t, h
  <2>7. t \notin gone /\ h \notin gone /\ t \in DOMAIN db' /\ h \in DOMAIN db'
    BY <1>1, <1>2, <2>1, <2>2 DEF R!Rows
  <2>8. db[h].vehicle_id \notin gone
    BY <1>1, <2>2, <2>7 DEF R!Rows
  <2>9. db'[e].trigger_id = t /\ db'[e].hook_id = h
    BY <1>6, <2>1, <2>4, <2>6, <2>7
  <2>10. db'[h].vehicle_id = db[h].vehicle_id
    BY <1>6, <2>5, <2>7, <2>8
  <2>11. /\ db'[t].telemetry_id = db[t].telemetry_id /\ db'[t].vehicle_id = db[t].vehicle_id
         /\ db[t].telemetry_id \in DOMAIN db'
    <3>1. t \in R!Rows("triggers")'
      BY <1>5, <2>2, <2>7
    <3> QED
      BY <1>7, <3>1
  <2>12. db'[e].telemetry_id = db[e].telemetry_id
    BY <1>2, <1>6, <2>1, <2>3, <2>4, <2>11
  <2> QED
    BY <2>3, <2>9, <2>10, <2>11, <2>12
<1>9. R!ExecutionFindsInputs'
  BY <1>7, <1>8 DEF R!ExecutionFindsInputs, R!There
<1> QED
  BY <1>4, <1>9

----------------------------------------------------------------------------
(* What an insertion has to bring.                                          *)

\* Of these rows, a trigger is about one reading, with its device and its vehicle, and an
\* execution is about the reading of its trigger.
AboutOneReading(rows, t) ==
  LET reading == rows[t].telemetry_id IN
  /\ reading # None
  /\ reading \in DOMAIN rows
  /\ rows[t].device_id = rows[reading].device_id
  /\ rows[t].vehicle_id = rows[reading].vehicle_id
  /\ rows[t].device_id \in DOMAIN rows

RunsItsTrigger(rows, e) ==
  /\ rows[e].telemetry_id = rows[rows[e].trigger_id].telemetry_id
  /\ rows[rows[e].hook_id].vehicle_id \in {None, rows[rows[e].trigger_id].vehicle_id}

LEMMA InputsByRow ==
  R!ExecutionFindsInputs <=> /\ \A t \in R!Rows("triggers") : AboutOneReading(db, t)
                           /\ \A e \in R!Rows("hook_executions") : RunsItsTrigger(db, e)
BY DEF R!ExecutionFindsInputs, AboutOneReading, RunsItsTrigger, R!There

\* New rows that fit and are about one reading keep what holds; only the state of the
\* vehicle is written over.
LEMMA InsertKept ==
  ASSUME RecordsInv, NEW rows, db' = R!Over(rows, db),
         \A id \in DOMAIN rows : /\ IsId(id)
                                 /\ id[1] \in Tables \ {"vehicles"}
                                 /\ id \in DOMAIN db => id[1] = "vehicle_state"
                                 /\ Fits(id[1], rows[id], DOMAIN db \cup DOMAIN rows),
         \A id \in DOMAIN rows : id[1] = "triggers" => AboutOneReading(db', id),
         \A id \in DOMAIN rows : id[1] = "hook_executions" => RunsItsTrigger(db', id)
  PROVE  RecordsInv'
<1> USE DEF RecordsInv
<1>1. /\ DOMAIN db' = DOMAIN db \cup DOMAIN rows
      /\ \A id \in DOMAIN rows : db'[id] = rows[id]
      /\ \A id \in DOMAIN db \ DOMAIN rows : db'[id] = db[id]
  BY DEF R!Over
<1>2. \A id \in DOMAIN db : id[1] # "vehicle_state" => db'[id] = db[id]
  BY <1>1
<1>3. ASSUME NEW id \in DOMAIN db' PROVE Fits(id[1], db'[id], DOMAIN db')
  <2>1. CASE id \in DOMAIN rows
    BY <1>1, <2>1
  <2>2. CASE id \notin DOMAIN rows
    <3>1. Fits(id[1], db[id], DOMAIN db) /\ db'[id] = db[id]
      BY <1>1, <2>2 DEF KeysHold
    <3> QED
      BY <1>1, <3>1 DEF Fits
  <2> QED
    BY <2>1, <2>2
<1>4. KeysHold' /\ OneVehicle'
  BY <1>1, <1>3 DEF KeysHold, OneVehicle
<1>5. ASSUME NEW t \in R!Rows("triggers") PROVE AboutOneReading(db', t)
  <2>1. AboutOneReading(db, t) /\ db[t].telemetry_id \in R!Rows("telemetry")
    BY InputsByRow, RecordsFind
  <2>2. db'[t] = db[t] /\ db'[db[t].telemetry_id] = db[db[t].telemetry_id]
    BY <1>2, <2>1 DEF R!Rows
  <2> QED
    BY <1>1, <2>1, <2>2 DEF AboutOneReading
<1>6. ASSUME NEW e \in R!Rows("hook_executions") PROVE RunsItsTrigger(db', e)
  <2>1. RunsItsTrigger(db, e) /\ db[e].trigger_id \in R!Rows("triggers") /\ db[e].hook_id \in R!Rows("hooks")
    BY InputsByRow, RecordsFind
  <2>2. db'[e] = db[e] /\ db'[db[e].trigger_id] = db[db[e].trigger_id] /\ db'[db[e].hook_id] = db[db[e].hook_id]
    BY <1>2, <2>1 DEF R!Rows
  <2> QED
    BY <2>1, <2>2 DEF RunsItsTrigger
<1>7. \A table : R!Rows(table)' = {id \in DOMAIN db' : id[1] = table}
  BY DEF R!Rows
<1>8. \A t \in R!Rows("triggers")' : AboutOneReading(db', t)
  BY <1>1, <1>5, <1>7 DEF R!Rows
<1>9. \A e \in R!Rows("hook_executions")' : RunsItsTrigger(db', e)
  BY <1>1, <1>6, <1>7 DEF R!Rows
<1>10. R!ExecutionFindsInputs'
  BY <1>8, <1>9 DEF R!ExecutionFindsInputs, AboutOneReading, RunsItsTrigger, R!There
<1> QED
  BY <1>4, <1>10

\* The keys of the tables into which the requests insert, one table at a time.
LEMMA FitsKeys ==
  ASSUME NEW table, NEW keys, keys = {k \in R!Keys : k.table = table}, NEW row, NEW ids,
         DOMAIN row = {k.column : k \in keys},
         \A k \in keys : \/ row[k.column] \in ids /\ row[k.column][1] = k.parent
                         \/ row[k.column] = None /\ (k.ondelete = "set_null" \/ table = "hooks")
  PROVE  Fits(table, row, ids)
BY DEF Fits

LEMMA KeysOfTables ==
  /\ {k \in R!Keys : k.table = "telemetry"} = R!ReadingKeys
  /\ {k \in R!Keys : k.table = "triggers"} = R!TriggerKeys
  /\ {k \in R!Keys : k.table = "hook_executions"} = R!ExecutionKeys
  /\ {k \in R!Keys : k.table = "vehicle_state"} = R!StateKeys
  /\ {k \in R!Keys : k.table = "hooks"} = R!HookKeys
  /\ {k \in R!Keys : k.table = "hook_revisions"} =
       {R!Key("hook_revisions", "hook_id", "hooks", "cascade"), R!Key("hook_revisions", "created_by", "users", "cascade")}
  /\ {k \in R!Keys : k.table = "hook_state"} = {R!Key("hook_state", "hook_id", "hooks", "cascade")}
  /\ {k \in R!Keys : k.table = "vehicle_access_grants"} =
       {R!Key("vehicle_access_grants", "user_id", "users", "cascade"),
        R!Key("vehicle_access_grants", "vehicle_id", "vehicles", "cascade")}
BY DEF R!Keys, R!AccountKeys, R!GarageKeys, R!DeviceKeys, R!HookKeys, R!RevisionKeys,
       R!SharedKeys, R!ReadingKeys, R!StateKeys, R!TriggerKeys, R!ExecutionKeys, R!Key

LEMMA VehicleIsThere ==
  ASSUME RecordsInv, NEW a \in R!Rows("devices")
  PROVE  R!There(R!Vehicle) /\ R!There(a) /\ a[1] = "devices"
<1>1. db[a].vehicle_id \in R!Rows("vehicles")
  BY KeysListed, CascadeFinds DEF RecordsInv
<1> QED
  BY <1>1 DEF R!Rows, R!There, RecordsInv, OneVehicle

\* The rows of one run: its trigger and an execution of it.
TriggerRow(d, r) == [vehicle_id |-> R!Vehicle, device_id |-> d, telemetry_id |-> r]
ExecutionRow(h, t, r) == [hook_id |-> h, trigger_id |-> t, telemetry_id |-> r]

\* A reading, and what the vehicle shows
ReadingRow(d) == [vehicle_id |-> R!Vehicle, device_id |-> d]
StateRow(r) == [vehicle_id |-> R!Vehicle, telemetry_id |-> r]

LEMMA TriggerFits ==
  ASSUME NEW ids, NEW d \in ids, NEW r \in ids, R!Vehicle \in ids, d[1] = "devices",
         r[1] = "telemetry"
  PROVE  Fits("triggers", TriggerRow(d, r), ids)
<1> DEFINE row == TriggerRow(d, r)
<1>1. DOMAIN row = {k.column : k \in R!TriggerKeys}
  BY DEF R!TriggerKeys, R!Key, TriggerRow
<1>2. \A k \in R!TriggerKeys : row[k.column] \in ids /\ row[k.column][1] = k.parent
  BY DEF R!TriggerKeys, R!Key, TriggerRow, R!Vehicle, R!Id
<1> HIDE DEF row
<1>3. Fits("triggers", row, ids)
  BY <1>1, <1>2, KeysOfTables, FitsKeys
<1> QED
  BY <1>3 DEF row

LEMMA ExecutionFits ==
  ASSUME NEW ids, NEW h \in ids, NEW t \in ids, NEW r \in ids,
         h[1] = "hooks", t[1] = "triggers", r[1] = "telemetry"
  PROVE  Fits("hook_executions", ExecutionRow(h, t, r), ids)
<1> DEFINE row == ExecutionRow(h, t, r)
<1>1. DOMAIN row = {k.column : k \in R!ExecutionKeys}
  BY DEF R!ExecutionKeys, R!Key, ExecutionRow
<1>2. \A k \in R!ExecutionKeys : row[k.column] \in ids /\ row[k.column][1] = k.parent
  BY DEF R!ExecutionKeys, R!Key, ExecutionRow
<1> HIDE DEF row
<1>3. Fits("hook_executions", row, ids)
  BY <1>1, <1>2, KeysOfTables, FitsKeys
<1> QED
  BY <1>3 DEF row

LEMMA ReadingFits ==
  ASSUME NEW ids, NEW d \in ids, R!Vehicle \in ids, d[1] = "devices"
  PROVE  Fits("telemetry", ReadingRow(d), ids)
<1> DEFINE row == ReadingRow(d)
<1>1. DOMAIN row = {k.column : k \in R!ReadingKeys}
  BY DEF R!ReadingKeys, R!Key, ReadingRow
<1>2. \A k \in R!ReadingKeys : row[k.column] \in ids /\ row[k.column][1] = k.parent
  BY DEF R!ReadingKeys, R!Key, ReadingRow, R!Vehicle, R!Id
<1> HIDE DEF row
<1>3. Fits("telemetry", row, ids)
  BY <1>1, <1>2, KeysOfTables, FitsKeys
<1> QED
  BY <1>3 DEF row

LEMMA StateFits ==
  ASSUME NEW ids, NEW r \in ids, R!Vehicle \in ids, r[1] = "telemetry"
  PROVE  Fits("vehicle_state", StateRow(r), ids)
<1> DEFINE row == StateRow(r)
<1>1. DOMAIN row = {k.column : k \in R!StateKeys}
  BY DEF R!StateKeys, R!Key, StateRow
<1>2. \A k \in R!StateKeys : row[k.column] \in ids /\ row[k.column][1] = k.parent
  BY DEF R!StateKeys, R!Key, StateRow, R!Vehicle, R!Id
<1> HIDE DEF row
<1>3. Fits("vehicle_state", row, ids)
  BY <1>1, <1>2, KeysOfTables, FitsKeys
<1> QED
  BY <1>3 DEF row

LEMMA HookFits ==
  ASSUME NEW ids, NEW u \in ids, NEW v, v = None \/ (v \in ids /\ v[1] = "vehicles"), u[1] = "users"
  PROVE  Fits("hooks", [created_by |-> u, vehicle_id |-> v], ids)
<1> DEFINE row == [created_by |-> u, vehicle_id |-> v]
<1>1. DOMAIN row = {k.column : k \in R!HookKeys}
  BY DEF R!HookKeys, R!Key
<1>2. \A k \in R!HookKeys : \/ row[k.column] \in ids /\ row[k.column][1] = k.parent
                          \/ row[k.column] = None
  BY DEF R!HookKeys, R!Key
<1> HIDE DEF row
<1>3. Fits("hooks", row, ids)
  BY <1>1, <1>2, KeysOfTables, FitsKeys
<1> QED
  BY <1>3 DEF row

LEMMA RevisionFits ==
  ASSUME NEW ids, NEW u \in ids, NEW h \in ids, h[1] = "hooks", u[1] = "users"
  PROVE  Fits("hook_revisions", [hook_id |-> h, created_by |-> u], ids)
<1> DEFINE row == [hook_id |-> h, created_by |-> u]
           keys == {R!Key("hook_revisions", "hook_id", "hooks", "cascade"),
                    R!Key("hook_revisions", "created_by", "users", "cascade")}
<1>1. DOMAIN row = {k.column : k \in keys}
  BY DEF R!Key
<1>2. \A k \in keys : row[k.column] \in ids /\ row[k.column][1] = k.parent
  BY DEF R!Key
<1> HIDE DEF row
<1>3. Fits("hook_revisions", row, ids)
  BY <1>1, <1>2, KeysOfTables, FitsKeys
<1> QED
  BY <1>3 DEF row

LEMMA HookStateFits ==
  ASSUME NEW ids, NEW h \in ids, h[1] = "hooks"
  PROVE  Fits("hook_state", [hook_id |-> h], ids)
<1> DEFINE row == [hook_id |-> h]
           keys == {R!Key("hook_state", "hook_id", "hooks", "cascade")}
<1>1. DOMAIN row = {k.column : k \in keys}
  BY DEF R!Key
<1>2. \A k \in keys : row[k.column] \in ids /\ row[k.column][1] = k.parent
  BY DEF R!Key
<1> HIDE DEF row
<1>3. Fits("hook_state", row, ids)
  BY <1>1, <1>2, KeysOfTables, FitsKeys
<1> QED
  BY <1>3 DEF row

LEMMA NewIds ==
  ASSUME NEW table, NEW max, NEW n, NEW id \in R!New(table, max, n)
  PROVE  /\ IsId(id) /\ id[1] = table /\ ~R!There(id)
         /\ id[2] \in 1 .. max
<1>1. PICK m \in 1 .. max : id = R!Id(table, m) /\ ~R!There(R!Id(table, m))
  BY DEF R!New
<1> QED
  BY <1>1 DEF R!Id, IsId

\* A set of readings that is not empty has a last one.
LEMMA HasLast ==
  ASSUME NEW n \in Nat, NEW S \in SUBSET (1 .. n), S # {}
  PROVE  \E m \in S : \A x \in S : x <= m
<1> DEFINE After(x) == {y \in S : x < y}
           Order == StrictSubsetOrdering(S)
<1>0. \A x \in S : x \in Nat
  OBVIOUS
<1>1. IsFiniteSet(S)
  <2>1. IsFiniteSet(1 .. n)
    BY FS_Interval
  <2> QED
    BY <2>1, FS_Subset
<1>2. IsWellFoundedOn(Order, SUBSET S)
  BY <1>1, FS_StrictSubsetOrderingWellFounded, FS_FiniteSubsetsOfFinite
<1>3. \E m \in S : \A x \in S : <<After(x), After(m)>> \notin Order
  <2> DEFINE T == {After(x) : x \in S}
  <2>1. T \subseteq SUBSET S /\ T # {}
    OBVIOUS
  <2>2. \E a \in T : \A b \in T : ~(<<b, a>> \in Order)
    <3> HIDE DEF T, Order
    <3> QED
      BY <1>2, <2>1, WFMin
  <2> QED
    BY <2>2
<1>4. PICK m \in S : \A x \in S : <<After(x), After(m)>> \notin Order
  BY <1>3
<1>5. ASSUME NEW x \in S, m < x PROVE <<After(x), After(m)>> \in Order
  <2>1. m \in Nat /\ x \in Nat /\ \A y \in S : x < y => m < y
    BY <1>0, <1>5
  <2>2. After(x) \subseteq After(m)
    BY <2>1
  <2>3. x \in After(m) /\ x \notin After(x)
    BY <1>5, <2>1
  <2> QED
    BY <2>2, <2>3 DEF StrictSubsetOrdering
<1>6. \A x \in S : ~(m < x)
  <2> HIDE DEF Order, After
  <2> QED
    BY <1>4, <1>5
<1> QED
  BY <1>0, <1>6

----------------------------------------------------------------------------
(* What each request inserts.                                               *)

\* The rows of a run: its trigger, and its executions by the hooks they are of.
LEMMA IdsOfRun ==
  ASSUME NEW t, NEW d, NEW r, NEW ids
  PROVE  DOMAIN R!Runs(t, d, r, ids) = {t} \cup R!Range(ids)
BY DEF R!Runs, R!Over, R!Row

LEMMA RowsOfRun ==
  ASSUME NEW t, NEW d, NEW r, NEW ids, t \notin R!Range(ids)
  PROVE  /\ R!Runs(t, d, r, ids)[t] = TriggerRow(d, r)
         /\ \A e \in R!Range(ids) : \E h \in DOMAIN ids :
              R!Runs(t, d, r, ids)[e] = ExecutionRow(h, t, r)
<1> DEFINE trig == R!Row(t, TriggerRow(d, r))
           hookOf(e) == CHOOSE h \in DOMAIN ids : ids[h] = e
           execs == [e \in R!Range(ids) |-> ExecutionRow(hookOf(e), t, r)]
<1>1. R!Runs(t, d, r, ids) = R!Over(trig, execs)
  BY DEF R!Runs, TriggerRow, ExecutionRow
<1>2. DOMAIN trig = {t} /\ trig[t] = TriggerRow(d, r)
  BY DEF R!Row
<1>3. \A e \in R!Range(ids) : hookOf(e) \in DOMAIN ids
  BY DEF R!Range
<1>4. DOMAIN execs = R!Range(ids) /\ \A e \in R!Range(ids) :
        execs[e] = ExecutionRow(hookOf(e), t, r)
  OBVIOUS
<1> HIDE DEF trig, execs, hookOf
<1>5. /\ R!Over(trig, execs)[t] = trig[t]
      /\ \A e \in R!Range(ids) : R!Over(trig, execs)[e] = execs[e]
  BY <1>2, <1>4 DEF R!Over
<1> QED
  BY <1>1, <1>2, <1>3, <1>4, <1>5

LEMMA QueueKept ==
  ASSUME RecordsInv, NEW h \in R!Rows("hooks"), NEW r \in R!Rows("telemetry"), R!Queue(h, r)
  PROVE  RecordsInv'
<1> USE DEF RecordsInv
<1> DEFINE d == db[r].device_id
<1>1. PICK t \in R!New("triggers", MaxRuns, 1), e \in R!New("hook_executions", MaxRuns, 1) :
        db' = R!Over(R!Runs(t, d, r, R!Row(h, e)), db)
  BY DEF R!Queue, R!Insert
<1>2. d \in R!Rows("devices") /\ db[r].vehicle_id \in R!Rows("vehicles") /\ db[h].vehicle_id \in R!Rows("vehicles") \cup {None}
  BY RecordsFind
<1>3. db[r].vehicle_id = R!Vehicle /\ R!There(R!Vehicle) /\ db[h].vehicle_id \in {R!Vehicle, None}
  BY <1>2 DEF OneVehicle, R!Rows, R!There
<1>4. /\ t[1] = "triggers" /\ IsId(t) /\ ~R!There(t)
      /\ e[1] = "hook_executions" /\ IsId(e) /\ ~R!There(e)
  BY NewIds
<1> DEFINE rows == R!Runs(t, d, r, R!Row(h, e))
<1>5. /\ DOMAIN rows = {t, e}
      /\ rows[t] = TriggerRow(d, r)
      /\ rows[e] = ExecutionRow(h, t, r)
  <2>1. DOMAIN R!Row(h, e) = {h} /\ R!Range(R!Row(h, e)) = {e} /\ t \notin {e}
    BY <1>4 DEF R!Row, R!Range
  <2>2. t \notin R!Range(R!Row(h, e))
    BY <2>1
  <2>3. /\ DOMAIN rows = {t} \cup R!Range(R!Row(h, e))
        /\ rows[t] = TriggerRow(d, r)
        /\ \A x \in R!Range(R!Row(h, e)) : \E y \in DOMAIN R!Row(h, e) :
             rows[x] = ExecutionRow(y, t, r)
    <3> HIDE DEF d
    <3>1. DOMAIN rows = {t} \cup R!Range(R!Row(h, e))
      BY IdsOfRun
    <3>2. /\ rows[t] = TriggerRow(d, r)
          /\ \A x \in R!Range(R!Row(h, e)) : \E y \in DOMAIN R!Row(h, e) :
               rows[x] = ExecutionRow(y, t, r)
      BY <2>2, RowsOfRun
    <3> QED
      BY <3>1, <3>2
  <2> HIDE DEF rows
  <2> QED
    BY <2>1, <2>3
<1>6. d[1] = "devices" /\ d \in DOMAIN db /\ r[1] = "telemetry" /\ r \in DOMAIN db /\ h[1] = "hooks" /\ h \in DOMAIN db
  BY <1>2 DEF R!Rows
<1> HIDE DEF rows
<1>7. /\ Fits("triggers", rows[t], DOMAIN db \cup DOMAIN rows)
      /\ Fits("hook_executions", rows[e], DOMAIN db \cup DOMAIN rows)
  <2> DEFINE all == DOMAIN db \cup DOMAIN rows
  <2>1. d \in all /\ r \in all /\ h \in all /\ t \in all /\ R!Vehicle \in all
    BY <1>3, <1>5, <1>6 DEF R!There
  <2> HIDE DEF all
  <2>2. Fits("triggers", rows[t], all)
    BY <1>5, <1>6, <2>1, TriggerFits
  <2>3. Fits("hook_executions", rows[e], all)
    BY <1>4, <1>5, <1>6, <2>1, ExecutionFits
  <2> QED
    BY <2>2, <2>3 DEF all
<1>8. /\ db'[t] = rows[t] /\ db'[e] = rows[e] /\ db'[r] = db[r] /\ db'[h] = db[h]
      /\ DOMAIN db' = DOMAIN db \cup {t, e}
  BY <1>1, <1>4, <1>5, <1>6 DEF R!Over, R!There, rows
<1>9. AboutOneReading(db', t)
  <2>1. r # None
    BY <1>6, NoneIsNoId DEF OneVehicle
  <2>2. db'[t].telemetry_id = r /\ db'[t].device_id = d /\ db'[t].vehicle_id = R!Vehicle
    BY <1>5, <1>8 DEF TriggerRow, ExecutionRow
  <2> QED
    BY <1>3, <1>6, <1>8, <2>1, <2>2 DEF AboutOneReading
<1>10. RunsItsTrigger(db', e)
  <2>1. db'[t].telemetry_id = r /\ db'[t].vehicle_id = R!Vehicle
    BY <1>5, <1>8 DEF TriggerRow, ExecutionRow
  <2>2. db'[e].telemetry_id = r /\ db'[e].trigger_id = t /\ db'[e].hook_id = h
    BY <1>5, <1>8 DEF TriggerRow, ExecutionRow
  <2> QED
    BY <1>3, <1>8, <2>1, <2>2 DEF RunsItsTrigger
<1>11. \A id \in DOMAIN rows : /\ IsId(id)
                               /\ id[1] \in Tables \ {"vehicles"}
                               /\ id \in DOMAIN db => id[1] = "vehicle_state"
                               /\ Fits(id[1], rows[id], DOMAIN db \cup DOMAIN rows)
  BY <1>4, <1>5, <1>7 DEF R!There, Tables
<1>12. \A id \in DOMAIN rows : /\ id[1] = "triggers" => AboutOneReading(db', id)
                               /\ id[1] = "hook_executions" => RunsItsTrigger(db', id)
  BY <1>4, <1>5, <1>9, <1>10
<1> QED
  BY <1>1, <1>11, <1>12, InsertKept DEF rows

LEMMA TestHookKept ==
  ASSUME RecordsInv, R!TestHook
  PROVE  RecordsInv'
BY QueueKept DEF R!TestHook

LEMMA RetryKept ==
  ASSUME RecordsInv, R!RetryExecution
  PROVE  RecordsInv'
<1>1. PICK old \in R!Rows("hook_executions") :
        db[old].telemetry_id # None /\ R!Queue(db[old].hook_id, db[old].telemetry_id)
  BY DEF R!RetryExecution
<1>2. db[old].hook_id \in R!Rows("hooks") /\ db[old].trigger_id \in R!Rows("triggers")
  BY RecordsFind DEF RecordsInv
<1>3. db[old].telemetry_id = db[db[old].trigger_id].telemetry_id
  BY DEF RecordsInv, R!ExecutionFindsInputs
<1>4. db[old].telemetry_id \in R!Rows("telemetry")
  BY <1>2, <1>3, RecordsFind DEF RecordsInv
<1> QED
  BY <1>1, <1>2, <1>4, QueueKept

LEMMA AddHookKept ==
  ASSUME RecordsInv, R!AddHook
  PROVE  RecordsInv'
<1> USE DEF RecordsInv
<1>1. PICK h \in R!New("hooks", MaxHooks, 1), u \in R!Rows("users"), v \in {None, R!Vehicle} :
        LET first == R!Id("hook_revisions", h[2]) IN
        /\ ~R!There(first)
        /\ R!Insert(R!Over(R!Row(h, [created_by |-> u, vehicle_id |-> v]),
                       R!Row(first, [hook_id |-> h, created_by |-> u])))
  BY DEF R!AddHook
<1> DEFINE first == R!Id("hook_revisions", h[2])
           rows == R!Over(R!Row(h, [created_by |-> u, vehicle_id |-> v]), R!Row(first, [hook_id |-> h, created_by |-> u]))
<1>2. ~R!There(first) /\ R!Insert(rows)
  BY <1>1
<1>3. /\ h[1] = "hooks" /\ IsId(h) /\ ~R!There(h)
      /\ u[1] = "users" /\ u \in DOMAIN db
      /\ first[1] = "hook_revisions" /\ IsId(first)
  BY NewIds DEF R!Rows, R!Id, IsId
<1> HIDE DEF first
<1>4. /\ DOMAIN rows = {h, first}
      /\ rows[h] = [created_by |-> u, vehicle_id |-> v]
      /\ rows[first] = [hook_id |-> h, created_by |-> u]
  BY <1>3 DEF R!Over, R!Row
<1> HIDE DEF rows
<1>5. db' = R!Over(rows, db) /\ R!Range(rows[h]) \subseteq DOMAIN db \cup DOMAIN rows \cup {None}
  BY <1>2, <1>4 DEF R!Insert
<1>6. v = None \/ (v \in DOMAIN db \cup DOMAIN rows /\ v[1] = "vehicles")
  <2>1. v \in R!Range(rows[h])
    BY <1>4 DEF R!Range
  <2> QED
    BY <1>5, <2>1 DEF R!Vehicle, R!Id
<1>7. Fits("hooks", rows[h], DOMAIN db \cup DOMAIN rows) /\ Fits("hook_revisions", rows[first], DOMAIN db \cup DOMAIN rows)
  BY <1>3, <1>4, <1>6, HookFits, RevisionFits
<1> QED
  BY <1>2, <1>3, <1>4, <1>5, <1>7, InsertKept DEF R!There, Tables

LEMMA SaveStateKept ==
  ASSUME RecordsInv, R!SaveState
  PROVE  RecordsInv'
<1> USE DEF RecordsInv
<1>1. PICK e \in R!Rows("hook_executions") :
        LET state == R!Id("hook_state", db[e].hook_id[2]) IN ~R!There(state) /\ R!Insert(R!Row(state, [hook_id |-> db[e].hook_id]))
  BY DEF R!SaveState
<1> DEFINE h == db[e].hook_id
           state == R!Id("hook_state", h[2])
           rows == R!Row(state, [hook_id |-> h])
<1>2. ~R!There(state) /\ db' = R!Over(rows, db)
  BY <1>1 DEF R!Insert
<1>3. h \in R!Rows("hooks")
  BY RecordsFind
<1>4. h \in DOMAIN db /\ h[1] = "hooks"
  BY <1>3 DEF R!Rows
<1>5. state[1] = "hook_state" /\ IsId(state)
  BY <1>4 DEF R!Id, IsId, OneVehicle
<1>6. DOMAIN rows = {state} /\ rows[state] = [hook_id |-> h]
  BY DEF R!Row
<1> HIDE DEF h, state, rows
<1>7. Fits("hook_state", rows[state], DOMAIN db \cup DOMAIN rows)
  BY <1>4, <1>6, HookStateFits
<1> QED
  BY <1>2, <1>5, <1>6, <1>7, InsertKept DEF R!There, Tables

LEMMA BatchHasNewest ==
  ASSUME NEW n, NEW batch, batch = R!New("telemetry", MaxSamples, n), batch # {}
  PROVE  \E r \in batch : \A other \in batch : other[2] <= r[2]
<1> DEFINE S == {r[2] : r \in batch}
<1>1. S \in SUBSET (1 .. MaxSamples) /\ S # {} /\ MaxSamples \in Nat
  BY NewIds, NoneIsNoTable
<1>2. PICK m \in S : \A x \in S : x <= m
  <2> HIDE DEF S
  <2> QED
    BY <1>1, HasLast
<1> QED
  BY <1>2

\* A batch is stored with its trigger and the executions of the hooks that fire.
LEMMA IngestKept ==
  ASSUME RecordsInv, NEW a \in R!Rows("devices"), R!Ingest(a)
  PROVE  RecordsInv'
<1> USE DEF RecordsInv
<1>1. PICK size \in 1 .. MaxSamples, t \in R!New("triggers", MaxRuns, 1),
      fired \in SUBSET R!Matching :
        LET batch == R!New("telemetry", MaxSamples, size)
            newest == CHOOSE r \in batch : \A other \in batch : other[2] <= r[2]
            stored == [r \in batch |-> [vehicle_id |-> R!Vehicle, device_id |-> a]]
            state == R!Id("vehicle_state", 1)
            current == R!Row(state, [vehicle_id |-> R!Vehicle, telemetry_id |-> newest])
        IN
        /\ R!There(a)
        /\ R!Cardinality(batch) = size
        /\ \E ids \in R!Bijection(fired, R!New("hook_executions", MaxRuns, R!Cardinality(fired))) :
             LET fresh == R!Over(stored, R!Runs(t, a, newest, ids)) IN
             R!Insert(R!Over(current, fresh)) \/ (R!There(state) /\ R!Insert(fresh))
  BY DEF R!Ingest
<1> DEFINE batch == R!New("telemetry", MaxSamples, size)
           newest == CHOOSE r \in batch : \A other \in batch : other[2] <= r[2]
           stored == [r \in batch |-> ReadingRow(a)]
           state == R!Id("vehicle_state", 1)
           current == R!Row(state, StateRow(newest))
           execs == R!New("hook_executions", MaxRuns, R!Cardinality(fired))
           fresh(ids) == R!Over(stored, R!Runs(t, a, newest, ids))
<1>2. PICK ids \in R!Bijection(fired, execs) :
        R!Insert(R!Over(current, fresh(ids))) \/ R!Insert(fresh(ids))
  BY <1>1 DEF ReadingRow, StateRow
<1>3. PICK rows : rows \in {R!Over(current, fresh(ids)), fresh(ids)} /\ db' = R!Over(rows, db)
  BY <1>2 DEF R!Insert
<1>4. newest \in batch
  <2>1. batch # {}
    <3>1. Cardinality(batch) = size /\ size # 0
      BY <1>1 DEF R!Cardinality, Cardinality
    <3> HIDE DEF batch
    <3> QED
      BY <3>1, FS_EmptySet
  <2> DEFINE Newest(r) == \A other \in batch : other[2] <= r[2]
  <2>2. \E r \in batch : Newest(r)
    BY <2>1, BatchHasNewest
  <2>3. newest = CHOOSE r \in batch : Newest(r)
    OBVIOUS
  <2> HIDE DEF Newest, newest, batch
  <2> QED
    BY <2>2, <2>3
<1>5. \A r \in batch : r[1] = "telemetry" /\ IsId(r) /\ ~R!There(r)
  BY NewIds
<1>6. t[1] = "triggers" /\ IsId(t) /\ ~R!There(t)
  BY NewIds
<1>7. R!Range(ids) \subseteq execs /\ DOMAIN ids = fired
  BY DEF R!Bijection, R!Injection, R!Range
<1>8. \A e \in R!Range(ids) : e[1] = "hook_executions" /\ IsId(e) /\ ~R!There(e)
  BY <1>7, NewIds
<1>9. DOMAIN stored = batch /\ \A r \in batch : stored[r] = ReadingRow(a)
  OBVIOUS
<1>10. DOMAIN current = {state} /\ current[state] = StateRow(newest)
  BY DEF R!Row
<1>11. state[1] = "vehicle_state" /\ IsId(state)
  BY DEF R!Id, IsId
<1>12. R!There(R!Vehicle) /\ a \in DOMAIN db /\ a[1] = "devices"
  BY VehicleIsThere DEF R!There
<1>13. \A h \in fired : h \in DOMAIN db /\ h[1] = "hooks" /\ db[h].vehicle_id \in {None, R!Vehicle}
  BY DEF R!Matching, R!Rows
<1>14. \A r \in {newest} : IsId(r) /\ r[1] = "telemetry" /\ r \in batch
  BY <1>4, <1>5
<1> HIDE DEF batch, newest, stored, state, current, execs
<1> DEFINE run == R!Runs(t, a, newest, ids)
<1>15. DOMAIN run = {t} \cup R!Range(ids)
  BY IdsOfRun
<1>16. /\ run[t] = TriggerRow(a, newest)
       /\ \A e \in R!Range(ids) : \E h \in fired : run[e] = ExecutionRow(h, t, newest)
  <2>1. t \notin R!Range(ids)
    BY <1>6, <1>8
  <2> QED
    BY <1>7, <2>1, RowsOfRun
<1> HIDE DEF run
<1>17. DOMAIN fresh(ids) = batch \cup {t} \cup R!Range(ids)
  BY <1>9, <1>15 DEF R!Over, run
<1>18. /\ \A r \in batch : fresh(ids)[r] = ReadingRow(a)
       /\ fresh(ids)[t] = TriggerRow(a, newest)
       /\ \A e \in R!Range(ids) : \E h \in fired : fresh(ids)[e] = ExecutionRow(h, t, newest)
  <2>1. \A i \in {t} \cup R!Range(ids) : i \notin batch
    BY <1>5, <1>6, <1>8
  <2>2. \A r \in batch : fresh(ids)[r] = stored[r]
    BY <1>9 DEF R!Over
  <2>3. \A i \in {t} \cup R!Range(ids) : fresh(ids)[i] = run[i]
    BY <1>9, <1>15, <2>1 DEF R!Over, run
  <2> HIDE DEF fresh
  <2> QED
    BY <1>9, <1>16, <2>2, <2>3
<1> HIDE DEF fresh
<1>19. batch \cup {t} \cup R!Range(ids) \subseteq DOMAIN rows /\ DOMAIN rows \subseteq batch \cup {t} \cup R!Range(ids) \cup {state}
  BY <1>3, <1>10, <1>17 DEF R!Over
<1>20. \A i \in batch \cup {t} \cup R!Range(ids) : rows[i] = fresh(ids)[i]
  <2>1. \A i \in batch \cup {t} \cup R!Range(ids) : i # state
    BY <1>5, <1>6, <1>8, <1>11
  <2> QED
    BY <1>3, <1>10, <1>17, <2>1 DEF R!Over
<1>21. state \in DOMAIN rows => rows[state] = StateRow(newest)
  <2>1. state \notin DOMAIN fresh(ids)
    BY <1>5, <1>6, <1>8, <1>11, <1>17
  <2> QED
    BY <1>3, <1>10, <2>1 DEF R!Over
<1>22. ASSUME NEW id \in DOMAIN rows
       PROVE  /\ IsId(id)
              /\ id[1] \in Tables \ {"vehicles"}
              /\ id \in DOMAIN db => id[1] = "vehicle_state"
  BY <1>5, <1>6, <1>8, <1>11, <1>19 DEF R!There, Tables
<1> DEFINE all == DOMAIN db \cup DOMAIN rows
<1>23. R!Vehicle \in all /\ a \in all /\ newest \in all /\ t \in all /\ \A h \in fired : h \in all
  BY <1>4, <1>12, <1>13, <1>19 DEF R!There
<1> HIDE DEF all
<1>24. \A r \in batch : Fits("telemetry", rows[r], all)
  BY <1>12, <1>18, <1>20, <1>23, ReadingFits
<1>25. Fits("triggers", rows[t], all)
  BY <1>12, <1>14, <1>18, <1>20, <1>23, TriggerFits
<1>26. ASSUME NEW e \in R!Range(ids) PROVE Fits("hook_executions", rows[e], all)
  <2>1. PICK h \in fired : rows[e] = ExecutionRow(h, t, newest)
    BY <1>18, <1>20
  <2> QED
    BY <1>6, <1>13, <1>14, <1>23, <2>1, ExecutionFits
<1>27. state \in DOMAIN rows => Fits("vehicle_state", rows[state], all)
  BY <1>14, <1>21, <1>23, StateFits
<1>28. \A id \in DOMAIN rows : Fits(id[1], rows[id], all)
  BY <1>5, <1>6, <1>8, <1>11, <1>19, <1>24, <1>25, <1>26, <1>27
<1>29. /\ DOMAIN db' = all
       /\ \A i \in DOMAIN rows : db'[i] = rows[i]
       /\ \A h \in fired : db'[h] = db[h]
  <2>1. \A h \in fired : h \notin DOMAIN rows
    BY <1>5, <1>6, <1>8, <1>11, <1>13, <1>19
  <2> QED
    BY <1>3, <1>13, <2>1 DEF R!Over, all
<1>30. db'[t] = TriggerRow(a, newest) /\ db'[newest] = ReadingRow(a)
  BY <1>4, <1>18, <1>19, <1>20, <1>29
<1>31. AboutOneReading(db', t)
  <2>1. newest # None
    BY <1>14, NoneIsNoId DEF Tables
  <2>2. db'[t].telemetry_id = newest /\ db'[t].device_id = a /\ db'[t].vehicle_id = R!Vehicle
    BY <1>30 DEF TriggerRow
  <2>3. db'[newest].device_id = a /\ db'[newest].vehicle_id = R!Vehicle
    BY <1>30 DEF ReadingRow
  <2> QED
    BY <1>23, <1>29, <2>1, <2>2, <2>3 DEF AboutOneReading
<1>32. ASSUME NEW e \in R!Range(ids) PROVE RunsItsTrigger(db', e)
  <2>1. PICK h \in fired : db'[e] = ExecutionRow(h, t, newest)
    BY <1>18, <1>19, <1>20, <1>29
  <2>2. db'[e].telemetry_id = newest /\ db'[e].trigger_id = t /\ db'[e].hook_id = h
    BY <2>1 DEF ExecutionRow
  <2>3. db'[t].telemetry_id = newest /\ db'[t].vehicle_id = R!Vehicle
    BY <1>30 DEF TriggerRow
  <2>4. db'[h].vehicle_id \in {None, R!Vehicle}
    BY <1>13, <1>29
  <2> QED
    BY <2>2, <2>3, <2>4 DEF RunsItsTrigger
<1>33. \A id \in DOMAIN rows : /\ id[1] = "triggers" => AboutOneReading(db', id)
                               /\ id[1] = "hook_executions" => RunsItsTrigger(db', id)
  BY <1>5, <1>6, <1>8, <1>11, <1>19, <1>31, <1>32
<1> QED
  BY <1>3, <1>22, <1>28, <1>33, InsertKept DEF all

LEMMA RemovalKept ==
  ASSUME RecordsInv,
         R!RemoveAccount \/ R!RemoveVehicle \/ R!RemoveDevice \/ R!RemoveHook \/ R!ClearTelemetry
  PROVE  RecordsInv'
<1>1. \E deleted \in SUBSET DOMAIN db : R!Delete(deleted)
  BY DEF R!RemoveAccount, R!RemoveVehicle, R!RemoveDevice, R!RemoveHook, R!ClearTelemetry,
         R!Rows, R!There
<1> QED
  BY <1>1, DeleteKept

LEMMA EmptyInv == db = <<>> => RecordsInv
BY DEF RecordsInv, KeysHold, OneVehicle, R!ExecutionFindsInputs, R!Rows

LEMMA RecordsInductive ==
  ASSUME RecordsInv, [R!Next]_db
  PROVE  RecordsInv'
<1>1. CASE UNCHANGED db
  BY <1>1 DEF RecordsInv, KeysHold, OneVehicle, R!ExecutionFindsInputs, R!Rows, R!There
<1>2. CASE \E d \in R!Rows("devices") : R!Ingest(d)
  BY <1>2, IngestKept
<1>3. CASE R!TestHook \/ R!RetryExecution \/ R!AddHook \/ R!SaveState
  BY <1>3, TestHookKept, RetryKept, AddHookKept, SaveStateKept
<1>4. CASE R!RemoveAccount \/ R!RemoveVehicle \/ R!RemoveDevice \/ R!RemoveHook \/ R!ClearTelemetry
  BY <1>4, RemovalKept
<1> QED
  BY <1>1, <1>2, <1>3, <1>4 DEF R!Next

\* A table with one key.
OnlyKey(table, column, parent) ==
  /\ \A k \in R!Keys : k.table = table => k.column = column /\ k.parent = parent
  /\ \E k \in R!Keys : k.table = table

LEMMA KeysOfFirst ==
  /\ OnlyKey("auth_identities", "user_id", "users")
  /\ OnlyKey("sessions", "user_id", "users")
  /\ OnlyKey("dashboards", "owner_id", "users")
  /\ OnlyKey("vehicle_profiles", "created_by", "users")
  /\ OnlyKey("vehicles", "created_by", "users")
  /\ OnlyKey("device_enrollment_tokens", "vehicle_id", "vehicles")
  /\ OnlyKey("devices", "vehicle_id", "vehicles")
  /\ OnlyKey("vehicle_photos", "vehicle_id", "vehicles")
  /\ \A k \in R!Keys : k.table # "users"
BY DEF OnlyKey, R!Keys, R!AccountKeys, R!GarageKeys, R!DeviceKeys, R!HookKeys, R!RevisionKeys,
       R!SharedKeys, R!ReadingKeys, R!StateKeys, R!TriggerKeys, R!ExecutionKeys, R!Key

LEMMA OneKeyFits ==
  ASSUME NEW table, NEW column, NEW parent, OnlyKey(table, column, parent),
         NEW row, NEW ids, DOMAIN row = {column}, row[column] \in ids, row[column][1] = parent
  PROVE  Fits(table, row, ids)
BY DEF OnlyKey, Fits

LEMMA InitInv ==
  ASSUME R!Init
  PROVE  RecordsInv
<1> DEFINE first == {"users", "auth_identities", "sessions", "dashboards", "vehicle_profiles", "vehicles",
                     "device_enrollment_tokens", "devices", "vehicle_access_grants",
                     "vehicle_photos"}
           ids == {R!Id(table, 1) : table \in first} \cup {R!Id("users", 2), R!Id("devices", 2)}
<1>1. DOMAIN db = ids
  BY DEF R!Init
<1>2. \A id \in ids : IsId(id) /\ id[1] \in first /\ (id[1] = "vehicles" => id = R!Vehicle)
  BY DEF R!Id, IsId, R!Vehicle
<1>3. R!Vehicle \in ids /\ R!Id("users", 1) \in ids /\ R!Id("users", 2) \in ids
  BY DEF R!Vehicle
<1>4. \A id \in ids :
        /\ id[1] = "users" => db[id] = <<>>
        /\ id[1] \in {"auth_identities", "sessions"} => db[id] = [user_id |-> R!Id("users", 2)]
        /\ id[1] = "dashboards" => db[id] = [owner_id |-> R!Id("users", 2)]
        /\ id[1] = "vehicle_profiles" => db[id] = [created_by |-> R!Id("users", 2)]
        /\ id[1] = "vehicles" => db[id] = [created_by |-> R!Id("users", 1)]
        /\ id[1] = "vehicle_access_grants" =>
             db[id] = [user_id |-> R!Id("users", 2), vehicle_id |-> R!Vehicle]
        /\ id[1] \in {"device_enrollment_tokens", "devices", "vehicle_photos"} =>
             db[id] = [vehicle_id |-> R!Vehicle]
  BY DEF R!Init
<1> HIDE DEF ids
<1>5. ASSUME NEW id \in ids PROVE Fits(id[1], db[id], ids)
  <2> DEFINE u(n) == R!Id("users", n)
  <2>1. u(1)[1] = "users" /\ u(2)[1] = "users" /\ R!Vehicle[1] = "vehicles" /\ u(1) \in ids /\ u(2) \in ids
    BY <1>3 DEF R!Id, R!Vehicle
  <2> HIDE DEF u
  <2>2. CASE id[1] = "users"
    <3>1. DOMAIN db[id] = {}
      BY <1>4, <2>2
    <3> QED
      BY <2>2, <3>1, KeysOfFirst DEF Fits
  <2>3. CASE id[1] \in {"auth_identities", "sessions"}
    <3>1. DOMAIN db[id] = {"user_id"} /\ db[id]["user_id"] = u(2)
      BY <1>4, <2>3 DEF u
    <3>2. CASE id[1] = "auth_identities"
      BY <2>1, <3>1, <3>2, KeysOfFirst, OneKeyFits
    <3>3. CASE id[1] = "sessions"
      BY <2>1, <3>1, <3>3, KeysOfFirst, OneKeyFits
    <3> QED
      BY <2>3, <3>2, <3>3
  <2>4. CASE id[1] = "dashboards"
    <3>1. DOMAIN db[id] = {"owner_id"} /\ db[id]["owner_id"] = u(2)
      BY <1>4, <2>4 DEF u
    <3> QED
      BY <2>1, <2>4, <3>1, KeysOfFirst, OneKeyFits
  <2>5. CASE id[1] = "vehicle_profiles"
    <3>1. DOMAIN db[id] = {"created_by"} /\ db[id]["created_by"] = u(2)
      BY <1>4, <2>5 DEF u
    <3> QED
      BY <2>1, <2>5, <3>1, KeysOfFirst, OneKeyFits
  <2>6. CASE id[1] = "vehicles"
    <3>1. DOMAIN db[id] = {"created_by"} /\ db[id]["created_by"] = u(1)
      BY <1>4, <2>6 DEF u
    <3> QED
      BY <2>1, <2>6, <3>1, KeysOfFirst, OneKeyFits
  <2>7. CASE id[1] \in {"device_enrollment_tokens", "devices", "vehicle_photos"}
    <3>1. DOMAIN db[id] = {"vehicle_id"} /\ db[id]["vehicle_id"] = R!Vehicle
      BY <1>4, <2>7
    <3>2. CASE id[1] = "device_enrollment_tokens"
      BY <1>3, <2>1, <3>1, <3>2, KeysOfFirst, OneKeyFits
    <3>3. CASE id[1] = "devices"
      BY <1>3, <2>1, <3>1, <3>3, KeysOfFirst, OneKeyFits
    <3>4. CASE id[1] = "vehicle_photos"
      BY <1>3, <2>1, <3>1, <3>4, KeysOfFirst, OneKeyFits
    <3> QED
      BY <2>7, <3>2, <3>3, <3>4
  <2>8. CASE id[1] = "vehicle_access_grants"
    <3> DEFINE keys == {R!Key("vehicle_access_grants", "user_id", "users", "cascade"),
                        R!Key("vehicle_access_grants", "vehicle_id", "vehicles", "cascade")}
               row == [user_id |-> u(2), vehicle_id |-> R!Vehicle]
    <3>1. db[id] = row
      BY <1>4, <2>8 DEF u
    <3>2. DOMAIN row = {k.column : k \in keys}
      BY DEF R!Key
    <3>3. \A k \in keys : row[k.column] \in ids /\ row[k.column][1] = k.parent
      BY <1>3, <2>1 DEF R!Key
    <3> HIDE DEF row
    <3>4. Fits("vehicle_access_grants", row, ids)
      BY <3>2, <3>3, KeysOfTables, FitsKeys
    <3> QED
      BY <2>8, <3>1, <3>4
  <2> QED
    BY <1>2, <2>2, <2>3, <2>4, <2>5, <2>6, <2>7, <2>8
<1>6. KeysHold
  BY <1>1, <1>5 DEF KeysHold
<1>7. OneVehicle
  BY <1>1, <1>2 DEF OneVehicle, Tables
<1>8. R!ExecutionFindsInputs
  BY <1>1, <1>2 DEF R!ExecutionFindsInputs, R!Rows
<1> QED
  BY <1>6, <1>7, <1>8 DEF RecordsInv

----------------------------------------------------------------------------
(* What goes with the vehicle.                                              *)

\* What is not the vehicle's: the row of an account, or a hook about every vehicle with
\* its revisions and its state.
NotItsOwn(id) ==
  \/ id[1] \in {"users", "auth_identities", "sessions", "dashboards", "vehicle_profiles"}
  \/ id[1] = "hooks" /\ db[id].vehicle_id = None
  \/ id[1] \in {"hook_revisions", "hook_state"} /\ db[db[id].hook_id].vehicle_id = None

LEMMA VehiclesFind ==
  ASSUME RecordsInv
  PROVE  /\ \A id \in DOMAIN db :
              id[1] \in {"device_enrollment_tokens", "devices", "vehicle_access_grants", "vehicle_photos",
                         "telemetry", "vehicle_state", "triggers"} => Ties(id, R!Vehicle)
         /\ \A id \in R!Rows("hooks") : Ties(id, R!Vehicle) \/ db[id].vehicle_id = None
         /\ \A id \in DOMAIN db : id[1] \in {"hook_revisions", "hook_state"} =>
              db[id].hook_id \in R!Rows("hooks") /\ Ties(id, db[id].hook_id)
<1> USE DEF RecordsInv
<1>1. \A id \in R!Rows("vehicles") : id = R!Vehicle
  BY DEF R!Rows, OneVehicle
<1>2. ASSUME NEW table, R!Key(table, "vehicle_id", "vehicles", "cascade") \in R!Keys,
             NEW id \in R!Rows(table)
      PROVE  Ties(id, R!Vehicle) \/ (table = "hooks" /\ db[id].vehicle_id = None)
  BY <1>1, <1>2, CascadeFinds
<1>3. ASSUME NEW table, R!Key(table, "hook_id", "hooks", "cascade") \in R!Keys,
             NEW id \in R!Rows(table), table # "hooks"
      PROVE  db[id].hook_id \in R!Rows("hooks") /\ Ties(id, db[id].hook_id)
  BY <1>3, CascadeFinds
<1>4. ASSUME NEW id \in DOMAIN db,
             id[1] \in {"device_enrollment_tokens", "devices", "vehicle_access_grants", "vehicle_photos",
                        "telemetry", "vehicle_state", "triggers"}
      PROVE  Ties(id, R!Vehicle)
  <2>1. R!Key(id[1], "vehicle_id", "vehicles", "cascade") \in R!Keys /\ id \in R!Rows(id[1]) /\ id[1] # "hooks"
    BY <1>4, KeysListed DEF R!Rows
  <2> QED
    BY <1>2, <2>1
<1>5. \A id \in R!Rows("hooks") : Ties(id, R!Vehicle) \/ db[id].vehicle_id = None
  BY <1>2, KeysListed
<1>6. ASSUME NEW id \in DOMAIN db, id[1] \in {"hook_revisions", "hook_state"}
      PROVE  db[id].hook_id \in R!Rows("hooks") /\ Ties(id, db[id].hook_id)
  <2>1. R!Key(id[1], "hook_id", "hooks", "cascade") \in R!Keys /\ id \in R!Rows(id[1]) /\ id[1] # "hooks"
    BY <1>6, KeysListed DEF R!Rows
  <2> QED
    BY <1>3, <2>1
<1> QED
  BY <1>4, <1>5, <1>6

\* What ties rows that are not the vehicle's: never the vehicle, or what is its own.
LEMMA NotItsOwnIsFree ==
  ASSUME RecordsInv, NEW id \in DOMAIN db, NotItsOwn(id), NEW p \in DOMAIN db, Ties(id, p)
  PROVE  NotItsOwn(p)
<1> USE DEF RecordsInv
<1>1. PICK k \in R!Keys : k.ondelete = "cascade" /\ k.table = id[1] /\ db[id][k.column] = p
  BY DEF Ties
<1>2. p # None
  BY NoneIsNoId DEF OneVehicle
<1>3. p[1] = k.parent
  BY <1>1, <1>2 DEF KeysHold, Fits
<1>4. CASE id[1] \in {"users", "auth_identities", "sessions", "dashboards", "vehicle_profiles"}
  <2>1. k.parent = "users"
    BY <1>1, <1>4
       DEF R!Keys, R!AccountKeys, R!GarageKeys, R!DeviceKeys, R!HookKeys, R!RevisionKeys,
           R!SharedKeys, R!ReadingKeys, R!StateKeys, R!TriggerKeys, R!ExecutionKeys, R!Key
  <2> QED
    BY <1>3, <2>1 DEF NotItsOwn
<1>5. CASE id[1] = "hooks" /\ db[id].vehicle_id = None
  <2>1. k.column = "vehicle_id"
    BY <1>1, <1>5
       DEF R!Keys, R!AccountKeys, R!GarageKeys, R!DeviceKeys, R!HookKeys, R!RevisionKeys,
           R!SharedKeys, R!ReadingKeys, R!StateKeys, R!TriggerKeys, R!ExecutionKeys, R!Key
  <2> QED
    BY <1>1, <1>2, <1>5, <2>1
<1>6. CASE id[1] \in {"hook_revisions", "hook_state"} /\ db[db[id].hook_id].vehicle_id = None
  <2>1. (k.column = "hook_id" /\ k.parent = "hooks") \/ k.parent = "users"
    BY <1>1, <1>6
       DEF R!Keys, R!AccountKeys, R!GarageKeys, R!DeviceKeys, R!HookKeys, R!RevisionKeys,
           R!SharedKeys, R!ReadingKeys, R!StateKeys, R!TriggerKeys, R!ExecutionKeys, R!Key
  <2> QED
    BY <1>1, <1>3, <1>6, <2>1 DEF NotItsOwn
<1> QED
  BY <1>4, <1>5, <1>6 DEF NotItsOwn

LEMMA GoneWithVehicle ==
  ASSUME RecordsInv, R!There(R!Vehicle)
  PROVE  DOMAIN db \ R!Gone({R!Vehicle}) = {id \in DOMAIN db : NotItsOwn(id)}
<1> USE DEF RecordsInv
<1> DEFINE gone == R!Gone({R!Vehicle})
<1>1. {R!Vehicle} \in SUBSET DOMAIN db
  BY DEF R!There
<1>2. /\ gone \subseteq DOMAIN db
      /\ R!Vehicle \in gone
      /\ \A id \in gone \ {R!Vehicle} : \E p \in gone : Ties(id, p)
      /\ \A id \in DOMAIN db, p \in gone : Ties(id, p) => id \in gone
  BY <1>1, GoneIsClosed
<1> HIDE DEF gone
<1>3. ~NotItsOwn(R!Vehicle)
  BY DEF NotItsOwn, R!Vehicle, R!Id
<1>4. ASSUME NEW id \in DOMAIN db, ~NotItsOwn(id) PROVE id \in gone
  <2>1. \A h \in R!Rows("hooks") : h \in gone \/ db[h].vehicle_id = None
    BY <1>2, VehiclesFind DEF R!Rows
  <2>2. CASE id[1] = "vehicles"
    BY <1>2, <2>2 DEF OneVehicle
  <2>3. CASE id[1] \in {"device_enrollment_tokens", "devices", "vehicle_access_grants", "vehicle_photos",
                        "telemetry", "vehicle_state", "triggers"}
    BY <1>2, <2>3, VehiclesFind
  <2>4. CASE id[1] = "hooks"
    BY <1>4, <2>1, <2>4 DEF NotItsOwn, R!Rows
  <2>5. CASE id[1] \in {"hook_revisions", "hook_state"}
    <3>1. db[id].hook_id \in R!Rows("hooks") /\ Ties(id, db[id].hook_id)
      BY <2>5, VehiclesFind
    <3>2. db[db[id].hook_id].vehicle_id # None
      BY <1>4, <2>5 DEF NotItsOwn
    <3> QED
      BY <1>2, <2>1, <3>1, <3>2
  <2>6. CASE id[1] = "hook_executions"
    <3>1. db[id].trigger_id \in R!Rows("triggers") /\ Ties(id, db[id].trigger_id)
      BY <2>6, RecordsFind DEF R!Rows
    <3>2. db[id].trigger_id \in gone
      BY <1>2, <3>1, VehiclesFind DEF R!Rows
    <3> QED
      BY <1>2, <3>1, <3>2
  <2> QED
    BY <1>4, <2>2, <2>3, <2>4, <2>5, <2>6 DEF NotItsOwn, OneVehicle, Tables
<1>5. gone \subseteq {id \in DOMAIN db : ~NotItsOwn(id)}
  <2>1. ASSUME NEW id \in gone, NotItsOwn(id)
        PROVE  \E p \in gone : NotItsOwn(p) /\ Depth(p[1]) < Depth(id[1])
    <3>1. PICK p \in gone : Ties(id, p)
      BY <1>2, <1>3, <2>1
    <3> QED
      BY <1>2, <2>1, <3>1, NotItsOwnIsFree, TiesGoDown
  <2>2. \A id \in gone : Depth(id[1]) \in 0 .. 4
    BY DepthIsNat
  <2>3. \A id \in gone : NotItsOwn(id) => Depth(id[1]) >= 1
    BY <2>1, <2>2
  <2>4. \A id \in gone : NotItsOwn(id) => Depth(id[1]) >= 2
    BY <2>1, <2>2, <2>3
  <2>5. \A id \in gone : NotItsOwn(id) => Depth(id[1]) >= 3
    BY <2>1, <2>2, <2>4
  <2>6. \A id \in gone : NotItsOwn(id) => Depth(id[1]) >= 4
    BY <2>1, <2>2, <2>5
  <2>7. \A id \in gone : ~NotItsOwn(id)
    BY <2>1, <2>2, <2>6
  <2> QED
    BY <1>2, <2>7
<1> QED
  BY <1>4, <1>5 DEF gone

----------------------------------------------------------------------------

LEMMA OnlyRemoveVehicle ==
  ASSUME RecordsInv, NEW deleted \in SUBSET DOMAIN db, R!Delete(deleted),
         R!There(R!Vehicle), ~R!There(R!Vehicle)'
  PROVE  R!Vehicle \in deleted
<1>1. DOMAIN db' = DOMAIN db \ R!Gone(deleted)
  BY DEF R!Delete
<1>2. R!Vehicle \in R!Gone(deleted)
  BY <1>1 DEF R!There, R!Vehicle, R!Id
<1>3. ASSUME R!Vehicle \notin deleted PROVE FALSE
  <2>1. PICK p \in R!Gone(deleted) : Ties(R!Vehicle, p)
    BY <1>2, <1>3, GoneIsClosed DEF RecordsInv
  <2>2. p \in DOMAIN db /\ R!Vehicle \in DOMAIN db
    BY <2>1, GoneIsClosed DEF RecordsInv, R!There
  <2>3. Depth(p[1]) < Depth(R!Vehicle[1])
    BY <2>1, <2>2, TiesGoDown DEF RecordsInv
  <2>4. Depth(R!Vehicle[1]) = 0
    BY DEF Depth, R!Vehicle, R!Id
  <2> QED
    BY <2>3, <2>4, DepthIsNat
<1> QED
  BY <1>3

LEMMA TakesItsOwnStep ==
  ASSUME RecordsInv, R!Next, R!There(R!Vehicle), ~R!There(R!Vehicle)'
  PROVE  DOMAIN db' = {id \in DOMAIN db : NotItsOwn(id)}
<1>1. ASSUME NEW rows, R!Insert(rows) PROVE FALSE
  BY <1>1 DEF R!Insert, R!Over, R!There, R!Vehicle, R!Id
<1>2. ~R!TestHook /\ ~R!RetryExecution
  BY <1>1 DEF R!TestHook, R!RetryExecution, R!Queue
<1>3. ~R!AddHook /\ ~R!SaveState
  BY <1>1 DEF R!AddHook, R!SaveState
<1>4. \A d \in R!Rows("devices") : ~R!Ingest(d)
  BY <1>1 DEF R!Ingest
<1>5. CASE R!RemoveVehicle
  BY <1>5, GoneWithVehicle DEF R!RemoveVehicle, R!Delete
<1>6. CASE R!RemoveAccount
  BY <1>6, OnlyRemoveVehicle DEF R!RemoveAccount, R!Rows, R!Vehicle, R!Id
<1>7. CASE R!RemoveDevice
  BY <1>7, OnlyRemoveVehicle DEF R!RemoveDevice, R!Rows, R!Vehicle, R!Id
<1>8. CASE R!RemoveHook
  BY <1>8, OnlyRemoveVehicle DEF R!RemoveHook, R!Rows, R!Vehicle, R!Id
<1>9. CASE R!ClearTelemetry
  BY <1>9, OnlyRemoveVehicle DEF R!ClearTelemetry, R!Rows, R!Vehicle, R!Id
<1> QED
  BY <1>2, <1>3, <1>4, <1>5, <1>6, <1>7, <1>8, <1>9 DEF R!Next

----------------------------------------------------------------------------
(* The records among the parts of the console.                              *)

\* The inductive invariant of Records, from any first state of the console.
THEOREM RecordsHold == ConsoleSpec => []RecordsInv /\ [][R!Next]_db
<1>1. ConsoleInit => RecordsInv
  BY InitInv, EmptyInv DEF ConsoleInit
<1>2. [ConsoleNext]_<<part, vars, dashboards, photos, enrollment, history, db, edits>> =>
        [R!Next]_db
  BY DEF ConsoleNext
<1>3. RecordsInv /\ [R!Next]_db => RecordsInv'
  BY RecordsInductive
<1> QED
  BY <1>1, <1>2, <1>3, PTL DEF ConsoleSpec

\* Every trigger and execution is about one reading, with its device and vehicle,
\* all of which are there, whatever is removed (hooks/runtime.py:79).
THEOREM InputsAreThere == ConsoleSpec => []ExecutionFindsInputs
<1>1. RecordsInv => ExecutionFindsInputs
  BY DEF RecordsInv, ExecutionFindsInputs
<1> QED
  BY <1>1, RecordsHold, PTL

\* The vehicle takes along what is its own, and nothing else, down every chain of
\* keys (ON DELETE CASCADE in the schema; delete_vehicle).
THEOREM TakesItsOwn == ConsoleSpec => VehicleTakesItsOwn
<1>1. RecordsInv /\ [R!Next]_db => [R!There(R!Vehicle) /\ ~R!There(R!Vehicle)' =>
       DOMAIN db' = {id \in DOMAIN db :
         \/ id[1] \in {"users", "auth_identities", "sessions", "dashboards", "vehicle_profiles"}
         \/ id[1] = "hooks" /\ db[id].vehicle_id = None
         \/ id[1] \in {"hook_revisions", "hook_state"} /\ db[db[id].hook_id].vehicle_id = None}]_db
  BY TakesItsOwnStep DEF NotItsOwn
<1> QED
  BY <1>1, RecordsHold, PTL DEF VehicleTakesItsOwn, R!VehicleTakesItsOwn

----------------------------------------------------------------------------
(* Reading the history: rows in an order, and how many come before one.        *)

\* A row of telemetry as far as its order and the filters go
HistoryRow == [at : Times, metric : H!Metrics]

\* The constants are as assumed.
LEMMA NoneIsNoReading ==
  /\ None \notin HistoryRow
  /\ MaxReadings \in Nat /\ Times \subseteq Nat /\ MaxPoints \in Nat \ {0} /\ Limit \in Nat \ {0}
BY ConsoleAssumption DEF Bounds, NoneIsNoValue, HistoryRow

ReadingsTyped == readings \in [H!Ids -> HistoryRow \cup {None}]

LEMMA StoredRows ==
  ASSUME ReadingsTyped
  PROVE  /\ H!Stored \subseteq H!Ids /\ H!Ids \subseteq Nat /\ IsFiniteSet(H!Stored)
         /\ \A i \in H!Stored : readings[i] \in HistoryRow /\ readings[i].at \in Nat
<1>1. IsFiniteSet(H!Ids) /\ H!Ids \subseteq Nat
  BY NoneIsNoReading, FS_Interval DEF H!Ids
<1>2. H!Stored \subseteq H!Ids
  BY DEF H!Stored
<1>3. IsFiniteSet(H!Stored)
  BY <1>1, <1>2, FS_Subset
<1>4. ASSUME NEW i \in H!Stored PROVE readings[i] \in HistoryRow /\ readings[i].at \in Nat
  <2>1. readings[i] \in HistoryRow
    BY DEF H!Stored, ReadingsTyped
  <2> QED
    BY <2>1, NoneIsNoReading DEF HistoryRow
<1> QED
  BY <1>1, <1>2, <1>3, <1>4

\* What a chart is sorted by orders the rows.
LEMMA EarlierOrders ==
  ASSUME ReadingsTyped
  PROVE  /\ \A i \in H!Stored : ~H!Earlier(i, i)
         /\ \A i, j \in H!Stored : i = j \/ H!Earlier(i, j) \/ H!Earlier(j, i)
         /\ \A i, j, k \in H!Stored : H!Earlier(i, j) /\ H!Earlier(j, k) => H!Earlier(i, k)
<1>1. \A i \in H!Stored : i \in Nat /\ readings[i].at \in Nat
  BY StoredRows
<1> QED
  BY <1>1 DEF H!Earlier

\* How many of a set come before a row.
Place(i, S) == Cardinality({j \in S : H!Earlier(j, i)})

LEMMA PlaceGrows ==
  ASSUME ReadingsTyped, NEW S \in SUBSET H!Stored, NEW i \in S
  PROVE  /\ IsFiniteSet(S) /\ Cardinality(S) \in Nat
         /\ Place(i, S) \in Nat /\ Place(i, S) < Cardinality(S)
         /\ Place(i, S) \in 0 .. (Cardinality(S) - 1)
         /\ \A k \in S : H!Earlier(i, k) => Place(i, S) < Place(k, S)
<1> DEFINE Below(k) == {j \in S : H!Earlier(j, k)}
<1>1. IsFiniteSet(S)
  BY StoredRows, FS_Subset
<1>2. \A k : IsFiniteSet(Below(k)) /\ Place(k, S) = Cardinality(Below(k)) /\ Place(k, S) \in Nat
  BY <1>1, FS_Subset, FS_CardinalityType DEF Place
<1>3. ASSUME NEW T \in SUBSET S, T # S PROVE Cardinality(T) < Cardinality(S)
  BY <1>1, <1>3, FS_Subset, FS_CardinalityType
<1>4. Place(i, S) < Cardinality(S)
  <2>1. i \notin Below(i)
    BY EarlierOrders
  <2> QED
    BY <1>2, <1>3, <2>1
<1>5. ASSUME NEW k \in S, H!Earlier(i, k) PROVE Place(i, S) < Place(k, S)
  <2>1. Below(i) \subseteq Below(k) /\ i \in Below(k) /\ i \notin Below(i)
    BY <1>5, EarlierOrders
  <2>2. Cardinality(Below(i)) <= Cardinality(Below(k)) /\ Cardinality(Below(i)) # Cardinality(Below(k))
    BY <1>2, <2>1, FS_Subset
  <2> QED
    BY <1>2, <2>2
<1>6. Cardinality(S) \in Nat
  BY <1>1, FS_CardinalityType
<1>7. Place(i, S) \in 0 .. (Cardinality(S) - 1)
  <2>1. Place(i, S) \in Nat
    BY <1>2
  <2> QED
    BY <1>4, <1>6, <2>1
<1> QED
  BY <1>1, <1>2, <1>4, <1>5, <1>6, <1>7

\* Rows of a set have the places from 0 on, one each.
LEMMA PlacesAreTaken ==
  ASSUME ReadingsTyped, NEW S \in SUBSET H!Stored
  PROVE  /\ \A i, j \in S : Place(i, S) = Place(j, S) => i = j
         /\ \A n \in 0 .. (Cardinality(S) - 1) : \E i \in S : Place(i, S) = n
<1> DEFINE f == [i \in S |-> Place(i, S)]
           n == Cardinality(S)
<1>1. IsFiniteSet(S) /\ n \in Nat
  BY StoredRows, FS_Subset, FS_CardinalityType
<1> HIDE DEF n
<1>2. ASSUME NEW i \in S PROVE Place(i, S) \in 0 .. (n - 1) /\ Place(i, S) \in Int
  <2>1. Place(i, S) \in 0 .. (n - 1)
    BY PlaceGrows DEF n
  <2> QED
    BY <1>1, <2>1
<1>3. ASSUME NEW i \in S, NEW j \in S, Place(i, S) = Place(j, S) PROVE i = j
  <2>1. Place(i, S) \in Int /\ Place(j, S) \in Int
    BY <1>1, <1>2
  <2>2. H!Earlier(i, j) => Place(i, S) < Place(j, S)
    BY PlaceGrows
  <2>3. H!Earlier(j, i) => Place(j, S) < Place(i, S)
    BY PlaceGrows
  <2> QED
    BY <1>3, <2>1, <2>2, <2>3, EarlierOrders
<1>4. f \in Injection(S, 0 .. (n - 1))
  BY <1>2, <1>3 DEF Injection, IsInjective
<1>5. IsFiniteSet(0 .. (n - 1)) /\ Cardinality(0 .. (n - 1)) = n
  BY <1>1, FS_Interval
<1>6. f \in Surjection(S, 0 .. (n - 1))
  <2> HIDE DEF f
  <2> QED
    BY <1>4, <1>5, FS_Injection DEF n
<1>7. \A m \in 0 .. (n - 1) : \E i \in S : Place(i, S) = m
  BY <1>6 DEF Surjection
<1> QED
  BY <1>3, <1>7 DEF n

----------------------------------------------------------------------------
(* The chart.                                                               *)

\* The rows whose number is a multiple of the stride
Picked(stride) == {i \in H!Stored : Place(i, H!Stored) % stride = 0}

LEMMA CardinalityIs == \A S : H!Cardinality(S) = Cardinality(S)
BY DEF H!Cardinality, Cardinality

\* The points in the terms of their places
LEMMA SampledIs ==
  ASSUME NEW stride
  PROVE  H!Sampled(stride) = [n \in 1 .. Cardinality(Picked(stride)) |->
           CHOOSE i \in Picked(stride) : Place(i, Picked(stride)) = n - 1]
BY DEF H!Sampled, H!Ordinal, Picked, Place, H!Cardinality, Cardinality

\* So many strides as there may be points reach all rows that were counted.
LEMMA StrideCovers ==
  ASSUME NEW count \in Nat
  PROVE  H!Stride(count) \in Nat \ {0} /\ count <= MaxPoints * H!Stride(count)
<1>1. CASE count <= MaxPoints
  BY <1>1, NoneIsNoReading DEF H!Stride
<1>2. CASE count > MaxPoints
  <2> DEFINE s == (count + MaxPoints - 1) \div MaxPoints
  <2>1. H!Stride(count) = s
    BY <1>2, NoneIsNoReading DEF H!Stride
  <2>2. MaxPoints \in Nat /\ MaxPoints > 0
    BY NoneIsNoReading
  <2>3. s \in Int /\ MaxPoints * s <= count + MaxPoints - 1 /\ count + MaxPoints - 1 < MaxPoints * s + MaxPoints
    BY <2>2
  <2>4. count <= MaxPoints * s
    <3> HIDE DEF s
    <3> QED
      BY <2>2, <2>3
  <2>5. s > 0
    <3> HIDE DEF s
    <3> QED
      BY <1>2, <2>2, <2>3, <2>4
  <2> QED
    BY <2>1, <2>3, <2>4, <2>5
<1> QED
  BY <1>1, <1>2, NoneIsNoReading

\* The points are few: one for each multiple of the stride below the number of rows.
LEMMA PickedFew ==
  ASSUME ReadingsTyped, NEW count \in Nat, NEW late \in Nat,
         Cardinality(H!Stored) = count + late
  PROVE  Cardinality(Picked(H!Stride(count))) <= MaxPoints + late
<1> DEFINE s == H!Stride(count)
           picked == Picked(s)
           q(i) == Place(i, H!Stored) \div s
           most == MaxPoints + late - 1
           f == [i \in picked |-> q(i)]
<1>1. s \in Nat \ {0} /\ count <= MaxPoints * s /\ MaxPoints \in Nat \ {0}
  BY StrideCovers, NoneIsNoReading
<1> HIDE DEF s
<1>2. picked \subseteq H!Stored /\ \A i \in picked : Place(i, H!Stored) % s = 0
  BY DEF Picked
<1>3. ASSUME NEW i \in H!Stored PROVE Place(i, H!Stored) \in Nat /\ Place(i, H!Stored) < count + late
  BY PlaceGrows
<1>4. ASSUME NEW i \in picked PROVE q(i) \in Nat /\ Place(i, H!Stored) = q(i) * s
  <2> DEFINE p == Place(i, H!Stored)
  <2>1. p \in Nat /\ p % s = 0
    BY <1>2, <1>3
  <2> SUFFICES p \div s \in Nat /\ p = (p \div s) * s
    OBVIOUS
  <2> HIDE DEF p
  <2>2. p \div s \in Nat
    BY <1>1, <2>1
  <2>3. p = s * (p \div s) + (p % s)
    BY <1>1, <2>1
  <2> QED
    BY <1>1, <2>1, <2>2, <2>3
<1>5. ASSUME NEW i \in picked PROVE q(i) \in 0 .. most
  <2> DEFINE k == q(i)
  <2>1. k \in Nat /\ k * s < count + late
    BY <1>2, <1>3, <1>4
  <2> HIDE DEF k, q
  <2>2. ASSUME k > most PROVE FALSE
    <3>1. k * s >= (MaxPoints + late) * s
      BY <1>1, <2>1, <2>2
    <3>2. (MaxPoints + late) * s = MaxPoints * s + late * s
      BY <1>1
    <3>3. late * s >= late
      BY <1>1
    <3> QED
      BY <1>1, <2>1, <3>1, <3>2, <3>3
  <2>3. k \in 0 .. most
    BY <1>1, <2>1, <2>2
  <2> QED
    BY <2>3 DEF k
<1>6. ASSUME NEW i \in picked, NEW j \in picked, q(i) = q(j) PROVE i = j
  <2>1. Place(i, H!Stored) = Place(j, H!Stored)
    BY <1>4, <1>6
  <2> QED
    BY <1>2, <2>1, PlacesAreTaken
<1>7. f \in Injection(picked, 0 .. most)
  <2> HIDE DEF picked, q
  <2> QED
    BY <1>5, <1>6 DEF Injection, IsInjective
<1>8. IsFiniteSet(0 .. most) /\ Cardinality(0 .. most) = MaxPoints + late
  BY <1>1, FS_Interval
<1> HIDE DEF f, most
<1>9. Cardinality(picked) <= Cardinality(0 .. most)
  BY <1>7, <1>8, FS_Injection
<1> QED
  BY <1>8, <1>9 DEF s

LEMMA SampledRows ==
  ASSUME ReadingsTyped, NEW stride \in Nat \ {0}
  PROVE  /\ H!Sampled(stride) \in Seq(H!Stored)
         /\ Len(H!Sampled(stride)) = Cardinality(Picked(stride))
         /\ \A n \in 1 .. Cardinality(Picked(stride)) :
              /\ H!Sampled(stride)[n] \in Picked(stride)
              /\ Place(H!Sampled(stride)[n], Picked(stride)) = n - 1
<1> DEFINE points == H!Sampled(stride)
           len == Cardinality(Picked(stride))
           Nth(n) == CHOOSE i \in Picked(stride) : Place(i, Picked(stride)) = n - 1
<1>1. Picked(stride) \subseteq H!Stored
  BY DEF Picked
<1>2. len \in Nat
  BY <1>1, StoredRows, FS_Subset, FS_CardinalityType
<1>3. points = [n \in 1 .. len |-> Nth(n)]
  BY SampledIs
<1>4. ASSUME NEW n \in 1 .. len
      PROVE  Nth(n) \in Picked(stride) /\ Place(Nth(n), Picked(stride)) = n - 1
  <2>1. n - 1 \in 0 .. (len - 1)
    BY <1>2
  <2>2. \E i \in Picked(stride) : Place(i, Picked(stride)) = n - 1
    BY <1>1, <2>1, PlacesAreTaken
  <2> QED
    BY <2>2
<1> HIDE DEF points, len, Nth
<1>5. points \in Seq(H!Stored) /\ Len(points) = len
  BY <1>1, <1>2, <1>3, <1>4
<1>6. \A n \in 1 .. len : points[n] \in Picked(stride) /\ Place(points[n], Picked(stride)) = n - 1
  BY <1>3, <1>4
<1> QED
  BY <1>5, <1>6 DEF points, len

Sorted(points) == \A n \in 1 .. (Len(points) - 1) : H!Earlier(points[n], points[n + 1])

LEMMA SampledSorted ==
  ASSUME ReadingsTyped, NEW stride \in Nat \ {0}
  PROVE  Sorted(H!Sampled(stride))
<1> DEFINE points == H!Sampled(stride)
<1>1. Picked(stride) \subseteq H!Stored
  BY DEF Picked
<1>2. Len(points) \in Nat /\ Len(points) = Cardinality(Picked(stride))
  BY <1>1, SampledRows, StoredRows, FS_Subset, FS_CardinalityType
<1> SUFFICES ASSUME NEW n \in 1 .. (Len(points) - 1) PROVE H!Earlier(points[n], points[n + 1])
  BY DEF Sorted
<1> DEFINE a == points[n]
           b == points[n + 1]
<1>3. n \in 1 .. Cardinality(Picked(stride)) /\ n + 1 \in 1 .. Cardinality(Picked(stride))
  BY <1>2
<1>4. a \in Picked(stride) /\ Place(a, Picked(stride)) = n - 1
  BY <1>3, SampledRows
<1>5. b \in Picked(stride) /\ Place(b, Picked(stride)) = (n + 1) - 1
  BY <1>3, SampledRows
<1> HIDE DEF a, b, points
<1>6. H!Earlier(b, a) => Place(b, Picked(stride)) < Place(a, Picked(stride))
  BY <1>1, <1>4, <1>5, PlaceGrows
<1>7. n \in Int
  BY <1>3
<1>8. a = b \/ H!Earlier(a, b) \/ H!Earlier(b, a)
  BY <1>1, <1>4, <1>5, EarlierOrders
<1> QED
  BY <1>4, <1>5, <1>6, <1>7, <1>8 DEF a, b

\* The rows after one and up to another
Between(p, i) == {j \in H!Stored : H!Earlier(p, j) /\ ~H!Earlier(i, j)}
Near(i, points, stride) ==
  \E n \in 1 .. Len(points) :
    ~H!Earlier(i, points[n]) /\ Cardinality(Between(points[n], i)) < stride

\* No row is a stride or more after the last point before it.
LEMMA SampledNear ==
  ASSUME ReadingsTyped, NEW stride \in Nat \ {0}, NEW i \in H!Stored
  PROVE  Near(i, H!Sampled(stride), stride)
<1> DEFINE points == H!Sampled(stride)
           o == Place(i, H!Stored)
           m == o - (o % stride)
<1>1. o \in Nat /\ o < Cardinality(H!Stored) /\ Cardinality(H!Stored) \in Nat
  BY PlaceGrows
<1>2. o % stride \in Nat /\ o % stride < stride
  <2> HIDE DEF o
  <2> QED
    BY <1>1
<1>3. o = stride * (o \div stride) + (o % stride) /\ o \div stride \in Nat
  <2> HIDE DEF o
  <2> QED
    BY <1>1
<1>4. m \in 0 .. o /\ m % stride = 0
  <2> HIDE DEF o
  <2>1. m = stride * (o \div stride) /\ m \in Int /\ 0 <= m /\ m <= o
    BY <1>1, <1>2, <1>3
  <2>2. (stride * (o \div stride)) % stride = 0
    <3> DEFINE q == o \div stride
    <3>1. q \in Nat
      BY <1>3
    <3> HIDE DEF q
    <3>2. (stride * q) % stride = 0
      BY <3>1
    <3> QED
      BY <3>2 DEF q
  <2> QED
    BY <1>1, <2>1, <2>2
<1> HIDE DEF m
<1>5. PICK p \in H!Stored : Place(p, H!Stored) = m
  <2>1. m \in 0 .. (Cardinality(H!Stored) - 1)
    BY <1>1, <1>4
  <2> QED
    BY <2>1, PlacesAreTaken
<1>6. p \in Picked(stride) /\ Picked(stride) \subseteq H!Stored
  BY <1>4, <1>5 DEF Picked
<1>7. PICK n \in 1 .. Len(points) : points[n] = p
  <2> DEFINE n == Place(p, Picked(stride)) + 1
  <2>1. n \in 1 .. Cardinality(Picked(stride)) /\ n - 1 = Place(p, Picked(stride))
    BY <1>6, PlaceGrows
  <2>2. points[n] \in Picked(stride) /\ Place(points[n], Picked(stride)) = n - 1
    BY <2>1, SampledRows
  <2>3. points[n] = p
    BY <1>6, <2>1, <2>2, PlacesAreTaken
  <2> QED
    BY <2>1, <2>3, SampledRows
<1>8. ~H!Earlier(i, p)
  <2>1. H!Earlier(i, p) => o < Place(p, H!Stored)
    BY PlaceGrows
  <2> QED
    BY <1>1, <1>4, <1>5, <2>1
<1>9. Cardinality(Between(p, i)) < stride
  <2> DEFINE f == [j \in Between(p, i) |-> Place(j, H!Stored)]
  <2>1. ASSUME NEW j \in Between(p, i) PROVE Place(j, H!Stored) \in (m + 1) .. o
    <3>1. j \in H!Stored /\ H!Earlier(p, j) /\ ~H!Earlier(i, j)
      BY DEF Between
    <3>2. Place(j, H!Stored) \in Nat /\ m < Place(j, H!Stored)
      <4>1. Place(p, H!Stored) < Place(j, H!Stored)
        BY <3>1, PlaceGrows
      <4>2. Place(j, H!Stored) \in Nat
        BY <3>1, PlaceGrows
      <4> QED
        BY <1>5, <4>1, <4>2
    <3>3. j = i \/ H!Earlier(j, i)
      BY <3>1, EarlierOrders
    <3>4. H!Earlier(j, i) => Place(j, H!Stored) < o
      BY <3>1, PlaceGrows
    <3> QED
      BY <1>1, <1>4, <3>2, <3>3, <3>4
  <2>2. f \in Injection(Between(p, i), (m + 1) .. o)
    <3>1. \A j, k \in Between(p, i) : Place(j, H!Stored) = Place(k, H!Stored) => j = k
      BY PlacesAreTaken DEF Between
    <3> QED
      BY <2>1, <3>1 DEF Injection, IsInjective
  <2>3. IsFiniteSet((m + 1) .. o) /\ Cardinality((m + 1) .. o) = o % stride
    <3>1. m + 1 \in Int /\ o \in Int /\ o - (m + 1) + 1 = o % stride
      BY <1>1, <1>2 DEF m
    <3>2. m + 1 > o <=> o % stride = 0
      BY <1>1, <1>2 DEF m
    <3> HIDE DEF o
    <3> QED
      BY <1>2, <3>1, <3>2, FS_Interval
  <2>4. Cardinality(Between(p, i)) <= o % stride
    <3> HIDE DEF f, o
    <3> QED
      BY <2>2, <2>3, FS_Injection
  <2>5. Cardinality(Between(p, i)) \in Nat
    <3>1. Between(p, i) \subseteq H!Stored
      BY DEF Between
    <3> QED
      BY <3>1, StoredRows, FS_Subset, FS_CardinalityType
  <2> QED
    BY <1>2, <2>4, <2>5
<1> HIDE DEF points
<1> QED
  BY <1>7, <1>8, <1>9 DEF Near, points

LEMMA NewestIsThere ==
  ASSUME ReadingsTyped, H!Stored # {}
  PROVE  \E i \in H!Stored : \A j \in H!Stored \ {i} : H!Earlier(j, i)
<1> DEFINE len == Cardinality(H!Stored)
<1>1. len \in Nat /\ len > 0
  BY StoredRows, FS_CardinalityType, FS_EmptySet
<1>2. PICK i \in H!Stored : Place(i, H!Stored) = len - 1
  BY <1>1, PlacesAreTaken
<1>3. ASSUME NEW j \in H!Stored \ {i} PROVE H!Earlier(j, i)
  <2>1. Place(j, H!Stored) \in Nat /\ Place(j, H!Stored) < len
    BY PlaceGrows
  <2>2. H!Earlier(i, j) => Place(i, H!Stored) < Place(j, H!Stored)
    BY PlaceGrows
  <2>3. ~H!Earlier(i, j)
    <3> HIDE DEF len
    <3> QED
      BY <1>1, <1>2, <2>1, <2>2
  <2> QED
    BY <2>3, EarlierOrders
<1> QED
  BY <1>3

Newest == CHOOSE i \in H!Stored : \A j \in H!Stored \ {i} : H!Earlier(j, i)

LEMMA WithLastIs ==
  ASSUME NEW points
  PROVE  H!WithLast(points) =
           IF H!Stored = {} THEN points
           ELSE IF points = <<>> \/ points[Len(points)] # Newest THEN Append(points, Newest) ELSE points
BY DEF H!WithLast, Newest

\* The newest row comes last, if it is not there.
LEMMA WithLastSorted ==
  ASSUME ReadingsTyped, NEW points \in Seq(H!Stored), Sorted(points)
  PROVE  /\ H!WithLast(points) \in Seq(H!Stored) /\ Sorted(H!WithLast(points))
         /\ Len(points) <= Len(H!WithLast(points)) /\ Len(H!WithLast(points)) <= Len(points) + 1
         /\ \A n \in 1 .. Len(points) : H!WithLast(points)[n] = points[n]
         /\ \A i \in H!Stored : ~H!Earlier(H!WithLast(points)[Len(H!WithLast(points))], i)
<1> DEFINE all == H!WithLast(points)
           len == Len(points)
<1>1. len \in Nat
  OBVIOUS
<1>2. CASE H!Stored = {}
  BY <1>1, <1>2, WithLastIs
<1>3. CASE H!Stored # {}
  <2>1. Newest \in H!Stored /\ \A j \in H!Stored \ {Newest} : H!Earlier(j, Newest)
    BY <1>3, NewestIsThere DEF Newest
  <2>2. \A i \in H!Stored : ~H!Earlier(Newest, i)
    BY <2>1, EarlierOrders
  <2>3. CASE points # <<>> /\ points[len] = Newest
    <3>1. all = points
      BY <1>3, <2>3, WithLastIs
    <3> QED
      BY <1>1, <2>2, <2>3, <3>1
  <2>4. CASE points = <<>> \/ points[len] # Newest
    <3>1. all = Append(points, Newest)
      BY <1>3, <2>4, WithLastIs
    <3> HIDE DEF all
    <3>2. all \in Seq(H!Stored) /\ Len(all) = len + 1 /\ all[len + 1] = Newest
      BY <2>1, <3>1
    <3>3. \A n \in 1 .. len : all[n] = points[n]
      BY <3>1
    <3>4. ASSUME NEW n \in 1 .. len PROVE H!Earlier(all[n], all[n + 1])
      <4>1. CASE n = len
        <5>1. points # <<>> /\ points[len] \in H!Stored
          BY <1>1, <3>4
        <5>2. H!Earlier(points[len], Newest)
          BY <2>1, <2>4, <5>1
        <5> QED
          BY <3>2, <3>3, <4>1, <5>2
      <4>2. CASE n # len
        <5>1. n \in 1 .. (len - 1) /\ n + 1 \in 1 .. len
          BY <1>1, <4>2
        <5>2. H!Earlier(points[n], points[n + 1])
          BY <5>1 DEF Sorted
        <5> QED
          BY <3>3, <5>1, <5>2
      <4> QED
        BY <4>1, <4>2
    <3>5. Sorted(all)
      <4>1. Len(all) - 1 = len
        BY <1>1, <3>2
      <4> QED
        BY <3>4, <4>1 DEF Sorted
    <3> QED
      BY <1>1, <2>2, <3>2, <3>3, <3>5 DEF all
  <2> QED
    BY <2>3, <2>4
<1> QED
  BY <1>2, <1>3

ChartReads == [op : {"chart"}, at : {"sample", "last", "shown"}, stride : Nat \ {0},
           points : Seq(H!Ids), late : Nat]
TableReads == [op : {"table"}, at : {"count", "rows", "page", "shown"}, sort : {"recorded_at", "metric"},
           up : BOOLEAN, filter : {"none", "present", "minimum"}, start : Nat, offset : Nat,
           total : Nat, first : SUBSET H!Ids, seen : SUBSET H!Ids, late : Nat, slid : BOOLEAN]

HistoryTyped == ReadingsTyped /\ reader \in {H!Idle} \cup ChartReads \cup TableReads

\* What a chart has is in order and near all rows, as long as none arrived.
ChartInv ==
  reader.op = "chart" =>
    /\ reader.points \in Seq(H!Stored)
    /\ reader.at = "sample" =>
         \E count \in Nat : reader.stride = H!Stride(count) /\ Cardinality(H!Stored) = count + reader.late
    /\ reader.at # "sample" =>
         /\ Sorted(reader.points)
         /\ Len(reader.points) <= MaxPoints + reader.late + (IF reader.at = "shown" THEN 1 ELSE 0)
         /\ reader.late = 0 => \A i \in H!Stored : Near(i, reader.points, reader.stride)
    /\ reader.at = "shown" /\ reader.late = 0 =>
         \A i \in H!Stored : ~H!Earlier(reader.points[Len(reader.points)], i)

LEMMA ReaderIs ==
  ASSUME HistoryTyped
  PROVE  /\ reader.op = "chart" => reader \in ChartReads
         /\ reader.op = "table" => reader \in TableReads
         /\ reader.op \in {"none", "chart", "table"}
         /\ reader.op = "none" => reader = H!Idle
BY DEF HistoryTyped, ChartReads, TableReads, H!Idle

LEMMA Arrived ==
  ASSUME HistoryTyped, H!Arrive
  PROVE  /\ ReadingsTyped'
         /\ \E i \in H!Ids \ H!Stored : H!Stored' = H!Stored \cup {i}
         /\ \A j \in H!Stored : readings'[j] = readings[j]
<1>1. PICK i \in H!Ids, at \in Times, value \in H!Metrics :
        readings[i] = None /\ readings' = [readings EXCEPT ![i] = [at |-> at, metric |-> value]]
  BY DEF H!Arrive
<1> DEFINE row == [at |-> at, metric |-> value]
<1>2. row \in HistoryRow /\ row # None
  BY NoneIsNoReading DEF HistoryRow
<1>3. readings' = [readings EXCEPT ![i] = row]
  BY <1>1
<1> HIDE DEF row
<1>4. readings'[i] = row /\ \A j \in H!Ids \ {i} : readings'[j] = readings[j]
  BY <1>3 DEF HistoryTyped, ReadingsTyped
<1>5. ReadingsTyped'
  BY <1>2, <1>3 DEF HistoryTyped, ReadingsTyped
<1>6. i \notin H!Stored
  BY <1>1 DEF H!Stored
<1>7. H!Stored' = H!Stored \cup {i}
  BY <1>2, <1>4, <1>6 DEF H!Stored
<1>8. \A j \in H!Stored : readings'[j] = readings[j]
  BY <1>4, <1>6 DEF H!Stored
<1> QED
  BY <1>5, <1>6, <1>7, <1>8

LEMMA ArrivedReader ==
  ASSUME HistoryTyped, H!Arrive
  PROVE  /\ HistoryTyped'
         /\ reader'.op = reader.op
         /\ reader.op # "none" => reader' = [reader EXCEPT !.late = reader.late + 1]
<1>1. CASE reader = H!Idle
  BY <1>1, Arrived DEF H!Arrive, HistoryTyped, H!Idle
<1>2. CASE reader # H!Idle
  <2>1. reader' = [reader EXCEPT !.late = reader.late + 1] /\ reader \in ChartReads \cup TableReads
    BY <1>2 DEF H!Arrive, HistoryTyped
  <2>2. CASE reader \in ChartReads
    BY <2>1, <2>2, Arrived DEF HistoryTyped, ChartReads, H!Ids
  <2>3. CASE reader \in TableReads
    BY <2>1, <2>3, Arrived DEF HistoryTyped, TableReads, H!Ids
  <2> QED
    BY <2>1, <2>2, <2>3
<1> QED
  BY <1>1, <1>2

LEMMA ChartArrives ==
  ASSUME HistoryTyped, ChartInv, H!Arrive
  PROVE  ChartInv'
<1> SUFFICES ASSUME reader'.op = "chart" PROVE ChartInv'
  BY DEF ChartInv
<1>1. reader \in ChartReads /\ reader' = [reader EXCEPT !.late = reader.late + 1]
  BY ArrivedReader, ReaderIs
<1>2. /\ reader'.at = reader.at /\ reader'.stride = reader.stride /\ reader'.points = reader.points
      /\ reader'.late = reader.late + 1 /\ reader.late \in Nat /\ reader.op = "chart"
      /\ reader.points \in Seq(H!Stored)
  BY <1>1 DEF ChartReads, ChartInv
<1>3. PICK i \in H!Ids \ H!Stored : H!Stored' = H!Stored \cup {i}
  BY Arrived
<1>4. IsFiniteSet(H!Stored) /\ Cardinality(H!Stored) \in Nat
  BY StoredRows, FS_CardinalityType DEF HistoryTyped
<1>5. Cardinality(H!Stored') = Cardinality(H!Stored) + 1
  BY <1>3, <1>4, FS_AddElement
<1>6. reader'.points \in Seq(H!Stored')
  BY <1>2, <1>3
<1>7. ASSUME reader'.at = "sample"
      PROVE  \E count \in Nat : reader'.stride = H!Stride(count)
                             /\ Cardinality(H!Stored') = count + reader'.late
  <2>1. PICK count \in Nat : reader.stride = H!Stride(count)
                          /\ Cardinality(H!Stored) = count + reader.late
    BY <1>2, <1>7 DEF ChartInv
  <2> QED
    BY <1>2, <1>4, <1>5, <2>1
<1>8. ASSUME reader'.at # "sample"
      PROVE  /\ Sorted(reader.points)'
             /\ Len(reader'.points) <= MaxPoints + reader'.late + (IF reader'.at = "shown" THEN 1 ELSE 0)
  <2>1. Sorted(reader.points)
    BY <1>2, <1>8 DEF ChartInv
  <2>2. Len(reader.points) <= MaxPoints + reader.late + (IF reader.at = "shown" THEN 1 ELSE 0)
    BY <1>2, <1>8 DEF ChartInv
  <2>3. ASSUME NEW n \in 1 .. (Len(reader.points) - 1)
        PROVE  H!Earlier(reader.points[n], reader.points[n + 1])'
    <3>1. n \in 1 .. Len(reader.points) /\ n + 1 \in 1 .. Len(reader.points)
      BY <1>2
    <3>2. reader.points[n] \in H!Stored /\ reader.points[n + 1] \in H!Stored
      BY <1>2, <3>1
    <3>3. H!Earlier(reader.points[n], reader.points[n + 1])
      BY <2>1 DEF Sorted
    <3> QED
      BY <1>2, <3>2, <3>3, Arrived DEF H!Earlier
  <2>4. Sorted(reader.points)'
    BY <1>2, <2>3 DEF Sorted
  <2> QED
    BY <1>2, <2>2, <2>4, NoneIsNoReading
<1>9. reader'.late # 0
  BY <1>2
<1> QED
  BY <1>6, <1>7, <1>8, <1>9 DEF ChartInv

LEMMA ChartBegins ==
  ASSUME HistoryTyped, H!BeginChart
  PROVE  HistoryTyped' /\ ChartInv'
<1> DEFINE count == Cardinality(H!Stored)
<1>1. count \in Nat
  BY StoredRows, FS_CardinalityType DEF HistoryTyped
<1>2. /\ reader' = [op |-> "chart", at |-> "sample", stride |-> H!Stride(count),
                    points |-> <<>>, late |-> 0]
      /\ readings' = readings
  BY CardinalityIs DEF H!BeginChart
<1> HIDE DEF count
<1>3. H!Stride(count) \in Nat \ {0}
  BY <1>1, StrideCovers
<1>4. HistoryTyped'
  BY <1>2, <1>3 DEF HistoryTyped, ReadingsTyped, ChartReads, H!Ids
<1>5. H!Stored' = H!Stored
  BY <1>2 DEF H!Stored
<1>6. Cardinality(H!Stored') = count + 0
  BY <1>1, <1>5 DEF count
<1>7. reader'.points \in Seq(H!Stored')
  BY <1>2
<1>8. /\ reader'.at = "sample" /\ reader'.stride = H!Stride(count) /\ reader'.late = 0
  BY <1>2
<1> QED
  BY <1>1, <1>4, <1>6, <1>7, <1>8 DEF ChartInv

LEMMA ChartSamples ==
  ASSUME HistoryTyped, ChartInv, H!Sample
  PROVE  HistoryTyped' /\ ChartInv'
<1> DEFINE points == H!Sampled(reader.stride)
<1>1. /\ reader.op = "chart" /\ reader.at = "sample" /\ readings' = readings
      /\ reader' = [reader EXCEPT !.at = "last", !.points = points]
  BY DEF H!Sample
<1>2. reader \in ChartReads /\ reader.stride \in Nat \ {0} /\ reader.late \in Nat
  BY <1>1, ReaderIs DEF ChartReads
<1>3. points \in Seq(H!Stored) /\ Len(points) = Cardinality(Picked(reader.stride)) /\ Sorted(points)
  BY <1>2, SampledRows, SampledSorted DEF HistoryTyped
<1>4. \A i \in H!Stored : Near(i, points, reader.stride)
  BY <1>2, SampledNear DEF HistoryTyped
<1>5. Len(points) <= MaxPoints + reader.late
  <2>1. PICK count \in Nat : reader.stride = H!Stride(count)
                          /\ Cardinality(H!Stored) = count + reader.late
    BY <1>1 DEF ChartInv
  <2> QED
    BY <1>2, <1>3, <2>1, PickedFew DEF HistoryTyped
<1> HIDE DEF points
<1>6. H!Stored' = H!Stored /\ H!Stored \subseteq H!Ids
  BY <1>1 DEF H!Stored
<1>7. points \in Seq(H!Ids)
  BY <1>3, <1>6
<1>8. /\ reader'.at = "last" /\ reader'.points = points /\ reader'.stride = reader.stride
      /\ reader'.late = reader.late /\ reader' \in ChartReads
  BY <1>1, <1>2, <1>7 DEF ChartReads
<1>9. HistoryTyped'
  BY <1>1, <1>8 DEF HistoryTyped, ReadingsTyped, ChartReads, H!Ids
<1>10. Sorted(reader.points)' /\ \A i \in H!Stored' : Near(i, reader.points, reader.stride)'
  <2>1. \A i, j : H!Earlier(i, j)' <=> H!Earlier(i, j)
    BY <1>1 DEF H!Earlier
  <2>2. Sorted(reader.points)'
    BY <1>3, <1>8, <2>1 DEF Sorted
  <2>3. \A p, i : Between(p, i)' = Between(p, i)
    BY <1>6, <2>1 DEF Between
  <2>4. ASSUME NEW i \in H!Stored PROVE Near(i, reader.points, reader.stride)'
    BY <1>4, <1>8, <2>1, <2>3 DEF Near
  <2> QED
    BY <1>6, <2>2, <2>4
<1>11. reader'.points \in Seq(H!Stored') /\ Len(reader'.points) <= MaxPoints + reader'.late + 0
  BY <1>2, <1>3, <1>5, <1>6, <1>8, NoneIsNoReading
<1> QED
  BY <1>8, <1>9, <1>10, <1>11 DEF ChartInv

LEMMA ChartShows ==
  ASSUME HistoryTyped, ChartInv, H!ShowChart
  PROVE  HistoryTyped' /\ ChartInv'
<1> DEFINE points == H!WithLast(reader.points)
<1>1. /\ reader.op = "chart" /\ reader.at = "last" /\ readings' = readings
      /\ reader' = [reader EXCEPT !.at = "shown", !.points = points]
  BY DEF H!ShowChart
<1>2. /\ reader \in ChartReads /\ reader.stride \in Nat \ {0} /\ reader.late \in Nat
      /\ reader.points \in Seq(H!Stored) /\ Sorted(reader.points)
      /\ Len(reader.points) <= MaxPoints + reader.late + 0
      /\ reader.late = 0 => \A i \in H!Stored : Near(i, reader.points, reader.stride)
  BY <1>1, ReaderIs DEF ChartReads, ChartInv
<1>3. /\ points \in Seq(H!Stored) /\ Sorted(points)
      /\ Len(reader.points) <= Len(points) /\ Len(points) <= Len(reader.points) + 1
      /\ \A n \in 1 .. Len(reader.points) : points[n] = reader.points[n]
      /\ \A i \in H!Stored : ~H!Earlier(points[Len(points)], i)
  BY <1>2, WithLastSorted DEF HistoryTyped
<1> HIDE DEF points
<1>4. H!Stored' = H!Stored /\ H!Stored \subseteq H!Ids
  BY <1>1 DEF H!Stored
<1>5. points \in Seq(H!Ids) /\ Len(points) \in Nat /\ Len(reader.points) \in Nat
  BY <1>2, <1>3, <1>4
<1>6. /\ reader'.at = "shown" /\ reader'.points = points /\ reader'.stride = reader.stride
      /\ reader'.late = reader.late /\ reader' \in ChartReads
  BY <1>1, <1>2, <1>5 DEF ChartReads
<1>7. HistoryTyped'
  BY <1>1, <1>6 DEF HistoryTyped, ReadingsTyped, ChartReads, H!Ids
<1>8. ASSUME reader.late = 0, NEW i \in H!Stored PROVE Near(i, points, reader.stride)
  <2>1. PICK n \in 1 .. Len(reader.points) :
          ~H!Earlier(i, reader.points[n]) /\ Cardinality(Between(reader.points[n], i)) < reader.stride
    BY <1>2, <1>8 DEF Near
  <2>2. n \in 1 .. Len(points) /\ points[n] = reader.points[n]
    BY <1>3, <1>5, <2>1
  <2> QED
    BY <2>1, <2>2 DEF Near
<1>9. Sorted(reader.points)' /\ (reader'.late = 0 => \A i \in H!Stored' : Near(i, reader.points, reader.stride)')
  BY <1>1, <1>3, <1>4, <1>6, <1>8 DEF Sorted, Near, Between, H!Earlier
<1>10. \A i \in H!Stored' : ~H!Earlier(reader.points[Len(reader.points)], i)'
  BY <1>1, <1>3, <1>4, <1>6 DEF H!Earlier
<1>11. reader'.points \in Seq(H!Stored') /\ Len(reader'.points) <= MaxPoints + reader'.late + 1
  BY <1>2, <1>3, <1>4, <1>5, <1>6, NoneIsNoReading
<1> QED
  BY <1>6, <1>7, <1>9, <1>10, <1>11 DEF ChartInv

\* What shows a chart in order
LEMMA ChartInvShows ==
  ASSUME HistoryTyped, ChartInv
  PROVE  ChartInOrder
<1> SUFFICES ASSUME reader.op = "chart", reader.at = "shown"
             PROVE  /\ Sorted(reader.points)
                    /\ Len(reader.points) <= MaxPoints + 1 + reader.late
                    /\ reader.late = 0 =>
                         /\ \A i \in H!Stored : Near(i, reader.points, reader.stride)
                         /\ \A i \in H!Stored : ~H!Earlier(reader.points[Len(reader.points)], i)
  BY DEF ChartInOrder, H!ChartInOrder, Sorted, Near, Between, H!Cardinality, Cardinality
<1>1. reader.late \in Nat
  BY ReaderIs DEF ChartReads
<1> QED
  BY <1>1, NoneIsNoReading DEF ChartInv

----------------------------------------------------------------------------
(* The table.                                                               *)

\* The rows of the window that come before one
Above(i, r) == {j \in H!Window(r) : H!Before(j, i, r)}

\* Two rows stand in either order from one page to the next, and neither comes after
TieAbove(i, r) ==
  \E j, k \in H!Window(r) :
    j # k /\ H!Tied(j, k, r) /\ ~H!Before(i, j, r) /\ ~H!Before(i, k, r)

\* What was there when the table was opened, still is, and was not shown
Missing(r) == (r.first \cap H!Window(r)) \ r.seen
Excused(r) == r.slid /\ (r.sort # "recorded_at" \/ r.up)

\* Unless two tied rows may have changed places, a row that is missing has at least
\* n rows above it: no page that starts after n rows passes it over.
After(n, r) == \A i \in Missing(r) : TieAbove(i, r) \/ Cardinality(Above(i, r)) >= n

TableInv ==
  reader.op = "table" =>
    /\ reader.first \subseteq H!Stored
    /\ reader.at = "rows" =>
         /\ reader.total <= Cardinality(H!Window(reader))
         /\ reader.late = 0 => reader.total = Cardinality(H!Window(reader))
    /\ \/ Excused(reader)
       \/ /\ reader.at \in {"count", "rows"} => After(reader.offset, reader)
          /\ reader.at = "page" => After(reader.offset + Limit, reader)
          /\ reader.at = "shown" /\ reader.late = 0 =>
               \A i \in Missing(reader) : TieAbove(i, reader)

LEMMA WindowRows ==
  ASSUME ReadingsTyped, NEW r
  PROVE  /\ H!Window(r) \subseteq H!Stored /\ IsFiniteSet(H!Window(r))
         /\ Cardinality(H!Window(r)) \in Nat
         /\ \A i : IsFiniteSet(Above(i, r)) /\ Cardinality(Above(i, r)) \in Nat
<1>1. H!Window(r) \subseteq H!Stored
  BY DEF H!Window
<1>2. IsFiniteSet(H!Window(r))
  BY <1>1, StoredRows, FS_Subset
<1>3. \A i : Above(i, r) \subseteq H!Window(r)
  BY DEF Above
<1> QED
  BY <1>1, <1>2, <1>3, FS_Subset, FS_CardinalityType

LEMMA BeforeIsStrict ==
  ASSUME ReadingsTyped, NEW r, NEW i \in H!Stored
  PROVE  ~H!Before(i, i, r)
<1>1. readings[i].at \in Nat /\ i \in Nat
  BY StoredRows
<1>2. H!Sequence(i) \in Int
  BY <1>1 DEF H!Sequence
<1>3. ~H!Compare(readings[i].at, readings[i].at, r.up)
  BY <1>1 DEF H!Compare
<1> QED
  BY <1>2, <1>3 DEF H!Before

LEMMA PageIs ==
  ASSUME NEW r, NEW page \in H!Pages(r)
  PROVE  /\ page \in SUBSET H!Window(r)
         /\ \E skipped \in SUBSET (H!Window(r) \ page) :
              /\ Cardinality(skipped) = IF Cardinality(H!Window(r)) < r.offset
                                        THEN Cardinality(H!Window(r)) ELSE r.offset
              /\ Cardinality(page) = IF Cardinality(H!Window(r)) - Cardinality(skipped) < Limit
                                     THEN Cardinality(H!Window(r)) - Cardinality(skipped) ELSE Limit
              /\ \A i \in skipped, j \in H!Window(r) : H!Before(j, i, r) => j \in skipped
              /\ \A i \in skipped \cup page, j \in H!Window(r) :
                   H!Before(j, i, r) => j \in skipped \cup page
BY DEF H!Pages, H!Cardinality, Cardinality

\* A row that the page and those before it lack has all of them above it.
LEMMA Paged ==
  ASSUME ReadingsTyped, NEW r, r.offset \in Nat, NEW page \in H!Pages(r),
         After(r.offset, r), NEW i \in Missing(r) \ page, ~TieAbove(i, r)
  PROVE  /\ Cardinality(H!Window(r)) > r.offset + Limit
         /\ Cardinality(Above(i, r)) >= r.offset + Limit
<1> DEFINE rows == H!Window(r)
           w == Cardinality(rows)
           o == r.offset
<1>1. PICK skipped \in SUBSET (rows \ page) :
        /\ Cardinality(skipped) = IF w < o THEN w ELSE o
        /\ Cardinality(page) = IF w - Cardinality(skipped) < Limit THEN w - Cardinality(skipped) ELSE Limit
        /\ \A k \in skipped, j \in rows : H!Before(j, k, r) => j \in skipped
        /\ \A k \in skipped \cup page, j \in rows : H!Before(j, k, r) => j \in skipped \cup page
  BY PageIs
<1> DEFINE shown == skipped \cup page
<1>2. page \in SUBSET rows /\ skipped \in SUBSET rows /\ IsFiniteSet(rows) /\ w \in Nat
  BY PageIs, WindowRows
<1>3. IsFiniteSet(skipped) /\ IsFiniteSet(page) /\ IsFiniteSet(shown) /\ shown \subseteq rows
  <2>1. shown \subseteq rows
    BY <1>2
  <2> QED
    BY <1>2, <2>1, FS_Subset
<1>4. Cardinality(shown) = Cardinality(skipped) + Cardinality(page)
  <2>1. skipped \cap page = {}
    BY <1>1
  <2>2. Cardinality(skipped \cap page) = 0
    BY <2>1, FS_EmptySet
  <2>3. Cardinality(skipped) \in Nat /\ Cardinality(page) \in Nat
    BY <1>3, FS_CardinalityType
  <2>4. Cardinality(shown) = Cardinality(skipped) + Cardinality(page) - Cardinality(skipped \cap page)
    BY <1>3, FS_Union
  <2> QED
    BY <2>2, <2>3, <2>4
<1>5. i \in rows /\ i \notin page /\ Cardinality(Above(i, r)) >= o
  BY DEF Missing, After
<1>6. Cardinality(Above(i, r)) \in Nat /\ IsFiniteSet(Above(i, r)) /\ i \notin Above(i, r)
  BY <1>5, WindowRows, BeforeIsStrict DEF Above
<1>7. Limit \in Nat \ {0} /\ o \in Nat
  BY NoneIsNoReading
<1>8. i \notin skipped
  <2> SUFFICES ASSUME i \in skipped PROVE FALSE
    OBVIOUS
  <2>1. Above(i, r) \subseteq skipped /\ Above(i, r) # skipped
    BY <1>1, <1>6 DEF Above
  <2>2. Cardinality(Above(i, r)) < Cardinality(skipped)
    BY <1>3, <1>6, <2>1, FS_Subset, FS_CardinalityType
  <2> HIDE DEF w, o
  <2> QED
    BY <1>1, <1>2, <1>5, <1>6, <1>7, <2>2
<1>9. w > o + Limit /\ Cardinality(shown) = o + Limit
  <2>1. shown # rows
    BY <1>5, <1>8
  <2>2. Cardinality(shown) # w
    BY <1>2, <1>3, <2>1, FS_Subset
  <2> HIDE DEF w, o, shown
  <2> QED
    BY <1>1, <1>2, <1>4, <1>7, <2>2
<1>10. shown \subseteq Above(i, r)
  <2> SUFFICES ASSUME NEW j \in shown PROVE H!Before(j, i, r)
    BY <1>3 DEF Above
  <2>1. j \in rows /\ j # i /\ ~H!Before(i, j, r)
    BY <1>1, <1>3, <1>5, <1>8
  <2>2. ~H!Before(i, i, r)
    BY <1>5, WindowRows, BeforeIsStrict
  <2> HIDE DEF shown
  <2> QED
    BY <1>5, <2>1, <2>2 DEF TieAbove, H!Tied
<1>11. Cardinality(shown) <= Cardinality(Above(i, r))
  BY <1>6, <1>10, FS_Subset
<1>12. Cardinality(shown) \in Nat
  BY <1>3, FS_CardinalityType
<1> HIDE DEF shown
<1> QED
  BY <1>6, <1>7, <1>9, <1>11, <1>12

\* A step after which no more rows are missing, with no fewer above each
LEMMA StillAfter ==
  ASSUME ReadingsTyped, ReadingsTyped', NEW n \in Nat,
         Missing(reader)' \subseteq Missing(reader),
         \A i \in Missing(reader)' : Above(i, reader) \subseteq Above(i, reader)',
         \A i \in Missing(reader)' : TieAbove(i, reader) => TieAbove(i, reader)',
         After(n, reader)
  PROVE  \A i \in Missing(reader)' : TieAbove(i, reader)' \/ Cardinality(Above(i, reader)') >= n
<1> SUFFICES ASSUME NEW i \in Missing(reader)', ~TieAbove(i, reader)'
             PROVE  Cardinality(Above(i, reader)') >= n
  OBVIOUS
<1>1. Cardinality(Above(i, reader)) >= n
  BY DEF After
<1>2. IsFiniteSet(Above(i, reader)') /\ Cardinality(Above(i, reader)') \in Nat
  <2>1. H!Stored' \subseteq H!Ids /\ IsFiniteSet(H!Ids)
    BY NoneIsNoReading, FS_Interval DEF H!Stored, H!Ids
  <2>2. Above(i, reader)' \subseteq H!Stored'
    BY DEF Above, H!Window
  <2> QED
    BY <2>1, <2>2, FS_Subset, FS_CardinalityType
<1>3. Cardinality(Above(i, reader)) \in Nat
  BY WindowRows
<1>4. Cardinality(Above(i, reader)) <= Cardinality(Above(i, reader)')
  BY <1>2, FS_Subset
<1> QED
  BY <1>1, <1>2, <1>3, <1>4

LEMMA TableArrives ==
  ASSUME HistoryTyped, TableInv, H!Arrive
  PROVE  TableInv'
<1> SUFFICES ASSUME reader'.op = "table" PROVE TableInv'
  BY DEF TableInv
<1>1. reader \in TableReads /\ reader' = [reader EXCEPT !.late = reader.late + 1] /\ reader.op = "table"
  BY ArrivedReader, ReaderIs
<1>2. /\ reader'.at = reader.at /\ reader'.sort = reader.sort /\ reader'.up = reader.up
      /\ reader'.filter = reader.filter /\ reader'.start = reader.start
      /\ reader'.offset = reader.offset /\ reader'.total = reader.total
      /\ reader'.first = reader.first /\ reader'.seen = reader.seen /\ reader'.slid = reader.slid
      /\ reader'.late # 0 /\ reader.offset \in Nat /\ reader.total \in Nat
  BY <1>1 DEF TableReads
<1>3. reader.first \subseteq H!Stored /\ H!Stored \subseteq H!Stored'
  BY <1>1, Arrived DEF TableInv
<1>4. ReadingsTyped /\ ReadingsTyped' /\ \A j \in H!Stored : readings'[j] = readings[j]
  BY Arrived DEF HistoryTyped
<1>5. ASSUME NEW i \in H!Stored
      PROVE  (i \in H!Window(reader)') <=> (i \in H!Window(reader))
  BY <1>2, <1>3, <1>4 DEF H!Window, H!Passes
<1>6. ASSUME NEW i \in H!Stored, NEW j \in H!Stored
      PROVE  H!Before(i, j, reader)' <=> H!Before(i, j, reader)
  BY <1>2, <1>4 DEF H!Before
<1>7. H!Window(reader) \subseteq H!Stored /\ H!Window(reader) \subseteq H!Window(reader)'
  <2>1. H!Window(reader) \subseteq H!Stored
    BY <1>4, WindowRows
  <2> QED
    BY <1>5, <2>1
<1>8. Missing(reader)' \subseteq Missing(reader)
  BY <1>2, <1>3, <1>5 DEF Missing
<1>9. Missing(reader) \subseteq H!Stored
  BY <1>3 DEF Missing
<1>10. \A i \in Missing(reader)' : Above(i, reader) \subseteq Above(i, reader)'
  BY <1>6, <1>7, <1>8, <1>9 DEF Above
<1>11. ASSUME NEW i \in Missing(reader)', TieAbove(i, reader) PROVE TieAbove(i, reader)'
  <2>1. PICK j \in H!Window(reader), k \in H!Window(reader) :
          j # k /\ H!Tied(j, k, reader) /\ ~H!Before(i, j, reader) /\ ~H!Before(i, k, reader)
    BY <1>11 DEF TieAbove
  <2>2. i \in H!Stored /\ j \in H!Stored /\ k \in H!Stored
    BY <1>7, <1>8, <1>9
  <2>3. H!Tied(j, k, reader)' /\ ~H!Before(i, j, reader)' /\ ~H!Before(i, k, reader)'
    BY <1>6, <2>1, <2>2 DEF H!Tied
  <2> QED
    BY <1>7, <2>1, <2>3 DEF TieAbove
<1>12. \A n \in Nat : After(n, reader) =>
         \A i \in Missing(reader)' : TieAbove(i, reader)' \/ Cardinality(Above(i, reader)') >= n
  BY <1>4, <1>8, <1>10, <1>11, StillAfter
<1>13. ASSUME reader'.at = "rows" PROVE reader'.total <= Cardinality(H!Window(reader)')
  <2>1. reader.total <= Cardinality(H!Window(reader)) /\ Cardinality(H!Window(reader)) \in Nat
    BY <1>1, <1>2, <1>4, <1>13, WindowRows DEF TableInv
  <2>2. IsFiniteSet(H!Window(reader)') /\ Cardinality(H!Window(reader)') \in Nat
    <3>1. H!Window(reader)' \subseteq H!Ids /\ IsFiniteSet(H!Ids)
      BY NoneIsNoReading, FS_Interval DEF H!Window, H!Stored, H!Ids
    <3> QED
      BY <3>1, FS_Subset, FS_CardinalityType
  <2>3. Cardinality(H!Window(reader)) <= Cardinality(H!Window(reader)')
    BY <1>7, <2>2, FS_Subset
  <2> QED
    BY <1>2, <2>1, <2>2, <2>3
<1>14. Excused(reader)' <=> Excused(reader)
  BY <1>2 DEF Excused
<1>15. ASSUME ~Excused(reader), reader.at \in {"count", "rows"} PROVE After(reader.offset, reader)'
  <2>1. After(reader.offset, reader)
    BY <1>1, <1>15 DEF TableInv
  <2> QED
    BY <1>2, <1>12, <2>1 DEF After
<1>16. ASSUME ~Excused(reader), reader.at = "page" PROVE After(reader.offset + Limit, reader)'
  <2>1. After(reader.offset + Limit, reader) /\ reader.offset + Limit \in Nat
    BY <1>1, <1>2, <1>16, NoneIsNoReading DEF TableInv
  <2> QED
    BY <1>2, <1>12, <2>1 DEF After
<1> QED
  BY <1>2, <1>3, <1>13, <1>14, <1>15, <1>16 DEF TableInv

LEMMA BeforeIsOneWay ==
  ASSUME ReadingsTyped, NEW r, NEW i \in H!Stored, NEW j \in H!Stored, H!Before(j, i, r)
  PROVE  ~H!Before(i, j, r)
<1>1. readings[i].at \in Nat /\ i \in Nat /\ readings[j].at \in Nat /\ j \in Nat
  BY StoredRows
<1>2. H!Sequence(i) \in Int /\ H!Sequence(j) \in Int
  BY <1>1 DEF H!Sequence
<1>3. H!Compare(readings[i].at, readings[j].at, r.up) =>
        ~H!Compare(readings[j].at, readings[i].at, r.up)
  BY <1>1 DEF H!Compare
<1>4. H!Compare(readings[i].at, readings[j].at, r.up) => readings[i].at # readings[j].at
  BY <1>1 DEF H!Compare
<1>5. H!Compare(readings[j].at, readings[i].at, r.up) => readings[i].at # readings[j].at
  BY <1>1 DEF H!Compare
<1>6. \A k \in H!Stored : readings[k].metric = None \/ readings[k].metric \in {0, 1}
  BY StoredRows DEF HistoryRow, H!Metrics
<1>7. readings[i].metric # None /\ readings[j].metric # None /\ H!Compare(readings[i].metric, readings[j].metric, r.up)
        => ~H!Compare(readings[j].metric, readings[i].metric, r.up)
  BY <1>6 DEF H!Compare
<1>8. CASE r.sort = "metric" /\ readings[i].metric # readings[j].metric
  BY <1>7, <1>8 DEF H!Before
<1>9. CASE ~(r.sort = "metric" /\ readings[i].metric # readings[j].metric)
  BY <1>2, <1>3, <1>4, <1>5, <1>9 DEF H!Before
<1> QED
  BY <1>8, <1>9

LEMMA TableOpens ==
  ASSUME HistoryTyped, H!OpenTable
  PROVE  HistoryTyped' /\ TableInv'
<1>1. PICK sort \in {"recorded_at", "metric"}, up \in BOOLEAN,
      filter \in {"none", "present", "minimum"} :
        reader' = [op |-> "table", at |-> "count", sort |-> sort, up |-> up, filter |-> filter,
                   start |-> 1, offset |-> 0, total |-> 0, first |-> {}, seen |-> {},
                   late |-> 0, slid |-> FALSE]
  BY DEF H!OpenTable
<1>2. readings' = readings
  BY DEF H!OpenTable
<1>3. HistoryTyped'
  BY <1>1, <1>2 DEF HistoryTyped, ReadingsTyped, TableReads, H!Ids
<1>4. reader'.at = "count" /\ reader'.first = {}
  BY <1>1
<1>5. After(reader.offset, reader)'
  BY <1>4 DEF After, Missing
<1> QED
  BY <1>3, <1>4, <1>5 DEF TableInv

LEMMA TableCounts ==
  ASSUME HistoryTyped, TableInv, H!Count
  PROVE  HistoryTyped' /\ TableInv'
<1> DEFINE opens == reader.offset = 0
<1>1. PICK start \in Times :
        /\ start >= reader.start
        /\ reader' = [[reader EXCEPT !.start = start] EXCEPT
             !.at = "rows", !.total = Cardinality(H!Window([reader EXCEPT !.start = start])),
             !.late = 0,
             !.first = IF opens THEN H!Window([reader EXCEPT !.start = start]) ELSE @,
             !.slid = ~opens /\ (@ \/ start > reader.start)]
  BY DEF H!Count, H!Cardinality, Cardinality
<1> DEFINE now == [reader EXCEPT !.start = start]
<1>2. /\ reader.op = "table" /\ reader.at = "count" /\ readings' = readings
      /\ reader \in TableReads /\ start \in Nat /\ ReadingsTyped
  BY ReaderIs, NoneIsNoReading DEF H!Count, HistoryTyped
<1>3. /\ reader'.at = "rows" /\ reader'.op = "table"
      /\ reader'.sort = reader.sort /\ reader'.up = reader.up
      /\ reader'.filter = reader.filter /\ reader'.start = start
      /\ reader'.offset = reader.offset /\ reader'.total = Cardinality(H!Window(now))
      /\ reader'.first = (IF opens THEN H!Window(now) ELSE reader.first)
      /\ reader'.seen = reader.seen
      /\ reader'.late = 0
  BY <1>1, <1>2 DEF TableReads
<1>4. reader'.slid = (~opens /\ (reader.slid \/ start > reader.start))
  BY <1>1, <1>2 DEF TableReads
<1>5. H!Stored' = H!Stored /\ ReadingsTyped'
  BY <1>2 DEF H!Stored, ReadingsTyped, H!Ids
<1>6. H!Window(now) = H!Window(reader)'
  <2>1. now.start = start /\ now.filter = reader.filter
    BY <1>2 DEF TableReads
  <2> HIDE DEF now
  <2> QED
    BY <1>2, <1>3, <1>5, <2>1 DEF H!Window, H!Passes
<1> HIDE DEF now
<1>7. H!Window(reader)' \subseteq H!Stored /\ Cardinality(H!Window(reader)') \in Nat
  BY <1>2, <1>6, WindowRows
<1>8. HistoryTyped'
  <2>1. reader' \in TableReads
    <3>1. H!Window(now) \subseteq H!Ids /\ Cardinality(H!Window(now)) \in Nat
      BY <1>6, <1>7, <1>2, StoredRows
    <3> QED
      BY <1>1, <1>2, <3>1 DEF TableReads, now
  <2> QED
    BY <1>5, <2>1 DEF HistoryTyped
<1>9. reader'.first \subseteq H!Stored'
  BY <1>2, <1>3, <1>5, <1>6, <1>7 DEF TableInv
<1>10. reader'.total = Cardinality(H!Window(reader)') /\ reader'.total <= Cardinality(H!Window(reader)')
  BY <1>3, <1>6, <1>7
<1>11. CASE opens
  <2>1. \A i : Cardinality(Above(i, reader)') \in Nat
    <3>1. \A i : Above(i, reader)' \subseteq H!Stored
      BY <1>7 DEF Above
    <3> QED
      BY <1>2, <3>1, StoredRows, FS_Subset, FS_CardinalityType
  <2>2. After(reader.offset, reader)'
    BY <1>3, <1>11, <2>1 DEF After
  <2> QED
    BY <1>3, <1>8, <1>9, <1>10, <2>2 DEF TableInv
<1>12. CASE ~opens /\ Excused(reader)
  <2>1. Excused(reader)'
    BY <1>2, <1>3, <1>4, <1>12 DEF Excused
  <2> QED
    BY <1>3, <1>8, <1>9, <1>10, <2>1 DEF TableInv
<1>13. CASE ~opens /\ ~Excused(reader)
  <2>1. ASSUME ~Excused(reader)' PROVE After(reader.offset, reader)'
    <3>1. After(reader.offset, reader) /\ reader.offset \in Nat
      BY <1>2, <1>13 DEF TableInv, TableReads
    <3>2. start = reader.start \/ (reader.sort = "recorded_at" /\ ~reader.up)
      <4>1. reader'.slid = (reader.slid \/ start > reader.start)
        BY <1>4, <1>13
      <4>2. ~reader'.slid \/ (reader.sort = "recorded_at" /\ ~reader.up)
        BY <1>3, <2>1 DEF Excused
      <4>3. start >= reader.start /\ start \in Nat /\ reader.start \in Nat
        BY <1>1, <1>2 DEF TableReads
      <4>4. start > reader.start => reader'.slid
        BY <4>1
      <4>5. CASE start > reader.start
        BY <4>2, <4>4, <4>5
      <4>6. CASE ~(start > reader.start)
        BY <4>3, <4>6
      <4> QED
        BY <4>5, <4>6
    <3>3. reader.start \in Nat /\ start >= reader.start
      BY <1>1, <1>2 DEF TableReads
    <3>4. H!Window(reader)' \subseteq H!Window(reader)
      <4>1. ASSUME NEW i \in H!Stored, readings[i].at >= start PROVE readings[i].at >= reader.start
        BY <1>2, <3>3, <4>1, StoredRows
      <4> QED
        BY <1>2, <1>3, <1>5, <4>1 DEF H!Window, H!Passes
    <3>5. \A i, j : H!Before(i, j, reader)' <=> H!Before(i, j, reader)
      BY <1>2, <1>3 DEF H!Before
    <3>6. ASSUME NEW i \in H!Window(reader)', NEW j \in H!Window(reader), ~H!Before(i, j, reader)
          PROVE  j \in H!Window(reader)'
      <4>1. CASE start = reader.start
        BY <1>2, <1>3, <1>5, <4>1 DEF H!Window, H!Passes
      <4>2. CASE reader.sort = "recorded_at" /\ ~reader.up
        <5>1. i \in H!Stored /\ j \in H!Stored /\ readings[i].at >= start
          BY <1>2, <1>3, <1>7 DEF H!Window
        <5>2. readings[i].at \in Nat /\ readings[j].at \in Nat
          BY <1>2, <5>1, StoredRows
        <5>3. ~(readings[j].at < readings[i].at)
          BY <3>6, <4>2, <5>2 DEF H!Before, H!Compare
        <5>4. readings[j].at >= start
          BY <1>2, <5>1, <5>2, <5>3
        <5> QED
          BY <1>2, <1>3, <1>5, <5>4 DEF H!Window, H!Passes
      <4> QED
        BY <3>2, <4>1, <4>2
    <3>7. ASSUME NEW i \in H!Window(reader)', NEW j \in H!Window(reader), H!Before(j, i, reader)
          PROVE  ~H!Before(i, j, reader)
      <4>1. i \in H!Stored /\ j \in H!Stored
        BY <1>2, <1>7, WindowRows
      <4> QED
        BY <1>2, <3>7, <4>1, BeforeIsOneWay
    <3>8. Missing(reader)' \subseteq Missing(reader)
      BY <1>3, <1>13, <3>4 DEF Missing
    <3>9. Missing(reader)' \subseteq H!Window(reader)'
      BY DEF Missing
    <3>10. \A i \in Missing(reader)' : Above(i, reader) \subseteq Above(i, reader)'
      BY <3>5, <3>6, <3>7, <3>9 DEF Above
    <3>11. ASSUME NEW i \in Missing(reader)', TieAbove(i, reader) PROVE TieAbove(i, reader)'
      <4>1. PICK j \in H!Window(reader), k \in H!Window(reader) :
              j # k /\ H!Tied(j, k, reader) /\ ~H!Before(i, j, reader) /\ ~H!Before(i, k, reader)
        BY <3>11 DEF TieAbove
      <4>2. j \in H!Window(reader)' /\ k \in H!Window(reader)'
        BY <3>6, <3>9, <4>1
      <4> QED
        BY <3>5, <4>1, <4>2 DEF TieAbove, H!Tied
    <3>12. \A i \in Missing(reader)' :
             TieAbove(i, reader)' \/ Cardinality(Above(i, reader)') >= reader.offset
      BY <1>2, <1>5, <3>1, <3>8, <3>10, <3>11, StillAfter
    <3> QED
      BY <1>3, <3>12 DEF After
  <2> QED
    BY <1>3, <1>8, <1>9, <1>10, <2>1 DEF TableInv
<1> QED
  BY <1>11, <1>12, <1>13

LEMMA TableShows ==
  ASSUME HistoryTyped, TableInv, H!ShowPage
  PROVE  HistoryTyped' /\ TableInv'
<1>1. PICK page \in H!Pages(reader) :
        reader' = [reader EXCEPT !.seen = @ \cup page,
                    !.at = IF reader.offset + Limit < reader.total THEN "page" ELSE "shown"]
  BY DEF H!ShowPage
<1> DEFINE rows == H!Window(reader)
           at == IF reader.offset + Limit < reader.total THEN "page" ELSE "shown"
<1>2. /\ reader.op = "table" /\ reader.at = "rows" /\ readings' = readings
      /\ reader \in TableReads /\ ReadingsTyped
  BY ReaderIs DEF H!ShowPage, HistoryTyped
<1>3. /\ reader'.at = at /\ reader'.op = "table"
      /\ reader'.sort = reader.sort /\ reader'.up = reader.up
      /\ reader'.filter = reader.filter /\ reader'.start = reader.start
      /\ reader'.offset = reader.offset /\ reader'.total = reader.total
      /\ reader'.first = reader.first /\ reader'.seen = reader.seen \cup page
      /\ reader'.late = reader.late /\ reader'.slid = reader.slid
  BY <1>1, <1>2 DEF TableReads
<1>4. reader.offset \in Nat /\ reader.total \in Nat /\ Limit \in Nat /\ Cardinality(rows) \in Nat
  BY <1>2, NoneIsNoReading, WindowRows DEF TableReads
<1>5. reader.first \subseteq H!Stored /\ reader.total <= Cardinality(rows)
      /\ (reader.late = 0 => reader.total = Cardinality(rows))
  BY <1>2 DEF TableInv
<1>6. H!Stored' = H!Stored /\ ReadingsTyped'
  BY <1>2 DEF H!Stored, ReadingsTyped, H!Ids
<1>7. H!Window(reader)' = rows
  BY <1>2, <1>3, <1>6 DEF H!Window, H!Passes
<1>8. \A i, j : H!Before(i, j, reader)' <=> H!Before(i, j, reader)
  BY <1>2, <1>3 DEF H!Before
<1>9. \A i : Above(i, reader)' = Above(i, reader)
  BY <1>7, <1>8 DEF Above
<1>10. \A i : TieAbove(i, reader)' <=> TieAbove(i, reader)
  BY <1>7, <1>8 DEF TieAbove, H!Tied
<1>11. Missing(reader)' = Missing(reader) \ page
  BY <1>3, <1>7 DEF Missing
<1>12. HistoryTyped'
  <2>1. page \subseteq H!Ids
    BY <1>2, PageIs, WindowRows, StoredRows
  <2> QED
    BY <1>1, <1>2, <1>6, <2>1 DEF HistoryTyped, TableReads
<1>13. Excused(reader)' <=> Excused(reader)
  BY <1>3 DEF Excused
<1> HIDE DEF rows
<1>14. ASSUME ~Excused(reader), NEW i \in Missing(reader)', ~TieAbove(i, reader)'
       PROVE  /\ Cardinality(rows) > reader.offset + Limit
              /\ Cardinality(Above(i, reader)) >= reader.offset + Limit
  <2>1. After(reader.offset, reader)
    BY <1>2, <1>14 DEF TableInv
  <2> QED
    BY <1>2, <1>4, <1>10, <1>11, <1>14, <2>1, Paged DEF rows
<1>15. ASSUME ~Excused(reader), at = "page" PROVE After(reader.offset + Limit, reader)'
  <2>1. \A i \in Missing(reader)' :
          TieAbove(i, reader)' \/ Cardinality(Above(i, reader)') >= reader.offset + Limit
    BY <1>9, <1>14, <1>15
  <2> QED
    BY <1>3, <2>1 DEF After
<1>16. ASSUME ~Excused(reader), at = "shown", reader.late = 0
       PROVE  \A i \in Missing(reader)' : TieAbove(i, reader)'
  <2>1. ~(reader.offset + Limit < reader.total)
    BY <1>16
  <2>2. ~(Cardinality(rows) > reader.offset + Limit)
    BY <1>4, <1>5, <1>16, <2>1
  <2> QED
    BY <1>14, <1>16, <2>2
<1>17. at # "rows" /\ at # "count"
  OBVIOUS
<1> HIDE DEF at
<1> QED
  BY <1>3, <1>5, <1>6, <1>12, <1>13, <1>15, <1>16, <1>17 DEF TableInv

LEMMA TableTurns ==
  ASSUME HistoryTyped, TableInv, H!NextPage
  PROVE  HistoryTyped' /\ TableInv'
<1>1. /\ reader.op = "table" /\ reader.at = "page" /\ readings' = readings
      /\ reader' = [reader EXCEPT !.at = "count", !.offset = reader.offset + Limit]
      /\ reader \in TableReads /\ ReadingsTyped
  BY ReaderIs DEF H!NextPage, HistoryTyped
<1>2. reader.offset + Limit \in Nat
  BY <1>1, NoneIsNoReading DEF TableReads
<1>3. /\ reader'.at = "count" /\ reader'.op = "table"
      /\ reader'.sort = reader.sort /\ reader'.up = reader.up
      /\ reader'.filter = reader.filter /\ reader'.start = reader.start
      /\ reader'.offset = reader.offset + Limit
      /\ reader'.first = reader.first /\ reader'.seen = reader.seen
      /\ reader'.slid = reader.slid
  BY <1>1 DEF TableReads
<1>4. H!Stored' = H!Stored /\ ReadingsTyped'
  BY <1>1 DEF H!Stored, ReadingsTyped, H!Ids
<1>5. H!Window(reader)' = H!Window(reader)
  BY <1>1, <1>3, <1>4 DEF H!Window, H!Passes
<1>6. \A i, j : H!Before(i, j, reader)' <=> H!Before(i, j, reader)
  BY <1>1, <1>3 DEF H!Before
<1>7. \A i : Above(i, reader)' = Above(i, reader)
  BY <1>5, <1>6 DEF Above
<1>8. \A i : TieAbove(i, reader)' <=> TieAbove(i, reader)
  BY <1>5, <1>6 DEF TieAbove, H!Tied
<1>9. Missing(reader)' = Missing(reader)
  BY <1>3, <1>5 DEF Missing
<1>10. HistoryTyped'
  BY <1>1, <1>2, <1>4 DEF HistoryTyped, TableReads
<1>11. Excused(reader)' <=> Excused(reader)
  BY <1>3 DEF Excused
<1>12. ASSUME ~Excused(reader) PROVE After(reader.offset, reader)'
  <2>1. After(reader.offset + Limit, reader)
    BY <1>1, <1>12 DEF TableInv
  <2>2. \A i \in Missing(reader)' :
          TieAbove(i, reader)' \/ Cardinality(Above(i, reader)') >= reader.offset + Limit
    BY <1>7, <1>8, <1>9, <2>1 DEF After
  <2> QED
    BY <1>3, <2>2 DEF After
<1> QED
  BY <1>1, <1>3, <1>4, <1>10, <1>11, <1>12 DEF TableInv

\* What lets the pages skip nothing
LEMMA TableInvShows ==
  ASSUME HistoryTyped, TableInv
  PROVE  PagesSkipNothing
<1> SUFFICES ASSUME reader.op = "table", reader.at = "shown", ~(reader.late > 0), ~Excused(reader),
                    ~\E i, j \in H!Window(reader) : i # j /\ H!Tied(i, j, reader)
             PROVE  Missing(reader) = {}
  BY DEF PagesSkipNothing, H!PagesSkipNothing, Excused, Missing
<1>1. reader.late = 0
  BY ReaderIs DEF TableReads
<1>2. \A i \in Missing(reader) : TieAbove(i, reader)
  BY <1>1 DEF TableInv
<1> QED
  BY <1>2 DEF TieAbove

----------------------------------------------------------------------------
(* Every step of the history.                                               *)

HistoryInv == HistoryTyped /\ ChartInv /\ TableInv

LEMMA HistoryStarts == H!Init => HistoryInv
BY DEF H!Init, H!Idle, H!Ids, HistoryInv, HistoryTyped, ReadingsTyped, ChartInv, TableInv

LEMMA ReaderLeaves ==
  ASSUME HistoryTyped, H!Remove \/ H!Close
  PROVE  HistoryInv'
<1>1. reader' = H!Idle
  BY DEF H!Remove, H!Close
<1>2. ReadingsTyped'
  BY DEF HistoryTyped, ReadingsTyped, H!Remove, H!Close, H!Ids
<1>3. HistoryTyped'
  BY <1>1, <1>2 DEF HistoryTyped, H!Idle
<1>4. reader'.op = "none"
  BY <1>1 DEF H!Idle
<1> QED
  BY <1>3, <1>4 DEF HistoryInv, ChartInv, TableInv

LEMMA HistorySteps ==
  ASSUME HistoryInv, [H!Next]_H!hVars
  PROVE  HistoryInv'
<1>1. CASE H!Arrive
  BY <1>1, ArrivedReader, ChartArrives, TableArrives DEF HistoryInv
<1>2. CASE H!Remove \/ H!Close
  BY <1>2, ReaderLeaves DEF HistoryInv
<1>3. CASE H!BeginChart
  <2>1. reader'.op = "chart"
    BY <1>3 DEF H!BeginChart
  <2> QED
    BY <1>3, <2>1, ChartBegins DEF HistoryInv, TableInv
<1>4. CASE H!Sample
  <2>1. reader'.op = "chart"
    BY <1>4, ReaderIs DEF H!Sample, ChartReads, HistoryInv
  <2> QED
    BY <1>4, <2>1, ChartSamples DEF HistoryInv, TableInv
<1>5. CASE H!ShowChart
  <2>1. reader'.op = "chart"
    BY <1>5, ReaderIs DEF H!ShowChart, ChartReads, HistoryInv
  <2> QED
    BY <1>5, <2>1, ChartShows DEF HistoryInv, TableInv
<1>6. CASE H!OpenTable
  <2>1. reader'.op = "table"
    BY <1>6 DEF H!OpenTable
  <2> QED
    BY <1>6, <2>1, TableOpens DEF HistoryInv, ChartInv
<1>7. CASE H!Count
  <2>1. reader'.op = "table"
    BY <1>7, ReaderIs DEF H!Count, TableReads, HistoryInv
  <2> QED
    BY <1>7, <2>1, TableCounts DEF HistoryInv, ChartInv
<1>8. CASE H!ShowPage
  <2>1. reader'.op = "table"
    BY <1>8, ReaderIs DEF H!ShowPage, TableReads, HistoryInv
  <2> QED
    BY <1>8, <2>1, TableShows DEF HistoryInv, ChartInv
<1>9. CASE H!NextPage
  <2>1. reader'.op = "table"
    BY <1>9, ReaderIs DEF H!NextPage, TableReads, HistoryInv
  <2> QED
    BY <1>9, <2>1, TableTurns DEF HistoryInv, ChartInv
<1>10. CASE UNCHANGED H!hVars
  <2>1. readings' = readings /\ reader' = reader
    BY <1>10 DEF H!hVars
  <2>2. HistoryTyped'
    BY <2>1 DEF HistoryInv, HistoryTyped, ReadingsTyped, H!Ids, H!Idle, ChartReads, TableReads
  <2>3. H!Stored' = H!Stored /\ \A i, j : H!Earlier(i, j)' <=> H!Earlier(i, j)
    BY <2>1 DEF H!Stored, H!Earlier
  <2>4. ChartInv'
    <3>1. \A p, i : Between(p, i)' = Between(p, i)
      BY <2>3 DEF Between
    <3>2. \A i : Near(i, reader.points, reader.stride)' <=> Near(i, reader.points, reader.stride)
      BY <2>1, <2>3, <3>1 DEF Near
    <3>3. Sorted(reader.points)' <=> Sorted(reader.points)
      BY <2>1, <2>3 DEF Sorted
    <3> QED
      BY <2>1, <2>3, <3>2, <3>3 DEF HistoryInv, ChartInv
  <2>5. TableInv'
    <3>1. H!Window(reader)' = H!Window(reader) /\ \A i, j : H!Before(i, j, reader)' <=>
            H!Before(i, j, reader)
      BY <2>1, <2>3 DEF H!Window, H!Passes, H!Before
    <3>2. \A i : Above(i, reader)' = Above(i, reader)
      BY <3>1 DEF Above
    <3>3. \A i : TieAbove(i, reader)' <=> TieAbove(i, reader)
      BY <3>1 DEF TieAbove, H!Tied
    <3>4. Missing(reader)' = Missing(reader) /\ (Excused(reader)' <=> Excused(reader))
      BY <2>1, <3>1 DEF Missing, Excused
    <3>5. After(reader.offset, reader)' <=> After(reader.offset, reader)
      BY <2>1, <3>2, <3>3, <3>4 DEF After
    <3>6. After(reader.offset + Limit, reader)' <=> After(reader.offset + Limit, reader)
      BY <2>1, <3>2, <3>3, <3>4 DEF After
    <3> QED
      BY <2>1, <2>3, <3>1, <3>3, <3>4, <3>5, <3>6 DEF HistoryInv, TableInv
  <2> QED
    BY <2>2, <2>4, <2>5 DEF HistoryInv
<1> QED
  BY <1>1, <1>2, <1>3, <1>4, <1>5, <1>6, <1>7, <1>8, <1>9, <1>10 DEF H!Next

LEMMA HistoryMoves == [ConsoleNext]_<<part, vars, dashboards, photos, enrollment, history, db, edits>>
                        => [H!Next]_H!hVars
BY DEF ConsoleNext, history, H!hVars

\* The inductive invariant of History.
THEOREM HistoryHolds == ConsoleSpec => []HistoryInv
<1>1. ConsoleInit => HistoryInv
  BY HistoryStarts DEF ConsoleInit
<1>2. HistoryInv /\ [ConsoleNext]_<<part, vars, dashboards, photos, enrollment, history, db, edits>>
        => HistoryInv'
  BY HistorySteps, HistoryMoves
<1> QED
  BY <1>1, <1>2, PTL DEF ConsoleSpec

\* A chart has its points in order, few enough, and near every reading, for any number
\* of readings, which arrive between its two statements (history/routes.py:114, :139).
THEOREM ChartIsInOrder == ConsoleSpec => []ChartInOrder
<1>1. HistoryInv => ChartInOrder
  BY ChartInvShows DEF HistoryInv
<1> QED
  BY <1>1, HistoryHolds, PTL

\* Who reads the table page by page to its end has seen every reading that was there
\* all along, but for ties and removals, for any number of readings and any size of
\* the pages (history/routes.py:247-257).
THEOREM PagesAreComplete == ConsoleSpec => []PagesSkipNothing
<1>1. HistoryInv => PagesSkipNothing
  BY TableInvShows DEF HistoryInv
<1> QED
  BY <1>1, HistoryHolds, PTL

=============================================================================
