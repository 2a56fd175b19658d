------------------------ MODULE VehicleSensingProofs ------------------------
(***************************************************************************)
(* Theorems about VehicleSensing, for every vehicle, every configuration    *)
(* and any number of goroutines that are late with closing their adapter.   *)
(***************************************************************************)
EXTENDS VehicleSensing, TLAPS

\* What SensingInv rests on: the loop connects only when it has no source, and
\* a source that is missing after an attempt has left a fault behind.
ConnectsAlone == step = "connect" => ~running
FailureKept ==
  ~running /\ step \notin {"connect", "closing"} /\ (retry > 0 \/ step = "sample") => failure

Sourced == OneListener /\ ListenerRuns /\ ClosingWaits /\ ConnectsAlone /\ FailureKept
SensingIInv == TypeOK /\ Sourced

LEMMA MaxAgeType == MaxAge \in Nat
BY SensingAssumption DEF MaxAge, Longest

\* What every counter starts with is in its range.
LEMMA InRange ==
  /\ 0 \in 0..Retry /\ 0 \in 0..ConnectTime /\ 0 \in 0..(Driving + Parked)
  /\ Grace \in 0..Grace /\ 0 \in 0..(MaxAge + 1)
<1>1. {Driving, Parked, Grace, Retry} \subseteq Nat /\ ConnectTime \in Nat
  BY SensingAssumption
<1> QED
  BY <1>1, MaxAgeType

LEMMA SaysType == ASSUME NEW s \in Names PROVE Says(s) \subseteq {"yes", "no"}
BY DEF Says, Names

LEMMA SpawnedIsFree == Free # {} => Spawned \in 1..Monitors /\ monitors[Spawned] = "none"
BY DEF Free, Spawned

LEMMA FaultsFollow == SensingIInv => SensingInv
BY DEF SensingIInv, Sourced, SensingInv, FaultIsNamed, FailureKept, Read, TypeOK

LEMMA SensingInit == Init => SensingIInv
<1> SUFFICES ASSUME Init PROVE SensingIInv
  OBVIOUS
<1>1. TypeOK
  <2>1. fix \in [place : Places \cup {Nowhere}, moving : BOOLEAN]
    BY DEF Init, NoFix
  <2>2. /\ monitors \in [1..Monitors -> {"none", "begin", "loop", "ended"}]
        /\ metrics \in [Names -> {"absent", "yes", "no"}]
    BY DEF Init, Idle, Unread
  <2> QED
    BY <2>1, <2>2, InRange DEF Init, TypeOK
<1>2. Sourced
  BY DEF Init, Sourced, OneListener, ListenerRuns, ClosingWaits, ConnectsAlone,
         FailureKept, Listening, Idle
<1> QED
  BY <1>1, <1>2 DEF SensingIInv

----------------------------------------------------------------------------
(* Types, one step per action.                                             *)

LEMMA TypeKept ==
  ASSUME SensingIInv, [Next]_vars
  PROVE  TypeOK'
<1> USE DEF SensingIInv
<1>1. CASE UNCHANGED vars
  BY <1>1 DEF TypeOK, vars, world, receiver, source, loop, detector
<1>2. CASE World
  <2>1. car' \in Cars /\ place' \in Places
    BY <1>2 DEF World, Turn, Move, Plug, TypeOK
  <2>2. plugged' \in BOOLEAN
    BY <1>2 DEF World, Turn, Move, Plug, TypeOK
  <2>3. port' \in {"closed", "open", "dead"}
    BY <1>2 DEF World, Turn, Move, Plug, TypeOK
  <2> QED
    BY <1>2, <2>1, <2>2, <2>3 DEF World, TypeOK, receiver, source, loop, detector
<1>3. CASE ReadPosition
  <2>1. fix' \in [place : Places \cup {Nowhere}, moving : BOOLEAN]
    <3>1. Here \in [place : Places \cup {Nowhere}, moving : BOOLEAN]
      <4>1. (ReportsSpeed /\ car = "driving") \in BOOLEAN /\ place \in Places
        BY DEF TypeOK
      <4> QED
        BY <4>1 DEF Here
    <3> QED
      BY <1>3, <3>1 DEF ReadPosition, TypeOK, receiver
  <2>2. fixAge' \in 0..(MaxAge + 1)
    BY <1>3, InRange DEF ReadPosition, TypeOK, receiver
  <2>3. Fresh' \in BOOLEAN
    BY DEF Fresh
  <2>4. seen' \in BOOLEAN
    BY <1>3, <2>3 DEF ReadPosition
  <2> QED
    BY <1>3, <2>1, <2>2, <2>4 DEF ReadPosition, TypeOK, world, source, detector
<1>4. CASE Connect
  BY <1>4, SensingAssumption DEF Connect, TypeOK, world, receiver, detector
<1>5. CASE ConnectFails
  BY <1>5 DEF ConnectFails, TypeOK, world, receiver, detector
<1>6. CASE Connected
  <2>1. monitors' \in [1..Monitors -> {"none", "begin", "loop", "ended"}]
    BY <1>6 DEF Connected, TypeOK
  <2> QED
    BY <1>6, <2>1 DEF Connected, TypeOK, world, receiver, detector
<1>7. CASE Query
  BY <1>7 DEF Query, TypeOK, world, receiver, source, detector
<1>8. CASE QueryFails
  BY <1>8 DEF QueryFails, TypeOK, world, receiver, detector
<1>9. CASE Observe
  <2>1. due' \in 0..(Driving + Parked)
    BY <1>9, SensingAssumption DEF Observe, TypeOK
  <2>2. since' \in 0..Grace
    BY <1>9, SensingAssumption DEF Observe, TypeOK
  <2>3. anchor' \in Places \cup {Nowhere}
    BY <1>9 DEF Observe, TypeOK
  <2>4. metrics' \in [Names -> {"absent", "yes", "no"}]
    BY <1>9 DEF Observe, TypeOK, Unread
  <2>5. busy' \in 0..ConnectTime
    BY <1>9, SensingAssumption DEF Observe, TypeOK
  <2>6. /\ inUse' \in BOOLEAN /\ seen' \in BOOLEAN /\ step' = "idle"
        /\ UNCHANGED <<car, place, plugged, fix, fixAge, kind, running, stopping,
                       retry, failure, port, monitors>>
    BY <1>9 DEF Observe, world, receiver, source
  <2> QED
    BY <2>1, <2>2, <2>3, <2>4, <2>5, <2>6 DEF TypeOK
<1>10. CASE Tick
  <2>1. fixAge' \in 0..(MaxAge + 1)
    BY <1>10, MaxAgeType DEF Tick, Older, TypeOK
  <2>2. due' \in 0..(Driving + Parked) /\ retry' \in 0..Retry
    BY <1>10, SensingAssumption DEF Tick, Less, TypeOK
  <2>3. since' \in 0..Grace /\ busy' \in 0..ConnectTime
    BY <1>10, SensingAssumption DEF Tick, Older, TypeOK
  <2>4. UNCHANGED <<car, place, plugged, fix, kind, running, stopping, failure, port,
                    monitors, metrics, step, seen, anchor, inUse>>
    BY <1>10 DEF Tick, world
  <2> QED
    BY <2>1, <2>2, <2>3, <2>4 DEF TypeOK
<1>11. ASSUME NEW t \in 1..Monitors, Monitor(t) PROVE TypeOK'
  <2>1. CASE Begin(t)
    BY <2>1 DEF Begin, TypeOK, world, receiver, source, loop, detector
  <2>2. CASE BeginFails(t)
    BY <2>2 DEF BeginFails, Ends, TypeOK, world, receiver, loop, detector
  <2>3. CASE Stopped(t)
    BY <2>3 DEF Stopped, Ends, TypeOK, world, receiver, loop, detector
  <2>4. CASE CloseAdapter(t)
    BY <2>4 DEF CloseAdapter, TypeOK, world, receiver, source, loop, detector
  <2>5. CASE \E s \in Signals : Frame(t, s)
    <3>1. PICK s \in Signals : Frame(t, s)
      BY <2>5
    <3>2. s \in Names
      BY SensingAssumption
    <3>3. PICK v \in Says(s) : metrics' = [metrics EXCEPT ![s] = v]
      BY <3>1 DEF Frame, Decoded
    <3>4. metrics' \in [Names -> {"absent", "yes", "no"}]
      BY <3>2, <3>3, SaysType DEF TypeOK
    <3> QED
      BY <3>1, <3>4 DEF Frame, TypeOK, world, receiver, source, loop, detector
  <2> QED
    BY <1>11, <2>1, <2>2, <2>3, <2>4, <2>5 DEF Monitor, Goroutine
<1>12. CASE CloseSource
  BY <1>12 DEF CloseSource, TypeOK, world, receiver, detector
<1>13. ASSUME NEW k \in Kinds, NewSource(k)
       PROVE  /\ kind' \in Kinds /\ port' \in {"closed", "open", "dead"}
              /\ running' \in BOOLEAN /\ stopping' \in BOOLEAN
              /\ monitors' \in [1..Monitors -> {"none", "begin", "loop", "ended"}]
              /\ retry' \in 0..Retry /\ failure' \in BOOLEAN
              /\ metrics' \in [Names -> {"absent", "yes", "no"}]
  BY <1>13, InRange DEF NewSource, Idle, Unread
<1>14. ASSUME NEW k \in Kinds, Replace(k) PROVE TypeOK'
  BY <1>13, <1>14 DEF Replace, TypeOK, world, receiver, detector
<1>15. ASSUME NEW k \in Kinds, Restart(k) PROVE TypeOK'
  <2>1. fix' \in [place : Places \cup {Nowhere}, moving : BOOLEAN]
    BY <1>15 DEF Restart, NoFix
  <2> QED
    BY <1>13, <1>15, <2>1, InRange DEF Restart, TypeOK, world
<1> QED
  BY <1>1, <1>2, <1>3, <1>4, <1>5, <1>6, <1>7, <1>8, <1>9, <1>10, <1>11, <1>12, <1>14,
     <1>15 DEF Next, Collect, Interrupted

----------------------------------------------------------------------------
(* The source, its goroutine and its faults.                               *)

\* A step that leaves the source and its goroutines alone and neither connects
\* nor arrives at the sample keeps what is known of them.
LEMMA SourceKept ==
  ASSUME SensingIInv, UNCHANGED <<source, monitors>>, step # "connect",
         step' # "connect", step' = "sample" => step = "sample" \/ running,
         step = "closing" => step' = "closing"
  PROVE  Sourced'
BY DEF SensingIInv, Sourced, OneListener, ListenerRuns, ClosingWaits, ConnectsAlone,
       FailureKept, Listening, source, TypeOK

\* A goroutine that has returned from MonitorUntil gives its source up.
LEMMA GivenUp ==
  ASSUME SensingIInv, NEW t \in 1..Monitors, NEW failed \in BOOLEAN,
         Listening(t), Ends(t, failed), stopping \/ failed
  PROVE  Sourced'
<1>1. /\ monitors' = [monitors EXCEPT ![t] = "ended"] /\ running' = FALSE
      /\ failure' = (failure \/ failed)
      /\ UNCHANGED <<kind, stopping, retry, step>>
  BY DEF Ends, loop
<1>2. \A u \in 1..Monitors : ~Listening(u)'
  BY <1>1 DEF SensingIInv, Sourced, OneListener, Listening, TypeOK
<1>3. FailureKept'
  BY <1>1 DEF SensingIInv, Sourced, ClosingWaits, FailureKept
<1> QED
  BY <1>1, <1>2, <1>3 DEF SensingIInv, Sourced, OneListener, ListenerRuns, ClosingWaits,
                          ConnectsAlone

\* A new source has no goroutine, no fault and no attempt behind it.
LEMMA StartsOver ==
  ASSUME NEW k \in Kinds, NewSource(k), step' = "idle"
  PROVE  Sourced'
<1>1. \A t \in 1..Monitors : ~Listening(t)'
  BY DEF NewSource, Idle, Listening
<1> QED
  BY <1>1 DEF NewSource, Sourced, OneListener, ListenerRuns, ClosingWaits, ConnectsAlone,
              FailureKept

LEMMA ConnectionKept ==
  ASSUME SensingIInv, Connect \/ ConnectFails \/ Connected \/ QueryFails
  PROVE  Sourced'
<1> USE DEF SensingIInv, Sourced
<1>1. CASE Connect
  <2>1. \A t \in 1..Monitors : ~Listening(t)
    BY <1>1 DEF Connect, OneListener, ClosingWaits, TypeOK
  <2>2. /\ step' = "connect" /\ running' = FALSE /\ stopping = FALSE
        /\ UNCHANGED <<kind, stopping, monitors>>
    BY <1>1 DEF Connect, ClosingWaits, TypeOK
  <2> QED
    BY <2>1, <2>2 DEF OneListener, ListenerRuns, ClosingWaits, ConnectsAlone, FailureKept,
                      Listening
<1>2. CASE ConnectFails
  <2>1. \A t \in 1..Monitors : ~Listening(t)
    BY <1>2 DEF ConnectFails, OneListener
  <2>2. /\ step' = "sample" /\ failure' = TRUE /\ ~running' /\ ~stopping'
        /\ UNCHANGED <<kind, monitors>>
    BY <1>2 DEF ConnectFails, ClosingWaits, ConnectsAlone, TypeOK
  <2> QED
    BY <2>1, <2>2 DEF OneListener, ListenerRuns, ClosingWaits, ConnectsAlone, FailureKept,
                      Listening
<1>3. CASE Connected
  <2>1. \A t \in 1..Monitors : ~Listening(t)
    BY <1>3 DEF Connected, OneListener
  <2>2. /\ running' = TRUE /\ stopping' = FALSE /\ kind' = kind
        /\ step' \in {"sample", "vehicle"}
    BY <1>3 DEF Connected, ClosingWaits, TypeOK
  <2>3. CASE kind = "profile"
    <3>1. Spawned \in 1..Monitors /\ monitors' = [monitors EXCEPT ![Spawned] = "begin"]
      BY <1>3, <2>3, SpawnedIsFree DEF Connected
    <3>2. \A t \in 1..Monitors : Listening(t)' <=> t = Spawned
      BY <2>1, <3>1 DEF Listening, TypeOK
    <3> HIDE DEF Spawned, Listening
    <3>3. PICK w \in 1..Monitors : \A t \in 1..Monitors : Listening(t)' <=> t = w
      BY <3>1, <3>2
    <3> QED
      BY <2>2, <2>3, <3>3 DEF OneListener, ListenerRuns, ClosingWaits, ConnectsAlone,
                              FailureKept
  <2>4. CASE kind # "profile"
    <3>1. \A t \in 1..Monitors : ~Listening(t)'
      BY <1>3, <2>1, <2>4 DEF Connected, Listening
    <3> QED
      BY <2>2, <2>4, <3>1 DEF OneListener, ListenerRuns, ClosingWaits, ConnectsAlone,
                              FailureKept
  <2> QED
    BY <2>3, <2>4
<1>4. CASE QueryFails
  <2>1. \A t \in 1..Monitors : ~Listening(t)
    BY <1>4 DEF QueryFails, OneListener
  <2>2. /\ step' = "sample" /\ failure' = TRUE /\ running' = FALSE /\ stopping' = FALSE
        /\ UNCHANGED <<kind, monitors>>
    BY <1>4 DEF QueryFails, ClosingWaits, TypeOK
  <2> QED
    BY <2>1, <2>2 DEF OneListener, ListenerRuns, ClosingWaits, ConnectsAlone, FailureKept,
                      Listening
<1> QED
  BY <1>1, <1>2, <1>3, <1>4

LEMMA GoroutineKept ==
  ASSUME SensingIInv, NEW t \in 1..Monitors, Monitor(t)
  PROVE  Sourced'
<1>1. CASE Begin(t)
  <2>1. \A u \in 1..Monitors : Listening(u)' <=> Listening(u)
    BY <1>1 DEF Begin, Listening, SensingIInv, TypeOK
  <2>2. UNCHANGED <<kind, running, stopping, retry, failure, step>>
    BY <1>1 DEF Begin, source, loop
  <2> HIDE DEF Listening
  <2> QED
    BY <2>1, <2>2 DEF SensingIInv, Sourced, OneListener, ListenerRuns, ClosingWaits,
                      ConnectsAlone, FailureKept
<1>2. CASE BeginFails(t)
  BY <1>2, GivenUp DEF BeginFails, Listening
<1>3. CASE Stopped(t)
  BY <1>3, GivenUp DEF Stopped, Listening
<1>4. CASE CloseAdapter(t)
  <2>1. \A u \in 1..Monitors : Listening(u)' <=> Listening(u)
    BY <1>4 DEF CloseAdapter, Listening, SensingIInv, TypeOK
  <2>2. UNCHANGED <<kind, running, stopping, retry, failure, step>>
    BY <1>4 DEF CloseAdapter, source, loop
  <2> HIDE DEF Listening
  <2> QED
    BY <2>1, <2>2 DEF SensingIInv, Sourced, OneListener, ListenerRuns, ClosingWaits,
                      ConnectsAlone, FailureKept
<1>5. CASE \E s \in Signals : Frame(t, s)
  <2>1. UNCHANGED <<kind, running, stopping, retry, failure, step, monitors>>
    BY <1>5 DEF Frame, source, loop
  <2> QED
    BY <2>1 DEF SensingIInv, Sourced, OneListener, ListenerRuns, ClosingWaits,
                ConnectsAlone, FailureKept, Listening
<1> QED
  BY <1>1, <1>2, <1>3, <1>4, <1>5 DEF Monitor, Goroutine

LEMMA SourcedKept ==
  ASSUME SensingIInv, [Next]_vars
  PROVE  Sourced'
<1>1. CASE UNCHANGED vars \/ World
  <2>1. UNCHANGED <<kind, running, stopping, retry, failure, step, monitors>>
    BY <1>1 DEF vars, World, source, loop
  <2> QED
    BY <2>1 DEF SensingIInv, Sourced, OneListener, ListenerRuns, ClosingWaits,
                ConnectsAlone, FailureKept, Listening
<1>2. CASE ReadPosition
  BY <1>2, SourceKept DEF ReadPosition
<1>3. CASE Connect \/ ConnectFails \/ Connected \/ QueryFails
  BY <1>3, ConnectionKept
<1>4. CASE Query
  BY <1>4, SourceKept DEF Query
<1>5. CASE Observe
  <2>1. step \in {"sample", "vehicle"}
    BY <1>5 DEF Observe, Read
  <2> QED
    BY <1>5, <2>1, SourceKept DEF Observe
<1>6. CASE Tick
  <2>1. UNCHANGED <<kind, running, stopping, failure, step, monitors>>
    BY <1>6 DEF Tick
  <2>2. retry' > 0 => retry > 0
    BY <1>6, SensingAssumption DEF Tick, Less, SensingIInv, TypeOK
  <2> QED
    BY <2>1, <2>2 DEF SensingIInv, Sourced, OneListener, ListenerRuns, ClosingWaits,
                      ConnectsAlone, FailureKept, Listening
<1>7. CASE \E t \in 1..Monitors : Monitor(t)
  BY <1>7, GoroutineKept
<1>8. CASE CloseSource
  <2>1. /\ running = TRUE /\ stopping = FALSE /\ running' = FALSE /\ stopping' = TRUE
        /\ step' = "closing" /\ UNCHANGED <<kind, monitors>>
    BY <1>8 DEF CloseSource, SensingIInv, Sourced, ClosingWaits, TypeOK
  <2> QED
    BY <2>1 DEF SensingIInv, Sourced, OneListener, ListenerRuns, ClosingWaits,
                ConnectsAlone, FailureKept, Listening
<1>9. CASE Interrupted
  BY <1>9, StartsOver DEF Interrupted, Replace, Restart
<1> QED
  BY <1>1, <1>2, <1>3, <1>4, <1>5, <1>6, <1>7, <1>8, <1>9 DEF Next, Collect

----------------------------------------------------------------------------

THEOREM SensingInductive == Spec => []SensingIInv
<1>1. SensingIInv /\ [Next]_vars => SensingIInv'
  BY TypeKept, SourcedKept DEF SensingIInv
<1> QED
  BY <1>1, SensingInit, PTL DEF Spec

\* The variables have their types, whatever the vehicle, the plug and the
\* operator do (commandRun and the sources it runs).
THEOREM SensingTypes == Spec => []TypeOK
<1>1. SensingIInv => TypeOK
  BY DEF SensingIInv
<1> QED
  BY <1>1, SensingInductive, PTL

\* One goroutine listens at most, never while the loop connects, the source is
\* given up exactly when it has gone, and a sample without a source names the
\* fault (ProfileProvider and StandardOBDProvider).
THEOREM SourceInOrder == Spec => []SensingInv
BY FaultsFollow, SensingInductive, PTL
=============================================================================
