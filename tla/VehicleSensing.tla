--------------------------- MODULE VehicleSensing ---------------------------
(***************************************************************************)
(* How the agent senses its vehicle: the sampling loop of commandRun, the  *)
(* receiver whose fixes age, the two sources that read the OBD adapter,    *)
(* one of them through a goroutine that monitors the bus, and the detector *)
(* that decides from all this whether the vehicle is in use and with that  *)
(* how long the loop waits.  Configuration syncs replace the source        *)
(* (ConfigSync has their versions), and what becomes of the samples is     *)
(* TelemetryUplink's part.                                                 *)
(*                                                                         *)
(* Time passes in ticks: a countdown stands for a deadline of the code, a  *)
(* counter that stops at its limit for the age of something.               *)
(***************************************************************************)
EXTENDS Integers

CONSTANTS
    Signals,        \* the canonical names the vehicle's source decodes
    Cars,           \* the vehicle's states that are considered
    Places, Nowhere, \* places more than 60 m apart
    Roads,          \* the pairs of places the vehicle moves between
    ReportsSpeed,   \* whether the receiver reports the speed over ground
    Kinds,          \* the sources a configuration selects
    Driving, Parked, \* the two sampling intervals
    Grace,          \* DefaultActivityGrace
    Retry,          \* connectRetryInterval
    ConnectTime,    \* bound on the time one connection takes
    DefaultFixMaxAge, \* the least age at which a fix is discarded
    Monitors        \* bound on the monitor goroutines alive at once

Names == {"vehicle.ready", "charging.active", "engine.rpm", "vehicle.speed"}
readinessMetrics == <<"vehicle.ready", "charging.active">>

ASSUME SensingAssumption ==
    /\ Signals \subseteq Names
    /\ Cars \subseteq {"asleep", "off", "ready", "driving", "charging"}
    /\ Nowhere \notin Places /\ Roads \subseteq Places \X Places
    /\ ReportsSpeed \in BOOLEAN
    /\ Kinds \subseteq {"profile", "standard"}
    /\ {Driving, Parked, Grace, Retry} \subseteq Nat \ {0}
    /\ {DefaultFixMaxAge, ConnectTime, Monitors} \subseteq Nat

VARIABLES
    car, place,     \* the vehicle
    plugged,        \* whether the adapter is plugged in
    fix, fixAge,    \* NMEAProvider: parser.LastFix, and the time since lastFix
    kind,           \* which VehicleProvider the agent has
    port,           \* its adapter's serial port: "closed", "open", or "dead"
    running,        \* profile: stop is not nil; standard: connected
    stopping,       \* Close has closed the channel and waits
    monitors,       \* the goroutines of the profile's source
    retry,          \* time until nextTry
    failure,        \* whether Status has a fault to name
    metrics,        \* the decoded values, as far as the detector tells them apart
    step, busy,     \* where the loop is, and the time its pass has taken
    seen,           \* whether the sample has a position
    anchor, since,  \* ActivityDetector: anchor, and the time since lastEvidence
    inUse, due      \* what Collect decided, and the time until nextSample

world == <<car, place, plugged>>
receiver == <<fix, fixAge>>
source == <<kind, running, stopping, retry, failure>>
loop == <<step, busy, seen, due>>
detector == <<anchor, since, inUse>>
vars == <<world, receiver, source, port, monitors, metrics, loop, detector>>

(* startPosition: a fix is reported for two of the longest intervals.      *)
Longest == IF Parked > Driving THEN Parked ELSE Driving
MaxAge == IF 2 * Longest > DefaultFixMaxAge THEN 2 * Longest ELSE DefaultFixMaxAge

Unread == [s \in Names |-> "absent"]
NoFix == [place |-> Nowhere, moving |-> FALSE]
Idle == [t \in 1..Monitors |-> "none"]

Init ==
    /\ car \in Cars /\ place \in Places
    /\ plugged \in BOOLEAN
    /\ fix = NoFix /\ fixAge = 0
    /\ kind \in Kinds /\ port = "closed" /\ running = FALSE /\ stopping = FALSE
    /\ retry = 0 /\ failure = FALSE
    /\ monitors = Idle /\ metrics = Unread
    /\ step = "idle" /\ busy = 0 /\ seen = FALSE /\ due = 0
    /\ anchor = Nowhere /\ since = Grace /\ inUse = FALSE

-----------------------------------------------------------------------------
(* The vehicle and the plug change at any moment.  An adapter that is      *)
(* pulled out leaves an open port on which every call fails.               *)

Awake == car # "asleep"

Turn(c) == car # c /\ car' = c /\ UNCHANGED <<place, plugged, port>>
Move(p) == <<place, p>> \in Roads /\ place' = p /\ UNCHANGED <<car, plugged, port>>
Plug ==
    /\ plugged' = ~plugged
    /\ port' = IF port = "open" THEN "dead" ELSE port
    /\ UNCHANGED <<car, place>>

World ==
    /\ \/ \E c \in Cars : Turn(c)
       \/ \E p \in Places : Move(p)
       \/ Plug
    /\ UNCHANGED <<receiver, source, monitors, metrics, loop, detector>>

(* What the vehicle says when a signal is asked for or broadcast: whether  *)
(* the reading speaks for a vehicle in use.  An engine that the stop-start *)
(* system has switched off turns at zero.                                  *)
Says(s) ==
    LET on == [n \in Names |->
               CASE n = "vehicle.ready" -> {"ready", "driving"}
                 [] n = "charging.active" -> {"charging"}
                 [] n = "engine.rpm" -> {"driving"}
                 [] n = "vehicle.speed" -> {"driving"}]
    IN  {IF car \in on[s] THEN "yes" ELSE "no"}
          \cup (IF s = "engine.rpm" /\ car = "ready" THEN {"yes"} ELSE {})

-----------------------------------------------------------------------------
(* Collect, first part: the position.  A receiver under the sky publishes  *)
(* all the time, so a read consumes what is true now.  Without sky the     *)
(* last fix is reported until it is too old.  An error reports none, also  *)
(* when a fix was consumed before it.                                      *)

Here == [place |-> place, moving |-> ReportsSpeed /\ car = "driving"]

AnyFix == fix # NoFix   \* mutant: a fix never gets too old
Fresh == fix # NoFix /\ fixAge <= MaxAge

ReadPosition ==
    /\ step = "idle" /\ due = 0
    /\ step' = "vehicle"
    /\ \/ fix' = Here /\ fixAge' = 0
       \/ UNCHANGED receiver
    /\ seen' \in {FALSE, Fresh'}
    /\ UNCHANGED <<world, source, port, monitors, metrics, busy, due, detector>>

(* Collect, second part: the vehicle.  Either source connects when it has  *)
(* no connection and its last attempt is long enough ago; until then, and  *)
(* while a goroutine listens, the sample takes the values there are.       *)
Connect ==
    /\ step = "vehicle" /\ ~running /\ retry = 0
    /\ retry' = Retry
    /\ step' = "connect"
    /\ port' = IF plugged THEN "open" ELSE "closed"
    /\ UNCHANGED <<world, receiver, kind, running, stopping, failure, monitors,
                   metrics, busy, seen, due, detector>>

(* The adapter rejects a command or does not answer it.                    *)
ConnectFails ==
    /\ step = "connect"
    /\ step' = "sample"
    /\ port' = "closed" /\ failure' = TRUE
    /\ UNCHANGED <<world, receiver, kind, running, stopping, retry, monitors,
                   metrics, busy, seen, due, detector>>

Free == {t \in 1..Monitors : monitors[t] = "none"}
Spawned == CHOOSE t \in 1..Monitors : t \in Free

(* The adapter is set up.  The profile's source leaves the bus to a new    *)
(* goroutine, the standard one asks for its values itself.                 *)
Connected ==
    /\ step = "connect" /\ port = "open"
    /\ running' = TRUE /\ failure' = FALSE
    /\ \/ /\ kind = "profile" /\ step' = "sample"
          /\ Free # {} /\ monitors' = [monitors EXCEPT ![Spawned] = "begin"]
       \/ /\ kind = "standard" /\ step' = "vehicle"
          /\ UNCHANGED monitors
    /\ UNCHANGED <<world, receiver, kind, port, stopping, retry, metrics, busy,
                   seen, due, detector>>

(* The standard source asks for each value in turn, and what it has when   *)
(* the adapter fails is still reported.  It fails at any time, also since  *)
(* a sleeping vehicle makes it report that it cannot connect.              *)
Asked == Signals \cap {"engine.rpm", "vehicle.speed"}
Answers(s) == IF s \in Asked /\ Awake THEN Says(s) ELSE {"absent"}

Query ==
    /\ step = "vehicle" /\ running /\ kind = "standard" /\ port = "open"
    /\ metrics' \in [Names -> {"absent", "yes", "no"}]
    /\ \A s \in Names : metrics'[s] \in Answers(s)
    /\ step' = "sample"
    /\ UNCHANGED <<world, receiver, source, port, monitors, busy, seen, due, detector>>

QueryFails ==
    /\ step = "vehicle" /\ running /\ kind = "standard"
    /\ port' = "closed" /\ running' = FALSE /\ failure' = TRUE
    /\ metrics' \in [Names -> {"absent", "yes", "no"}]
    /\ \A s \in Names : metrics'[s] \in Answers(s) \cup {"absent"}
    /\ step' = "sample"
    /\ UNCHANGED <<world, receiver, kind, stopping, retry, monitors, busy, seen,
                   due, detector>>

-----------------------------------------------------------------------------
(* Collect, last part: ActivityDetector.Observe, and the wait it decides.  *)
(* The first readiness signal that has a value decides alone, whichever    *)
(* value that is; the weaker sources are asked only when there is none.    *)
(* The standard source keeps no values from one sample to the next.        *)

Stated == {i \in 1..2 : metrics[readinessMetrics[i]] # "absent"}
Displaced == anchor # Nowhere /\ anchor # fix.place
Evidence ==
    IF Stated # {}
    THEN \E i \in Stated :
            /\ \A j \in Stated : i <= j
            /\ metrics[readinessMetrics[i]] = "yes"
    ELSE \/ "yes" \in {metrics["engine.rpm"], metrics["vehicle.speed"]}
         \/ seen /\ (fix.moving \/ Displaced)

Read ==
    \/ step = "sample"
    \/ step = "vehicle" /\ IF running THEN kind = "profile" ELSE retry > 0

Observe ==
    /\ Read
    /\ anchor' = IF seen /\ (Evidence \/ anchor = Nowhere) THEN fix.place ELSE anchor
    /\ since' = IF Evidence THEN 0 ELSE since
    /\ inUse' = (Evidence \/ since < Grace)
    /\ LET interval == IF inUse' THEN Driving ELSE Parked
       IN  due' = IF busy < interval THEN interval - busy ELSE 0
    /\ step' = "idle" /\ busy' = 0 /\ seen' = FALSE
    /\ metrics' = IF kind = "standard" THEN Unread ELSE metrics
    /\ UNCHANGED <<world, receiver, source, port, monitors>>

-----------------------------------------------------------------------------
(* The goroutine of the profile's source.  MonitorUntil fails only before  *)
(* its loop; in it, an error of a read is an empty read, and what ends it  *)
(* is the channel.  The goroutine gives up the source (stop = nil) before  *)
(* it closes the adapter.                                                  *)

Listening(t) == monitors[t] \in {"begin", "loop"}

Begin(t) ==
    /\ monitors[t] = "begin" /\ port = "open"
    /\ monitors' = [monitors EXCEPT ![t] = "loop"]
    /\ UNCHANGED <<world, receiver, source, port, metrics, loop, detector>>

(* MonitorUntil has returned: with an error before the loop, or because    *)
(* the channel was closed.                                                 *)
KeepsSource(t, failed) ==   \* mutant: stop is not reset
    /\ monitors' = [monitors EXCEPT ![t] = "ended"]
    /\ failure' = (failure \/ failed)
    /\ UNCHANGED <<world, receiver, kind, port, running, stopping, retry, metrics, loop, detector>>
Ends(t, failed) ==
    /\ monitors' = [monitors EXCEPT ![t] = "ended"]
    /\ running' = FALSE
    /\ failure' = (failure \/ failed)
    /\ UNCHANGED <<world, receiver, kind, port, stopping, retry, metrics, loop, detector>>

FailsSilently(t) == monitors[t] = "begin" /\ port # "open" /\ Ends(t, FALSE)   \* mutant
BeginFails(t) == monitors[t] = "begin" /\ port # "open" /\ Ends(t, TRUE)
StopsOpen(t) == monitors[t] = "loop" /\ stopping /\ port = "open" /\ Ends(t, FALSE)   \* mutant
Stopped(t) == monitors[t] = "loop" /\ stopping /\ port # "closed" /\ Ends(t, port = "dead")

(* record: the values of a frame replace the ones that were decoded before. *)
FirstValue(s) ==   \* mutant: a value is never replaced
    {[metrics EXCEPT ![s] = IF metrics[s] = "absent" THEN v ELSE metrics[s]] : v \in Says(s)}
Decoded(s) == {[metrics EXCEPT ![s] = v] : v \in Says(s)}

Frame(t, s) ==
    /\ monitors[t] = "loop" /\ port = "open" /\ Awake
    /\ metrics' \in Decoded(s)
    /\ UNCHANGED <<world, receiver, source, port, monitors, loop, detector>>

CloseAdapter(t) ==
    /\ monitors[t] = "ended"
    /\ monitors' = [monitors EXCEPT ![t] = "none"]
    /\ port' = "closed"
    /\ UNCHANGED <<world, receiver, source, metrics, loop, detector>>

-----------------------------------------------------------------------------
(* A configuration sync replaces the source: Close stops the goroutine and *)
(* waits for it, and the new source knows nothing of what the old one had. *)

NewSource(k) ==
    /\ kind' = k /\ port' = "closed" /\ running' = FALSE /\ stopping' = FALSE
    /\ retry' = 0 /\ failure' = FALSE /\ monitors' = Idle /\ metrics' = Unread

CloseSource ==
    /\ step = "idle" /\ kind = "profile" /\ running
    /\ step' = "closing" /\ running' = FALSE /\ stopping' = TRUE
    /\ UNCHANGED <<world, receiver, kind, port, retry, failure, monitors, metrics,
                   busy, seen, due, detector>>

Replace(k) ==
    /\ \/ step = "idle" /\ (kind = "standard" \/ ~running)
       \/ step = "closing" /\ monitors = Idle
    /\ NewSource(k)
    /\ step' = "idle"
    /\ UNCHANGED <<world, receiver, busy, seen, due, detector>>

(* The process starts again: by the operator, or because a goroutine reads *)
(* a port that is gone.                                                    *)
Restart(k) ==
    /\ NewSource(k)
    /\ fix' = NoFix /\ fixAge' = 0
    /\ step' = "idle" /\ busy' = 0 /\ seen' = FALSE /\ due' = 0
    /\ anchor' = Nowhere /\ since' = Grace /\ inUse' = FALSE
    /\ UNCHANGED world

Panicked == port = "closed" /\ \E t \in 1..Monitors : monitors[t] = "loop"

Interrupted == \E k \in Kinds : Replace(k) \/ Restart(k)

(* Time passes while the loop sleeps and while it connects.                *)
Older(age, limit) == IF age < limit THEN age + 1 ELSE limit
Less(n) == IF n > 0 THEN n - 1 ELSE 0

Tick ==
    /\ \/ step = "idle" /\ due > 0
       \/ step = "connect" /\ busy < ConnectTime
    /\ due' = Less(due) /\ retry' = Less(retry)
    /\ since' = Older(since, Grace)
    /\ fixAge' = IF fix = NoFix THEN 0 ELSE Older(fixAge, MaxAge + 1)
    /\ busy' = IF step = "connect" THEN busy + 1 ELSE busy
    /\ UNCHANGED <<world, fix, kind, running, stopping, failure, port, monitors,
                   metrics, step, seen, anchor, inUse>>

Collect ==
    \/ ReadPosition \/ Connect \/ ConnectFails \/ Connected \/ Query \/ QueryFails
    \/ Observe

Goroutine(t) == Begin(t) \/ BeginFails(t) \/ Stopped(t) \/ CloseAdapter(t)
Monitor(t) == Goroutine(t) \/ \E s \in Signals : Frame(t, s)

Next ==
    \/ World \/ Collect \/ Tick
    \/ \E t \in 1..Monitors : Monitor(t)
    \/ CloseSource \/ Interrupted

(* The loop runs and so do the goroutines.  What the vehicle broadcasts    *)
(* arrives, and an adapter that is there accepts a connection at last.     *)
Loop == Collect \/ Tick \/ (step = "closing" /\ \E k \in Kinds : Replace(k))

Fairness ==
    /\ WF_vars(Loop)
    /\ \A t \in 1..Monitors :
          /\ WF_vars(Goroutine(t))
          /\ \A s \in Signals : WF_vars(Frame(t, s))
    /\ WF_vars(Panicked /\ \E k \in Kinds : Restart(k))
    /\ SF_vars(Connected)

Spec == Init /\ [][Next]_vars /\ Fairness

-----------------------------------------------------------------------------
TypeOK ==
    /\ car \in Cars /\ place \in Places /\ plugged \in BOOLEAN
    /\ fix \in [place : Places \cup {Nowhere}, moving : BOOLEAN]
    /\ fixAge \in 0..(MaxAge + 1)
    /\ kind \in Kinds /\ port \in {"closed", "open", "dead"}
    /\ running \in BOOLEAN /\ stopping \in BOOLEAN
    /\ monitors \in [1..Monitors -> {"none", "begin", "loop", "ended"}]
    /\ retry \in 0..Retry /\ failure \in BOOLEAN
    /\ metrics \in [Names -> {"absent", "yes", "no"}]
    /\ step \in {"idle", "vehicle", "connect", "sample", "closing"}
    /\ busy \in 0..ConnectTime /\ seen \in BOOLEAN
    /\ anchor \in Places \cup {Nowhere} /\ since \in 0..Grace
    /\ inUse \in BOOLEAN /\ due \in 0..(Driving + Parked)

(* At most one goroutine listens on the adapter, none while the loop sets  *)
(* the adapter up or talks to it, and the source is given up exactly when  *)
(* it has gone (ProfileProvider.start, its goroutine and Close).           *)
OneListener ==
    \A t \in 1..Monitors : Listening(t) =>
        /\ \A u \in 1..Monitors : Listening(u) => u = t
        /\ step # "connect" /\ kind = "profile"
        /\ running /= stopping

ListenerRuns == kind = "profile" /\ running => \E t \in 1..Monitors : Listening(t)

ClosingWaits == stopping => step = "closing" /\ ~running

(* A sample without a source names the fault that cost the source (Status). *)
(* It says nothing of an adapter that died under a goroutine: the goroutine *)
(* stays, and with it the source (obd.go:275).                             *)
FaultIsNamed == Read => running \/ failure

SensingInv == OneListener /\ ListenerRuns /\ ClosingWaits /\ FaultIsNamed

(* Whatever the adapter does, the loop comes back to its sleep: neither a  *)
(* connection nor the wait for a goroutine keeps it from sampling.         *)
SamplingGoesOn == []<>(step = "idle")

(* Nobody interferes any more, and no goroutine is so slow that it closes  *)
(* the adapter after the loop has begun to connect again: the source is    *)
(* given up before the adapter is closed.                                  *)
Late == step = "connect" /\ \E t \in 1..Monitors : monitors[t] = "ended"
Undisturbed == <>[][~Interrupted]_vars /\ <>[]~Late

(* An adapter that stays plugged in, on a port that did not die under an   *)
(* open connection, is read again and again, whatever failed before.       *)
Reads == IF kind = "profile" THEN \E t \in 1..Monitors : monitors[t] = "loop" ELSE running
Reconnects ==
    Undisturbed /\ <>[](plugged /\ port # "dead") => []<>Reads

(* A vehicle that drives on under the sky is found in use for good, even   *)
(* when what its bus said last was that it is switched off.                *)
DrivingIsNoticed ==
    Undisturbed /\ <>[](step = "vehicle" => seen /\ fixAge = 0)
    /\ <>[](car = "driving" /\ plugged /\ port # "dead")
    => <>[]inUse

(* The parked cadence: a vehicle that sleeps where it is, and of which no  *)
(* decoded value still says otherwise, is found parked in the end.         *)
Claimed == \E s \in Names : metrics[s] = "yes"
ParkedInTheEnd ==
    (\E p \in Places : <>[](car = "asleep" /\ place = p /\ ~Claimed)) => <>[]~inUse
=============================================================================
