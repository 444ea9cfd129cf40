---------------------------- MODULE SafetyMonitor ----------------------------
(***************************************************************************)
(* What keeps the safety state current in the robot service: the obstacle  *)
(* feed, the heartbeat of the robot connection, the HeartbeatWatchdog      *)
(* threads and their callback DollyGatewayModule._on_heartbeat_timeout,    *)
(* and the module's start and stop.                                        *)
(*                                                                         *)
(* The connection's thread calls DollyGatewayModule.heartbeat, which is    *)
(* two calls on two locks; a watchdog thread checks the age, latches       *)
(* itself and then runs the callback call by call. Time is the age of the  *)
(* last heartbeat in watchdog periods, cut off at MaxAge.                  *)
(***************************************************************************)
EXTENDS Safety, Naturals

CONSTANTS
  Watchers,   \* the watchdog threads start() may create, one per start
  Timeout,    \* HEARTBEAT_TIMEOUT_MS in watchdog periods
  MaxAge,     \* bound on the age of the last heartbeat
  MaxResets   \* bound on the operator's reset_estop calls

ASSUME MonitorAssumption ==
  /\ Timeout \in Nat
  /\ MaxAge \in Nat
  /\ MaxAge > Timeout
  /\ MaxResets \in Nat

VARIABLES
  distance,     \* _obstacle_distance_m: unknown, under the threshold, over it
  heartbeatOk,  \* _heartbeat_ok: what /v1/health reports as robot_connected
  age,          \* time since _last_heartbeat
  triggered,    \* HeartbeatWatchdog._estop_triggered
  running,      \* HeartbeatWatchdog._running (and the module's own flag)
  watcher,      \* where each watchdog thread is
  beat,         \* where the connection's heartbeat call is
  resets        \* reset_estop calls so far

monitorVars == <<distance, heartbeatOk, age, triggered, running, watcher, beat, resets>>
vars == <<safetyVars, monitorVars>>

Distances == {"unknown", "near", "far"}
WatcherSteps == {"unborn", "asleep", "overdue", "tripped", "stopped", "reported", "dead"}

TypeOK ==
  /\ SafetyTypeOK
  /\ distance \in Distances
  /\ heartbeatOk \in BOOLEAN
  /\ age \in 0..MaxAge
  /\ triggered \in BOOLEAN
  /\ running \in BOOLEAN
  /\ watcher \in [Watchers -> WatcherSteps]
  /\ beat \in {"idle", "recorded"}
  /\ resets \in 0..MaxResets

Init ==
  /\ SafetyInit
  /\ distance = "unknown"
  /\ heartbeatOk = TRUE
  /\ age = 0
  /\ triggered = FALSE
  /\ running = FALSE
  /\ watcher = [w \in Watchers |-> "unborn"]
  /\ beat = "idle"
  /\ resets = 0

Move(w, from, to) ==
  /\ watcher[w] = from
  /\ watcher' = [watcher EXCEPT ![w] = to]

-----------------------------------------------------------------------------
(* The sensors and the operator.                                           *)

(* Mutant: clearing the flag does not clear the distance.                  *)
UpdateObstacleKeepsDistance(detected, d) ==
  /\ SetObstacle(detected, d = "near")
  /\ distance' = IF d = "unknown" THEN distance ELSE d
  /\ UNCHANGED <<heartbeatOk, age, triggered, running, watcher, beat, resets>>

(* update_obstacle(detected, distance_m); d = "unknown" is distance_m=None *)
UpdateObstacle(detected, d) ==
  /\ SetObstacle(detected, d = "near")
  /\ distance' = IF d = "unknown" /\ detected THEN distance ELSE d
  /\ UNCHANGED <<heartbeatOk, age, triggered, running, watcher, beat, resets>>

(* reset_estop, "only call after operator confirms safety".                *)
OperatorReset ==
  /\ resets < MaxResets
  /\ ResetEstop
  /\ resets' = resets + 1
  /\ UNCHANGED <<distance, heartbeatOk, age, triggered, running, watcher, beat>>

(* Mutant: the age is not cut off.                                         *)
TickUnbounded ==
  /\ age <= MaxAge
  /\ beat = "idle"
  /\ age' = age + 1
  /\ UNCHANGED <<safetyVars, distance, heartbeatOk, triggered, running, watcher, beat, resets>>

(* The two calls of one heartbeat take less than a watchdog period.        *)
Tick ==
  /\ age < MaxAge
  /\ beat = "idle"
  /\ age' = age + 1
  /\ UNCHANGED <<safetyVars, distance, heartbeatOk, triggered, running, watcher, beat, resets>>

-----------------------------------------------------------------------------
(* DollyGatewayModule.heartbeat: watchdog.heartbeat(), then                *)
(* safety.update_heartbeat(True).                                          *)

HeartbeatRecord ==
  /\ beat = "idle"
  /\ beat' = "recorded"
  /\ age' = 0
  /\ UNCHANGED <<safetyVars, distance, heartbeatOk, triggered, running, watcher, resets>>

HeartbeatReport ==
  /\ beat = "recorded"
  /\ beat' = "idle"
  /\ heartbeatOk' = TRUE
  /\ UNCHANGED <<safetyVars, distance, age, triggered, running, watcher, resets>>

-----------------------------------------------------------------------------
(* HeartbeatWatchdog._watch and its callback.                              *)

(* The check and the assignment of the latch hold no lock: two watchdog    *)
(* threads may both find it clear.                                         *)
WatchCheck(w) ==
  /\ running
  /\ age > Timeout
  /\ ~triggered
  /\ Move(w, "asleep", "overdue")
  /\ UNCHANGED <<safetyVars, distance, heartbeatOk, age, triggered, running, beat, resets>>

(* Mutant: the latch is set and the callback is not called.                *)
WatchLatchNoCallback(w) ==
  /\ Move(w, "overdue", "asleep")
  /\ triggered' = TRUE
  /\ UNCHANGED <<safetyVars, distance, heartbeatOk, age, running, beat, resets>>

WatchLatch(w) ==
  /\ Move(w, "overdue", "tripped")
  /\ triggered' = TRUE
  /\ UNCHANGED <<safetyVars, distance, heartbeatOk, age, running, beat, resets>>

(* Mutant: no emergency stop once the watchdog has been stopped.           *)
CallbackEstopIfRunning(w) ==
  /\ Move(w, "tripped", "stopped")
  /\ estop' = (estop \/ running)
  /\ UNCHANGED <<obstacle, distance, heartbeatOk, age, triggered, running, beat, resets>>

CallbackEstop(w) ==
  /\ Move(w, "tripped", "stopped")
  /\ TriggerEstop
  /\ UNCHANGED <<distance, heartbeatOk, age, triggered, running, beat, resets>>

(* Mutant: the loss is reported before the stop is latched.                *)
CallbackReportFirst(w) ==
  /\ Move(w, "tripped", "reported")
  /\ heartbeatOk' = FALSE
  /\ UNCHANGED <<safetyVars, distance, age, triggered, running, beat, resets>>

CallbackReport(w) ==
  /\ Move(w, "stopped", "reported")
  /\ heartbeatOk' = FALSE
  /\ UNCHANGED <<safetyVars, distance, age, triggered, running, beat, resets>>

(* queue.drain() (see Gateway), then back to the loop's sleep.             *)
CallbackDrain(w) ==
  /\ Move(w, "reported", "asleep")
  /\ UNCHANGED <<safetyVars, distance, heartbeatOk, age, triggered, running, beat, resets>>

WatchExit(w) ==
  /\ ~running
  /\ Move(w, "asleep", "dead")
  /\ UNCHANGED <<safetyVars, distance, heartbeatOk, age, triggered, running, beat, resets>>

Watch(w) ==
  \/ WatchCheck(w)
  \/ WatchLatch(w)
  \/ CallbackEstop(w)
  \/ CallbackReport(w)
  \/ CallbackDrain(w)
  \/ WatchExit(w)

-----------------------------------------------------------------------------
(* start() creates a thread even while the one of an earlier start has not *)
(* yet seen _running go FALSE; that one then lives on.                     *)

Start(w) ==
  /\ ~running
  /\ running' = TRUE
  /\ Move(w, "unborn", "asleep")
  /\ UNCHANGED <<safetyVars, distance, heartbeatOk, age, triggered, beat, resets>>

Stop ==
  /\ running
  /\ running' = FALSE
  /\ UNCHANGED <<safetyVars, distance, heartbeatOk, age, triggered, watcher, beat, resets>>

Next ==
  \/ \E detected \in BOOLEAN, d \in Distances : UpdateObstacle(detected, d)
  \/ OperatorReset
  \/ Tick
  \/ HeartbeatRecord
  \/ HeartbeatReport
  \/ \E w \in Watchers : Watch(w)
  \/ \E w \in Watchers : Start(w)
  \/ Stop

(* The operating system runs every thread, so a watchdog thread that can   *)
(* step does; time passes. Heartbeats, sensors, the operator and the       *)
(* module's owner promise nothing.                                         *)
Fairness ==
  /\ \A w \in Watchers : WF_vars(Watch(w))
  /\ WF_vars(HeartbeatReport)
  /\ WF_vars(Tick)

Spec == Init /\ [][Next]_vars /\ Fairness

-----------------------------------------------------------------------------
(* Whatever sequence of detections and distances the sensors send, a       *)
(* distance on record under the hard-stop threshold blocks motion: it is   *)
(* never left behind by an update that cleared the flag.                   *)
HardStopHolds == distance = "near" => obstacle

(* A client that reads robot_connected = FALSE may rely on the emergency   *)
(* stop having been latched first, as long as no operator has reset it.    *)
LossReportedAfterEstop == ~heartbeatOk /\ resets = 0 => estop

(* The watchdog's latch is never set for nothing: once the callback of     *)
(* whichever thread set it is past trigger_estop, the emergency stop is on *)
(* until an operator resets it. Stopping the module in between does not    *)
(* cut the callback short.                                                 *)
LatchMeansEstop ==
  triggered /\ resets = 0 => estop \/ \E w \in Watchers : watcher[w] = "tripped"

(* The first outage while the watchdog runs stops the robot: the thread    *)
(* that notices it latches the emergency stop, whatever else happens.      *)
FirstOutageStops ==
  (running /\ age > Timeout /\ ~triggered) ~> (estop \/ age <= Timeout \/ ~running)

(* Violated: the latch is never cleared, so the second outage goes         *)
(* unreported. safety.py says of HeartbeatWatchdog: "If no heartbeat is received       *)
(* within HEARTBEAT_TIMEOUT_MS, triggers the emergency stop callback". So  *)
(* every outage that lasts is reported, not only the first.                *)
OutageReported ==
  (running /\ age > Timeout) ~> (~heartbeatOk \/ age <= Timeout \/ ~running)
=============================================================================
