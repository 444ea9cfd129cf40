------------------------- MODULE SafetyMonitorProofs -------------------------
(***************************************************************************)
(* Theorems about SafetyMonitor, for any number of watchdog threads.       *)
(***************************************************************************)
EXTENDS SafetyMonitor, TLAPS

USE MonitorAssumption DEF MonitorAssumption
USE DEF safetyVars

(* A callback past trigger_estop has latched the stop. With LatchMeansEstop*)
(* and LossReportedAfterEstop themselves this is inductive.                *)
CallbackMeansEstop ==
  \A w \in Watchers : watcher[w] \in {"stopped", "reported"} /\ resets = 0 => estop

MonitorInv ==
  /\ TypeOK
  /\ HardStopHolds
  /\ CallbackMeansEstop
  /\ LossReportedAfterEstop
  /\ LatchMeansEstop

LEMMA MonitorInit == Init => MonitorInv
<1> SUFFICES ASSUME Init
             PROVE  MonitorInv
  OBVIOUS
<1>1. age \in 0..MaxAge /\ resets \in 0..MaxResets
  BY DEF Init
<1>2. TypeOK
  BY <1>1 DEF Init, SafetyInit, TypeOK, SafetyTypeOK, Distances, WatcherSteps
<1>3. HardStopHolds /\ CallbackMeansEstop /\ LossReportedAfterEstop /\ LatchMeansEstop
  BY DEF Init, HardStopHolds, CallbackMeansEstop, LossReportedAfterEstop, LatchMeansEstop
<1>4. QED
  BY <1>2, <1>3 DEF MonitorInv

LEMMA MonitorStep == MonitorInv /\ [Next]_vars => MonitorInv'
<1> SUFFICES ASSUME MonitorInv, [Next]_vars
             PROVE  MonitorInv'
  OBVIOUS
<1> USE DEF MonitorInv, TypeOK, SafetyTypeOK, HardStopHolds, CallbackMeansEstop,
            LossReportedAfterEstop, LatchMeansEstop
<1>1. ASSUME NEW detected \in BOOLEAN, NEW d \in Distances, UpdateObstacle(detected, d)
      PROVE  MonitorInv'
  BY <1>1 DEF UpdateObstacle, SetObstacle, Distances
<1>2. ASSUME OperatorReset
      PROVE  MonitorInv'
  <2>1. resets' \in 0..MaxResets /\ resets' # 0
    BY <1>2 DEF OperatorReset
  <2>2. estop' = FALSE
        /\ UNCHANGED <<obstacle, distance, heartbeatOk, age, triggered, running, watcher, beat>>
    BY <1>2 DEF OperatorReset, ResetEstop
  <2>3. QED
    BY <2>1, <2>2
<1>3. ASSUME Tick
      PROVE  MonitorInv'
  <2>1. age' \in 0..MaxAge
    BY <1>3 DEF Tick
  <2>2. UNCHANGED <<safetyVars, distance, heartbeatOk, triggered, running, watcher, beat, resets>>
    BY <1>3 DEF Tick
  <2>3. QED
    BY <2>1, <2>2
<1>4. ASSUME HeartbeatRecord
      PROVE  MonitorInv'
  <2>1. age' \in 0..MaxAge
    BY <1>4 DEF HeartbeatRecord
  <2>2. beat' = "recorded"
        /\ UNCHANGED <<safetyVars, distance, heartbeatOk, triggered, running, watcher, resets>>
    BY <1>4 DEF HeartbeatRecord
  <2>3. QED
    BY <2>1, <2>2
<1>5. ASSUME HeartbeatReport
      PROVE  MonitorInv'
  BY <1>5 DEF HeartbeatReport
<1>6. ASSUME NEW w \in Watchers, WatchCheck(w)
      PROVE  MonitorInv'
  BY <1>6 DEF WatchCheck, Move, WatcherSteps
<1>7. ASSUME NEW w \in Watchers, WatchLatch(w)
      PROVE  MonitorInv'
  BY <1>7 DEF WatchLatch, Move, WatcherSteps
<1>8. ASSUME NEW w \in Watchers, CallbackEstop(w)
      PROVE  MonitorInv'
  BY <1>8 DEF CallbackEstop, TriggerEstop, Move, WatcherSteps
<1>9. ASSUME NEW w \in Watchers, CallbackReport(w)
      PROVE  MonitorInv'
  BY <1>9 DEF CallbackReport, Move, WatcherSteps
<1>10. ASSUME NEW w \in Watchers, CallbackDrain(w)
       PROVE  MonitorInv'
  BY <1>10 DEF CallbackDrain, Move, WatcherSteps
<1>11. ASSUME NEW w \in Watchers, WatchExit(w)
       PROVE  MonitorInv'
  BY <1>11 DEF WatchExit, Move, WatcherSteps
<1>12. ASSUME NEW w \in Watchers, Start(w)
       PROVE  MonitorInv'
  BY <1>12 DEF Start, Move, WatcherSteps
<1>13. ASSUME Stop
       PROVE  MonitorInv'
  BY <1>13 DEF Stop
<1>14. CASE UNCHANGED vars
  BY <1>14 DEF vars, monitorVars
<1>15. QED
  BY <1>1, <1>2, <1>3, <1>4, <1>5, <1>6, <1>7, <1>8, <1>9, <1>10, <1>11, <1>12, <1>13, <1>14
     DEF Next, Watch

LEMMA MonitorCorrect == Spec => []MonitorInv
BY MonitorInit, MonitorStep, PTL DEF Spec

(* Every field of the safety controller and of the watchdog stays in its   *)
(* range, whatever the sensors, the operator and the threads do.           *)
THEOREM TypeCorrect == Spec => []TypeOK
<1>1. MonitorInv => TypeOK
  BY DEF MonitorInv
<1>2. QED
  BY <1>1, MonitorCorrect, PTL

(* No sequence of detections and distances leaves a near obstacle on       *)
(* record that does not block motion.                                      *)
THEOREM HardStop == Spec => []HardStopHolds
<1>1. MonitorInv => HardStopHolds
  BY DEF MonitorInv
<1>2. QED
  BY <1>1, MonitorCorrect, PTL

(* With any number of watchdog threads, a lost connection is reported only *)
(* after the emergency stop is on.                                         *)
THEOREM LossAfterEstop == Spec => []LossReportedAfterEstop
<1>1. MonitorInv => LossReportedAfterEstop
  BY DEF MonitorInv
<1>2. QED
  BY <1>1, MonitorCorrect, PTL

(* The one-shot latch is set only by a thread that goes on to latch the    *)
(* emergency stop, even if the module is stopped in between.               *)
THEOREM LatchIsEstop == Spec => []LatchMeansEstop
<1>1. MonitorInv => LatchMeansEstop
  BY DEF MonitorInv
<1>2. QED
  BY <1>1, MonitorCorrect, PTL
=============================================================================
