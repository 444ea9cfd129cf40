------------------------------- MODULE Safety -------------------------------
(***************************************************************************)
(* SafetyController (robot-service/dolly_gateway/safety.py): the emergency *)
(* stop latch and the obstacle flag that every queued command is checked   *)
(* against, each method one critical section of the controller's lock.     *)
(***************************************************************************)

VARIABLES
  estop,     \* _estop: the emergency stop latch
  obstacle   \* _obstacle: a motion command would be blocked

safetyVars == <<estop, obstacle>>

SafetyTypeOK ==
  /\ estop \in BOOLEAN
  /\ obstacle \in BOOLEAN

SafetyInit ==
  /\ estop = FALSE
  /\ obstacle = FALSE

TriggerEstop ==
  /\ estop' = TRUE
  /\ UNCHANGED obstacle

ResetEstop ==
  /\ estop' = FALSE
  /\ UNCHANGED obstacle

(* update_obstacle: a distance under the hard-stop threshold overrides the *)
(* detector's own verdict.                                                 *)
SetObstacle(detected, near) ==
  /\ obstacle' = (detected \/ near)
  /\ UNCHANGED estop

(* can_accept_command(command_type=None). CommandRequest has no attribute  *)
(* "kind", so the queue always passes None and no command kind is exempt   *)
(* from the obstacle check.                                                *)
CanAcceptCommand == ~estop /\ ~obstacle
=============================================================================
