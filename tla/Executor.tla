------------------------------ MODULE Executor ------------------------------
(***************************************************************************)
(* RealExecutor (robot-service/dolly_gateway/executor.py): the mode it     *)
(* believes the robot is in, the mutual-exclusion check made against it,   *)
(* and the skill calls, each run in a thread of its own that the caller    *)
(* waits for at most command_timeout_s and then leaves running.            *)
(*                                                                         *)
(* The skills themselves are outside the repository. `active` is what they *)
(* make the robot do: the command that started each behaviour, or None.    *)
(***************************************************************************)

CONSTANTS
  Cmds,        \* the requests
  None,
  Registered   \* the skills wired to the executor: {"follow", "navigation", "explorer"}

ASSUME ExecutorAssumption ==
  /\ None \notin Cmds
  /\ Registered \subseteq {"follow", "navigation", "explorer"}

VARIABLES
  emode,    \* _current_mode
  calls,    \* the skill calls whose threads are alive, as <<command, operation>>
  active    \* external: which command started each behaviour of the robot

executorVars == <<emode, calls, active>>

Modes == {"IDLE", "FOLLOWING", "EXPLORING"}
Kinds == {"follow.start", "follow.hold", "scan.start", "mission.stop"}
Operations == {"follow_person", "stop_navigation", "start_exploration", "stop_all"}
Behaviours == {"follow", "scan"}

ExecutorTypeOK ==
  /\ emode \in Modes
  /\ calls \subseteq Cmds \X Operations
  /\ active \in [Behaviours -> Cmds \union {None}]

ExecutorInit ==
  /\ emode = "IDLE"
  /\ calls = {}
  /\ active = [b \in Behaviours |-> None]

(* _MODE_MAP                                                               *)
TargetMode(kind) ==
  CASE kind = "scan.start" -> "EXPLORING"
    [] kind = "follow.start" -> "FOLLOWING"
    [] OTHER -> "IDLE"

IsMutexViolation(kind) == {emode, TargetMode(kind)} = {"FOLLOWING", "EXPLORING"}

(* The one operation each queued kind is dispatched to.                    *)
OperationOf(kind) ==
  CASE kind = "follow.start" -> "follow_person"
    [] kind = "scan.start" -> "start_exploration"
    [] OTHER -> "stop_navigation"

SkillOf(op) ==
  CASE op = "follow_person" -> "follow"
    [] op = "stop_navigation" -> "navigation"
    [] OTHER -> "explorer"

IsRegistered(op) == SkillOf(op) \in Registered

(* External: what a successful skill call makes the robot do, as the       *)
(* docstrings of SkillContainer promise it.                                *)
Effect(c, op) ==
  CASE op = "follow_person" -> [active EXCEPT !["follow"] = c]
    [] op = "start_exploration" -> [active EXCEPT !["scan"] = c]
    [] op = "stop_navigation" -> [active EXCEPT !["follow"] = None]
    [] OTHER -> [b \in Behaviours |-> None]
=============================================================================
