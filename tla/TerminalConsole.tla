---------------------------- MODULE TerminalConsole ----------------------------
(***************************************************************************)
(* The console's terminal (robot-console/.../terminal_console.py): one     *)
(* loop that reads keys, ticks the watchdogs and publishes the velocity of *)
(* the motion keys. Each of them runs to its end before the next; only the *)
(* follow threads and the robot's session run beside them.                 *)
(*                                                                         *)
(* With curses the loop waits 50 ms for a key. In line mode, for terminals *)
(* without key capture, it waits for a line for as long as the operator    *)
(* thinks, and a motion key has an inner loop that drives until its hold   *)
(* window is over.                                                         *)
(***************************************************************************)
EXTENDS Go2Controller

VARIABLES
  ui,        \* which of the two loops runs
  phase,     \* what the loop does next
  deadman,   \* _active_until: None, in the future, or past
  needZero   \* _need_zero

vars == <<controllerVars, ui, phase, deadman, needZero>>
consoleVars == <<ui, phase, deadman, needZero>>

Phases == {"keys", "starting", "tick", "teleop", "drive", "driveTick"}

TypeOK ==
  /\ ControllerTypeOK
  /\ ui \in {"curses", "line"}
  /\ phase \in Phases
  /\ deadman \in {"off", "held", "lapsed"}
  /\ needZero \in BOOLEAN

(* The terminal is opened only when connect() has succeeded.               *)
Init ==
  /\ ControllerInit
  /\ mode = "IDLE"
  /\ ui \in {"curses", "line"}
  /\ phase = "keys"
  /\ deadman = "off"
  /\ needZero = FALSE

ClearActiveVector == deadman' = "off" /\ needZero' = FALSE

-----------------------------------------------------------------------------
(* Keys                                                                    *)

Listens == phase = "keys" /\ task = "none" /\ mode # "DISCONNECTED"

(* After a command curses asks for the next key, line mode goes round.     *)
NextPhase == IF ui = "line" THEN "tick" ELSE "keys"

(* No key is waiting, or a line that asks for nothing.                     *)
NoKey ==
  /\ Listens
  /\ phase' = "tick"
  /\ UNCHANGED <<controllerVars, ui, deadman, needZero>>

KeyEstop ==
  /\ Listens
  /\ EmergencyStop
  /\ ClearActiveVector
  /\ phase' = NextPhase
  /\ UNCHANGED ui

(* m, f, r: the command runs to its end before the loop goes on.           *)
KeyCommand ==
  /\ Listens
  /\ StartManual \/ StartFollowFrontPerson(FALSE) \/ ReacquireFrontPerson
  /\ phase' = NextPhase
  /\ UNCHANGED <<ui, deadman, needZero>>

(* The zero with which handle_hold and handle_shutdown begin.              *)
ManualZero == {p.ad : p \in ManualVelocity(ad, mode, "zero")}

(* hold itself refuses under the emergency stop.                           *)
KeyHold ==
  /\ Listens
  /\ ClearActiveVector
  /\ IF estop
     THEN UNCHANGED controllerVars
     ELSE /\ \E a \in ManualZero : HoldFrom(a, mode)
          /\ UNCHANGED <<owner, mode, estop, lost, scanning>>
  /\ phase' = NextPhase
  /\ UNCHANGED ui

(* ESC, or the end of the input.                                           *)
KeyQuit ==
  /\ Listens
  /\ ClearActiveVector
  /\ \E a \in ManualZero : ShutdownFrom(a)
  /\ UNCHANGED <<ui, phase>>

(* note_motion_key: the hold window starts, or starts again.               *)
NoteMotionKey ==
  /\ deadman' = "held"
  /\ needZero' = FALSE
  /\ phase' = IF ui = "line" THEN "drive" ELSE "keys"

(* A motion key outside MANUAL starts it first.                            *)
KeyMotion ==
  /\ Listens
  /\ IF mode = "MANUAL"
     THEN NoteMotionKey /\ UNCHANGED controllerVars
     ELSE /\ IF estop THEN UNCHANGED controllerVars ELSE StartManual
          /\ phase' = "starting"
          /\ UNCHANGED <<deadman, needZero>>
  /\ UNCHANGED ui

(* start_manual has returned. Curses notes the key whatever it returned.   *)
MotionStarted ==
  /\ phase = "starting"
  /\ task = "none"
  /\ IF ui = "line" /\ mode # "MANUAL"
     THEN phase' = "tick" /\ UNCHANGED <<deadman, needZero>>
     ELSE NoteMotionKey
  /\ UNCHANGED <<controllerVars, ui>>

CommandWakes == Wake /\ UNCHANGED consoleVars

-----------------------------------------------------------------------------
(* The loop's other two thirds                                             *)

NothingToTick ==
  /\ ~LostConnection
  /\ mode # "FOLLOWING"
  /\ ~(mode = "MANUAL" /\ manual = "expired")
  /\ UNCHANGED controllerVars

WatchdogTick ==
  /\ task = "none"
  /\ \/ phase = "tick" /\ phase' = "teleop"
     \/ phase = "driveTick" /\ phase' = "drive"
  /\ Tick \/ NothingToTick
  /\ UNCHANGED <<ui, deadman, needZero>>

(* Mutant: a velocity that was published leaves the TTL as it was.         *)
PublishedUnmarked(p) ==
  /\ ad' = p.ad
  /\ UNCHANGED manual

(* set_manual_velocity: only what was published restarts the TTL.          *)
Published(p) ==
  /\ ad' = p.ad
  /\ manual' = IF p.ok THEN "running" ELSE manual

(* teleop_tick: while a motion key is held publish its velocity (or        *)
(* nothing, to keep to 20 Hz); after that one zero.                        *)
Teleop ==
  /\ phase \in {"teleop", "drive"}
  /\ \/ /\ mode # "MANUAL"
        /\ ClearActiveVector
        /\ UNCHANGED <<ad, manual>>
     \/ /\ mode = "MANUAL" /\ deadman = "held"
        /\ \/ UNCHANGED <<ad, manual, needZero>>
           \/ \E p \in ManualVelocity(ad, mode, "move") :
                Published(p) /\ needZero' = (p.ok \/ needZero)
        /\ UNCHANGED deadman
     \/ /\ mode = "MANUAL" /\ deadman # "held" /\ (needZero \/ deadman = "lapsed")
        /\ \E p \in ManualVelocity(ad, mode, "zero") : Published(p)
        /\ ClearActiveVector
     \/ /\ mode = "MANUAL" /\ deadman = "off" /\ ~needZero
        /\ UNCHANGED <<ad, manual, deadman, needZero>>
  /\ phase' = IF phase = "teleop" THEN "keys"
              ELSE IF deadman' = "held" THEN "driveTick" ELSE "tick"
  /\ UNCHANGED <<owner, mode, estop, lost, task, scanning, ui>>

-----------------------------------------------------------------------------
(* Time, and what runs beside the loop                                     *)

HoldWindowEnds ==
  /\ deadman = "held"
  /\ deadman' = "lapsed"
  /\ UNCHANGED <<controllerVars, ui, phase, needZero>>

ManualTtlPasses == ManualTtlExpires /\ UNCHANGED consoleVars

Surroundings ==
  /\ \/ \E t \in Threads : FollowThread(t)
     \/ LateMoveArrives
     \/ ConnectionDrops
  /\ UNCHANGED consoleVars

Next ==
  \/ NoKey
  \/ KeyEstop
  \/ KeyCommand
  \/ KeyHold
  \/ KeyQuit
  \/ KeyMotion
  \/ MotionStarted
  \/ CommandWakes
  \/ WatchdogTick
  \/ Teleop
  \/ HoldWindowEnds
  \/ ManualTtlPasses
  \/ Surroundings

(* Time passes, what has begun goes on, and with curses the operator leaves *)
(* 50 ms without a key again and again. Nobody has to type a line.         *)
Fairness ==
  /\ SF_vars(NoKey /\ ui = "curses")
  /\ WF_vars(MotionStarted)
  /\ WF_vars(AcquireSettled /\ UNCHANGED consoleVars)
  /\ WF_vars(GiveUp /\ UNCHANGED consoleVars)
  /\ WF_vars((FollowSettled \/ IdleSettled \/ ManualSettled) /\ UNCHANGED consoleVars)
  /\ WF_vars(WatchdogTick)
  /\ WF_vars(Teleop)
  /\ WF_vars(HoldWindowEnds)
  /\ WF_vars(ManualTtlPasses)

Spec == Init /\ [][Next]_vars /\ Fairness

-----------------------------------------------------------------------------
(* The robot moves only for the one who owns the velocity in the mode that *)
(* is on, and never while a command settles: start_manual, follow, hold    *)
(* and the tick hand it over at rest.                                      *)
CleanHandover ==
  ad.clean /\ ad.moving =>
    /\ task = "none"
    /\ \/ mode = "FOLLOWING" /\ owner = "FOLLOW"
       \/ mode = "MANUAL" /\ owner = "MANUAL"

(* With curses the robot comes to rest when the hold window is over: by    *)
(* the one zero of teleop_tick or, when the robot does not take that one,  *)
(* by the manual TTL. In line mode the TTL is looked at after the next     *)
(* line only.                                                              *)
ReleasedKeysStop ==
  (ui = "curses" /\ mode = "MANUAL" /\ deadman # "held" /\ ad.moving)
    ~> (~ad.moving \/ deadman = "held" \/ ~ad.clean)

(* With curses a follow that has lost its target ends.                     *)
LostTargetEndsFollow == ui = "curses" => []<>(ad.visible \/ mode # "FOLLOWING")

=============================================================================
