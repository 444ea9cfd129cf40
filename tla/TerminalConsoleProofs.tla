------------------------- MODULE TerminalConsoleProofs -------------------------
(***************************************************************************)
(* Theorems about TerminalConsole, for either loop, any number of follow   *)
(* threads, any faults and any number of lost frames. They rest on the     *)
(* controller's invariant: the terminal is a program that drives it one    *)
(* command at a time.                                                      *)
(***************************************************************************)
EXTENDS TerminalConsole, Go2ControllerProofs

USE AdapterAssumption, ControllerAssumption DEF AdapterAssumption, ControllerAssumption
USE DEF controllerVars, consoleVars

-----------------------------------------------------------------------------
(* The invariant. The loop is typed; while a command sleeps the loop is    *)
(* where it has begun it, so neither a tick nor a velocity of the motion   *)
(* keys meets a command under way; and an emergency stop is final.         *)

LoopTyped ==
  /\ ui \in {"curses", "line"}
  /\ phase \in Phases
  /\ deadman \in {"off", "held", "lapsed"}
  /\ needZero \in BOOLEAN

LoopWaits == task # "none" => phase \in {"keys", "tick", "starting"}

StopStays == estop /\ mode # "DISCONNECTED" => mode = "ESTOP" /\ owner = "ESTOP"
StopRests == estop => task = "none"

TerminalInv ==
  /\ ControllerInv
  /\ LoopTyped
  /\ LoopWaits
  /\ StopStays
  /\ StopRests

LEMMA TerminalInit == Init => TerminalInv
BY ControllerStarts DEF Init, ControllerInit, TerminalInv, LoopTyped, LoopWaits, StopStays,
                        StopRests, Phases

-----------------------------------------------------------------------------
(* What each step of the loop does to the controller.                      *)

LEMMA ManualZeroFacts ==
  ASSUME ControllerInv, NEW a \in ManualZero
  PROVE  Calmed(ad, a)
<1>1. PICK p \in ManualVelocity(ad, mode, "zero") : a = p.ad
  BY DEF ManualZero
<1>2. QED
  BY <1>1, InvFacts, ManualZeroCalms

LEMMA KeyEstopInv ==
  ASSUME ControllerInv, KeyEstop
  PROVE  /\ ControllerInv'
         /\ mode' = "ESTOP" /\ owner' = "ESTOP" /\ task' = "none"
         /\ ad'.moving => ad.moving
BY EmergencyStopInv DEF KeyEstop, Listens, EmergencyStop

(* Every command but the emergency stop is refused under it, or leaves the *)
(* mode to its settle.                                                     *)
LEMMA KeyCommandInv ==
  ASSUME ControllerInv, KeyCommand
  PROVE  ControllerInv' /\ ~estop /\ UNCHANGED <<estop, mode>>
<1>1. CASE StartManual
  BY <1>1, StartManualInv DEF StartManual
<1>2. CASE StartFollowFrontPerson(FALSE)
  <2>1. Calmed(ad, ad) /\ StartFollowFrom(ad, FALSE)
    BY <1>2, InvFacts, CalmReflexive DEF StartFollowFrontPerson
  <2>2. QED
    BY <2>1, StartFollowFromInv DEF StartFollowFrom
<1>3. CASE ReacquireFrontPerson
  <2>1. PICK a \in Quieten(ad) : StartFollowFrom(a, FALSE)
    BY <1>3 DEF ReacquireFrontPerson
  <2>2. Calmed(ad, a)
    BY InvFacts, QuietenCalms
  <2>3. QED
    BY <2>1, <2>2, StartFollowFromInv DEF StartFollowFrom
<1>4. QED
  BY <1>1, <1>2, <1>3 DEF KeyCommand

LEMMA KeyHoldInv ==
  ASSUME ControllerInv, KeyHold
  PROVE  ControllerInv' /\ UNCHANGED <<estop, mode, owner>> /\ (estop => UNCHANGED <<ad, task>>)
<1>1. CASE estop
  BY <1>1, ControllerStutters DEF KeyHold
<1>2. CASE ~estop
  <2>1. PICK a \in ManualZero : HoldFrom(a, mode)
    BY <1>2 DEF KeyHold
  <2>2. task = "none" /\ UNCHANGED <<owner, mode, estop, lost, scanning>> /\ Calmed(ad, a)
    BY <1>2, ManualZeroFacts DEF KeyHold, Listens
  <2>3. QED
    BY <1>2, <2>1, <2>2, HoldInv
<1>3. QED
  BY <1>1, <1>2

LEMMA KeyQuitInv ==
  ASSUME ControllerInv, KeyQuit
  PROVE  /\ ControllerInv' /\ mode' = "DISCONNECTED" /\ task' = "none"
         /\ ad'.moving => ad.moving \/ ad.late
<1>1. PICK a \in ManualZero : ShutdownFrom(a)
  BY DEF KeyQuit
<1>2. Calmed(ad, a)
  BY ManualZeroFacts
<1>3. QED
  BY <1>1, <1>2, ShutdownInv DEF ShutdownFrom, EndTransition

LEMMA KeyMotionInv ==
  ASSUME ControllerInv, KeyMotion
  PROVE  ControllerInv' /\ UNCHANGED <<estop, mode, owner>> /\ (estop => UNCHANGED <<ad, task>>)
<1>1. CASE UNCHANGED controllerVars
  BY <1>1, ControllerStutters
<1>2. CASE StartManual
  BY <1>2, StartManualInv DEF StartManual
<1>3. QED
  BY <1>1, <1>2 DEF KeyMotion

(* The velocity of a motion key goes out in MANUAL only, by whom owns it   *)
(* there, and no command sleeps then.                                      *)
LEMMA TeleopInv ==
  ASSUME ControllerInv, LoopWaits, Teleop
  PROVE  ControllerInv' /\ UNCHANGED <<estop, mode, owner, task>> /\ (mode # "MANUAL" => ad' = ad)
<1> USE DEF ControllerInv, ControllerTypeOK, MuxTypeOK
<1>1. task = "none" /\ UNCHANGED <<owner, mode, estop, lost, task, scanning>>
  BY DEF Teleop, LoopWaits
<1>2. CASE UNCHANGED <<ad, manual>>
  BY <1>1, <1>2, ControllerStutters
<1>3. ASSUME NEW cmd \in Commands, NEW p \in ManualVelocity(ad, mode, cmd), Published(p), mode = "MANUAL"
      PROVE  ControllerInv'
  <2>1. Kept(ad, p.ad) /\ p.ad.following = ad.following /\ (p.ad.moving => ad.moving \/ owner = "MANUAL")
    <3>1. CASE p = Outcome(FALSE, ad)
      BY <3>1, InvFacts, CalmReflexive DEF Outcome, Calmed
    <3>2. CASE owner = "MANUAL" /\ p \in PublishVelocity(ad, cmd)
      BY <3>2, InvFacts, VelocityKeeps
    <3>3. QED
      BY <3>1, <3>2 DEF ManualVelocity, Publish
  <2>2. /\ ad' \in Adapter /\ Sound(ad') /\ (ad'.clean => ad.clean)
        /\ ad'.session = ad.session /\ ad'.dropped = ad.dropped /\ ad'.following = ad.following
        /\ ad'.moving => ad.moving \/ owner = "MANUAL"
    BY <1>3, <2>1, InvFacts DEF Published, Kept
  <2>3. manual' \in {"off", "running", "expired"}
    BY <1>3 DEF Published
  <2>4. QED
    BY <1>1, <1>3, <2>2, <2>3 DEF FollowCounts, SettlesLegally, SessionInv, ErrorMeansLost,
       AcquiringSleeps, HandoverInv, OwnerMoves, NoFollowBeside
<1>4. QED
  BY <1>1, <1>2, <1>3 DEF Teleop, Commands

LEMMA WatchdogTickInv ==
  ASSUME ControllerInv, WatchdogTick
  PROVE  /\ ControllerInv' /\ UNCHANGED <<estop, task>> /\ task = "none"
         /\ mode \in {"ESTOP", "DISCONNECTED"} => UNCHANGED <<ad, mode, owner>>
<1>1. CASE Tick
  BY <1>1, TickInv, TickMoves DEF WatchdogTick
<1>2. CASE NothingToTick
  BY <1>2, ControllerStutters DEF WatchdogTick, NothingToTick
<1>3. QED
  BY <1>1, <1>2 DEF WatchdogTick

LEMMA ManualTtlPassesInv ==
  ASSUME ControllerInv, ManualTtlPasses
  PROVE  ControllerInv' /\ UNCHANGED <<owner, ad, mode, estop, lost, task, scanning>>
BY DEF ManualTtlPasses, ManualTtlExpires, ControllerInv, ControllerTypeOK, MuxTypeOK, FollowCounts,
       SettlesLegally, SessionInv, ErrorMeansLost, AcquiringSleeps, HandoverInv, OwnerMoves,
       NoFollowBeside

(* Only a command that sleeps wakes.                                       *)
LEMMA WakeSleeps == Wake => task # "none" /\ estop' = estop
BY DEF Wake, AcquireSettled, LookAgain, GiveUp, FollowFails, FollowStarts, FollowSettled,
       IdleSettled, ManualSettled

LEMMA SurroundingsInv ==
  ASSUME ControllerInv, Surroundings
  PROVE  /\ ControllerInv' /\ UNCHANGED <<owner, mode, estop, task>>
         /\ ad'.moving => ad.moving \/ ad.late
<1>1. Outside
  BY DEF Surroundings, Outside
<1>2. UNCHANGED <<owner, mode, estop, task>>
  BY DEF Surroundings, FollowThread, LateMoveArrives, ConnectionDrops
<1>3. QED
  BY <1>1, <1>2, OutsideInv

-----------------------------------------------------------------------------
(* The induction.                                                          *)

LEMMA LoopTypedStep == LoopTyped /\ [Next]_vars => LoopTyped'
<1> SUFFICES ASSUME LoopTyped, [Next]_vars
             PROVE  LoopTyped'
  OBVIOUS
<1> USE DEF LoopTyped, Phases, NextPhase, ClearActiveVector, NoteMotionKey
<1>1. CASE NoKey
  BY <1>1 DEF NoKey
<1>2. CASE KeyEstop \/ KeyCommand \/ KeyHold \/ KeyQuit
  BY <1>2 DEF KeyEstop, KeyCommand, KeyHold, KeyQuit
<1>3. CASE KeyMotion \/ MotionStarted
  BY <1>3 DEF KeyMotion, MotionStarted
<1>4. CASE WatchdogTick
  BY <1>4 DEF WatchdogTick
<1>5. CASE Teleop
  <2>1. ui' = ui /\ phase' \in {"keys", "driveTick", "tick"}
    BY <1>5 DEF Teleop
  <2>2. deadman' \in {"off", deadman}
    BY <1>5 DEF Teleop
  <2>3. needZero' \in BOOLEAN
    <3>1. ASSUME NEW p \in ManualVelocity(ad, mode, "move"), needZero' = (p.ok \/ needZero)
          PROVE  needZero' \in BOOLEAN
      BY <3>1, Zenon
    <3>2. QED
      BY <1>5, <3>1 DEF Teleop
  <2>4. QED
    BY <2>1, <2>2, <2>3
<1>6. CASE HoldWindowEnds
  BY <1>6 DEF HoldWindowEnds
<1>7. CASE CommandWakes \/ ManualTtlPasses \/ Surroundings \/ UNCHANGED vars
  BY <1>7 DEF CommandWakes, ManualTtlPasses, Surroundings, vars
<1>8. QED
  BY <1>1, <1>2, <1>3, <1>4, <1>5, <1>6, <1>7 DEF Next

LEMMA TerminalStep == TerminalInv /\ [Next]_vars => TerminalInv'
<1> SUFFICES ASSUME TerminalInv, [Next]_vars
             PROVE  TerminalInv'
  OBVIOUS
<1> USE DEF TerminalInv
<1>1. LoopTyped'
  BY LoopTypedStep
<1>2. CASE NoKey \/ MotionStarted \/ HoldWindowEnds \/ UNCHANGED vars
  <2>1. UNCHANGED controllerVars
    BY <1>2 DEF NoKey, MotionStarted, HoldWindowEnds, vars
  <2>2. LoopWaits'
    BY <1>2 DEF NoKey, MotionStarted, HoldWindowEnds, vars, Listens, LoopWaits
  <2>3. QED
    BY <1>1, <2>1, <2>2, ControllerStutters DEF StopStays, StopRests
<1>3. CASE KeyEstop
  BY <1>1, <1>3, KeyEstopInv DEF LoopWaits, StopStays, StopRests
<1>4. CASE KeyCommand
  <2>1. phase' \in {"tick", "keys"}
    BY <1>4 DEF KeyCommand, NextPhase
  <2>2. QED
    BY <1>1, <1>4, <2>1, KeyCommandInv DEF LoopWaits, StopStays, StopRests
<1>5. CASE KeyHold
  <2>1. phase' \in {"tick", "keys"}
    BY <1>5 DEF KeyHold, NextPhase
  <2>2. QED
    BY <1>1, <1>5, <2>1, KeyHoldInv DEF LoopWaits, StopStays, StopRests
<1>6. CASE KeyQuit
  BY <1>1, <1>6, KeyQuitInv DEF LoopWaits, StopStays, StopRests
<1>7. CASE KeyMotion
  <2>1. phase' = "starting" \/ (UNCHANGED controllerVars /\ task = "none")
    BY <1>7 DEF KeyMotion, Listens
  <2>2. QED
    BY <1>1, <1>7, <2>1, KeyMotionInv DEF LoopWaits, StopStays, StopRests
<1>8. CASE CommandWakes
  <2>1. task # "none" /\ estop' = estop /\ phase' = phase
    BY <1>8, WakeSleeps DEF CommandWakes
  <2>2. ControllerInv'
    BY <1>8, WakeInv DEF CommandWakes
  <2>3. QED
    BY <1>1, <2>1, <2>2 DEF LoopWaits, StopStays, StopRests
<1>9. CASE WatchdogTick
  BY <1>1, <1>9, WatchdogTickInv DEF LoopWaits, StopStays, StopRests
<1>10. CASE Teleop
  <2>1. task = "none"
    BY <1>10 DEF Teleop, LoopWaits
  <2>2. QED
    BY <1>1, <1>10, <2>1, TeleopInv DEF LoopWaits, StopStays, StopRests
<1>11. CASE ManualTtlPasses
  <2>1. phase' = phase
    BY <1>11 DEF ManualTtlPasses
  <2>2. QED
    BY <1>1, <1>11, <2>1, ManualTtlPassesInv DEF LoopWaits, StopStays, StopRests
<1>12. CASE Surroundings
  <2>1. phase' = phase
    BY <1>12 DEF Surroundings
  <2>2. QED
    BY <1>1, <1>12, <2>1, SurroundingsInv DEF LoopWaits, StopStays, StopRests
<1>13. QED
  BY <1>2, <1>3, <1>4, <1>5, <1>6, <1>7, <1>8, <1>9, <1>10, <1>11, <1>12 DEF Next

(* The whole invariant holds of every reachable state.                     *)
THEOREM TerminalIsInvariant == Spec => []TerminalInv
BY TerminalInit, TerminalStep, PTL DEF Spec

(* The typing of every variable, the adapter's record included.            *)
THEOREM TypeCorrect == Spec => []TypeOK
<1>1. TerminalInv => TypeOK
  BY DEF TerminalInv, ControllerInv, LoopTyped, TypeOK
<1>2. QED
  BY <1>1, TerminalIsInvariant, PTL

(* CleanHandover for every instance: between the operator's velocities and *)
(* the follow's there is a zero, and nobody sends one while it settles.    *)
THEOREM VelocityChangesHandsAtRest == Spec => []CleanHandover
<1>1. TerminalInv => CleanHandover
  BY DEF TerminalInv, ControllerInv, HandoverInv, OwnerMoves, CleanHandover
<1>2. QED
  BY <1>1, TerminalIsInvariant, PTL

(* At the terminal too the emergency stop is final: no key but the end of  *)
(* the program leaves it, neither the tick nor a motion key, and a robot   *)
(* at rest starts to move under it only by a Move that was on its way.     *)
NoNewMoveUnderEstop == [][estop /\ ~ad.moving /\ ad'.moving => ad.late]_vars

THEOREM EstopIsFinal == Spec => []StopStays /\ NoNewMoveUnderEstop
<1>1. TerminalInv /\ [Next]_vars => [estop /\ ~ad.moving /\ ad'.moving => ad.late]_vars
  <2> SUFFICES ASSUME TerminalInv, Next, estop
               PROVE  ad'.moving => ad.moving \/ ad.late
    OBVIOUS
  <2> USE DEF TerminalInv
  <2>1. CASE NoKey \/ MotionStarted \/ HoldWindowEnds \/ ManualTtlPasses
    BY <2>1, ManualTtlPassesInv DEF NoKey, MotionStarted, HoldWindowEnds
  <2>2. CASE KeyEstop
    BY <2>2, KeyEstopInv
  <2>3. ~KeyCommand
    BY KeyCommandInv
  <2>4. CASE KeyHold \/ KeyMotion
    BY <2>4, KeyHoldInv, KeyMotionInv
  <2>5. CASE KeyQuit
    BY <2>5, KeyQuitInv
  <2>6. ~CommandWakes
    BY WakeSleeps DEF CommandWakes, StopRests
  <2>7. CASE WatchdogTick
    <3>1. mode \in {"ESTOP", "DISCONNECTED"}
      BY DEF StopStays
    <3>2. QED
      BY <2>7, <3>1, WatchdogTickInv
  <2>8. CASE Teleop
    <3>1. mode # "MANUAL"
      BY DEF StopStays
    <3>2. QED
      BY <2>8, <3>1, TeleopInv
  <2>9. CASE Surroundings
    BY <2>9, SurroundingsInv
  <2>10. QED
    BY <2>1, <2>2, <2>3, <2>4, <2>5, <2>6, <2>7, <2>8, <2>9 DEF Next
<1>2. TerminalInv => StopStays
  BY DEF TerminalInv
<1>3. QED
  BY <1>1, <1>2, TerminalIsInvariant, PTL DEF Spec, NoNewMoveUnderEstop

(* The mode changes along ALLOWED_TRANSITIONS here as well, although a     *)
(* settle sets it without another look. The ways off the table are the     *)
(* service's: the emergency stop in ERROR, and a settle that overwrites    *)
(* the ERROR of a connection that is still lost.                           *)
LegalModes ==
  [][mode' # mode /\ mode' # "DISCONNECTED" =>
       \/ mode' \in Allowed(mode)
       \/ mode = "ERROR" /\ mode' = "ESTOP"
       \/ /\ mode = "ERROR" /\ task \in DOMAIN SettlesInto
          /\ mode' = SettlesInto[task] /\ ~Connected(ad')]_vars

THEOREM ModesAreLegal == Spec => LegalModes
<1>1. TerminalInv /\ [Next]_vars => [Legal]_vars
  <2> SUFFICES ASSUME TerminalInv, Next
               PROVE  Legal
    OBVIOUS
  <2> USE DEF TerminalInv
  <2>1. CASE NoKey \/ MotionStarted \/ HoldWindowEnds \/ ManualTtlPasses
    BY <2>1, ManualTtlPassesInv DEF NoKey, MotionStarted, HoldWindowEnds, Legal
  <2>2. CASE KeyEstop
    <3>1. mode \in Modes \ {"DISCONNECTED"} /\ mode' = "ESTOP"
      BY <2>2, KeyEstopInv DEF KeyEstop, Listens, ControllerInv, ControllerTypeOK
    <3>2. QED
      BY <3>1 DEF Legal, Allowed, Modes
  <2>3. CASE KeyCommand \/ KeyHold \/ KeyMotion \/ Teleop \/ Surroundings
    BY <2>3, KeyCommandInv, KeyHoldInv, KeyMotionInv, TeleopInv, SurroundingsInv DEF Legal
  <2>4. CASE KeyQuit
    BY <2>4, KeyQuitInv DEF Legal
  <2>5. CASE CommandWakes
    BY <2>5, WakeLegal DEF CommandWakes
  <2>6. CASE WatchdogTick
    BY <2>6, TickLegal DEF WatchdogTick, NothingToTick, Legal
  <2>7. QED
    BY <2>1, <2>2, <2>3, <2>4, <2>5, <2>6 DEF Next
<1>2. [][Legal]_vars <=> LegalModes
  BY DEF Legal, LegalModes
<1>3. QED
  BY <1>1, <1>2, TerminalIsInvariant, PTL DEF Spec
=============================================================================
