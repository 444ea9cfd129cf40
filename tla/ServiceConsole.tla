---------------------------- MODULE ServiceConsole ----------------------------
(***************************************************************************)
(* The console's HTTP service (robot-console/.../service/app.py):          *)
(* ServiceRuntime.handle_command serves the requests one at a time under   *)
(* an asyncio.Lock, which is fair, while _watchdog_loop ticks whenever the *)
(* command under way sleeps. POST /v1/stop takes the same way as the       *)
(* commands.                                                               *)
(***************************************************************************)
EXTENDS Go2Controller, Sequences

CONSTANTS
  Requests,
  MotionEnabled   \* config.motion_enabled

ASSUME ServiceAssumption == MotionEnabled \in BOOLEAN

VARIABLES
  line,      \* who holds the lock, then who waits for it, in order
  kind,      \* the command of each request
  step,      \* where each request is
  expired,   \* the requests whose ttl_ms have passed
  flags      \* which of _scan_active and _holding are set

vars == <<controllerVars, line, kind, step, expired, flags>>

CommandKinds == {"mission.stop", "scan.start", "follow.start", "follow.hold"}

TypeOK ==
  /\ ControllerTypeOK
  /\ line \in Seq(Requests)
  /\ kind \in [Requests -> CommandKinds \union {"unsent"}]
  /\ step \in [Requests -> {"new", "waiting", "serving", "refused", "done"}]
  /\ expired \subseteq Requests
  /\ flags \subseteq {"scanning", "holding"}

Init ==
  /\ ControllerInit
  /\ line = <<>>
  /\ kind = [r \in Requests |-> "unsent"]
  /\ step = [r \in Requests |-> "new"]
  /\ expired = {}
  /\ flags = {}

Running == mode # "DISCONNECTED"

Arrive(r, k) ==
  /\ Running
  /\ step[r] = "new"
  /\ step' = [step EXCEPT ![r] = "waiting"]
  /\ kind' = [kind EXCEPT ![r] = k]
  /\ line' = Append(line, r)
  /\ UNCHANGED <<controllerVars, expired, flags>>

Expire(r) ==
  /\ step[r] = "waiting"
  /\ expired' = expired \union {r}
  /\ UNCHANGED <<controllerVars, line, kind, step, flags>>

-----------------------------------------------------------------------------
(* handle_command, once it holds the lock                                  *)

(* Mutant: POST /v1/stop calls emergency_stop without taking the lock.     *)
HasLockOrStops(r) ==
  step[r] = "waiting" /\ line # <<>> /\ (Head(line) = r \/ kind[r] = "mission.stop")

HasLock(r) == step[r] = "waiting" /\ line # <<>> /\ Head(line) = r

(* Expired, a stop included; any other command under the emergency stop;   *)
(* a follow with motion disabled.                                          *)
MustRefuse(r) ==
  \/ r \in expired
  \/ kind[r] # "mission.stop" /\ (estop \/ mode = "ESTOP")
  \/ kind[r] = "follow.start" /\ ~MotionEnabled

Refuse(r) ==
  /\ HasLock(r)
  /\ MustRefuse(r)
  /\ step' = [step EXCEPT ![r] = "refused"]
  /\ line' = Tail(line)
  /\ UNCHANGED <<controllerVars, kind, expired, flags>>

Serve(r) ==
  /\ HasLock(r)
  /\ ~MustRefuse(r)
  /\ step' = [step EXCEPT ![r] = "serving"]
  /\ CASE kind[r] = "mission.stop" -> EmergencyStop
       [] kind[r] = "scan.start" -> StartFollowFrontPerson(TRUE)
       [] kind[r] = "follow.start" -> StartFollowFrontPerson(FALSE)
       [] OTHER -> Hold
  /\ UNCHANGED <<line, kind, expired, flags>>

(* Mutant: a follow leaves the flags of the command before it. *)
FlagsUnlessFollow(k) ==
  CASE k = "scan.start" -> {{"holding"}, {"holding", "scanning"}}
    [] k = "follow.hold" -> {IF mode = "IDLE" THEN {"holding"} ELSE {}}
    [] k = "follow.start" -> {flags}
    [] OTHER -> {{}}
(* The flags a command leaves. A scan says that it holds whatever came of  *)
(* its hold; whether it found its person is left open here. A hold that    *)
(* was done has put the controller in IDLE.                                *)
FlagsAfter(k) ==
  CASE k = "scan.start" -> {{"holding"}, {"holding", "scanning"}}
    [] k = "follow.hold" -> {IF mode = "IDLE" THEN {"holding"} ELSE {}}
    [] OTHER -> {{}}

(* The command has returned: set the flags, answer, and release the lock.  *)
Answer(r) ==
  /\ step[r] = "serving"
  /\ task = "none"
  /\ step' = [step EXCEPT ![r] = "done"]
  /\ line' = Tail(line)
  /\ flags' \in FlagsAfter(kind[r])
  /\ UNCHANGED <<controllerVars, kind, expired>>

-----------------------------------------------------------------------------
(* The mode that GET /v1/state tells (service/mapper.py): the flags stand   *)
(* before the controller's mode while the robot is connected.              *)
Told ==
  IF estop THEN "estop"
  ELSE IF Connected(ad) /\ flags # {}
  THEN IF "scanning" \in flags THEN "scanning" ELSE "holding"
  ELSE [IDLE |-> IF Connected(ad) THEN "ready" ELSE "disconnected",
        MANUAL |-> IF Connected(ad) THEN "armed" ELSE "disconnected",
        ACQUIRING_TARGET |-> "scanning",
        FOLLOWING |-> "following",
        ESTOP |-> "estop",
        ERROR |-> "error",
        DISCONNECTED |-> "disconnected"][mode]

-----------------------------------------------------------------------------
serviceVars == <<line, kind, step, expired, flags>>

WatchdogTick == Tick /\ UNCHANGED serviceVars

CommandWakes == Wake /\ UNCHANGED serviceVars

(* ServiceRuntime.stop: the server has first let every request finish.     *)
Stop == line = <<>> /\ Shutdown /\ UNCHANGED serviceVars

Surroundings ==
  /\ \/ \E t \in Threads : FollowThread(t)
     \/ LateMoveArrives
     \/ ConnectionDrops
  /\ UNCHANGED serviceVars

Next ==
  \/ \E r \in Requests, k \in CommandKinds : Arrive(r, k)
  \/ \E r \in Requests : Expire(r)
  \/ \E r \in Requests : Refuse(r)
  \/ \E r \in Requests : Serve(r)
  \/ \E r \in Requests : Answer(r)
  \/ CommandWakes
  \/ WatchdogTick
  \/ Stop
  \/ Surroundings

(* The event loop runs what is ready: a request that has the lock, a       *)
(* command whose sleep is over (an acquisition's own clock ends it), and,  *)
(* every 50 ms, the tick.                                                  *)
Fairness ==
  /\ \A r \in Requests : WF_vars(Refuse(r) \/ Serve(r) \/ Answer(r))
  /\ WF_vars(AcquireSettled /\ UNCHANGED serviceVars)
  /\ WF_vars(GiveUp /\ UNCHANGED serviceVars)
  /\ WF_vars((FollowSettled \/ IdleSettled) /\ UNCHANGED serviceVars)
  /\ WF_vars(WatchdogTick)

Spec == Init /\ [][Next]_vars /\ Fairness

-----------------------------------------------------------------------------
(* A served stop is final: whatever command it came after and whatever the *)
(* ticks do, the mode and the velocity stay with the emergency stop until  *)
(* the service is shut down. No settling transition may overwrite them.    *)
EstopSticks == estop /\ Running => mode = "ESTOP" /\ owner = "ESTOP"

(* Under the emergency stop a robot at rest starts to move only by a Move  *)
(* that was on its way before: follow threads, ticks and later commands    *)
(* cannot move it.                                                         *)
NoNewMoveUnderEstop == [][estop /\ ~ad.moving /\ ad'.moving => ad.late]_vars

(* The velocity changes hands at rest: with StopMove arriving, no late     *)
(* Move and follow threads that end when told, the robot moves only in     *)
(* FOLLOWING, sent by the follow, and never while a command settles.       *)
AtRestUnlessFollowing ==
  ad.moving => mode = "FOLLOWING" /\ owner = "FOLLOW" /\ task = "none"
CleanHandover == ad.clean => AtRestUnlessFollowing

(* The mode changes along ALLOWED_TRANSITIONS, although a transition looks *)
(* at the mode before its settle and sets it after. The two ways off the   *)
(* table start in ERROR: the emergency stop, which asks no table, and the  *)
(* end of a settle that overwrites the ERROR a tick has set meanwhile; the *)
(* connection is then still missing, so the next tick sets it again.       *)
LegalModes ==
  [][mode' # mode /\ mode' # "DISCONNECTED" =>
       \/ mode' \in Allowed(mode)
       \/ mode = "ERROR" /\ mode' = "ESTOP"
       \/ /\ mode = "ERROR" /\ task \in DOMAIN SettlesInto
          /\ mode' = SettlesInto[task] /\ ~Connected(ad')]_vars

(* A command that returns leaves nothing behind, whatever has failed in    *)
(* it. detect_only is off again. When the zero of a way out of the         *)
(* acquisition fails, the command returns in ACQUIRING_TARGET and nothing  *)
(* takes the controller out: then the follow it may have started is off    *)
(* and nobody owns the velocity, so that only zeros reach the robot. It    *)
(* takes a failed call to the robot to come to that.                       *)
CommandLeavesNothing ==
  task = "none" =>
    /\ ~scanning
    /\ mode = "ACQUIRING_TARGET" => owner = "NONE" /\ ~ad.following /\ ~ad.clean

(* What GET /v1/state tells is true of a robot that follows and of a       *)
(* controller in ERROR, although the flags of earlier commands stand       *)
(* before the mode and no tick clears them: a follow has cleared them, and *)
(* an ERROR means no connection. Only a failed StopMove breaks it: a scan  *)
(* that could not hold says that it does.                                  *)
StateTells ==
  (\A r \in Requests : step[r] = "serving" => task # "none")
    => /\ ad.clean /\ mode = "FOLLOWING" => Told = "following"
       /\ Running /\ mode = "ERROR" => Told = "error"

(* Every request is answered, however long the one before it acquires.     *)
RequestsSettle ==
  \A r \in Requests : (step[r] = "waiting") ~> (step[r] \in {"refused", "done"})

(* A target that stays out of sight ends the follow.                       *)
LostTargetEndsFollow == []<>(ad.visible \/ mode # "FOLLOWING")
=============================================================================
