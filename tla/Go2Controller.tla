----------------------------- MODULE Go2Controller -----------------------------
(***************************************************************************)
(* Go2Controller (robot-console/singularity_go2_console/controller.py):    *)
(* its modes, its commands and its watchdog tick.                          *)
(*                                                                         *)
(* The controller runs on one event loop. A command runs without           *)
(* interruption from one await to the next, so one action is the code      *)
(* between two awaits; while it sleeps in one (the settle of a mode        *)
(* transition, the pauses of an acquisition) the watchdog tick may run.    *)
(* The follow thread of the adapter runs at any time. `task` is the await  *)
(* the command under way sleeps in. Its callers run one command at a time. *)
(***************************************************************************)
EXTENDS VelocityMux, Naturals

CONSTANT MaxLost   \* ticks without the target before a follow is given up: 15

ASSUME ControllerAssumption == MaxLost \in Nat

VARIABLES
  mode,       \* _mode
  estop,      \* _estop
  lost,       \* Watchdogs._target_lost_frames
  manual,     \* Watchdogs._manual_active and whether manual_ttl_ms have passed
  task,       \* the await the command under way sleeps in
  scanning    \* config.detect_only, set by the service for a scan.start

controllerVars == <<owner, ad, mode, estop, lost, manual, task, scanning>>

Modes == {"IDLE", "MANUAL", "ACQUIRING_TARGET", "FOLLOWING", "ESTOP", "ERROR", "DISCONNECTED"}
Awaits == {"none", "toAcquire", "looking", "toFollow", "toIdle", "toManual"}

ControllerTypeOK ==
  /\ MuxTypeOK
  /\ mode \in Modes
  /\ estop \in BOOLEAN
  /\ lost \in 0..(MaxLost + 1)
  /\ manual \in {"off", "running", "expired"}
  /\ task \in Awaits
  /\ scanning \in BOOLEAN

(* connect() has succeeded, or has left the controller in ERROR, where a   *)
(* service that could not reach the robot goes on. An exception out of the *)
(* adapter's connect leaves it in CONNECTING instead, because the zero     *)
(* before ERROR fails; the first tick then finds the connection missing.   *)
ControllerInit ==
  /\ \/ mode = "IDLE" /\ ad = NewAdapter(TRUE)
     \/ mode = "ERROR" /\ ad = NewAdapter(FALSE)
  /\ owner = "NONE"
  /\ estop = FALSE
  /\ lost = 0
  /\ manual = "off"
  /\ task = "none"
  /\ scanning = FALSE

(* ALLOWED_TRANSITIONS without the modes of connecting and shutting down.  *)
Allowed(from) ==
  CASE from = "IDLE" -> {"MANUAL", "ACQUIRING_TARGET", "ESTOP", "ERROR"}
    [] from = "MANUAL" -> {"IDLE", "ACQUIRING_TARGET", "ESTOP", "ERROR"}
    [] from = "ACQUIRING_TARGET" -> {"FOLLOWING", "IDLE", "ESTOP", "ERROR"}
    [] from = "FOLLOWING" -> {"IDLE", "MANUAL", "ACQUIRING_TARGET", "ESTOP", "ERROR"}
    [] from \in {"ESTOP", "ERROR"} -> {"IDLE"}
    [] OTHER -> {}

(* force_zero and, if following, stop_follow.                              *)
Quieten(a) ==
  UNION {IF z.ad.following THEN StopFollow(z.ad) ELSE {z.ad} : z \in ForceZero(a)}

(* Mutant: no zero before the settle.                                      *)
BeginTransitionNoZero(a, from, to, stopFollow) ==
  IF to # from /\ to \notin Allowed(from)
  THEN {Outcome(FALSE, a)}
  ELSE {Outcome(TRUE, b) : b \in IF stopFollow /\ a.following THEN StopFollow(a) ELSE {a}}

(* _transition up to its settle: refused, given up because the zero        *)
(* failed, or (ok) about to settle.                                        *)
BeginTransition(a, from, to, stopFollow) ==
  IF to # from /\ to \notin Allowed(from)
  THEN {Outcome(FALSE, a)}
  ELSE UNION {IF z.ok
              THEN {Outcome(TRUE, b) :
                      b \in IF stopFollow /\ z.ad.following THEN StopFollow(z.ad) ELSE {z.ad}}
              ELSE {z} : z \in ForceZero(a)}

(* The mode at the end of each settle.                                     *)
SettlesInto ==
  [toAcquire |-> "ACQUIRING_TARGET", toFollow |-> "FOLLOWING", toIdle |-> "IDLE", toManual |-> "MANUAL"]

(* _transition after its settle: the mode is set whatever it has become.   *)
EndTransition(to, by) ==
  /\ mode' = to
  /\ owner' = by

-----------------------------------------------------------------------------
(* hold, from mode m: outcomes that are ok go on to settle into IDLE.      *)
BeginHold(a, m) ==
  UNION {IF m \in {"MANUAL", "FOLLOWING", "ACQUIRING_TARGET"}
         THEN BeginTransition(b, m, "IDLE", FALSE)
         ELSE {Outcome(FALSE, b)} : b \in Quieten(a)}

HoldFrom(a, m) ==
  \E h \in BeginHold(a, m) :
    /\ ad' = h.ad
    /\ task' = IF h.ok THEN "toIdle" ELSE "none"
    /\ manual' = "off"

Hold ==
  /\ task = "none"
  /\ ~estop
  /\ HoldFrom(ad, mode)
  /\ UNCHANGED <<owner, mode, estop, lost, scanning>>

(* emergency_stop has no await: zero, take the velocity, stop the follow.  *)
EmergencyStop ==
  /\ ad' \in Quieten(ad)
  /\ owner' = "ESTOP"
  /\ manual' = "off"
  /\ estop' = TRUE
  /\ mode' = "ESTOP"
  /\ UNCHANGED <<lost, task, scanning>>

-----------------------------------------------------------------------------
(* start_follow_front_person                                               *)

(* It returns to its caller. The service ends a scan with a hold, in the   *)
(* same breath.                                                            *)
FollowReturns(a, m) ==
  IF scanning
  THEN scanning' = FALSE /\ HoldFrom(a, m)
  ELSE ad' = a /\ task' = "none" /\ UNCHANGED <<scanning, manual>>

(* From its call to its first settle; `scan` is detect_only for the call.  *)
StartFollowFrom(a, scan) ==
  /\ task = "none"
  /\ ~estop
  /\ \E o \in BeginTransition(a, mode, "ACQUIRING_TARGET", TRUE) :
       \/ /\ o.ok
          /\ ad' = o.ad
          /\ task' = "toAcquire"
          /\ scanning' = scan
          /\ UNCHANGED manual
       \/ /\ ~o.ok
          /\ IF scan THEN HoldFrom(o.ad, mode) ELSE ad' = o.ad /\ UNCHANGED <<task, manual>>
          /\ UNCHANGED scanning
  /\ UNCHANGED <<owner, mode, estop, lost>>

StartFollowFrontPerson(scan) == StartFollowFrom(ad, scan)

(* reacquire_front_person                                                  *)
ReacquireFrontPerson == \E a \in Quieten(ad) : StartFollowFrom(a, FALSE)

AcquireSettled ==
  /\ task = "toAcquire"
  /\ EndTransition("ACQUIRING_TARGET", "NONE")
  /\ task' = "looking"
  /\ UNCHANGED <<ad, estop, lost, manual, scanning>>

(* A way out of the acquisition by a transition to IDLE, whose result is   *)
(* not looked at.                                                          *)
GiveUpFrom(a) ==
  \E o \in BeginTransition(a, mode, "IDLE", FALSE) :
    IF o.ok
    THEN ad' = o.ad /\ task' = "toIdle" /\ UNCHANGED <<scanning, manual>>
    ELSE FollowReturns(o.ad, mode)

(* One pass of the loop that leads nowhere yet; an ambiguous one zeroes.   *)
LookAgain ==
  /\ task = "looking"
  /\ mode = "ACQUIRING_TARGET"
  /\ ad' \in {z.ad : z \in ForceZero(ad)}
  /\ UNCHANGED <<owner, mode, estop, lost, manual, task, scanning>>

(* Mutant: the acquisition has no deadline.                                *)
GiveUpOnModeChange ==
  /\ task = "looking"
  /\ mode # "ACQUIRING_TARGET"
  /\ GiveUpFrom(ad)
  /\ UNCHANGED <<owner, mode, estop, lost>>

(* The detector or the follow skill is not ready, acquire_timeout_s have   *)
(* passed, or the mode is no longer ACQUIRING_TARGET. A scan that has      *)
(* found its person takes the same way.                                    *)
GiveUp ==
  /\ task = "looking"
  /\ GiveUpFrom(ad)
  /\ UNCHANGED <<owner, mode, estop, lost>>

(* The frame cannot be encoded, or the follow cannot be started, before or *)
(* after start_follow has stopped what there is.                           *)
FollowFails ==
  /\ task = "looking"
  /\ mode = "ACQUIRING_TARGET"
  /\ \E s \in {ad} \union StopFollow(ad) : \E z \in ForceZero(s) : GiveUpFrom(z.ad)
  /\ UNCHANGED <<owner, mode, estop, lost>>

(* Mutant: the follow goes on when the zero of its transition has failed.  *)
FollowStartsAnyway ==
  /\ task = "looking"
  /\ mode = "ACQUIRING_TARGET"
  /\ ~scanning
  /\ Connected(ad)
  /\ lost' = 0
  /\ \E a \in StartFollow(ad) : \E o \in BeginTransition(a, mode, "FOLLOWING", FALSE) :
       ad' = o.ad /\ task' = IF o.ok THEN "toFollow" ELSE "none"
  /\ UNCHANGED <<owner, mode, estop, manual, scanning>>

(* A stable front person: start the follow thread, then settle into        *)
(* FOLLOWING; if the zero of that transition fails, stop the follow again. *)
FollowStarts ==
  /\ task = "looking"
  /\ mode = "ACQUIRING_TARGET"
  /\ ~scanning
  /\ Connected(ad)
  /\ lost' = 0
  /\ \E a \in StartFollow(ad) : \E o \in BeginTransition(a, mode, "FOLLOWING", FALSE) :
       \/ o.ok /\ ad' = o.ad /\ task' = "toFollow"
       \/ ~o.ok /\ ad' \in {z.ad : z \in UNION {ForceZero(s) : s \in StopFollow(o.ad)}} /\ task' = "none"
  /\ UNCHANGED <<owner, mode, estop, manual, scanning>>

FollowSettled ==
  /\ task = "toFollow"
  /\ EndTransition("FOLLOWING", "FOLLOW")
  /\ task' = "none"
  /\ UNCHANGED <<ad, estop, lost, manual, scanning>>

(* The settle into IDLE of a hold, or of an acquisition, which then        *)
(* returns to its caller.                                                  *)
IdleSettled ==
  /\ task = "toIdle"
  /\ EndTransition("IDLE", "NONE")
  /\ FollowReturns(ad, "IDLE")
  /\ UNCHANGED <<estop, lost>>

-----------------------------------------------------------------------------
(* start_manual and set_manual_velocity                                    *)

StartManual ==
  /\ task = "none"
  /\ ~estop
  /\ \E o \in BeginTransition(ad, mode, "MANUAL", TRUE) :
       ad' = o.ad /\ task' = IF o.ok THEN "toManual" ELSE "none"
  /\ UNCHANGED <<owner, mode, estop, lost, manual, scanning>>

ManualSettled ==
  /\ task = "toManual"
  /\ EndTransition("MANUAL", "MANUAL")
  /\ manual' = "off"
  /\ task' = "none"
  /\ UNCHANGED <<ad, estop, lost, scanning>>

(* The outcomes of a call in mode m; only one that is ok restarts the TTL. *)
ManualVelocity(a, m, cmd) ==
  IF ~estop /\ m = "MANUAL" /\ Connected(a) THEN Publish(a, "MANUAL", cmd) ELSE {Outcome(FALSE, a)}

(* manual_ttl_ms have passed since the last velocity that was published.   *)
ManualTtlExpires ==
  /\ manual = "running"
  /\ manual' = "expired"
  /\ UNCHANGED <<owner, ad, mode, estop, lost, task, scanning>>

-----------------------------------------------------------------------------
(* tick_watchdogs, which has no await                                      *)

LostConnection == ~Connected(ad) /\ mode \notin {"DISCONNECTED", "ERROR", "ESTOP"}

TickConnectionLost ==
  /\ LostConnection
  /\ ad' \in {z.ad : z \in ForceZero(ad)}
  /\ mode' = "ERROR"
  /\ UNCHANGED <<owner, estop, lost, manual, task, scanning>>

TickManual ==
  /\ ~LostConnection
  /\ mode = "MANUAL"
  /\ manual = "expired"
  /\ ad' \in {z.ad : z \in ZeroBy(ad, "MANUAL")}
  /\ manual' = "off"
  /\ UNCHANGED <<owner, mode, estop, lost, task, scanning>>

(* Both ends of a follow by the tick: zero, stop, IDLE.                    *)
EndFollow(a) ==
  /\ ad' \in UNION {StopFollow(z.ad) : z \in ForceZero(a)}
  /\ mode' = "IDLE"
  /\ owner' = "NONE"

TickCameraStale ==
  /\ ~LostConnection
  /\ mode = "FOLLOWING"
  /\ EndFollow(ad)
  /\ UNCHANGED <<estop, lost, manual, task, scanning>>

(* Mutant: the count of lost frames starts again at every tick.            *)
TickTargetLostForgets ==
  /\ ~LostConnection
  /\ mode = "FOLLOWING"
  /\ ~ad.visible
  /\ lost' = IF lost = 0 THEN 1 ELSE 0
  /\ \E z \in ZeroBy(ad, "FOLLOW") :
       IF lost' > MaxLost THEN EndFollow(z.ad) ELSE ad' = z.ad /\ UNCHANGED <<mode, owner>>
  /\ UNCHANGED <<estop, manual, task, scanning>>

(* Mutant: a lost target is zeroed for ever, never given up.               *)
TickTargetLostZeroes ==
  /\ ~LostConnection
  /\ mode = "FOLLOWING"
  /\ ~ad.visible
  /\ lost' = lost + 1
  /\ ad' \in {z.ad : z \in ZeroBy(ad, "FOLLOW")}
  /\ UNCHANGED <<mode, owner, estop, manual, task, scanning>>

TickTargetLost ==
  /\ ~LostConnection
  /\ mode = "FOLLOWING"
  /\ ~ad.visible
  /\ lost' = lost + 1
  /\ \E z \in ZeroBy(ad, "FOLLOW") :
       IF lost' > MaxLost THEN EndFollow(z.ad) ELSE ad' = z.ad /\ UNCHANGED <<mode, owner>>
  /\ UNCHANGED <<estop, manual, task, scanning>>

(* The target is in view: take the follow thread's velocity and send it.   *)
TickFollow ==
  /\ ~LostConnection
  /\ mode = "FOLLOWING"
  /\ ad.visible
  /\ lost' = 0
  /\ IF scanning \/ ad.cmd = "none"
     THEN UNCHANGED ad
     ELSE ad' \in {p.ad : p \in Publish([ad EXCEPT !.cmd = "none"], "FOLLOW", ad.cmd)}
  /\ UNCHANGED <<owner, mode, estop, manual, task, scanning>>

Tick ==
  \/ TickConnectionLost
  \/ TickManual
  \/ TickCameraStale
  \/ TickTargetLost
  \/ TickFollow

-----------------------------------------------------------------------------
(* shutdown: DimOSGo2Adapter.disconnect never suspends, so it is one step. *)
ShutdownFrom(a) ==
  /\ task = "none"
  /\ mode # "DISCONNECTED"
  /\ ad' \in UNION {Disconnect(b) : b \in Quieten(a)}
  /\ manual' = "off"
  /\ EndTransition("DISCONNECTED", "NONE")
  /\ UNCHANGED <<estop, lost, task, scanning>>

Shutdown == ShutdownFrom(ad)

(* The follow threads, the session's loop, and the link to the robot.      *)
FollowThread(t) ==
  /\ ad' \in ThreadCheck(ad, t) \union ThreadLook(ad, t)
  /\ UNCHANGED <<owner, mode, estop, lost, manual, task, scanning>>

LateMoveArrives ==
  /\ ad' \in LateMove(ad)
  /\ UNCHANGED <<owner, mode, estop, lost, manual, task, scanning>>

ConnectionDrops ==
  /\ "drop" \in Faults
  /\ ad.session
  /\ ad' = [ad EXCEPT !.dropped = TRUE]
  /\ UNCHANGED <<owner, mode, estop, lost, manual, task, scanning>>

(* What the command under way does when it wakes.                          *)
Wake ==
  \/ AcquireSettled
  \/ LookAgain
  \/ GiveUp
  \/ FollowFails
  \/ FollowStarts
  \/ FollowSettled
  \/ IdleSettled
  \/ ManualSettled
=============================================================================
