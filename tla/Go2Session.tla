------------------------------ MODULE Go2Session ------------------------------
(***************************************************************************)
(* The WebRTC session of the console (webrtc_connect.py) under the calls   *)
(* the adapter and the controller make on it (dimos_adapter.py,            *)
(* controller.py). The session has an event loop in a thread of its own;   *)
(* a call schedules a coroutine there and blocks the caller, who has only  *)
(* one call at a time, until the coroutine ends or the caller's own        *)
(* timeout passes. Then the coroutine is an orphan: nobody cancels it and  *)
(* it goes on beside the next calls. An action of a coroutine is its code  *)
(* from one await to the next.                                             *)
(*                                                                         *)
(* The robot is external: it answers a request with anything or not at all *)
(* and obeys a Move or a StopMove that was sent. What is sent arrives,     *)
(* unless sending raises.                                                  *)
(***************************************************************************)
EXTENDS Naturals, Sequences

CONSTANTS
  Coros,         \* the coroutines that may be alive at once
  NoCoro,
  AllowSwitch    \* --allow-normal-mode-switch

ASSUME SessionAssumption ==
  /\ Coros # {}
  /\ NoCoro \notin Coros
  /\ AllowSwitch \in BOOLEAN

VARIABLES
  phase,      \* "none", "connecting", "open" once the adapter has its _session,
              \* "closing" once it has given it up, "failed" if it never had it
  purpose,    \* what the connection is for: "drive" or "preflight"
  script,     \* the calls the caller has still to make
  call,       \* the coroutine whose result the caller waits for, or NoCoro
  at,         \* where each coroutine is: scheduled, at one of its awaits, or "idle"
  told,       \* the result of the last call
  cached,     \* _cached_motion_mode
  fresh,      \* _cached_motion_mode_at is less than motion_mode_cache_s ago
  selected,   \* _operator_selected_normal
  moving,     \* external: the robot moves
  barred,     \* history: the last mode the robot named is not normal, and the
              \* operator has not selected normal
  before      \* history: whether the robot moved when the call began, "unknown"
              \* with an orphan about

vars == <<phase, purpose, script, call, at, told, cached, fresh, selected, moving, barred, before>>
mode == <<cached, fresh, selected, barred>>
caller == <<phase, purpose, script, call, told, before>>

Calls == {"connect", "move", "stop", "mode", "normal", "avoid", "leave"}
Steps == Calls \union {"frames", "giveUpSession"}
Awaits == {"connecting", "asking", "moving", "refusing", "stopping", "reading",
           "selecting", "standing", "confirming", "avoiding", "leaving"}
Names == {"normal", "other", "opaque"}    \* opaque: an answer without a name in it

-----------------------------------------------------------------------------
(* The caller's scripts.                                                   *)

(* disconnect: the zero of stop_follow, one more, and the session's own    *)
(* StopMove before it leaves the robot.                                    *)
Disconnect == <<"stop", "stop", "giveUpSession", "stop", "leave">>

(* run_preflight: see the camera advance, publish a zero, stop; whatever   *)
(* happened, disconnect.                                                   *)
Preflight == <<"frames", "stop", "stop">> \o Disconnect

(* A session that does not connect closes itself.                          *)
Close == <<"stop", "leave">>

(* What an open session may be asked for: a velocity, a zero, the mode the *)
(* line mode prints, arming (normal mode, then obstacle avoidance).        *)
Requests ==
  {<<"move">>, <<"stop">>, <<"mode">>, Disconnect}
    \union (IF AllowSwitch THEN {<<"normal", "avoid">>} ELSE {})

Init ==
  /\ phase = "none" /\ purpose = "drive" /\ script = <<>> /\ call = NoCoro
  /\ at = [c \in Coros |-> "idle"]
  /\ told = TRUE
  /\ cached = "opaque" /\ fresh = FALSE /\ selected = FALSE
  /\ moving = FALSE
  /\ barred = FALSE /\ before = "unknown"

(* connect and run_preflight make a new session.                           *)
Connect(p) ==
  /\ phase = "none"
  /\ phase' = "connecting" /\ purpose' = p
  /\ script' = IF p = "preflight" THEN <<"connect">> \o Preflight ELSE <<"connect">>
  /\ cached' = "opaque" /\ fresh' = FALSE /\ selected' = FALSE /\ barred' = FALSE
  /\ UNCHANGED <<call, at, told, moving, before>>

Request ==
  /\ phase = "open" /\ script = <<>> /\ call = NoCoro
  /\ script' \in Requests
  /\ UNCHANGED <<phase, purpose, call, at, told, mode, moving, before>>

(* _run: schedule the coroutine and wait for it.                           *)
Begin(c) ==
  /\ call = NoCoro /\ at[c] = "idle"
  /\ script # <<>> /\ Head(script) \in Calls
  /\ call' = c
  /\ at' = [at EXCEPT ![c] = Head(script)]
  /\ script' = Tail(script)
  /\ before' = IF \E d \in Coros : at[d] # "idle" THEN "unknown"
               ELSE IF moving THEN "moving" ELSE "still"
  /\ UNCHANGED <<phase, purpose, told, mode, moving>>

(* The camera advances within frame_advance_s, or the preflight is over.   *)
WatchFrames ==
  /\ call = NoCoro /\ script # <<>> /\ Head(script) = "frames"
  /\ script' \in {Tail(script), Disconnect}
  /\ UNCHANGED <<phase, purpose, call, at, told, mode, moving, before>>

(* The adapter forgets its session before it closes it.                    *)
GiveUpSession ==
  /\ call = NoCoro /\ script # <<>> /\ Head(script) = "giveUpSession"
  /\ phase' = "closing"
  /\ script' = Tail(script)
  /\ UNCHANGED <<purpose, call, at, told, mode, moving, before>>

(* The caller has its result.                                              *)
Returns(ok) == call' = NoCoro /\ told' = ok /\ before' = "unknown"

(* Mutant: the caller is not woken. *)
EndsUnheard(c, ok) == at' = [at EXCEPT ![c] = "idle"] /\ UNCHANGED <<call, told, before>>
(* A coroutine ends, and its caller has its result if it still waits.      *)
Ends(c, ok) ==
  /\ at' = [at EXCEPT ![c] = "idle"]
  /\ IF call = c THEN Returns(ok) ELSE UNCHANGED <<call, told, before>>

Waits(c, where) ==
  /\ at' = [at EXCEPT ![c] = where]
  /\ UNCHANGED <<call, told, before>>

-----------------------------------------------------------------------------
(* Requests to the robot.                                                  *)

(* _async_publish_sport: the request is sent before the wait for its ACK,  *)
(* or sending it raises.                                                   *)
Publishes(c, where, moves) ==
  \/ Waits(c, where) /\ moving' = moves
  \/ Ends(c, FALSE) /\ UNCHANGED moving

SendsMove(c) == Publishes(c, "moving", TRUE)
SendsStop(c, where) == Publishes(c, where, FALSE)

(* Mutant: a question without a clear answer is no reason to stop. *)
AllowsUnlessNamed(name) == name # "other" \/ selected
(* _motion_allows_move                                                     *)
Allows(name) == name = "normal" \/ selected

(* The rest of a Move once its mode is known.                              *)
Decides(c, name) == IF Allows(name) THEN SendsMove(c) ELSE SendsStop(c, "refusing")

(* Move asks for the mode unless it knows it.                              *)
MoveStarts(c) ==
  /\ at[c] = "move"
  /\ IF fresh THEN Decides(c, cached) ELSE Waits(c, "asking") /\ UNCHANGED moving
  /\ UNCHANGED <<phase, purpose, script, mode>>

StopStarts(c) ==
  /\ at[c] = "stop"
  /\ SendsStop(c, "stopping")
  /\ UNCHANGED <<phase, purpose, script, mode>>

AvoidStarts(c) ==
  /\ at[c] = "avoid"
  /\ Publishes(c, "avoiding", moving)
  /\ UNCHANGED <<phase, purpose, script, mode>>

(* Mutant: a refusal is told like a velocity without an ACK. *)
PublishEndsWell(c) ==
  /\ at[c] \in {"moving", "stopping", "refusing", "avoiding"}
  /\ Ends(c, TRUE)
  /\ UNCHANGED <<phase, purpose, script, mode, moving>>
(* The ACK of a velocity, or 0.5 s without one: the request counts as sent.*)
(* A Move that was refused is a failure in any case.                       *)
PublishEnds(c) ==
  /\ at[c] \in {"moving", "stopping", "refusing", "avoiding"}
  /\ Ends(c, at[c] # "refusing")
  /\ UNCHANGED <<phase, purpose, script, mode, moving>>

(* move gives up after 2 s. Of the other calls none outlasts its caller,   *)
(* whose timeouts exceed what their requests may take.                     *)
MoveGivenUp(c) ==
  /\ call = c
  /\ at[c] \in {"asking", "moving", "refusing"}
  /\ Returns(FALSE)
  /\ UNCHANGED <<phase, purpose, script, at, mode, moving>>

-----------------------------------------------------------------------------
(* The motion mode.                                                        *)

(* _async_get_motion_mode: what the robot names is cached.                 *)
Learns(name) ==
  /\ cached' = name
  /\ fresh' = (name # "opaque")
  /\ barred' = (~selected /\ (name = "other" \/ (name = "opaque" /\ barred)))
  /\ UNCHANGED selected

CacheAges ==
  /\ fresh
  /\ fresh' = FALSE
  /\ UNCHANGED <<caller, at, cached, selected, moving, barred>>

(* A Move has its answer.                                                  *)
MoveAnswered(c) ==
  /\ at[c] = "asking"
  /\ \E name \in Names : Learns(name) /\ Decides(c, name)
  /\ UNCHANGED <<phase, purpose, script>>

(* Mutant: only the caller's own timeout ends a question without an answer.*)
MoveAsksOn(c) ==
  /\ call = c /\ at[c] = "asking"
  /\ Decides(c, cached)
  /\ UNCHANGED <<phase, purpose, script, mode>>
(* 2 s have passed, or asking raised: the Move makes do with the last mode *)
(* it knows, however old.                                                  *)
MoveUnanswered(c) ==
  /\ at[c] = "asking"
  /\ Decides(c, cached)
  /\ UNCHANGED <<phase, purpose, script, mode>>

(* get_motion_mode does not look at the cache.                             *)
ModeStarts(c) ==
  /\ at[c] = "mode"
  /\ Waits(c, "reading")
  /\ UNCHANGED <<phase, purpose, script, mode, moving>>

ModeAnswered(c) ==
  /\ at[c] = "reading"
  /\ \E name \in Names : Learns(name)
  /\ Ends(c, TRUE)
  /\ UNCHANGED <<phase, purpose, script, moving>>

ModeUnanswered(c) ==
  /\ at[c] = "reading"
  /\ Ends(c, FALSE)
  /\ UNCHANGED <<phase, purpose, script, mode, moving>>

-----------------------------------------------------------------------------
(* Arming: SelectMode(normal), BalanceStand, and CheckMode until the robot *)
(* is in normal mode, or five seconds have passed.                         *)

NormalStarts(c) ==
  /\ at[c] = "normal"
  /\ Waits(c, "selecting")
  /\ UNCHANGED <<phase, purpose, script, mode, moving>>

SelectAcked(c) ==
  /\ at[c] = "selecting"
  /\ selected' = TRUE /\ cached' = "opaque" /\ fresh' = FALSE
  /\ barred' = FALSE
  /\ Waits(c, "standing")
  /\ UNCHANGED <<phase, purpose, script, moving>>

(* No ACK in 3 s, though the robot may have switched. A failed arming is   *)
(* not followed by obstacle avoidance.                                     *)
SelectUnacked(c) ==
  /\ at[c] = "selecting"
  /\ Ends(c, FALSE)
  /\ script' = <<>>
  /\ UNCHANGED <<phase, purpose, mode, moving>>

(* The answer to BalanceStand and the second for it, or a failure.         *)
Stood(c) ==
  /\ at[c] = "standing"
  /\ Waits(c, "confirming")
  /\ UNCHANGED <<phase, purpose, script, mode, moving>>

(* Any answer but another mode confirms; another mode is asked again.      *)
ConfirmAnswered(c) ==
  /\ at[c] = "confirming"
  /\ \E name \in Names :
       /\ Learns(name)
       /\ IF name = "other" THEN Waits(c, "confirming") ELSE Ends(c, TRUE)
  /\ UNCHANGED <<phase, purpose, script, moving>>

(* The deadline: SelectMode was ACKed, that is enough.                     *)
ConfirmExpires(c) ==
  /\ at[c] = "confirming"
  /\ Ends(c, TRUE)
  /\ UNCHANGED <<phase, purpose, script, mode, moving>>

-----------------------------------------------------------------------------
(* Connecting and leaving.                                                 *)

ConnectStarts(c) ==
  /\ at[c] = "connect"
  /\ Waits(c, "connecting")
  /\ UNCHANGED <<phase, purpose, script, mode, moving>>

(* The data channel and the sport requests are there: the adapter has its  *)
(* session.                                                                *)
ConnectSucceeds(c) ==
  /\ at[c] = "connecting" /\ call = c
  /\ Ends(c, TRUE)
  /\ phase' = "open"
  /\ UNCHANGED <<purpose, script, mode, moving>>

(* They are not, or 60 s have passed and the coroutine is left behind. A   *)
(* preflight ends as well.                                                 *)
ConnectFails(c) ==
  /\ at[c] = "connecting" /\ call = c
  /\ Returns(FALSE)
  /\ at' \in {at, [at EXCEPT ![c] = "idle"]}
  /\ phase' = "failed"
  /\ script' = Close
  /\ UNCHANGED <<purpose, mode, moving>>

(* A connect that was left behind.                                         *)
LateConnectEnds(c) ==
  /\ at[c] = "connecting" /\ call # c
  /\ Ends(c, FALSE)
  /\ UNCHANGED <<phase, purpose, script, mode, moving>>

LeaveStarts(c) ==
  /\ at[c] = "leave"
  /\ Waits(c, "leaving")
  /\ UNCHANGED <<phase, purpose, script, mode, moving>>

(* Mutant: the connection is closed, the loop goes on. *)
LeavesLoopRunning(c) ==
  /\ at[c] = "leaving"
  /\ Returns(TRUE)
  /\ at' = [at EXCEPT ![c] = "idle"]
  /\ phase' = "none"
  /\ UNCHANGED <<purpose, script, mode, moving>>
(* The connection is closed and the loop stops; whatever is still on it    *)
(* does not go on. After 10 s without an end the loop is abandoned alive,  *)
(* but by then no other coroutine is left.                                 *)
Leaves(c) ==
  /\ at[c] = "leaving"
  /\ Returns(TRUE)
  /\ at' = [d \in Coros |-> "idle"]
  /\ phase' = "none"
  /\ UNCHANGED <<purpose, script, mode, moving>>

-----------------------------------------------------------------------------
(* An answer, or what comes of a robot that gives one.                     *)
Answered(c) ==
  \/ MoveAnswered(c) \/ ModeAnswered(c) \/ SelectAcked(c) \/ ConfirmAnswered(c)
  \/ ConnectSucceeds(c) \/ LateConnectEnds(c)

(* What the loop does by itself: start what is scheduled, and end each of  *)
(* its waits at the timeout.                                               *)
Runs(c) ==
  \/ MoveStarts(c) \/ StopStarts(c) \/ AvoidStarts(c) \/ ModeStarts(c)
  \/ NormalStarts(c) \/ ConnectStarts(c) \/ LeaveStarts(c)
  \/ MoveUnanswered(c) \/ PublishEnds(c) \/ ModeUnanswered(c) \/ SelectUnacked(c)
  \/ Stood(c) \/ ConfirmExpires(c) \/ ConnectFails(c) \/ Leaves(c)

Next ==
  \/ \E p \in {"drive", "preflight"} : Connect(p)
  \/ Request \/ WatchFrames \/ GiveUpSession \/ CacheAges
  \/ \E c \in Coros : Begin(c) \/ MoveGivenUp(c) \/ Answered(c) \/ Runs(c)

(* The robot owes nothing: no answer is fair. The loop's own thread is,    *)
(* and the caller's, which makes its next call.                            *)
Fairness ==
  /\ \A c \in Coros : WF_vars(Runs(c))
  /\ WF_vars(WatchFrames \/ GiveUpSession \/ \E c \in Coros : Begin(c))

Spec == Init /\ [][Next]_vars /\ Fairness

-----------------------------------------------------------------------------
(* Properties.                                                             *)

TypeOK ==
  /\ phase \in {"none", "connecting", "failed", "open", "closing"}
  /\ purpose \in {"drive", "preflight"}
  /\ script \in Seq(Steps) /\ Len(script) <= 9
  /\ call \in Coros \union {NoCoro}
  /\ at \in [Coros -> Calls \union Awaits \union {"idle"}]
  /\ call # NoCoro => at[call] # "idle"
  /\ <<told, fresh, selected, moving, barred>> \in BOOLEAN \X BOOLEAN \X BOOLEAN \X BOOLEAN \X BOOLEAN
  /\ cached \in Names
  /\ before \in {"moving", "still", "unknown"}

(* A Move is never sent to a robot whose last named mode is not normal,    *)
(* unless the operator has selected normal: not on a cached mode, not      *)
(* after a question that failed, not by an orphan beside other questions.  *)
MoveNeedsMode ==
  [][\A c \in Coros : at[c] # "moving" /\ at'[c] = "moving" => ~barred']_vars

(* Every coroutine ends, whatever the robot answers: no question to a      *)
(* robot that went silent keeps its caller or stays on the loop.           *)
CoroutinesEnd == \A c \in Coros : (at[c] # "idle") ~> (at[c] = "idle")

(* The robot and the session as the controller's model has them.           *)
Abstract == INSTANCE Go2Adapter WITH
  Threads <- {}, NoThread <- NoCoro, Faults <- {"zeroFails", "lateMove"}

ad == [Abstract!NewAdapter(phase \in {"open", "closing"}) EXCEPT
         !.moving = moving,
         !.late = \E c \in Coros : call # c /\ at[c] \in {"move", "asking"}]

(* The adapter without its follow threads and its history of faults.       *)
Bare(a) == <<a.session, a.moving, a.late>>

(* What a call tells the controller and does to the robot is an outcome    *)
(* that Go2Adapter gives it: a zero that is told sent stops the robot, a   *)
(* Move that is refused leaves it standing, and one that is given up may   *)
(* follow later.                                                           *)
CallOutcomes ==
  [][LET was == [ad EXCEPT !.moving = (before = "moving")]
         outcomes == IF at[call] = "stop" \/ at[call] = "stopping" THEN Abstract!PublishZero(was)
                     ELSE IF at[call] \in {"move", "asking", "moving", "refusing"}
                     THEN Abstract!PublishVelocity(was, "move")
                     ELSE {[ok |-> told', ad |-> was]}
     IN call # NoCoro /\ call' = NoCoro /\ before # "unknown" /\ ad.session /\ ad'.session
          => \E o \in outcomes : o.ok = told' /\ Bare(o.ad) = Bare(ad')]_vars

(* Every step of an open session, orphans' included, is one of             *)
(* Go2Adapter's: nothing of a session outlives its disconnect.             *)
AdapterSteps ==
  [][ad.session =>
       \/ \E o \in Abstract!PublishZero(ad) \union Abstract!PublishVelocity(ad, "move") :
            Bare(o.ad) = Bare(ad')
       \/ \E b \in Abstract!LateMove(ad) \union Abstract!Disconnect(ad) : Bare(b) = Bare(ad')]_ad
=============================================================================
