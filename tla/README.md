# Verification of Singularity_Go_2

TLA+ models of the two programs in this repository that can make the robot
move: the **robot service** (`robot-service/`, a gateway with a command queue,
skills and an emergency stop) and the **robot console** (`robot-console/`, a
controller with an HTTP service and a terminal), and of Dolly's client of the
robot service (`dolly-integration/`). TLC checks the models on small instances;
TLAPS proves the theorems listed below for every instance.

Contents: [inventory](#inventory) · [modules](#modules-and-how-they-correspond-to-the-code)
· [runs](#what-the-runs-check) · [bounds](#bounds) · [fairness](#fairness)
· [proofs](#what-is-proved) · [disagreements](#where-the-code-and-its-documents-disagree)
· [not modelled](#only-model-checked-and-not-modelled) · [plan](#plan)

## Inventory

### Robot service (`robot-service/dolly_gateway`): threads and one event loop

| Part | State | Operations | Hard because |
|---|---|---|---|
| `CommandQueue` (command_queue.py) | `_queue`, `_busy`, `_current_mode` under a lock | `enqueue`, `process`, `drain`, `_execute_stop` | checks and updates sit in separate critical sections; a stop clears the busy flag of a command in hand |
| `RealExecutor` (executor.py) | `_current_mode`, the skills | `execute`, `_call_mission_stop`, `_call_with_timeout` | a skill call that times out lives on in its thread |
| `SafetyController` (safety.py) | emergency-stop latch, obstacle flag and distance, `_heartbeat_ok` | `trigger_estop`, `reset_estop`, `update_obstacle`, `update_heartbeat`, `can_accept_command` | written by four threads |
| `HeartbeatWatchdog` (safety.py) | `_last_heartbeat`, `_estop_triggered`, `_running` | `heartbeat`, `start`, `stop`, the `_watch` thread | one-shot latch without a lock, callback in three steps |
| `DollyGatewayModule` (module.py) | `_running`, the parts above | `start`, `stop`, `_process_commands`, `_on_heartbeat_timeout` | `process()` blocks the event loop that hands out requests |
| HTTP API (api.py) | none of its own | `/v1/commands`, `/v1/stop`, and read-only health, state, video, events | handlers run in a thread pool |
| `FrameGuard`, `FrameProvider` | latest frame, age | `update`, `get_latest` | staleness |
| state mapper, contracts, config, skill provider, blueprint | none or configuration | mapping, wiring | – |

Correct when: accepted commands run in order, once each, one at a time; none
starts when stale, blocked or stopped, but for one that was already past its
last check; nothing new moves the robot after a
successful `mission.stop`; every request and every stop is settled although
skills hang; a lost connection stops the robot; the two records of the mode
agree.

### Robot console (`robot-console/singularity_go2_console`): one event loop, follow threads

| Part | State | Operations | Hard because |
|---|---|---|---|
| `Go2Controller` (controller.py) | `_mode`, `_estop`, watchdog marks | start_manual, set_manual_velocity, follow, reacquire, hold, emergency_stop, shutdown, `tick_watchdogs` | commands sleep (settle, acquisition) and the tick runs in between |
| `VelocityMux` (velocity_mux.py) | `_owner` | publish, zero, force_zero, set_owner | ownership changes after the settle |
| `Watchdogs` (watchdog.py) | manual TTL, lost frames, camera age, connection | mark and check | read by the tick |
| `DimOSGo2Adapter` (dimos_adapter.py) | session, latest frame, follow thread, stop event, last follow velocity, visibility | connect, preflight, publish, zero, start_follow, stop_follow, disconnect | threads that outlive their join; frames older than they seem |
| `Go2WebRTCSession` (webrtc_connect.py) | an event loop in a thread, cached motion mode and its age, `_operator_selected_normal` | connect_and_verify, move, stop_movement, get_motion_mode, ensure_normal_mode, close | a coroutine outlives the caller who gave up on it; the robot need not answer |
| `ServiceRuntime` (service/app.py) | the lock, the TTLs, `_scan_active`, `_holding` | handle_command, `_watchdog_loop`, stop | everything, a stop too, waits for one lock |
| `TerminalConsole` (terminal_console.py) | deadman window, `_need_zero` | keys, teleop_tick, two loops | the loop waits for keys |
| `TargetStabilityTracker`, `TargetLocker` (front_person.py, target_locker.py) | the last box and a count; the target, when it was seen, its colours | select_front_person, update, reset | several people; retention over frames in which the target is not seen |
| follow velocity control (yolo_follow_control.py) | smoothed velocity | compute | numeric |
| config, CLI, events, AES, logging, status mapper | configuration | – | – |

Correct when: an emergency stop is final; a robot under it starts no new move;
the velocity changes hands at rest; modes change along the transition table; a
command that fails half way leaves no follow and no velocity behind; requests
are answered; the state endpoint tells the truth about a follow and an error; a
follow without a target ends; released keys stop the robot; a Move
is sent only in a mode that allows it; no call hangs on a silent robot; the
robot is not steered blindly for long, and follows one person.

### Others

`dolly-integration/`: `RobotGatewayClient` (robot_gateway.py), Dolly's client of
the robot service. On one event loop a health task, a state task and an event
task each poll or listen on their own, and callers send commands; between them
they share the flag `_connected`, the cached robot state, and what they write
to Dolly's `StateStore` and announce on its `EventBus`. Correct when: all of it
becomes right again once the network stays; losses are announced only after
connections; every call returns. Besides: configuration patches, `scripts/`, the standalone
`go2_wasd.py`, the installer. `robot-service` and `robot-console` do not call
each other; both serve the same kind of command (`follow.start`, `follow.hold`,
`scan.start`, `mission.stop`) over HTTP, and `RobotGatewayClient` is a client
of it.

## Modules and how they correspond to the code

**Robot service**

* `Safety` – the latch and the obstacle flag of `SafetyController`; extended by
  the two modules below, each of which gives it its callers.
* `Executor` – `RealExecutor`'s mode, its mutual-exclusion check, the skill
  calls that are open (`calls`), and `active`, what the skills make the robot
  do. The skills are outside the repository: `Effect` is what the docstrings of
  `SkillContainer` promise, whenever a call ends, in time or not.
* `CommandGate` – the abstract specification of the command path: a bounded
  line, served from the front, one at a time, nothing started under the latch.
* `Gateway` – the command path. Each request is a thread; `pc[c]` says where it
  is in its handler (`arrived` … `queued`) and then in the command loop
  (`popped` … `done`) or in `_execute_stop` (`stopping` … `stopIdle`). One
  action is one critical section, or one skill call or its return. `inProcess`
  is the event loop inside `queue.process()`: no request is handed to a handler
  meanwhile (`Dispatch`). Both checks of a command, of its TTL and of safety, are
  two actions each, and so are what a stop does to the queue and its first skill
  call (`StopClear`, `StopExecute`). `inflight`, `standing` and `overtaken` are
  history variables: who was past the second check when the stop latched, the
  stops nobody has reset since, and the commands something came up against
  between their second check and their skill call.
  `INSTANCE CommandGate` maps the queue, preceded by the popped command until
  its second check, to the line, and refinement is the property `GateSpec`.
* `SafetyMonitor` – obstacle feed, heartbeat, any number of watchdog threads
  (one per `start`), the callback call by call. Time is the age of the last
  heartbeat in watchdog periods.

**Robot console**

* `Go2Adapter` – the adapter and its session as operators on a record; a call
  with several outcomes is the set of them. The four faults in `Faults` can be
  given to a run one by one. `clean` records that none but a dropped connection
  has happened. The robot is external: it moves from the last Move to a
  StopMove.
* `Go2Session` – the session below the adapter. `script` are the calls that the
  adapter or the controller have still to make, `call` the coroutine whose
  result the caller waits for, `at[c]` the await each coroutine is at; a
  coroutine that is not `call` is an orphan. One action is the code of a
  coroutine from one await to the next. The robot is external: it answers
  anything or nothing. `barred` and `before` are history variables.
  `INSTANCE Go2Adapter` maps the session to the adapter's record: `session` is
  what the adapter holds, `late` an orphaned Move that is not sent yet. Two
  properties show that `Go2Adapter` allows all the session does: `CallOutcomes`
  what the caller is told, `AdapterSteps` every step in between.
* `Boxes`, `FrontPerson`, `TargetLocker` – pure operators: boxes in the plane,
  their overlap and the distance of their centres in percent, rounded down;
  `select_front_person` and the stability tracker; `TargetLocker.update` as the
  set of targets it may have next. Of the colour histogram there is only what it
  is compared for: before the first match anybody, the target included, may
  resemble it to any degree (`likeness`, an input of each frame); after it has
  been blended once it is "flat" (zero) and everybody resembles it fully.
* `PersonFollow` – a follow with pictures and time: camera, acquisition loop,
  follow thread, tick. It looks at what `Go2Controller` leaves open (any look
  may find or lose the person), and leaves out what is shown there (failing
  zeros, settles, threads that outlive their stop). `unseen` is a history
  variable.
* `VelocityMux` – the owner, and who may publish.
* `Go2Controller` – one action per stretch of code between two awaits. `task`
  is the await the command under way sleeps in; `tick_watchdogs` has none.
  `BeginTransition` is `_transition` up to its settle and `EndTransition` the
  rest, so that the mode is looked at and set in different steps, as in the
  code.
* `ServiceConsole` – `handle_command` under its lock (`line`, the asyncio
  queue of the lock), the watchdog loop, the shutdown. `flags` are
  `_scan_active` and `_holding`, and `Told` is the mode that service/mapper.py
  makes of them and of the controller's. The code sets the flags in the same
  stretch in which the command returns; here `Answer` does, a step later, so
  `StateTells` leaves out the moment between the two.
* `TerminalConsole` – the curses loop (keys, tick, teleop) and the line mode
  (tick, teleop, a line, and for a motion key a loop of its own), over the same
  controller. The hold window and the manual TTL are clocks that run out at any
  time.

**Dolly**

* `RobotGatewayClient` – one action per stretch of code between two awaits.
  `at` says where the two polling tasks are, `answer` what the gateway has
  answered to the poll under way, `push` which update of the StateStore is
  under way, and `news` what the health task is about to tell. The two polls
  ask different things of the gateway (`robot`): the health its heartbeat, the
  state the DimOS connection. The network (`link`), the robot, the StateStore
  and the bus are external; what the bus has heard (`said`) is a history
  variable. Both command calls are one POST.

`MCGateway` adds a symmetry set, `MCPersonFollow` people and places.
`GatewayProofs`, `SafetyMonitorProofs`, `ServiceConsoleProofs`,
`TerminalConsoleProofs`, `Go2SessionProofs`, `PersonFollowProofs` and
`RobotGatewayClientProofs` hold the theorems; `Go2ControllerProofs` what the
service and the terminal both need of the controller and the adapter.
Definitions whose comment begins with "Mutant:" are deliberate bugs; each is
defined next to the definition it replaces when testing that a property can
fail.

## What the runs check

| Run | Instance | Properties |
|---|---|---|
| `gateway` | 2 requests of all kinds, queue of 1, both callers of `drain`, 1 reset | `TypeOK`; `OneLine`: the queue holds the waiting commands once each, one in hand; `NothingNewAfterStop`: after a successful stop only what had passed its last check when the stop latched moves the robot; `ModesAgree`: queue and executor record the same mode once nothing is in hand; `OneSlipsThrough`: of the commands that should be refused at their skill call at most one is not, the one that was past its second check when its TTL ran out, an obstacle appeared or the stop latched |
| `gateway_live` | 2 requests, queue of 2, `/v1/stop` | `AcceptedSettles`, `StopSettles`: accepted commands and stops get their receipt although no skill ever returns; `GateSpec`: `Gateway` implements `CommandGate` |
| `safety_monitor` | 2 watchdog threads, 1 reset | `HardStopHolds`: a near distance on record blocks; `LossReportedAfterEstop`; `LatchMeansEstop`; `FirstOutageStops` |
| `service_console` | 2 requests of all kinds, 2 follow threads, every fault | `EstopSticks`, `NoNewMoveUnderEstop`, `CleanHandover`, `LegalModes`: two ways off the transition table, both from ERROR; `CommandLeavesNothing`: a command that returns, whatever failed in it, leaves no follow and no velocity in ACQUIRING_TARGET, and `detect_only` off; `StateTells`: `GET /v1/state` tells of a follow and of an error, whatever flags earlier commands left; `RequestsSettle`, `LostTargetEndsFollow` |
| `terminal_console` | all keys, both loops, 1 thread, failing zeros, late Moves, a dropped connection | `CleanHandover`, `ReleasedKeysStop`, `LostTargetEndsFollow` |
| `gateway_client` | both polls, the event socket, 1 call, a stop at any time | `LossesAreFounded`: the bus hears of a loss only after a connection; `ReachableAgrees`: flag and StateStore agree with a gateway that stays; `UnreachableNoticed`: the flag goes off for good; `EventsResume`; `CallsReturn` |
| `go2_session` | 3 coroutines, connections one after the other, all calls | `MoveNeedsMode`: no Move is sent while the last mode the robot named forbids it; `CallOutcomes`, `AdapterSteps`: `Go2Adapter` allows what the session tells and does; `CoroutinesEnd`: no coroutine stays on the loop; no deadlock |
| `person_follow` | 2 people, 3 places, 3 stable frames, colours that resemble fully or not at all | `SightBound`: the robot is driven without a match in a picture that is not stale for at most `retain_seconds`, `camera_stale_ms` and three turns in which the end of each is noticed and the robot stopped; `StayingKeepsLock`: a person who stays where they were last seen is not lost, and loses the lock only to the very same box or, before the first match, to one that shares more than half of theirs, whatever the colours; no deadlock |
| `mutual_exclusion`, `api_stop`, `second_outage`, `lock_switches` | small | each a claim of the repository that the code breaks, see below |

Only the last two passing runs check for deadlock: each of the other systems
may stop for good (all requests served, the service shut down).

## Bounds

* Requests: two suffice for every race between a command and a stop or between
  two commands. Each request is sent at most once, and its kind is chosen
  freely. What more requests could add, a stop behind a command behind a
  command or the order of a longer queue, is what the proofs add: every
  safety property of the runs is also a theorem for any number.
* `MaxQueue` 1 and 2 instead of the default: the limit is reached.
* `MaxResets` 1: the operator resets once; every property that speaks of "until
  reset" is then checked on both sides of a reset.
* `Timeout`/`MaxAge`: the age saturates once it is past the timeout, where it
  no longer makes a difference.
* `Watchers` 2: a watchdog stopped and started again while its first thread
  still runs.
* `Threads` 2: a follow thread that outlives its `stop_follow`, beside its
  successor. A third thread would need two overruns in a row.
* `Calls` 1 for Dolly's client: calls share nothing with each other; and none where
  only the loops matter.
* `MaxLost` 1 instead of 15: the count is reset, counted and exceeded.
* `Coros` 3: an orphan beside a call, and two orphans beside each other and a
  call. Only a Move can be orphaned by its own timeout (2 s, against 2 s for
  the question and 0.5 s for the request), and a connect by its 60 s.
* `PersonFollow`: the unit of time is `camera_stale_ms` (`Stale` = 1) and
  `Retain` = 2, so that retention may outlast the frame or the frame it; ages
  saturate past their limits (`Oldest`), `unseen` one past the bound
  (`Longest`). The bound `Stale + Retain + 3` of `SightBound` is met: with one
  unit less TLC finds a counterexample, for these and other values of `Stale` and
  `Retain`. Three places in a picture of 64 by 48 units: two of one size that share
  three quarters of each other, and a smaller one higher up and to the side.
  Likenesses of 0 and 100 percent are the extremes of what the locker adds up;
  the theorems are for every value between. `lock_switches` has three places that
  do not overlap, and a second person in other clothes (likeness 0).

## Fairness

* `Gateway`: the event loop and the handler threads take their steps, and the
  wait for a skill ends at its timeout (`_call_with_timeout` joins with one).
  Skills, clients, sensors and the operator promise nothing.
* `SafetyMonitor`: time passes and watchdog threads take their steps.
* `ServiceConsole`: the event loop wakes what is due – the request that has the
  lock, a settle that is over, the tick – and an acquisition ends at its
  deadline (`GiveUp`), for the loop looks at the clock in every pass. That a
  follow ever starts, or the person is ever found, is not assumed.
* `TerminalConsole`: the loop goes on and the clocks run out. With curses,
  `NoKey` is strongly fair: `_handle_keys` returns only when `getch` has waited
  50 ms without a key, so the properties of that loop assume that the operator
  pauses again and again. That is an assumption about the operator and not
  guaranteed by the code. Nobody has to type a line in line mode.

* `RobotGatewayClient`: the event loop runs what is ready, the gateway answers
  while the link is up, requests have a timeout (`request_timeout_s`), the
  StateStore takes an update in the end, and the backoff is finite. The link
  and the robot promise nothing: the properties speak of behaviours in which
  they settle. Nobody has to start or stop the client.

* `Go2Session`: the loop runs what is scheduled and ends each wait at its
  timeout (`Runs`), and the caller makes the next call of its script. The robot
  owes nothing: no answer is fair.
* `PersonFollow` has no liveness; its time passes only when the tick and a
  running thread have had a turn, the thread one in which the locker does not
  raise. That is an assumption about the machine. A detector that hangs is
  outside it: the last velocity is then neither renewed nor taken back, for
  the target still counts as visible.

## What is proved

Every safety invariant, every action property and both refinements that the
runs check are theorems as well: TLC shows them on the instances above, TLAPS
for any set of requests, coroutines, threads, people and pictures and any value
of the other constants, under the assumptions named in the modules (queue bound
at least 1, `None` not a request, the faults among the four listed, a picture
that is not empty and places within it). One theorem has a hypothesis of its own, `Stoppable`,
explained below; the runs satisfy it.

Each rests on an inductive invariant that was first checked by TLC and is proved
in three facts: it holds initially, each action keeps it, it implies the
property.

### Robot service

* `GatewayProofs`
  * `TypeCorrect` – `TypeOK`.
  * `LineIsOne` – `OneLine`. Inductive together with `TypeOK`: the queue holds
    exactly the requests whose `pc` is `queued`, and `cur` is the only request
    of a queued kind between `popped` and `finish`. The busy flag alone would
    not do, as a stop clears it; what protects the order is that `cur` is set
    until the loop itself has finished.
  * `OneSlips` – `OneSlipsThrough`. The second check and the skill call are not one
    step, so a command may be executed that should be refused by then. The
    invariant `WindowKnown` says that a command between the two is refused only
    by what came up in between (`overtaken`); that no second one can be there
    with it is again `OneInHand`, as the busy flag may be off.
  * `NothingNew` – `NothingNewAfterStop`, provided that where `follow.start` has
    a skill so has its end (`Stoppable`: the navigation or the explorer skill is
    registered, by which a stop is carried out). Without it a stop would succeed
    without calling anything. The inductive invariant says of each open
    call, each started request and each active behaviour that it belongs to
    `inflight` or precedes the stop, per stage of the stop (latched, cleared,
    calling, succeeded); this is where it matters that a stop calls skills
    after the latch and that the second check reads the latch.
  * `PathIsGate` – `GateSpec`, the refinement of `CommandGate`: initial states
    map to initial states, and each critical section to a step of the gate or
    to a stutter. `PathInv` adds to the invariant of `LineIsOne` that a command
    in hand means the loop is inside `process()` and that `accepted` commands
    have passed the queue. The step that is hard to see is a stop that empties
    the queue while the loop holds a popped command: the command stays at the
    front of the gate's line until its second check finds the latch.
  * `ModesMeet` – `ModesAgree`. Queue and executor write their modes in
    different critical sections, in opposite orders for a command and for a
    stop. `ModesInv` says who is ahead: the executor by the command about to
    leave `process()`, the queue by a stop past its reset, and never both,
    unless a stop has overtaken a command (`inflight`).
* `SafetyMonitorProofs` – `TypeCorrect`, `HardStop`, `LossAfterEstop`,
  `LatchIsEstop` from one invariant, for any number of watchdog threads.

### Robot console

* `Go2ControllerProofs` – `ControllerInv`, which each command, each wake-up, the
  tick and the adapter's own steps keep, whatever drives the controller, as long
  as it has one command at a time. Its parts: `SettlesLegally` (what the mode
  can have become when a command wakes), `AcquiringSleeps`, `SessionInv`,
  `ErrorMeansLost`, `FollowCounts` (`lost` could leave its range if a follow
  began with an old count) and `HandoverInv`: while none of the faults has
  happened, only the follow thread the adapter knows is alive and only while it
  follows (`Sound`), the robot moves for the owner of the velocity and for
  nobody while a command sleeps, and a command that settles has no follow
  beside it that a tick could forward. Without the last part the zero before a
  settle would not be enough. The lemmas `ZeroCalms` … `HoldCalms` say of each
  operator of the adapter that it gives an adapter and leaves a robot at rest at
  rest (`Calmed`).
* `ServiceConsoleProofs`
  * `EstopIsFinal` – `EstopSticks`. `emergency_stop` does not look at the
    command under way; the theorem rests on the lock: whoever is served is at
    the head of the line, a command sleeps only while its request is served,
    so the request that gets the lock finds none asleep whose settle could
    overwrite the mode.
  * `NoNewMove` – `NoNewMoveUnderEstop`: under the emergency stop no tick acts
    and no command sleeps, and of what is left (a stop, the shutdown, follow
    threads, late Moves, a dropped connection) only a late Move sets the robot
    moving.
  * `VelocityChangesHandsAtRest` (`CleanHandover`) and `TypeCorrect` – from
    `ControllerInv` and the lock.
  * `NothingIsLeft` – `CommandLeavesNothing`, with every fault, the failing zero
    above all. The invariant `LeftInv` says of a controller in ACQUIRING_TARGET
    that nobody owns the velocity and that only a command settling into FOLLOWING
    has a follow beside it; that without a command a fault must have happened is
    `AcquiringSleeps` of `ControllerInv`. It rests on `start_follow_front_person` stopping the follow it
    has started when the zero of its transition fails.
  * `ModesAreLegal` – `LegalModes`. It leaves out no mode: the emergency stop asks
    no table, and so may come in ERROR; and a tick may find the connection
    missing during a settle, whose end then overwrites the ERROR. The theorem
    says that nothing else leaves the table and that in the second case the
    connection is still missing, so that the next tick sets ERROR again.
  * `StateIsTold` – `StateTells`. It needs of the flags that a scan never ends in
    a follow (`ScansNeverFollow`) and that the command that starts a follow takes
    the flags of earlier ones away (`FollowsHaveNoFlag`).
* `TerminalConsoleProofs` – `TypeCorrect`, `VelocityChangesHandsAtRest`
  (`CleanHandover`), and, of the same controller under another program,
  `EstopIsFinal` (its own `StopStays` and `NoNewMoveUnderEstop`) and
  `ModesAreLegal`. What takes the place of the lock is `LoopWaits`: while a command
  sleeps the loop is where it has begun it, so no second key is read.
* `Go2SessionProofs`, for any number of coroutines on the loop
  * `ModeGate` (`MoveNeedsMode`) and `TypeCorrect`. The invariant beside the types
    is `GateShut`: while the last mode the robot named forbids a Move, neither a
    cached `normal`, however old, nor a selection by the operator is there. Only
    three steps send a Move, on a fresh cache, on an answer or on the old cache
    after a question without one, and each decides in the step that sends. The
    code has this from keeping the decision and the sending without an await
    between them, and from caching even an answer it cannot read.
  * `SessionIsAdapter` – `AdapterSteps`, the refinement of `Go2Adapter`. `Goes`
    says what a coroutine does from one await to the next; `Shape` who may be on
    the loop in which phase: an orphan is at one of four awaits, a connect is
    under way only while connecting, a leave is the last call of a script. From
    these a step of an open session either makes a Move late without moving the
    robot, or makes no Move late, or ends the session with all its coroutines.
    For each there is an outcome of the adapter (`MoveEnds`, `LateEnds`,
    `Disconnects`).
  * `CallsAreOutcomes` – `CallOutcomes`, from `CallAlone`: a call that began on an
    empty loop stays alone there, and the robot moves as before the call unless
    the call itself has sent something.
* `PersonFollowProofs`
  * `TypeCorrect`, with what the operators on boxes, the tracker and the locker
    return (`IoUTypes`, `ScoreTypes`, `TrackerTypes`, `LockedOutcomes` …).
  * `BlindIsShort` – `SightBound`. Three watchdogs know of one cause each. The
    invariant `SightInv` joins them: a target was last matched in a frame that
    had not been stale for more than a turn (`RetainedFor`), because a stale
    frame that still matches is one that matched before it was stale
    (`StaleFor`, `FreshSeen`), and a follow that lost its target drives on until
    the next tick only (`BlindStops`).
  * `StayingIsKept` – `StayingKeepsLock`, for any boxes in the plane, any likeness
    of colours and any number of people. A box at the very place scores 80 of
    100 without its colours, so it is always above the threshold of 35
    (`BoxIsItself`); another wins against it only where overlap and distance cost
    it no more than the 20 the colours can give. Nothing as strong holds of a
    person who moves: overlap and distance do not rank boxes alike, and with
    equal boxes of 100 by 300 a target that moved 50 to the side scores less than
    somebody 60 above the old place. The locker promises no more.

### Dolly

* `RobotGatewayClientProofs` – `Founded` (`LossesAreFounded`) and `TypeCorrect`,
  from one invariant: while the health task sleeps or asks, a flag that is on
  has been announced; while it stores or tells, its news is what the flag has
  become, and a loss is due only where a connection was last announced. A
  failed poll takes the flag down with no news, which the invariant allows
  because the next connection is then announced again.

## Where the code and its documents disagree

* `MutualExclusion`: a skill call that times out goes on in its thread, and its
  effect can come beside the next command's. The executor promises that follow
  and scan never run concurrently.
* `ApiStopStops`: `POST /v1/stop` of the robot service latches and drains but
  calls no skill; the contract says that it calls the stop of every motion
  module.
* `OutageReported`: the watchdog's latch is never cleared; only the first
  outage is reported.
* `FarPersonNotTaken`: `cv2.normalize(blended, blended, alpha=0.0, ...,
  NORM_L1)` scales the target's colour histogram to zero at the first match.
  From then on the colour cue is full for everybody, and a person in other
  clothes at another place reaches the threshold. With a histogram that keeps
  its colours a place without overlap scores less than 35 and there is no such
  step.

Three more were found and have no run. `follow.hold` while a scan is under way
calls `stop_navigation` only and sets the mode to IDLE, so that `follow.start` is
admitted beside the scan (executor.py:242); it breaks `MutualExclusion` too, by a
longer way than the timeout. `POST /v1/stop` of the console waits for
the lock behind an acquisition and may then be refused as expired (app.py:139),
though app.py:343 calls it independent of the command queue. And
`_set_connected` of Dolly's client (robot_gateway.py:374) returns early when the
flag is off: if a state poll has put `robot_connected` into the StateStore
before the first health poll and the gateway is then out of reach, no later
health poll takes it out again, though the state task passes over failed polls
because the health loop "handles connection status".

## Only model-checked and not modelled

Liveness under fairness is beyond the proof system and only model-checked:
`AcceptedSettles` and `StopSettles` of the gateway, `FirstOutageStops` of the
safety layer, `RequestsSettle` and `LostTargetEndsFollow` of the service,
`ReleasedKeysStop` and `LostTargetEndsFollow` of the terminal, `CoroutinesEnd` of
the session, and `ReachableAgrees`, `UnreachableNoticed`, `EventsResume` and
`CallsReturn` of Dolly's client. So is the absence of deadlock in `go2_session`
and `person_follow`. Each is shown for the instance of its run and no larger one.

Not modelled: read-only endpoints,
what the detectors compute (their results are inputs), the Kalman filter and the
face tracker, the EdgeTAM variant of the follow thread, numeric velocity
control, `connect` as a step of the controller (its two outcomes are initial
states, its effect on the session is in `Go2Session`), the `tracker_only` debug
mode, the frame provider of the robot service (a cache whose one rule, a
frame older than its limit is withheld, is a comparison), Dolly's patches and
the skill blueprint (wiring and another repository's code), methods nothing in
the program calls
(`stop_following`, `reset_estop` and `disconnect` of the controller), the
speed limits that a `follow.start` may lower, the `stand` command of the
terminal's line mode (it sends BalanceStand past the adapter, which changes
nothing the models keep), and what the WebRTC link itself
does: the real adapter never reports a lost link, so only the mock's
`drop_connection` sets `dropped`.

Some details are simpler than in the code:

* An exception out of the adapter's `connect` (controller.py:200-208) leaves the
  controller in CONNECTING, because the zero before ERROR fails; the first tick
  then finds the connection missing. `ControllerInit` has the ERROR only.
* `LookRaises` stands for a locker that raises. The branch for a missing frame or
  detector (dimos_adapter.py:754) does not end the thread either way, but is not
  reached: a follow starts from a detection in a frame, and neither is taken
  away.
* `PersonFollow` ends the settle into FOLLOWING in a step of its own, during which
  the thread runs already; ticks in it do nothing that the model keeps.
* `Go2Session` closes once where a failed connect may close twice: the second
  finds nothing open. `RobotGatewayClient` is started once: a second `start()`
  after `stop()`, which the code permits, is not modelled.
* `OperatorReset` may come at any time, also within a mission.stop: `reset_estop`
  has no guard and takes no part in the stop's critical sections.

Two idealisations to keep in mind. Requests of the service are each made once,
so client retries are different requests. And in `CleanHandover` and
`ReleasedKeysStop` the condition `clean` excludes failed StopMoves, late Moves
and follow threads that outlive their join: with one of these the code gives no
such guarantee (a follow thread that outlives `stop_follow` can have a tick
publish its velocity while the next transition settles); in the part of
`StateTells` that is about a follow too, for a scan that could not hold says that
it holds. `EstopSticks`, `NoNewMoveUnderEstop`, `LegalModes` and
`CommandLeavesNothing` hold under all faults.

## Plan

1. Done: `Safety`, `Executor`, `CommandGate`, `Gateway`, `SafetyMonitor`, with
   proofs; `Go2Adapter`, `VelocityMux`, `Go2Controller`, `ServiceConsole`,
   `TerminalConsole`, `RobotGatewayClient`, with their first proofs.
2. Done: `Go2Session`, its refinement of `Go2Adapter` and its proofs; election,
   locking and `PersonFollow`.
3. Done: theorems for every safety property and refinement of the runs.
4. Left to model: the composition of Dolly's client with the gateway (a command
   whose answer is lost, and the state it leaves).
