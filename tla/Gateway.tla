------------------------------- MODULE Gateway -------------------------------
(***************************************************************************)
(* The command path of the robot service (robot-service/dolly_gateway):    *)
(* the HTTP handlers of api.py, CommandQueue, RealExecutor and the command *)
(* loop of DollyGatewayModule, over the safety state of Safety.            *)
(*                                                                         *)
(* Three kinds of thread meet here. A request is served in a thread pool,  *)
(* but only the event loop hands it to the pool; the command loop runs     *)
(* queue.process(), a blocking call, on that same event loop; a timed-out  *)
(* heartbeat drains the queue from the watchdog thread. One step of the    *)
(* model is one critical section, or one call of a skill or its return.    *)
(*                                                                         *)
(* A request is its own thread: pc[c] says where it is, first in its       *)
(* handler and, once it has been queued and popped, in the command loop.   *)
(***************************************************************************)
EXTENDS Safety, Executor, Naturals, Sequences

CONSTANTS
  KindsSent,   \* the kinds of command the clients send
  Drainers,    \* "post" for POST /v1/stop, "heartbeat" for _on_heartbeat_timeout
  MaxQueue,    \* DEFAULT_MAX_QUEUE
  MaxResets    \* bound on the operator's reset_estop calls

ASSUME GatewayAssumption ==
  /\ KindsSent \subseteq Kinds
  /\ MaxQueue \in Nat \ {0}
  /\ MaxResets \in Nat

VARIABLES
  running,    \* DollyGatewayModule._running
  queue,      \* CommandQueue._queue
  busy,       \* CommandQueue._busy
  qmode,      \* CommandQueue._current_mode
  inProcess,  \* the event loop is inside queue.process()
  cur,        \* the command process() has popped, or None
  kind,       \* the kind of each request, "unsent" before it is made
  pc,         \* where each request is
  expired,    \* the requests whose TTL has run out
  failed,     \* the mission.stop requests one of whose skill calls failed
  accepted,   \* the requests answered accepted=True by enqueue
  executed,   \* the requests with a receipt that says executed=True
  drainer,    \* where each caller of trigger_estop and drain is
  resets,     \* reset_estop calls so far
  inflight,   \* history: past the last check when the latch last went on
  standing,   \* history: the mission.stops since which nobody reset the latch
  overtaken   \* history: the commands something came up against after their second check

queueVars == <<queue, busy, qmode>>
loopVars == <<running, inProcess, cur>>
requestVars == <<kind, pc, expired, failed, accepted, executed>>
historyVars == <<inflight, standing, overtaken>>
vars == <<safetyVars, executorVars, queueVars, loopVars, requestVars, drainer, resets,
          historyVars>>

StopSteps == {"stopping", "stopCleared", "stopNav", "stopExp", "stopIdle"}
StartedSteps == {"cleared", "calling", "succeeded"}
Steps == {"new", "arrived", "handling", "ttlChecked", "checked", "queued", "popped",
          "ttlRechecked", "finish", "done"}
           \union StartedSteps \union StopSteps

TypeOK ==
  /\ SafetyTypeOK
  /\ ExecutorTypeOK
  /\ queue \in Seq(Cmds)
  /\ busy \in BOOLEAN
  /\ qmode \in Modes
  /\ running \in BOOLEAN
  /\ inProcess \in BOOLEAN
  /\ cur \in Cmds \union {None}
  /\ kind \in [Cmds -> Kinds \union {"unsent"}]
  /\ pc \in [Cmds -> Steps]
  /\ expired \subseteq Cmds
  /\ failed \subseteq Cmds
  /\ accepted \subseteq Cmds
  /\ executed \subseteq Cmds
  /\ drainer \in [Drainers -> {"idle", "latched", "done"}]
  /\ resets \in 0..MaxResets
  /\ inflight \subseteq Cmds
  /\ standing \subseteq Cmds
  /\ overtaken \subseteq Cmds

Init ==
  /\ SafetyInit
  /\ ExecutorInit
  /\ queue = <<>>
  /\ busy = FALSE
  /\ qmode = "IDLE"
  /\ running = FALSE
  /\ inProcess = FALSE
  /\ cur = None
  /\ kind = [c \in Cmds |-> "unsent"]
  /\ pc = [c \in Cmds |-> "new"]
  /\ expired = {}
  /\ failed = {}
  /\ accepted = {}
  /\ executed = {}
  /\ drainer = [d \in Drainers |-> "idle"]
  /\ resets = 0
  /\ inflight = {}
  /\ standing = {}
  /\ overtaken = {}

Go(c, from, to) ==
  /\ pc[c] = from
  /\ pc' = [pc EXCEPT ![c] = to]

IsStop(c) == kind[c] = "mission.stop"

(* Every queued command leaves without a receipt of its own.               *)
FlushQueue ==
  /\ queue' = <<>>
  /\ pc' = [c \in Cmds |-> IF pc[c] = "queued" THEN "done" ELSE pc[c]]

(* What refuses a command at either of its checks.                         *)
Refused(c) == c \in expired \/ ~CanAcceptCommand

(* Past its second safety check and not yet executed: whatever comes up    *)
(* now comes too late for the check.                                       *)
InWindow == {c \in Cmds : pc[c] = "cleared"}

(* trigger_estop, and who was past the last safety check at that moment.   *)
Latch ==
  /\ TriggerEstop
  /\ inflight' = IF estop THEN inflight
                 ELSE {c \in Cmds : pc[c] \in StartedSteps \union {"finish"}
                                    \/ \E op \in Operations : <<c, op>> \in calls}
  /\ overtaken' = IF estop THEN overtaken ELSE overtaken \union InWindow

-----------------------------------------------------------------------------
(* The environment: clients, time, the obstacle feed, the operator, and    *)
(* the owner of the module.                                                *)

Arrive(c, k) ==
  /\ Go(c, "new", "arrived")
  /\ kind' = [kind EXCEPT ![c] = k]
  /\ UNCHANGED <<safetyVars, executorVars, queueVars, loopVars, expired, failed, accepted,
                 executed, drainer, resets, historyVars>>

(* A command's age, counted from enqueue, exceeds its ttl_ms; nobody looks *)
(* at that of a mission.stop.                                              *)
Expire(c) ==
  /\ ~IsStop(c)
  /\ pc[c] \in {"handling", "ttlChecked", "checked", "queued", "popped", "ttlRechecked", "cleared"}
  /\ expired' = expired \union {c}
  /\ overtaken' = IF c \notin expired /\ pc[c] \in {"ttlRechecked", "cleared"}
                  THEN overtaken \union {c} ELSE overtaken
  /\ UNCHANGED <<safetyVars, executorVars, queueVars, loopVars, kind, pc, failed, accepted,
                 executed, drainer, resets, inflight, standing>>

UpdateObstacle(b) ==
  /\ SetObstacle(b, FALSE)
  /\ overtaken' = IF b /\ ~obstacle THEN overtaken \union InWindow ELSE overtaken
  /\ UNCHANGED <<executorVars, queueVars, loopVars, requestVars, drainer, resets, inflight,
                 standing>>

(* reset_estop has no guard: it may fall into the middle of a mission.stop *)
(* or between a check and what relies on it.                               *)
OperatorReset ==
  /\ resets < MaxResets
  /\ ResetEstop
  /\ resets' = resets + 1
  /\ standing' = {}
  /\ UNCHANGED <<executorVars, queueVars, loopVars, requestVars, drainer, inflight, overtaken>>

ModuleStart ==
  /\ ~running
  /\ running' = TRUE
  /\ UNCHANGED <<safetyVars, executorVars, queueVars, inProcess, cur, requestVars, drainer,
                 resets, historyVars>>

(* DollyGatewayModule.stop runs on the event loop and drains the queue.    *)
ModuleStop ==
  /\ running
  /\ ~inProcess
  /\ running' = FALSE
  /\ FlushQueue
  /\ UNCHANGED <<safetyVars, executorVars, busy, qmode, inProcess, cur, kind, expired, failed,
                 accepted, executed, drainer, resets, historyVars>>

-----------------------------------------------------------------------------
(* The handler of POST /v1/commands: CommandQueue.enqueue.                 *)

(* The event loop, when it is not inside process(), hands the request to   *)
(* the thread pool.                                                        *)
Dispatch(c) ==
  /\ running
  /\ ~inProcess
  /\ Go(c, "arrived", "handling")
  /\ UNCHANGED <<safetyVars, executorVars, queueVars, loopVars, kind, expired, failed, accepted,
                 executed, drainer, resets, historyVars>>

(* The TTL check of a command other than mission.stop, then, in a critical *)
(* section of its own, the safety check.                                   *)
CheckTtl(c) ==
  /\ ~IsStop(c)
  /\ Go(c, "handling", IF c \notin expired THEN "ttlChecked" ELSE "done")
  /\ UNCHANGED <<safetyVars, executorVars, queueVars, loopVars, kind, expired, failed, accepted,
                 executed, drainer, resets, historyVars>>

CheckSafety(c) ==
  /\ Go(c, "ttlChecked", IF CanAcceptCommand THEN "checked" ELSE "done")
  /\ UNCHANGED <<safetyVars, executorVars, queueVars, loopVars, kind, expired, failed, accepted,
                 executed, drainer, resets, historyVars>>

(* Mutant: `count > max_queue` for `count >= max_queue`.                   *)
AppendToFullQueue(c) ==
  /\ \/ /\ Len(queue) <= MaxQueue
        /\ Go(c, "checked", "queued")
        /\ queue' = Append(queue, c)
        /\ accepted' = accepted \union {c}
     \/ /\ Len(queue) > MaxQueue
        /\ Go(c, "checked", "done")
        /\ UNCHANGED <<queue, accepted>>
  /\ UNCHANGED <<safetyVars, executorVars, busy, qmode, loopVars, kind, expired, failed, executed,
                 drainer, resets, historyVars>>

(* Capacity check and append: a third critical section, which repeats      *)
(* neither check.                                                          *)
AppendToQueue(c) ==
  /\ \/ /\ Len(queue) < MaxQueue
        /\ Go(c, "checked", "queued")
        /\ queue' = Append(queue, c)
        /\ accepted' = accepted \union {c}
     \/ /\ Len(queue) >= MaxQueue
        /\ Go(c, "checked", "done")
        /\ UNCHANGED <<queue, accepted>>
  /\ UNCHANGED <<safetyVars, executorVars, busy, qmode, loopVars, kind, expired, failed, executed,
                 drainer, resets, historyVars>>

-----------------------------------------------------------------------------
(* CommandQueue.process, on the event loop.                                *)

(* Mutant: pop() for popleft().                                            *)
PopNewest ==
  /\ running
  /\ cur = None
  /\ queue # <<>>
  /\ ~busy
  /\ cur' = queue[Len(queue)]
  /\ queue' = SubSeq(queue, 1, Len(queue) - 1)
  /\ busy' = TRUE
  /\ inProcess' = TRUE
  /\ pc' = [pc EXCEPT ![queue[Len(queue)]] = "popped"]
  /\ UNCHANGED <<safetyVars, executorVars, qmode, running, kind, expired, failed, accepted,
                 executed, drainer, resets, historyVars>>

Pop ==
  /\ running
  /\ cur = None
  /\ queue # <<>>
  /\ ~busy
  /\ cur' = Head(queue)
  /\ queue' = Tail(queue)
  /\ busy' = TRUE
  /\ inProcess' = TRUE
  /\ pc' = [pc EXCEPT ![Head(queue)] = "popped"]
  /\ UNCHANGED <<safetyVars, executorVars, qmode, running, kind, expired, failed, accepted,
                 executed, drainer, resets, historyVars>>

(* process() returns; the loop sleeps and the event loop serves others.    *)
LeaveProcess ==
  /\ inProcess
  /\ cur = None
  /\ queue = <<>> \/ busy
  /\ inProcess' = FALSE
  /\ UNCHANGED <<safetyVars, executorVars, queueVars, running, cur, requestVars, drainer, resets,
                 historyVars>>

(* _process_one checks the TTL again, and then whether the robot may move. *)
RecheckTtl(c) ==
  /\ Go(c, "popped", IF c \notin expired THEN "ttlRechecked" ELSE "finish")
  /\ UNCHANGED <<safetyVars, executorVars, queueVars, loopVars, kind, expired, failed, accepted,
                 executed, drainer, resets, historyVars>>

(* Mutant: the second safety check is left out.                            *)
RecheckNothing(c) ==
  /\ Go(c, "ttlRechecked", "cleared")
  /\ UNCHANGED <<safetyVars, executorVars, queueVars, loopVars, kind, expired, failed, accepted,
                 executed, drainer, resets, historyVars>>

(* Mutant: only the obstacle is looked at again.                           *)
RecheckObstacle(c) ==
  /\ Go(c, "ttlRechecked", IF obstacle THEN "finish" ELSE "cleared")
  /\ UNCHANGED <<safetyVars, executorVars, queueVars, loopVars, kind, expired, failed, accepted,
                 executed, drainer, resets, historyVars>>

RecheckSafety(c) ==
  /\ Go(c, "ttlRechecked", IF CanAcceptCommand THEN "cleared" ELSE "finish")
  /\ UNCHANGED <<safetyVars, executorVars, queueVars, loopVars, kind, expired, failed, accepted,
                 executed, drainer, resets, historyVars>>

(* RealExecutor.execute: the mutual-exclusion check, then the skill call;  *)
(* without a skill the call counts as successful.                          *)
Execute(c) ==
  LET op == OperationOf(kind[c]) IN
  /\ \/ /\ IsMutexViolation(kind[c])
        /\ Go(c, "cleared", "finish")
        /\ UNCHANGED calls
     \/ /\ ~IsMutexViolation(kind[c])
        /\ IsRegistered(op)
        /\ Go(c, "cleared", "calling")
        /\ calls' = calls \union {<<c, op>>}
     \/ /\ ~IsMutexViolation(kind[c])
        /\ ~IsRegistered(op)
        /\ Go(c, "cleared", "succeeded")
        /\ UNCHANGED calls
  /\ UNCHANGED <<safetyVars, emode, active, queueVars, loopVars, kind, expired, failed, accepted,
                 executed, drainer, resets, historyVars>>

(* The end of execute after a successful dispatch, for a queued command    *)
(* and for a mission.stop alike.                                           *)
SetMode(c) ==
  /\ Go(c, "succeeded", IF IsStop(c) THEN "done" ELSE "finish")
  /\ emode' = TargetMode(kind[c])
  /\ executed' = executed \union {c}
  /\ UNCHANGED <<safetyVars, calls, active, queueVars, loopVars, kind, expired, failed, accepted,
                 drainer, resets, historyVars>>

(* Mutant: the command's kind recorded as the mode.                        *)
FinishOneRecordsKind(c) ==
  /\ Go(c, "finish", "done")
  /\ busy' = FALSE
  /\ qmode' = IF c \in executed THEN kind[c] ELSE qmode
  /\ cur' = None
  /\ UNCHANGED <<safetyVars, executorVars, queue, running, inProcess, kind, expired, failed,
                 accepted, executed, drainer, resets, historyVars>>

(* Mutant: the busy flag cleared only after a command that was executed.   *)
FinishOneStaysBusy(c) ==
  /\ Go(c, "finish", "done")
  /\ busy' = (c \notin executed)
  /\ qmode' = IF c \in executed THEN TargetMode(kind[c]) ELSE qmode
  /\ cur' = None
  /\ UNCHANGED <<safetyVars, executorVars, queue, running, inProcess, kind, expired, failed,
                 accepted, executed, drainer, resets, historyVars>>

(* The last critical section of process() for the popped command.          *)
FinishOne(c) ==
  /\ Go(c, "finish", "done")
  /\ busy' = FALSE
  /\ qmode' = IF c \in executed THEN TargetMode(kind[c]) ELSE qmode
  /\ cur' = None
  /\ UNCHANGED <<safetyVars, executorVars, queue, running, inProcess, kind, expired, failed,
                 accepted, executed, drainer, resets, historyVars>>

-----------------------------------------------------------------------------
(* CommandQueue._execute_stop, in the handler of a mission.stop.           *)

StopTrigger(c) ==
  /\ IsStop(c)
  /\ Go(c, "handling", "stopping")
  /\ Latch
  /\ standing' = standing \union {c}
  /\ UNCHANGED <<executorVars, queueVars, loopVars, kind, expired, failed, accepted, executed,
                 drainer, resets>>

(* Mutant: the queue's mode is not reset.                                  *)
StopClearKeepsMode(c) ==
  /\ pc[c] = "stopping"
  /\ pc' = [d \in Cmds |-> IF d = c THEN "stopCleared"
                           ELSE IF pc[d] = "queued" THEN "done" ELSE pc[d]]
  /\ queue' = <<>>
  /\ busy' = FALSE
  /\ UNCHANGED <<safetyVars, executorVars, qmode, loopVars, kind, expired, failed, accepted,
                 executed, drainer, resets, historyVars>>

(* Clears the queue, the busy flag (a command may be in hand) and the mode.*)
StopClear(c) ==
  /\ pc[c] = "stopping"
  /\ pc' = [d \in Cmds |-> IF d = c THEN "stopCleared"
                           ELSE IF pc[d] = "queued" THEN "done" ELSE pc[d]]
  /\ queue' = <<>>
  /\ busy' = FALSE
  /\ qmode' = "IDLE"
  /\ UNCHANGED <<safetyVars, executorVars, loopVars, kind, expired, failed, accepted, executed,
                 drainer, resets, historyVars>>

(* Where a mission.stop stands after `step`: at the next skill it has to   *)
(* call, at _call_mission_stop's own assignment, or, with neither skill to *)
(* call, at an immediate success.                                          *)
StopStepAfter(step) ==
  CASE step = "stopCleared" /\ "navigation" \in Registered -> "stopNav"
    [] step # "stopExp" /\ "explorer" \in Registered -> "stopExp"
    [] step = "stopCleared" /\ {"navigation", "explorer"} \intersect Registered = {} -> "succeeded"
    [] OTHER -> "stopIdle"

CallsAt(c, step) ==
  CASE step = "stopNav" -> {<<c, "stop_navigation">>}
    [] step = "stopExp" -> {<<c, "stop_all">>}
    [] OTHER -> {}

(* RealExecutor.execute of the mission.stop, whose mutual-exclusion check  *)
(* never refuses IDLE: the first skill call.                               *)
StopExecute(c) ==
  /\ Go(c, "stopCleared", StopStepAfter("stopCleared"))
  /\ calls' = calls \union CallsAt(c, StopStepAfter("stopCleared"))
  /\ UNCHANGED <<safetyVars, emode, active, queueVars, loopVars, kind, expired, failed, accepted,
                 executed, drainer, resets, historyVars>>

(* _call_mission_stop's own assignment, made even when a call failed; only *)
(* a success goes on to execute's (SetMode).                               *)
StopIdle(c) ==
  /\ Go(c, "stopIdle", IF c \in failed THEN "done" ELSE "succeeded")
  /\ emode' = "IDLE"
  /\ UNCHANGED <<safetyVars, calls, active, queueVars, loopVars, kind, expired, failed, accepted,
                 executed, drainer, resets, historyVars>>

-----------------------------------------------------------------------------
(* _call_with_timeout: the skill's thread and the caller that waits for it *)

Awaits(c, op) ==
  \/ pc[c] = "calling" /\ op = OperationOf(kind[c])
  \/ pc[c] = "stopNav" /\ op = "stop_navigation"
  \/ pc[c] = "stopExp" /\ op = "stop_all"

(* The caller goes on with what the call gave; `alive` are the skill       *)
(* threads left. A failed call of mission.stop does not keep it from       *)
(* making the next one.                                                    *)
Resume(c, ok, alive) ==
  \/ /\ Go(c, "calling", IF ok THEN "succeeded" ELSE "finish")
     /\ calls' = alive
     /\ UNCHANGED failed
  \/ /\ pc[c] \in {"stopNav", "stopExp"}
     /\ Go(c, pc[c], StopStepAfter(pc[c]))
     /\ calls' = alive \union CallsAt(c, StopStepAfter(pc[c]))
     /\ failed' = IF ok THEN failed ELSE failed \union {c}

(* The skill ends in time, with True (ok) or with anything else.           *)
SkillReturns(c, op, ok) ==
  /\ <<c, op>> \in calls
  /\ Awaits(c, op)
  /\ active' = IF ok THEN Effect(c, op) ELSE active
  /\ Resume(c, ok, calls \ {<<c, op>>})
  /\ UNCHANGED <<safetyVars, emode, queueVars, loopVars, kind, expired, accepted, executed,
                 drainer, resets, historyVars>>

(* Mutant: a mission.stop joins its skill threads without a timeout.       *)
SkillTimeoutCommandsOnly(c, op) ==
  /\ <<c, op>> \in calls
  /\ Awaits(c, op)
  /\ ~IsStop(c)
  /\ Resume(c, FALSE, calls)
  /\ UNCHANGED <<safetyVars, emode, active, queueVars, loopVars, kind, expired, accepted,
                 executed, drainer, resets, historyVars>>

(* The caller gives up; the skill's thread lives on.                       *)
SkillTimeout(c, op) ==
  /\ <<c, op>> \in calls
  /\ Awaits(c, op)
  /\ Resume(c, FALSE, calls)
  /\ UNCHANGED <<safetyVars, emode, active, queueVars, loopVars, kind, expired, accepted,
                 executed, drainer, resets, historyVars>>

(* A call the caller has given up on ends after all.                       *)
LateReturn(c, op, ok) ==
  /\ <<c, op>> \in calls
  /\ ~Awaits(c, op)
  /\ calls' = calls \ {<<c, op>>}
  /\ active' = IF ok THEN Effect(c, op) ELSE active
  /\ UNCHANGED <<safetyVars, emode, queueVars, loopVars, requestVars, drainer, resets,
                 historyVars>>

-----------------------------------------------------------------------------
(* POST /v1/stop, in a handler thread, and _on_heartbeat_timeout, in the   *)
(* watchdog thread: trigger_estop, then drain. Neither reaches a skill.    *)

DrainerTrigger(d) ==
  /\ d = "post" => running /\ ~inProcess
  /\ drainer[d] = "idle"
  /\ drainer' = [drainer EXCEPT ![d] = "latched"]
  /\ Latch
  /\ UNCHANGED <<executorVars, queueVars, loopVars, requestVars, resets, standing>>

Drain(d) ==
  /\ drainer[d] = "latched"
  /\ drainer' = [drainer EXCEPT ![d] = "done"]
  /\ FlushQueue
  /\ UNCHANGED <<safetyVars, executorVars, busy, qmode, loopVars, kind, expired, failed, accepted,
                 executed, resets, historyVars>>

-----------------------------------------------------------------------------
Environment ==
  \/ \E c \in Cmds, k \in KindsSent : Arrive(c, k)
  \/ \E c \in Cmds : Expire(c)
  \/ \E b \in BOOLEAN : UpdateObstacle(b)
  \/ OperatorReset
  \/ ModuleStart
  \/ ModuleStop

Handler(c) ==
  \/ CheckTtl(c) \/ CheckSafety(c) \/ AppendToQueue(c)
  \/ StopTrigger(c) \/ StopClear(c) \/ StopExecute(c) \/ StopIdle(c)

Loop(c) == RecheckTtl(c) \/ RecheckSafety(c) \/ Execute(c) \/ FinishOne(c)

Next ==
  \/ Environment
  \/ \E c \in Cmds : Dispatch(c)
  \/ \E c \in Cmds : Handler(c)
  \/ Pop
  \/ LeaveProcess
  \/ \E c \in Cmds : Loop(c)
  \/ \E c \in Cmds : SetMode(c)
  \/ \E c \in Cmds, op \in Operations, ok \in BOOLEAN : SkillReturns(c, op, ok)
  \/ \E c \in Cmds, op \in Operations : SkillTimeout(c, op)
  \/ \E c \in Cmds, op \in Operations, ok \in BOOLEAN : LateReturn(c, op, ok)
  \/ \E d \in Drainers : DrainerTrigger(d)
  \/ \E d \in Drainers : Drain(d)

(* The event loop and the threads run; a wait for a skill ends at its      *)
(* timeout. The skills, the clients and the sensors promise nothing.       *)
Fairness ==
  /\ WF_vars(Pop)
  /\ WF_vars(LeaveProcess)
  /\ \A c \in Cmds :
       /\ WF_vars(Dispatch(c))
       /\ WF_vars(Handler(c))
       /\ WF_vars(Loop(c))
       /\ WF_vars(SetMode(c))
       /\ WF_vars(\E op \in Operations : SkillTimeout(c, op))
  /\ \A d \in Drainers : WF_vars(Drain(d))

Spec == Init /\ [][Next]_vars /\ Fairness

-----------------------------------------------------------------------------
(* The command path implements the gate: one line, in order, once each,    *)
(* nothing started under the latch. The popped command is still the oldest *)
(* of the line until its second check.                                     *)
InHand == cur # None /\ pc[cur] \in {"popped", "ttlRechecked"}

Gate == INSTANCE CommandGate WITH
  Capacity <- MaxQueue + 1,
  line <- IF InHand THEN <<cur>> \o queue ELSE queue,
  seen <- accepted,
  running <- IF cur # None /\ pc[cur] \in StartedSteps THEN cur ELSE None,
  latched <- estop

GateSpec == Gate!Spec

(* No accepted command is lost, queued twice or in hand beside another:    *)
(* the queue holds exactly the accepted commands that wait, within its     *)
(* bound, and the loop has at most one command in hand, even after a stop  *)
(* has cleared the busy flag under it.                                     *)
QueueHoldsWaiting ==
  /\ Len(queue) <= MaxQueue
  /\ \A i, j \in 1..Len(queue) : queue[i] = queue[j] => i = j
  /\ \A c \in Cmds : pc[c] = "queued" <=> \E i \in 1..Len(queue) : queue[i] = c

OneInHand ==
  /\ \A c \in Cmds : ~IsStop(c) /\ pc[c] \in {"popped", "ttlRechecked", "finish"} \union StartedSteps
       => cur = c
  /\ busy => cur # None

OneLine == QueueHoldsWaiting /\ OneInHand

(* Once a mission.stop has come back executed, whatever the robot still    *)
(* does was started by a command that had already passed its last check    *)
(* when the stop latched: no later, queued or half-enqueued command moves  *)
(* the robot until an operator resets the stop.                            *)
NothingNewAfterStop ==
  standing \intersect executed # {} => \A b \in Behaviours : active[b] \in inflight \union {None}

(* The queue and the executor agree on the robot's mode whenever neither a *)
(* command nor a stop is under way, unless a stop overtook a command in    *)
(* flight (or the operator has reset one since).                           *)
Quiet == cur = None /\ \A c \in Cmds : IsStop(c) => pc[c] \in {"new", "arrived", "handling", "done"}
ModesAgree == Quiet /\ inflight = {} /\ resets = 0 => qmode = emode

(* The second check is not one step with the skill call that relies on it: *)
(* the TTL may run out, an obstacle may appear and a stop may latch in     *)
(* between, and the call is made all the same. This happens to no command  *)
(* but the one that was between the two when it came up (nothing that had  *)
(* come up earlier, while the command waited, is overlooked), and, though  *)
(* a stop clears the busy flag meanwhile, no second command can follow it. *)
OneSlipsThrough ==
  [][\A c \in Cmds, op \in Operations :
       ~IsStop(c) /\ <<c, op>> \in calls' \ calls /\ Refused(c)
         => /\ c \in overtaken
            /\ \A d \in Cmds \ {c} : ~IsStop(d) => pc[d] \notin {"popped", "ttlRechecked", "cleared"}]_vars

(* Every accepted command is settled, executed or not, as long as the      *)
(* module runs: a stop that resets the busy flag under it, a flush between *)
(* its check and its append, or a skill that hangs cannot strand it.       *)
AcceptedSettles == \A c \in Cmds : (c \in accepted) ~> (pc[c] = "done" \/ ~running)

(* A mission.stop that arrives gets its receipt even if every skill hangs. *)
StopSettles == \A c \in Cmds : (pc[c] = "arrived" /\ IsStop(c)) ~> (pc[c] = "done" \/ ~running)

-----------------------------------------------------------------------------
(* Claims of the repository that the code breaks.                          *)

(* executor.py: "Mutual exclusion: follow and scan cannot execute          *)
(* concurrently".                                                          *)
MutualExclusion == active["follow"] = None \/ active["scan"] = None

(* Roadmap/02 of POST /v1/stop: it calls stop of every motion module. Once *)
(* it has answered and no skill call is open, the robot does nothing.      *)
ApiStopStops ==
  (\E d \in Drainers : drainer[d] = "done") /\ estop /\ resets = 0 /\ cur = None /\ calls = {}
    => \A b \in Behaviours : active[b] = None
=============================================================================
