---------------------------- MODULE GatewayProofs ----------------------------
(***************************************************************************)
(* Theorems about Gateway, for every set of requests, queue bound and set  *)
(* of registered skills.                                                   *)
(***************************************************************************)
EXTENDS Gateway, TLAPS

USE ExecutorAssumption, GatewayAssumption DEF ExecutorAssumption, GatewayAssumption
USE DEF safetyVars, executorVars, queueVars, loopVars, requestVars, historyVars

-----------------------------------------------------------------------------
(* Small facts about the helpers the actions are built from.               *)

LEMMA ModeTypes ==
  ASSUME NEW k
  PROVE  TargetMode(k) \in Modes
BY DEF TargetMode, Modes

LEMMA OperationTypes ==
  ASSUME NEW k
  PROVE  OperationOf(k) \in Operations \ {"stop_all"}
BY DEF OperationOf, Operations

LEMMA StopStepTypes ==
  ASSUME NEW step
  PROVE  StopStepAfter(step) \in {"stopNav", "stopExp", "stopIdle", "succeeded"}
BY DEF StopStepAfter

LEMMA CallsAtTypes ==
  ASSUME NEW c \in Cmds, NEW step
  PROVE  CallsAt(c, step) \subseteq Cmds \X Operations
BY DEF CallsAt, Operations

LEMMA EffectTypes ==
  ASSUME NEW c \in Cmds, NEW op, active \in [Behaviours -> Cmds \union {None}]
  PROVE  Effect(c, op) \in [Behaviours -> Cmds \union {None}]
BY DEF Effect, Behaviours

(* The requests past their last check are requests.                        *)
LEMMA LatchTypes ==
  ASSUME TypeOK, Latch
  PROVE  /\ estop' = TRUE /\ obstacle' = obstacle
         /\ inflight' \subseteq Cmds /\ overtaken' \subseteq Cmds
BY DEF TypeOK, SafetyTypeOK, Latch, TriggerEstop, InWindow

LEMMA FlushTypes ==
  ASSUME TypeOK, FlushQueue
  PROVE  queue' = <<>> /\ queue' \in Seq(Cmds) /\ pc' \in [Cmds -> Steps]
BY DEF TypeOK, FlushQueue, Steps

-----------------------------------------------------------------------------
(* Type correctness.                                                       *)

LEMMA TypeInit == Init => TypeOK
<1> SUFFICES ASSUME Init
             PROVE  TypeOK
  OBVIOUS
<1>1. SafetyTypeOK /\ ExecutorTypeOK
  BY DEF Init, SafetyInit, SafetyTypeOK, ExecutorInit, ExecutorTypeOK, Modes, Behaviours
<1>2. queue \in Seq(Cmds)
  BY DEF Init
<1>3. resets \in 0..MaxResets
  BY DEF Init
<1>4. /\ kind \in [Cmds -> Kinds \union {"unsent"}]
      /\ pc \in [Cmds -> Steps]
      /\ drainer \in [Drainers -> {"idle", "latched", "done"}]
  BY DEF Init, Steps
<1>5. QED
  BY <1>1, <1>2, <1>3, <1>4 DEF Init, TypeOK, Modes

LEMMA TypeStep == TypeOK /\ [Next]_vars => TypeOK'
<1> SUFFICES ASSUME TypeOK, [Next]_vars
             PROVE  TypeOK'
  OBVIOUS
<1> USE DEF TypeOK, SafetyTypeOK, ExecutorTypeOK
<1>1. ASSUME NEW c \in Cmds, NEW k \in KindsSent, Arrive(c, k)
      PROVE  TypeOK'
  BY <1>1 DEF Arrive, Go, Steps
<1>2. ASSUME NEW c \in Cmds, Expire(c)
      PROVE  TypeOK'
  BY <1>2 DEF Expire, IsStop
<1>3. ASSUME NEW b \in BOOLEAN, UpdateObstacle(b)
      PROVE  TypeOK'
  BY <1>3 DEF UpdateObstacle, SetObstacle, InWindow
<1>4. ASSUME OperatorReset
      PROVE  TypeOK'
  <2>1. resets' \in 0..MaxResets
    BY <1>4 DEF OperatorReset
  <2>2. standing' = {} /\ estop' = FALSE /\ UNCHANGED <<obstacle, executorVars, queueVars,
          loopVars, requestVars, drainer, inflight, overtaken>>
    BY <1>4 DEF OperatorReset, ResetEstop
  <2>3. QED
    BY <2>1, <2>2
<1>5. ASSUME ModuleStart
      PROVE  TypeOK'
  BY <1>5 DEF ModuleStart
<1>6. ASSUME ModuleStop
      PROVE  TypeOK'
  BY <1>6, FlushTypes DEF ModuleStop
<1>7. ASSUME NEW c \in Cmds, Dispatch(c)
      PROVE  TypeOK'
  BY <1>7 DEF Dispatch, Go, Steps
<1>8. ASSUME NEW c \in Cmds, CheckTtl(c) \/ CheckSafety(c)
      PROVE  TypeOK'
  BY <1>8 DEF CheckTtl, CheckSafety, Go, Steps
<1>9. ASSUME NEW c \in Cmds, AppendToQueue(c)
      PROVE  TypeOK'
  <2>1. queue' \in Seq(Cmds)
    BY <1>9 DEF AppendToQueue
  <2>2. accepted' \subseteq Cmds /\ pc' \in [Cmds -> Steps]
    BY <1>9 DEF AppendToQueue, Go, Steps
  <2>3. UNCHANGED <<safetyVars, executorVars, busy, qmode, loopVars, kind, expired, failed,
                    executed, drainer, resets, historyVars>>
    BY <1>9 DEF AppendToQueue
  <2>4. QED
    BY <2>1, <2>2, <2>3
<1>10. ASSUME NEW c \in Cmds, StopTrigger(c)
       PROVE  TypeOK'
  BY <1>10, LatchTypes DEF StopTrigger, Go, Steps, StopSteps
<1>11. ASSUME NEW c \in Cmds, StopClear(c)
       PROVE  TypeOK'
  <2>1. queue' \in Seq(Cmds) /\ busy' = FALSE /\ qmode' \in Modes
    BY <1>11 DEF StopClear, Modes
  <2>2. pc' \in [Cmds -> Steps]
    BY <1>11 DEF StopClear, Steps, StopSteps
  <2>3. UNCHANGED <<safetyVars, executorVars, loopVars, kind, expired, failed, accepted, executed,
                    drainer, resets, historyVars>>
    BY <1>11 DEF StopClear
  <2>4. QED
    BY <2>1, <2>2, <2>3
<1>11b. ASSUME NEW c \in Cmds, StopExecute(c)
        PROVE  TypeOK'
  BY <1>11b, StopStepTypes, CallsAtTypes DEF StopExecute, Go, Steps, StopSteps, StartedSteps
<1>12. ASSUME NEW c \in Cmds, StopIdle(c)
       PROVE  TypeOK'
  BY <1>12 DEF StopIdle, Go, Steps, StartedSteps, Modes
<1>13. ASSUME Pop
       PROVE  TypeOK'
  BY <1>13 DEF Pop, Steps
<1>14. ASSUME LeaveProcess
       PROVE  TypeOK'
  BY <1>14 DEF LeaveProcess
<1>15. ASSUME NEW c \in Cmds, RecheckTtl(c) \/ RecheckSafety(c)
       PROVE  TypeOK'
  BY <1>15 DEF RecheckTtl, RecheckSafety, Go, Steps, StartedSteps
<1>16. ASSUME NEW c \in Cmds, Execute(c)
       PROVE  TypeOK'
  BY <1>16, OperationTypes DEF Execute, Go, Steps, StartedSteps
<1>17. ASSUME NEW c \in Cmds, FinishOne(c)
       PROVE  TypeOK'
  BY <1>17, ModeTypes DEF FinishOne, Go, Steps
<1>18. ASSUME NEW c \in Cmds, SetMode(c)
       PROVE  TypeOK'
  BY <1>18, ModeTypes DEF SetMode, Go, Steps, IsStop
<1>19. ASSUME NEW c \in Cmds, NEW ok \in BOOLEAN, NEW alive, alive \subseteq calls,
              Resume(c, ok, alive)
       PROVE  /\ calls' \subseteq Cmds \X Operations
              /\ failed' \subseteq Cmds
              /\ pc' \in [Cmds -> Steps]
  <2>1. CASE Go(c, "calling", IF ok THEN "succeeded" ELSE "finish") /\ calls' = alive
             /\ UNCHANGED failed
    BY <1>19, <2>1 DEF Go, Steps, StartedSteps
  <2>2. CASE /\ Go(c, pc[c], StopStepAfter(pc[c]))
             /\ calls' = alive \union CallsAt(c, StopStepAfter(pc[c]))
             /\ failed' = IF ok THEN failed ELSE failed \union {c}
    BY <1>19, <2>2, StopStepTypes, CallsAtTypes DEF Go, Steps, StartedSteps, StopSteps
  <2>3. QED
    BY <1>19, <2>1, <2>2 DEF Resume
<1>20. ASSUME NEW c \in Cmds, NEW op \in Operations, NEW ok \in BOOLEAN, SkillReturns(c, op, ok)
       PROVE  TypeOK'
  BY <1>19, <1>20, EffectTypes DEF SkillReturns
<1>21. ASSUME NEW c \in Cmds, NEW op \in Operations, SkillTimeout(c, op)
       PROVE  TypeOK'
  BY <1>19, <1>21 DEF SkillTimeout
<1>22. ASSUME NEW c \in Cmds, NEW op \in Operations, NEW ok \in BOOLEAN, LateReturn(c, op, ok)
       PROVE  TypeOK'
  BY <1>22, EffectTypes DEF LateReturn
<1>23. ASSUME NEW d \in Drainers, DrainerTrigger(d)
       PROVE  TypeOK'
  BY <1>23, LatchTypes DEF DrainerTrigger
<1>24. ASSUME NEW d \in Drainers, Drain(d)
       PROVE  TypeOK'
  BY <1>24, FlushTypes DEF Drain
<1>25. CASE UNCHANGED vars
  BY <1>25 DEF vars
<1>26. QED
  BY <1>1, <1>2, <1>3, <1>4, <1>5, <1>6, <1>7, <1>8, <1>9, <1>10, <1>11, <1>11b, <1>12, <1>13, <1>14,
     <1>15, <1>16, <1>17, <1>18, <1>20, <1>21, <1>22, <1>23, <1>24, <1>25
     DEF Next, Environment, Handler, Loop

(* Every variable keeps its type, whatever the threads do.                 *)
THEOREM TypeCorrect == Spec => []TypeOK
<1>1. Init => TypeOK
  BY TypeInit
<1>2. TypeOK /\ [Next]_vars => TypeOK'
  BY TypeStep
<1>3. QED
  BY <1>1, <1>2, PTL DEF Spec

-----------------------------------------------------------------------------
(* The queue holds exactly the commands that wait.                         *)

LEMMA SameQueue ==
  ASSUME QueueHoldsWaiting, queue' = queue,
         \A c \in Cmds : pc'[c] = "queued" <=> pc[c] = "queued"
  PROVE  QueueHoldsWaiting'
BY DEF QueueHoldsWaiting

LEMMA FlushQueueEmpties ==
  ASSUME TypeOK, FlushQueue
  PROVE  QueueHoldsWaiting'
<1>1. queue' = <<>> /\ \A c \in Cmds : pc'[c] # "queued"
  BY DEF FlushQueue, TypeOK
<1>2. QED
  BY <1>1 DEF QueueHoldsWaiting

(* The end of a skill call moves its caller alone, and not to the queue.   *)
LEMMA ResumeStays ==
  ASSUME TypeOK, NEW c \in Cmds, NEW ok \in BOOLEAN, NEW alive, Resume(c, ok, alive)
  PROVE  \A d \in Cmds : pc'[d] = "queued" <=> pc[d] = "queued"
BY StopStepTypes DEF Resume, Go, TypeOK

LEMMA QueueStep == TypeOK /\ QueueHoldsWaiting /\ [Next]_vars => QueueHoldsWaiting'
<1> SUFFICES ASSUME TypeOK, QueueHoldsWaiting, [Next]_vars
             PROVE  QueueHoldsWaiting'
  OBVIOUS
<1>1. ASSUME NEW c \in Cmds, NEW k \in KindsSent, Arrive(c, k)
      PROVE  QueueHoldsWaiting'
  BY <1>1, SameQueue DEF Arrive, Go, TypeOK
<1>2. ASSUME NEW c \in Cmds, Expire(c)
      PROVE  QueueHoldsWaiting'
  BY <1>2, SameQueue DEF Expire
<1>3. ASSUME NEW b \in BOOLEAN, UpdateObstacle(b)
      PROVE  QueueHoldsWaiting'
  BY <1>3, SameQueue DEF UpdateObstacle
<1>4. ASSUME OperatorReset
      PROVE  QueueHoldsWaiting'
  BY <1>4, SameQueue DEF OperatorReset
<1>5. ASSUME ModuleStart
      PROVE  QueueHoldsWaiting'
  BY <1>5, SameQueue DEF ModuleStart
<1>6. ASSUME ModuleStop
      PROVE  QueueHoldsWaiting'
  BY <1>6, FlushQueueEmpties DEF ModuleStop
<1>7. ASSUME NEW c \in Cmds, Dispatch(c)
      PROVE  QueueHoldsWaiting'
  BY <1>7, SameQueue DEF Dispatch, Go, TypeOK
<1>8. ASSUME NEW c \in Cmds, CheckTtl(c) \/ CheckSafety(c)
      PROVE  QueueHoldsWaiting'
  BY <1>8, SameQueue DEF CheckTtl, CheckSafety, Go, TypeOK
<1>9. ASSUME NEW c \in Cmds, AppendToQueue(c)
      PROVE  QueueHoldsWaiting'
  <2>1. CASE queue' = Append(queue, c) /\ Len(queue) < MaxQueue /\ Go(c, "checked", "queued")
    <3>1. /\ Len(queue') = Len(queue) + 1
          /\ \A i \in 1..Len(queue) : queue'[i] = queue[i] /\ queue[i] # c
          /\ queue'[Len(queue) + 1] = c
      BY <2>1 DEF TypeOK, QueueHoldsWaiting, Go
    <3>2. \A d \in Cmds : pc'[d] = "queued" <=> pc[d] = "queued" \/ d = c
      BY <2>1 DEF TypeOK, Go
    <3>3. Len(queue) \in Nat /\ Len(queue') <= MaxQueue
      BY <2>1, <3>1 DEF TypeOK
    <3>4. \A i, j \in 1..Len(queue') : queue'[i] = queue'[j] => i = j
      BY <3>1, <3>3 DEF QueueHoldsWaiting
    <3>5. \A d \in Cmds : pc'[d] = "queued" <=> \E i \in 1..Len(queue') : queue'[i] = d
      BY <3>1, <3>2, <3>3 DEF QueueHoldsWaiting
    <3>6. QED
      BY <3>3, <3>4, <3>5 DEF QueueHoldsWaiting
  <2>2. CASE queue' = queue /\ Go(c, "checked", "done")
    BY <2>2, SameQueue DEF Go, TypeOK
  <2>3. QED
    BY <1>9, <2>1, <2>2 DEF AppendToQueue
<1>10. ASSUME NEW c \in Cmds, StopTrigger(c)
       PROVE  QueueHoldsWaiting'
  BY <1>10, SameQueue DEF StopTrigger, Go, TypeOK
<1>11. ASSUME NEW c \in Cmds, StopClear(c)
       PROVE  QueueHoldsWaiting'
  <2>1. queue' = <<>>
    BY <1>11 DEF StopClear
  <2>2. \A d \in Cmds : pc'[d] # "queued"
    BY <1>11, StopStepTypes DEF StopClear, TypeOK
  <2>3. QED
    BY <2>1, <2>2 DEF QueueHoldsWaiting
<1>11b. ASSUME NEW c \in Cmds, StopExecute(c)
        PROVE  QueueHoldsWaiting'
  BY <1>11b, SameQueue, StopStepTypes DEF StopExecute, Go, TypeOK
<1>12. ASSUME NEW c \in Cmds, StopIdle(c)
       PROVE  QueueHoldsWaiting'
  BY <1>12, SameQueue DEF StopIdle, Go, TypeOK
<1>13. ASSUME Pop
       PROVE  QueueHoldsWaiting'
  <2>1. /\ queue # <<>>
        /\ queue' = Tail(queue)
        /\ pc' = [pc EXCEPT ![Head(queue)] = "popped"]
    BY <1>13 DEF Pop
  <2>2. /\ Len(queue) \in Nat \ {0}
        /\ Len(queue') = Len(queue) - 1
        /\ \A i \in 1..Len(queue') : queue'[i] = queue[i + 1]
        /\ Head(queue) = queue[1] /\ queue[1] \in Cmds
    BY <2>1 DEF TypeOK
  <2>3. /\ Len(queue') <= MaxQueue
        /\ \A i, j \in 1..Len(queue') : queue'[i] = queue'[j] => i = j
    BY <2>2 DEF QueueHoldsWaiting
  <2>4. \A d \in Cmds : pc'[d] = "queued" <=> pc[d] = "queued" /\ d # queue[1]
    BY <2>1, <2>2 DEF TypeOK
  <2>5. ASSUME NEW d \in Cmds
        PROVE  pc'[d] = "queued" <=> \E i \in 1..Len(queue') : queue'[i] = d
    <3>1. CASE d = queue[1]
      BY <2>2, <2>4, <3>1 DEF QueueHoldsWaiting
    <3>2. ASSUME d # queue[1], NEW i \in 1..Len(queue), queue[i] = d
          PROVE  i - 1 \in 1..Len(queue') /\ queue'[i - 1] = d
      BY <2>2, <3>2
    <3>3. ASSUME d # queue[1], NEW i \in 1..Len(queue'), queue'[i] = d
          PROVE  i + 1 \in 1..Len(queue) /\ queue[i + 1] = d
      BY <2>2, <3>3
    <3>4. QED
      BY <2>4, <3>1, <3>2, <3>3 DEF QueueHoldsWaiting
  <2>6. QED
    BY <2>3, <2>5 DEF QueueHoldsWaiting
<1>14. ASSUME LeaveProcess
       PROVE  QueueHoldsWaiting'
  BY <1>14, SameQueue DEF LeaveProcess
<1>15. ASSUME NEW c \in Cmds, RecheckTtl(c) \/ RecheckSafety(c)
       PROVE  QueueHoldsWaiting'
  BY <1>15, SameQueue DEF RecheckTtl, RecheckSafety, Go, TypeOK
<1>16. ASSUME NEW c \in Cmds, Execute(c)
       PROVE  QueueHoldsWaiting'
  BY <1>16, SameQueue DEF Execute, Go, TypeOK
<1>17. ASSUME NEW c \in Cmds, FinishOne(c)
       PROVE  QueueHoldsWaiting'
  BY <1>17, SameQueue DEF FinishOne, Go, TypeOK
<1>18. ASSUME NEW c \in Cmds, SetMode(c)
       PROVE  QueueHoldsWaiting'
  BY <1>18, SameQueue DEF SetMode, Go, TypeOK
<1>19. ASSUME NEW c \in Cmds, NEW op \in Operations, NEW ok \in BOOLEAN, SkillReturns(c, op, ok)
       PROVE  QueueHoldsWaiting'
  BY <1>19, SameQueue, ResumeStays DEF SkillReturns
<1>20. ASSUME NEW c \in Cmds, NEW op \in Operations, SkillTimeout(c, op)
       PROVE  QueueHoldsWaiting'
  BY <1>20, SameQueue, ResumeStays DEF SkillTimeout
<1>21. ASSUME NEW c \in Cmds, NEW op \in Operations, NEW ok \in BOOLEAN, LateReturn(c, op, ok)
       PROVE  QueueHoldsWaiting'
  BY <1>21, SameQueue DEF LateReturn
<1>22. ASSUME NEW d \in Drainers, DrainerTrigger(d)
       PROVE  QueueHoldsWaiting'
  BY <1>22, SameQueue DEF DrainerTrigger
<1>23. ASSUME NEW d \in Drainers, Drain(d)
       PROVE  QueueHoldsWaiting'
  BY <1>23, FlushQueueEmpties DEF Drain
<1>24. CASE UNCHANGED vars
  BY <1>24, SameQueue DEF vars
<1>25. QED
  BY <1>1, <1>2, <1>3, <1>4, <1>5, <1>6, <1>7, <1>8, <1>9, <1>10, <1>11, <1>11b, <1>12, <1>13, <1>14,
     <1>15, <1>16, <1>17, <1>18, <1>19, <1>20, <1>21, <1>22, <1>23, <1>24
     DEF Next, Environment, Handler, Loop

-----------------------------------------------------------------------------
(* The steps of a mission.stop and those of a queued command are apart.    *)

StopsAreStops ==
  \A c \in Cmds :
    /\ pc[c] \in StopSteps => IsStop(c)
    /\ pc[c] \in {"ttlChecked", "checked", "queued", "popped", "ttlRechecked", "cleared", "calling", "finish"} => ~IsStop(c)

LEMMA ResumeKeepsKinds ==
  ASSUME TypeOK, StopsAreStops, kind' = kind,
         NEW c \in Cmds, NEW ok \in BOOLEAN, NEW alive, Resume(c, ok, alive)
  PROVE  StopsAreStops'
BY StopStepTypes DEF Resume, Go, TypeOK, StopsAreStops, IsStop, StopSteps

LEMMA KindStep == TypeOK /\ QueueHoldsWaiting /\ StopsAreStops /\ [Next]_vars => StopsAreStops'
<1> SUFFICES ASSUME TypeOK, QueueHoldsWaiting, StopsAreStops, [Next]_vars
             PROVE  StopsAreStops'
  OBVIOUS
<1>1. ASSUME NEW c \in Cmds, NEW k \in KindsSent, Arrive(c, k)
      PROVE  StopsAreStops'
  BY <1>1 DEF Arrive, Go, StopsAreStops, IsStop, StopSteps, TypeOK
<1>2. ASSUME NEW c \in Cmds, Expire(c)
      PROVE  StopsAreStops'
  BY <1>2 DEF Expire, StopsAreStops, IsStop
<1>3. ASSUME NEW b \in BOOLEAN, UpdateObstacle(b)
      PROVE  StopsAreStops'
  BY <1>3 DEF UpdateObstacle, StopsAreStops, IsStop
<1>4. ASSUME OperatorReset
      PROVE  StopsAreStops'
  BY <1>4 DEF OperatorReset, StopsAreStops, IsStop
<1>5. ASSUME ModuleStart
      PROVE  StopsAreStops'
  BY <1>5 DEF ModuleStart, StopsAreStops, IsStop
<1>6. ASSUME ModuleStop
      PROVE  StopsAreStops'
  BY <1>6 DEF ModuleStop, FlushQueue, StopsAreStops, IsStop, StopSteps, TypeOK
<1>7. ASSUME NEW c \in Cmds, Dispatch(c)
      PROVE  StopsAreStops'
  BY <1>7 DEF Dispatch, Go, StopsAreStops, IsStop, StopSteps, TypeOK
<1>8. ASSUME NEW c \in Cmds, CheckTtl(c) \/ CheckSafety(c)
      PROVE  StopsAreStops'
  BY <1>8 DEF CheckTtl, CheckSafety, Go, StopsAreStops, IsStop, StopSteps, TypeOK
<1>9. ASSUME NEW c \in Cmds, AppendToQueue(c)
      PROVE  StopsAreStops'
  BY <1>9 DEF AppendToQueue, Go, StopsAreStops, IsStop, StopSteps, TypeOK
<1>10. ASSUME NEW c \in Cmds, StopTrigger(c)
       PROVE  StopsAreStops'
  BY <1>10 DEF StopTrigger, Go, StopsAreStops, IsStop, StopSteps, TypeOK
<1>11. ASSUME NEW c \in Cmds, StopClear(c)
       PROVE  StopsAreStops'
  BY <1>11, StopStepTypes DEF StopClear, StopsAreStops, IsStop, StopSteps, TypeOK
<1>11b. ASSUME NEW c \in Cmds, StopExecute(c)
        PROVE  StopsAreStops'
  BY <1>11b, StopStepTypes DEF StopExecute, Go, StopsAreStops, IsStop, StopSteps, TypeOK
<1>12. ASSUME NEW c \in Cmds, StopIdle(c)
       PROVE  StopsAreStops'
  BY <1>12 DEF StopIdle, Go, StopsAreStops, IsStop, StopSteps, TypeOK
<1>13. ASSUME Pop
       PROVE  StopsAreStops'
  <2>1. /\ queue[1] \in Cmds /\ pc[queue[1]] = "queued"
        /\ pc' = [pc EXCEPT ![queue[1]] = "popped"] /\ kind' = kind
    BY <1>13 DEF Pop, QueueHoldsWaiting, TypeOK
  <2>2. QED
    BY <2>1 DEF StopsAreStops, IsStop, StopSteps, TypeOK
<1>14. ASSUME LeaveProcess
       PROVE  StopsAreStops'
  BY <1>14 DEF LeaveProcess, StopsAreStops, IsStop
<1>15. ASSUME NEW c \in Cmds, RecheckTtl(c) \/ RecheckSafety(c)
       PROVE  StopsAreStops'
  BY <1>15 DEF RecheckTtl, RecheckSafety, Go, StopsAreStops, IsStop, StopSteps, TypeOK
<1>16. ASSUME NEW c \in Cmds, Execute(c)
       PROVE  StopsAreStops'
  BY <1>16 DEF Execute, Go, StopsAreStops, IsStop, StopSteps, TypeOK
<1>17. ASSUME NEW c \in Cmds, FinishOne(c)
       PROVE  StopsAreStops'
  BY <1>17 DEF FinishOne, Go, StopsAreStops, IsStop, StopSteps, TypeOK
<1>18. ASSUME NEW c \in Cmds, SetMode(c)
       PROVE  StopsAreStops'
  BY <1>18 DEF SetMode, Go, StopsAreStops, IsStop, StopSteps, TypeOK
<1>19. ASSUME NEW c \in Cmds, NEW op \in Operations, NEW ok \in BOOLEAN, SkillReturns(c, op, ok)
       PROVE  StopsAreStops'
  BY <1>19, ResumeKeepsKinds DEF SkillReturns
<1>20. ASSUME NEW c \in Cmds, NEW op \in Operations, SkillTimeout(c, op)
       PROVE  StopsAreStops'
  BY <1>20, ResumeKeepsKinds DEF SkillTimeout
<1>21. ASSUME NEW c \in Cmds, NEW op \in Operations, NEW ok \in BOOLEAN, LateReturn(c, op, ok)
       PROVE  StopsAreStops'
  BY <1>21 DEF LateReturn, StopsAreStops, IsStop
<1>22. ASSUME NEW d \in Drainers, DrainerTrigger(d)
       PROVE  StopsAreStops'
  BY <1>22 DEF DrainerTrigger, StopsAreStops, IsStop
<1>23. ASSUME NEW d \in Drainers, Drain(d)
       PROVE  StopsAreStops'
  BY <1>23 DEF Drain, FlushQueue, StopsAreStops, IsStop, StopSteps, TypeOK
<1>24. CASE UNCHANGED vars
  BY <1>24 DEF vars, StopsAreStops, IsStop
<1>25. QED
  BY <1>1, <1>2, <1>3, <1>4, <1>5, <1>6, <1>7, <1>8, <1>9, <1>10, <1>11, <1>11b, <1>12, <1>13, <1>14,
     <1>15, <1>16, <1>17, <1>18, <1>19, <1>20, <1>21, <1>22, <1>23, <1>24
     DEF Next, Environment, Handler, Loop

-----------------------------------------------------------------------------
(* The loop has at most one command in hand.                               *)

LEMMA ResumeKeepsHand ==
  ASSUME TypeOK, StopsAreStops, OneInHand, UNCHANGED <<kind, cur, busy>>,
         NEW c \in Cmds, NEW ok \in BOOLEAN, NEW alive, Resume(c, ok, alive)
  PROVE  OneInHand'
BY StopStepTypes DEF Resume, Go, TypeOK, StopsAreStops, OneInHand, IsStop, StopSteps, StartedSteps

LEMMA HandStep == TypeOK /\ StopsAreStops /\ OneInHand /\ [Next]_vars => OneInHand'
<1> SUFFICES ASSUME TypeOK, StopsAreStops, OneInHand, [Next]_vars
             PROVE  OneInHand'
  OBVIOUS
<1>1. ASSUME NEW c \in Cmds, NEW k \in KindsSent, Arrive(c, k)
      PROVE  OneInHand'
  BY <1>1 DEF Arrive, Go, StopsAreStops, StopSteps, OneInHand, IsStop, StartedSteps, TypeOK
<1>2. ASSUME NEW c \in Cmds, Expire(c)
      PROVE  OneInHand'
  BY <1>2 DEF Expire, OneInHand, IsStop, StartedSteps
<1>3. ASSUME NEW b \in BOOLEAN, UpdateObstacle(b)
      PROVE  OneInHand'
  BY <1>3 DEF UpdateObstacle, OneInHand, IsStop, StartedSteps
<1>4. ASSUME OperatorReset
      PROVE  OneInHand'
  BY <1>4 DEF OperatorReset, OneInHand, IsStop, StartedSteps
<1>5. ASSUME ModuleStart
      PROVE  OneInHand'
  BY <1>5 DEF ModuleStart, OneInHand, IsStop, StartedSteps
<1>6. ASSUME ModuleStop
      PROVE  OneInHand'
  BY <1>6 DEF ModuleStop, FlushQueue, OneInHand, IsStop, StartedSteps, TypeOK
<1>7. ASSUME NEW c \in Cmds, Dispatch(c)
      PROVE  OneInHand'
  BY <1>7 DEF Dispatch, Go, StopsAreStops, StopSteps, OneInHand, IsStop, StartedSteps, TypeOK
<1>8. ASSUME NEW c \in Cmds, CheckTtl(c) \/ CheckSafety(c)
      PROVE  OneInHand'
  BY <1>8 DEF CheckTtl, CheckSafety, Go, StopsAreStops, StopSteps, OneInHand, IsStop, StartedSteps, TypeOK
<1>9. ASSUME NEW c \in Cmds, AppendToQueue(c)
      PROVE  OneInHand'
  BY <1>9 DEF AppendToQueue, Go, StopsAreStops, StopSteps, OneInHand, IsStop, StartedSteps, TypeOK
<1>10. ASSUME NEW c \in Cmds, StopTrigger(c)
       PROVE  OneInHand'
  BY <1>10 DEF StopTrigger, Go, StopsAreStops, StopSteps, OneInHand, IsStop, StartedSteps, TypeOK
<1>11. ASSUME NEW c \in Cmds, StopClear(c)
       PROVE  OneInHand'
  BY <1>11, StopStepTypes DEF StopClear, StopsAreStops, StopSteps, OneInHand, IsStop, StartedSteps, TypeOK
<1>11b. ASSUME NEW c \in Cmds, StopExecute(c)
        PROVE  OneInHand'
  BY <1>11b, StopStepTypes DEF StopExecute, Go, StopsAreStops, StopSteps, OneInHand, IsStop, StartedSteps, TypeOK
<1>12. ASSUME NEW c \in Cmds, StopIdle(c)
       PROVE  OneInHand'
  BY <1>12 DEF StopIdle, Go, StopsAreStops, StopSteps, OneInHand, IsStop, StartedSteps, TypeOK
<1>13. ASSUME Pop
       PROVE  OneInHand'
  <2>1. /\ queue[1] \in Cmds /\ cur = None /\ cur' = queue[1]
        /\ pc' = [pc EXCEPT ![queue[1]] = "popped"] /\ kind' = kind
    BY <1>13 DEF Pop, TypeOK
  <2>2. QED
    BY <2>1 DEF OneInHand, IsStop, StartedSteps, TypeOK
<1>14. ASSUME LeaveProcess
       PROVE  OneInHand'
  BY <1>14 DEF LeaveProcess, OneInHand, IsStop, StartedSteps
<1>15. ASSUME NEW c \in Cmds, RecheckTtl(c) \/ RecheckSafety(c)
       PROVE  OneInHand'
  BY <1>15 DEF RecheckTtl, RecheckSafety, Go, StopsAreStops, StopSteps, OneInHand, IsStop, StartedSteps, TypeOK
<1>16. ASSUME NEW c \in Cmds, Execute(c)
       PROVE  OneInHand'
  BY <1>16 DEF Execute, Go, StopsAreStops, StopSteps, OneInHand, IsStop, StartedSteps, TypeOK
<1>17. ASSUME NEW c \in Cmds, FinishOne(c)
       PROVE  OneInHand'
  BY <1>17 DEF FinishOne, Go, StopsAreStops, StopSteps, OneInHand, IsStop, StartedSteps, TypeOK
<1>18. ASSUME NEW c \in Cmds, SetMode(c)
       PROVE  OneInHand'
  BY <1>18 DEF SetMode, Go, StopsAreStops, StopSteps, OneInHand, IsStop, StartedSteps, TypeOK
<1>19. ASSUME NEW c \in Cmds, NEW op \in Operations, NEW ok \in BOOLEAN, SkillReturns(c, op, ok)
       PROVE  OneInHand'
  BY <1>19, ResumeKeepsHand DEF SkillReturns
<1>20. ASSUME NEW c \in Cmds, NEW op \in Operations, SkillTimeout(c, op)
       PROVE  OneInHand'
  BY <1>20, ResumeKeepsHand DEF SkillTimeout
<1>21. ASSUME NEW c \in Cmds, NEW op \in Operations, NEW ok \in BOOLEAN, LateReturn(c, op, ok)
       PROVE  OneInHand'
  BY <1>21 DEF LateReturn, OneInHand, IsStop, StartedSteps
<1>22. ASSUME NEW d \in Drainers, DrainerTrigger(d)
       PROVE  OneInHand'
  BY <1>22 DEF DrainerTrigger, OneInHand, IsStop, StartedSteps
<1>23. ASSUME NEW d \in Drainers, Drain(d)
       PROVE  OneInHand'
  BY <1>23 DEF Drain, FlushQueue, OneInHand, IsStop, StartedSteps, TypeOK
<1>24. CASE UNCHANGED vars
  BY <1>24 DEF vars, OneInHand, IsStop, StartedSteps
<1>25. QED
  BY <1>1, <1>2, <1>3, <1>4, <1>5, <1>6, <1>7, <1>8, <1>9, <1>10, <1>11, <1>11b, <1>12, <1>13, <1>14,
     <1>15, <1>16, <1>17, <1>18, <1>19, <1>20, <1>21, <1>22, <1>23, <1>24
     DEF Next, Environment, Handler, Loop

-----------------------------------------------------------------------------
LineInv == TypeOK /\ QueueHoldsWaiting /\ StopsAreStops /\ OneInHand

LEMMA LineInit == Init => LineInv
<1> SUFFICES ASSUME Init
             PROVE  LineInv
  OBVIOUS
<1>1. Len(queue) = 0 /\ \A c \in Cmds : pc[c] = "new"
  BY DEF Init
<1>2. QueueHoldsWaiting
  BY <1>1 DEF QueueHoldsWaiting
<1>3. StopsAreStops
  BY <1>1 DEF StopsAreStops, StopSteps
<1>4. OneInHand
  BY <1>1 DEF Init, OneInHand, StartedSteps
<1>5. QED
  BY <1>2, <1>3, <1>4, TypeInit DEF LineInv

LEMMA LineStep == LineInv /\ [Next]_vars => LineInv'
BY TypeStep, QueueStep, KindStep, HandStep DEF LineInv

LEMMA LineCorrect == Spec => []LineInv
BY LineInit, LineStep, PTL DEF Spec

(* No accepted command is lost, queued twice or in hand beside another,    *)
(* although a stop clears the busy flag that is meant to ensure it.        *)
THEOREM LineIsOne == Spec => []OneLine
<1>1. LineInv => OneLine
  BY DEF LineInv, OneLine
<1>2. QED
  BY <1>1, LineCorrect, PTL

-----------------------------------------------------------------------------
(* The command in the loop's hand is a queued command on its way through   *)
(* process(), an accepted command never comes before the queue again, and an executed *)
(* one is on its way out.                                                  *)

HandInProcess ==
  cur # None => ~IsStop(cur) /\ pc[cur] \in {"popped", "ttlRechecked", "finish"} \union StartedSteps

AcceptedPast == \A c \in accepted : pc[c] \notin {"new", "arrived", "handling", "ttlChecked", "checked"}

ExecutedPast == \A c \in executed : pc[c] \in {"finish", "done"}

LEMMA OldestWaits ==
  ASSUME LineInv, queue # <<>>
  PROVE  Head(queue) \in Cmds /\ pc[Head(queue)] = "queued" /\ ~IsStop(Head(queue))
<1>1. Len(queue) \in Nat \ {0} /\ Head(queue) = queue[1] /\ queue[1] \in Cmds
  BY DEF LineInv, TypeOK
<1>2. pc[queue[1]] = "queued"
  BY <1>1 DEF LineInv, QueueHoldsWaiting
<1>3. QED
  BY <1>1, <1>2 DEF LineInv, StopsAreStops

LEMMA PastStep ==
  LineInv /\ HandInProcess /\ AcceptedPast /\ ExecutedPast /\ [Next]_vars
    => HandInProcess' /\ AcceptedPast' /\ ExecutedPast'
<1> SUFFICES ASSUME LineInv, HandInProcess, AcceptedPast, ExecutedPast, [Next]_vars
             PROVE  HandInProcess' /\ AcceptedPast' /\ ExecutedPast'
  OBVIOUS
<1> USE DEF LineInv, TypeOK, StartedSteps, StopSteps, IsStop, AcceptedPast, ExecutedPast, StopsAreStops
<1>1. ASSUME NEW c \in Cmds, NEW k \in KindsSent, Arrive(c, k)
      PROVE  HandInProcess' /\ AcceptedPast' /\ ExecutedPast'
  BY <1>1 DEF Arrive, Go, HandInProcess
<1>2. ASSUME NEW c \in Cmds, Expire(c)
      PROVE  HandInProcess' /\ AcceptedPast' /\ ExecutedPast'
  BY <1>2 DEF Expire, HandInProcess
<1>3. ASSUME NEW b \in BOOLEAN, UpdateObstacle(b)
      PROVE  HandInProcess' /\ AcceptedPast' /\ ExecutedPast'
  BY <1>3 DEF UpdateObstacle, HandInProcess
<1>4. ASSUME OperatorReset
      PROVE  HandInProcess' /\ AcceptedPast' /\ ExecutedPast'
  BY <1>4 DEF OperatorReset, HandInProcess
<1>5. ASSUME ModuleStart
      PROVE  HandInProcess' /\ AcceptedPast' /\ ExecutedPast'
  BY <1>5 DEF ModuleStart, HandInProcess
<1>6. ASSUME ModuleStop
      PROVE  HandInProcess' /\ AcceptedPast' /\ ExecutedPast'
  BY <1>6 DEF ModuleStop, FlushQueue, HandInProcess
<1>7. ASSUME NEW c \in Cmds, Dispatch(c)
      PROVE  HandInProcess' /\ AcceptedPast' /\ ExecutedPast'
  BY <1>7 DEF Dispatch, Go, HandInProcess
<1>8. ASSUME NEW c \in Cmds, CheckTtl(c) \/ CheckSafety(c)
      PROVE  HandInProcess' /\ AcceptedPast' /\ ExecutedPast'
  BY <1>8 DEF CheckTtl, CheckSafety, Go, HandInProcess
<1>9. ASSUME NEW c \in Cmds, AppendToQueue(c)
      PROVE  HandInProcess' /\ AcceptedPast' /\ ExecutedPast'
  BY <1>9 DEF AppendToQueue, Go, HandInProcess
<1>10. ASSUME NEW c \in Cmds, StopTrigger(c)
       PROVE  HandInProcess' /\ AcceptedPast' /\ ExecutedPast'
  BY <1>10 DEF StopTrigger, Go, HandInProcess
<1>11. ASSUME NEW c \in Cmds, StopClear(c)
       PROVE  HandInProcess' /\ AcceptedPast' /\ ExecutedPast'
  BY <1>11, StopStepTypes DEF StopClear, HandInProcess
<1>11b. ASSUME NEW c \in Cmds, StopExecute(c)
        PROVE  HandInProcess' /\ AcceptedPast' /\ ExecutedPast'
  BY <1>11b, StopStepTypes DEF StopExecute, Go, HandInProcess
<1>12. ASSUME NEW c \in Cmds, StopIdle(c)
       PROVE  HandInProcess' /\ AcceptedPast' /\ ExecutedPast'
  BY <1>12 DEF StopIdle, Go, HandInProcess
<1>13. ASSUME Pop
       PROVE  HandInProcess' /\ AcceptedPast' /\ ExecutedPast'
  BY <1>13, OldestWaits DEF Pop, HandInProcess
<1>14. ASSUME LeaveProcess
       PROVE  HandInProcess' /\ AcceptedPast' /\ ExecutedPast'
  BY <1>14 DEF LeaveProcess, HandInProcess
<1>15. ASSUME NEW c \in Cmds, RecheckTtl(c) \/ RecheckSafety(c)
       PROVE  HandInProcess' /\ AcceptedPast' /\ ExecutedPast'
  BY <1>15 DEF RecheckTtl, RecheckSafety, Go, HandInProcess
<1>16. ASSUME NEW c \in Cmds, Execute(c)
       PROVE  HandInProcess' /\ AcceptedPast' /\ ExecutedPast'
  BY <1>16 DEF Execute, Go, HandInProcess
<1>17. ASSUME NEW c \in Cmds, FinishOne(c)
       PROVE  HandInProcess' /\ AcceptedPast' /\ ExecutedPast'
  BY <1>17 DEF FinishOne, Go, HandInProcess, OneInHand
<1>18. ASSUME NEW c \in Cmds, SetMode(c)
       PROVE  HandInProcess' /\ AcceptedPast' /\ ExecutedPast'
  BY <1>18 DEF SetMode, Go, HandInProcess
<1>19. ASSUME NEW c \in Cmds, NEW op \in Operations, NEW ok \in BOOLEAN, SkillReturns(c, op, ok)
       PROVE  HandInProcess' /\ AcceptedPast' /\ ExecutedPast'
  BY <1>19, StopStepTypes DEF SkillReturns, Resume, Go, HandInProcess
<1>20. ASSUME NEW c \in Cmds, NEW op \in Operations, SkillTimeout(c, op)
       PROVE  HandInProcess' /\ AcceptedPast' /\ ExecutedPast'
  BY <1>20, StopStepTypes DEF SkillTimeout, Resume, Go, HandInProcess
<1>21. ASSUME NEW c \in Cmds, NEW op \in Operations, NEW ok \in BOOLEAN, LateReturn(c, op, ok)
       PROVE  HandInProcess' /\ AcceptedPast' /\ ExecutedPast'
  BY <1>21 DEF LateReturn, HandInProcess
<1>22. ASSUME NEW d \in Drainers, DrainerTrigger(d)
       PROVE  HandInProcess' /\ AcceptedPast' /\ ExecutedPast'
  BY <1>22 DEF DrainerTrigger, HandInProcess
<1>23. ASSUME NEW d \in Drainers, Drain(d)
       PROVE  HandInProcess' /\ AcceptedPast' /\ ExecutedPast'
  BY <1>23 DEF Drain, FlushQueue, HandInProcess
<1>24. CASE UNCHANGED vars
  BY <1>24 DEF vars, HandInProcess
<1>25. QED
  BY <1>1, <1>2, <1>3, <1>4, <1>5, <1>6, <1>7, <1>8, <1>9, <1>10, <1>11, <1>11b, <1>12, <1>13, <1>14,
     <1>15, <1>16, <1>17, <1>18, <1>19, <1>20, <1>21, <1>22, <1>23, <1>24
     DEF Next, Environment, Handler, Loop

PathInv == LineInv /\ HandInProcess /\ AcceptedPast /\ ExecutedPast

LEMMA PathInit == Init => PathInv
BY LineInit DEF Init, PathInv, HandInProcess, AcceptedPast, ExecutedPast

LEMMA PathStep == PathInv /\ [Next]_vars => PathInv'
BY LineStep, PastStep DEF PathInv

-----------------------------------------------------------------------------
(* What came up against a command after its second check.                  *)

WindowKnown ==
  \A c \in Cmds :
    /\ pc[c] = "cleared" /\ (c \in expired \/ obstacle \/ estop) => c \in overtaken
    /\ pc[c] = "ttlRechecked" /\ c \in expired => c \in overtaken

LEMMA SameWindow ==
  ASSUME WindowKnown, UNCHANGED <<expired, obstacle, overtaken>>, estop' => estop,
         \A c \in Cmds : pc'[c] \in {"cleared", "ttlRechecked"} => pc'[c] = pc[c]
  PROVE  WindowKnown'
BY DEF WindowKnown

(* The latch goes on: who is in the window is overtaken by it.             *)
LEMMA LatchWindow ==
  ASSUME TypeOK, WindowKnown, Latch, expired' = expired,
         \A c \in Cmds : pc'[c] \in {"cleared", "ttlRechecked"} => pc'[c] = pc[c]
  PROVE  WindowKnown'
<1>1. obstacle' = obstacle
  BY DEF Latch, TriggerEstop
<1>2. CASE estop
  BY <1>1, <1>2 DEF WindowKnown, Latch
<1>3. CASE ~estop
  <2>1. overtaken' = overtaken \union {c \in Cmds : pc[c] = "cleared"}
    BY <1>3 DEF Latch, InWindow
  <2>2. QED
    BY <1>1, <2>1 DEF WindowKnown
<1>4. QED
  BY <1>2, <1>3

LEMMA ResumeWindow ==
  ASSUME TypeOK, NEW c \in Cmds, NEW ok \in BOOLEAN, NEW alive, Resume(c, ok, alive)
  PROVE  \A d \in Cmds : pc'[d] \in {"cleared", "ttlRechecked"} => pc'[d] = pc[d]
BY StopStepTypes DEF Resume, Go, TypeOK

LEMMA WindowStep == TypeOK /\ WindowKnown /\ [Next]_vars => WindowKnown'
<1> SUFFICES ASSUME TypeOK, WindowKnown, [Next]_vars
             PROVE  WindowKnown'
  OBVIOUS
<1>1. ASSUME NEW c \in Cmds, NEW k \in KindsSent, Arrive(c, k)
      PROVE  WindowKnown'
  BY <1>1, SameWindow DEF Arrive, Go, TypeOK
<1>2. ASSUME NEW c \in Cmds, Expire(c)
      PROVE  WindowKnown'
  <2>1. /\ expired' = expired \union {c}
        /\ overtaken' = IF c \notin expired /\ pc[c] \in {"ttlRechecked", "cleared"}
                        THEN overtaken \union {c} ELSE overtaken
        /\ UNCHANGED <<pc, obstacle, estop>>
    BY <1>2 DEF Expire
  <2>2. QED
    BY <2>1 DEF WindowKnown
<1>3. ASSUME NEW b \in BOOLEAN, UpdateObstacle(b)
      PROVE  WindowKnown'
  <2>1. /\ obstacle' = (b \/ FALSE)
        /\ overtaken' = IF b /\ ~obstacle THEN overtaken \union {c \in Cmds : pc[c] = "cleared"}
                        ELSE overtaken
        /\ UNCHANGED <<pc, expired, estop>>
    BY <1>3 DEF UpdateObstacle, SetObstacle, InWindow
  <2>2. CASE b /\ ~obstacle
    BY <2>1, <2>2 DEF WindowKnown
  <2>3. CASE ~(b /\ ~obstacle)
    BY <2>1, <2>3 DEF WindowKnown
  <2>4. QED
    BY <2>2, <2>3
<1>4. ASSUME OperatorReset
      PROVE  WindowKnown'
  BY <1>4, SameWindow DEF OperatorReset, ResetEstop
<1>5. ASSUME ModuleStart
      PROVE  WindowKnown'
  BY <1>5, SameWindow DEF ModuleStart
<1>6. ASSUME ModuleStop
      PROVE  WindowKnown'
  BY <1>6, SameWindow DEF ModuleStop, FlushQueue
<1>7. ASSUME NEW c \in Cmds, Dispatch(c)
      PROVE  WindowKnown'
  BY <1>7, SameWindow DEF Dispatch, Go, TypeOK
<1>8. ASSUME NEW c \in Cmds, CheckTtl(c) \/ CheckSafety(c)
      PROVE  WindowKnown'
  BY <1>8, SameWindow DEF CheckTtl, CheckSafety, Go, TypeOK
<1>9. ASSUME NEW c \in Cmds, AppendToQueue(c)
      PROVE  WindowKnown'
  BY <1>9, SameWindow DEF AppendToQueue, Go, TypeOK
<1>10. ASSUME NEW c \in Cmds, StopTrigger(c)
       PROVE  WindowKnown'
  BY <1>10, LatchWindow DEF StopTrigger, Go, TypeOK
<1>11. ASSUME NEW c \in Cmds, StopClear(c)
       PROVE  WindowKnown'
  BY <1>11, SameWindow DEF StopClear
<1>11b. ASSUME NEW c \in Cmds, StopExecute(c)
        PROVE  WindowKnown'
  BY <1>11b, SameWindow, StopStepTypes DEF StopExecute, Go, TypeOK
<1>12. ASSUME NEW c \in Cmds, StopIdle(c)
       PROVE  WindowKnown'
  BY <1>12, SameWindow DEF StopIdle, Go, TypeOK
<1>13. ASSUME Pop
       PROVE  WindowKnown'
  BY <1>13, SameWindow DEF Pop, TypeOK
<1>14. ASSUME LeaveProcess
       PROVE  WindowKnown'
  BY <1>14, SameWindow DEF LeaveProcess
<1>15. ASSUME NEW c \in Cmds, RecheckTtl(c)
       PROVE  WindowKnown'
  <2>1. /\ pc[c] = "popped" /\ UNCHANGED <<expired, obstacle, estop, overtaken>>
        /\ pc' = [pc EXCEPT ![c] = IF c \notin expired THEN "ttlRechecked" ELSE "finish"]
    BY <1>15 DEF RecheckTtl, Go
  <2>2. QED
    BY <2>1 DEF WindowKnown, TypeOK
<1>15b. ASSUME NEW c \in Cmds, RecheckSafety(c)
        PROVE  WindowKnown'
  <2>1. /\ pc[c] = "ttlRechecked" /\ UNCHANGED <<expired, obstacle, estop, overtaken>>
        /\ pc' = [pc EXCEPT ![c] = IF ~estop /\ ~obstacle THEN "cleared" ELSE "finish"]
    BY <1>15b DEF RecheckSafety, Go, CanAcceptCommand
  <2>2. QED
    BY <2>1 DEF WindowKnown, TypeOK
<1>16. ASSUME NEW c \in Cmds, Execute(c)
       PROVE  WindowKnown'
  BY <1>16, SameWindow DEF Execute, Go, TypeOK
<1>17. ASSUME NEW c \in Cmds, FinishOne(c)
       PROVE  WindowKnown'
  BY <1>17, SameWindow DEF FinishOne, Go, TypeOK
<1>18. ASSUME NEW c \in Cmds, SetMode(c)
       PROVE  WindowKnown'
  BY <1>18, SameWindow DEF SetMode, Go, TypeOK
<1>19. ASSUME NEW c \in Cmds, NEW op \in Operations, NEW ok \in BOOLEAN, SkillReturns(c, op, ok)
       PROVE  WindowKnown'
  BY <1>19, SameWindow, ResumeWindow DEF SkillReturns
<1>20. ASSUME NEW c \in Cmds, NEW op \in Operations, SkillTimeout(c, op)
       PROVE  WindowKnown'
  BY <1>20, SameWindow, ResumeWindow DEF SkillTimeout
<1>21. ASSUME NEW c \in Cmds, NEW op \in Operations, NEW ok \in BOOLEAN, LateReturn(c, op, ok)
       PROVE  WindowKnown'
  BY <1>21, SameWindow DEF LateReturn
<1>22. ASSUME NEW d \in Drainers, DrainerTrigger(d)
       PROVE  WindowKnown'
  BY <1>22, LatchWindow DEF DrainerTrigger
<1>23. ASSUME NEW d \in Drainers, Drain(d)
       PROVE  WindowKnown'
  BY <1>23, SameWindow DEF Drain, FlushQueue
<1>24. CASE UNCHANGED vars
  BY <1>24, SameWindow DEF vars
<1>25. QED
  BY <1>1, <1>2, <1>3, <1>4, <1>5, <1>6, <1>7, <1>8, <1>9, <1>10, <1>11, <1>11b, <1>12, <1>13,
     <1>14, <1>15, <1>15b, <1>16, <1>17, <1>18, <1>19, <1>20, <1>21, <1>22, <1>23, <1>24
     DEF Next, Environment, Handler, Loop

(* A skill call of a queued command is begun in the window and nowhere     *)
(* else: a mission.stop alone calls a skill when another call ends.        *)
BegunInWindow ==
  \A c \in Cmds, op \in Operations : ~IsStop(c) /\ <<c, op>> \in calls' \ calls => pc[c] = "cleared"

LEMMA ResumeBegins ==
  ASSUME StopsAreStops, NEW c \in Cmds, NEW ok \in BOOLEAN, NEW alive, alive \subseteq calls,
         Resume(c, ok, alive)
  PROVE  BegunInWindow
BY DEF Resume, CallsAt, StopsAreStops, StopSteps, BegunInWindow

LEMMA BeginStep == StopsAreStops /\ [Next]_vars => BegunInWindow
<1> SUFFICES ASSUME StopsAreStops, [Next]_vars
             PROVE  BegunInWindow
  OBVIOUS
<1>1. ASSUME NEW c \in Cmds, Execute(c)
      PROVE  BegunInWindow
  BY <1>1 DEF Execute, Go, BegunInWindow
<1>2. ASSUME NEW c \in Cmds, StopExecute(c)
      PROVE  BegunInWindow
  BY <1>2 DEF StopExecute, Go, CallsAt, StopsAreStops, StopSteps, BegunInWindow
<1>3. ASSUME NEW c \in Cmds, NEW op \in Operations, NEW ok \in BOOLEAN, SkillReturns(c, op, ok)
      PROVE  BegunInWindow
  BY <1>3, ResumeBegins DEF SkillReturns
<1>4. ASSUME NEW c \in Cmds, NEW op \in Operations, SkillTimeout(c, op)
      PROVE  BegunInWindow
  BY <1>4, ResumeBegins DEF SkillTimeout
<1>5. ASSUME NEW c \in Cmds, NEW op \in Operations, NEW ok \in BOOLEAN, LateReturn(c, op, ok)
      PROVE  BegunInWindow
  BY <1>5 DEF LateReturn, BegunInWindow
<1>6. ASSUME calls' = calls
      PROVE  BegunInWindow
  BY <1>6 DEF BegunInWindow
<1>7. CASE Environment \/ Pop \/ LeaveProcess \/ (\E c \in Cmds : Dispatch(c)) \/ UNCHANGED vars
  BY <1>6, <1>7 DEF Environment, Arrive, Expire, UpdateObstacle, OperatorReset, ModuleStart,
     ModuleStop, Pop, LeaveProcess, Dispatch, vars
<1>8. ASSUME NEW c \in Cmds,
             \/ CheckTtl(c) \/ CheckSafety(c) \/ AppendToQueue(c) \/ StopTrigger(c) \/ StopClear(c)
             \/ StopIdle(c) \/ RecheckTtl(c) \/ RecheckSafety(c) \/ FinishOne(c) \/ SetMode(c)
      PROVE  BegunInWindow
  BY <1>6, <1>8 DEF CheckTtl, CheckSafety, AppendToQueue, StopTrigger, StopClear, StopIdle,
     RecheckTtl, RecheckSafety, FinishOne, SetMode
<1>9. ASSUME NEW d \in Drainers, DrainerTrigger(d) \/ Drain(d)
      PROVE  BegunInWindow
  BY <1>6, <1>9 DEF DrainerTrigger, Drain
<1>10. QED
  BY <1>1, <1>2, <1>3, <1>4, <1>5, <1>7, <1>8, <1>9 DEF Next, Handler, Loop

SlipIsOne ==
  \A c \in Cmds, op \in Operations :
    ~IsStop(c) /\ <<c, op>> \in calls' \ calls /\ Refused(c)
      => /\ c \in overtaken
         /\ \A d \in Cmds \ {c} : ~IsStop(d) => pc[d] \notin {"popped", "ttlRechecked", "cleared"}

LEMMA SlipStep == LineInv /\ WindowKnown /\ [Next]_vars => SlipIsOne
<1> SUFFICES ASSUME LineInv, WindowKnown, [Next]_vars,
                    NEW c \in Cmds, NEW op \in Operations,
                    ~IsStop(c), <<c, op>> \in calls' \ calls, Refused(c)
             PROVE  /\ c \in overtaken
                    /\ \A d \in Cmds \ {c} :
                         ~IsStop(d) => pc[d] \notin {"popped", "ttlRechecked", "cleared"}
  BY DEF SlipIsOne
<1>1. pc[c] = "cleared"
  BY BeginStep DEF LineInv, BegunInWindow
<1>2. c \in overtaken
  BY <1>1 DEF WindowKnown, Refused, CanAcceptCommand
<1>3. cur = c
  BY <1>1 DEF LineInv, OneInHand, StartedSteps
<1>4. QED
  BY <1>2, <1>3 DEF LineInv, OneInHand, StartedSteps

(* Between its second check and its skill call at most one command is      *)
(* overtaken by its TTL, an obstacle or the stop, and it was past that     *)
(* check when they came up.                                                *)
THEOREM OneSlips == Spec => OneSlipsThrough
<1>1. Init => WindowKnown
  BY DEF Init, WindowKnown
<1>2. LineInv /\ WindowKnown /\ [Next]_vars => WindowKnown'
  BY WindowStep DEF LineInv
<1>3. LineInv /\ WindowKnown /\ [Next]_vars => [SlipIsOne]_vars
  BY SlipStep
<1>4. Spec => [][SlipIsOne]_vars
  BY <1>1, <1>2, <1>3, LineCorrect, PTL DEF Spec
<1>5. QED
  BY <1>4 DEF OneSlipsThrough, SlipIsOne

-----------------------------------------------------------------------------
(* Only registered skills are called, and they alone move the robot.       *)

OnlyRegistered ==
  /\ \A c \in Cmds, op \in Operations : <<c, op>> \in calls => IsRegistered(op)
  /\ \A c \in Cmds : pc[c] = "stopNav" => "navigation" \in Registered
  /\ active["follow"] # None => "follow" \in Registered
  /\ active["scan"] # None => "explorer" \in Registered

LEMMA EffectFacts ==
  ASSUME TypeOK, NEW c \in Cmds, NEW op \in Operations
  PROVE  /\ Effect(c, op)["follow"] \in {active["follow"], None}
              \/ (op = "follow_person" /\ Effect(c, op)["follow"] = c)
         /\ Effect(c, op)["scan"] \in {active["scan"], None}
              \/ (op = "start_exploration" /\ Effect(c, op)["scan"] = c)
         /\ op \in {"stop_navigation", "stop_all"} => Effect(c, op)["follow"] = None
         /\ op = "stop_all" => Effect(c, op)["scan"] = None
<1>1. active \in [{"follow", "scan"} -> Cmds \union {None}]
  BY DEF TypeOK, ExecutorTypeOK, Behaviours
<1>2. CASE op = "follow_person"
  <2>1. Effect(c, op) = [active EXCEPT !["follow"] = c]
    BY <1>2 DEF Effect
  <2>2. QED
    BY <1>1, <1>2, <2>1
<1>3. CASE op = "start_exploration"
  <2>1. Effect(c, op) = [active EXCEPT !["scan"] = c]
    BY <1>3 DEF Effect
  <2>2. QED
    BY <1>1, <1>3, <2>1
<1>4. CASE op = "stop_navigation"
  <2>1. Effect(c, op) = [active EXCEPT !["follow"] = None]
    BY <1>4 DEF Effect
  <2>2. QED
    BY <1>1, <1>4, <2>1
<1>5. CASE op = "stop_all"
  <2>1. Effect(c, op) = [b \in {"follow", "scan"} |-> None]
    BY <1>5 DEF Effect, Behaviours
  <2>2. QED
    BY <1>1, <1>5, <2>1
<1>6. QED
  BY <1>2, <1>3, <1>4, <1>5 DEF Operations

LEMMA EffectRegistered ==
  ASSUME TypeOK, OnlyRegistered, NEW c \in Cmds, NEW op \in Operations, <<c, op>> \in calls
  PROVE  /\ Effect(c, op)["follow"] # None => "follow" \in Registered
         /\ Effect(c, op)["scan"] # None => "explorer" \in Registered
BY EffectFacts DEF OnlyRegistered, IsRegistered, SkillOf

LEMMA ResumeRegistered ==
  ASSUME TypeOK, OnlyRegistered, NEW c \in Cmds, NEW ok \in BOOLEAN,
         NEW alive, alive \subseteq calls, Resume(c, ok, alive)
  PROVE  /\ \A d \in Cmds, op \in Operations : <<d, op>> \in calls' => IsRegistered(op)
         /\ \A d \in Cmds : pc'[d] = "stopNav" => "navigation" \in Registered
BY DEF Resume, Go, StopStepAfter, CallsAt, OnlyRegistered, IsRegistered, SkillOf, TypeOK

LEMMA RegisteredStep == TypeOK /\ OnlyRegistered /\ [Next]_vars => OnlyRegistered'
<1> SUFFICES ASSUME TypeOK, OnlyRegistered, [Next]_vars
             PROVE  OnlyRegistered'
  OBVIOUS
<1>1. ASSUME NEW c \in Cmds, NEW k \in KindsSent, Arrive(c, k)
      PROVE  OnlyRegistered'
  BY <1>1 DEF Arrive, Go, OnlyRegistered, TypeOK
<1>2. ASSUME NEW c \in Cmds, Expire(c)
      PROVE  OnlyRegistered'
  BY <1>2 DEF Expire, OnlyRegistered
<1>3. ASSUME NEW b \in BOOLEAN, UpdateObstacle(b)
      PROVE  OnlyRegistered'
  BY <1>3 DEF UpdateObstacle, OnlyRegistered
<1>4. ASSUME OperatorReset
      PROVE  OnlyRegistered'
  BY <1>4 DEF OperatorReset, OnlyRegistered
<1>5. ASSUME ModuleStart
      PROVE  OnlyRegistered'
  BY <1>5 DEF ModuleStart, OnlyRegistered
<1>6. ASSUME ModuleStop
      PROVE  OnlyRegistered'
  BY <1>6 DEF ModuleStop, FlushQueue, OnlyRegistered, TypeOK
<1>7. ASSUME NEW c \in Cmds, Dispatch(c)
      PROVE  OnlyRegistered'
  BY <1>7 DEF Dispatch, Go, OnlyRegistered, TypeOK
<1>8. ASSUME NEW c \in Cmds, CheckTtl(c) \/ CheckSafety(c)
      PROVE  OnlyRegistered'
  BY <1>8 DEF CheckTtl, CheckSafety, Go, OnlyRegistered, TypeOK
<1>9. ASSUME NEW c \in Cmds, AppendToQueue(c)
      PROVE  OnlyRegistered'
  BY <1>9 DEF AppendToQueue, Go, OnlyRegistered, TypeOK
<1>10. ASSUME NEW c \in Cmds, StopTrigger(c)
       PROVE  OnlyRegistered'
  BY <1>10 DEF StopTrigger, Go, OnlyRegistered, TypeOK
<1>11. ASSUME NEW c \in Cmds, StopClear(c)
       PROVE  OnlyRegistered'
  BY <1>11 DEF StopClear, OnlyRegistered, StopStepAfter, CallsAt, IsRegistered, SkillOf, TypeOK
<1>11b. ASSUME NEW c \in Cmds, StopExecute(c)
        PROVE  OnlyRegistered'
  BY <1>11b DEF StopExecute, Go, OnlyRegistered, StopStepAfter, CallsAt, IsRegistered, SkillOf, TypeOK
<1>12. ASSUME NEW c \in Cmds, StopIdle(c)
       PROVE  OnlyRegistered'
  BY <1>12 DEF StopIdle, Go, OnlyRegistered, TypeOK
<1>13. ASSUME Pop
       PROVE  OnlyRegistered'
  BY <1>13 DEF Pop, OnlyRegistered, TypeOK
<1>14. ASSUME LeaveProcess
       PROVE  OnlyRegistered'
  BY <1>14 DEF LeaveProcess, OnlyRegistered
<1>15. ASSUME NEW c \in Cmds, RecheckTtl(c) \/ RecheckSafety(c)
       PROVE  OnlyRegistered'
  BY <1>15 DEF RecheckTtl, RecheckSafety, Go, OnlyRegistered, TypeOK
<1>16. ASSUME NEW c \in Cmds, Execute(c)
       PROVE  OnlyRegistered'
  BY <1>16 DEF Execute, Go, OnlyRegistered, TypeOK
<1>17. ASSUME NEW c \in Cmds, FinishOne(c)
       PROVE  OnlyRegistered'
  BY <1>17 DEF FinishOne, Go, OnlyRegistered, TypeOK
<1>18. ASSUME NEW c \in Cmds, SetMode(c)
       PROVE  OnlyRegistered'
  BY <1>18 DEF SetMode, Go, OnlyRegistered, TypeOK
<1>19. ASSUME NEW c \in Cmds, NEW op \in Operations, NEW ok \in BOOLEAN, SkillReturns(c, op, ok)
       PROVE  OnlyRegistered'
  BY <1>19, ResumeRegistered, EffectRegistered DEF SkillReturns, OnlyRegistered
<1>20. ASSUME NEW c \in Cmds, NEW op \in Operations, SkillTimeout(c, op)
       PROVE  OnlyRegistered'
  BY <1>20, ResumeRegistered DEF SkillTimeout, OnlyRegistered
<1>21. ASSUME NEW c \in Cmds, NEW op \in Operations, NEW ok \in BOOLEAN, LateReturn(c, op, ok)
       PROVE  OnlyRegistered'
  BY <1>21, EffectRegistered DEF LateReturn, OnlyRegistered
<1>22. ASSUME NEW d \in Drainers, DrainerTrigger(d)
       PROVE  OnlyRegistered'
  BY <1>22 DEF DrainerTrigger, OnlyRegistered
<1>23. ASSUME NEW d \in Drainers, Drain(d)
       PROVE  OnlyRegistered'
  BY <1>23 DEF Drain, FlushQueue, OnlyRegistered, TypeOK
<1>24. CASE UNCHANGED vars
  BY <1>24 DEF vars, OnlyRegistered
<1>25. QED
  BY <1>1, <1>2, <1>3, <1>4, <1>5, <1>6, <1>7, <1>8, <1>9, <1>10, <1>11, <1>11b, <1>12, <1>13, <1>14,
     <1>15, <1>16, <1>17, <1>18, <1>19, <1>20, <1>21, <1>22, <1>23, <1>24
     DEF Next, Environment, Handler, Loop

-----------------------------------------------------------------------------
(* While the latch is on, whoever may still start something was past the   *)
(* last check when it went on.                                             *)

InflightKnown ==
  estop =>
    /\ \A c \in Cmds : ~IsStop(c) /\ pc[c] \in StartedSteps => c \in inflight
    /\ \A c \in Cmds, op \in {"follow_person", "start_exploration"} :
         <<c, op>> \in calls => c \in inflight

LEMMA ResumeInflight ==
  ASSUME TypeOK, StopsAreStops, InflightKnown, UNCHANGED <<estop, inflight, kind>>,
         NEW c \in Cmds, NEW ok \in BOOLEAN, NEW alive, alive \subseteq calls, Resume(c, ok, alive)
  PROVE  InflightKnown'
<1>1. \A d \in Cmds, op \in {"follow_person", "start_exploration"} :
        <<d, op>> \in calls' => <<d, op>> \in calls
  BY DEF Resume, CallsAt
<1>2. \A d \in Cmds : ~IsStop(d) /\ pc'[d] \in StartedSteps => pc[d] \in StartedSteps
  BY DEF Resume, Go, StartedSteps, StopsAreStops, StopSteps, TypeOK
<1>3. QED
  BY <1>1, <1>2 DEF InflightKnown, IsStop

LEMMA InflightStep == TypeOK /\ StopsAreStops /\ InflightKnown /\ [Next]_vars => InflightKnown'
<1> SUFFICES ASSUME TypeOK, StopsAreStops, InflightKnown, [Next]_vars
             PROVE  InflightKnown'
  OBVIOUS
<1>1. ASSUME NEW c \in Cmds, NEW k \in KindsSent, Arrive(c, k)
      PROVE  InflightKnown'
  BY <1>1 DEF Arrive, Go, InflightKnown, IsStop, StopsAreStops, StartedSteps, StopSteps, TypeOK
<1>2. ASSUME NEW c \in Cmds, Expire(c)
      PROVE  InflightKnown'
  BY <1>2 DEF Expire, SetObstacle, InflightKnown, IsStop
<1>3. ASSUME NEW b \in BOOLEAN, UpdateObstacle(b)
      PROVE  InflightKnown'
  BY <1>3 DEF UpdateObstacle, SetObstacle, InflightKnown, IsStop
<1>4. ASSUME OperatorReset
      PROVE  InflightKnown'
  BY <1>4 DEF OperatorReset, ResetEstop, InflightKnown, IsStop
<1>5. ASSUME ModuleStart
      PROVE  InflightKnown'
  BY <1>5 DEF ModuleStart, SetObstacle, InflightKnown, IsStop
<1>6. ASSUME ModuleStop
      PROVE  InflightKnown'
  BY <1>6 DEF ModuleStop, FlushQueue, InflightKnown, IsStop, StartedSteps, TypeOK
<1>7. ASSUME NEW c \in Cmds, Dispatch(c)
      PROVE  InflightKnown'
  BY <1>7 DEF Dispatch, Go, InflightKnown, IsStop, StopsAreStops, StartedSteps, StopSteps, TypeOK
<1>8. ASSUME NEW c \in Cmds, CheckTtl(c) \/ CheckSafety(c)
      PROVE  InflightKnown'
  BY <1>8 DEF CheckTtl, CheckSafety, Go, InflightKnown, IsStop, StopsAreStops, StartedSteps, StopSteps, TypeOK
<1>9. ASSUME NEW c \in Cmds, AppendToQueue(c)
      PROVE  InflightKnown'
  BY <1>9 DEF AppendToQueue, Go, InflightKnown, IsStop, StopsAreStops, StartedSteps, StopSteps, TypeOK
<1>10. ASSUME NEW c \in Cmds, StopTrigger(c)
       PROVE  InflightKnown'
  <2>1. \A e \in Cmds : pc'[e] \in StartedSteps <=> pc[e] \in StartedSteps
    BY <1>10 DEF StopTrigger, Go, StartedSteps, TypeOK
  <2>2. Latch /\ UNCHANGED <<calls, kind>>
    BY <1>10 DEF StopTrigger
  <2>3. QED
    BY <2>1, <2>2 DEF Latch, InflightKnown, IsStop, Operations
<1>11. ASSUME NEW c \in Cmds, StopClear(c)
       PROVE  InflightKnown'
  BY <1>11 DEF StopClear, CallsAt, StopsAreStops, StopSteps, StartedSteps, InflightKnown, IsStop, TypeOK
<1>11b. ASSUME NEW c \in Cmds, StopExecute(c)
        PROVE  InflightKnown'
  BY <1>11b, StopStepTypes DEF StopExecute, Go, CallsAt, StopsAreStops, StopSteps, StartedSteps, InflightKnown, IsStop, TypeOK
<1>12. ASSUME NEW c \in Cmds, StopIdle(c)
       PROVE  InflightKnown'
  BY <1>12 DEF StopIdle, Go, InflightKnown, IsStop, StopsAreStops, StartedSteps, StopSteps, TypeOK
<1>13. ASSUME Pop
       PROVE  InflightKnown'
  BY <1>13 DEF Pop, InflightKnown, IsStop, StartedSteps, TypeOK
<1>14. ASSUME LeaveProcess
       PROVE  InflightKnown'
  BY <1>14 DEF LeaveProcess, SetObstacle, InflightKnown, IsStop
<1>15. ASSUME NEW c \in Cmds, RecheckTtl(c) \/ RecheckSafety(c)
       PROVE  InflightKnown'
  BY <1>15 DEF RecheckTtl, RecheckSafety, CanAcceptCommand, Go, InflightKnown, IsStop, StartedSteps, TypeOK
<1>16. ASSUME NEW c \in Cmds, Execute(c)
       PROVE  InflightKnown'
  <2>1. ~IsStop(c) /\ pc[c] \in StartedSteps
    BY <1>16 DEF Execute, Go, StopsAreStops, StartedSteps
  <2>2. \A d \in Cmds : ~IsStop(d) /\ pc'[d] \in StartedSteps => pc[d] \in StartedSteps
    BY <1>16, <2>1 DEF Execute, Go, StartedSteps, TypeOK
  <2>3. \A d \in Cmds, op \in Operations : <<d, op>> \in calls' => <<d, op>> \in calls \/ d = c
    BY <1>16 DEF Execute
  <2>4. UNCHANGED <<estop, inflight, kind>>
    BY <1>16 DEF Execute
  <2>5. QED
    BY <2>1, <2>2, <2>3, <2>4 DEF InflightKnown, IsStop, Operations
<1>17. ASSUME NEW c \in Cmds, FinishOne(c)
       PROVE  InflightKnown'
  BY <1>17 DEF FinishOne, Go, InflightKnown, IsStop, StopsAreStops, StartedSteps, StopSteps, TypeOK
<1>18. ASSUME NEW c \in Cmds, SetMode(c)
       PROVE  InflightKnown'
  BY <1>18 DEF SetMode, Go, InflightKnown, IsStop, StopsAreStops, StartedSteps, StopSteps, TypeOK
<1>19. ASSUME NEW c \in Cmds, NEW op \in Operations, NEW ok \in BOOLEAN, SkillReturns(c, op, ok)
       PROVE  InflightKnown'
  BY <1>19, ResumeInflight DEF SkillReturns
<1>20. ASSUME NEW c \in Cmds, NEW op \in Operations, SkillTimeout(c, op)
       PROVE  InflightKnown'
  BY <1>20, ResumeInflight DEF SkillTimeout
<1>21. ASSUME NEW c \in Cmds, NEW op \in Operations, NEW ok \in BOOLEAN, LateReturn(c, op, ok)
       PROVE  InflightKnown'
  BY <1>21 DEF LateReturn, InflightKnown, IsStop
<1>22. ASSUME NEW d \in Drainers, DrainerTrigger(d)
       PROVE  InflightKnown'
  <2>1. \A e \in Cmds : pc'[e] \in StartedSteps <=> pc[e] \in StartedSteps
    BY <1>22 DEF DrainerTrigger, StartedSteps, TypeOK
  <2>2. Latch /\ UNCHANGED <<calls, kind>>
    BY <1>22 DEF DrainerTrigger
  <2>3. QED
    BY <2>1, <2>2 DEF Latch, InflightKnown, IsStop, Operations
<1>23. ASSUME NEW d \in Drainers, Drain(d)
       PROVE  InflightKnown'
  BY <1>23 DEF Drain, FlushQueue, InflightKnown, IsStop, StartedSteps, TypeOK
<1>24. CASE UNCHANGED vars
  BY <1>24 DEF vars, InflightKnown, IsStop
<1>25. QED
  BY <1>1, <1>2, <1>3, <1>4, <1>5, <1>6, <1>7, <1>8, <1>9, <1>10, <1>11, <1>11b, <1>12, <1>13, <1>14,
     <1>15, <1>16, <1>17, <1>18, <1>19, <1>20, <1>21, <1>22, <1>23, <1>24
     DEF Next, Environment, Handler, Loop

-----------------------------------------------------------------------------
(* From its first step until an operator resets it, a mission.stop keeps   *)
(* the latch on.                                                           *)

Stopping(c) == IsStop(c) /\ pc[c] \in StopSteps \union {"succeeded"}

StopLatched ==
  /\ \A c \in standing : estop /\ IsStop(c) /\ pc[c] \in StopSteps \union {"succeeded", "done"}
  /\ resets = 0 => \A c \in Cmds : Stopping(c) => c \in standing

LEMMA ResumeLatched ==
  ASSUME TypeOK, StopsAreStops, StopLatched, UNCHANGED <<estop, standing, resets, kind>>,
         NEW c \in Cmds, NEW ok \in BOOLEAN, NEW alive, Resume(c, ok, alive)
  PROVE  StopLatched'
BY StopStepTypes DEF Resume, Go, StopLatched, Stopping, IsStop, StopsAreStops, StopSteps, TypeOK

LEMMA LatchedStep == LineInv /\ StopLatched /\ [Next]_vars => StopLatched'
<1> SUFFICES ASSUME LineInv, TypeOK, StopsAreStops, StopLatched, [Next]_vars
             PROVE  StopLatched'
  BY DEF LineInv
<1>1. ASSUME NEW c \in Cmds, NEW k \in KindsSent, Arrive(c, k)
      PROVE  StopLatched'
  BY <1>1 DEF Arrive, Go, StopLatched, Stopping, IsStop, StopsAreStops, StopSteps, TypeOK
<1>2. ASSUME NEW c \in Cmds, Expire(c)
      PROVE  StopLatched'
  BY <1>2 DEF Expire, SetObstacle, StopLatched, Stopping, IsStop
<1>3. ASSUME NEW b \in BOOLEAN, UpdateObstacle(b)
      PROVE  StopLatched'
  BY <1>3 DEF UpdateObstacle, SetObstacle, StopLatched, Stopping, IsStop
<1>4. ASSUME OperatorReset
      PROVE  StopLatched'
  BY <1>4 DEF OperatorReset, ResetEstop, StopLatched, Stopping, IsStop, TypeOK
<1>5. ASSUME ModuleStart
      PROVE  StopLatched'
  BY <1>5 DEF ModuleStart, SetObstacle, StopLatched, Stopping, IsStop
<1>6. ASSUME ModuleStop
      PROVE  StopLatched'
  BY <1>6 DEF ModuleStop, FlushQueue, StopLatched, Stopping, IsStop, StopSteps, TypeOK
<1>7. ASSUME NEW c \in Cmds, Dispatch(c)
      PROVE  StopLatched'
  BY <1>7 DEF Dispatch, Go, StopLatched, Stopping, IsStop, StopsAreStops, StopSteps, TypeOK
<1>8. ASSUME NEW c \in Cmds, CheckTtl(c) \/ CheckSafety(c)
      PROVE  StopLatched'
  BY <1>8 DEF CheckTtl, CheckSafety, Go, StopLatched, Stopping, IsStop, StopsAreStops, StopSteps, TypeOK
<1>9. ASSUME NEW c \in Cmds, AppendToQueue(c)
      PROVE  StopLatched'
  BY <1>9 DEF AppendToQueue, Go, StopLatched, Stopping, IsStop, StopsAreStops, StopSteps, TypeOK
<1>10. ASSUME NEW c \in Cmds, StopTrigger(c)
       PROVE  StopLatched'
  BY <1>10, LatchTypes DEF StopTrigger, Go, StopLatched, Stopping, IsStop, StopSteps, TypeOK
<1>11. ASSUME NEW c \in Cmds, StopClear(c)
       PROVE  StopLatched'
  BY <1>11 DEF StopClear, StopsAreStops, StopLatched, Stopping, IsStop, StopSteps, TypeOK
<1>11b. ASSUME NEW c \in Cmds, StopExecute(c)
        PROVE  StopLatched'
  BY <1>11b, StopStepTypes DEF StopExecute, Go, StopLatched, Stopping, IsStop, StopSteps, TypeOK
<1>12. ASSUME NEW c \in Cmds, StopIdle(c)
       PROVE  StopLatched'
  BY <1>12 DEF StopIdle, Go, StopLatched, Stopping, IsStop, StopsAreStops, StopSteps, TypeOK
<1>13. ASSUME Pop
       PROVE  StopLatched'
  BY <1>13, OldestWaits DEF Pop, StopLatched, Stopping, IsStop, StopSteps, TypeOK
<1>14. ASSUME LeaveProcess
       PROVE  StopLatched'
  BY <1>14 DEF LeaveProcess, SetObstacle, StopLatched, Stopping, IsStop
<1>15. ASSUME NEW c \in Cmds, RecheckTtl(c) \/ RecheckSafety(c)
       PROVE  StopLatched'
  BY <1>15 DEF RecheckTtl, RecheckSafety, Go, StopLatched, Stopping, IsStop, StopsAreStops, StopSteps, TypeOK
<1>16. ASSUME NEW c \in Cmds, Execute(c)
       PROVE  StopLatched'
  BY <1>16 DEF Execute, Go, StopLatched, Stopping, IsStop, StopsAreStops, StopSteps, TypeOK
<1>17. ASSUME NEW c \in Cmds, FinishOne(c)
       PROVE  StopLatched'
  BY <1>17 DEF FinishOne, Go, StopLatched, Stopping, IsStop, StopsAreStops, StopSteps, TypeOK
<1>18. ASSUME NEW c \in Cmds, SetMode(c)
       PROVE  StopLatched'
  BY <1>18 DEF SetMode, Go, StopLatched, Stopping, IsStop, StopsAreStops, StopSteps, TypeOK
<1>19. ASSUME NEW c \in Cmds, NEW op \in Operations, NEW ok \in BOOLEAN, SkillReturns(c, op, ok)
       PROVE  StopLatched'
  BY <1>19, ResumeLatched DEF SkillReturns
<1>20. ASSUME NEW c \in Cmds, NEW op \in Operations, SkillTimeout(c, op)
       PROVE  StopLatched'
  BY <1>20, ResumeLatched DEF SkillTimeout
<1>21. ASSUME NEW c \in Cmds, NEW op \in Operations, NEW ok \in BOOLEAN, LateReturn(c, op, ok)
       PROVE  StopLatched'
  BY <1>21 DEF LateReturn, SetObstacle, StopLatched, Stopping, IsStop
<1>22. ASSUME NEW d \in Drainers, DrainerTrigger(d)
       PROVE  StopLatched'
  BY <1>22, LatchTypes DEF DrainerTrigger, StopLatched, Stopping, IsStop
<1>23. ASSUME NEW d \in Drainers, Drain(d)
       PROVE  StopLatched'
  BY <1>23 DEF Drain, FlushQueue, StopLatched, Stopping, IsStop, StopSteps, TypeOK
<1>24. CASE UNCHANGED vars
  BY <1>24 DEF vars, StopLatched, Stopping, IsStop
<1>25. QED
  BY <1>1, <1>2, <1>3, <1>4, <1>5, <1>6, <1>7, <1>8, <1>9, <1>10, <1>11, <1>11b, <1>12, <1>13, <1>14,
     <1>15, <1>16, <1>17, <1>18, <1>19, <1>20, <1>21, <1>22, <1>23, <1>24
     DEF Next, Environment, Handler, Loop

-----------------------------------------------------------------------------
(* Once a mission.stop has had its skill calls, nothing started since the  *)
(* latch went on is still active. This needs a skill that can stop what    *)
(* the follow skill started: with follow alone registered, a mission.stop  *)
(* finds no skill to call and counts that as success.                      *)

Stoppable == "follow" \in Registered => {"navigation", "explorer"} \intersect Registered # {}

HasStopped(c) ==
  /\ c \in standing
  /\ \/ pc[c] = "stopIdle" /\ c \notin failed
     \/ pc[c] = "succeeded"
     \/ c \in executed

StopHappened == \E c \in Cmds : HasStopped(c)

Halted ==
  /\ active["follow"] \in inflight \union {None}
  /\ active["scan"] \in inflight \union {None}

StopHalts == StopHappened => Halted

LEMMA SameHalt ==
  ASSUME StopHalts, UNCHANGED <<active, inflight>>,
         \A c \in Cmds : HasStopped(c)' => HasStopped(c)
  PROVE  StopHalts'
BY DEF StopHalts, StopHappened, Halted

LEMMA HappenedLatched ==
  ASSUME StopLatched, StopHappened
  PROVE  estop
BY DEF StopLatched, StopHappened, HasStopped

(* Under the latch a returning skill call adds nobody from outside         *)
(* inflight.                                                               *)
LEMMA EffectKeepsHalt ==
  ASSUME TypeOK, InflightKnown, estop, Halted, inflight' = inflight,
         NEW c \in Cmds, NEW op \in Operations, NEW ok \in BOOLEAN, <<c, op>> \in calls,
         active' = IF ok THEN Effect(c, op) ELSE active
  PROVE  Halted'
<1>1. op \in {"follow_person", "start_exploration"} => c \in inflight
  BY DEF InflightKnown
<1>2. CASE ok
  BY <1>1, <1>2, EffectFacts DEF Halted
<1>3. CASE ~ok
  BY <1>3 DEF Halted
<1>4. QED
  BY <1>2, <1>3

(* A call's end makes its own caller a stop that has happened, and only    *)
(* when it returned in time.                                               *)
LEMMA ResumeHalts ==
  ASSUME TypeOK, StopsAreStops, StopLatched, UNCHANGED <<kind, standing, executed>>, NEW c \in Cmds, NEW ok \in BOOLEAN, NEW alive,
         Resume(c, ok, alive), NEW d \in Cmds, HasStopped(d)', ~HasStopped(d)
  PROVE  /\ d = c
         /\ pc[c] \in {"stopNav", "stopExp"}
         /\ pc'[c] = StopStepAfter(pc[c])
         /\ ok
<1>1. CASE Go(c, "calling", IF ok THEN "succeeded" ELSE "finish") /\ UNCHANGED failed
  <2>1. ~IsStop(c) /\ pc'[c] \in {"succeeded", "finish"} /\ \A e \in Cmds \ {c} : pc'[e] = pc[e]
    BY <1>1 DEF Go, StopsAreStops, TypeOK
  <2>2. QED
    BY <1>1, <2>1 DEF HasStopped, StopLatched
<1>2. CASE /\ pc[c] \in {"stopNav", "stopExp"}
           /\ Go(c, pc[c], StopStepAfter(pc[c]))
           /\ failed' = IF ok THEN failed ELSE failed \union {c}
  <2>1. pc'[c] = StopStepAfter(pc[c]) /\ \A e \in Cmds \ {c} : pc'[e] = pc[e]
    BY <1>2 DEF Go, TypeOK
  <2>2. StopStepAfter(pc[c]) # "succeeded"
    BY <1>2 DEF StopStepAfter
  <2>3. d = c
    BY <1>2, <2>1 DEF HasStopped
  <2>4. ok
    BY <1>2, <2>1, <2>2, <2>3 DEF HasStopped
  <2>5. QED
    BY <1>2, <2>1, <2>3, <2>4
<1>3. QED
  BY <1>1, <1>2 DEF Resume

StopInv == PathInv /\ OnlyRegistered /\ InflightKnown /\ StopLatched /\ StopHalts

LEMMA HaltStep ==
  ASSUME Stoppable
  PROVE  StopInv /\ [Next]_vars => StopHalts'
<1> SUFFICES ASSUME TypeOK, StopsAreStops, ExecutedPast, OnlyRegistered, InflightKnown,
                    StopLatched, StopHalts, [Next]_vars
             PROVE  StopHalts'
  BY DEF StopInv, PathInv, LineInv
<1>0. Stoppable
  OBVIOUS
<1>1. ASSUME NEW c \in Cmds, NEW k \in KindsSent, Arrive(c, k)
      PROVE  StopHalts'
  BY <1>1, SameHalt DEF Arrive, Go, HasStopped, TypeOK
<1>2. ASSUME NEW c \in Cmds, Expire(c)
      PROVE  StopHalts'
  BY <1>2, SameHalt DEF Expire, HasStopped
<1>3. ASSUME NEW b \in BOOLEAN, UpdateObstacle(b)
      PROVE  StopHalts'
  BY <1>3, SameHalt DEF UpdateObstacle, HasStopped
<1>4. ASSUME OperatorReset
      PROVE  StopHalts'
  BY <1>4 DEF OperatorReset, StopHalts, StopHappened, HasStopped
<1>5. ASSUME ModuleStart
      PROVE  StopHalts'
  BY <1>5, SameHalt DEF ModuleStart, HasStopped
<1>6. ASSUME ModuleStop
      PROVE  StopHalts'
  BY <1>6, SameHalt DEF ModuleStop, FlushQueue, HasStopped, TypeOK
<1>7. ASSUME NEW c \in Cmds, Dispatch(c)
      PROVE  StopHalts'
  BY <1>7, SameHalt DEF Dispatch, Go, HasStopped, StopLatched, StopSteps, TypeOK
<1>8. ASSUME NEW c \in Cmds, CheckTtl(c) \/ CheckSafety(c)
      PROVE  StopHalts'
  BY <1>8, SameHalt DEF CheckTtl, CheckSafety, Go, HasStopped, StopLatched, StopSteps, TypeOK
<1>9. ASSUME NEW c \in Cmds, AppendToQueue(c)
      PROVE  StopHalts'
  BY <1>9, SameHalt DEF AppendToQueue, Go, HasStopped, StopLatched, StopSteps, TypeOK
<1>10. ASSUME NEW c \in Cmds, StopTrigger(c)
       PROVE  StopHalts'
  <2>1. Latch /\ UNCHANGED <<kind, failed, executed, active>>
    BY <1>10 DEF StopTrigger
  <2>2. \A e \in Cmds : HasStopped(e)' => HasStopped(e)
    <3>1. c \notin executed /\ pc'[c] = "stopping"
      BY <1>10 DEF StopTrigger, Go, ExecutedPast, TypeOK
    <3>2. \A e \in Cmds \ {c} : pc'[e] = pc[e] /\ (e \in standing' => e \in standing)
      BY <1>10 DEF StopTrigger, Go, TypeOK
    <3>3. QED
      BY <2>1, <3>1, <3>2 DEF HasStopped
  <2>3. CASE estop
    BY <2>1, <2>2, <2>3, SameHalt DEF Latch
  <2>4. CASE ~estop
    BY <2>1, <2>2, <2>4, HappenedLatched DEF StopHalts, StopHappened
  <2>5. QED
    BY <2>3, <2>4
<1>11. ASSUME NEW c \in Cmds, StopClear(c)
       PROVE  StopHalts'
  <2>1. \A d \in Cmds : pc'[d] \in {pc[d], "done", "stopCleared"}
    BY <1>11 DEF StopClear, TypeOK
  <2>2. QED
    BY <1>11, <2>1, SameHalt DEF StopClear, HasStopped
<1>11b. ASSUME NEW c \in Cmds, StopExecute(c)
        PROVE  StopHalts'
  <2>1. UNCHANGED <<standing, failed, inflight, executed, active>>
    BY <1>11b DEF StopExecute
  <2>2. pc'[c] = StopStepAfter("stopCleared") /\ \A d \in Cmds \ {c} : pc'[d] = pc[d]
    BY <1>11b DEF StopExecute, Go, TypeOK
  <2>3. CASE {"navigation", "explorer"} \intersect Registered = {}
    <3>1. active["follow"] = None /\ active["scan"] = None
      BY <2>3, <1>0 DEF OnlyRegistered, Stoppable
    <3>2. QED
      BY <2>1, <3>1 DEF StopHalts, Halted
  <2>4. CASE {"navigation", "explorer"} \intersect Registered # {}
    <3>1. pc'[c] \in {"stopNav", "stopExp"}
      BY <2>2, <2>4 DEF StopStepAfter
    <3>2. \A d \in Cmds : HasStopped(d)' => HasStopped(d)
      BY <2>1, <2>2, <3>1 DEF HasStopped
    <3>3. QED
      BY <2>1, <3>2, SameHalt
  <2>5. QED
    BY <2>3, <2>4
<1>12. ASSUME NEW c \in Cmds, StopIdle(c)
       PROVE  StopHalts'
  BY <1>12, SameHalt DEF StopIdle, Go, HasStopped, StopLatched, StopSteps, TypeOK
<1>13. ASSUME Pop
       PROVE  StopHalts'
  BY <1>13, SameHalt DEF Pop, HasStopped, TypeOK
<1>14. ASSUME LeaveProcess
       PROVE  StopHalts'
  BY <1>14, SameHalt DEF LeaveProcess, HasStopped
<1>15. ASSUME NEW c \in Cmds, RecheckTtl(c) \/ RecheckSafety(c)
       PROVE  StopHalts'
  BY <1>15, SameHalt DEF RecheckTtl, RecheckSafety, Go, HasStopped, StopLatched, StopSteps, TypeOK
<1>16. ASSUME NEW c \in Cmds, Execute(c)
       PROVE  StopHalts'
  BY <1>16, SameHalt DEF Execute, Go, HasStopped, StopLatched, StopSteps, TypeOK
<1>17. ASSUME NEW c \in Cmds, FinishOne(c)
       PROVE  StopHalts'
  BY <1>17, SameHalt DEF FinishOne, Go, HasStopped, StopLatched, StopSteps, TypeOK
<1>18. ASSUME NEW c \in Cmds, SetMode(c)
       PROVE  StopHalts'
  <2>1. UNCHANGED <<standing, failed, inflight, active>> /\ executed' = executed \union {c}
    BY <1>18 DEF SetMode
  <2>2. pc[c] = "succeeded" /\ pc'[c] \in {"done", "finish"} /\ \A d \in Cmds \ {c} : pc'[d] = pc[d]
    BY <1>18 DEF SetMode, Go, TypeOK
  <2>3. \A d \in Cmds : HasStopped(d)' => HasStopped(d)
    BY <2>1, <2>2 DEF HasStopped
  <2>4. QED
    BY <2>1, <2>3, SameHalt
<1>19. ASSUME NEW c \in Cmds, NEW op \in Operations, NEW ok \in BOOLEAN, SkillReturns(c, op, ok)
       PROVE  StopHalts'
  <2>1. UNCHANGED <<kind, inflight, standing, executed, estop>> /\ Resume(c, ok, calls \ {<<c, op>>})
    BY <1>19 DEF SkillReturns
  <2>2. ASSUME StopHappened
        PROVE  Halted'
    BY <1>19, <2>1, <2>2, HappenedLatched, EffectKeepsHalt DEF SkillReturns, StopHalts
  <2>3. ASSUME NEW d \in Cmds, HasStopped(d)', ~StopHappened
        PROVE  Halted'
    <3>1. d = c /\ pc[c] \in {"stopNav", "stopExp"} /\ pc'[c] = StopStepAfter(pc[c]) /\ ok
      BY <2>1, <2>3, ResumeHalts DEF StopHappened
    <3>2. active' = Effect(c, op) /\ Awaits(c, op)
      BY <1>19, <3>1 DEF SkillReturns
    <3>3. CASE pc[c] = "stopExp"
      <4>1. op = "stop_all"
        BY <3>2, <3>3 DEF Awaits
      <4>2. QED
        BY <3>2, <4>1, EffectFacts DEF Halted
    <3>4. CASE pc[c] = "stopNav"
      <4>1. op = "stop_navigation"
        BY <3>2, <3>4 DEF Awaits
      <4>2. "explorer" \notin Registered
        BY <2>1, <2>3, <3>1, <3>4 DEF StopStepAfter, HasStopped, StopHappened
      <4>3. active'["follow"] = None /\ active'["scan"] = None
        BY <3>2, <4>1, <4>2, EffectFacts DEF OnlyRegistered
      <4>4. QED
        BY <4>3 DEF Halted
    <3>5. QED
      BY <3>1, <3>3, <3>4
  <2>4. QED
    BY <2>1, <2>2, <2>3 DEF StopHalts, StopHappened
<1>20. ASSUME NEW c \in Cmds, NEW op \in Operations, SkillTimeout(c, op)
       PROVE  StopHalts'
  <2>1. UNCHANGED <<kind, inflight, standing, executed, active>> /\ Resume(c, FALSE, calls)
    BY <1>20 DEF SkillTimeout
  <2>2. \A d \in Cmds : HasStopped(d)' => HasStopped(d)
    BY <2>1, ResumeHalts
  <2>3. QED
    BY <2>1, <2>2, SameHalt
<1>21. ASSUME NEW c \in Cmds, NEW op \in Operations, NEW ok \in BOOLEAN, LateReturn(c, op, ok)
       PROVE  StopHalts'
  <2>1. UNCHANGED <<pc, failed, inflight, standing, executed, estop>>
    BY <1>21 DEF LateReturn
  <2>2. ASSUME StopHappened
        PROVE  Halted'
    BY <1>21, <2>1, <2>2, HappenedLatched, EffectKeepsHalt DEF LateReturn, StopHalts
  <2>3. StopHappened' => StopHappened
    BY <2>1 DEF StopHappened, HasStopped
  <2>4. QED
    BY <2>2, <2>3 DEF StopHalts
<1>22. ASSUME NEW d \in Drainers, DrainerTrigger(d)
       PROVE  StopHalts'
  <2>1. Latch /\ UNCHANGED <<pc, failed, standing, executed, active>>
    BY <1>22 DEF DrainerTrigger
  <2>2. \A e \in Cmds : HasStopped(e)' => HasStopped(e)
    BY <2>1 DEF HasStopped
  <2>3. CASE estop
    BY <2>1, <2>2, <2>3, SameHalt DEF Latch
  <2>4. CASE ~estop
    BY <2>1, <2>2, <2>4, HappenedLatched DEF StopHalts, StopHappened
  <2>5. QED
    BY <2>3, <2>4
<1>23. ASSUME NEW d \in Drainers, Drain(d)
       PROVE  StopHalts'
  BY <1>23, SameHalt DEF Drain, FlushQueue, HasStopped, TypeOK
<1>24. CASE UNCHANGED vars
  BY <1>24, SameHalt DEF vars, HasStopped
<1>25. QED
  BY <1>1, <1>2, <1>3, <1>4, <1>5, <1>6, <1>7, <1>8, <1>9, <1>10, <1>11, <1>11b, <1>12, <1>13, <1>14,
     <1>15, <1>16, <1>17, <1>18, <1>19, <1>20, <1>21, <1>22, <1>23, <1>24
     DEF Next, Environment, Handler, Loop

LEMMA StopInit == Init => StopInv
<1> SUFFICES ASSUME Init
             PROVE  StopInv
  OBVIOUS
<1>1. /\ standing = {} /\ calls = {}
      /\ active["follow"] = None /\ active["scan"] = None
      /\ \A c \in Cmds : pc[c] = "new"
  BY DEF Init, SafetyInit, ExecutorInit, Behaviours
<1>2. OnlyRegistered
  BY <1>1 DEF OnlyRegistered
<1>3. StopLatched /\ StopHalts
  BY <1>1 DEF StopLatched, Stopping, StopSteps, StopHalts, StopHappened, HasStopped
<1>4. InflightKnown
  BY <1>1 DEF InflightKnown, StartedSteps
<1>5. QED
  BY <1>2, <1>3, <1>4, PathInit DEF StopInv

LEMMA StopStep ==
  ASSUME Stoppable
  PROVE  StopInv /\ [Next]_vars => StopInv'
<1>1. StopInv /\ [Next]_vars => PathInv'
  BY PathStep DEF StopInv
<1>2. StopInv /\ [Next]_vars => OnlyRegistered' /\ InflightKnown' /\ StopLatched'
  BY RegisteredStep, InflightStep, LatchedStep DEF StopInv, PathInv, LineInv
<1>3. StopInv /\ [Next]_vars => StopHalts'
  BY HaltStep
<1>4. QED
  BY <1>1, <1>2, <1>3 DEF StopInv

(* After a successful mission.stop nothing new moves the robot until an    *)
(* operator resets the stop: neither a queued nor a half-enqueued command, *)
(* nor a skill call that outlived its timeout, unless it was already past  *)
(* the last check when the stop latched.                                   *)
THEOREM NothingNew ==
  ASSUME Stoppable
  PROVE  Spec => []NothingNewAfterStop
<1>1. Init => StopInv
  BY StopInit
<1>2. StopInv /\ [Next]_vars => StopInv'
  BY StopStep
<1>3. StopInv => NothingNewAfterStop
  BY DEF StopInv, PathInv, LineInv, TypeOK, StopHalts, StopHappened, HasStopped, Halted,
         NothingNewAfterStop, Behaviours
<1>4. QED
  BY <1>1, <1>2, <1>3, PTL DEF Spec

-----------------------------------------------------------------------------
(* The refinement. The gate's line is the queue behind the command that    *)
(* has been popped and not yet checked; the gate runs what is in hand and  *)
(* past that check.                                                        *)

GateLine == IF InHand THEN <<cur>> \o queue ELSE queue
GateRuns == IF cur # None /\ pc[cur] \in StartedSteps THEN cur ELSE None

GateStep == [Gate!Next]_(Gate!gateVars)

(* Each action of the gate, in the command path's words.                   *)
LEMMA GateStutters ==
  ASSUME UNCHANGED <<GateLine, accepted, GateRuns, estop>>
  PROVE  GateStep
BY DEF GateStep, Gate!gateVars, GateLine, GateRuns

LEMMA GateEnters ==
  ASSUME NEW c \in Cmds, c \notin accepted, Len(GateLine) < MaxQueue + 1,
         GateLine' = Append(GateLine, c), accepted' = accepted \union {c},
         UNCHANGED <<GateRuns, estop>>
  PROVE  GateStep
BY DEF GateStep, Gate!Next, Gate!Enter, GateLine, GateRuns

LEMMA GateBegins ==
  ASSUME GateLine # <<>>, GateRuns = None, ~estop, GateRuns' = Head(GateLine),
         GateLine' = Tail(GateLine), UNCHANGED <<accepted, estop>>
  PROVE  GateStep
BY DEF GateStep, Gate!Next, Gate!BeginOldest, GateLine, GateRuns

LEMMA GateRefuses ==
  ASSUME GateLine # <<>>, GateRuns = None, GateLine' = Tail(GateLine),
         UNCHANGED <<accepted, GateRuns, estop>>
  PROVE  GateStep
BY DEF GateStep, Gate!Next, Gate!RefuseOldest, GateLine, GateRuns

LEMMA GateCompletes ==
  ASSUME GateRuns # None, GateRuns' = None, UNCHANGED <<GateLine, accepted, estop>>
  PROVE  GateStep
BY DEF GateStep, Gate!Next, Gate!Complete, GateLine, GateRuns

LEMMA GateFlushes ==
  ASSUME GateLine # <<>>, GateLine' \in {<<>>, <<Head(GateLine)>>},
         UNCHANGED <<accepted, GateRuns, estop>>
  PROVE  GateStep
BY DEF GateStep, Gate!Next, Gate!Flush, GateLine, GateRuns

LEMMA GateLatches ==
  ASSUME estop' \in BOOLEAN, UNCHANGED <<GateLine, accepted, GateRuns>>
  PROVE  GateStep
BY DEF GateStep, Gate!Next, Gate!SetLatch, GateLine, GateRuns

(* A step that leaves the queue and the command in hand where they are     *)
(* leaves the gate's line and what it runs.                                *)
LEMMA SameLine ==
  ASSUME UNCHANGED <<queue, cur>>,
         cur # None => (pc'[cur] \in {"popped", "ttlRechecked"} <=> pc[cur] \in {"popped", "ttlRechecked"})
                       /\ (pc'[cur] \in StartedSteps <=> pc[cur] \in StartedSteps)
  PROVE  UNCHANGED <<GateLine, GateRuns>>
BY DEF GateLine, GateRuns, InHand

(* So does one that moves a request which is not in hand.                  *)
LEMMA SameLineUnless ==
  ASSUME TypeOK, UNCHANGED <<queue, cur>>, NEW c \in Cmds, c # cur, NEW s,
         pc' = [pc EXCEPT ![c] = s]
  PROVE  UNCHANGED <<GateLine, GateRuns>>
BY SameLine DEF TypeOK

(* Throwing the queue away leaves the command in hand.                     *)
LEMMA EmptiedFlushes ==
  ASSUME PathInv, queue' = <<>>, UNCHANGED <<cur, accepted, estop>>,
         cur # None => pc'[cur] = pc[cur]
  PROVE  GateStep
<1>1. UNCHANGED GateRuns /\ InHand' = InHand
  BY DEF GateRuns, InHand
<1>2. CASE InHand
  <2>1. GateLine # <<>> /\ Head(GateLine) = cur
    BY <1>2 DEF GateLine, InHand, PathInv, LineInv, TypeOK
  <2>2. GateLine' = <<cur>>
    BY <1>1, <1>2 DEF GateLine, InHand, PathInv, LineInv, TypeOK
  <2>3. QED
    BY <1>1, <2>1, <2>2, GateFlushes
<1>3. CASE ~InHand
  <2>1. GateLine = queue /\ GateLine' = <<>>
    BY <1>1, <1>3 DEF GateLine
  <2>2. QED
    BY <1>1, <2>1, GateFlushes, GateStutters
<1>4. QED
  BY <1>2, <1>3

(* The command a step of the loop is about is the one in hand.             *)
LEMMA LoopHasHand ==
  ASSUME PathInv, NEW c \in Cmds, ~IsStop(c), pc[c] \in {"popped", "ttlRechecked", "finish"} \union StartedSteps
  PROVE  cur = c /\ c # None
BY DEF PathInv, LineInv, OneInHand

(* The end of a skill call: the gate's command completes when it failed.   *)
LEMMA ResumeSteps ==
  ASSUME PathInv, UNCHANGED <<queue, cur, kind, accepted, estop>>,
         NEW c \in Cmds, NEW ok \in BOOLEAN, NEW alive, Resume(c, ok, alive)
  PROVE  GateStep
<1>1. CASE pc[c] = "calling"
  <2>1. cur = c /\ c # None
    BY <1>1, LoopHasHand DEF PathInv, LineInv, StopsAreStops, StartedSteps
  <2>2. pc' = [pc EXCEPT ![c] = IF ok THEN "succeeded" ELSE "finish"]
    BY <1>1 DEF Resume, Go
  <2>3. pc'[c] = (IF ok THEN "succeeded" ELSE "finish")
    BY <2>2 DEF PathInv, LineInv, TypeOK
  <2>4. CASE ok
    BY <1>1, <2>1, <2>3, <2>4, SameLine, GateStutters DEF StartedSteps
  <2>5. CASE ~ok
    BY <1>1, <2>1, <2>3, <2>5, GateCompletes DEF StartedSteps, GateLine, GateRuns, InHand
  <2>6. QED
    BY <2>4, <2>5
<1>2. CASE pc[c] \in {"stopNav", "stopExp"}
  <2>1. c # cur
    BY <1>2 DEF PathInv, HandInProcess, StartedSteps
  <2>2. pc' = [pc EXCEPT ![c] = StopStepAfter(pc[c])]
    BY <1>2 DEF Resume, Go
  <2>3. QED
    BY <2>1, <2>2, SameLineUnless, GateStutters DEF PathInv, LineInv
<1>3. QED
  BY <1>1, <1>2 DEF Resume, Go

LEMMA GateInit == Init => Gate!Init
BY DEF Init, SafetyInit, Gate!Init, InHand

LEMMA CommandsStep == PathInv /\ [Next]_vars => GateStep
<1> SUFFICES ASSUME PathInv, [Next]_vars
             PROVE  GateStep
  OBVIOUS
<1> USE DEF PathInv, LineInv
<1>1. ASSUME NEW c \in Cmds, NEW k \in KindsSent, Arrive(c, k)
      PROVE  GateStep
  <2>1. pc[c] = "new" /\ pc' = [pc EXCEPT ![c] = "arrived"] /\ UNCHANGED <<queue, cur, accepted, estop>>
    BY <1>1 DEF Arrive, Go
  <2>2. c # cur
    BY <2>1 DEF HandInProcess, StartedSteps
  <2>3. QED
    BY <2>1, <2>2, SameLineUnless, GateStutters
<1>2. CASE \/ \E c \in Cmds : Expire(c)
           \/ \E b \in BOOLEAN : UpdateObstacle(b)
           \/ ModuleStart
           \/ LeaveProcess
           \/ \E c \in Cmds, op \in Operations, ok \in BOOLEAN : LateReturn(c, op, ok)
           \/ UNCHANGED vars
  <2>1. UNCHANGED <<queue, cur, pc, accepted, estop>>
    BY <1>2 DEF Expire, UpdateObstacle, SetObstacle, ModuleStart, LeaveProcess, LateReturn, vars
  <2>2. QED
    BY <2>1, SameLine, GateStutters
<1>3. ASSUME OperatorReset
      PROVE  GateStep
  <2>1. UNCHANGED <<queue, cur, pc, accepted>> /\ estop' = FALSE
    BY <1>3 DEF OperatorReset, ResetEstop
  <2>2. QED
    BY <2>1, SameLine, GateLatches
<1>4. ASSUME ModuleStop \/ \E d \in Drainers : Drain(d)
      PROVE  GateStep
  <2>1. UNCHANGED <<cur, accepted, estop>> /\ FlushQueue
    BY <1>4 DEF ModuleStop, Drain
  <2>2. queue' = <<>> /\ (cur # None => pc'[cur] = pc[cur])
    BY <2>1 DEF FlushQueue, HandInProcess, StartedSteps, TypeOK
  <2>3. QED
    BY <2>1, <2>2, EmptiedFlushes
<1>5. ASSUME NEW c \in Cmds, Dispatch(c) \/ CheckTtl(c) \/ CheckSafety(c) \/ StopExecute(c) \/ StopIdle(c)
      PROVE  GateStep
  <2>1. /\ pc[c] \in {"arrived", "handling", "ttlChecked", "stopCleared", "stopIdle"}
        /\ UNCHANGED <<queue, cur, accepted, estop>>
        /\ \E s : pc' = [pc EXCEPT ![c] = s]
    BY <1>5 DEF Dispatch, CheckTtl, CheckSafety, StopExecute, StopIdle, Go
  <2>2. c # cur
    BY <2>1 DEF HandInProcess, StartedSteps
  <2>3. QED
    BY <2>1, <2>2, SameLineUnless, GateStutters
<1>6. ASSUME NEW c \in Cmds, AppendToQueue(c)
      PROVE  GateStep
  <2>1. pc[c] = "checked" /\ c # cur /\ c \notin accepted /\ UNCHANGED <<cur, estop>>
    BY <1>6 DEF AppendToQueue, Go, HandInProcess, AcceptedPast, StartedSteps
  <2>2. CASE queue' = Append(queue, c) /\ Len(queue) < MaxQueue /\ Go(c, "checked", "queued")
             /\ accepted' = accepted \union {c}
    <3>1. UNCHANGED GateRuns /\ InHand' = InHand
      BY <2>1, <2>2 DEF Go, TypeOK, GateRuns, InHand
    <3>2. /\ Len(GateLine) < MaxQueue + 1
          /\ GateLine' = Append(GateLine, c)
      <4>1. CASE InHand
        <5>1. GateLine = <<cur>> \o queue /\ GateLine' = <<cur>> \o Append(queue, c) /\ cur \in Cmds
          BY <2>1, <2>2, <3>1, <4>1 DEF GateLine, InHand, TypeOK
        <5>2. QED
          BY <2>2, <5>1 DEF TypeOK
      <4>2. CASE ~InHand
        <5>1. GateLine = queue /\ GateLine' = Append(queue, c)
          BY <2>2, <3>1, <4>2 DEF GateLine
        <5>2. QED
          BY <2>2, <5>1 DEF TypeOK
      <4>3. QED
        BY <4>1, <4>2
    <3>3. QED
      BY <2>1, <2>2, <3>1, <3>2, GateEnters
  <2>3. CASE Go(c, "checked", "done") /\ UNCHANGED <<queue, accepted>>
    BY <2>1, <2>3, SameLineUnless, GateStutters DEF Go
  <2>4. QED
    BY <1>6, <2>2, <2>3 DEF AppendToQueue
<1>7. ASSUME NEW c \in Cmds, StopTrigger(c)
      PROVE  GateStep
  <2>1. pc[c] = "handling" /\ pc' = [pc EXCEPT ![c] = "stopping"] /\ UNCHANGED <<queue, cur, accepted>>
    BY <1>7 DEF StopTrigger, Go
  <2>2. c # cur /\ estop' = TRUE
    BY <1>7, <2>1, LatchTypes DEF StopTrigger, HandInProcess, StartedSteps
  <2>3. QED
    BY <2>1, <2>2, SameLineUnless, GateLatches
<1>8. ASSUME NEW c \in Cmds, StopClear(c)
      PROVE  GateStep
  <2>1. queue' = <<>> /\ UNCHANGED <<cur, accepted, estop>> /\ pc[c] = "stopping"
    BY <1>8 DEF StopClear
  <2>2. cur # None => pc'[cur] = pc[cur]
    BY <1>8, <2>1 DEF StopClear, HandInProcess, StartedSteps, TypeOK
  <2>3. QED
    BY <2>1, <2>2, EmptiedFlushes
<1>9. ASSUME Pop
      PROVE  GateStep
  <2>1. /\ cur = None /\ queue # <<>> /\ cur' = Head(queue) /\ queue' = Tail(queue)
        /\ pc' = [pc EXCEPT ![Head(queue)] = "popped"] /\ UNCHANGED <<accepted, estop>>
    BY <1>9 DEF Pop
  <2>2. Head(queue) \in Cmds /\ pc'[Head(queue)] = "popped"
    BY <2>1, OldestWaits DEF TypeOK
  <2>3. GateLine = queue /\ GateRuns = None
    BY <2>1 DEF GateLine, GateRuns, InHand
  <2>4. GateLine' = <<Head(queue)>> \o Tail(queue) /\ GateRuns' = None
    BY <2>1, <2>2 DEF GateLine, GateRuns, InHand, StartedSteps
  <2>5. <<Head(queue)>> \o Tail(queue) = queue
    BY <2>1 DEF TypeOK
  <2>6. QED
    BY <2>1, <2>3, <2>4, <2>5, GateStutters
<1>10. ASSUME NEW c \in Cmds, RecheckTtl(c) \/ RecheckSafety(c)
       PROVE  GateStep
  <2>1. /\ pc[c] \in {"popped", "ttlRechecked"} /\ UNCHANGED <<queue, cur, accepted, estop>>
        /\ \E s \in {"ttlRechecked", "cleared", "finish"} :
             pc' = [pc EXCEPT ![c] = s] /\ (s = "cleared" => ~estop)
    BY <1>10 DEF RecheckTtl, RecheckSafety, CanAcceptCommand, Go
  <2>2. cur = c /\ c # None
    BY <2>1, LoopHasHand DEF StopsAreStops
  <2>3. GateLine = <<c>> \o queue /\ GateRuns = None
    BY <2>1, <2>2 DEF GateLine, GateRuns, InHand, StartedSteps
  <2>4. GateLine # <<>> /\ Head(GateLine) = c /\ Tail(GateLine) = queue
    BY <2>3 DEF TypeOK
  <2>5. pc'[c] \in {"ttlRechecked", "cleared", "finish"} /\ (pc'[c] = "cleared" => ~estop)
    BY <2>1 DEF TypeOK
  <2>6. CASE pc'[c] = "ttlRechecked"
    BY <2>1, <2>2, <2>6, SameLine, GateStutters DEF StartedSteps
  <2>7. CASE pc'[c] = "cleared"
    <3>1. GateLine' = queue /\ GateRuns' = c
      BY <2>1, <2>2, <2>7 DEF GateLine, GateRuns, InHand, StartedSteps
    <3>2. QED
      BY <2>1, <2>3, <2>4, <2>5, <2>7, <3>1, GateBegins
  <2>8. CASE pc'[c] = "finish"
    <3>1. GateLine' = queue /\ GateRuns' = None
      BY <2>1, <2>2, <2>8 DEF GateLine, GateRuns, InHand, StartedSteps
    <3>2. QED
      BY <2>1, <2>3, <2>4, <3>1, GateRefuses
  <2>9. QED
    BY <2>5, <2>6, <2>7, <2>8
<1>11. ASSUME NEW c \in Cmds, Execute(c)
       PROVE  GateStep
  <2>1. /\ pc[c] = "cleared" /\ UNCHANGED <<queue, cur, accepted, estop>>
        /\ \/ pc' = [pc EXCEPT ![c] = "calling"]
           \/ pc' = [pc EXCEPT ![c] = "succeeded"]
           \/ pc' = [pc EXCEPT ![c] = "finish"]
    BY <1>11 DEF Execute, Go
  <2>2. cur = c /\ c # None
    BY <2>1, LoopHasHand DEF StopsAreStops, StartedSteps
  <2>3. CASE pc'[c] \in StartedSteps
    BY <2>1, <2>2, <2>3, SameLine, GateStutters DEF StartedSteps
  <2>4. CASE pc'[c] = "finish"
    BY <2>1, <2>2, <2>4, GateCompletes DEF StartedSteps, GateLine, GateRuns, InHand
  <2>5. QED
    BY <2>1, <2>3, <2>4 DEF StartedSteps, TypeOK
<1>12. ASSUME NEW c \in Cmds, SetMode(c)
       PROVE  GateStep
  <2>1. /\ pc[c] = "succeeded" /\ UNCHANGED <<queue, cur, accepted, estop>>
        /\ pc' = [pc EXCEPT ![c] = IF IsStop(c) THEN "done" ELSE "finish"]
    BY <1>12 DEF SetMode, Go
  <2>2. CASE IsStop(c)
    <3>1. c # cur
      BY <2>2 DEF HandInProcess
    <3>2. QED
      BY <2>1, <3>1, SameLineUnless, GateStutters
  <2>3. CASE ~IsStop(c)
    <3>1. cur = c /\ c # None
      BY <2>1, <2>3, LoopHasHand DEF StartedSteps
    <3>2. pc'[c] = "finish"
      BY <2>1, <2>3 DEF TypeOK
    <3>3. QED
      BY <2>1, <3>1, <3>2, GateCompletes DEF StartedSteps, GateLine, GateRuns, InHand
  <2>4. QED
    BY <2>2, <2>3
<1>13. ASSUME NEW c \in Cmds, FinishOne(c)
       PROVE  GateStep
  <2>1. /\ pc[c] = "finish" /\ UNCHANGED <<queue, accepted, estop>> /\ cur' = None
    BY <1>13 DEF FinishOne, Go
  <2>2. cur = c
    BY <2>1, LoopHasHand DEF StopsAreStops
  <2>3. QED
    BY <2>1, <2>2, GateStutters DEF GateLine, GateRuns, InHand, StartedSteps
<1>14. ASSUME NEW c \in Cmds, NEW op \in Operations, NEW ok \in BOOLEAN, SkillReturns(c, op, ok)
       PROVE  GateStep
  BY <1>14, ResumeSteps DEF SkillReturns
<1>15. ASSUME NEW c \in Cmds, NEW op \in Operations, SkillTimeout(c, op)
       PROVE  GateStep
  BY <1>15, ResumeSteps DEF SkillTimeout
<1>16. ASSUME NEW d \in Drainers, DrainerTrigger(d)
       PROVE  GateStep
  <2>1. UNCHANGED <<queue, cur, pc, accepted>> /\ estop' = TRUE
    BY <1>16, LatchTypes DEF DrainerTrigger
  <2>2. QED
    BY <2>1, SameLine, GateLatches
<1>17. QED
  BY <1>1, <1>2, <1>3, <1>4, <1>5, <1>6, <1>7, <1>8, <1>9, <1>10, <1>11, <1>12, <1>13, <1>14,
     <1>15, <1>16 DEF Next, Environment, Handler, Loop

(* The command path implements the gate: every step maps to a step of the  *)
(* gate or a stutter, although a stop clears the queue and the busy flag   *)
(* under the loop and although a command is checked twice.                 *)
THEOREM PathIsGate == Spec => GateSpec
<1>1. PathInv /\ [Next]_vars => [Gate!Next]_(Gate!gateVars)
  BY CommandsStep DEF GateStep
<1>2. QED
  BY <1>1, PathInit, PathStep, GateInit, PTL DEF Spec, GateSpec, Gate!Spec

-----------------------------------------------------------------------------
(* The two modes. The executor records its mode when the skill has done    *)
(* its work, the queue only when the command leaves process(); a stop      *)
(* resets the queue's mode first and the executor's after its skill calls. *)

(* The popped command has been executed and is about to leave.             *)
Recorded == cur # None /\ pc[cur] = "finish" /\ cur \in executed

(* A stop that has reset the queue's mode and not yet the executor's.      *)
PastClear(c) == IsStop(c) /\ pc[c] \in {"stopCleared", "stopNav", "stopExp", "stopIdle", "succeeded"}

(* Unless a stop has overtaken a command: between the two records the      *)
(* executor is ahead of the queue by one command, a stop finds no command  *)
(* recorded by the executor alone, and nothing but stops comes after it.   *)
ModesFollow ==
  /\ estop => ~Recorded
  /\ (\E c \in Cmds : PastClear(c)) => qmode = "IDLE"
  /\ Recorded => emode = TargetMode(kind[cur])
  /\ ~Recorded /\ (\A c \in Cmds : ~PastClear(c)) => qmode = emode

ModesInv ==
  /\ resets = 0 /\ ~estop => inflight = {}
  /\ resets = 0 /\ inflight = {} => ModesFollow

LEMMA ModesInit == Init => ModesInv
BY DEF Init, SafetyInit, ExecutorInit, ModesInv, ModesFollow, Recorded, PastClear, IsStop

(* What the modes may rely on of the parts proved above.                   *)
ModesBase ==
  /\ LineInv /\ TypeOK /\ StopsAreStops /\ OneInHand /\ ExecutedPast
  /\ InflightKnown /\ StopLatched

modesVars == <<estop, resets, inflight, kind, qmode, emode, cur, executed>>

LEMMA ModesKept ==
  ASSUME ModesInv, UNCHANGED modesVars, Recorded' <=> Recorded,
         \A c \in Cmds : PastClear(c)' <=> PastClear(c)
  PROVE  ModesInv'
BY DEF ModesInv, ModesFollow, modesVars

(* A request on its way to its execution moves.                            *)
LEMMA ModesKeptMoving ==
  ASSUME ModesBase, ModesInv, UNCHANGED modesVars,
         NEW c \in Cmds, NEW s, pc' = [pc EXCEPT ![c] = s], pc[c] \notin {"finish", "done"},
         PastClear(c)' <=> PastClear(c)
  PROVE  ModesInv'
<1>1. c \notin executed /\ executed \subseteq Cmds
  BY DEF ExecutedPast, ModesBase, TypeOK
<1>2. \A d \in Cmds : d # c => pc'[d] = pc[d]
  BY DEF ModesBase, TypeOK
<1>3. (Recorded' <=> Recorded)
  BY <1>1, <1>2 DEF ExecutedPast, Recorded, modesVars
<1>4. \A d \in Cmds : PastClear(d)' <=> PastClear(d)
  BY <1>2 DEF PastClear, IsStop, modesVars
<1>5. QED
  BY <1>3, <1>4, ModesKept

(* Who leaves with the queue has not been executed.                        *)
LEMMA ModesKeptFlushing ==
  ASSUME ModesBase, ModesInv, UNCHANGED modesVars, FlushQueue
  PROVE  ModesInv'
<1>1. \A c \in Cmds : pc'[c] = pc[c] \/ (pc[c] = "queued" /\ pc'[c] = "done")
  BY DEF FlushQueue
<1>2. executed \subseteq Cmds /\ \A c \in executed : pc'[c] = pc[c]
  <2>1. executed \subseteq Cmds
    BY DEF ModesBase, TypeOK
  <2>2. \A c \in executed : pc[c] \in {"finish", "done"}
    BY DEF ModesBase, ExecutedPast
  <2>3. QED
    BY <1>1, <2>1, <2>2
<1>3. (Recorded' <=> Recorded)
  BY <1>2 DEF ExecutedPast, Recorded, modesVars
<1>4. \A c \in Cmds : PastClear(c)' <=> PastClear(c)
  BY <1>1 DEF PastClear, IsStop, modesVars
<1>5. QED
  BY <1>3, <1>4, ModesKept

(* The latch goes on, or is on already: if nothing was past its last       *)
(* check, nothing is about to leave with a mode of its own either.         *)
LEMMA ModesKeptLatching ==
  ASSUME ModesBase, ModesInv, Latch, UNCHANGED <<resets, kind, qmode, emode, cur, executed>>,
         \A c \in Cmds : pc[c] \in {"finish", "done"} \/ pc'[c] = "finish" => pc'[c] = pc[c],
         \A c \in Cmds : PastClear(c)' <=> PastClear(c)
  PROVE  ModesInv'
<1>1. executed \subseteq Cmds /\ (cur # None => cur \in Cmds) /\ estop' = TRUE
  BY DEF ModesBase, TypeOK, Latch, TriggerEstop
<1>2. (Recorded' <=> Recorded)
  BY <1>1 DEF ExecutedPast, Recorded
<1>3. resets' = 0 /\ inflight' = {} => ModesFollow'
  <2>1. CASE estop
    <3>1. inflight' = inflight /\ estop' = estop
      BY <1>1, <2>1 DEF Latch, ModesBase, TypeOK, SafetyTypeOK
    <3>2. QED
      BY <1>2, <3>1 DEF ModesInv, ModesFollow
  <2>2. CASE ~estop
    <3>1. inflight' = {} => ~Recorded
      BY <1>1, <2>2 DEF Latch, Recorded
    <3>2. resets = 0 => ModesFollow
      BY <2>2 DEF ModesInv
    <3>3. QED
      BY <1>2, <3>1, <3>2 DEF ModesFollow
  <2>3. QED
    BY <2>1, <2>2
<1>4. QED
  BY <1>1, <1>2, <1>3 DEF ModesInv

LEMMA ResumeModes ==
  ASSUME ModesBase, ModesInv, UNCHANGED modesVars,
         NEW c \in Cmds, NEW ok \in BOOLEAN, NEW alive, Resume(c, ok, alive)
  PROVE  ModesInv'
<1>1. CASE Go(c, "calling", IF ok THEN "succeeded" ELSE "finish")
  <2>1. ~PastClear(c) /\ ~PastClear(c)'
    BY <1>1 DEF Go, ModesBase, StopsAreStops, IsStop, modesVars, PastClear
  <2>2. pc[c] \notin {"finish", "done"} /\ \E s : pc' = [pc EXCEPT ![c] = s]
    BY <1>1 DEF Go
  <2>3. QED
    BY <2>1, <2>2, ModesKeptMoving
<1>2. CASE pc[c] \in {"stopNav", "stopExp"} /\ Go(c, pc[c], StopStepAfter(pc[c]))
  <2>1. PastClear(c) /\ PastClear(c)'
    BY <1>2, StopStepTypes DEF Go, ModesBase, StopsAreStops, StopSteps, IsStop, modesVars, PastClear, TypeOK
  <2>2. QED
    BY <1>2, <2>1, ModesKeptMoving DEF Go
<1>3. QED
  BY <1>1, <1>2 DEF Resume

LEMMA ModesStep == ModesBase /\ ModesInv /\ [Next]_vars => ModesInv'
<1> SUFFICES ASSUME ModesBase, ModesInv, [Next]_vars
             PROVE  ModesInv'
  OBVIOUS
<1> USE DEF ModesBase
<1>1. ASSUME NEW c \in Cmds, NEW k \in KindsSent, Arrive(c, k)
      PROVE  ModesInv'
  <2>1. /\ pc[c] = "new" /\ pc' = [pc EXCEPT ![c] = "arrived"] /\ kind' = [kind EXCEPT ![c] = k]
        /\ UNCHANGED <<estop, resets, inflight, qmode, emode, cur, executed>>
    BY <1>1 DEF Arrive, Go
  <2>2. \A d \in Cmds : d # c => pc'[d] = pc[d] /\ kind'[d] = kind[d]
    BY <2>1 DEF TypeOK
  <2>3. c \notin executed /\ executed \subseteq Cmds
    BY <2>1 DEF ExecutedPast, TypeOK
  <2>4. (Recorded' <=> Recorded) /\ (Recorded => kind'[cur] = kind[cur])
    BY <2>1, <2>2, <2>3 DEF ExecutedPast, Recorded
  <2>5. \A d \in Cmds : PastClear(d)' <=> PastClear(d)
    BY <2>1, <2>2 DEF PastClear, IsStop, TypeOK
  <2>6. QED
    BY <2>1, <2>4, <2>5 DEF ModesInv, ModesFollow
<1>2. CASE \/ \E c \in Cmds : Expire(c)
           \/ \E b \in BOOLEAN : UpdateObstacle(b)
           \/ ModuleStart
           \/ LeaveProcess
           \/ \E c \in Cmds, op \in Operations, ok \in BOOLEAN : LateReturn(c, op, ok)
           \/ UNCHANGED vars
  <2>1. UNCHANGED modesVars /\ pc' = pc
    BY <1>2 DEF Expire, UpdateObstacle, SetObstacle, ModuleStart, LeaveProcess, LateReturn, vars, modesVars
  <2>2. QED
    BY <2>1, ModesKept DEF ExecutedPast, Recorded, PastClear, IsStop, modesVars
<1>3. ASSUME OperatorReset
      PROVE  ModesInv'
  <2>1. resets' = resets + 1 /\ resets \in Nat
    BY <1>3 DEF OperatorReset, TypeOK
  <2>2. QED
    BY <2>1 DEF ModesInv
<1>4. ASSUME ModuleStop \/ \E d \in Drainers : Drain(d)
      PROVE  ModesInv'
  <2>1. UNCHANGED modesVars /\ FlushQueue
    BY <1>4 DEF ModuleStop, Drain, modesVars
  <2>2. QED
    BY <2>1, ModesKeptFlushing
<1>5. ASSUME NEW c \in Cmds, Dispatch(c) \/ CheckTtl(c) \/ CheckSafety(c) \/ AppendToQueue(c)
      PROVE  ModesInv'
  <2>1. /\ pc[c] \in {"arrived", "handling", "ttlChecked", "checked"} /\ UNCHANGED modesVars
        /\ \E s \in {"handling", "ttlChecked", "checked", "queued", "done"} : pc' = [pc EXCEPT ![c] = s]
    BY <1>5 DEF Dispatch, CheckTtl, CheckSafety, AppendToQueue, Go, modesVars
  <2>2. ~PastClear(c) /\ ~PastClear(c)'
    BY <2>1 DEF PastClear, TypeOK
  <2>3. QED
    BY <2>1, <2>2, ModesKeptMoving
<1>6. ASSUME NEW c \in Cmds, StopTrigger(c)
      PROVE  ModesInv'
  <2>1. /\ Latch /\ pc[c] = "handling" /\ pc' = [pc EXCEPT ![c] = "stopping"]
        /\ UNCHANGED <<resets, kind, qmode, emode, cur, executed>>
    BY <1>6 DEF StopTrigger, Go
  <2>2. \A d \in Cmds : pc[d] \in {"finish", "done"} \/ pc'[d] = "finish" => pc'[d] = pc[d]
    BY <2>1 DEF TypeOK
  <2>3. \A d \in Cmds : PastClear(d)' <=> PastClear(d)
    BY <2>1 DEF PastClear, IsStop, TypeOK
  <2>4. QED
    BY <2>1, <2>2, <2>3, ModesKeptLatching
<1>7. ASSUME NEW c \in Cmds, StopClear(c)
      PROVE  ModesInv'
  <2>1. /\ pc[c] = "stopping" /\ qmode' = "IDLE"
        /\ pc' = [d \in Cmds |-> IF d = c THEN "stopCleared"
                                 ELSE IF pc[d] = "queued" THEN "done" ELSE pc[d]]
        /\ UNCHANGED <<estop, resets, inflight, kind, emode, cur, executed>>
    BY <1>7 DEF StopClear
  <2>2. PastClear(c)' /\ c \notin executed /\ executed \subseteq Cmds
    BY <2>1 DEF PastClear, IsStop, StopsAreStops, StopSteps, ExecutedPast, TypeOK
  <2>3. \A d \in executed : pc'[d] = pc[d]
    BY <2>1, <2>2 DEF ExecutedPast
  <2>4. (Recorded' <=> Recorded)
    BY <2>1, <2>3 DEF ExecutedPast, Recorded
  <2>5. QED
    BY <2>1, <2>2, <2>4 DEF ModesInv, ModesFollow
<1>7b. ASSUME NEW c \in Cmds, StopExecute(c)
       PROVE  ModesInv'
  <2>1. /\ pc[c] = "stopCleared" /\ pc' = [pc EXCEPT ![c] = StopStepAfter("stopCleared")]
        /\ UNCHANGED modesVars
    BY <1>7b DEF StopExecute, Go, modesVars
  <2>2. PastClear(c) /\ PastClear(c)'
    BY <2>1, StopStepTypes DEF PastClear, StopsAreStops, StopSteps, IsStop, modesVars, TypeOK
  <2>3. QED
    BY <2>1, <2>2, ModesKeptMoving
<1>8. ASSUME NEW c \in Cmds, StopIdle(c)
      PROVE  ModesInv'
  <2>1. /\ pc[c] = "stopIdle" /\ emode' = "IDLE"
        /\ \E s \in {"done", "succeeded"} : pc' = [pc EXCEPT ![c] = s]
        /\ UNCHANGED <<estop, resets, inflight, kind, qmode, cur, executed>>
    BY <1>8 DEF StopIdle, Go
  <2>2. PastClear(c) /\ (resets = 0 => estop)
    BY <2>1 DEF PastClear, StopsAreStops, StopSteps, StopLatched, Stopping
  <2>3. c \notin executed /\ executed \subseteq Cmds /\ \A d \in Cmds : d # c => pc'[d] = pc[d]
    BY <2>1 DEF ExecutedPast, TypeOK
  <2>4. (Recorded' <=> Recorded)
    BY <2>1, <2>3 DEF ExecutedPast, Recorded
  <2>5. resets = 0 /\ inflight = {} => qmode = "IDLE" /\ ~Recorded
    BY <2>2 DEF ModesInv, ModesFollow
  <2>6. QED
    BY <2>1, <2>4, <2>5 DEF ModesInv, ModesFollow
<1>9. ASSUME Pop
      PROVE  ModesInv'
  <2>1. /\ cur = None /\ cur' = Head(queue) /\ pc' = [pc EXCEPT ![Head(queue)] = "popped"]
        /\ UNCHANGED <<estop, resets, inflight, kind, qmode, emode, executed>>
    BY <1>9 DEF Pop
  <2>2. Head(queue) \in Cmds /\ pc[Head(queue)] = "queued"
    BY <1>9, OldestWaits DEF Pop, LineInv
  <2>3. Head(queue) \notin executed /\ executed \subseteq Cmds
    BY <2>2 DEF ExecutedPast, TypeOK
  <2>4. ~Recorded /\ ~Recorded'
    BY <2>1, <2>2, <2>3 DEF ExecutedPast, Recorded, TypeOK
  <2>5. \A d \in Cmds : PastClear(d)' <=> PastClear(d)
    BY <2>1, <2>2 DEF PastClear, IsStop, TypeOK
  <2>6. QED
    BY <2>1, <2>4, <2>5 DEF ModesInv, ModesFollow
<1>10. ASSUME NEW c \in Cmds, RecheckTtl(c) \/ RecheckSafety(c) \/ Execute(c)
       PROVE  ModesInv'
  <2>1. /\ pc[c] \in {"popped", "ttlRechecked", "cleared"} /\ UNCHANGED modesVars
        /\ \E s : pc' = [pc EXCEPT ![c] = s]
    BY <1>10 DEF RecheckTtl, RecheckSafety, Execute, Go, modesVars
  <2>2. ~PastClear(c) /\ ~PastClear(c)'
    BY <2>1 DEF PastClear, StopsAreStops, IsStop, modesVars
  <2>3. QED
    BY <2>1, <2>2, ModesKeptMoving
<1>11. ASSUME NEW c \in Cmds, SetMode(c)
       PROVE  ModesInv'
  <2>1. /\ pc[c] = "succeeded" /\ emode' = TargetMode(kind[c]) /\ executed' = executed \union {c}
        /\ pc' = [pc EXCEPT ![c] = IF IsStop(c) THEN "done" ELSE "finish"]
        /\ UNCHANGED <<estop, resets, inflight, kind, qmode, cur>>
    BY <1>11 DEF SetMode, Go
  <2>2. /\ c \notin executed /\ executed \subseteq Cmds
        /\ \A d \in Cmds : d # c => pc'[d] = pc[d]
        /\ pc'[c] = IF IsStop(c) THEN "done" ELSE "finish"
    BY <2>1 DEF ExecutedPast, TypeOK
  <2>4. CASE IsStop(c)
    <3>1. PastClear(c) /\ (resets = 0 => estop)
      BY <2>1, <2>4 DEF PastClear, StopLatched, Stopping
    <3>2. resets = 0 /\ inflight = {} => qmode = "IDLE" /\ ~Recorded
      BY <3>1 DEF ModesInv, ModesFollow
    <3>3. emode' = "IDLE"
      BY <2>1, <2>4 DEF TargetMode, IsStop
    <3>4. Recorded' => Recorded
      BY <2>1, <2>2, <2>4 DEF Recorded
    <3>5. QED
      BY <2>1, <3>1, <3>2, <3>3, <3>4 DEF ModesInv, ModesFollow
  <2>5. CASE ~IsStop(c)
    <3>1. cur = c /\ c # None
      BY <2>1, <2>5 DEF OneInHand, StartedSteps
    <3>2. Recorded'
      BY <2>1, <2>2, <2>5, <3>1 DEF Recorded
    <3>3. inflight = {} => ~estop
      BY <2>1, <2>5 DEF InflightKnown, StartedSteps
    <3>4. resets = 0 /\ inflight = {} => \A d \in Cmds : ~PastClear(d)'
      BY <2>1, <2>2, <2>5, <3>3 DEF PastClear, StopLatched, Stopping, StopSteps, IsStop
    <3>5. QED
      BY <2>1, <3>1, <3>2, <3>3, <3>4 DEF ModesInv, ModesFollow
  <2>6. QED
    BY <2>4, <2>5
<1>12. ASSUME NEW c \in Cmds, FinishOne(c)
       PROVE  ModesInv'
  <2>1. /\ pc[c] = "finish" /\ pc' = [pc EXCEPT ![c] = "done"] /\ cur' = None
        /\ qmode' = IF c \in executed THEN TargetMode(kind[c]) ELSE qmode
        /\ UNCHANGED <<estop, resets, inflight, kind, emode, executed>>
    BY <1>12 DEF FinishOne, Go
  <2>2. cur = c /\ c # None /\ ~IsStop(c)
    BY <2>1 DEF OneInHand, StopsAreStops
  <2>3. Recorded <=> c \in executed
    BY <2>1, <2>2 DEF Recorded
  <2>4. ~Recorded'
    BY <2>1 DEF ExecutedPast, Recorded, TypeOK
  <2>5. \A d \in Cmds : PastClear(d)' <=> PastClear(d)
    BY <2>1, <2>2 DEF PastClear, IsStop, TypeOK
  <2>6. resets = 0 /\ ~estop => \A d \in Cmds : ~PastClear(d)
    BY DEF PastClear, StopLatched, Stopping, StopSteps
  <2>7. resets = 0 /\ inflight = {} => ModesFollow'
    <3>1. CASE c \in executed
      BY <2>1, <2>2, <2>3, <2>4, <2>5, <2>6, <3>1 DEF ModesInv, ModesFollow
    <3>2. CASE c \notin executed
      BY <2>1, <2>2, <2>3, <2>4, <2>5, <3>2 DEF ModesInv, ModesFollow
    <3>3. QED
      BY <3>1, <3>2
  <2>8. QED
    BY <2>1, <2>4, <2>7 DEF ModesInv
<1>13. ASSUME NEW c \in Cmds, NEW op \in Operations, NEW ok \in BOOLEAN, SkillReturns(c, op, ok)
       PROVE  ModesInv'
  BY <1>13, ResumeModes DEF SkillReturns, modesVars
<1>14. ASSUME NEW c \in Cmds, NEW op \in Operations, SkillTimeout(c, op)
       PROVE  ModesInv'
  BY <1>14, ResumeModes DEF SkillTimeout, modesVars
<1>15. ASSUME NEW d \in Drainers, DrainerTrigger(d)
       PROVE  ModesInv'
  <2>1. Latch /\ UNCHANGED <<pc, resets, kind, qmode, emode, cur, executed>>
    BY <1>15 DEF DrainerTrigger
  <2>2. QED
    BY <2>1, ModesKeptLatching DEF PastClear, IsStop
<1>16. QED
  BY <1>1, <1>2, <1>3, <1>4, <1>5, <1>6, <1>7, <1>7b, <1>8, <1>9, <1>10, <1>11, <1>12, <1>13, <1>14,
     <1>15 DEF Next, Environment, Handler, Loop

(* Outside a stop and a late release, the loop with nothing in its hand    *)
(* leaves the two modes equal.                                             *)
THEOREM ModesMeet == Spec => []ModesAgree
<1>1. Init => PathInv /\ ModesBase /\ ModesInv
  BY PathInit, StopInit, ModesInit DEF StopInv, PathInv, LineInv, ModesBase
<1>2. PathInv /\ ModesBase /\ ModesInv /\ [Next]_vars => (PathInv /\ ModesBase /\ ModesInv)'
  BY PathStep, InflightStep, LatchedStep, ModesStep DEF ModesBase, PathInv, LineInv
<1>3. ModesInv => ModesAgree
  <2> SUFFICES ASSUME ModesInv, Quiet, inflight = {}, resets = 0
               PROVE  qmode = emode
    BY DEF ModesAgree
  <2>1. ~Recorded /\ \A c \in Cmds : ~PastClear(c)
    BY DEF Quiet, Recorded, PastClear
  <2>2. QED
    BY <2>1 DEF ModesInv, ModesFollow
<1>4. QED
  BY <1>1, <1>2, <1>3, PTL DEF Spec

=============================================================================
