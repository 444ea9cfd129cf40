------------------------- MODULE ServiceConsoleProofs -------------------------
(***************************************************************************)
(* Theorems about ServiceConsole, for any number of requests and follow    *)
(* threads, any faults and any number of lost frames.                      *)
(***************************************************************************)
EXTENDS ServiceConsole, Go2ControllerProofs

USE AdapterAssumption, ControllerAssumption, ServiceAssumption
    DEF AdapterAssumption, ControllerAssumption, ServiceAssumption
USE DEF controllerVars, serviceVars

-----------------------------------------------------------------------------
(* The lock: whoever is served is at the head of the line, and only a      *)
(* request that is served sleeps in a command. So a stop, which does not   *)
(* look at the command under way, never meets one.                         *)

LineTyped == line \in Seq(Requests) /\ step \in [Requests -> {"new", "waiting", "serving", "refused", "done"}]
ServedIsHead == \A r \in Requests : step[r] = "serving" => line # <<>> /\ Head(line) = r
SleepIsServed == task # "none" => \E r \in Requests : step[r] = "serving"
EstopRests == estop => task = "none"

EstopInv ==
  /\ LineTyped
  /\ ServedIsHead
  /\ SleepIsServed
  /\ EstopRests
  /\ EstopSticks

(* A request that has just got the lock finds no command asleep.           *)
LEMMA LockMeansRest ==
  ASSUME EstopInv, NEW r \in Requests, HasLock(r)
  PROVE  task = "none" /\ \A q \in Requests : step[q] # "serving"
BY DEF EstopInv, ServedIsHead, SleepIsServed, HasLock

LEMMA EstopInit == Init => EstopInv
<1> SUFFICES ASSUME Init
             PROVE  EstopInv
  OBVIOUS
<1>1. estop = FALSE /\ task = "none" /\ line = <<>> /\ step = [r \in Requests |-> "new"]
  BY DEF Init, ControllerInit
<1>2. LineTyped
  BY <1>1 DEF LineTyped
<1>3. ServedIsHead /\ SleepIsServed
  BY <1>1 DEF ServedIsHead, SleepIsServed
<1>4. EstopRests /\ EstopSticks
  BY <1>1 DEF EstopRests, EstopSticks
<1>5. QED
  BY <1>2, <1>3, <1>4 DEF EstopInv

(* What a command does when it is served under no emergency stop leaves    *)
(* the emergency stop off.                                                 *)
LEMMA ServedKeepsEstop ==
  ASSUME NEW scan \in BOOLEAN, StartFollowFrontPerson(scan) \/ Hold
  PROVE  ~estop /\ estop' = estop
BY DEF StartFollowFrontPerson, StartFollowFrom, Hold

(* Only a command that sleeps wakes.                                       *)
LEMMA WakeFacts ==
  ASSUME Wake
  PROVE  task # "none" /\ estop' = estop
BY DEF Wake, AcquireSettled, LookAgain, GiveUp, FollowFails, FollowStarts, FollowSettled,
       IdleSettled, ManualSettled

LEMMA SurroundingsFacts ==
  ASSUME Surroundings
  PROVE  UNCHANGED <<owner, mode, estop, lost, manual, task, scanning, line, kind, step, expired, flags>>
BY DEF Surroundings, FollowThread, LateMoveArrives, ConnectionDrops

LEMMA EstopStep == EstopInv /\ [Next]_vars => EstopInv'
<1> SUFFICES ASSUME EstopInv, [Next]_vars
             PROVE  EstopInv'
  OBVIOUS
<1> USE DEF EstopInv, LineTyped, ServedIsHead, SleepIsServed, EstopRests, EstopSticks, Running
<1>1. ASSUME NEW r \in Requests, NEW k \in CommandKinds, Arrive(r, k)
      PROVE  EstopInv'
  <2>1. line' \in Seq(Requests) /\ (line # <<>> => Head(line') = Head(line)) /\ line' # <<>>
    BY <1>1 DEF Arrive
  <2>2. \A q \in Requests : step'[q] = "serving" <=> step[q] = "serving"
    BY <1>1 DEF Arrive
  <2>3. LineTyped' /\ ServedIsHead'
    BY <1>1, <2>1, <2>2 DEF Arrive
  <2>4. UNCHANGED controllerVars
    BY <1>1 DEF Arrive
  <2>5. QED
    BY <2>2, <2>3, <2>4
<1>2. ASSUME NEW r \in Requests, Expire(r)
      PROVE  EstopInv'
  BY <1>2 DEF Expire
<1>3. ASSUME NEW r \in Requests, Refuse(r)
      PROVE  EstopInv'
  <2>1. \A q \in Requests : step[q] # "serving"
    BY <1>3, LockMeansRest DEF Refuse
  <2>2. line' \in Seq(Requests) /\ UNCHANGED controllerVars
    BY <1>3 DEF Refuse, HasLock
  <2>3. step' = [step EXCEPT ![r] = "refused"]
    BY <1>3 DEF Refuse
  <2>4. QED
    BY <2>1, <2>2, <2>3
<1>4. ASSUME NEW r \in Requests, Serve(r)
      PROVE  EstopInv'
  <2>1. task = "none" /\ \A q \in Requests : step[q] # "serving"
    BY <1>4, LockMeansRest DEF Serve
  <2>2. line' = line /\ step' = [step EXCEPT ![r] = "serving"] /\ line # <<>> /\ Head(line) = r
    BY <1>4 DEF Serve, HasLock
  <2>3. LineTyped' /\ ServedIsHead' /\ step'[r] = "serving"
    BY <2>1, <2>2
  <2>4. CASE kind[r] = "mission.stop"
    <3>1. EmergencyStop
      BY <1>4, <2>4 DEF Serve
    <3>2. QED
      BY <2>1, <2>3, <3>1 DEF EmergencyStop
  <2>5. CASE kind[r] # "mission.stop"
    <3>1. StartFollowFrontPerson(TRUE) \/ StartFollowFrontPerson(FALSE) \/ Hold
      BY <1>4, <2>5 DEF Serve
    <3>2. ~estop /\ estop' = estop
      BY <3>1, ServedKeepsEstop
    <3>3. QED
      BY <2>3, <3>2
  <2>6. QED
    BY <2>4, <2>5
<1>5. ASSUME NEW r \in Requests, Answer(r)
      PROVE  EstopInv'
  <2>1. Head(line) = r /\ line # <<>> /\ task = "none" /\ UNCHANGED controllerVars
    BY <1>5 DEF Answer
  <2>2. step' = [step EXCEPT ![r] = "done"] /\ line' \in Seq(Requests)
    BY <1>5, <2>1 DEF Answer
  <2>3. \A q \in Requests : step'[q] # "serving"
    BY <2>1, <2>2
  <2>4. QED
    BY <2>1, <2>2, <2>3
<1>6. ASSUME CommandWakes
      PROVE  EstopInv'
  <2>1. task # "none" /\ estop' = estop /\ UNCHANGED <<line, step>>
    BY <1>6, WakeFacts DEF CommandWakes
  <2>2. QED
    BY <2>1
<1>7. ASSUME WatchdogTick
      PROVE  EstopInv'
  <2>1. mode \notin {"ESTOP", "DISCONNECTED"} /\ estop' = estop /\ task' = task
        /\ UNCHANGED <<line, step>>
    BY <1>7, TickMoves DEF WatchdogTick
  <2>2. QED
    BY <2>1
<1>8. ASSUME Stop
      PROVE  EstopInv'
  <2>1. mode' = "DISCONNECTED" /\ task' = task /\ estop' = estop /\ UNCHANGED <<line, step>>
    BY <1>8 DEF Stop, Shutdown, ShutdownFrom, EndTransition
  <2>2. QED
    BY <2>1
<1>9. ASSUME Surroundings
      PROVE  EstopInv'
  BY <1>9, SurroundingsFacts
<1>10. ASSUME UNCHANGED vars
       PROVE  EstopInv'
  BY <1>10 DEF vars
<1>11. QED
  BY <1>1, <1>2, <1>3, <1>4, <1>5, <1>6, <1>7, <1>8, <1>9, <1>10 DEF Next

(* EstopSticks for every instance: once a stop is served, the mode and the *)
(* velocity stay with it until the service is shut down.                   *)
THEOREM EstopIsFinal == Spec => []EstopSticks
<1>1. EstopInv => EstopSticks
  BY DEF EstopInv
<1>2. QED
  BY <1>1, EstopInit, EstopStep, PTL DEF Spec
-----------------------------------------------------------------------------
(* The whole invariant: the controller's, which holds because one request  *)
(* is served at a time, and what the service adds to it.                   *)

RequestsTyped ==
  /\ kind \in [Requests -> CommandKinds \union {"unsent"}]
  /\ expired \subseteq Requests
  /\ flags \subseteq {"scanning", "holding"}

(* The service never drives by hand.                                       *)
NoManual == mode # "MANUAL" /\ task # "toManual"

(* The server shuts the controller down when it has no request left.       *)
EndedEmpty == mode = "DISCONNECTED" => line = <<>>

Serving(r) == step[r] = "serving"

(* A scan goes through the acquisition with detect_only set, so it never   *)
(* comes to the follow; and it does not return to a follow that was on.    *)
ScansNeverFollow ==
  \A r \in Requests : Serving(r) /\ kind[r] = "scan.start" =>
    /\ task \in {"toAcquire", "looking"} => scanning
    /\ task # "toFollow"
    /\ ad.clean /\ task = "none" => mode # "FOLLOWING"

(* The flags of earlier commands survive only until the command that has   *)
(* begun the follow is answered.                                           *)
FollowsHaveNoFlag ==
  ad.clean /\ mode = "FOLLOWING" => flags = {} \/ (task = "none" /\ \E r \in Requests : Serving(r))

ConsoleInv ==
  /\ EstopInv
  /\ RequestsTyped
  /\ ControllerInv
  /\ NoManual
  /\ EndedEmpty
  /\ ScansNeverFollow
  /\ FollowsHaveNoFlag

LEMMA ConsoleInit == Init => ConsoleInv
<1> SUFFICES ASSUME Init
             PROVE  ConsoleInv
  OBVIOUS
<1>1. ControllerInit /\ mode \in {"IDLE", "ERROR"} /\ task = "none"
  BY DEF Init, ControllerInit
<1>2. RequestsTyped /\ line = <<>> /\ \A r \in Requests : step[r] = "new"
  BY DEF Init, RequestsTyped
<1>3. NoManual /\ EndedEmpty /\ ScansNeverFollow /\ FollowsHaveNoFlag
  BY <1>1, <1>2 DEF NoManual, EndedEmpty, ScansNeverFollow, FollowsHaveNoFlag, Serving
<1>4. QED
  BY <1>1, <1>2, <1>3, EstopInit, ControllerStarts DEF ConsoleInv

(* The requests' part of the state is typed after every step.              *)
LEMMA RequestsStep == RequestsTyped /\ [Next]_vars => RequestsTyped'
<1> SUFFICES ASSUME RequestsTyped, [Next]_vars
             PROVE  RequestsTyped'
  OBVIOUS
<1> USE DEF RequestsTyped
<1>1. CASE \E r \in Requests, k \in CommandKinds : Arrive(r, k)
  BY <1>1 DEF Arrive
<1>2. CASE \E r \in Requests : Expire(r)
  BY <1>2 DEF Expire
<1>3. CASE \E r \in Requests : Refuse(r) \/ Serve(r) \/ Answer(r)
  BY <1>3 DEF Refuse, Serve, Answer, FlagsAfter
<1>4. CASE CommandWakes \/ WatchdogTick \/ Stop
  BY <1>4 DEF CommandWakes, WatchdogTick, Stop
<1>5. CASE Surroundings
  BY <1>5, SurroundingsFacts
<1>6. CASE UNCHANGED vars
  BY <1>6 DEF vars
<1>7. QED
  BY <1>1, <1>2, <1>3, <1>4, <1>5, <1>6 DEF Next

(* What serving a request does to the controller, by its command.          *)
LEMMA ServeStops ==
  ASSUME ConsoleInv, NEW r \in Requests, Serve(r), kind[r] = "mission.stop"
  PROVE  EmergencyStop /\ task = "none" /\ ControllerInv' /\ (ad'.moving => ad.moving)
<1>1. EmergencyStop /\ task = "none"
  BY LockMeansRest DEF Serve, ConsoleInv
<1>2. QED
  BY <1>1, EmergencyStopInv DEF ConsoleInv

LEMMA ServeOthers ==
  ASSUME ConsoleInv, NEW r \in Requests, Serve(r), kind[r] # "mission.stop"
  PROVE  /\ ControllerInv'
         /\ ~estop /\ UNCHANGED <<estop, mode>>
         /\ ad'.clean => ad.clean
         /\ ad'.clean /\ mode = "FOLLOWING" => task' # "none"
         /\ task' \in {"none", "toAcquire", "toIdle"}
         /\ kind[r] = "scan.start" /\ task' = "toAcquire" => scanning'
<1>1. ControllerInv /\ Calmed(ad, ad) /\ task = "none"
  BY LockMeansRest, InvFacts, CalmReflexive DEF ConsoleInv, Serve
<1>2. ~estop /\ UNCHANGED <<estop, mode>>
  BY DEF Serve, StartFollowFrontPerson, StartFollowFrom, Hold
<1>3. ASSUME NEW scan \in BOOLEAN, StartFollowFrontPerson(scan), kind[r] = "scan.start" => scan
      PROVE  /\ ControllerInv'
             /\ ad'.clean => ad.clean
             /\ ad'.clean /\ mode = "FOLLOWING" => task' # "none"
             /\ task' \in {"none", "toAcquire", "toIdle"}
             /\ kind[r] = "scan.start" /\ task' = "toAcquire" => scanning'
  <2>1. StartFollowFrom(ad, scan)
    BY <1>3 DEF StartFollowFrontPerson
  <2>2. QED
    BY <1>1, <1>3, <2>1, StartFollowFromInv
<1>4. CASE kind[r] = "scan.start"
  BY <1>2, <1>3, <1>4 DEF Serve
<1>5. CASE kind[r] = "follow.start"
  BY <1>2, <1>3, <1>5 DEF Serve
<1>6. CASE kind[r] \notin {"scan.start", "follow.start"}
  <2>1. HoldFrom(ad, mode) /\ UNCHANGED <<owner, mode, estop, lost, scanning>>
    BY <1>6 DEF Serve, Hold
  <2>2. QED
    BY <1>1, <1>2, <1>6, <2>1, HoldInv
<1>7. QED
  BY <1>4, <1>5, <1>6

(* A step that only moves the requests along.                              *)
Moves(r) == (\E k \in CommandKinds : Arrive(r, k)) \/ Expire(r) \/ Refuse(r) \/ Answer(r)

LEMMA MovesFacts ==
  ASSUME ConsoleInv, NEW r \in Requests, Moves(r)
  PROVE  /\ UNCHANGED controllerVars /\ ControllerInv'
         /\ \A q \in Requests : Serving(q)' => Serving(q) /\ kind'[q] = kind[q]
<1>1. UNCHANGED controllerVars
  BY DEF Moves, Arrive, Expire, Refuse, Answer
<1>2. \A q \in Requests : Serving(q)' => Serving(q) /\ kind'[q] = kind[q]
  BY DEF ConsoleInv, EstopInv, LineTyped, RequestsTyped, Moves, Serving, Arrive, Expire, Refuse, Answer
<1>3. QED
  BY <1>1, <1>2, ControllerStutters DEF ConsoleInv

LEMMA ControllerStep ==
  ASSUME ConsoleInv, [Next]_vars
  PROVE  ControllerInv'
<1>1. ASSUME NEW r \in Requests, Moves(r)
      PROVE  ControllerInv'
  BY <1>1, MovesFacts
<1>2. ASSUME NEW r \in Requests, Serve(r)
      PROVE  ControllerInv'
  BY <1>2, ServeStops, ServeOthers
<1>3. CASE CommandWakes
  BY <1>3, WakeInv DEF CommandWakes, ConsoleInv
<1>4. CASE WatchdogTick
  BY <1>4, TickInv DEF WatchdogTick, ConsoleInv
<1>5. CASE Stop
  BY <1>5, ShutdownInv, InvFacts, CalmReflexive DEF Stop, Shutdown, ConsoleInv
<1>6. CASE Surroundings
  BY <1>6, OutsideInv DEF Surroundings, Outside, ConsoleInv
<1>7. CASE UNCHANGED vars
  BY <1>7, ControllerStutters DEF vars, ConsoleInv
<1>8. QED
  BY <1>1, <1>2, <1>3, <1>4, <1>5, <1>6, <1>7 DEF Next, Moves

(* What the service adds, after each step.                                 *)
LEMMA MovesAdds ==
  ASSUME ConsoleInv, NEW r \in Requests, Moves(r)
  PROVE  (NoManual /\ EndedEmpty /\ ScansNeverFollow /\ FollowsHaveNoFlag)'
<1> USE DEF ConsoleInv
<1>1. /\ UNCHANGED controllerVars
      /\ \A q \in Requests : Serving(q)' => Serving(q) /\ kind'[q] = kind[q]
  BY MovesFacts
<1>2. NoManual' /\ ScansNeverFollow'
  BY <1>1 DEF NoManual, ScansNeverFollow
<1>3. EndedEmpty'
  <2>1. CASE \E k \in CommandKinds : Arrive(r, k)
    BY <2>1 DEF Arrive, Running, EndedEmpty
  <2>2. CASE Expire(r)
    BY <2>2 DEF Expire, EndedEmpty
  <2>3. CASE Refuse(r) \/ Answer(r)
    <3>1. line # <<>>
      BY <2>3 DEF Refuse, Answer, HasLock, EstopInv, ServedIsHead
    <3>2. QED
      BY <1>1, <3>1 DEF EndedEmpty
  <2>4. QED
    BY <2>1, <2>2, <2>3 DEF Moves
<1>4. FollowsHaveNoFlag'
  <2>1. CASE (\E k \in CommandKinds : Arrive(r, k)) \/ Expire(r) \/ Refuse(r)
    <3>1. flags' = flags /\ \A q \in Requests : Serving(q) => Serving(q)'
      BY <2>1 DEF Arrive, Expire, Refuse, HasLock, Serving, EstopInv, LineTyped
    <3>2. QED
      BY <1>1, <3>1 DEF FollowsHaveNoFlag
  <2>2. CASE Answer(r)
    <3>1. Serving(r) /\ task = "none" /\ flags' \in FlagsAfter(kind[r])
      BY <2>2 DEF Answer, Serving
    <3>2. CASE ad.clean /\ mode = "FOLLOWING"
      <4>1. kind[r] # "scan.start"
        BY <3>1, <3>2 DEF ScansNeverFollow
      <4>2. flags' = {}
        BY <3>1, <3>2, <4>1 DEF FlagsAfter
      <4>3. QED
        BY <4>2 DEF FollowsHaveNoFlag
    <3>3. QED
      BY <1>1, <3>2 DEF FollowsHaveNoFlag
  <2>3. QED
    BY <2>1, <2>2 DEF Moves
<1>5. QED
  BY <1>2, <1>3, <1>4

LEMMA ServeAdds ==
  ASSUME ConsoleInv, NEW r \in Requests, Serve(r)
  PROVE  (NoManual /\ EndedEmpty /\ ScansNeverFollow /\ FollowsHaveNoFlag)'
<1> USE DEF ConsoleInv
<1>1. /\ task = "none" /\ \A q \in Requests : ~Serving(q)
      /\ line # <<>> /\ UNCHANGED <<line, kind, flags>>
      /\ \A q \in Requests : Serving(q)' => q = r
  BY LockMeansRest DEF Serve, HasLock, Serving, EstopInv, LineTyped
<1>2. ad.clean /\ mode = "FOLLOWING" => flags = {}
  BY <1>1 DEF FollowsHaveNoFlag
<1>3. CASE kind[r] = "mission.stop"
  <2>1. mode' = "ESTOP" /\ task' = "none"
    BY <1>1, <1>3, ServeStops DEF EmergencyStop
  <2>2. QED
    BY <1>1, <1>3, <2>1 DEF NoManual, EndedEmpty, ScansNeverFollow, FollowsHaveNoFlag
<1>4. CASE kind[r] # "mission.stop"
  <2>1. /\ mode' = mode /\ (ad'.clean => ad.clean)
        /\ ad'.clean /\ mode = "FOLLOWING" => task' # "none"
        /\ task' \in {"none", "toAcquire", "toIdle"}
        /\ kind[r] = "scan.start" /\ task' = "toAcquire" => scanning'
    BY <1>4, ServeOthers
  <2>2. NoManual' /\ EndedEmpty'
    BY <1>1, <2>1 DEF NoManual, EndedEmpty
  <2>3. ScansNeverFollow'
    BY <1>1, <2>1 DEF ScansNeverFollow
  <2>4. FollowsHaveNoFlag'
    BY <1>1, <1>2, <2>1 DEF FollowsHaveNoFlag
  <2>5. QED
    BY <2>2, <2>3, <2>4
<1>5. QED
  BY <1>3, <1>4

LEMMA WakeAdds ==
  ASSUME ConsoleInv, CommandWakes
  PROVE  (NoManual /\ EndedEmpty /\ ScansNeverFollow /\ FollowsHaveNoFlag)'
<1> USE DEF ConsoleInv
<1>1. /\ mode' = "FOLLOWING" => task = "toFollow" /\ task' = "none"
      /\ mode' = "MANUAL" \/ task' = "toManual" => task = "toManual"
      /\ task' \in {"toAcquire", "looking"} => scanning' = scanning /\ task \in {"toAcquire", "looking"}
      /\ task' = "toFollow" => task = "looking" /\ ~scanning
  BY WakeMoves DEF CommandWakes
<1>2. task # "none" /\ UNCHANGED serviceVars
  BY WakeFacts DEF CommandWakes
<1>3. PICK r \in Requests : Serving(r)
  BY <1>2 DEF EstopInv, SleepIsServed, Serving
<1>4. \A q \in Requests : Serving(q)' = Serving(q)
  BY <1>2 DEF Serving
<1>5. NoManual'
  BY <1>1 DEF NoManual
<1>6. EndedEmpty'
  <2>1. line # <<>>
    BY <1>3 DEF EstopInv, ServedIsHead, Serving
  <2>2. mode' # "DISCONNECTED"
    <3>1. mode # "DISCONNECTED"
      BY <2>1 DEF EndedEmpty
    <3>2. CASE AcquireSettled \/ FollowSettled \/ IdleSettled \/ ManualSettled
      BY <3>2, SettleLegal
    <3>3. CASE LookAgain \/ GiveUp \/ FollowFails \/ FollowStarts
      BY <3>1, <3>3 DEF LookAgain, GiveUp, FollowFails, FollowStarts
    <3>4. QED
      BY <3>2, <3>3 DEF CommandWakes, Wake
  <2>3. QED
    BY <2>2 DEF EndedEmpty
<1>7. ScansNeverFollow'
  BY <1>1, <1>2, <1>4 DEF ScansNeverFollow
<1>8. FollowsHaveNoFlag'
  BY <1>1, <1>3, <1>4 DEF FollowsHaveNoFlag
<1>9. QED
  BY <1>5, <1>6, <1>7, <1>8

LEMMA OthersAdd ==
  ASSUME ConsoleInv, WatchdogTick \/ Stop \/ Surroundings
  PROVE  (NoManual /\ EndedEmpty /\ ScansNeverFollow /\ FollowsHaveNoFlag)'
<1> USE DEF ConsoleInv
<1>1. UNCHANGED serviceVars /\ \A q \in Requests : Serving(q)' = Serving(q)
  BY DEF WatchdogTick, Stop, Surroundings, Serving
<1>2. CASE WatchdogTick
  <2>1. ad'.clean => ad.clean
    BY <1>2, TickInv DEF WatchdogTick
  <2>2. UNCHANGED <<task, scanning>> /\ mode # "DISCONNECTED" /\ mode' \in {mode, "IDLE", "ERROR"}
    BY <1>2, TickMoves DEF WatchdogTick
  <2>3. QED
    BY <1>1, <2>1, <2>2 DEF NoManual, EndedEmpty, ScansNeverFollow, FollowsHaveNoFlag
<1>3. CASE Stop
  <2>1. line = <<>> /\ mode' = "DISCONNECTED" /\ task' = task
    BY <1>3 DEF Stop, Shutdown, ShutdownFrom, EndTransition
  <2>2. \A q \in Requests : ~Serving(q)
    BY <2>1 DEF EstopInv, ServedIsHead, Serving
  <2>3. QED
    BY <1>1, <2>1, <2>2 DEF NoManual, EndedEmpty, ScansNeverFollow, FollowsHaveNoFlag
<1>4. CASE Surroundings
  <2>1. ad'.clean => ad.clean
    BY <1>4, OutsideInv DEF Surroundings, Outside
  <2>2. UNCHANGED <<mode, task, scanning>>
    BY <1>4, SurroundingsFacts
  <2>3. QED
    BY <1>1, <2>1, <2>2 DEF NoManual, EndedEmpty, ScansNeverFollow, FollowsHaveNoFlag
<1>5. QED
  BY <1>2, <1>3, <1>4

LEMMA ConsoleStep == ConsoleInv /\ [Next]_vars => ConsoleInv'
<1> SUFFICES ASSUME ConsoleInv, [Next]_vars
             PROVE  ConsoleInv'
  OBVIOUS
<1>1. EstopInv' /\ RequestsTyped' /\ ControllerInv'
  BY EstopStep, RequestsStep, ControllerStep DEF ConsoleInv
<1>2. (NoManual /\ EndedEmpty /\ ScansNeverFollow /\ FollowsHaveNoFlag)'
  <2>1. CASE UNCHANGED vars
    BY <2>1 DEF vars, ConsoleInv, NoManual, EndedEmpty, ScansNeverFollow, FollowsHaveNoFlag, Serving
  <2>2. CASE CommandWakes
    BY <2>2, WakeAdds
  <2>3. CASE WatchdogTick \/ Stop \/ Surroundings
    BY <2>3, OthersAdd
  <2>4. ASSUME NEW r \in Requests, Moves(r) \/ Serve(r)
        PROVE  (NoManual /\ EndedEmpty /\ ScansNeverFollow /\ FollowsHaveNoFlag)'
    BY <2>4, MovesAdds, ServeAdds
  <2>5. QED
    BY <2>1, <2>2, <2>3, <2>4 DEF Next, Moves
<1>3. QED
  BY <1>1, <1>2 DEF ConsoleInv

-----------------------------------------------------------------------------
(* The theorems. The whole invariant holds of every reachable state.       *)
THEOREM ConsoleIsInvariant == Spec => []ConsoleInv
BY ConsoleInit, ConsoleStep, PTL DEF Spec

(* The typing of every variable, the adapter's record included.            *)
THEOREM TypeCorrect == Spec => []TypeOK
<1>1. ConsoleInv => TypeOK
  BY DEF ConsoleInv, ControllerInv, RequestsTyped, EstopInv, LineTyped, TypeOK
<1>2. QED
  BY <1>1, ConsoleIsInvariant, PTL

(* CleanHandover for every instance: nothing moves the robot while a       *)
(* command settles, because each command zeroes before its settle and      *)
(* leaves no follow that could send a velocity in between.                 *)
THEOREM VelocityChangesHandsAtRest == Spec => []CleanHandover
<1>1. ConsoleInv => CleanHandover
  BY DEF ConsoleInv, ControllerInv, HandoverInv, OwnerMoves, NoManual, CleanHandover,
         AtRestUnlessFollowing
<1>2. QED
  BY <1>1, ConsoleIsInvariant, PTL

(* Every step keeps it: the service starts one command at a time.         *)
LEMMA LeftStep == ConsoleInv /\ LeftInv /\ [Next]_vars => LeftInv'
<1> SUFFICES ASSUME ConsoleInv, LeftInv, [Next]_vars
             PROVE  LeftInv'
  OBVIOUS
<1> USE DEF ConsoleInv
<1>1. ASSUME UNCHANGED controllerVars
      PROVE  LeftInv'
  BY <1>1 DEF LeftInv, NoFollowBeside
<1>2. ASSUME NEW r \in Requests, Moves(r)
      PROVE  LeftInv'
  BY <1>1, <1>2, MovesFacts
<1>3. ASSUME NEW r \in Requests, Serve(r)
      PROVE  LeftInv'
  <2>1. CASE kind[r] = "mission.stop"
    <3>1. mode' = "ESTOP" /\ task = "none" /\ UNCHANGED <<task, scanning>>
      BY <1>3, <2>1, ServeStops DEF EmergencyStop
    <3>2. QED
      BY <3>1 DEF LeftInv, NoFollowBeside
  <2>2. CASE kind[r] # "mission.stop"
    <3>1. StartFollowFrom(ad, TRUE) \/ StartFollowFrom(ad, FALSE) \/ Hold
      BY <1>3, <2>2 DEF Serve, StartFollowFrontPerson
    <3>2. QED
      BY <3>1, StartFollowFromLeaves, HoldLeaves
  <2>3. QED
    BY <2>1, <2>2
<1>4. CASE CommandWakes
  BY <1>4, WakeLeaves DEF CommandWakes
<1>5. CASE WatchdogTick
  BY <1>5, TickLeaves DEF WatchdogTick
<1>6. CASE Stop
  <2>1. mode' = "DISCONNECTED" /\ task = "none" /\ UNCHANGED <<task, scanning>>
    BY <1>6 DEF Stop, Shutdown, ShutdownFrom, EndTransition
  <2>2. QED
    BY <2>1 DEF LeftInv, NoFollowBeside
<1>7. CASE Surroundings
  BY <1>7, OutsideLeaves DEF Surroundings, Outside
<1>8. CASE UNCHANGED vars
  BY <1>1, <1>8 DEF vars
<1>9. QED
  BY <1>2, <1>3, <1>4, <1>5, <1>6, <1>7, <1>8 DEF Next, Moves

(* CommandLeavesNothing for every instance, the failing zero included:     *)
(* whatever fails in a command, it returns with detect_only off, and if it *)
(* returns in ACQUIRING_TARGET then by a fault, without a follow, and with *)
(* a velocity that nobody owns.                                            *)
THEOREM NothingIsLeft == Spec => []CommandLeavesNothing
<1>1. Init => LeftInv
  BY LeftStarts DEF Init
<1>2. ConsoleInv /\ LeftInv => CommandLeavesNothing
  BY DEF ConsoleInv, ControllerInv, ControllerTypeOK, AcquiringSleeps, LeftInv, CommandLeavesNothing
<1>3. QED
  BY <1>1, <1>2, LeftStep, ConsoleIsInvariant, PTL DEF Spec

(* StateTells for every instance: under a follow no flag is left, and an   *)
(* error is one without a connection, where the flags are not looked at.   *)
THEOREM StateIsTold == Spec => []StateTells
<1>1. ConsoleInv => StateTells
  <2> SUFFICES ASSUME ConsoleInv, \A r \in Requests : Serving(r) => task # "none"
               PROVE  /\ ad.clean /\ mode = "FOLLOWING" => Told = "following"
                      /\ Running /\ mode = "ERROR" => Told = "error"
    BY DEF StateTells, Serving
  <2>1. Running /\ mode # "ESTOP" => estop = FALSE
    BY DEF ConsoleInv, EstopInv, EstopSticks, ControllerInv, ControllerTypeOK
  <2>2. ASSUME ad.clean, mode = "FOLLOWING"
        PROVE  Told = "following"
    <3>1. estop = FALSE /\ flags = {}
      BY <2>1, <2>2 DEF Running, ConsoleInv, FollowsHaveNoFlag
    <3>2. QED
      BY <2>2, <3>1 DEF Told
  <2>3. ASSUME Running, mode = "ERROR"
        PROVE  Told = "error"
    <3>1. estop = FALSE /\ ~Connected(ad)
      BY <2>1, <2>3 DEF ConsoleInv, ControllerInv, ErrorMeansLost
    <3>2. QED
      BY <2>3, <3>1 DEF Told
  <2>4. QED
    BY <2>2, <2>3
<1>2. QED
  BY <1>1, ConsoleIsInvariant, PTL

(* LegalModes for every instance: what a tick does to the mode during a    *)
(* settle never makes the end of the settle leave the table, but for an    *)
(* ERROR of a connection that is lost; an emergency stop may come in any   *)
(* mode of a running service.                                              *)
THEOREM ModesAreLegal == Spec => LegalModes
<1>1. ConsoleInv /\ [Next]_vars => [Legal]_vars
  <2> SUFFICES ASSUME ConsoleInv, Next
               PROVE  Legal
    OBVIOUS
  <2>1. ASSUME NEW r \in Requests, Moves(r)
        PROVE  Legal
    BY <2>1, MovesFacts DEF Legal
  <2>2. ASSUME NEW r \in Requests, Serve(r)
        PROVE  Legal
    <3>1. CASE kind[r] = "mission.stop"
      <4>1. mode' = "ESTOP"
        BY <2>2, <3>1, ServeStops DEF EmergencyStop
      <4>2. mode \in Modes \ {"DISCONNECTED"}
        BY <2>2 DEF Serve, HasLock, ConsoleInv, EndedEmpty, ControllerInv, ControllerTypeOK
      <4>3. QED
        BY <4>1, <4>2 DEF Legal, Allowed, Modes
    <3>2. CASE kind[r] # "mission.stop"
      BY <2>2, <3>2, ServeOthers DEF Legal
    <3>3. QED
      BY <3>1, <3>2
  <2>3. CASE CommandWakes
    BY <2>3, WakeLegal DEF CommandWakes, ConsoleInv
  <2>4. CASE WatchdogTick
    BY <2>4, TickLegal DEF WatchdogTick, ConsoleInv
  <2>5. CASE Stop
    BY <2>5 DEF Stop, Shutdown, ShutdownFrom, EndTransition, Legal
  <2>6. CASE Surroundings
    BY <2>6, SurroundingsFacts DEF Legal
  <2>7. QED
    BY <2>1, <2>2, <2>3, <2>4, <2>5, <2>6 DEF Next, Moves
<1>2. [][Legal]_vars <=> LegalModes
  BY DEF Legal, LegalModes
<1>3. QED
  BY <1>1, <1>2, ConsoleIsInvariant, PTL DEF Spec

(* NoNewMoveUnderEstop for every instance: a tick needs a mode that an     *)
(* emergency stop has left, a command that sleeps needs a request that is  *)
(* served, and what is left never sends a Move.                            *)
THEOREM NoNewMove == Spec => NoNewMoveUnderEstop
<1>1. ConsoleInv /\ [Next]_vars => [estop /\ ~ad.moving /\ ad'.moving => ad.late]_vars
  <2> SUFFICES ASSUME ConsoleInv, Next, estop
               PROVE  ad'.moving => ad.moving \/ ad.late
    OBVIOUS
  <2>1. ASSUME NEW r \in Requests, Moves(r)
        PROVE  ad' = ad
    BY <2>1, MovesFacts
  <2>2. ASSUME NEW r \in Requests, Serve(r)
        PROVE  ad'.moving => ad.moving
    <3>1. kind[r] = "mission.stop"
      BY <2>2, ServeOthers
    <3>2. QED
      BY <2>2, <3>1, ServeStops
  <2>3. ~CommandWakes
    BY WakeFacts DEF CommandWakes, ConsoleInv, EstopInv, EstopRests
  <2>4. ~WatchdogTick
    BY TickMoves DEF WatchdogTick, ConsoleInv, EstopInv, EstopSticks, Running
  <2>5. ASSUME Stop
        PROVE  ad'.moving => ad.moving \/ ad.late
    BY <2>5, ShutdownInv, InvFacts, CalmReflexive DEF Stop, Shutdown, ConsoleInv
  <2>6. ASSUME Surroundings
        PROVE  ad'.moving => ad.moving \/ ad.late
    BY <2>6, OutsideInv DEF Surroundings, Outside, ConsoleInv
  <2>7. QED
    BY <2>1, <2>2, <2>3, <2>4, <2>5, <2>6 DEF Next, Moves
<1>2. QED
  BY <1>1, ConsoleIsInvariant, PTL DEF Spec, NoNewMoveUnderEstop
=============================================================================
