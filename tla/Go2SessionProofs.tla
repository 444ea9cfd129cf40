---------------------------- MODULE Go2SessionProofs ----------------------------
(***************************************************************************)
(* The session sends a Move only in a mode that allows it, and it does to  *)
(* the robot and tells the controller what Go2Adapter says, for any number *)
(* of coroutines on its loop and whatever the robot answers.               *)
(***************************************************************************)
EXTENDS Go2Session, SequenceTheorems, TLAPS

(* While the robot's last named mode forbids a Move, neither of the two    *)
(* reasons to allow one is there: a cached normal, however old, or a       *)
(* selection by the operator.                                              *)
GateShut == barred => ~selected /\ cached # "normal"

IInv == TypeOK /\ GateShut

Busy == Calls \union Awaits

LEMMA BusyFacts ==
  /\ "idle" \notin Busy
  /\ "moving" \notin Calls
BY DEF Busy, Calls, Awaits

-----------------------------------------------------------------------------
(* The scripts are sequences of steps, the longest that of a preflight.    *)

LEMMA Scripts ==
  /\ Disconnect \in Seq(Steps) /\ Len(Disconnect) = 5
  /\ Close \in Seq(Steps) /\ Len(Close) = 2
  /\ <<"connect">> \in Seq(Steps) /\ Len(<<"connect">>) = 1
  /\ <<"connect">> \o Preflight \in Seq(Steps) /\ Len(<<"connect">> \o Preflight) = 9
  /\ <<>> \in Seq(Steps) /\ Len(<<>>) = 0
<1> DEFINE first == <<"frames", "stop", "stop">>
<1>1. Disconnect \in Seq(Steps) /\ Len(Disconnect) = 5
      BY DEF Disconnect, Steps, Calls
<1>2. Close \in Seq(Steps) /\ Len(Close) = 2
      BY DEF Close, Steps, Calls
<1>3. <<"connect">> \in Seq(Steps) /\ Len(<<"connect">>) = 1
      BY DEF Steps, Calls
<1>4. first \in Seq(Steps) /\ Len(first) = 3
      BY DEF Steps, Calls
<1>5. \A s, t \in Seq(Steps) : s \o t \in Seq(Steps) /\ Len(s \o t) = Len(s) + Len(t)
      BY ConcatProperties
<1> HIDE DEF first
<1>6. Preflight \in Seq(Steps) /\ Len(Preflight) = 8
  <2>1. Preflight = first \o Disconnect
        BY DEF Preflight, first
  <2>2. /\ first \o Disconnect \in Seq(Steps)
        /\ Len(first \o Disconnect) = Len(first) + Len(Disconnect)
        BY <1>1, <1>4, <1>5, Zenon
  <2> QED BY <1>1, <1>4, <2>1, <2>2
<1>7. <<"connect">> \o Preflight \in Seq(Steps) /\ Len(<<"connect">> \o Preflight) = 9
  <2> DEFINE begin == <<"connect">>
  <2>1. begin \in Seq(Steps) /\ Len(begin) = 1
        BY <1>3
  <2> HIDE DEF begin
  <2>2. /\ begin \o Preflight \in Seq(Steps)
        /\ Len(begin \o Preflight) = Len(begin) + Len(Preflight)
        BY <1>5, <1>6, <2>1, Zenon
  <2>3. begin \o Preflight \in Seq(Steps) /\ Len(begin \o Preflight) = 9
        BY <1>6, <2>1, <2>2
  <2> QED BY <2>3, Zenon DEF begin
<1> QED BY <1>1, <1>2, <1>3, <1>7, EmptySeq

LEMMA RequestScripts ==
  ASSUME NEW s \in Requests
  PROVE  s \in Seq(Steps) /\ Len(s) <= 9
<1>1. CASE s = Disconnect
      BY <1>1, Scripts
<1>2. CASE s \in {<<"move">>, <<"stop">>, <<"mode">>}
      BY <1>2 DEF Steps, Calls
<1>3. CASE s = <<"normal", "avoid">>
      BY <1>3 DEF Steps, Calls
<1> QED BY <1>1, <1>2, <1>3 DEF Requests

(* The rest of a script is a script.                                       *)
LEMMA RestOfScript ==
  ASSUME script \in Seq(Steps), Len(script) <= 9, script # <<>>
  PROVE  Tail(script) \in Seq(Steps) /\ Len(Tail(script)) <= 9
BY HeadTailProperties, LenProperties

-----------------------------------------------------------------------------
(* What an end, a wait and a publication leave of the types.               *)

Calling ==
  /\ call \in Coros \union {NoCoro}
  /\ at \in [Coros -> Busy \union {"idle"}]
  /\ call # NoCoro => at[call] # "idle"
  /\ told \in BOOLEAN
  /\ before \in {"moving", "still", "unknown"}

LEMMA EndsTypes ==
  ASSUME Calling, NEW c \in Coros, NEW ok \in BOOLEAN, Ends(c, ok)
  PROVE  Calling' /\ at' = [at EXCEPT ![c] = "idle"]
BY SessionAssumption DEF Calling, Ends, Returns

LEMMA WaitsTypes ==
  ASSUME Calling, NEW c \in Coros, NEW where \in Awaits, Waits(c, where)
  PROVE  Calling' /\ at' = [at EXCEPT ![c] = where]
BY BusyFacts DEF Calling, Waits, Busy

LEMMA PublishesTypes ==
  ASSUME Calling, NEW c \in Coros, NEW where \in Awaits, NEW moves \in BOOLEAN,
         moving \in BOOLEAN, Publishes(c, where, moves)
  PROVE  /\ Calling' /\ moving' \in BOOLEAN
         /\ at' \in {[at EXCEPT ![c] = "idle"], [at EXCEPT ![c] = where]}
BY EndsTypes, WaitsTypes DEF Publishes

(* Only an allowed Move is sent.                                           *)
LEMMA DecidesTypes ==
  ASSUME Calling, NEW c \in Coros, NEW name, moving \in BOOLEAN, Decides(c, name)
  PROVE  /\ Calling' /\ moving' \in BOOLEAN
         /\ at' \in {[at EXCEPT ![c] = w] : w \in {"idle", "moving", "refusing"}}
         /\ at' = [at EXCEPT ![c] = "moving"] => Allows(name) \/ at[c] = "moving"
<1>1. "moving" \in Awaits /\ "refusing" \in Awaits
      BY DEF Awaits
<1>2. CASE Allows(name)
      BY <1>1, <1>2, PublishesTypes DEF Decides, SendsMove
<1>3. CASE ~Allows(name)
  <2>1. /\ Calling' /\ moving' \in BOOLEAN
        /\ at' \in {[at EXCEPT ![c] = "idle"], [at EXCEPT ![c] = "refusing"]}
        BY <1>1, <1>3, PublishesTypes DEF Decides, SendsStop
  <2>2. at'[c] # "moving"
        BY <2>1 DEF Calling
  <2> QED BY <2>1, <2>2 DEF Calling
<1> QED BY <1>2, <1>3

(* What an answer leaves of the mode: a gate that is shut stays so unless  *)
(* the robot named normal.                                                 *)
LEMMA LearnsTypes ==
  ASSUME fresh \in BOOLEAN, selected \in BOOLEAN, barred \in BOOLEAN, GateShut,
         NEW name \in Names, Learns(name)
  PROVE  /\ cached' \in Names /\ {fresh', selected', barred'} \subseteq BOOLEAN
         /\ GateShut'
         /\ Allows(name) => ~barred'
BY DEF Learns, GateShut, Names, Allows

-----------------------------------------------------------------------------
(* The invariant, action by action.                                        *)

LEMMA InitIInv == Init => IInv
<1> SUFFICES ASSUME Init PROVE IInv
    OBVIOUS
<1>1. script \in Seq(Steps) /\ Len(script) <= 9
      BY Scripts DEF Init
<1> QED BY <1>1 DEF Init, IInv, TypeOK, GateShut, Names

LEMMA StepIInv == IInv /\ [Next]_vars => IInv'
<1> SUFFICES ASSUME IInv, [Next]_vars PROVE IInv'
    OBVIOUS
<1>0. /\ Calling
      /\ script \in Seq(Steps) /\ Len(script) <= 9
      /\ phase \in {"none", "connecting", "failed", "open", "closing"}
      /\ purpose \in {"drive", "preflight"}
      /\ cached \in Names
      /\ fresh \in BOOLEAN /\ selected \in BOOLEAN /\ moving \in BOOLEAN /\ barred \in BOOLEAN
      /\ GateShut
      BY DEF IInv, TypeOK, Calling, Busy
<1> DEFINE ModeTyped == cached \in Names /\ {fresh, selected, barred} \subseteq BOOLEAN
           Scripted == script \in Seq(Steps) /\ Len(script) <= 9
           Placed == phase \in {"none", "connecting", "failed", "open", "closing"}
                     /\ purpose \in {"drive", "preflight"}
           Goal == Calling' /\ moving' \in BOOLEAN /\ ModeTyped' /\ GateShut' /\ Scripted' /\ Placed'
<1>a. SUFFICES Goal
      BY DEF IInv, TypeOK, Calling, Busy
<1>m. UNCHANGED mode => ModeTyped' /\ GateShut'
      BY <1>0 DEF mode, GateShut
<1>s. UNCHANGED script => Scripted'
      BY <1>0
<1>p. UNCHANGED <<phase, purpose>> => Placed'
      BY <1>0
<1>c. UNCHANGED <<call, at, told, before>> => Calling'
      BY <1>0 DEF Calling
<1>v. UNCHANGED moving => moving' \in BOOLEAN
      BY <1>0
<1>l. \A name \in Names : Learns(name) => ModeTyped' /\ GateShut'
      BY <1>0, LearnsTypes
<1>i. {"moving", "refusing", "stopping", "avoiding"} \subseteq Awaits
      BY DEF Awaits
<1>1. CASE \E p \in {"drive", "preflight"} : Connect(p)
  <2> PICK p \in {"drive", "preflight"} : Connect(p)
      BY <1>1
  <2>1. ModeTyped' /\ GateShut'
        BY DEF Connect, GateShut, Names
  <2>2. Scripted'
        BY Scripts DEF Connect
  <2> QED BY <2>1, <2>2, <1>c, <1>v DEF Connect
<1>2. CASE Request
      BY <1>2, RequestScripts, <1>c, <1>m, <1>p, <1>v DEF Request
<1>3. CASE WatchFrames
  <2>1. Scripted'
    <3>1. CASE script' = Tail(script)
          BY <1>3, <3>1, <1>0, RestOfScript DEF WatchFrames
    <3>2. CASE script' = Disconnect
          BY <3>2, Scripts
    <3> QED BY <1>3, <3>1, <3>2 DEF WatchFrames
  <2> QED BY <1>3, <2>1, <1>c, <1>m, <1>p, <1>v DEF WatchFrames
<1>4. CASE GiveUpSession
      BY <1>4, <1>0, RestOfScript, <1>c, <1>m, <1>v DEF GiveUpSession
<1>5. CASE CacheAges
      BY <1>5, <1>0, <1>c, <1>s, <1>p, <1>v DEF CacheAges, caller, GateShut
<1>6. ASSUME NEW c \in Coros, Begin(c) PROVE Goal
  <2>1. Calling'
        BY <1>6, <1>0, BusyFacts DEF Begin, Calling, Busy
  <2>2. Scripted'
        BY <1>6, <1>0, RestOfScript DEF Begin
  <2> QED BY <1>6, <2>1, <2>2, <1>m, <1>p, <1>v DEF Begin
<1>7. ASSUME NEW c \in Coros, MoveGivenUp(c) PROVE Goal
  <2>1. Calling'
        BY <1>7, <1>0 DEF MoveGivenUp, Returns, Calling
  <2> QED BY <1>7, <2>1, <1>m, <1>p, <1>s, <1>v DEF MoveGivenUp
<1>8. ASSUME NEW c \in Coros, MoveAnswered(c) PROVE Goal
  <2> PICK name \in Names : Learns(name) /\ Decides(c, name)
      BY <1>8 DEF MoveAnswered
  <2>1. Calling' /\ moving' \in BOOLEAN
        BY <1>0, DecidesTypes
  <2> QED BY <1>8, <2>1, <1>l, <1>p, <1>s DEF MoveAnswered
<1>9. ASSUME NEW c \in Coros, ModeAnswered(c) PROVE Goal
  <2>1. Calling'
        BY <1>9, <1>0, EndsTypes DEF ModeAnswered
  <2> QED BY <1>9, <2>1, <1>l, <1>p, <1>s, <1>v DEF ModeAnswered
<1>10. ASSUME NEW c \in Coros, SelectAcked(c) PROVE Goal
  <2>1. Calling'
        BY <1>10, <1>0, WaitsTypes DEF SelectAcked, Awaits
  <2>2. ModeTyped' /\ GateShut'
        BY <1>10 DEF SelectAcked, GateShut, Names
  <2> QED BY <1>10, <2>1, <2>2, <1>p, <1>s, <1>v DEF SelectAcked
<1>11. ASSUME NEW c \in Coros, ConfirmAnswered(c) PROVE Goal
  <2> PICK name \in Names : /\ Learns(name)
                            /\ IF name = "other" THEN Waits(c, "confirming") ELSE Ends(c, TRUE)
      BY <1>11 DEF ConfirmAnswered
  <2>1. Calling'
        BY <1>0, WaitsTypes, EndsTypes DEF Awaits
  <2> QED BY <1>11, <2>1, <1>l, <1>p, <1>s, <1>v DEF ConfirmAnswered
<1>12. ASSUME NEW c \in Coros, ConnectSucceeds(c) PROVE Goal
  <2>1. Calling'
        BY <1>12, <1>0, EndsTypes DEF ConnectSucceeds
  <2> QED BY <1>12, <2>1, <1>0, <1>m, <1>s, <1>v DEF ConnectSucceeds
<1>13. ASSUME NEW c \in Coros, LateConnectEnds(c) PROVE Goal
  <2>1. Calling'
        BY <1>13, <1>0, EndsTypes DEF LateConnectEnds
  <2> QED BY <1>13, <2>1, <1>m, <1>p, <1>s, <1>v DEF LateConnectEnds
<1>14. ASSUME NEW c \in Coros, MoveStarts(c) PROVE Goal
  <2>1. Calling' /\ moving' \in BOOLEAN
    <3>1. CASE fresh
          BY <1>14, <3>1, <1>0, DecidesTypes DEF MoveStarts
    <3>2. CASE ~fresh
          BY <1>14, <3>2, <1>0, WaitsTypes DEF MoveStarts, Awaits
    <3> QED BY <3>1, <3>2
  <2> QED BY <1>14, <2>1, <1>m, <1>p, <1>s DEF MoveStarts
<1>15. ASSUME NEW c \in Coros, StopStarts(c) PROVE Goal
  <2>1. Calling' /\ moving' \in BOOLEAN
        BY <1>15, <1>0, <1>i, PublishesTypes DEF StopStarts, SendsStop
  <2> QED BY <1>15, <2>1, <1>m, <1>p, <1>s DEF StopStarts
<1>16. ASSUME NEW c \in Coros, AvoidStarts(c) PROVE Goal
  <2>1. Calling' /\ moving' \in BOOLEAN
        BY <1>16, <1>0, <1>i, PublishesTypes DEF AvoidStarts
  <2> QED BY <1>16, <2>1, <1>m, <1>p, <1>s DEF AvoidStarts
<1>17. ASSUME NEW c \in Coros, ModeStarts(c) \/ NormalStarts(c) \/ ConnectStarts(c) \/ LeaveStarts(c)
       PROVE  Goal
  <2>1. Calling'
        BY <1>17, <1>0, WaitsTypes DEF ModeStarts, NormalStarts, ConnectStarts, LeaveStarts, Awaits
  <2> QED BY <1>17, <2>1, <1>m, <1>p, <1>s, <1>v
          DEF ModeStarts, NormalStarts, ConnectStarts, LeaveStarts
<1>18. ASSUME NEW c \in Coros, MoveUnanswered(c) PROVE Goal
  <2>1. Calling' /\ moving' \in BOOLEAN
        BY <1>18, <1>0, DecidesTypes DEF MoveUnanswered
  <2> QED BY <1>18, <2>1, <1>m, <1>p, <1>s DEF MoveUnanswered
<1>19. ASSUME NEW c \in Coros, PublishEnds(c) PROVE Goal
  <2>1. Calling'
        BY <1>19, <1>0, EndsTypes DEF PublishEnds
  <2> QED BY <1>19, <2>1, <1>m, <1>p, <1>s, <1>v DEF PublishEnds
<1>20. ASSUME NEW c \in Coros, ModeUnanswered(c) \/ ConfirmExpires(c) PROVE Goal
  <2>1. Calling'
        BY <1>20, <1>0, EndsTypes DEF ModeUnanswered, ConfirmExpires
  <2> QED BY <1>20, <2>1, <1>m, <1>p, <1>s, <1>v DEF ModeUnanswered, ConfirmExpires
<1>21. ASSUME NEW c \in Coros, SelectUnacked(c) PROVE Goal
  <2>1. Calling'
        BY <1>21, <1>0, EndsTypes DEF SelectUnacked
  <2> QED BY <1>21, <2>1, Scripts, <1>m, <1>p, <1>v DEF SelectUnacked
<1>22. ASSUME NEW c \in Coros, Stood(c) PROVE Goal
  <2>1. Calling'
        BY <1>22, <1>0, WaitsTypes DEF Stood, Awaits
  <2> QED BY <1>22, <2>1, <1>m, <1>p, <1>s, <1>v DEF Stood
<1>23. ASSUME NEW c \in Coros, ConnectFails(c) PROVE Goal
  <2>1. Calling'
        BY <1>23, <1>0 DEF ConnectFails, Returns, Calling
  <2> QED BY <1>23, <2>1, <1>0, Scripts, <1>m, <1>v DEF ConnectFails
<1>24. ASSUME NEW c \in Coros, Leaves(c) PROVE Goal
  <2>1. Calling'
        BY <1>24, <1>0 DEF Leaves, Returns, Calling
  <2> QED BY <1>24, <2>1, <1>0, <1>m, <1>s, <1>v DEF Leaves
<1>25. CASE UNCHANGED vars
      BY <1>25, <1>c, <1>m, <1>p, <1>s, <1>v DEF vars, mode
<1> QED BY <1>1, <1>2, <1>3, <1>4, <1>5, <1>6, <1>7, <1>8, <1>9, <1>10, <1>11, <1>12, <1>13,
           <1>14, <1>15, <1>16, <1>17, <1>18, <1>19, <1>20, <1>21, <1>22, <1>23, <1>24, <1>25
        DEF Next, Answered, Runs

LEMMA Inductive == Spec => []IInv
BY InitIInv, StepIInv, PTL DEF Spec

(* Every variable of the session keeps its type, and no script grows       *)
(* beyond that of a preflight: webrtc_connect.py, Go2WebRTCSession.        *)
THEOREM TypeCorrect == Spec => []TypeOK
<1>1. IInv => TypeOK
      BY DEF IInv
<1> QED BY <1>1, Inductive, PTL

-----------------------------------------------------------------------------
(* The mode gate (_motion_allows_move): a Move is sent by the one step     *)
(* that decides it, on an answer, on a cached mode or on none.             *)

LEMMA GateStep ==
  ASSUME IInv, Next, NEW c \in Coros, at[c] # "moving", at'[c] = "moving"
  PROVE  ~barred'
<1>0. /\ Calling
      /\ fresh \in BOOLEAN /\ selected \in BOOLEAN /\ moving \in BOOLEAN /\ barred \in BOOLEAN
      /\ GateShut
      BY DEF IInv, TypeOK, Calling, Busy
<1>1. ASSUME NEW d \in Coros, NEW name, Decides(d, name)
      PROVE  Allows(name)
      BY <1>0, <1>1, DecidesTypes DEF Calling
<1>2. UNCHANGED mode /\ Allows(cached) => ~barred'
      BY <1>0 DEF mode, Allows, GateShut
<1>3. ASSUME NEW d \in Coros, MoveAnswered(d) PROVE ~barred'
  <2> PICK name \in Names : Learns(name) /\ Decides(d, name)
      BY <1>3 DEF MoveAnswered
  <2> QED BY <1>0, <1>1, LearnsTypes
<1>4. ASSUME NEW d \in Coros, MoveUnanswered(d) PROVE ~barred'
      BY <1>1, <1>2, <1>4 DEF MoveUnanswered
<1>5. ASSUME NEW d \in Coros, MoveStarts(d) PROVE ~barred'
  <2>1. CASE fresh
        BY <1>1, <1>2, <1>5, <2>1 DEF MoveStarts
  <2>2. CASE ~fresh
        BY <1>5, <2>2, <1>0 DEF MoveStarts, Waits, Calling
  <2> QED BY <2>1, <2>2
<1>6. ASSUME NEW d \in Coros, NEW where, where # "moving", at' = [at EXCEPT ![d] = where]
      PROVE  FALSE
      BY <1>0, <1>6 DEF Calling
<1>7. ASSUME NEW d \in Coros, NEW ok, Ends(d, ok) PROVE FALSE
      BY <1>6, <1>7 DEF Ends
<1>8. ASSUME NEW d \in Coros, NEW where, where # "moving", Waits(d, where) PROVE FALSE
      BY <1>6, <1>8 DEF Waits
<1>9. ASSUME NEW d \in Coros, NEW where, where # "moving", NEW moves, Publishes(d, where, moves)
      PROVE  FALSE
      BY <1>7, <1>8, <1>9 DEF Publishes
<1>10. ~UNCHANGED at
      OBVIOUS
<1>11. ASSUME NEW d \in Coros, Begin(d) PROVE FALSE
      BY <1>6, <1>11, BusyFacts DEF Begin
<1>12. ASSUME NEW d \in Coros, ModeAnswered(d) \/ ModeUnanswered(d) \/ PublishEnds(d)
                               \/ SelectUnacked(d) \/ ConfirmExpires(d) \/ ConnectSucceeds(d)
                               \/ LateConnectEnds(d)
       PROVE  FALSE
      BY <1>7, <1>12
         DEF ModeAnswered, ModeUnanswered, PublishEnds, SelectUnacked, ConfirmExpires,
             ConnectSucceeds, LateConnectEnds
<1>13. ASSUME NEW d \in Coros, SelectAcked(d) \/ Stood(d) \/ ModeStarts(d) \/ NormalStarts(d)
                               \/ ConnectStarts(d) \/ LeaveStarts(d)
       PROVE  FALSE
      BY <1>8, <1>13
         DEF SelectAcked, Stood, ModeStarts, NormalStarts, ConnectStarts, LeaveStarts
<1>14. ASSUME NEW d \in Coros, ConfirmAnswered(d) PROVE FALSE
      BY <1>7, <1>8, <1>14 DEF ConfirmAnswered
<1>15. ASSUME NEW d \in Coros, StopStarts(d) \/ AvoidStarts(d) PROVE FALSE
      BY <1>9, <1>15 DEF StopStarts, AvoidStarts, SendsStop
<1>16. ASSUME NEW d \in Coros, ConnectFails(d) \/ Leaves(d) PROVE FALSE
      BY <1>6, <1>10, <1>16 DEF ConnectFails, Leaves
<1>17. ASSUME NEW d \in Coros, MoveGivenUp(d) PROVE FALSE
      BY <1>10, <1>17 DEF MoveGivenUp
<1>18. ~(\E p \in {"drive", "preflight"} : Connect(p)) /\ ~Request /\ ~WatchFrames
       /\ ~GiveUpSession /\ ~CacheAges
      BY <1>10 DEF Connect, Request, WatchFrames, GiveUpSession, CacheAges
<1> QED BY <1>3, <1>4, <1>5, <1>11, <1>12, <1>13, <1>14, <1>15, <1>16, <1>17, <1>18
        DEF Next, Answered, Runs

(* No Move is sent while the last mode the robot named forbids it, be it   *)
(* on a cache that outlived its time, after a question that failed or by   *)
(* an orphan beside newer questions: _async_move.                          *)
THEOREM ModeGate == Spec => MoveNeedsMode
<1>1. IInv /\ [Next]_vars
        => [\A c \in Coros : at[c] # "moving" /\ at'[c] = "moving" => ~barred']_vars
      BY GateStep
<1> QED BY <1>1, Inductive, PTL DEF Spec, MoveNeedsMode

-----------------------------------------------------------------------------
(* The session as an adapter. What a coroutine does from one await to the  *)
(* next, without what it learns of the mode.                               *)

Follows(s, w) ==
  \/ s = "move" /\ w \in {"asking", "moving", "refusing", "idle"}
  \/ s = "asking" /\ w \in {"moving", "refusing", "idle"}
  \/ s = "stop" /\ w \in {"stopping", "idle"}
  \/ s = "avoid" /\ w \in {"avoiding", "idle"}
  \/ s \in {"moving", "refusing", "stopping", "avoiding", "reading", "connecting"} /\ w = "idle"
  \/ s = "mode" /\ w = "reading"
  \/ s = "normal" /\ w = "selecting"
  \/ s = "selecting" /\ w \in {"standing", "idle"}
  \/ s = "standing" /\ w = "confirming"
  \/ s = "confirming" /\ w \in {"confirming", "idle"}
  \/ s = "connect" /\ w = "connecting"
  \/ s = "leave" /\ w = "leaving"

(* What the caller is told at the end of each.                             *)
Tells(s) ==
  /\ s \in {"stopping", "moving", "avoiding"} => told' = TRUE
  /\ s \in {"move", "asking", "refusing", "stop"} => told' = FALSE

Goes(c, w) ==
  /\ at' = [at EXCEPT ![c] = w] /\ Follows(at[c], w)
  /\ w = "moving" => moving' = TRUE
  /\ w \in {"refusing", "stopping"} => moving' = FALSE
  /\ w \notin {"moving", "refusing", "stopping"} => moving' = moving
  /\ w = "idle" /\ call = c => call' = NoCoro /\ Tells(at[c])
  /\ w # "idle" \/ call # c => UNCHANGED <<call, before>>

LEMMA EndsGoes ==
  ASSUME NEW c \in Coros, NEW ok, Ends(c, ok), UNCHANGED moving, Follows(at[c], "idle"),
         call = c /\ told' = ok => Tells(at[c])
  PROVE  Goes(c, "idle")
BY DEF Ends, Returns, Goes

LEMMA WaitsGoes ==
  ASSUME NEW c \in Coros, NEW w, Waits(c, w), UNCHANGED moving, Follows(at[c], w),
         w \notin {"idle", "moving", "refusing", "stopping"}
  PROVE  Goes(c, w)
BY DEF Waits, Goes

LEMMA PublishesGoes ==
  ASSUME NEW c \in Coros, NEW w, NEW moves, Publishes(c, w, moves), Follows(at[c], w), Follows(at[c], "idle"),
         \/ w = "moving" /\ moves = TRUE
         \/ w \in {"refusing", "stopping"} /\ moves = FALSE
         \/ w = "avoiding" /\ moves = moving,
         told' = FALSE => Tells(at[c])
  PROVE  \E v \in {w, "idle"} : Goes(c, v)
<1>1. CASE Waits(c, w) /\ moving' = moves
      BY <1>1 DEF Waits, Goes
<1>2. CASE Ends(c, FALSE) /\ UNCHANGED moving
      BY <1>2, EndsGoes
<1> QED BY <1>1, <1>2 DEF Publishes

LEMMA DecidesGoes ==
  ASSUME NEW c \in Coros, NEW name, at[c] \in {"move", "asking"}, Decides(c, name)
  PROVE  \E v : Goes(c, v)
<1>1. Follows(at[c], "moving") /\ Follows(at[c], "refusing") /\ Follows(at[c], "idle")
      /\ (told' = FALSE => Tells(at[c]))
      BY DEF Follows, Tells
<1>2. CASE Allows(name)
      BY <1>1, <1>2, PublishesGoes DEF Decides, SendsMove
<1>3. CASE ~Allows(name)
      BY <1>1, <1>3, PublishesGoes DEF Decides, SendsStop
<1> QED BY <1>2, <1>3

(* Every step of a coroutine but the ends of a session and of a connect.   *)
LEMMA CoroutineGoes ==
  ASSUME NEW c \in Coros, Answered(c) \/ Runs(c), ~ConnectFails(c), ~Leaves(c)
  PROVE  \E w : Goes(c, w)
<1>1. CASE MoveAnswered(c) \/ MoveUnanswered(c)
      BY <1>1, DecidesGoes DEF MoveAnswered, MoveUnanswered
<1>2. CASE MoveStarts(c)
  <2>1. CASE fresh
        BY <1>2, <2>1, DecidesGoes DEF MoveStarts
  <2>2. CASE ~fresh
        BY <1>2, <2>2, WaitsGoes DEF MoveStarts, Follows
  <2> QED BY <2>1, <2>2
<1>3. CASE StopStarts(c)
  <2>1. at[c] = "stop" /\ Publishes(c, "stopping", FALSE)
        BY <1>3 DEF StopStarts, SendsStop
  <2>2. Follows(at[c], "stopping") /\ Follows(at[c], "idle") /\ (told' = FALSE => Tells(at[c]))
        BY <2>1 DEF Follows, Tells
  <2> QED BY <2>1, <2>2, PublishesGoes
<1>4. CASE AvoidStarts(c)
  <2>1. at[c] = "avoid" /\ Publishes(c, "avoiding", moving)
        BY <1>4 DEF AvoidStarts
  <2>2. Follows(at[c], "avoiding") /\ Follows(at[c], "idle") /\ Tells(at[c])
        BY <2>1 DEF Follows, Tells
  <2> QED BY <2>1, <2>2, PublishesGoes
<1>5. CASE PublishEnds(c)
      BY <1>5, EndsGoes DEF PublishEnds, Follows, Tells
<1>6. CASE ModeAnswered(c) \/ ModeUnanswered(c) \/ ConfirmExpires(c) \/ SelectUnacked(c)
           \/ ConnectSucceeds(c) \/ LateConnectEnds(c)
      BY <1>6, EndsGoes
         DEF ModeAnswered, ModeUnanswered, ConfirmExpires, SelectUnacked, ConnectSucceeds,
             LateConnectEnds, Follows, Tells
<1>7. CASE ModeStarts(c) \/ NormalStarts(c) \/ ConnectStarts(c) \/ LeaveStarts(c) \/ SelectAcked(c)
           \/ Stood(c)
      BY <1>7, WaitsGoes
         DEF ModeStarts, NormalStarts, ConnectStarts, LeaveStarts, SelectAcked, Stood, Follows
<1>8. CASE ConfirmAnswered(c)
  <2>1. at[c] = "confirming" /\ UNCHANGED moving /\ (Waits(c, "confirming") \/ Ends(c, TRUE))
        BY <1>8 DEF ConfirmAnswered
  <2> QED BY <2>1, EndsGoes, WaitsGoes DEF Follows, Tells
<1> QED BY <1>1, <1>2, <1>3, <1>4, <1>5, <1>6, <1>7, <1>8 DEF Answered, Runs

(* Of these only a connect that succeeds, the one end of a connect with a  *)
(* caller, changes the phase, and only an arming without ACK the script.   *)
LEMMA CoroutineKeeps ==
  ASSUME NEW c \in Coros, Answered(c) \/ Runs(c), ~ConnectFails(c), ~Leaves(c)
  PROVE  \/ ~(at[c] = "connecting" /\ call = c) /\ UNCHANGED <<phase, script>>
         \/ at[c] = "connecting" /\ call = c /\ phase' = "open" /\ UNCHANGED script
         \/ at[c] = "selecting" /\ script' = <<>> /\ UNCHANGED phase
BY DEF Answered, Runs, MoveAnswered, ModeAnswered, SelectAcked, ConfirmAnswered, ConnectSucceeds,
       LateConnectEnds, MoveStarts, StopStarts, AvoidStarts, ModeStarts, NormalStarts, ConnectStarts,
       LeaveStarts, MoveUnanswered, PublishEnds, ModeUnanswered, SelectUnacked, Stood, ConfirmExpires

-----------------------------------------------------------------------------
(* The shape of a session: who may be on the loop in which phase.          *)

NoConnect(s) == \A i \in 1..Len(s) : s[i] # "connect"
LeaveLast(s) == \A i \in 1..Len(s) : s[i] = "leave" => i = Len(s)

(* The coroutines a caller may leave behind.                               *)
Outlives == {"asking", "moving", "refusing", "connecting"}
OrphansKnown == \A c \in Coros : at[c] # "idle" /\ call # c => at[c] \in Outlives

(* A connect is made once, by a session that is connecting, and a leave is *)
(* the last call of a session.                                             *)
ScriptShape ==
  /\ LeaveLast(script)
  /\ script # <<>> => NoConnect(Tail(script))
  /\ phase # "connecting" => NoConnect(script)
  /\ phase = "none" => call = NoCoro /\ script = <<>>
  /\ phase = "connecting" /\ call = NoCoro => script # <<>> /\ Head(script) = "connect"

CallShape ==
  /\ phase = "connecting" /\ call # NoCoro => at[call] \in {"connect", "connecting"} /\ NoConnect(script)
  /\ call # NoCoro /\ at[call] \in {"connect", "connecting"} => phase = "connecting"
  /\ call # NoCoro /\ at[call] \in {"leave", "leaving"} => script = <<>>

Shape == OrphansKnown /\ ScriptShape /\ CallShape

LEMMA TailShape ==
  ASSUME NEW s \in Seq(Steps), s # <<>>
  PROVE  /\ NoConnect(s) => NoConnect(Tail(s)) /\ Head(s) # "connect"
         /\ LeaveLast(s) => LeaveLast(Tail(s)) /\ (Head(s) = "leave" => Tail(s) = <<>>)
<1>1. Len(s) \in Nat /\ Len(s) >= 1 /\ Head(s) = s[1]
      BY EmptySeq
<1>2. /\ Tail(s) \in Seq(Steps) /\ Len(Tail(s)) = Len(s) - 1
      /\ \A i \in 1..Len(Tail(s)) : Tail(s)[i] = s[i + 1] /\ i + 1 \in 1..Len(s)
      BY <1>1, HeadTailProperties
<1>3. NoConnect(s) => NoConnect(Tail(s)) /\ Head(s) # "connect"
      BY <1>1, <1>2 DEF NoConnect
<1>4. ASSUME LeaveLast(s), NEW i \in 1..Len(Tail(s)), Tail(s)[i] = "leave"
      PROVE  i = Len(Tail(s))
  <2>1. s[i + 1] = "leave" /\ i + 1 \in 1..Len(s)
        BY <1>2, <1>4
  <2>2. i + 1 = Len(s)
        BY <1>4, <2>1 DEF LeaveLast
  <2>3. Len(s) \in Nat /\ Len(Tail(s)) = Len(s) - 1 /\ i \in Nat
        BY <1>1, <1>2
  <2> QED BY <2>2, <2>3
<1>5. LeaveLast(s) /\ Head(s) = "leave" => Tail(s) = <<>>
  <2>1. LeaveLast(s) /\ Head(s) = "leave" => Len(Tail(s)) = 0
    <3>1. 1 \in 1..Len(s)
          BY <1>1
    <3>2. LeaveLast(s) /\ Head(s) = "leave" => 1 = Len(s)
          BY <1>1, <3>1 DEF LeaveLast
    <3> QED BY <1>1, <1>2, <3>2
  <2> QED BY <1>2, <2>1, EmptySeq
<1> QED BY <1>3, <1>4, <1>5 DEF LeaveLast

LEMMA ConcatShape ==
  ASSUME NEW s \in Seq(Steps), NEW t \in Seq(Steps),
         \A i \in 1..Len(s) : s[i] # "leave", LeaveLast(t), NoConnect(t)
  PROVE  /\ LeaveLast(s \o t)
         /\ NoConnect(s) => NoConnect(s \o t)
         /\ \A i \in 1..Len(s \o t) : i > Len(s) => (s \o t)[i] # "connect"
<1>1. /\ Len(s) \in Nat /\ Len(t) \in Nat /\ Len(s \o t) = Len(s) + Len(t)
      /\ \A i \in 1..(Len(s) + Len(t)) : (s \o t)[i] = IF i <= Len(s) THEN s[i] ELSE t[i - Len(s)]
      BY ConcatProperties, LenProperties
<1>2. ASSUME NEW i \in 1..Len(s \o t), i > Len(s)
      PROVE  i - Len(s) \in 1..Len(t) /\ (s \o t)[i] = t[i - Len(s)]
      BY <1>1, <1>2
<1>3. ASSUME NEW i \in 1..Len(s \o t), ~(i > Len(s))
      PROVE  i \in 1..Len(s) /\ (s \o t)[i] = s[i]
      BY <1>1, <1>3
<1>4. ASSUME NEW i \in 1..Len(s \o t), (s \o t)[i] = "leave"
      PROVE  i = Len(s \o t)
  <2>1. i > Len(s)
        BY <1>3, <1>4
  <2>2. i - Len(s) = Len(t)
        BY <1>2, <1>4, <2>1 DEF LeaveLast
  <2> QED BY <1>1, <2>2
<1>5. \A i \in 1..Len(s \o t) : i > Len(s) => (s \o t)[i] # "connect"
      BY <1>2 DEF NoConnect
<1>6. NoConnect(s) => \A i \in 1..Len(s \o t) : ~(i > Len(s)) => (s \o t)[i] # "connect"
      BY <1>3 DEF NoConnect
<1> QED BY <1>4, <1>5, <1>6 DEF LeaveLast, NoConnect

LEMMA ScriptShapes ==
  /\ LeaveLast(<<>>) /\ NoConnect(<<>>)
  /\ LeaveLast(Disconnect) /\ NoConnect(Disconnect)
  /\ LeaveLast(Close) /\ NoConnect(Close)
  /\ \A s \in Requests : LeaveLast(s) /\ NoConnect(s)
  /\ \A s \in {<<"connect">>, <<"connect">> \o Preflight} :
       LeaveLast(s) /\ s # <<>> /\ Head(s) = "connect" /\ NoConnect(Tail(s))
<1> DEFINE first == <<"frames", "stop", "stop">>
           begin == <<"connect">>
<1>1. LeaveLast(<<>>) /\ NoConnect(<<>>)
      BY DEF LeaveLast, NoConnect
<1>2. LeaveLast(Disconnect) /\ NoConnect(Disconnect)
      BY DEF LeaveLast, NoConnect, Disconnect
<1>3. LeaveLast(Close) /\ NoConnect(Close)
      BY DEF LeaveLast, NoConnect, Close
<1>4. \A s \in Requests : LeaveLast(s) /\ NoConnect(s)
  <2>1. \A s \in {<<"move">>, <<"stop">>, <<"mode">>, <<"normal", "avoid">>} : LeaveLast(s) /\ NoConnect(s)
        BY DEF LeaveLast, NoConnect
  <2> QED BY <1>2, <2>1 DEF Requests
<1>5. /\ first \in Seq(Steps) /\ NoConnect(first) /\ \A i \in 1..Len(first) : first[i] # "leave"
      /\ Preflight = first \o Disconnect
      BY DEF Steps, Calls, NoConnect, Preflight
<1>6. /\ begin \in Seq(Steps) /\ \A i \in 1..Len(begin) : begin[i] # "leave"
      /\ Len(begin) = 1 /\ begin[1] = "connect" /\ LeaveLast(begin) /\ NoConnect(Tail(begin))
      /\ begin # <<>> /\ Head(begin) = "connect"
      BY DEF Steps, Calls, LeaveLast, NoConnect
<1> HIDE DEF first, begin
<1>7. LeaveLast(Preflight) /\ NoConnect(Preflight)
      BY <1>2, <1>5, Scripts, ConcatShape
<1>8. Preflight \in Seq(Steps)
      BY <1>5, Scripts, ConcatProperties
<1>9. LeaveLast(begin \o Preflight) /\ \A i \in 1..Len(begin \o Preflight) : i > 1 => (begin \o Preflight)[i] # "connect"
      BY <1>6, <1>7, <1>8, ConcatShape
<1>10. /\ begin \o Preflight \in Seq(Steps) /\ Len(begin \o Preflight) = 1 + Len(Preflight)
       /\ Len(Preflight) \in Nat
       /\ (begin \o Preflight)[1] = begin[1]
  <2>1. /\ begin \o Preflight \in Seq(Steps) /\ Len(begin \o Preflight) = Len(begin) + Len(Preflight)
        /\ \A i \in 1..(Len(begin) + Len(Preflight)) :
             (begin \o Preflight)[i] = IF i <= Len(begin) THEN begin[i] ELSE Preflight[i - Len(begin)]
        BY <1>6, <1>8, ConcatProperties
  <2>2. Len(Preflight) \in Nat
        BY <1>8, LenProperties
  <2> QED BY <1>6, <2>1, <2>2
<1>11. begin \o Preflight # <<>> /\ Head(begin \o Preflight) = "connect"
  <2>1. Len(begin \o Preflight) # 0
        BY <1>10
  <2>2. begin \o Preflight # <<>>
        BY <2>1, EmptySeq
  <2> QED BY <1>6, <1>10, <2>2, HeadTailProperties
<1>12. NoConnect(Tail(begin \o Preflight))
  <2>1. /\ Len(Tail(begin \o Preflight)) = Len(begin \o Preflight) - 1
        /\ \A i \in 1..Len(Tail(begin \o Preflight)) : Tail(begin \o Preflight)[i] = (begin \o Preflight)[i + 1]
        BY <1>10, <1>11, HeadTailProperties
  <2> QED BY <1>9, <1>10, <2>1 DEF NoConnect
<1> QED BY <1>1, <1>2, <1>3, <1>4, <1>6, <1>9, <1>11, <1>12 DEF begin

LEMMA InitShape == Init => Shape
BY ScriptShapes DEF Init, Shape, OrphansKnown, ScriptShape, CallShape

LEMMA StepShape == IInv /\ Shape /\ [Next]_vars => Shape'
<1> SUFFICES ASSUME IInv, Shape, [Next]_vars PROVE Shape'
    OBVIOUS
<1>0. /\ at \in [Coros -> Busy \union {"idle"}]
      /\ call \in Coros \union {NoCoro} /\ (call # NoCoro => at[call] # "idle")
      /\ script \in Seq(Steps) /\ NoCoro \notin Coros
      BY SessionAssumption DEF IInv, TypeOK, Busy
<1>1. OrphansKnown /\ ScriptShape /\ CallShape
      BY DEF Shape
<1>2. CASE \E p \in {"drive", "preflight"} : Connect(p)
  <2> PICK p \in {"drive", "preflight"} : Connect(p)
      BY <1>2
  <2>1. LeaveLast(script') /\ script' # <<>> /\ Head(script') = "connect" /\ NoConnect(Tail(script'))
        BY ScriptShapes DEF Connect
  <2>2. call' = NoCoro /\ phase' = "connecting" /\ UNCHANGED <<at, call>>
        BY <1>1 DEF ScriptShape, Connect
  <2> QED BY <1>1, <2>1, <2>2 DEF Shape, OrphansKnown, ScriptShape, CallShape
<1>3. CASE Request
  <2>1. LeaveLast(script') /\ NoConnect(script')
        BY <1>3, ScriptShapes DEF Request
  <2>2. script' # <<>> => NoConnect(Tail(script'))
        BY <1>3, <2>1, RequestScripts, TailShape DEF Request
  <2> QED BY <1>1, <1>3, <2>1, <2>2 DEF Request, Shape, OrphansKnown, ScriptShape, CallShape
<1>4. CASE WatchFrames
  <2>1. phase # "connecting" /\ phase # "none"
        BY <1>1, <1>4 DEF WatchFrames, ScriptShape
  <2>2. LeaveLast(script') /\ NoConnect(script')
        BY <1>0, <1>1, <1>4, <2>1, TailShape, ScriptShapes DEF WatchFrames, ScriptShape
  <2>3. script' # <<>> => NoConnect(Tail(script'))
        BY <1>0, <1>4, <2>2, TailShape, RestOfScript, HeadTailProperties, Scripts DEF WatchFrames
  <2> QED BY <1>1, <1>4, <2>1, <2>2, <2>3
          DEF WatchFrames, Shape, OrphansKnown, ScriptShape, CallShape
<1>5. CASE GiveUpSession
  <2>1. phase # "connecting" /\ phase # "none"
        BY <1>1, <1>5 DEF GiveUpSession, ScriptShape
  <2>2. LeaveLast(script') /\ NoConnect(script')
        BY <1>0, <1>1, <1>5, <2>1, TailShape DEF GiveUpSession, ScriptShape
  <2>3. script' # <<>> => NoConnect(Tail(script'))
        BY <1>0, <1>5, <2>2, TailShape, HeadTailProperties DEF GiveUpSession
  <2> QED BY <1>1, <1>5, <2>1, <2>2, <2>3
          DEF GiveUpSession, Shape, OrphansKnown, ScriptShape, CallShape
<1>6. CASE CacheAges
      BY <1>1, <1>6 DEF CacheAges, caller, Shape, OrphansKnown, ScriptShape, CallShape
<1>7. ASSUME NEW c \in Coros, Begin(c) PROVE Shape'
  <2>1. /\ call = NoCoro /\ at[c] = "idle" /\ script # <<>> /\ script' = Tail(script) /\ call' = c
        /\ at' = [at EXCEPT ![c] = Head(script)] /\ UNCHANGED phase /\ phase # "none"
        BY <1>1, <1>7 DEF Begin, ScriptShape
  <2>2. OrphansKnown'
        BY <1>0, <1>1, <2>1 DEF OrphansKnown
  <2>3. LeaveLast(script') /\ NoConnect(script') /\ (Head(script) = "leave" => script' = <<>>)
        BY <1>0, <1>1, <2>1, TailShape DEF ScriptShape
  <2>4. script' # <<>> => NoConnect(Tail(script'))
        BY <1>0, <2>1, <2>3, TailShape, HeadTailProperties
  <2>5. ScriptShape'
        BY <1>0, <2>1, <2>3, <2>4 DEF ScriptShape
  <2>6. Head(script) # "leaving" /\ Head(script) # "connecting"
        BY <1>7 DEF Begin, Calls
  <2>7. at'[c] = Head(script) /\ (phase # "connecting" => Head(script) # "connect")
        BY <1>0, <1>1, <2>1, TailShape DEF ScriptShape
  <2>8. CallShape'
        BY <1>1, <2>1, <2>3, <2>6, <2>7 DEF CallShape, ScriptShape
  <2> QED BY <2>2, <2>5, <2>8 DEF Shape
<1>8. ASSUME NEW c \in Coros, MoveGivenUp(c) PROVE Shape'
      BY <1>0, <1>1, <1>8
         DEF MoveGivenUp, Returns, Shape, OrphansKnown, ScriptShape, CallShape, Outlives
<1>9. ASSUME NEW c \in Coros, ConnectFails(c) PROVE Shape'
  <2>1. script' = Close /\ Close \in Seq(Steps) /\ Close # <<>>
    <3>1. Close \in Seq(Steps) /\ Len(Close) # 0
          BY Scripts
    <3> QED BY <1>9, <3>1, EmptySeq DEF ConnectFails
  <2>2. LeaveLast(script') /\ NoConnect(script') /\ NoConnect(Tail(script'))
        BY <2>1, ScriptShapes, TailShape
  <2> QED BY <1>0, <1>1, <1>9, <2>2
          DEF ConnectFails, Returns, Shape, OrphansKnown, ScriptShape, CallShape, Outlives
<1>10. ASSUME NEW c \in Coros, Leaves(c) PROVE Shape'
  <2>1. c = call
        BY <1>1, <1>10 DEF Leaves, OrphansKnown, Outlives
  <2>2. script = <<>> /\ UNCHANGED script
        BY <1>0, <1>1, <1>10, <2>1 DEF Leaves, CallShape
  <2> QED BY <1>0, <1>10, <2>2, ScriptShapes
          DEF Leaves, Returns, Shape, OrphansKnown, ScriptShape, CallShape
<1>11. ASSUME NEW c \in Coros, Answered(c) \/ Runs(c), ~ConnectFails(c), ~Leaves(c) PROVE Shape'
  <2>1. PICK w : Goes(c, w)
        BY <1>11, CoroutineGoes
  <2>2. at' = [at EXCEPT ![c] = w] /\ Follows(at[c], w) /\ w # "connect" /\ w # "leave"
        BY <2>1 DEF Goes, Follows
  <2>3. \/ call' = call /\ (w # "idle" \/ call # c)
        \/ call' = NoCoro /\ call = c /\ w = "idle"
        BY <2>1 DEF Goes
  <2>4. OrphansKnown'
        BY <1>0, <1>1, <2>2, <2>3 DEF OrphansKnown, Outlives, Follows
  <2>5. call' # NoCoro => /\ call' = call
                          /\ at'[call] = at[call] \/ (Follows(at[call], at'[call]) /\ at'[call] # "idle")
        BY <1>0, <2>2, <2>3
  <2>6. call' # NoCoro => /\ at'[call] = "connect" => at[call] = "connect"
                          /\ at'[call] = "connecting" => at[call] \in {"connect", "connecting"}
                          /\ at'[call] = "leave" => at[call] = "leave"
                          /\ at'[call] = "leaving" => at[call] \in {"leave", "leaving"}
                          /\ at[call] = "connect" => at'[call] \in {"connect", "connecting"}
                          /\ at[call] = "connecting" => at'[call] = "connecting"
        BY <2>5 DEF Follows
  <2>7. CASE ~(at[c] = "connecting" /\ call = c) /\ UNCHANGED <<phase, script>>
    <3>1. phase = "connecting" => ~(call' = NoCoro /\ call = c /\ w = "idle")
          BY <1>0, <1>1, <2>2, <2>7 DEF CallShape, Follows
    <3>2. ScriptShape'
          BY <1>1, <2>3, <2>7, <3>1 DEF ScriptShape
    <3>3. CallShape'
          BY <1>1, <2>7, <2>5, <2>6 DEF CallShape
    <3> QED BY <2>4, <3>2, <3>3 DEF Shape
  <2>8. CASE at[c] = "connecting" /\ call = c /\ phase' = "open" /\ UNCHANGED script
    <3>1. call' = NoCoro
          BY <2>2, <2>3, <2>8 DEF Follows
    <3> QED BY <1>0, <1>1, <2>4, <2>8, <3>1 DEF Shape, ScriptShape, CallShape
  <2>9. CASE at[c] = "selecting" /\ script' = <<>> /\ UNCHANGED phase
    <3>1. call = c
          BY <1>1, <2>9 DEF OrphansKnown, Outlives
    <3>2. phase # "connecting" /\ phase # "none"
          BY <1>0, <1>1, <2>9, <3>1 DEF ScriptShape, CallShape
    <3>3. ScriptShape'
          BY <1>1, <2>9, <3>2, ScriptShapes DEF ScriptShape
    <3>4. CallShape'
          BY <1>1, <2>9, <2>5, <2>6, <3>2 DEF CallShape
    <3> QED BY <2>4, <3>3, <3>4 DEF Shape
  <2> QED BY <1>11, <2>7, <2>8, <2>9, CoroutineKeeps
<1>12. CASE UNCHANGED vars
      BY <1>1, <1>12 DEF vars, Shape, OrphansKnown, ScriptShape, CallShape
<1> QED BY <1>2, <1>3, <1>4, <1>5, <1>6, <1>7, <1>8, <1>9, <1>10, <1>11, <1>12 DEF Next

-----------------------------------------------------------------------------
(* The outcomes Go2Adapter has for an open session.                        *)

Open == phase \in {"open", "closing"}
Late == \E c \in Coros : call # c /\ at[c] \in {"move", "asking"}

LEMMA Adapted ==
  ASSUME NEW a, NEW open \in BOOLEAN, NEW m \in BOOLEAN, NEW late \in BOOLEAN,
         a = [Abstract!NewAdapter(open) EXCEPT !.moving = m, !.late = late]
  PROVE  a \in Abstract!Adapter /\ Bare(a) = <<open, m, late>> /\ a.session = open /\ a.late = late
         /\ a.moving = m /\ a.thread = NoCoro
<1> DEFINE new == Abstract!NewAdapter(open)
<1>1. new \in Abstract!Adapter /\ new.session = open /\ new.thread = NoCoro
      BY DEF Abstract!NewAdapter, Abstract!Adapter, Abstract!Commands, Abstract!Working
<1> HIDE DEF new
<1>2. a = [new EXCEPT !.moving = m, !.late = late]
      BY DEF new
<1>3. a \in Abstract!Adapter /\ a.session = open /\ a.moving = m /\ a.late = late /\ a.thread = NoCoro
      BY <1>1, <1>2 DEF Abstract!Adapter
<1> QED BY <1>3 DEF Bare

(* A zero that fails, and a Move with either end, change nothing else.     *)
LEMMA ZeroFails ==
  ASSUME NEW a \in Abstract!Adapter, a.session
  PROVE  \E o \in Abstract!PublishZero(a) :
           o.ok = FALSE /\ o.ad \in Abstract!Adapter /\ Bare(o.ad) = Bare(a) /\ o.ad.thread = a.thread
<1> DEFINE b == [a EXCEPT !.clean = FALSE]
<1>1. b \in Abstract!Adapter /\ Bare(b) = Bare(a) /\ b.thread = a.thread
      BY DEF Abstract!Adapter, Bare
<1>2. Abstract!Outcome(FALSE, b) \in Abstract!PublishZero(a)
      BY DEF Abstract!PublishZero, Abstract!Fault
<1> HIDE DEF b
<1> QED BY <1>1, <1>2 DEF Abstract!Outcome

LEMMA ZeroSucceeds ==
  ASSUME NEW a \in Abstract!Adapter, a.session
  PROVE  \E o \in Abstract!PublishZero(a) : o.ok = TRUE /\ Bare(o.ad) = <<a.session, FALSE, a.late>>
<1> DEFINE b == [a EXCEPT !.moving = FALSE]
<1>1. Bare(b) = <<a.session, FALSE, a.late>>
      BY DEF Abstract!Adapter, Bare
<1>2. Abstract!Outcome(TRUE, b) \in Abstract!PublishZero(a)
      BY DEF Abstract!PublishZero
<1> HIDE DEF b
<1> QED BY <1>1, <1>2 DEF Abstract!Outcome

LEMMA MoveEnds ==
  ASSUME NEW a \in Abstract!Adapter, a.session
  PROVE  /\ \E o \in Abstract!PublishVelocity(a, "move") : o.ok = TRUE /\ Bare(o.ad) = <<a.session, TRUE, a.late>>
         /\ \E o \in Abstract!PublishVelocity(a, "move") : o.ok = FALSE /\ Bare(o.ad) = Bare(a)
         /\ \E o \in Abstract!PublishVelocity(a, "move") : o.ok = FALSE /\ Bare(o.ad) = <<a.session, FALSE, a.late>>
         /\ \E o \in Abstract!PublishVelocity(a, "move") : o.ok = FALSE /\ Bare(o.ad) = <<a.session, a.moving, TRUE>>
         /\ \E o \in Abstract!PublishVelocity(a, "move") : o.ok = FALSE /\ Bare(o.ad) = <<a.session, TRUE, a.late>>
<1> DEFINE on == [a EXCEPT !.moving = TRUE]
           off == [a EXCEPT !.moving = FALSE]
           b == [a EXCEPT !.clean = FALSE]
           later == [b EXCEPT !.late = TRUE]
           sent == [b EXCEPT !.moving = TRUE]
<1>1. Bare(on) = <<a.session, TRUE, a.late>> /\ Bare(off) = <<a.session, FALSE, a.late>>
      BY DEF Abstract!Adapter, Bare
<1>2. Bare(later) = <<a.session, a.moving, TRUE>> /\ Bare(sent) = <<a.session, TRUE, a.late>>
      BY DEF Abstract!Adapter, Bare
<1>3. b \in Abstract!Fault("lateMove", a)
      BY DEF Abstract!Fault
<1>4. /\ Abstract!Outcome(TRUE, on) \in Abstract!PublishVelocity(a, "move")
      /\ Abstract!Outcome(FALSE, a) \in Abstract!PublishVelocity(a, "move")
      /\ Abstract!Outcome(FALSE, off) \in Abstract!PublishVelocity(a, "move")
      BY DEF Abstract!PublishVelocity
<1>5. /\ Abstract!Outcome(FALSE, later) \in Abstract!PublishVelocity(a, "move")
      /\ Abstract!Outcome(FALSE, sent) \in Abstract!PublishVelocity(a, "move")
      BY <1>3 DEF Abstract!PublishVelocity
<1> HIDE DEF on, off, b, later, sent
<1> QED BY <1>1, <1>2, <1>4, <1>5 DEF Abstract!Outcome

LEMMA LateEnds ==
  ASSUME NEW a \in Abstract!Adapter, a.session, a.late, NEW m \in BOOLEAN
  PROVE  \E b \in Abstract!LateMove(a) : Bare(b) = <<a.session, m, FALSE>>
<1> DEFINE b == [a EXCEPT !.late = FALSE, !.moving = m]
<1>1. Bare(b) = <<a.session, m, FALSE>>
      BY DEF Abstract!Adapter, Bare
<1>2. b \in Abstract!LateMove(a)
      BY DEF Abstract!LateMove
<1> QED BY <1>1, <1>2

(* A disconnect of which no zero is taken leaves the robot as it is.       *)
LEMMA Disconnects ==
  ASSUME NEW a \in Abstract!Adapter, a.session, a.thread = NoCoro
  PROVE  \E b \in Abstract!Disconnect(a) : Bare(b) = <<FALSE, a.moving, FALSE>>
<1> DEFINE set == [a EXCEPT !.stop = TRUE]
           gone == [set EXCEPT !.thread = NoCoro, !.following = FALSE, !.visible = FALSE]
           zeroed(S) == UNION {{z.ad : z \in Abstract!PublishZero(c)} : c \in S}
<1>1. gone \in Abstract!Adapter /\ gone.session /\ Bare(gone) = Bare(a)
      BY DEF Abstract!Adapter, Bare
<1>2. \A o \in Abstract!PublishZero(gone) : o.ad \in Abstract!StopFollow(a)
      BY DEF Abstract!StopFollow
<1>3. \A S : \A c \in S : \A o \in Abstract!PublishZero(c) : o.ad \in zeroed(S)
      OBVIOUS
<1> HIDE DEF set, gone
<1>4. PICK o \in Abstract!PublishZero(gone) : o.ad \in Abstract!Adapter /\ Bare(o.ad) = Bare(gone)
      BY <1>1, ZeroFails
<1>o. o.ad.session
      BY <1>1, <1>4 DEF Bare
<1>5. PICK p \in Abstract!PublishZero(o.ad) : p.ad \in Abstract!Adapter /\ Bare(p.ad) = Bare(gone)
      BY <1>4, <1>o, ZeroFails
<1>p. p.ad.session
      BY <1>1, <1>5 DEF Bare
<1>6. PICK q \in Abstract!PublishZero(p.ad) : q.ad \in Abstract!Adapter /\ Bare(q.ad) = Bare(gone)
      BY <1>5, <1>p, ZeroFails
<1>7. q.ad \in zeroed(zeroed(Abstract!StopFollow(a)))
  <2>1. o.ad \in Abstract!StopFollow(a)
        BY <1>2, <1>4
  <2>2. p.ad \in zeroed(Abstract!StopFollow(a))
        BY <1>3, <1>5, <2>1
  <2> QED BY <1>3, <1>6, <2>2
<1> DEFINE b == [q.ad EXCEPT !.session = FALSE, !.late = FALSE]
<1>8. b \in Abstract!Disconnect(a)
      BY <1>7, Zenon DEF Abstract!Disconnect
<1>9. Bare(b) = <<FALSE, a.moving, FALSE>>
  <2>1. q.ad.moving = a.moving
        BY <1>1, <1>6 DEF Bare
  <2>2. b.session = FALSE /\ b.late = FALSE /\ b.moving = q.ad.moving
        BY <1>6 DEF Abstract!Adapter
  <2> QED BY <2>1, <2>2 DEF Bare
<1> QED BY <1>8, <1>9

-----------------------------------------------------------------------------
(* What a step of an open session leaves of the adapter: a Move becomes    *)
(* late when its caller gives it up, and the robot is not moved by that.   *)

LEMMA SessionStep ==
  ASSUME IInv, Shape, Next, Open
  PROVE  \/ Open' /\ Late' /\ UNCHANGED moving
         \/ Open' /\ (Late' => Late)
         \/ ~Open' /\ ~Late' /\ UNCHANGED moving
<1>0. /\ at \in [Coros -> Busy \union {"idle"}]
      /\ call \in Coros \union {NoCoro} /\ (call # NoCoro => at[call] # "idle") /\ NoCoro \notin Coros
      BY SessionAssumption DEF IInv, TypeOK, Busy
<1>1. CASE UNCHANGED <<phase, call, at>>
      BY <1>1 DEF Open, Late
<1>2. CASE GiveUpSession
      BY <1>2 DEF GiveUpSession, Open, Late
<1>3. ~\E p \in {"drive", "preflight"} : Connect(p)
      BY DEF Connect, Open
<1>4. ASSUME NEW c \in Coros, Begin(c)
      PROVE  Open' /\ (Late' => Late)
  <2>1. call = NoCoro /\ call' = c /\ UNCHANGED phase /\ \A d \in Coros : d # c => at'[d] = at[d]
        BY <1>0, <1>4 DEF Begin
  <2> QED BY <1>0, <2>1 DEF Open, Late
<1>5. ASSUME NEW c \in Coros, MoveGivenUp(c)
      PROVE  Open' /\ UNCHANGED moving
      BY <1>5 DEF MoveGivenUp, Open
<1>6. ASSUME NEW c \in Coros, ConnectFails(c) PROVE FALSE
      BY <1>0, <1>6 DEF ConnectFails, Shape, CallShape, Open
<1>7. ASSUME NEW c \in Coros, Leaves(c)
      PROVE  ~Open' /\ ~Late' /\ UNCHANGED moving
      BY <1>7 DEF Leaves, Open, Late
<1>8. ASSUME NEW c \in Coros, Answered(c) \/ Runs(c), ~ConnectFails(c), ~Leaves(c)
      PROVE  Open' /\ (Late' => Late)
  <2>1. PICK w : Goes(c, w)
        BY <1>8, CoroutineGoes
  <2>2. at' = [at EXCEPT ![c] = w] /\ (w \in {"move", "asking"} => at[c] \in {"move", "asking"})
        BY <2>1 DEF Goes, Follows
  <2>3. \/ call' = call
        \/ call' = NoCoro /\ call = c /\ w = "idle"
        BY <2>1 DEF Goes
  <2>4. ASSUME NEW d \in Coros, call' # d, at'[d] \in {"move", "asking"}
        PROVE  call # d /\ at[d] \in {"move", "asking"}
        BY <1>0, <2>2, <2>3, <2>4
  <2>5. Open'
        BY <1>8, CoroutineKeeps DEF Open
  <2> QED BY <2>4, <2>5 DEF Late
<1>9. Request \/ WatchFrames \/ CacheAges => UNCHANGED <<phase, call, at>>
      BY DEF Request, WatchFrames, CacheAges, caller
<1> QED BY <1>1, <1>2, <1>3, <1>4, <1>5, <1>6, <1>7, <1>8, <1>9 DEF Next

(* The adapter of a state and of the next.                                 *)
LEMMA AdapterNow ==
  ASSUME IInv, [Next]_vars
  PROVE  /\ ad \in Abstract!Adapter /\ ad.session = Open /\ ad.moving = moving /\ ad.late = Late
         /\ ad.thread = NoCoro
         /\ ad'.session = Open' /\ Bare(ad') = <<Open', moving', Late'>>
         /\ {moving, moving', told', Open, Open', Late, Late'} \subseteq BOOLEAN
<1>1. moving \in BOOLEAN /\ moving' \in BOOLEAN /\ told' \in BOOLEAN
      BY StepIInv DEF IInv, TypeOK
<1>2. Open \in BOOLEAN /\ Late \in BOOLEAN /\ Open' \in BOOLEAN /\ Late' \in BOOLEAN
      BY DEF Open, Late
<1>3. /\ ad = [Abstract!NewAdapter(Open) EXCEPT !.moving = moving, !.late = Late]
      /\ ad' = [Abstract!NewAdapter(Open') EXCEPT !.moving = moving', !.late = Late']
      BY DEF ad, Open, Late
<1>4. /\ ad \in Abstract!Adapter /\ ad.session = Open /\ ad.moving = moving /\ ad.late = Late
      /\ ad.thread = NoCoro
      BY <1>1, <1>2, <1>3, Adapted
<1>5. ad'.session = Open'
  <2>1. \A a : \A o, m, l \in BOOLEAN :
          a = [Abstract!NewAdapter(o) EXCEPT !.moving = m, !.late = l] => a.session = o
        BY Adapted
  <2>2. \A o, m, l \in BOOLEAN :
          ad' = [Abstract!NewAdapter(o) EXCEPT !.moving = m, !.late = l] => ad'.session = o
        BY <2>1
  <2> QED BY <1>1, <1>2, <1>3, <2>2, Zenon
<1>6. Bare(ad') = <<Open', moving', Late'>>
  <2>1. \A a : \A o, m, l \in BOOLEAN :
          a = [Abstract!NewAdapter(o) EXCEPT !.moving = m, !.late = l] => Bare(a) = <<o, m, l>>
        BY Adapted
  <2>2. \A o, m, l \in BOOLEAN :
          ad' = [Abstract!NewAdapter(o) EXCEPT !.moving = m, !.late = l] => Bare(ad') = <<o, m, l>>
        BY <2>1
  <2> QED BY <1>1, <1>2, <1>3, <2>2, Zenon
<1> QED BY <1>1, <1>2, <1>4, <1>5, <1>6

AdapterStep ==
  ad.session =>
    \/ \E o \in Abstract!PublishZero(ad) \union Abstract!PublishVelocity(ad, "move") :
         Bare(o.ad) = Bare(ad')
    \/ \E b \in Abstract!LateMove(ad) \union Abstract!Disconnect(ad) : Bare(b) = Bare(ad')

LEMMA StepIsAdapters ==
  ASSUME IInv, Shape, [Next]_vars
  PROVE  [AdapterStep]_ad
<1>1. /\ {moving, moving', Open, Open', Late, Late'} \subseteq BOOLEAN
      /\ ad.session = Open /\ Bare(ad') = <<Open', moving', Late'>>
      BY AdapterNow
<1>2. CASE UNCHANGED vars
      BY <1>2 DEF vars, ad
<1>3. CASE Next /\ Open
  <2>1. /\ ad \in Abstract!Adapter /\ ad.session = TRUE /\ ad.moving = moving /\ ad.late = Late
        /\ ad.thread = NoCoro
        BY <1>1, <1>3, AdapterNow
  <2>2. CASE Open' /\ Late' /\ UNCHANGED moving
    <3>1. \E o \in Abstract!PublishVelocity(ad, "move") : Bare(o.ad) = <<ad.session, ad.moving, TRUE>>
          BY <2>1, MoveEnds
    <3>2. Bare(ad') = <<ad.session, ad.moving, TRUE>>
          BY <1>1, <2>1, <2>2
    <3> QED BY <3>1, <3>2 DEF AdapterStep
  <2>3. CASE Open' /\ (Late' => Late)
    <3>1. CASE Late' = Late
      <4>1. \A m \in BOOLEAN : \E o \in Abstract!PublishVelocity(ad, "move") :
                               Bare(o.ad) = <<ad.session, m, ad.late>>
            BY <2>1, MoveEnds
      <4>2. Bare(ad') = <<ad.session, moving', ad.late>>
            BY <1>1, <2>1, <2>3, <3>1
      <4> QED BY <1>1, <4>1, <4>2 DEF AdapterStep
    <3>2. CASE Late' # Late
      <4>1. Late /\ Late' = FALSE /\ Open' = TRUE
            BY <1>1, <2>3, <3>2
      <4> QED BY <1>1, <2>1, <4>1, LateEnds DEF AdapterStep
    <3> QED BY <3>1, <3>2
  <2>4. CASE ~Open' /\ ~Late' /\ UNCHANGED moving
        BY <1>1, <2>1, <2>4, Disconnects DEF AdapterStep
  <2> QED BY <1>3, <2>2, <2>3, <2>4, SessionStep
<1>4. CASE ~Open
      BY <1>1, <1>4 DEF AdapterStep
<1> QED BY <1>2, <1>3, <1>4

(* Every step of an open session, orphans' included, is one of             *)
(* Go2Adapter's, for any number of coroutines on the loop: what the        *)
(* controller's model assumes of the session is what the session does      *)
(* (webrtc_connect.py under dimos_adapter.py).                             *)
THEOREM SessionIsAdapter == Spec => AdapterSteps
<1>1. Spec => [](IInv /\ Shape)
      BY InitIInv, StepIInv, InitShape, StepShape, PTL DEF Spec
<1>2. IInv /\ Shape /\ [Next]_vars => [AdapterStep]_ad
      BY StepIsAdapters
<1>3. Spec => [][AdapterStep]_ad
      BY <1>1, <1>2, PTL DEF Spec
<1> QED BY <1>3 DEF AdapterSteps, AdapterStep

-----------------------------------------------------------------------------
(* What a call tells and does. A call that began on an empty loop is alone *)
(* there, and the robot moves as it did before unless the call has sent    *)
(* something else.                                                         *)

CallAlone ==
  call # NoCoro /\ before # "unknown" =>
    /\ \A d \in Coros : d # call => at[d] = "idle"
    /\ at[call] = "moving" => moving
    /\ at[call] \in {"refusing", "stopping"} => ~moving
    /\ at[call] \notin {"moving", "refusing", "stopping"} => (moving <=> before = "moving")

LEMMA StepAlone == IInv /\ CallAlone /\ [Next]_vars => CallAlone'
<1> SUFFICES ASSUME IInv, CallAlone, [Next]_vars PROVE CallAlone'
    OBVIOUS
<1>0. /\ at \in [Coros -> Busy \union {"idle"}]
      /\ call \in Coros \union {NoCoro} /\ (call # NoCoro => at[call] # "idle") /\ NoCoro \notin Coros
      /\ moving \in BOOLEAN
      BY SessionAssumption DEF IInv, TypeOK, Busy
<1>1. CASE UNCHANGED <<call, at, before, moving>>
      BY <1>1 DEF CallAlone
<1>2. CASE call' = NoCoro
      BY <1>2 DEF CallAlone
<1>3. ASSUME NEW c \in Coros, Begin(c) PROVE CallAlone'
  <2>1. /\ call' = c /\ at' = [at EXCEPT ![c] = Head(script)] /\ UNCHANGED moving
        /\ Head(script) \notin {"moving", "refusing", "stopping"}
        /\ before' = IF \E d \in Coros : at[d] # "idle" THEN "unknown"
                     ELSE IF moving THEN "moving" ELSE "still"
        BY <1>3 DEF Begin, Calls
  <2>2. at'[c] = Head(script) /\ \A d \in Coros : d # c => at'[d] = at[d]
        BY <1>0, <2>1
  <2> QED BY <1>0, <2>1, <2>2 DEF CallAlone
<1>4. ASSUME NEW c \in Coros, Answered(c) \/ Runs(c), ~ConnectFails(c), ~Leaves(c), call' # NoCoro
      PROVE  CallAlone'
  <2>1. PICK w : Goes(c, w)
        BY <1>4, CoroutineGoes
  <2>2. UNCHANGED <<call, before>> /\ at[c] # "idle"
        BY <1>4, <2>1 DEF Goes, Follows
  <2>3. SUFFICES ASSUME before # "unknown" PROVE CallAlone'
        BY <2>2 DEF CallAlone
  <2>4. c = call /\ at'[c] = w /\ \A d \in Coros : d # c => at'[d] = at[d]
        BY <1>0, <1>4, <2>1, <2>2, <2>3 DEF CallAlone, Goes
  <2>5. w \notin {"moving", "refusing", "stopping"} => moving' = moving /\ at[c] \notin {"moving", "refusing", "stopping"}
        BY <1>4, <2>1, <2>2, <2>4 DEF Goes, Follows
  <2> QED BY <1>4, <2>1, <2>2, <2>3, <2>4, <2>5 DEF CallAlone, Goes
<1>5. ASSUME NEW c \in Coros, MoveGivenUp(c) \/ ConnectFails(c) \/ Leaves(c) PROVE call' = NoCoro
      BY <1>5 DEF MoveGivenUp, ConnectFails, Leaves, Returns
<1>6. \/ \E p \in {"drive", "preflight"} : Connect(p)
      \/ Request \/ WatchFrames \/ GiveUpSession \/ CacheAges \/ UNCHANGED vars
      => UNCHANGED <<call, at, before, moving>>
      BY DEF Connect, Request, WatchFrames, GiveUpSession, CacheAges, caller, vars
<1> QED BY <1>1, <1>2, <1>3, <1>4, <1>5, <1>6 DEF Next

CallOutcome ==
  LET was == [ad EXCEPT !.moving = (before = "moving")]
      outcomes == IF at[call] = "stop" \/ at[call] = "stopping" THEN Abstract!PublishZero(was)
                  ELSE IF at[call] \in {"move", "asking", "moving", "refusing"}
                  THEN Abstract!PublishVelocity(was, "move")
                  ELSE {[ok |-> told', ad |-> was]}
  IN call # NoCoro /\ call' = NoCoro /\ before # "unknown" /\ ad.session /\ ad'.session
       => \E o \in outcomes : o.ok = told' /\ Bare(o.ad) = Bare(ad')

(* How a call of an open session comes to its end.                         *)
LEMMA CallEnds ==
  ASSUME IInv, CallAlone, Next, Open, Open', call # NoCoro, call' = NoCoro, before # "unknown"
  PROVE  /\ ~Late
         /\ at[call] = "stopping" => told' = TRUE /\ ~moving' /\ ~Late'
         /\ at[call] = "stop" => told' = FALSE /\ (moving' <=> before = "moving") /\ ~Late'
         /\ at[call] = "refusing" => told' = FALSE /\ ~moving' /\ ~Late'
         /\ at[call] = "moving" => moving' /\ ~Late'
         /\ at[call] = "move" => told' = FALSE /\ (moving' <=> before = "moving") /\ ~Late'
         /\ at[call] = "asking" => told' = FALSE /\ (moving' <=> before = "moving")
         /\ at[call] \notin {"stop", "stopping", "move", "asking", "moving", "refusing"}
              => (moving' <=> before = "moving") /\ ~Late'
<1>0. /\ at \in [Coros -> Busy \union {"idle"}] /\ call \in Coros
      BY DEF IInv, TypeOK, Busy
<1>1. ~Late
      BY DEF CallAlone, Late
<1>2. ASSUME NEW c \in Coros, Answered(c) \/ Runs(c), ~ConnectFails(c), ~Leaves(c)
      PROVE  c = call /\ Goes(c, "idle")
      BY <1>2, CoroutineGoes DEF Goes
<1>3. ASSUME NEW c \in Coros, Goes(c, "idle"), c = call
      PROVE  ~Late' /\ moving' = moving /\ Tells(at[call])
      BY <1>0, <1>3 DEF Goes, Late, CallAlone
<1>4. ASSUME NEW c \in Coros, MoveGivenUp(c)
      PROVE  /\ c = call /\ moving' = moving /\ told' = FALSE /\ at[c] \in {"asking", "moving", "refusing"}
             /\ at[c] # "asking" => ~Late'
      BY <1>0, <1>4 DEF MoveGivenUp, Returns, Late, CallAlone
<1>5. ASSUME NEW c \in Coros, ConnectFails(c) \/ Leaves(c) PROVE FALSE
      BY <1>5 DEF ConnectFails, Leaves, Open
<1>6. ~\/ \E p \in {"drive", "preflight"} : Connect(p)
       \/ Request \/ WatchFrames \/ GiveUpSession \/ CacheAges
       \/ \E c \in Coros : Begin(c)
      BY DEF Connect, Request, WatchFrames, GiveUpSession, CacheAges, caller, Begin
<1>7. \/ ~Late' /\ moving' = moving /\ Tells(at[call])
      \/ /\ moving' = moving /\ told' = FALSE /\ at[call] \in {"asking", "moving", "refusing"}
         /\ at[call] # "asking" => ~Late'
      BY <1>2, <1>3, <1>4, <1>5, <1>6 DEF Next
<1> QED BY <1>1, <1>7 DEF CallAlone, Tells

LEMMA StepIsOutcome ==
  ASSUME IInv, CallAlone, [Next]_vars
  PROVE  [CallOutcome]_vars
<1> SUFFICES ASSUME Next, call # NoCoro, call' = NoCoro, before # "unknown", ad.session, ad'.session
             PROVE  CallOutcome
    BY DEF CallOutcome
<1> DEFINE was == [ad EXCEPT !.moving = (before = "moving")]
           velocity == {"move", "asking", "moving", "refusing"}
<1>1. /\ {moving, moving', told', Open, Open', Late, Late'} \subseteq BOOLEAN
      /\ ad \in Abstract!Adapter /\ ad.session = Open /\ ad.late = Late
      /\ ad'.session = Open' /\ Bare(ad') = <<Open', moving', Late'>>
      BY AdapterNow
<1>2. /\ was \in Abstract!Adapter /\ was.session = Open /\ was.moving = (before = "moving")
      /\ was.late = Late
      BY <1>1 DEF Abstract!Adapter
<1>3. Open = TRUE /\ Open' = TRUE
      BY <1>1
<1>4. Late = FALSE
      BY <1>3, CallEnds
<1>5. Bare(was) = <<TRUE, before = "moving", FALSE>>
      BY <1>2, <1>3, <1>4 DEF Bare
<1> HIDE DEF was
<1>6. CASE at[call] \in {"stop", "stopping"}
  <2>1. \/ told' = TRUE /\ Bare(ad') = <<TRUE, FALSE, FALSE>>
        \/ told' = FALSE /\ Bare(ad') = Bare(was)
        BY <1>1, <1>3, <1>5, <1>6, CallEnds
  <2>2. /\ \E o \in Abstract!PublishZero(was) : o.ok = FALSE /\ Bare(o.ad) = Bare(was)
        /\ \E o \in Abstract!PublishZero(was) : o.ok = TRUE /\ Bare(o.ad) = <<TRUE, FALSE, FALSE>>
        BY <1>2, <1>3, <1>4, ZeroFails, ZeroSucceeds
  <2>3. \E o \in Abstract!PublishZero(was) : o.ok = told' /\ Bare(o.ad) = Bare(ad')
        BY <2>1, <2>2
  <2> QED BY <1>6, <2>3 DEF CallOutcome, was
<1>7. CASE at[call] \in velocity
  <2>1. \/ told' = TRUE /\ Bare(ad') = <<TRUE, TRUE, FALSE>>
        \/ told' = FALSE /\ Bare(ad') = <<TRUE, TRUE, FALSE>>
        \/ told' = FALSE /\ Bare(ad') = <<TRUE, FALSE, FALSE>>
        \/ told' = FALSE /\ Bare(ad') = Bare(was)
        \/ told' = FALSE /\ Bare(ad') = <<TRUE, before = "moving", TRUE>>
        BY <1>1, <1>3, <1>5, <1>7, CallEnds
  <2>2. LET ends == Abstract!PublishVelocity(was, "move") IN
        /\ \E o \in ends : o.ok = TRUE /\ Bare(o.ad) = <<TRUE, TRUE, FALSE>>
        /\ \E o \in ends : o.ok = FALSE /\ Bare(o.ad) = <<TRUE, TRUE, FALSE>>
        /\ \E o \in ends : o.ok = FALSE /\ Bare(o.ad) = <<TRUE, FALSE, FALSE>>
        /\ \E o \in ends : o.ok = FALSE /\ Bare(o.ad) = Bare(was)
        /\ \E o \in ends : o.ok = FALSE /\ Bare(o.ad) = <<TRUE, before = "moving", TRUE>>
    <3>1. /\ was.session = TRUE /\ was.late = FALSE
          /\ <<TRUE, was.moving, TRUE>> = <<TRUE, before = "moving", TRUE>>
          BY <1>2, <1>3, <1>4
    <3> QED BY <1>2, <3>1, MoveEnds
  <2>3. \E o \in Abstract!PublishVelocity(was, "move") : o.ok = told' /\ Bare(o.ad) = Bare(ad')
        BY <2>1, <2>2
  <2>4. at[call] \notin {"stop", "stopping"}
        BY <1>7
  <2> QED BY <1>7, <2>3, <2>4 DEF CallOutcome, was
<1>8. CASE at[call] \notin velocity \union {"stop", "stopping"}
  <2>1. Bare(ad') = Bare(was)
        BY <1>1, <1>3, <1>5, <1>8, CallEnds
  <2> DEFINE o == [ok |-> told', ad |-> was]
  <2>2. o.ok = told' /\ o.ad = was
        OBVIOUS
  <2>3. \E q \in {o} : q.ok = told' /\ Bare(q.ad) = Bare(ad')
        BY <2>1, <2>2
  <2> QED BY <1>8, <2>3 DEF CallOutcome, was
<1> QED BY <1>6, <1>7, <1>8

(* What a call that had the loop to itself tells and does is an outcome    *)
(* that Go2Adapter gives it, whatever the robot answered and however late: *)
(* a zero told sent has stopped the robot, a Move told refused has not     *)
(* moved it, and one that was given up may still follow                    *)
(* (webrtc_connect.py, _run and the calls on it).                          *)
THEOREM CallsAreOutcomes == Spec => CallOutcomes
<1>1. Init => CallAlone
      BY DEF Init, CallAlone
<1>2. Spec => [](IInv /\ CallAlone)
      BY <1>1, InitIInv, StepIInv, StepAlone, PTL DEF Spec
<1>3. IInv /\ CallAlone /\ [Next]_vars => [CallOutcome]_vars
      BY StepIsOutcome
<1>4. Spec => [][CallOutcome]_vars
      BY <1>2, <1>3, PTL DEF Spec
<1> QED BY <1>4 DEF CallOutcomes, CallOutcome

=============================================================================
