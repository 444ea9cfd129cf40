---------------------- MODULE RobotGatewayClientProofs ----------------------
(***************************************************************************)
(* Dolly's client never tells of a loss nobody heard the beginning of, for *)
(* any set of calls and whatever the network, the gateway and the          *)
(* StateStore do.                                                          *)
(***************************************************************************)
EXTENDS RobotGatewayClient, TLAPS

(* The polling tasks live between start and stop, and whoever has an       *)
(* update of the StateStore under way waits for it.                        *)
TasksLive ==
  /\ phase # "on" => at["health"] = "ended"
  /\ push["health"] # {} => at["health"] = "storing"
  /\ push["stop"] # {} => phase = "storing"

(* What the health task has told, or is about to tell, is what the flag    *)
(* has become. It is about to tell of a loss only where the bus has last   *)
(* heard of a connection; a failed poll alone has no news.                 *)
Told ==
  /\ phase = "new" => ~connected /\ news = "none"
  /\ at["health"] \in {"sleeping", "asking"} =>
       news = "none" /\ (connected => said = "connected")
  /\ at["health"] \in {"storing", "telling"} =>
       \/ news = "connected" /\ connected
       \/ news = "disconnected" /\ ~connected /\ said = "connected"
       \/ news = "none" /\ ~connected /\ at["health"] = "storing"

IInv == TypeOK /\ TasksLive /\ Told /\ LossesAreFounded

LEMMA PendingFacts ==
  /\ {} \in Pending
  /\ \A is \in BOOLEAN : {is} \in Pending /\ {is} # {}
  /\ \A waiting \in Pending : \A is \in waiting : is \in BOOLEAN
BY DEF Pending

LEMMA InitIInv == Init => IInv
BY PendingFacts
   DEF Init, IInv, TypeOK, TasksLive, Told, LossesAreFounded, Polls, Writers

LEMMA StepIInv == IInv /\ [Next]_vars => IInv'
<1> SUFFICES ASSUME IInv, [Next]_vars PROVE IInv'
    OBVIOUS
<1> USE DEF IInv, TypeOK, TasksLive, Told, LossesAreFounded, Polls, Writers,
            clientVars, externalVars
<1> USE PendingFacts
<1>1. CASE Start
      BY <1>1 DEF Start
<1>2. CASE StopCancels
      BY <1>2 DEF StopCancels
<1>3. CASE StopClosesHttp
      BY <1>3 DEF StopClosesHttp
<1>4. CASE StopDisconnects
  <2>1. /\ phase = "closing"
        /\ connected' = FALSE
        /\ UNCHANGED <<at, answer, news, socket, call, link, robot, store, said>>
        BY <1>4 DEF StopDisconnects, SetConnected
  <2>2. CASE connected = FALSE
    <3>1. phase' = "stopped" /\ UNCHANGED <<cached, push>>
          BY <1>4, <2>2, Zenon DEF StopDisconnects, SetConnected
    <3> QED
        BY <2>1, <3>1
  <2>3. CASE connected = TRUE
    <3>1. phase' = "storing" /\ cached' = FALSE /\ push' = [push EXCEPT !["stop"] = {FALSE}]
          BY <1>4, <2>3 DEF StopDisconnects, SetConnected
    <3> QED
        BY <2>1, <3>1
  <2> QED
      BY <2>2, <2>3
<1>5. ASSUME NEW p \in Polls, Ask(p) PROVE IInv'
      BY <1>5 DEF Ask
<1>6. ASSUME NEW p \in Polls, GatewayAnswers(p) PROVE IInv'
  <2>1. robot[p] \in BOOLEAN
        OBVIOUS
  <2> QED
      BY <1>6, <2>1 DEF GatewayAnswers
<1>7. CASE HealthAnswered
      BY <1>7 DEF HealthAnswered, SetConnected, NewsOf
<1>8. CASE HealthFails
      BY <1>8 DEF HealthFails, SetConnected
<1>9. CASE HealthTells
      BY <1>9 DEF HealthTells
<1>10. CASE StateAnswered
      BY <1>10 DEF StateAnswered
<1>11. CASE StateFails
      BY <1>11 DEF StateFails
<1>12. ASSUME NEW w \in Writers, StoreTakes(w) PROVE IInv'
      BY <1>12 DEF StoreTakes
<1>13. CASE SocketOpens \/ SocketBreaks \/ SocketRetries
      BY <1>13 DEF SocketOpens, SocketBreaks, SocketRetries
<1>14. CASE SocketWelcomes
      BY <1>14 DEF SocketWelcomes
<1>15. ASSUME NEW c \in Calls,
              Call(c) \/ GatewayRuns(c) \/ CallAnswered(c) \/ CallFails(c)
       PROVE  IInv'
      BY <1>15 DEF Call, GatewayRuns, CallAnswered, CallFails, HttpOpen
<1>16. CASE Surroundings
  <2>1. /\ link' \in BOOLEAN
        /\ robot' \in [Polls -> BOOLEAN]
        /\ UNCHANGED <<clientVars, store, said>>
    <3>1. CASE link' = ~link /\ UNCHANGED robot
          BY <1>16, <3>1 DEF Surroundings
    <3>2. ASSUME NEW p \in Polls, robot' = [robot EXCEPT ![p] = ~@], UNCHANGED link
          PROVE  robot' \in [Polls -> BOOLEAN] /\ link' \in BOOLEAN
          BY <3>2
    <3> QED
        BY <1>16, <3>1, <3>2 DEF Surroundings
  <2> QED
      BY <2>1
<1>17. CASE UNCHANGED vars
      BY <1>17 DEF vars
<1> QED
    BY <1>1, <1>2, <1>3, <1>4, <1>5, <1>6, <1>7, <1>8, <1>9, <1>10, <1>11,
       <1>12, <1>13, <1>14, <1>15, <1>16, <1>17 DEF Next

LEMMA Inductive == Spec => []IInv
<1>1. Init => IInv
      BY InitIInv
<1>2. IInv /\ [Next]_vars => IInv'
      BY StepIInv
<1> QED
    BY <1>1, <1>2, PTL DEF Spec

(* Type correctness of the client: above all, the health task has news to  *)
(* tell only between a poll that changed the flag and the telling.         *)
THEOREM TypeCorrect == Spec => []TypeOK
<1>1. IInv => TypeOK
      BY DEF IInv
<1> QED
    BY <1>1, Inductive, PTL

(* The bus hears of a loss only after it has heard of the connection that  *)
(* is lost.                                                                *)
THEOREM Founded == Spec => []LossesAreFounded
<1>1. IInv => LossesAreFounded
      BY DEF IInv
<1> QED
    BY <1>1, Inductive, PTL
=============================================================================
