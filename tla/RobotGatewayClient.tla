-------------------------- MODULE RobotGatewayClient --------------------------
(***************************************************************************)
(* Dolly's client of the robot service (dolly-integration/                 *)
(* robot_gateway.py): on one event loop it polls the gateway's health and  *)
(* its state, each in a task of its own, listens to its events in a third, *)
(* and sends commands for its callers.                                     *)
(*                                                                         *)
(* One action is the code between two awaits. Three things say whether     *)
(* the robot is connected: the flag _connected, the cached robot state,    *)
(* and Dolly's StateStore; Dolly's EventBus is told of every change.       *)
(* External are the network, the gateway, the StateStore, which may take a *)
(* while to take an update, and the bus.                                   *)
(***************************************************************************)

CONSTANT Calls   \* calls of send_command and emergency_stop

VARIABLES
  phase,      \* the client's lifecycle
  connected,  \* _connected
  cached,     \* _robot_state["connected"]
  at,         \* where each polling task is
  answer,     \* what the gateway has answered to the poll under way, if it has
  news,       \* what the health task is about to tell the bus
  push,       \* the update of the StateStore under way, per writer
  socket,     \* where the event task is
  call,       \* where each call is
  link,       \* external: the gateway answers
  robot,      \* external: whether the gateway finds the robot connected, per poll
  store,      \* external: robot_connected in the StateStore
  said        \* history: what the bus has last been told

clientVars == <<phase, connected, cached, at, answer, news, push, socket, call>>
externalVars == <<link, robot, store, said>>
vars == <<clientVars, externalVars>>

Polls == {"health", "state"}
Writers == Polls \union {"stop"}
Pending == {{}, {TRUE}, {FALSE}}   \* nothing, or the value under way

TypeOK ==
  /\ phase \in {"new", "on", "cancelling", "closing", "storing", "stopped"}
  /\ connected \in BOOLEAN
  /\ cached \in BOOLEAN
  /\ at \in [Polls -> {"ended", "sleeping", "asking", "storing", "telling"}]
  /\ answer \in [Polls -> Pending]
  /\ news \in {"none", "connected", "disconnected"}
  /\ news # "none" => at["health"] \in {"storing", "telling", "ended"}
  /\ push \in [Writers -> Pending]
  /\ socket \in {"ended", "connecting", "welcome", "open", "sleeping"}
  /\ call \in [Calls -> {"new", "asking", "run", "answered", "failed", "disabled", "raised"}]
  /\ link \in BOOLEAN
  /\ robot \in [Polls -> BOOLEAN]
  /\ store \in BOOLEAN
  /\ said \in {"none", "connected", "disconnected", "unfounded"}

Init ==
  /\ phase = "new"
  /\ connected = FALSE
  /\ cached = FALSE
  /\ at = [p \in Polls |-> "ended"]
  /\ answer = [p \in Polls |-> {}]
  /\ news = "none"
  /\ push = [w \in Writers |-> {}]
  /\ socket = "ended"
  /\ call = [c \in Calls |-> "new"]
  /\ link \in BOOLEAN
  /\ robot \in [Polls -> BOOLEAN]
  /\ store = FALSE
  /\ said = "none"

HttpOpen == phase \in {"on", "cancelling"}

-----------------------------------------------------------------------------
(* start and stop                                                          *)

Start ==
  /\ phase = "new"
  /\ phase' = "on"
  /\ at' = [p \in Polls |-> "sleeping"]
  /\ socket' = "connecting"
  /\ UNCHANGED <<connected, cached, answer, news, push, call, externalVars>>

(* A task that is cancelled runs no further; the update of the StateStore  *)
(* it waits for has been taken or is dropped with it.                      *)
StopCancels ==
  /\ phase = "on"
  /\ phase' = "cancelling"
  /\ at' = [p \in Polls |-> "ended"]
  /\ push' = [w \in Writers |-> {}]
  /\ socket' = "ended"
  /\ UNCHANGED <<connected, cached, answer, news, call, externalVars>>

StopClosesHttp ==
  /\ phase = "cancelling"
  /\ phase' = "closing"
  /\ UNCHANGED <<connected, cached, at, answer, news, push, socket, call, externalVars>>

(* _set_connected, by writer w: nothing when the flag has the value.       *)
SetConnected(w, value) ==
  /\ connected' = value
  /\ IF connected = value
     THEN UNCHANGED <<cached, push>>
     ELSE cached' = value /\ push' = [push EXCEPT ![w] = {value}]

StopDisconnects ==
  /\ phase = "closing"
  /\ SetConnected("stop", FALSE)
  /\ phase' = IF connected THEN "storing" ELSE "stopped"
  /\ UNCHANGED <<at, answer, news, socket, call, externalVars>>

-----------------------------------------------------------------------------
(* The polling tasks                                                       *)

Ask(p) ==
  /\ at[p] = "sleeping"
  /\ at' = [at EXCEPT ![p] = "asking"]
  /\ answer' = [answer EXCEPT ![p] = {}]
  /\ UNCHANGED <<phase, connected, cached, news, push, socket, call, externalVars>>

(* The gateway looks at the robot when it answers: at its own heartbeat    *)
(* for the health, and for the state at what DimOS says of the connection, *)
(* or at the heartbeat where DimOS says nothing.                           *)
GatewayAnswers(p) ==
  /\ at[p] = "asking"
  /\ answer[p] = {}
  /\ link
  /\ answer' = [answer EXCEPT ![p] = {robot[p]}]
  /\ UNCHANGED <<phase, connected, cached, at, news, push, socket, call, externalVars>>

(* Mutant: whoever finds the robot disconnected says so.                   *)
NewsOfAny(was, is) == IF is THEN IF was THEN "none" ELSE "connected" ELSE "disconnected"

(* What the health task tells the bus of a change.                         *)
NewsOf(was, is) == IF was = is THEN "none" ELSE IF is THEN "connected" ELSE "disconnected"

HealthAnswered ==
  /\ at["health"] = "asking"
  /\ \E is \in answer["health"] :
       /\ SetConnected("health", is)
       /\ news' = NewsOf(connected, is)
       /\ at' = [at EXCEPT !["health"] = IF connected # is THEN "storing"
                                         ELSE IF news' # "none" THEN "telling" ELSE "sleeping"]
  /\ UNCHANGED <<phase, answer, socket, call, externalVars>>

(* Mutant: the health task, too, passes over a failed poll.                *)
HealthSkips ==
  /\ at["health"] = "asking"
  /\ ~link
  /\ at' = [at EXCEPT !["health"] = "sleeping"]
  /\ UNCHANGED <<phase, connected, cached, answer, news, push, socket, call, externalVars>>

(* No answer in time, or none that is a 200: the flag goes off, and the    *)
(* bus is told nothing.                                                    *)
HealthFails ==
  /\ at["health"] = "asking"
  /\ ~link
  /\ SetConnected("health", FALSE)
  /\ at' = [at EXCEPT !["health"] = IF connected THEN "storing" ELSE "sleeping"]
  /\ UNCHANGED <<phase, answer, news, socket, call, externalVars>>

(* Mutant: the news is told again when the health task next speaks.        *)
HealthTellsAgain ==
  /\ at["health"] = "telling"
  /\ said' = IF news = "disconnected" /\ said # "connected" THEN "unfounded" ELSE news
  /\ at' = [at EXCEPT !["health"] = "sleeping"]
  /\ UNCHANGED <<phase, connected, cached, answer, news, push, socket, call, link, robot, store>>

HealthTells ==
  /\ at["health"] = "telling"
  /\ said' = IF news = "disconnected" /\ said # "connected" THEN "unfounded" ELSE news
  /\ news' = "none"
  /\ at' = [at EXCEPT !["health"] = "sleeping"]
  /\ UNCHANGED <<phase, connected, cached, answer, push, socket, call, link, robot, store>>

(* The state task replaces the cached state and pushes it.                 *)
StateAnswered ==
  /\ at["state"] = "asking"
  /\ \E is \in answer["state"] :
       cached' = is /\ push' = [push EXCEPT !["state"] = {is}]
  /\ at' = [at EXCEPT !["state"] = "storing"]
  /\ UNCHANGED <<phase, connected, answer, news, socket, call, externalVars>>

(* Mutant: the first failed poll ends the state task.                      *)
StateFailsForGood ==
  /\ at["state"] = "asking"
  /\ ~link
  /\ at' = [at EXCEPT !["state"] = "ended"]
  /\ UNCHANGED <<phase, connected, cached, answer, news, push, socket, call, externalVars>>

StateFails ==
  /\ at["state"] = "asking"
  /\ ~link
  /\ at' = [at EXCEPT !["state"] = "sleeping"]
  /\ UNCHANGED <<phase, connected, cached, answer, news, push, socket, call, externalVars>>

(* The StateStore has taken an update, and its writer goes on.             *)
StoreTakes(w) ==
  /\ push[w] # {}
  /\ store' \in push[w]
  /\ push' = [push EXCEPT ![w] = {}]
  /\ at' = [p \in Polls |-> IF p # w THEN at[p]
                            ELSE IF p = "health" /\ news # "none" THEN "telling" ELSE "sleeping"]
  /\ phase' = IF w = "stop" THEN "stopped" ELSE phase
  /\ UNCHANGED <<connected, cached, answer, news, socket, call, link, robot, said>>

-----------------------------------------------------------------------------
(* The event task                                                          *)

SocketOpens ==
  /\ socket = "connecting"
  /\ link
  /\ socket' = "welcome"
  /\ UNCHANGED <<phase, connected, cached, at, answer, news, push, call, externalVars>>

(* The gateway's first event on a socket is "robot.connected", which the   *)
(* client forwards to the bus. The states that follow go the same way.     *)
SocketWelcomes ==
  /\ socket = "welcome"
  /\ socket' = "open"
  /\ said' = "connected"
  /\ UNCHANGED <<phase, connected, cached, at, answer, news, push, call, link, robot, store>>

SocketBreaks ==
  /\ socket \in {"connecting", "welcome", "open"}
  /\ ~link
  /\ socket' = "sleeping"
  /\ UNCHANGED <<phase, connected, cached, at, answer, news, push, call, externalVars>>

(* Mutant: a socket that breaks ends the event task.                       *)
SocketNeverRetries == FALSE

(* The backoff is over.                                                    *)
SocketRetries ==
  /\ socket = "sleeping"
  /\ socket' = "connecting"
  /\ UNCHANGED <<phase, connected, cached, at, answer, news, push, call, externalVars>>

-----------------------------------------------------------------------------
(* send_command and emergency_stop: one POST, never repeated               *)

(* Without an HTTP client the call is refused; while stop() closes it, it  *)
(* raises, since that error is none of those the call catches.             *)
Call(c) ==
  /\ call[c] = "new"
  /\ call' = [call EXCEPT ![c] = IF HttpOpen THEN "asking"
                                 ELSE IF phase = "closing" THEN "raised" ELSE "disabled"]
  /\ UNCHANGED <<phase, connected, cached, at, answer, news, push, socket, externalVars>>

GatewayRuns(c) ==
  /\ call[c] = "asking"
  /\ link
  /\ HttpOpen
  /\ call' = [call EXCEPT ![c] = "run"]
  /\ UNCHANGED <<phase, connected, cached, at, answer, news, push, socket, externalVars>>

CallAnswered(c) ==
  /\ call[c] = "run"
  /\ link
  /\ HttpOpen
  /\ call' = [call EXCEPT ![c] = "answered"]
  /\ UNCHANGED <<phase, connected, cached, at, answer, news, push, socket, externalVars>>

(* Mutant: a call waits for its answer until the client is closed.         *)
CallFailsAtClose(c) ==
  /\ call[c] \in {"asking", "run"}
  /\ ~HttpOpen
  /\ call' = [call EXCEPT ![c] = "failed"]
  /\ UNCHANGED <<phase, connected, cached, at, answer, news, push, socket, externalVars>>

(* No answer in request_timeout_s, or the client is closed: the receipt    *)
(* says not accepted, whether or not the gateway has run the command.      *)
CallFails(c) ==
  /\ call[c] \in {"asking", "run"}
  /\ ~link \/ ~HttpOpen
  /\ call' = [call EXCEPT ![c] = "failed"]
  /\ UNCHANGED <<phase, connected, cached, at, answer, news, push, socket, externalVars>>

-----------------------------------------------------------------------------
(* The network and the robot.                                              *)
Surroundings ==
  /\ \/ link' = ~link /\ UNCHANGED robot
     \/ \E p \in Polls : robot' = [robot EXCEPT ![p] = ~@] /\ UNCHANGED link
  /\ UNCHANGED <<clientVars, store, said>>

Next ==
  \/ Start
  \/ StopCancels
  \/ StopClosesHttp
  \/ StopDisconnects
  \/ \E p \in Polls : Ask(p)
  \/ \E p \in Polls : GatewayAnswers(p)
  \/ HealthAnswered
  \/ HealthFails
  \/ HealthTells
  \/ StateAnswered
  \/ StateFails
  \/ \E w \in Writers : StoreTakes(w)
  \/ SocketOpens
  \/ SocketWelcomes
  \/ SocketBreaks
  \/ SocketRetries
  \/ \E c \in Calls : Call(c)
  \/ \E c \in Calls : GatewayRuns(c)
  \/ \E c \in Calls : CallAnswered(c)
  \/ \E c \in Calls : CallFails(c)
  \/ Surroundings

(* The event loop runs what is ready, the gateway answers while the link   *)
(* is up and every request has a timeout. Nobody has to start or stop the  *)
(* client, and the link and the robot come and go as they like.            *)
Fairness ==
  /\ WF_vars(StopClosesHttp \/ StopDisconnects)
  /\ \A p \in Polls : WF_vars(Ask(p))
  /\ WF_vars(GatewayAnswers("health") \/ HealthAnswered \/ HealthFails)
  /\ WF_vars(HealthTells)
  /\ WF_vars(GatewayAnswers("state") \/ StateAnswered \/ StateFails)
  /\ \A w \in Writers : WF_vars(StoreTakes(w))
  /\ WF_vars(SocketOpens \/ SocketWelcomes \/ SocketBreaks \/ SocketRetries)
  /\ \A c \in Calls : WF_vars(GatewayRuns(c) \/ CallAnswered(c) \/ CallFails(c))

Spec == Init /\ [][Next]_vars /\ Fairness

-----------------------------------------------------------------------------
(* The bus hears of a loss only after it has heard of the connection that  *)
(* is lost, although failed polls take the flag down without a word and    *)
(* the socket speaks in between.                                           *)
LossesAreFounded == said # "unfounded"

(* Once the gateway stays reachable and both its answers stay as one, the  *)
(* flag and the StateStore come to agree with them for good, in whatever   *)
(* order the updates of the two tasks arrive.                              *)
ReachableAgrees ==
  \A is \in BOOLEAN :
    <>[](phase = "on" /\ link /\ \A p \in Polls : robot[p] = is)
      => <>[](connected = is /\ store = is)

(* Once the gateway stays out of reach the flag stays off.                 *)
UnreachableNoticed == <>[](phase = "on" /\ ~link) => <>[]~connected

(* Once the gateway stays reachable its events are received for good.      *)
EventsResume == <>[](phase = "on" /\ link) => <>[](socket = "open")

(* Every call returns or raises, also one that meets stop().               *)
CallsReturn ==
  \A c \in Calls :
    (call[c] = "asking") ~> (call[c] \in {"answered", "failed"})
=============================================================================
