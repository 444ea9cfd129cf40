------------------------------ MODULE Go2Adapter ------------------------------
(***************************************************************************)
(* The robot as the console's controller sees it: DimOSGo2Adapter and its  *)
(* WebRTC session (robot-console/singularity_go2_console/dimos_adapter.py, *)
(* webrtc_connect.py), as operators on the record of their state. A call   *)
(* that can end in several ways is the set of its outcomes.                *)
(*                                                                         *)
(* The adapter follows a person in a thread of its own, which leaves its   *)
(* latest velocity in _last_follow_cmd; only the controller sends it on.   *)
(* The robot itself is external: it moves from the last Move it received   *)
(* until a StopMove.                                                       *)
(***************************************************************************)

CONSTANTS
  Threads,    \* the follow threads that may be alive at once
  NoThread,
  Faults      \* what may go wrong, see the assumption

ASSUME AdapterAssumption ==
  /\ NoThread \notin Threads
  /\ Faults \subseteq {"zeroFails",    \* the session does not take a StopMove
                       "lateMove",    \* a Move outlives the 2 s its caller waits for it
                       "overrun",      \* a follow thread outlives the 2 s stop_follow waits for it
                       "drop"}         \* the adapter reports a lost connection: only the
                                       \* mock does, DimOSGo2Adapter.connected never goes FALSE

Commands == {"none", "zero", "move"}
Working == {"checking", "looking"}

Adapter ==
  [session : BOOLEAN,    \* there is a _session
   dropped : BOOLEAN,    \* drop_connection of the mock
   moving : BOOLEAN,     \* external: the robot moves
   late : BOOLEAN,       \* a Move whose caller gave up is still on its way
   stop : BOOLEAN,       \* _follow_stop is set
   following : BOOLEAN,  \* _following
   visible : BOOLEAN,    \* _target_visible
   cmd : Commands,       \* _last_follow_cmd
   thread : Threads \union {NoThread},             \* _follow_thread
   at : [Threads -> Working \union {"dead"}],      \* where each follow thread is
   clean : BOOLEAN]      \* history: none of the faults but "drop" has happened

(* The adapter once connect has succeeded, or has failed at its key, its   *)
(* address or the session. A camera without a frame or a detector that     *)
(* does not load is no failure: a follow then finds nobody.                *)
NewAdapter(connected) ==
  [session |-> connected, dropped |-> FALSE, moving |-> FALSE, late |-> FALSE, stop |-> FALSE,
   following |-> FALSE, visible |-> FALSE, cmd |-> "none", thread |-> NoThread,
   at |-> [t \in Threads |-> "dead"], clean |-> TRUE]

Connected(a) == a.session /\ ~a.dropped

Outcome(ok, a) == [ok |-> ok, ad |-> a]

(* A fault that may happen: the adapter after it, no longer clean.         *)
Fault(f, a) == IF f \in Faults THEN {[a EXCEPT !.clean = FALSE]} ELSE {}

-----------------------------------------------------------------------------
(* Velocities.                                                             *)

(* publish_zero: a StopMove without an answer counts as sent.              *)
PublishZero(a) ==
  IF a.session
  THEN {Outcome(TRUE, [a EXCEPT !.moving = FALSE])}
         \union {Outcome(FALSE, b) : b \in Fault("zeroFails", a)}
  ELSE {Outcome(FALSE, a)}

(* publish_velocity. The session first asks for the motion mode: a mode    *)
(* other than normal sends a StopMove instead. When the question takes the *)
(* caller's 2 s, the caller is told of a failure and the Move is sent all  *)
(* the same, or has been.                                                  *)
PublishVelocity(a, cmd) ==
  IF a.session
  THEN {Outcome(TRUE, [a EXCEPT !.moving = (cmd = "move")]),
        Outcome(FALSE, a),
        Outcome(FALSE, [a EXCEPT !.moving = FALSE])}
         \union (IF cmd = "move"
                 THEN {Outcome(FALSE, [b EXCEPT !.late = TRUE]) : b \in Fault("lateMove", a)}
                        \union {Outcome(FALSE, [b EXCEPT !.moving = TRUE]) : b \in Fault("lateMove", a)}
                 ELSE {})
  ELSE {Outcome(FALSE, a)}

(* The Move whose caller gave up reaches the robot, or is refused with a   *)
(* StopMove in its place.                                                  *)
LateMove(a) ==
  IF a.late /\ a.session
  THEN {[a EXCEPT !.late = FALSE, !.moving = m] : m \in {TRUE, FALSE, a.moving}}
  ELSE {}

-----------------------------------------------------------------------------
(* Following.                                                              *)

(* The last lines of a follow thread.                                      *)
ThreadEnd(a, t) ==
  [a EXCEPT !.at[t] = "dead", !.cmd = "zero", !.following = FALSE, !.visible = FALSE]

(* The loop's condition. Which thread the stop event is meant for is not   *)
(* recorded: there is one event for all of them.                           *)
ThreadCheck(a, t) ==
  IF a.at[t] = "checking"
  THEN {IF a.stop THEN ThreadEnd(a, t) ELSE [a EXCEPT !.at[t] = "looking"]}
  ELSE {}

(* One pass of the loop over the latest frame: the person is found, or is  *)
(* not, or the detector fails; after too many passes without the person    *)
(* the thread ends by itself.                                              *)
ThreadLook(a, t) ==
  IF a.at[t] = "looking"
  THEN LET again == [a EXCEPT !.at[t] = "checking"] IN
       {[again EXCEPT !.visible = TRUE, !.cmd = c] : c \in {a.cmd, "zero", "move"}}
         \union {[again EXCEPT !.visible = FALSE, !.cmd = "zero"],
                 [again EXCEPT !.cmd = "zero"],
                 ThreadEnd(a, t)}
  ELSE {}

(* stop_follow: set the event, wait up to 2 s for the thread, forget it    *)
(* whether it has ended or not, publish a zero and ignore the result.      *)
StopFollow(a) ==
  LET told == [a EXCEPT !.stop = TRUE]
      alive == a.thread # NoThread /\ a.at[a.thread] \in Working
      waited == IF alive
                THEN {ThreadEnd(told, a.thread)}
                       \union (IF a.at[a.thread] = "looking" THEN Fault("overrun", told) ELSE {})
                ELSE {told}
      forgotten == {[b EXCEPT !.thread = NoThread, !.following = FALSE, !.visible = FALSE] :
                      b \in waited}
  IN {z.ad : z \in UNION {PublishZero(b) : b \in forgotten}}

(* start_follow: stop what there is, clear the event, start a new thread.  *)
StartFollow(a) ==
  {[p[1] EXCEPT !.stop = FALSE, !.following = TRUE, !.visible = TRUE,
                !.thread = p[2], !.at[p[2]] = "checking"] :
     p \in {q \in StopFollow(a) \X Threads : q[1].at[q[2]] = "dead"}}

(* disconnect: one more zero, and one from the closing session, which a    *)
(* late Move may still follow. With the session its loop is gone.          *)
Disconnect(a) ==
  LET zeroed(S) == UNION {{z.ad : z \in PublishZero(s)} : s \in S}
      still == zeroed(zeroed(StopFollow(a)))
  IN {[b EXCEPT !.session = FALSE, !.late = FALSE] : b \in still \union UNION {LateMove(s) : s \in still}}
=============================================================================
