----------------------------- MODULE PersonFollow -----------------------------
(***************************************************************************)
(* One follow from the camera to the velocity: the acquisition loop of the *)
(* controller (controller.py) elects a person, the follow thread of the    *)
(* adapter (dimos_adapter.py) locks on to one and steers, and the          *)
(* controller's tick sends what it steers and watches the age of the       *)
(* camera's picture and the loss of the target (watchdog.py).              *)
(*                                                                         *)
(* Camera, thread and controller run by themselves: the latest picture may *)
(* be looked at many times or never. Time passes in units of               *)
(* camera_stale_ms; in each of them a running tick gets at least one turn, *)
(* and a running thread one in which the locker does not raise.            *)
(***************************************************************************)
EXTENDS FrontPerson, TargetLocker

CONSTANTS
  Places,     \* the boxes in which the detector finds people
  Conf,       \* how sure it is of each of them, in tenths
  OwnLikeness,      \* how much, in percent, somebody's colours may resemble
                    \* their own in another frame,
  OtherLikeness,    \* and those of another person
  Stale,      \* camera_stale_ms
  MaxLost     \* _max_lost_frames of the thread, and the ticks a target may be lost

ASSUME FollowAssumption ==
  /\ Places \subseteq Box
  /\ Conf \in [Persons -> 0..10]
  /\ OwnLikeness \subseteq 0..100 /\ OtherLikeness \subseteq 0..100
  /\ Stale \in Nat \ {0} /\ MaxLost \in Nat

VARIABLES
  picture,    \* what the detector finds in the latest frame, each time it looks:
              \* nobody, if it fails
  likeness,   \* how much everybody's colours in that frame resemble those the
              \* target had in the frame in which it was locked
  age,        \* how old that frame is
  mode,       \* the controller's
  tracker,    \* _stability
  running,    \* the follow thread runs
  target,     \* _target of its locker
  lost,       \* its passes without the target in a row
  visible,    \* _target_visible
  cmd,        \* _last_follow_cmd
  steering,   \* the follow's last velocity that was sent is not zero
  mark,       \* how long ago mark_frame was called
  missed,     \* _target_lost_frames
  due,        \* who has still to have a turn in this unit of time
  unseen      \* history: for how long the follow has had no match in a frame
              \* that was not stale, and no new target

camera == <<picture, likeness, age>>
thread == <<running, target, lost, visible, cmd>>
control == <<mode, tracker, mark, missed, steering>>
vars == <<camera, thread, control, due, unseen>>

Oldest == Stale + 1              \* bound: older frames are all the same
Longest == Retain + Stale + 4    \* bound on unseen

Pictures == [Persons -> Places \union {NoBox}]
Detections ==
  {[who |-> p, box |-> picture[p], conf |-> Conf[p], likeness |-> likeness[p]] :
     p \in {q \in Persons : picture[q] # NoBox}}

(* The likenesses of one frame to target t; nobody looks at them without a *)
(* target or once its histogram is flat.                                   *)
Likenesses(t) ==
  IF t = NoTarget \/ t.colour = "flat" THEN {[p \in Persons |-> 0]}
  ELSE {l \in [Persons -> OwnLikeness \union OtherLikeness] :
          \A p \in Persons : l[p] \in (IF p = t.who THEN OwnLikeness ELSE OtherLikeness)}

Init ==
  /\ picture \in Pictures /\ likeness \in Likenesses(NoTarget) /\ age = Oldest
  /\ mode = "IDLE" /\ tracker = NewTracker
  /\ running = FALSE /\ target = NoTarget /\ lost = 0 /\ visible = FALSE /\ cmd = "none"
  /\ steering = FALSE
  /\ mark = Oldest /\ missed = 0
  /\ due = {} /\ unseen = 0

-----------------------------------------------------------------------------
(* The camera.                                                             *)

NewFrame ==
  /\ picture' \in Pictures
  /\ likeness' \in Likenesses(target)
  /\ age' = 0
  /\ UNCHANGED <<thread, control, due, unseen>>

-----------------------------------------------------------------------------
(* Acquisition.                                                            *)

(* What the next follow does not read before it has set it itself.         *)
Forgets == tracker' = NewTracker /\ mark' = Oldest /\ missed' = 0 /\ unseen' = 0

(* start_follow_front_person; reacquire_front_person is a Hold and this.   *)
StartAcquiring ==
  /\ mode = "IDLE"
  /\ mode' = "ACQUIRING"
  /\ tracker' = NewTracker
  /\ UNCHANGED <<camera, thread, mark, missed, steering, due, unseen>>

(* start_follow: a new thread with a new locker. The person elected is not *)
(* passed on to it. The transition to FOLLOWING settles while it runs.     *)
FollowStarts ==
  /\ mode' = "SETTLING"
  /\ running' = TRUE /\ target' = NoTarget /\ lost' = 0 /\ visible' = TRUE
  /\ tracker' = NewTracker /\ missed' = 0 /\ unseen' = 0
  /\ UNCHANGED <<cmd, steering>>

(* One pass over the latest frame, be it a new one or not. An ambiguous    *)
(* picture neither counts nor starts the count again.                      *)
LookAgain ==
  /\ mode = "ACQUIRING"
  /\ mark' = 0
  /\ \E selection \in SelectFrontPerson(Detections) :
       LET counted == CASE selection.code = "AMBIGUOUS_TARGET" -> tracker
                        [] selection.code = "NO_PERSON_FOUND" -> NewTracker
                        [] selection.code = "OK" -> Update(tracker, selection.person.box)
       IN IF Stable(counted) THEN FollowStarts
          ELSE tracker' = counted /\ UNCHANGED <<thread, mode, missed, steering, unseen>>
  /\ UNCHANGED <<camera, due>>

FollowSettles ==
  /\ mode = "SETTLING"
  /\ mode' = "FOLLOWING"
  /\ UNCHANGED <<camera, thread, tracker, mark, missed, steering, due, unseen>>

(* The acquisition times out, or fails at the follow.                      *)
GiveUp ==
  /\ mode = "ACQUIRING"
  /\ mode' = "IDLE"
  /\ Forgets
  /\ UNCHANGED <<camera, thread, steering, due>>

-----------------------------------------------------------------------------
(* The follow thread.                                                      *)

(* Mutant: the locker is not reset.                                       *)
ThreadEndsLocked ==
  /\ running' = FALSE /\ lost' = 0
  /\ visible' = FALSE /\ cmd' = "zero"
  /\ UNCHANGED target

(* The end of the loop.                                                    *)
ThreadEnds ==
  /\ running' = FALSE /\ target' = NoTarget /\ lost' = 0
  /\ visible' = FALSE /\ cmd' = "zero"

(* A pass without the person counts.                                       *)
Loses(count, seen, t) ==
  IF count > MaxLost THEN ThreadEnds
  ELSE /\ target' = t /\ lost' = count /\ visible' = seen /\ cmd' = "zero"
       /\ UNCHANGED running

(* History: the target is a new one, or was matched just now in a frame    *)
(* that is not stale.                                                      *)
Seen(t) ==
  unseen' = IF \/ target = NoTarget
               \/ age <= Stale /\ t.seen = 0 /\ \E d \in Detections : t.who = d.who /\ t.box = d.box
            THEN 0 ELSE unseen

(* One pass over the latest frame. A match counts as seen now, however old *)
(* the frame is; whoever is locked resembles themselves in the same frame. *)
(* Aiming at the person may raise.                                         *)
Look ==
  /\ running
  /\ due' = due \ {"thread"}
  /\ \E t \in Locked(target, Detections) :
       IF t = NoTarget
       THEN Loses(lost + 1, FALSE, NoTarget) /\ UNCHANGED <<unseen, likeness>>
       ELSE /\ Seen(t)
            /\ IF target = NoTarget THEN \E l \in Likenesses(t) : likeness' = [l EXCEPT ![t.who] = 100]
               ELSE UNCHANGED likeness
            /\ \/ /\ target' = t /\ lost' = 0 /\ visible' = TRUE /\ cmd' = "move"
                  /\ UNCHANGED running
               \/ Loses(1, TRUE, t)
  /\ UNCHANGED <<picture, age, control>>

(* The locker raises: the pass counts, and leaves visible as it was. (The  *)
(* branch for a missing frame or detector is not reached: a follow starts  *)
(* from a detection in a frame, and neither is ever taken away.)           *)
LookRaises ==
  /\ running
  /\ Loses(lost + 1, visible, target)
  /\ UNCHANGED <<camera, control, due, unseen>>

-----------------------------------------------------------------------------
(* The tick.                                                               *)

(* The follow is stopped with a zero and the controller is IDLE.           *)
EndFollow ==
  /\ mode' = "IDLE"
  /\ ThreadEnds
  /\ steering' = FALSE
  /\ Forgets

(* Mutant: the watchdog is fed by any frame.                              *)
AnyMark == 0

(* The camera's mark after a tick: it is refreshed by a frame that is not  *)
(* stale, new or not.                                                      *)
Remark == IF age <= Stale THEN 0 ELSE mark

TickCameraStale ==
  /\ Remark > Stale
  /\ EndFollow

TickTargetLost ==
  /\ Remark <= Stale /\ ~visible
  /\ IF missed + 1 > MaxLost THEN EndFollow
     ELSE /\ mark' = Remark /\ missed' = missed + 1 /\ steering' = FALSE
          /\ UNCHANGED <<thread, mode, tracker, unseen>>

TickFollow ==
  /\ Remark <= Stale /\ visible
  /\ mark' = Remark
  /\ missed' = 0
  /\ cmd' = "none"
  /\ steering' = IF cmd = "none" THEN steering ELSE cmd = "move"
  /\ UNCHANGED <<running, target, lost, visible, mode, tracker, unseen>>

Tick ==
  /\ mode = "FOLLOWING"
  /\ due' = due \ {"tick"}
  /\ TickCameraStale \/ TickTargetLost \/ TickFollow
  /\ UNCHANGED camera

(* The operator holds, or the settle fails and the follow is stopped.      *)
Hold ==
  /\ mode # "IDLE"
  /\ EndFollow
  /\ UNCHANGED <<camera, due>>

-----------------------------------------------------------------------------
(* A unit of time passes once all have had their turn.                     *)
Older(n, cap) == Min2(n + 1, cap)

Advance ==
  /\ due \subseteq ((IF running THEN {} ELSE {"thread"}) \union (IF mode = "FOLLOWING" THEN {} ELSE {"tick"}))
  /\ due' = {"thread", "tick"}
  /\ age' = Older(age, Oldest) /\ mark' = Older(mark, Oldest)
  /\ target' = IF target = NoTarget THEN NoTarget ELSE [target EXCEPT !.seen = Older(@, Retain + 1)]
  /\ unseen' = IF steering THEN Older(unseen, Longest) ELSE unseen
  /\ UNCHANGED <<picture, likeness, mode, tracker, running, lost, visible, cmd, steering, missed>>

Next ==
  \/ NewFrame
  \/ StartAcquiring \/ LookAgain \/ FollowSettles \/ GiveUp
  \/ Look \/ LookRaises
  \/ Tick \/ Hold
  \/ Advance

Spec == Init /\ [][Next]_vars

-----------------------------------------------------------------------------
(* Properties.                                                             *)

TypeOK ==
  /\ picture \in Pictures /\ likeness \in [Persons -> 0..100] /\ age \in 0..Oldest
  /\ mode \in {"IDLE", "ACQUIRING", "SETTLING", "FOLLOWING"}
  /\ tracker \in Tracker
  /\ target \in {NoTarget} \union [who : Persons, box : Places, seen : 0..(Retain + 1), colour : {"own", "flat"}]
  /\ lost \in 0..MaxLost /\ missed \in 0..(MaxLost + 1)
  /\ running \in BOOLEAN /\ visible \in BOOLEAN /\ steering \in BOOLEAN
  /\ cmd \in {"none", "zero", "move"}
  /\ mark \in 0..Oldest /\ due \subseteq {"thread", "tick"} /\ unseen \in 0..Longest
  /\ (running => mode \in {"SETTLING", "FOLLOWING"}) /\ (target # NoTarget => running)
  /\ (steering => mode = "FOLLOWING")

(* A follow does not steer blindly for long: the watchdog of the camera,   *)
(* the locker's retention and the count of lost frames, each of which      *)
(* knows of one cause only, together bound the time for which the robot is *)
(* driven without the person being matched in a frame that is not stale:   *)
(* the limit for frames, the retention, and a turn to notice the end of    *)
(* each and to stop.                                                       *)
SightBound == steering => unseen <= Stale + Retain + 3

(* A person who stays where the locker last saw them is not lost, whatever *)
(* their colours are in the new frame: position alone reaches the          *)
(* threshold. The lock passes from them only to a box that is the very     *)
(* same, or, as long as colours count, to one that shares more than half   *)
(* of theirs: neither colour nor distance outweighs the overlap.           *)
StayingKeepsLock ==
  [][target # NoTarget /\ running' /\ picture[target.who] = target.box
       => /\ target' # NoTarget
          /\ \/ target'.who = target.who
             \/ target'.box = target.box
             \/ target.colour = "own" /\ IoU(target'.box, target.box) > 50]_target

-----------------------------------------------------------------------------
(* Claims of the repository that the code breaks.                          *)

(* target_locker.py:1 promises a persistent person identity across frames, *)
(* and lines 13-16 tell people apart by position and by colour: somebody   *)
(* dressed otherwise (of OtherLikeness zero) who does not even overlap the *)
(* place of the target is not taken for it. They are: the first match      *)
(* leaves a colour histogram that resembles everybody's.                   *)
FarPersonNotTaken ==
  [][target # NoTarget /\ target' # NoTarget /\ target'.who # target.who
       => IoU(target'.box, target.box) > 0]_target
=============================================================================
