----------------------------- MODULE TargetLocker -----------------------------
(***************************************************************************)
(* Whom the follow thread takes for its target in a picture                *)
(* (robot-console/singularity_go2_console/target_locker.py): TargetLocker  *)
(* as an operator on its _target. The Kalman filter is left out: what it   *)
(* predicts steers the robot while nobody is seen, and is not used for     *)
(* matching, which compares with the box last seen.                        *)
(***************************************************************************)
EXTENDS Boxes

CONSTANTS
  Persons,    \* history: who the detections are
  NoTarget,
  Retain      \* retain_seconds

(* A target: its box, how long ago it was seen there, and the state of its *)
(* colour histogram: "own", that of the frame in which it was locked, or   *)
(* "flat" after it was blended with a new one, because cv2.normalize with  *)
(* alpha = 0 makes it zero.                                                *)
Target == [who : Persons, box : Box, seen : Nat, colour : {"own", "flat"}]

ASSUME LockerAssumption == NoTarget \notin Target /\ Retain \in Nat

(* _hist_correlation: any detection may resemble the target's histogram to *)
(* any degree, and a histogram without variance correlates with all.       *)
ColourScore(target, d) == IF target.colour = "flat" THEN 100 ELSE d.likeness

(* Mutant: the weights of overlap and colour are swapped.                  *)
MatchColourFirst(target, d) ==
  20 * IoU(d.box, target.box) + 35 * (100 - CentreDistance(d.box, target.box))
    + 45 * ColourScore(target, d)

(* The three cues: 45 % overlap, 35 % distance, 20 % colour.               *)
MatchScore(target, d) ==
  45 * IoU(d.box, target.box) + 35 * (100 - CentreDistance(d.box, target.box))
    + 20 * ColourScore(target, d)

Accepted(score) == score >= 3500

LockNew(d) == [who |-> d.who, box |-> d.box, seen |-> 0, colour |-> "own"]

Matched(target, d) == [who |-> d.who, box |-> d.box, seen |-> 0, colour |-> "flat"]

(* Nobody matches: the target is kept for retain_seconds.                  *)
Retained(target) ==
  IF target # NoTarget /\ target.seen <= Retain THEN target ELSE NoTarget

(* update: the targets it may have after these detections. It returns the  *)
(* target, or its predicted position while the target is retained.         *)
Locked(target, detections) ==
  IF detections = {} THEN {Retained(target)}
  ELSE IF target = NoTarget
  THEN {LockNew(d) : d \in {e \in detections : \A f \in detections : f.conf <= e.conf}}
  ELSE LET Score(d) == MatchScore(target, d)
           best == {d \in detections : \A e \in detections : Score(e) <= Score(d)}
       IN {IF Accepted(Score(d)) THEN Matched(target, d) ELSE Retained(target) : d \in best}
=============================================================================
