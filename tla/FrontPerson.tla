----------------------------- MODULE FrontPerson -----------------------------
(***************************************************************************)
(* Whom a follow elects (robot-console/singularity_go2_console/            *)
(* front_person.py): select_front_person on the detections of one picture, *)
(* and TargetStabilityTracker over several.                                *)
(*                                                                         *)
(* A detection is a record of its box, its confidence in tenths, how much  *)
(* its colours resemble the target's (see TargetLocker) and, for the       *)
(* properties only, who it is. Classes other than person, boxes under      *)
(* 0.5 % of the picture and boxes in its top strip are not in the model.   *)
(***************************************************************************)
EXTENDS Boxes

CONSTANTS
  StableFrames,    \* target_stable_frames
  NoBox            \* None

ASSUME StableAssumption == StableFrames \in Nat \ {0} /\ NoBox \notin Box

-----------------------------------------------------------------------------
(* score_person: 55 % centre, 25 % area, 20 % confidence.                  *)

CentreScore(b) == Max2(0, 100 - (100 * Distance(CentreX2(b), Width)) \div Width)

(* A box of 30 % of the picture has the full score.                        *)
AreaScore(b) == Min2(100, (1000 * Area(b)) \div (3 * Width * Height))

ScorePerson(d) == 55 * CentreScore(d.box) + 25 * AreaScore(d.box) + 200 * d.conf

(* Those nobody in S scores higher than; of several the code takes the     *)
(* first the detector named.                                               *)
Best(S) == {d \in S : \A e \in S : ScorePerson(e) <= ScorePerson(d)}

Ambiguous(d, e) ==
  /\ Distance(ScorePerson(d), ScorePerson(e)) < 500
  /\ CentreScore(d.box) > 70 /\ CentreScore(e.box) > 70

(* select_front_person: the codes it may return, with the person elected.  *)
SelectFrontPerson(detections) ==
  LET scored == {d \in detections : d.conf >= 5}
  IN IF scored = {}
     THEN {[code |-> "NO_PERSON_FOUND"]}
     ELSE UNION {LET second == Best(scored \ {d})
                 IN {[code |-> "AMBIGUOUS_TARGET"] : e \in {f \in second : Ambiguous(d, f)}}
                      \union (IF second = {} \/ \E f \in second : ~Ambiguous(d, f)
                              THEN {[code |-> "OK", person |-> d]} ELSE {}) :
                 d \in Best(scored)}

-----------------------------------------------------------------------------
(* TargetStabilityTracker.                                                 *)

Tracker == [count : 0..StableFrames, box : Box \union {NoBox}]

(* reset *)
NewTracker == [count |-> 0, box |-> NoBox]

(* update: a box counts that shares 30 % with the last one elected.        *)
Update(tracker, box) ==
  [count |-> IF tracker.box # NoBox /\ IoU(tracker.box, box) >= 30
             THEN Min2(StableFrames, tracker.count + 1) ELSE 1,
   box |-> box]

Stable(tracker) == tracker.count = StableFrames
=============================================================================
