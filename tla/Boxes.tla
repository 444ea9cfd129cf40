-------------------------------- MODULE Boxes --------------------------------
(***************************************************************************)
(* Bounding boxes in the camera's picture, as front_person.py and          *)
(* target_locker.py measure them. Ratios are in percent, rounded down.     *)
(***************************************************************************)
EXTENDS Integers, FiniteSets

CONSTANTS Width, Height    \* of the picture

ASSUME BoxAssumption == Width \in Nat \ {0} /\ Height \in Nat \ {0}

Max2(a, b) == IF a >= b THEN a ELSE b
Min2(a, b) == IF a <= b THEN a ELSE b
Distance(a, b) == Max2(a, b) - Min2(a, b)

Box == {b \in [x1 : 0..Width, x2 : 0..Width, y1 : 0..Height, y2 : 0..Height] :
          b.x1 < b.x2 /\ b.y1 < b.y2}

Area(b) == (b.x2 - b.x1) * (b.y2 - b.y1)

(* Twice the centre.                                                       *)
CentreX2(b) == b.x1 + b.x2
CentreY2(b) == b.y1 + b.y2

(* How much of [a1, a2] and [b1, b2] is in both.                           *)
Shared(a1, a2, b1, b2) == Max2(0, Min2(a2, b2) - Max2(a1, b1))

Common(a, b) == Shared(a.x1, a.x2, b.x1, b.x2) * Shared(a.y1, a.y2, b.y1, b.y2)

(* Intersection over union.                                                *)
IoU(a, b) == (100 * Common(a, b)) \div (Area(a) + Area(b) - Common(a, b))

(* Four times the square of the distance of the centres.                   *)
Apart(a, b) ==
  Distance(CentreX2(a), CentreX2(b)) * Distance(CentreX2(a), CentreX2(b))
    + Distance(CentreY2(a), CentreY2(b)) * Distance(CentreY2(a), CentreY2(b))

Diagonal == Width * Width + Height * Height

(* The distance of the centres in percent of the picture's diagonal: how   *)
(* many whole percents it reaches, compared by their squares.              *)
CentreDistance(a, b) ==
  LET apart == 10000 * Apart(a, b)
  IN Cardinality({p \in 1..100 : 4 * p * p * Diagonal <= apart})
=============================================================================
