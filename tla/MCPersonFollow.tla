--------------------------- MODULE MCPersonFollow ---------------------------
(* Two people in a picture of 64 by 48 units, one found more surely than   *)
(* the other: at its left, in its centre, beside the centre (three quarters*)
(* of which that box shares) or smaller and higher at its right.           *)
EXTENDS PersonFollow

CONSTANTS p1, p2

MCPersons == {p1, p2}
MCLeft == [x1 |-> 0, x2 |-> 16, y1 |-> 8, y2 |-> 40]
MCCentre == [x1 |-> 24, x2 |-> 40, y1 |-> 8, y2 |-> 40]
MCBeside == [x1 |-> 26, x2 |-> 42, y1 |-> 8, y2 |-> 40]
MCRight == [x1 |-> 50, x2 |-> 62, y1 |-> 2, y2 |-> 26]
MCPlaces == {MCCentre, MCBeside, MCRight}
(* No two of these overlap, and without its colours nobody is taken from   *)
(* one to the other.                                                       *)
MCFarPlaces == {MCLeft, MCCentre, MCRight}
MCConf == [p \in MCPersons |-> IF p = p1 THEN 5 ELSE 9]
MCAnyLikeness == {0, 100}
MCNoLikeness == {0}
=============================================================================
