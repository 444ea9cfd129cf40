-------------------------- MODULE PersonFollowProofs --------------------------
(***************************************************************************)
(* Theorems about PersonFollow, for every picture, detector and limit: its *)
(* types, for how long a follow may steer blindly, and that whoever stays  *)
(* in place keeps the lock of the follow thread.                           *)
(***************************************************************************)
EXTENDS PersonFollow, FiniteSetTheorems, TLAPS

USE BoxAssumption DEF BoxAssumption
USE StableAssumption DEF StableAssumption
USE LockerAssumption DEF LockerAssumption
USE FollowAssumption DEF FollowAssumption

-----------------------------------------------------------------------------
(* The operators on boxes, detections and targets.                         *)

LEMMA ProductTypes ==
  /\ \A m, n \in Nat : m * n \in Nat
  /\ \A m, n \in Nat : m > 0 /\ n > 0 => m * n > 0
  /\ \A k, l, m, n \in Nat : k <= m /\ l <= n => k * l <= m * n
<1>1. ASSUME NEW k \in Nat, NEW l \in Nat, NEW m \in Nat, NEW n \in Nat, k <= m, l <= n
      PROVE  k * l <= m * n
  <2>1. k * l <= m * l
    BY <1>1
  <2>2. m * l <= m * n
    BY <1>1
  <2>3. k * l \in Nat /\ m * l \in Nat /\ m * n \in Nat
    OBVIOUS
  <2>4. QED
    BY <2>1, <2>2, <2>3
<1>2. QED
  BY <1>1

LEMMA BoxTypes ==
  ASSUME NEW b \in Box
  PROVE  /\ b.x1 \in Nat /\ b.x2 \in Nat /\ b.x1 < b.x2
         /\ b.y1 \in Nat /\ b.y2 \in Nat /\ b.y1 < b.y2
         /\ Area(b) \in Nat /\ Area(b) > 0
         /\ CentreX2(b) \in Nat /\ CentreY2(b) \in Nat
<1>1. /\ b.x1 \in Nat /\ b.x2 \in Nat /\ b.x1 < b.x2
      /\ b.y1 \in Nat /\ b.y2 \in Nat /\ b.y1 < b.y2
  BY DEF Box
<1>2. /\ b.x2 - b.x1 \in Nat /\ b.x2 - b.x1 > 0
      /\ b.y2 - b.y1 \in Nat /\ b.y2 - b.y1 > 0
  BY <1>1
<1>3. QED
  BY <1>1, <1>2, ProductTypes DEF Area, CentreX2, CentreY2

LEMMA DistanceTypes ==
  ASSUME NEW m \in Int, NEW n \in Int
  PROVE  Distance(m, n) \in Nat /\ Distance(m, m) = 0
BY DEF Distance, Max2, Min2

(* Two intervals share at most the smaller of them.                        *)
LEMMA SharedTypes ==
  ASSUME NEW a1 \in Nat, NEW a2 \in Nat, NEW b1 \in Nat, NEW b2 \in Nat, a1 < a2, b1 < b2
  PROVE  /\ Shared(a1, a2, b1, b2) \in Nat
         /\ Shared(a1, a2, b1, b2) <= a2 - a1 /\ Shared(a1, a2, b1, b2) <= b2 - b1
         /\ Shared(a1, a2, b1, b2) = a2 - a1 => b1 <= a1 /\ a2 <= b2
         /\ Shared(a1, a2, b1, b2) = b2 - b1 => a1 <= b1 /\ b2 <= a2
BY DEF Shared, Max2, Min2

(* Two boxes share at most the smaller of them.                            *)
LEMMA CommonTypes ==
  ASSUME NEW a \in Box, NEW b \in Box
  PROVE  Common(a, b) \in Nat /\ Common(a, b) <= Area(a) /\ Common(a, b) <= Area(b)
<1> DEFINE w == Shared(a.x1, a.x2, b.x1, b.x2)
           h == Shared(a.y1, a.y2, b.y1, b.y2)
<1>1. /\ w \in Nat /\ w <= a.x2 - a.x1 /\ w <= b.x2 - b.x1
      /\ h \in Nat /\ h <= a.y2 - a.y1 /\ h <= b.y2 - b.y1
  BY BoxTypes, SharedTypes
<1>2. /\ a.x2 - a.x1 \in Nat /\ b.x2 - b.x1 \in Nat
      /\ a.y2 - a.y1 \in Nat /\ b.y2 - b.y1 \in Nat
  BY BoxTypes
<1> HIDE DEF w, h
<1>3. w * h \in Nat /\ w * h <= Area(a) /\ w * h <= Area(b)
  BY <1>1, <1>2, ProductTypes DEF Area
<1>4. QED
  BY <1>3 DEF Common, w, h

LEMMA RatioTypes ==
  ASSUME NEW m \in Nat, NEW n \in Nat, n > 0
  PROVE  m \div n \in Nat
OBVIOUS

LEMMA IoUTypes ==
  ASSUME NEW a \in Box, NEW b \in Box
  PROVE  IoU(a, b) \in Nat
<1> DEFINE n == Area(a) + Area(b) - Common(a, b)
<1>1. n \in Nat /\ n > 0 /\ 100 * Common(a, b) \in Nat
  BY BoxTypes, CommonTypes
<1>2. QED
  BY <1>1, RatioTypes DEF IoU

LEMMA CentreDistanceTypes ==
  ASSUME NEW a, NEW b
  PROVE  CentreDistance(a, b) \in 0..100
<1> DEFINE reached == {p \in 1..100 : 4 * p * p * Diagonal <= 10000 * Apart(a, b)}
<1>1. reached \in SUBSET (1..100)
  OBVIOUS
<1>2. IsFiniteSet(1..100) /\ Cardinality(1..100) = 100
  <2>1. \A m, n \in Int : /\ IsFiniteSet(m..n)
                         /\ Cardinality(m..n) = IF m > n THEN 0 ELSE n - m + 1
    BY FS_Interval
  <2>2. 1 \in Int /\ 100 \in Int /\ (IF 1 > 100 THEN 0 ELSE 100 - 1 + 1) = 100
    OBVIOUS
  <2>3. QED
    BY <2>1, <2>2, Zenon
<1> HIDE DEF reached
<1>3. IsFiniteSet(reached) /\ Cardinality(reached) <= 100
  <2>1. \A S : IsFiniteSet(S) =>
          \A T \in SUBSET S : IsFiniteSet(T) /\ Cardinality(T) <= Cardinality(S)
    BY FS_Subset
  <2>2. IsFiniteSet(reached) /\ Cardinality(reached) <= Cardinality(1..100)
    BY <1>1, <1>2, <2>1, Zenon
  <2>3. QED
    BY <1>2, <2>2, Zenon
<1>4. Cardinality(reached) \in Nat
  BY <1>3, FS_CardinalityType
<1>5. QED
  BY <1>3, <1>4 DEF CentreDistance, reached

(* A box is itself wholly, and nowhere else.                               *)
LEMMA BoxIsItself ==
  ASSUME NEW b \in Box
  PROVE  IoU(b, b) = 100 /\ CentreDistance(b, b) = 0
<1>1. Common(b, b) = Area(b)
  BY BoxTypes DEF Common, Shared, Area, Max2, Min2
<1>2. IoU(b, b) = 100
  <2>1. IoU(b, b) = (100 * Area(b)) \div Area(b)
    BY <1>1, BoxTypes DEF IoU
  <2>2. \A n \in Nat : n > 0 => (100 * n) \div n = 100
    OBVIOUS
  <2>3. QED
    BY <2>1, <2>2, BoxTypes
<1>3. CentreDistance(b, b) = 0
  <2>1. Apart(b, b) = 0
    BY BoxTypes, DistanceTypes DEF Apart
  <2>2. \A p \in 1..100 : ~(4 * p * p * Diagonal <= 10000 * Apart(b, b))
    <3>1. Diagonal \in Nat /\ Diagonal > 0
      BY ProductTypes DEF Diagonal
    <3>2. \A p \in 1..100 : 4 * p * p \in Nat /\ 4 * p * p > 0
      OBVIOUS
    <3>3. QED
      BY <2>1, <3>1, <3>2, ProductTypes
  <2>3. {p \in 1..100 : 4 * p * p * Diagonal <= 10000 * Apart(b, b)} = {}
    BY <2>2
  <2>4. QED
    BY <2>3, FS_EmptySet DEF CentreDistance
<1>4. QED
  BY <1>2, <1>3

(* Only a box itself overlaps it wholly.                                   *)
LEMMA WholeOverlap ==
  ASSUME NEW a \in Box, NEW b \in Box, IoU(a, b) >= 100
  PROVE  a = b
<1>1. Common(a, b) = Area(a) /\ Common(a, b) = Area(b)
  <2> DEFINE c == Common(a, b)
             n == Area(a) + Area(b) - c
  <2>1. c \in Nat /\ n \in Nat /\ n > 0 /\ c <= Area(a) /\ c <= Area(b)
    BY BoxTypes, CommonTypes
  <2>2. Area(a) \in Nat /\ Area(b) \in Nat
    BY BoxTypes
  <2>3. (100 * c) \div n >= 100
    BY DEF IoU
  <2> HIDE DEF c, n
  <2>4. \A k, l \in Nat : l > 0 /\ (100 * k) \div l >= 100 => k >= l
    OBVIOUS
  <2>5. c >= n
    BY <2>1, <2>3, <2>4
  <2>6. QED
    BY <2>1, <2>2, <2>5 DEF c, n
<1> DEFINE w == Shared(a.x1, a.x2, b.x1, b.x2)
           h == Shared(a.y1, a.y2, b.y1, b.y2)
<1>2. /\ w \in Nat /\ w <= a.x2 - a.x1 /\ w <= b.x2 - b.x1
      /\ h \in Nat /\ h <= a.y2 - a.y1 /\ h <= b.y2 - b.y1
  BY BoxTypes, SharedTypes
<1>3. /\ a.x2 - a.x1 \in Nat /\ b.x2 - b.x1 \in Nat /\ a.x2 - a.x1 > 0 /\ b.x2 - b.x1 > 0
      /\ a.y2 - a.y1 \in Nat /\ b.y2 - b.y1 \in Nat /\ a.y2 - a.y1 > 0 /\ b.y2 - b.y1 > 0
  BY BoxTypes
<1>4. w * h = (a.x2 - a.x1) * (a.y2 - a.y1) /\ w * h = (b.x2 - b.x1) * (b.y2 - b.y1)
  BY <1>1 DEF Common, Area
<1>5. w = a.x2 - a.x1 /\ h = a.y2 - a.y1 /\ w = b.x2 - b.x1 /\ h = b.y2 - b.y1
  <2>1. ASSUME NEW k \in Nat, NEW l \in Nat, NEW m \in Nat, NEW n \in Nat,
               k <= m, l <= n, m > 0, n > 0, k * l = m * n
        PROVE  k = m /\ l = n
    <3>1. CASE k < m
      <4>1. k * n < m * n /\ k * l <= k * n
        BY <2>1, <3>1
      <4>2. k * l \in Nat /\ k * n \in Nat /\ m * n \in Nat
        OBVIOUS
      <4>3. QED
        BY <2>1, <4>1, <4>2
    <3>2. CASE l < n
      <4>1. m * l < m * n /\ k * l <= m * l
        BY <2>1, <3>2
      <4>2. k * l \in Nat /\ m * l \in Nat /\ m * n \in Nat
        OBVIOUS
      <4>3. QED
        BY <2>1, <4>1, <4>2
    <3>3. QED
      BY <2>1, <3>1, <3>2
  <2> DEFINE wa == a.x2 - a.x1
             ha == a.y2 - a.y1
             wb == b.x2 - b.x1
             hb == b.y2 - b.y1
  <2>2. /\ w \in Nat /\ w <= wa /\ w <= wb /\ h \in Nat /\ h <= ha /\ h <= hb
        /\ wa \in Nat /\ wb \in Nat /\ wa > 0 /\ wb > 0
        /\ ha \in Nat /\ hb \in Nat /\ ha > 0 /\ hb > 0
        /\ w * h = wa * ha /\ w * h = wb * hb
    BY <1>2, <1>3, <1>4
  <2> HIDE DEF w, h, wa, ha, wb, hb
  <2>3. w = wa /\ h = ha
    BY <2>1, <2>2, Zenon
  <2>4. w = wb /\ h = hb
    BY <2>1, <2>2, Zenon
  <2>5. QED
    BY <2>3, <2>4 DEF wa, ha, wb, hb
<1>6. /\ b.x1 <= a.x1 /\ a.x2 <= b.x2 /\ a.x1 <= b.x1 /\ b.x2 <= a.x2
      /\ b.y1 <= a.y1 /\ a.y2 <= b.y2 /\ a.y1 <= b.y1 /\ b.y2 <= a.y2
  BY <1>5, BoxTypes, SharedTypes
<1>7. a.x1 = b.x1 /\ a.x2 = b.x2 /\ a.y1 = b.y1 /\ a.y2 = b.y2
  BY <1>6, BoxTypes
<1>8. QED
  BY <1>7 DEF Box

LEMMA ScoreTypes ==
  ASSUME NEW t \in Target, NEW d, d.box \in Box, d.likeness \in 0..100
  PROVE  /\ ColourScore(t, d) \in 0..100
         /\ IoU(d.box, t.box) \in Nat /\ CentreDistance(d.box, t.box) \in 0..100
         /\ MatchScore(t, d) \in Int
<1>1. t.box \in Box /\ ColourScore(t, d) \in 0..100
  BY DEF Target, ColourScore
<1>2. IoU(d.box, t.box) \in Nat /\ CentreDistance(d.box, t.box) \in 0..100
  BY <1>1, IoUTypes, CentreDistanceTypes
<1>3. \A i \in Nat, n, c \in 0..100 : 45 * i + 35 * (100 - n) + 20 * c \in Int
  OBVIOUS
<1>4. MatchScore(t, d) \in Int
  BY <1>1, <1>2, <1>3, Zenon DEF MatchScore
<1>5. QED
  BY <1>1, <1>2, <1>4

(* Whoever is elected has been detected.                                   *)
LEMMA ElectedIsDetected ==
  ASSUME NEW D, NEW selection \in SelectFrontPerson(D)
  PROVE  \/ selection.code \in {"NO_PERSON_FOUND", "AMBIGUOUS_TARGET"}
         \/ selection.code = "OK" /\ selection.person \in D
<1> DEFINE scored == {d \in D : d.conf >= 5}
           Outcomes(d) ==
             LET second == Best(scored \ {d})
             IN {[code |-> "AMBIGUOUS_TARGET"] : e \in {f \in second : Ambiguous(d, f)}}
                  \union (IF second = {} \/ \E f \in second : ~Ambiguous(d, f)
                          THEN {[code |-> "OK", person |-> d]} ELSE {})
<1>1. CASE scored = {}
  BY <1>1 DEF SelectFrontPerson
<1>2. CASE scored # {}
  <2>1. selection \in UNION {Outcomes(d) : d \in Best(scored)}
    BY <1>2 DEF SelectFrontPerson
  <2>2. PICK d \in Best(scored) : selection \in Outcomes(d)
    BY <2>1
  <2>3. d \in D
    BY DEF Best
  <2>4. selection = [code |-> "AMBIGUOUS_TARGET"] \/ selection = [code |-> "OK", person |-> d]
    BY <2>2
  <2>5. QED
    BY <2>3, <2>4
<1>3. QED
  BY <1>1, <1>2

LEMMA TrackerTypes ==
  /\ NewTracker \in Tracker
  /\ \A t \in Tracker, box \in Box : Update(t, box) \in Tracker
BY DEF Tracker, NewTracker, Update, Min2

(* What the locker may make of a picture: it locks on to somebody if it    *)
(* has no target, passes to the detection that matches best and well       *)
(* enough, or retains its target, if no detection matches well enough.     *)
Passes(t, D) == {d \in D : Accepted(MatchScore(t, d)) /\ \A e \in D : MatchScore(t, e) <= MatchScore(t, d)}

LEMMA LockedOutcomes ==
  ASSUME NEW t \in {NoTarget} \union Target, NEW D,
         \A d \in D : d.box \in Box /\ d.likeness \in 0..100,
         NEW u \in Locked(t, D)
  PROVE  \/ t = NoTarget /\ \E d \in D : u = LockNew(d)
         \/ t # NoTarget /\ \E d \in Passes(t, D) : u = Matched(t, d)
         \/ u = Retained(t) /\ (t # NoTarget => \A d \in D : ~Accepted(MatchScore(t, d)))
<1>1. CASE D = {}
  BY <1>1 DEF Locked
<1>2. CASE D # {} /\ t = NoTarget
  BY <1>2 DEF Locked
<1>3. CASE D # {} /\ t # NoTarget
  <2>1. PICK d \in D : /\ \A e \in D : MatchScore(t, e) <= MatchScore(t, d)
                       /\ u = IF Accepted(MatchScore(t, d)) THEN Matched(t, d) ELSE Retained(t)
    BY <1>3 DEF Locked
  <2>2. \A e \in D : MatchScore(t, e) \in Int
    BY <1>3, ScoreTypes
  <2>3. CASE Accepted(MatchScore(t, d))
    BY <1>3, <2>1, <2>3 DEF Passes
  <2>4. CASE ~Accepted(MatchScore(t, d))
    BY <2>1, <2>2, <2>4 DEF Accepted
  <2>5. QED
    BY <2>3, <2>4
<1>4. QED
  BY <1>1, <1>2, <1>3

-----------------------------------------------------------------------------
(* The types.                                                              *)

FollowTarget == [who : Persons, box : Places, seen : 0..(Retain + 1), colour : {"own", "flat"}]

LEMMA TargetTypes ==
  /\ FollowTarget \subseteq Target
  /\ NoTarget \notin FollowTarget
BY DEF FollowTarget, Target

LEMMA DetectionTypes ==
  ASSUME TypeOK
  PROVE  \A d \in Detections : /\ d.who \in Persons /\ d.box \in Places /\ d.box \in Box
                               /\ d.likeness \in 0..100
BY DEF TypeOK, Pictures, Detections

(* What a frame may look like to a target.                                 *)
LEMMA LikenessTypes ==
  ASSUME NEW t, NEW l \in Likenesses(t)
  PROVE  /\ l \in [Persons -> 0..100]
         /\ \A p \in Persons : [l EXCEPT ![p] = 100] \in [Persons -> 0..100]
<1>1. l \in [Persons -> 0..100]
  <2>1. l = [p \in Persons |-> 0] \/ l \in [Persons -> OwnLikeness \union OtherLikeness]
    BY DEF Likenesses
  <2>2. [p \in Persons |-> 0] \in [Persons -> 0..100]
    OBVIOUS
  <2>3. [Persons -> OwnLikeness \union OtherLikeness] \subseteq [Persons -> 0..100]
    OBVIOUS
  <2>4. QED
    BY <2>1, <2>2, <2>3, Zenon
<1>2. QED
  BY <1>1

LEMMA CapTypes ==
  /\ \A n \in 0..Oldest : Older(n, Oldest) \in 0..Oldest
  /\ \A n \in 0..(Retain + 1) : Older(n, Retain + 1) \in 0..(Retain + 1)
  /\ \A n \in 0..Longest : Older(n, Longest) \in 0..Longest
BY DEF Older, Min2, Oldest, Longest

(* The targets a pass may leave the thread with.                           *)
LEMMA LockedTypes ==
  ASSUME TypeOK, NEW t \in Locked(target, Detections)
  PROVE  t \in {NoTarget} \union FollowTarget
<1>1. target \in {NoTarget} \union FollowTarget
  BY DEF TypeOK, FollowTarget
<1>2. target \in {NoTarget} \union Target
  BY <1>1, TargetTypes
<1>3. \/ \E d \in Detections : t = LockNew(d) \/ t = Matched(target, d)
      \/ t = Retained(target)
  BY <1>2, DetectionTypes, LockedOutcomes DEF Passes
<1>4. \A d \in Detections : LockNew(d) \in FollowTarget /\ Matched(target, d) \in FollowTarget
  BY DetectionTypes DEF LockNew, Matched, FollowTarget
<1>5. Retained(target) \in {NoTarget, target}
  BY DEF Retained
<1>6. QED
  BY <1>1, <1>3, <1>4, <1>5

(* A pass without the person ends the thread or counts.                    *)
LEMMA LosesOutcomes ==
  ASSUME NEW count \in Nat, NEW seen, NEW t, Loses(count, seen, t)
  PROVE  /\ lost' \in 0..MaxLost /\ cmd' = "zero"
         /\ \/ running' = FALSE /\ target' = NoTarget /\ visible' = FALSE
            \/ running' = running /\ target' = t /\ visible' = seen
BY DEF Loses, ThreadEnds

(* What a pass over the latest frame leaves behind.                        *)
LEMMA LookOutcomes ==
  ASSUME TypeOK, Look
  PROVE  /\ running /\ due' = due \ {"thread"} /\ lost' \in 0..MaxLost
         /\ UNCHANGED <<picture, age, control>>
         /\ likeness' \in [Persons -> 0..100] /\ (target # NoTarget => likeness' = likeness)
         /\ \/ /\ running' = FALSE /\ target' = NoTarget /\ visible' = FALSE /\ cmd' = "zero"
               /\ unseen' \in {0, unseen}
            \/ /\ running' = running /\ visible' = FALSE /\ cmd' = "zero" /\ unseen' = unseen
               /\ target' = NoTarget /\ NoTarget \in Locked(target, Detections)
            \/ /\ running' = running /\ visible' = TRUE /\ cmd' \in {"zero", "move"}
               /\ target' \in Locked(target, Detections) /\ target' # NoTarget
               /\ Seen(target')
<1>1. /\ running /\ due' = due \ {"thread"} /\ UNCHANGED <<picture, age, control>>
      /\ lost + 1 \in Nat /\ likeness \in [Persons -> 0..100]
  BY DEF Look, TypeOK
<1> DEFINE Resembles(t) ==
             IF target = NoTarget THEN \E l \in Likenesses(t) : likeness' = [l EXCEPT ![t.who] = 100]
             ELSE UNCHANGED likeness
<1>2. PICK t \in Locked(target, Detections) :
        IF t = NoTarget
        THEN Loses(lost + 1, FALSE, NoTarget) /\ UNCHANGED <<unseen, likeness>>
        ELSE /\ Seen(t)
             /\ Resembles(t)
             /\ \/ /\ target' = t /\ lost' = 0 /\ visible' = TRUE /\ cmd' = "move"
                   /\ UNCHANGED running
                \/ Loses(1, TRUE, t)
  BY DEF Look
<1>3. CASE t = NoTarget
  BY <1>1, <1>2, <1>3, LosesOutcomes
<1>4. CASE t # NoTarget
  <2>1. likeness' \in [Persons -> 0..100] /\ (target # NoTarget => likeness' = likeness)
    <3>1. CASE target = NoTarget
      <4>1. t.who \in Persons
        BY <1>4, LockedTypes DEF FollowTarget
      <4>2. PICK l \in Likenesses(t) : likeness' = [l EXCEPT ![t.who] = 100]
        BY <1>2, <1>4, <3>1
      <4>3. QED
        BY <3>1, <4>1, <4>2, LikenessTypes
    <3>2. CASE target # NoTarget
      BY <1>1, <1>2, <1>4, <3>2
    <3>3. QED
      BY <3>1, <3>2
  <2>2. Seen(t) /\ unseen' \in {0, unseen}
    BY <1>2, <1>4 DEF Seen
  <2>3. CASE Loses(1, TRUE, t)
    BY <1>1, <1>4, <2>1, <2>2, <2>3, LosesOutcomes
  <2>4. CASE ~Loses(1, TRUE, t)
    <3>1. /\ target' = t /\ lost' = 0 /\ visible' = TRUE /\ cmd' = "move" /\ running' = running
      BY <1>2, <1>4, <2>4
    <3>2. Seen(target')
      BY <2>2, <3>1 DEF Seen
    <3>3. QED
      BY <1>1, <1>4, <2>1, <3>1, <3>2
  <2>5. QED
    BY <2>3, <2>4
<1>5. QED
  BY <1>3, <1>4

(* An acquisition goes on, starts again or ends in a follow.               *)
LEMMA LookAgainOutcomes ==
  ASSUME TypeOK, LookAgain
  PROVE  /\ mode = "ACQUIRING" /\ mark' = 0 /\ UNCHANGED <<camera, due>>
         /\ \/ FollowStarts
            \/ tracker' \in Tracker /\ UNCHANGED <<thread, mode, missed, steering, unseen>>
<1>1. mode = "ACQUIRING" /\ mark' = 0 /\ UNCHANGED <<camera, due>>
  BY DEF LookAgain
<1> DEFINE counted(selection) ==
             CASE selection.code = "AMBIGUOUS_TARGET" -> tracker
               [] selection.code = "NO_PERSON_FOUND" -> NewTracker
               [] selection.code = "OK" -> Update(tracker, selection.person.box)
<1>2. PICK selection \in SelectFrontPerson(Detections) :
        IF Stable(counted(selection)) THEN FollowStarts
        ELSE tracker' = counted(selection) /\ UNCHANGED <<thread, mode, missed, steering, unseen>>
  BY DEF LookAgain
<1>3. counted(selection) \in Tracker
  <2>1. tracker \in Tracker
    BY DEF TypeOK
  <2>2. CASE selection.code = "NO_PERSON_FOUND"
    BY <2>2, TrackerTypes
  <2>3. CASE selection.code = "AMBIGUOUS_TARGET"
    BY <2>1, <2>3
  <2>4. CASE selection.code = "OK" /\ selection.person \in Detections
    BY <2>1, <2>4, TrackerTypes, DetectionTypes
  <2>5. QED
    BY <2>2, <2>3, <2>4, ElectedIsDetected
<1>4. QED
  BY <1>1, <1>2, <1>3

(* The types in five parts, which the prover takes one at a time.          *)
CameraOK == picture \in Pictures /\ likeness \in [Persons -> 0..100] /\ age \in 0..Oldest
TrackerOK == tracker \in Tracker
TargetOK == target \in {NoTarget} \union FollowTarget /\ (target # NoTarget => running)
CountsOK ==
  /\ lost \in 0..MaxLost /\ missed \in 0..(MaxLost + 1)
  /\ mark \in 0..Oldest /\ unseen \in 0..Longest
FlagsOK ==
  /\ mode \in {"IDLE", "ACQUIRING", "SETTLING", "FOLLOWING"}
  /\ running \in BOOLEAN /\ visible \in BOOLEAN /\ steering \in BOOLEAN
  /\ cmd \in {"none", "zero", "move"} /\ due \subseteq {"thread", "tick"}
  /\ (running => mode \in {"SETTLING", "FOLLOWING"}) /\ (steering => mode = "FOLLOWING")

LEMMA TypeParts == TypeOK <=> CameraOK /\ TrackerOK /\ TargetOK /\ CountsOK /\ FlagsOK
BY DEF TypeOK, CameraOK, TrackerOK, TargetOK, CountsOK, FlagsOK, FollowTarget

LEMMA TypePartsNext == TypeOK' <=> CameraOK' /\ TrackerOK' /\ TargetOK' /\ CountsOK' /\ FlagsOK'
BY DEF TypeOK, CameraOK, TrackerOK, TargetOK, CountsOK, FlagsOK, FollowTarget

LEMMA TypeInit == Init => TypeOK
<1> SUFFICES ASSUME Init
             PROVE  TypeOK
  OBVIOUS
<1>1. CameraOK /\ TargetOK
  BY LikenessTypes DEF Init, CameraOK, TargetOK, Oldest
<1>2. TrackerOK
  BY TrackerTypes DEF Init, TrackerOK
<1>3. CountsOK
  BY DEF Init, CountsOK, Oldest, Longest
<1>4. FlagsOK
  BY DEF Init, FlagsOK
<1>5. QED
  BY <1>1, <1>2, <1>3, <1>4, TypeParts

LEMMA EndFollowTypes ==
  ASSUME EndFollow, FlagsOK, due' \subseteq due
  PROVE  TrackerOK' /\ TargetOK' /\ CountsOK' /\ FlagsOK'
<1>1. TrackerOK' /\ TargetOK'
  BY TrackerTypes DEF EndFollow, ThreadEnds, Forgets, TrackerOK, TargetOK
<1>2. CountsOK'
  BY DEF EndFollow, ThreadEnds, Forgets, CountsOK, Oldest, Longest
<1>3. FlagsOK'
  BY DEF EndFollow, ThreadEnds, FlagsOK
<1>4. QED
  BY <1>1, <1>2, <1>3

LEMMA TypeStep == TypeOK /\ [Next]_vars => TypeOK'
<1> SUFFICES ASSUME TypeOK, [Next]_vars
             PROVE  TypeOK'
  OBVIOUS
<1> USE DEF camera, thread, control
<1>0. CameraOK /\ TrackerOK /\ TargetOK /\ CountsOK /\ FlagsOK
  BY TypeParts
<1> SUFFICES CameraOK' /\ TrackerOK' /\ TargetOK' /\ CountsOK' /\ FlagsOK'
  BY TypePartsNext
<1>1. CASE NewFrame
  <2>1. CameraOK'
    BY <1>1, LikenessTypes DEF NewFrame, CameraOK, Oldest
  <2>2. TrackerOK' /\ TargetOK' /\ CountsOK' /\ FlagsOK'
    BY <1>0, <1>1 DEF NewFrame, TrackerOK, TargetOK, CountsOK, FlagsOK
  <2>3. QED
    BY <2>1, <2>2
<1>2. CASE StartAcquiring
  <2>1. CameraOK' /\ TrackerOK' /\ TargetOK' /\ CountsOK'
    BY <1>0, <1>2, TrackerTypes DEF StartAcquiring, CameraOK, TrackerOK, TargetOK, CountsOK
  <2>2. FlagsOK'
    BY <1>0, <1>2 DEF StartAcquiring, FlagsOK
  <2>3. QED
    BY <2>1, <2>2
<1>3. CASE LookAgain
  <2>1. CameraOK' /\ mark' \in 0..Oldest
    BY <1>0, <1>3, LookAgainOutcomes DEF CameraOK, Oldest
  <2>2. CASE FollowStarts
    <3>1. TrackerOK' /\ TargetOK'
      BY <2>2, TrackerTypes DEF FollowStarts, TrackerOK, TargetOK
    <3>2. CountsOK'
      BY <2>1, <2>2 DEF FollowStarts, CountsOK, Longest
    <3>3. due' = due /\ mode = "ACQUIRING"
      BY <1>3, LookAgainOutcomes
    <3>4. FlagsOK'
      BY <1>0, <2>2, <3>3 DEF FollowStarts, FlagsOK
    <3>5. QED
      BY <2>1, <3>1, <3>2, <3>4
  <2>3. CASE ~FollowStarts
    <3>1. tracker' \in Tracker /\ UNCHANGED <<thread, mode, missed, steering, unseen, due>>
      BY <1>3, <2>3, LookAgainOutcomes
    <3>2. TrackerOK' /\ TargetOK' /\ CountsOK'
      BY <1>0, <2>1, <3>1 DEF TrackerOK, TargetOK, CountsOK
    <3>3. FlagsOK'
      BY <1>0, <3>1 DEF FlagsOK
    <3>4. QED
      BY <2>1, <3>2, <3>3
  <2>4. QED
    BY <2>2, <2>3
<1>4. CASE GiveUp
  <2>1. CameraOK' /\ TrackerOK' /\ TargetOK' /\ CountsOK'
    BY <1>0, <1>4, TrackerTypes
       DEF GiveUp, Forgets, CameraOK, TrackerOK, TargetOK, CountsOK, Oldest, Longest
  <2>2. FlagsOK'
    BY <1>0, <1>4 DEF GiveUp, FlagsOK
  <2>3. QED
    BY <2>1, <2>2
<1>5. CASE Look
  <2>1. CameraOK' /\ TrackerOK'
    BY <1>0, <1>5, LookOutcomes DEF CameraOK, TrackerOK
  <2>2. TargetOK'
    BY <1>5, LookOutcomes, LockedTypes DEF TargetOK
  <2>3. unseen' \in {0, unseen} /\ lost' \in 0..MaxLost /\ UNCHANGED <<mark, missed>>
    BY <1>5, LookOutcomes DEF Seen
  <2>4. CountsOK'
    BY <1>0, <2>3 DEF CountsOK, Longest
  <2>5. FlagsOK'
    <3>1. /\ due' = due \ {"thread"} /\ UNCHANGED <<mode, steering>>
          /\ running' \in BOOLEAN /\ (running' => running) /\ visible' \in BOOLEAN
          /\ cmd' \in {"zero", "move"}
      BY <1>0, <1>5, LookOutcomes DEF FlagsOK
    <3>2. QED
      BY <1>0, <3>1 DEF FlagsOK
  <2>6. QED
    BY <2>1, <2>2, <2>4, <2>5
<1>6. CASE LookRaises
  <2>1. lost + 1 \in Nat
    BY <1>0 DEF CountsOK
  <2>2. Loses(lost + 1, visible, target) /\ UNCHANGED <<camera, control, due, unseen>>
    BY <1>6 DEF LookRaises
  <2>3. /\ lost' \in 0..MaxLost /\ cmd' = "zero"
        /\ running' = FALSE \/ running' = running
        /\ visible' = FALSE \/ visible' = visible
        /\ target' = NoTarget \/ (target' = target /\ running' = running)
    BY <2>1, <2>2, LosesOutcomes
  <2>4. CameraOK' /\ TrackerOK' /\ TargetOK' /\ CountsOK'
    BY <1>0, <2>2, <2>3 DEF CameraOK, TrackerOK, TargetOK, CountsOK
  <2>5. FlagsOK'
    <3>1. UNCHANGED <<mode, steering, due>>
      BY <2>2
    <3>2. running \in BOOLEAN /\ visible \in BOOLEAN
      BY <1>0 DEF FlagsOK
    <3>3. running' \in BOOLEAN /\ (running' => running)
      <4>1. CASE running' = FALSE
        BY <4>1
      <4>2. CASE running' = running
        BY <3>2, <4>2
      <4>3. QED
        BY <2>3, <4>1, <4>2
    <3>4. visible' \in BOOLEAN
      BY <2>3, <3>2, Zenon
    <3>5. QED
      BY <1>0, <2>3, <3>1, <3>3, <3>4 DEF FlagsOK
  <2>6. QED
    BY <2>4, <2>5
<1>7. CASE Tick
  <2>1. /\ mode = "FOLLOWING" /\ due' = due \ {"tick"} /\ UNCHANGED camera
        /\ TickCameraStale \/ TickTargetLost \/ TickFollow
    BY <1>7 DEF Tick
  <2>2. CameraOK' /\ Remark \in 0..Oldest
    BY <1>0, <2>1 DEF CameraOK, Remark, CountsOK, Oldest
  <2>3. CASE EndFollow
    BY <1>0, <2>1, <2>2, <2>3, EndFollowTypes
  <2>4. CASE TickTargetLost /\ ~EndFollow
    <3>1. /\ mark' = Remark /\ missed' = missed + 1 /\ steering' = FALSE /\ missed + 1 <= MaxLost
          /\ UNCHANGED <<thread, mode, tracker, unseen>>
      BY <1>0, <2>4 DEF TickTargetLost, CountsOK
    <3>2. TrackerOK' /\ TargetOK' /\ CountsOK'
      BY <1>0, <2>2, <3>1 DEF TrackerOK, TargetOK, CountsOK
    <3>3. FlagsOK'
      BY <1>0, <2>1, <3>1 DEF FlagsOK
    <3>4. QED
      BY <2>2, <3>2, <3>3
  <2>5. CASE TickFollow
    <3>1. TrackerOK' /\ TargetOK' /\ CountsOK'
      BY <1>0, <2>2, <2>5 DEF TickFollow, TrackerOK, TargetOK, CountsOK
    <3>2. /\ cmd' = "none" /\ steering' = IF cmd = "none" THEN steering ELSE cmd = "move"
          /\ UNCHANGED <<running, visible, mode>>
      BY <2>5 DEF TickFollow
    <3>3. FlagsOK'
      BY <1>0, <2>1, <3>2 DEF FlagsOK
    <3>4. QED
      BY <2>2, <3>1, <3>3
  <2>6. QED
    BY <2>1, <2>3, <2>4, <2>5 DEF TickCameraStale
<1>8. CASE Hold
  <2>1. CameraOK' /\ EndFollow /\ due' = due
    BY <1>0, <1>8 DEF Hold, CameraOK
  <2>2. QED
    BY <1>0, <2>1, EndFollowTypes
<1>9. CASE Advance
  <2>1. CameraOK' /\ TrackerOK' /\ CountsOK'
    BY <1>0, <1>9, CapTypes DEF Advance, CameraOK, TrackerOK, CountsOK
  <2>2. FlagsOK'
    BY <1>0, <1>9 DEF Advance, FlagsOK
  <2>3. TargetOK'
    <3>1. CASE target = NoTarget
      BY <1>9, <3>1 DEF Advance, TargetOK
    <3>2. CASE target # NoTarget
      <4>1. target' = [target EXCEPT !.seen = Older(@, Retain + 1)] /\ running' = running
        BY <1>9, <3>2 DEF Advance
      <4>2. target' \in FollowTarget
        BY <1>0, <3>2, <4>1, CapTypes DEF TargetOK, FollowTarget
      <4>3. QED
        BY <1>0, <3>2, <4>1, <4>2 DEF TargetOK
    <3>3. QED
      BY <3>1, <3>2
  <2>4. QED
    BY <2>1, <2>2, <2>3
<1>10. CASE FollowSettles
  <2>1. CameraOK' /\ TrackerOK' /\ TargetOK' /\ CountsOK'
    BY <1>0, <1>10 DEF FollowSettles, CameraOK, TrackerOK, TargetOK, CountsOK
  <2>2. FlagsOK'
    BY <1>0, <1>10 DEF FollowSettles, FlagsOK
  <2>3. QED
    BY <2>1, <2>2
<1>11. CASE UNCHANGED vars
  <2>1. CameraOK' /\ TrackerOK' /\ TargetOK' /\ CountsOK'
    BY <1>0, <1>11 DEF vars, CameraOK, TrackerOK, TargetOK, CountsOK
  <2>2. FlagsOK'
    BY <1>0, <1>11 DEF vars, FlagsOK
  <2>3. QED
    BY <2>1, <2>2
<1>12. QED
  BY <1>1, <1>2, <1>3, <1>4, <1>5, <1>6, <1>7, <1>8, <1>9, <1>10, <1>11 DEF Next

(* The types of a follow, from the camera to the velocity. The counts stay *)
(* within their limits, a thread runs in a follow only, and no target      *)
(* survives its thread.                                                    *)
THEOREM TypeCorrect == Spec => []TypeOK
BY TypeInit, TypeStep, PTL DEF Spec

-----------------------------------------------------------------------------
(* For how long a follow steers blindly. The bound has three causes, and   *)
(* each needs a fact about the turns that the others do not mention.       *)

(* The picture holds somebody whom the locker would take for its target.   *)
Fits == \E d \in Detections : Accepted(MatchScore(target, d))

TickDue == IF "tick" \in due THEN 1 ELSE 0

(* Whoever has had the turn in this unit of time has seen to its limit.    *)
TurnsTaken ==
  /\ mode \in {"SETTLING", "FOLLOWING"} /\ "tick" \notin due => mark <= Stale
  /\ target # NoTarget /\ "thread" \notin due => target.seen <= Retain

(* A follow without a target steers until the next tick only.              *)
BlindStops ==
  /\ cmd = "move" => target # NoTarget
  /\ steering /\ target = NoTarget => ~visible /\ unseen <= Stale + Retain + 2 + TickDue

(* The last match was in a frame that had not been stale for long...       *)
RetainedFor == target # NoTarget => unseen <= target.seen + Stale + 1

(* ... because a stale frame in which the target is matched time and again *)
(* is one in which it was matched before the frame was stale. The camera's *)
(* watchdog counts from then on.                                           *)
StaleFor == target # NoTarget /\ Fits /\ age > Stale => unseen <= mark
FreshSeen == target # NoTarget /\ Fits /\ age \in 1..Stale /\ "thread" \notin due => unseen = 0

SightInv == TurnsTaken /\ BlindStops /\ RetainedFor /\ StaleFor /\ FreshSeen

LEMMA SightNumbers ==
  ASSUME TypeOK
  PROVE  /\ unseen \in Nat /\ mark \in 0..(Stale + 1) /\ age \in 0..(Stale + 1)
         /\ TickDue \in {0, 1}
BY TypeParts DEF CountsOK, CameraOK, Oldest, Longest, TickDue

LEMMA SightTypes ==
  ASSUME TypeOK
  PROVE  /\ target # NoTarget => target \in FollowTarget /\ target \in Target
         /\ target # NoTarget => running
         /\ running => mode \in {"SETTLING", "FOLLOWING"}
         /\ steering => mode = "FOLLOWING"
<1>1. target # NoTarget => target \in FollowTarget /\ target \in Target
  BY TypeParts, TargetTypes DEF TargetOK
<1>2. /\ target # NoTarget => running
      /\ running => mode \in {"SETTLING", "FOLLOWING"}
      /\ steering => mode = "FOLLOWING"
  BY TypeParts DEF TargetOK, FlagsOK
<1>3. QED
  BY <1>1, <1>2

(* Who fits does not depend on how long ago the target was seen.           *)
LEMMA SameFit ==
  ASSUME picture' = picture, likeness' = likeness,
         target'.who = target.who, target'.box = target.box, target'.colour = target.colour
  PROVE  Fits' <=> Fits
<1>1. Detections' = Detections
  BY DEF Detections
<1>2. \A d \in Detections : MatchScore(target', d) = MatchScore(target, d)
  BY DEF MatchScore, ColourScore
<1>3. QED
  BY <1>1, <1>2 DEF Fits

LEMMA SightInit == Init => SightInv
BY DEF Init, SightInv, TurnsTaken, BlindStops, RetainedFor, StaleFor, FreshSeen

(* After the end of a follow nothing is left to bound.                     *)
LEMMA EndFollowSight ==
  ASSUME EndFollow
  PROVE  SightInv'
BY DEF EndFollow, ThreadEnds, SightInv, TurnsTaken, BlindStops, RetainedFor, StaleFor, FreshSeen

LEMMA LookAgainSight ==
  ASSUME TypeOK, SightInv, LookAgain
  PROVE  SightInv'
<1>1. mode = "ACQUIRING" /\ mark' = 0 /\ UNCHANGED <<camera, due>>
  BY LookAgainOutcomes
<1>2. target = NoTarget /\ cmd # "move"
  BY <1>1, SightTypes DEF SightInv, BlindStops
<1>3. ~steering
  BY <1>1, TypeParts DEF FlagsOK
<1>4. target' = NoTarget /\ cmd' = cmd /\ steering' = steering
  BY <1>2, LookAgainOutcomes DEF FollowStarts, thread
<1>5. QED
  BY <1>1, <1>2, <1>3, <1>4 DEF SightInv, TurnsTaken, BlindStops, RetainedFor, StaleFor, FreshSeen

(* A pass matches the target, retains it, gives it up or finds a new one.  *)
LEMMA LookSight ==
  ASSUME TypeOK, SightInv, Look
  PROVE  SightInv'
<1> USE DEF camera, control
<1>1. /\ due' = due \ {"thread"} /\ UNCHANGED <<picture, age, mode, mark, steering>>
      /\ TickDue' = TickDue /\ (target # NoTarget => likeness' = likeness)
  BY LookOutcomes DEF TickDue
<1>2. unseen' \in {0, unseen}
  BY LookOutcomes DEF Seen
<1>3. target # NoTarget => unseen <= Stale + Retain + 2
  BY SightNumbers, SightTypes DEF FollowTarget, SightInv, RetainedFor
<1>4. CASE target' = NoTarget
  <2>1. visible' = FALSE /\ cmd' = "zero"
    BY <1>4, LookOutcomes
  <2>2. steering => unseen <= Stale + Retain + 2 + TickDue
    BY <1>3, SightNumbers, SightTypes DEF SightInv, BlindStops
  <2>3. steering => unseen' <= Stale + Retain + 2 + TickDue
    BY <1>2, <2>2, SightNumbers
  <2>4. TurnsTaken' /\ BlindStops' /\ RetainedFor' /\ StaleFor' /\ FreshSeen'
    BY <1>1, <1>4, <2>1, <2>3 DEF SightInv, TurnsTaken, BlindStops, RetainedFor, StaleFor, FreshSeen
  <2>5. QED
    BY <2>4 DEF SightInv
<1>5. CASE target' # NoTarget
  <2>1. target' \in Locked(target, Detections) /\ Seen(target')
    BY <1>5, LookOutcomes
  <2>2. BlindStops'
    BY <1>5 DEF BlindStops
  <2>3. target \in {NoTarget} \union Target
    BY SightTypes
  <2>4. CASE target = NoTarget
    <3>1. unseen' = 0
      BY <2>1, <2>4 DEF Seen
    <3>2. PICK d \in Detections : target' = LockNew(d)
      BY <1>5, <2>1, <2>3, <2>4, DetectionTypes, LockedOutcomes DEF Retained
    <3>3. target'.seen = 0
      BY <3>2 DEF LockNew
    <3>4. QED
      BY <1>1, <2>2, <3>1, <3>3, SightNumbers, SightTypes
         DEF SightInv, TurnsTaken, RetainedFor, StaleFor, FreshSeen
  <2>5. CASE target # NoTarget /\ \E d \in Passes(target, Detections) : target' = Matched(target, d)
    <3>1. PICK d \in Passes(target, Detections) : target' = Matched(target, d)
      BY <2>5
    <3>2. d \in Detections /\ target'.seen = 0 /\ target'.who = d.who /\ target'.box = d.box /\ Fits
      BY <3>1 DEF Passes, Matched, Fits
    <3>3. age <= Stale => unseen' = 0
      BY <2>1, <3>2 DEF Seen
    <3>4. age > Stale => unseen' <= mark
      BY <1>2, <2>5, <3>2, SightNumbers DEF SightInv, StaleFor
    <3>5. unseen' <= Stale + 1
      BY <1>2, <3>3, <3>4, SightNumbers
    <3>6. QED
      BY <1>1, <2>2, <3>2, <3>3, <3>4, <3>5, SightNumbers, SightTypes
         DEF SightInv, TurnsTaken, RetainedFor, StaleFor, FreshSeen
  <2>6. CASE target # NoTarget /\ ~\E d \in Passes(target, Detections) : target' = Matched(target, d)
    <3>1. target' = Retained(target) /\ ~Fits
      BY <2>1, <2>3, <2>6, DetectionTypes, LockedOutcomes DEF Fits
    <3>2. target' = target /\ target.seen <= Retain
      BY <1>5, <3>1 DEF Retained
    <3>3. ~Fits'
      BY <1>1, <2>6, <3>1, <3>2, SameFit
    <3>4. RetainedFor'
      BY <1>2, <2>6, <3>2, SightNumbers, SightTypes DEF SightInv, RetainedFor, FollowTarget
    <3>5. QED
      BY <1>1, <2>2, <3>2, <3>3, <3>4 DEF SightInv, TurnsTaken, StaleFor, FreshSeen
  <2>7. QED
    BY <2>4, <2>5, <2>6
<1>6. QED
  BY <1>4, <1>5

LEMMA LookRaisesSight ==
  ASSUME TypeOK, SightInv, LookRaises
  PROVE  SightInv'
<1>1. UNCHANGED <<picture, likeness, age, mode, mark, steering, due, unseen>> /\ lost + 1 \in Nat
      /\ Loses(lost + 1, visible, target)
  BY TypeParts DEF LookRaises, CountsOK, camera, control
<1>2. cmd' = "zero" /\ TickDue' = TickDue
  BY <1>1, LosesOutcomes DEF TickDue
<1>3. CASE target' = target /\ visible' = visible
  <2>1. Fits' <=> Fits
    BY <1>1, <1>3, SameFit
  <2>2. QED
    BY <1>1, <1>2, <1>3, <2>1 DEF SightInv, TurnsTaken, BlindStops, RetainedFor, StaleFor, FreshSeen
<1>4. CASE target' = NoTarget /\ visible' = FALSE
  <2>1. steering => unseen <= Stale + Retain + 2 + TickDue
    BY SightNumbers, SightTypes DEF FollowTarget, SightInv, RetainedFor, BlindStops
  <2>2. QED
    BY <1>1, <1>2, <1>4, <2>1
       DEF SightInv, TurnsTaken, BlindStops, RetainedFor, StaleFor, FreshSeen
<1>5. QED
  BY <1>1, <1>3, <1>4, LosesOutcomes

(* A tick notices a frame that is stale for too long and the loss of the   *)
(* target; what it sends on comes from a thread with a target.             *)
LEMMA TickSight ==
  ASSUME TypeOK, SightInv, Tick
  PROVE  SightInv'
<1> USE DEF camera, thread
<1>1. /\ mode = "FOLLOWING" /\ due' = due \ {"tick"} /\ UNCHANGED <<picture, likeness, age>>
      /\ TickCameraStale \/ TickTargetLost \/ TickFollow
  BY DEF Tick
<1>2. CASE EndFollow
  BY <1>2, EndFollowSight
<1>3. CASE ~EndFollow
  <2>1. /\ mark' = Remark /\ Remark <= Stale /\ UNCHANGED <<target, unseen>>
        /\ cmd' = "move" => cmd = "move"
    BY <1>1, <1>3 DEF TickCameraStale, TickTargetLost, TickFollow
  <2>2. steering' => target # NoTarget
    <3>1. CASE TickTargetLost
      BY <1>3, <3>1 DEF TickTargetLost
    <3>2. CASE TickFollow
      <4>1. visible /\ steering' = IF cmd = "none" THEN steering ELSE cmd = "move"
        BY <3>2 DEF TickFollow
      <4>2. CASE cmd = "none"
        BY <4>1, <4>2 DEF SightInv, BlindStops
      <4>3. CASE cmd # "none"
        BY <4>1, <4>3 DEF SightInv, BlindStops
      <4>4. QED
        BY <4>2, <4>3
    <3>3. QED
      BY <1>1, <1>3, <3>1, <3>2 DEF TickCameraStale
  <2>3. Fits' <=> Fits
    BY <1>1, <2>1, SameFit
  <2>4. age > Stale => mark' = mark
    BY <2>1, SightNumbers DEF Remark
  <2>5. BlindStops'
    BY <2>1, <2>2 DEF SightInv, BlindStops
  <2>6. TurnsTaken' /\ RetainedFor' /\ StaleFor' /\ FreshSeen'
    BY <1>1, <2>1, <2>3, <2>4 DEF SightInv, TurnsTaken, RetainedFor, StaleFor, FreshSeen
  <2>7. QED
    BY <2>5, <2>6 DEF SightInv
<1>4. QED
  BY <1>2, <1>3

(* Time passes only after thread and tick have had their turn.             *)
LEMMA AdvanceSight ==
  ASSUME TypeOK, SightInv, Advance
  PROVE  SightInv'
<1>1. /\ due' = {"thread", "tick"} /\ TickDue' = 1
      /\ UNCHANGED <<picture, likeness, mode, running, visible, cmd, steering>>
      /\ running => "thread" \notin due
      /\ mode = "FOLLOWING" => "tick" \notin due
  BY DEF Advance, TickDue
<1>2. /\ age' = Older(age, Oldest) /\ mark' = Older(mark, Oldest)
      /\ unseen' = IF steering THEN Older(unseen, Longest) ELSE unseen
  BY DEF Advance
<1>3. /\ unseen' \in Nat /\ unseen' <= unseen + 1 /\ mark' >= mark
      /\ ~steering => unseen' = unseen
  BY <1>2, SightNumbers DEF Older, Min2, Longest, Oldest
<1>4. CASE target = NoTarget
  <2>1. target' = NoTarget
    BY <1>4 DEF Advance
  <2>2. steering => ~visible /\ unseen <= Stale + Retain + 2
    <3>1. steering => mode = "FOLLOWING"
      BY TypeParts DEF FlagsOK
    <3>2. steering => TickDue = 0
      BY <1>1, <3>1 DEF TickDue
    <3>3. QED
      BY <1>4, <3>2 DEF SightInv, BlindStops
  <2>3. steering => unseen' <= Stale + Retain + 3
    BY <1>2, <2>2, SightNumbers DEF Older, Min2, Longest
  <2>4. QED
    BY <1>1, <1>4, <2>1, <2>2, <2>3
       DEF SightInv, TurnsTaken, BlindStops, RetainedFor, StaleFor, FreshSeen
<1>5. CASE target # NoTarget
  <2>1. target' = [target EXCEPT !.seen = Older(@, Retain + 1)] /\ target \in FollowTarget
    BY <1>5, SightTypes DEF Advance
  <2>2. /\ target'.who = target.who /\ target'.box = target.box /\ target'.colour = target.colour
        /\ target'.seen = Older(target.seen, Retain + 1)
    BY <2>1 DEF FollowTarget
  <2>3. "thread" \notin due /\ (steering => "tick" \notin due)
    BY <1>1, <1>5, SightTypes
  <2>4. target.seen \in Nat /\ target.seen <= Retain /\ (steering => mark <= Stale)
    BY <1>5, <2>1, <2>3, SightNumbers, SightTypes DEF SightInv, TurnsTaken, FollowTarget
  <2>5. target'.seen = target.seen + 1 /\ (steering => mark' = mark + 1)
    BY <1>2, <2>2, <2>4, SightNumbers DEF Older, Min2, Oldest
  <2>6. Fits' <=> Fits
    BY <1>1, <2>2, SameFit
  <2>7. target' # NoTarget
    <3>1. target' \in FollowTarget
      BY <2>1, CapTypes DEF FollowTarget
    <3>2. QED
      BY <3>1, TargetTypes
  <2>8. RetainedFor'
    BY <1>3, <1>5, <2>4, <2>5, SightNumbers DEF SightInv, RetainedFor
  <2>9. StaleFor'
    <3>1. SUFFICES ASSUME Fits, age' > Stale
                   PROVE  unseen' <= mark'
      BY <2>6 DEF StaleFor
    <3>2. age >= Stale
      BY <1>2, <3>1, SightNumbers DEF Older, Min2, Oldest
    <3>3. CASE age > Stale
      <4>1. unseen <= mark /\ mark' \in Nat
        BY <1>2, <1>5, <2>6, <3>1, <3>3, SightNumbers DEF SightInv, StaleFor, Older, Min2, Oldest
      <4>2. CASE steering
        BY <1>3, <2>5, <4>1, <4>2, SightNumbers
      <4>3. CASE ~steering
        BY <1>3, <4>1, <4>3, SightNumbers
      <4>4. QED
        BY <4>2, <4>3
    <3>4. CASE age = Stale
      <4>1. unseen = 0 /\ mark' \in Nat
        BY <1>2, <1>5, <2>3, <2>6, <3>1, <3>4, SightNumbers DEF SightInv, FreshSeen, Older, Min2, Oldest
      <4>2. CASE steering
        BY <1>3, <2>5, <4>1, <4>2, SightNumbers
      <4>3. CASE ~steering
        BY <1>3, <4>1, <4>3, SightNumbers
      <4>4. QED
        BY <4>2, <4>3
    <3>5. QED
      BY <3>2, <3>3, <3>4, SightNumbers
  <2>10. TurnsTaken' /\ BlindStops' /\ FreshSeen'
    BY <1>1, <2>7 DEF TurnsTaken, BlindStops, FreshSeen
  <2>11. QED
    BY <2>8, <2>9, <2>10 DEF SightInv
<1>6. QED
  BY <1>4, <1>5

LEMMA SightStep == TypeOK /\ SightInv /\ [Next]_vars => SightInv'
<1> SUFFICES ASSUME TypeOK, SightInv, [Next]_vars
             PROVE  SightInv'
  OBVIOUS
<1> USE DEF camera, thread, control
<1>1. CASE NewFrame
  BY <1>1, SightNumbers, SightTypes
     DEF NewFrame, SightInv, TurnsTaken, BlindStops, TickDue, RetainedFor, StaleFor, FreshSeen
<1>2. CASE StartAcquiring
  <2>1. Fits' <=> Fits
    BY <1>2, SameFit DEF StartAcquiring
  <2>2. QED
    BY <1>2, <2>1
       DEF StartAcquiring, SightInv, TurnsTaken, BlindStops, TickDue, RetainedFor, StaleFor, FreshSeen
<1>3. CASE LookAgain
  BY <1>3, LookAgainSight
<1>4. CASE GiveUp
  <2>1. target = NoTarget /\ target' = NoTarget /\ cmd' = cmd
    BY <1>4, SightTypes DEF GiveUp
  <2>2. ~steering'
    BY <1>4, TypeParts DEF GiveUp, FlagsOK
  <2>3. QED
    BY <1>4, <2>1, <2>2
       DEF GiveUp, SightInv, TurnsTaken, BlindStops, RetainedFor, StaleFor, FreshSeen
<1>5. CASE Look
  BY <1>5, LookSight
<1>6. CASE LookRaises
  BY <1>6, LookRaisesSight
<1>7. CASE Tick
  BY <1>7, TickSight
<1>8. CASE Hold
  BY <1>8, EndFollowSight DEF Hold
<1>9. CASE Advance
  BY <1>9, AdvanceSight
<1>10. CASE FollowSettles
  <2>1. Fits' <=> Fits
    BY <1>10, SameFit DEF FollowSettles
  <2>2. QED
    BY <1>10, <2>1
       DEF FollowSettles, SightInv, TurnsTaken, BlindStops, TickDue, RetainedFor, StaleFor, FreshSeen
<1>11. CASE UNCHANGED vars
  <2>1. Fits' <=> Fits
    BY <1>11, SameFit DEF vars
  <2>2. QED
    BY <1>11, <2>1
       DEF vars, SightInv, TurnsTaken, BlindStops, TickDue, RetainedFor, StaleFor, FreshSeen
<1>12. QED
  BY <1>1, <1>2, <1>3, <1>4, <1>5, <1>6, <1>7, <1>8, <1>9, <1>10, <1>11 DEF Next

(* For every retention, frame limit, picture and detector, no follow moves *)
(* the robot for longer than SightBound without a match of its target in a *)
(* frame that is not stale: the three watchdogs together are sound.        *)
THEOREM BlindIsShort == Spec => []SightBound
<1>1. TypeOK /\ SightInv => SightBound
  BY SightNumbers, SightTypes DEF SightInv, BlindStops, RetainedFor, SightBound, FollowTarget
<1>2. QED
  BY <1>1, TypeInit, TypeStep, SightInit, SightStep, PTL DEF Spec

-----------------------------------------------------------------------------
(* Whoever stays in place. What nobody's colours can take from them is the *)
(* score of their place alone, 8000 of 10000, which nobody else reaches    *)
(* without most of their box.                                              *)

(* A step in which the thread goes on and the target is where it was.      *)
Stays == target # NoTarget /\ running' /\ picture[target.who] = target.box

(* Only a pass of the thread changes who is its target.                    *)
LEMMA OthersKeepTarget ==
  ASSUME TypeOK, [Next]_vars, Stays, ~Look
  PROVE  target' # NoTarget /\ target'.who = target.who
<1> USE DEF camera, thread, control
<1>1. target \in FollowTarget /\ running /\ mode \in {"SETTLING", "FOLLOWING"}
  BY SightTypes DEF Stays
<1>2. CASE NewFrame \/ StartAcquiring \/ FollowSettles \/ GiveUp \/ UNCHANGED vars
  BY <1>2 DEF NewFrame, StartAcquiring, FollowSettles, GiveUp, vars, Stays
<1>3. CASE LookAgain
  BY <1>1, <1>3 DEF LookAgain
<1>4. CASE LookRaises
  BY <1>4 DEF LookRaises, Loses, ThreadEnds, Stays
<1>5. CASE Tick
  BY <1>5 DEF Tick, TickCameraStale, TickTargetLost, TickFollow, EndFollow, ThreadEnds, Stays
<1>6. CASE Hold
  BY <1>6 DEF Hold, EndFollow, ThreadEnds, Stays
<1>7. CASE Advance
  <2>1. target' = [target EXCEPT !.seen = Older(@, Retain + 1)]
    BY <1>7 DEF Advance, Stays
  <2>2. target' \in FollowTarget /\ target'.who = target.who
    BY <1>1, <2>1, CapTypes DEF FollowTarget
  <2>3. QED
    BY <2>2, TargetTypes
<1>8. QED
  BY <1>2, <1>3, <1>4, <1>5, <1>6, <1>7 DEF Next

(* A pass takes for the target somebody who scores as high as they do.     *)
LEMMA LookTakesBest ==
  ASSUME TypeOK, Look, Stays
  PROVE  \E d, own \in Detections : /\ own.box = target.box
                                   /\ target' = Matched(target, d)
                                   /\ MatchScore(target, own) <= MatchScore(target, d)
<1>1. target \in FollowTarget /\ target \in Target
  BY SightTypes DEF Stays
<1> DEFINE own == [who |-> target.who, box |-> picture[target.who], conf |-> Conf[target.who],
                   likeness |-> likeness[target.who]]
<1>2. own \in Detections /\ own.box = target.box
  <2>1. target.who \in Persons /\ target.box \in Box
    BY <1>1 DEF FollowTarget
  <2>2. picture[target.who] # NoBox
    BY <2>1 DEF Stays
  <2>3. QED
    BY <2>1, <2>2 DEF Detections, Stays
<1>3. Accepted(MatchScore(target, own))
  <2>1. own.box \in Box /\ own.likeness \in 0..100
    BY <1>2, DetectionTypes
  <2>2. IoU(own.box, target.box) = 100 /\ CentreDistance(own.box, target.box) = 0
    BY <1>2, <2>1, BoxIsItself
  <2>3. ColourScore(target, own) \in 0..100
    BY <1>1, <2>1, ScoreTypes
  <2> HIDE DEF own
  <2>4. MatchScore(target, own) >= 8000
    BY <2>2, <2>3 DEF MatchScore
  <2>5. MatchScore(target, own) \in Int
    BY <1>1, <2>1, ScoreTypes
  <2>6. QED
    BY <2>4, <2>5 DEF Accepted
<1> HIDE DEF own
<1>4. target' \in Locked(target, Detections)
  BY LookOutcomes DEF Stays
<1>5. PICK d \in Passes(target, Detections) : target' = Matched(target, d)
  BY <1>1, <1>2, <1>3, <1>4, DetectionTypes, LockedOutcomes DEF Stays
<1>6. QED
  BY <1>2, <1>5 DEF Passes

(* For every picture, and however much or little anybody's colours         *)
(* resemble the target's: a person who stays where they were last seen     *)
(* keeps the lock, unless somebody else has that very box or, before the   *)
(* first match, more than half of it.                                      *)
THEOREM StayingIsKept == Spec => StayingKeepsLock
<1> DEFINE Keeps == /\ target' # NoTarget
                    /\ \/ target'.who = target.who
                       \/ target'.box = target.box
                       \/ target.colour = "own" /\ IoU(target'.box, target.box) > 50
<1>1. ASSUME TypeOK, [Next]_vars, Stays
      PROVE  Keeps
  <2>1. CASE ~Look
    BY <1>1, <2>1, OthersKeepTarget
  <2>2. CASE Look
    <3>1. PICK d \in Detections, own \in Detections :
            /\ own.box = target.box /\ target' = Matched(target, d)
            /\ MatchScore(target, own) <= MatchScore(target, d)
      BY <1>1, <2>2, LookTakesBest
    <3>2. target \in FollowTarget /\ target \in Target
      BY <1>1, SightTypes DEF Stays
    <3>3. target' \in FollowTarget /\ target'.box = d.box
      BY <3>1, <1>1, DetectionTypes DEF Matched, FollowTarget
    <3>4. /\ d.box \in Box /\ d.likeness \in 0..100 /\ own.box \in Box /\ own.likeness \in 0..100
      BY <1>1, DetectionTypes
    <3>5. /\ ColourScore(target, d) \in 0..100 /\ ColourScore(target, own) \in 0..100
          /\ IoU(d.box, target.box) \in Nat /\ CentreDistance(d.box, target.box) \in 0..100
          /\ IoU(own.box, target.box) = 100 /\ CentreDistance(own.box, target.box) = 0
      BY <3>1, <3>2, <3>4, ScoreTypes, BoxIsItself
    <3>6. 8000 + 20 * ColourScore(target, own)
            <= 45 * IoU(d.box, target.box) + 3500 + 20 * ColourScore(target, d)
      <4>1. /\ MatchScore(target, own) = 45 * 100 + 35 * (100 - 0) + 20 * ColourScore(target, own)
            /\ MatchScore(target, d) = 45 * IoU(d.box, target.box)
                                         + 35 * (100 - CentreDistance(d.box, target.box))
                                         + 20 * ColourScore(target, d)
        BY <3>5 DEF MatchScore
      <4>2. 45 * 100 + 35 * (100 - 0) + 20 * ColourScore(target, own)
              <= 45 * IoU(d.box, target.box)
                   + 35 * (100 - CentreDistance(d.box, target.box))
                   + 20 * ColourScore(target, d)
        BY <3>1, <4>1, Zenon
      <4> DEFINE i == IoU(d.box, target.box)
                 n == CentreDistance(d.box, target.box)
                 k == ColourScore(target, own)
                 l == ColourScore(target, d)
      <4>3. i \in Nat /\ n \in 0..100 /\ k \in 0..100 /\ l \in 0..100
        BY <3>5
      <4>4. 45 * 100 + 35 * (100 - 0) + 20 * k <= 45 * i + 35 * (100 - n) + 20 * l
        BY <4>2
      <4> HIDE DEF i, n, k, l
      <4>5. 8000 + 20 * k <= 45 * i + 3500 + 20 * l
        BY <4>3, <4>4
      <4>6. QED
        BY <4>5 DEF i, k, l
    <3>7. CASE target.colour = "own"
      <4>1. IoU(d.box, target.box) > 50
        BY <3>5, <3>6
      <4>2. QED
        BY <3>3, <3>7, <4>1, TargetTypes
    <3>8. CASE target.colour = "flat"
      <4>1. ColourScore(target, own) = 100
        BY <3>8 DEF ColourScore
      <4>2. IoU(d.box, target.box) >= 100
        BY <3>5, <3>6, <4>1
      <4>3. d.box = target.box
        BY <3>1, <3>4, <4>2, WholeOverlap
      <4>4. QED
        BY <3>3, <4>3, TargetTypes
    <3>9. QED
      BY <3>2, <3>7, <3>8 DEF FollowTarget
  <2>3. QED
    BY <2>1, <2>2
<1>2. TypeOK /\ [Next]_vars => [Stays => Keeps]_target
  BY <1>1
<1>3. QED
  BY <1>2, TypeInit, TypeStep, PTL DEF Spec, StayingKeepsLock, Stays

=============================================================================
