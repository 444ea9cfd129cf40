-------------------------- MODULE Go2ControllerProofs --------------------------
(***************************************************************************)
(* Facts about Go2Controller and the adapter's operators below it, for any *)
(* number of follow threads, any faults and any number of lost frames.     *)
(* The two programs that drive the controller, the service and the         *)
(* terminal, rest their theorems on them.                                  *)
(***************************************************************************)
EXTENDS Go2Controller, TLAPS

USE AdapterAssumption, ControllerAssumption DEF AdapterAssumption, ControllerAssumption
USE DEF controllerVars

-----------------------------------------------------------------------------
(* The adapter's operators.                                                *)

(* While none of the faults has happened that a run can be spared, nothing *)
(* is on its way to the robot, the only follow thread is the one the       *)
(* adapter knows, it is the follow that is on, and only that follow sees   *)
(* a target; and without a session the robot is at rest.                   *)
Sound(a) ==
  a.clean => /\ ~a.late
             /\ a.visible => a.following
             /\ \A t \in Threads : a.at[t] \in Working => t = a.thread /\ a.following
             /\ ~a.session => ~a.moving

AtRest(a) == a.clean => ~a.moving

(* What every operator but disconnect does to an adapter.                  *)
Kept(a, b) ==
  /\ b \in Adapter
  /\ b.clean => a.clean
  /\ b.session = a.session /\ b.dropped = a.dropped
  /\ Sound(a) => Sound(b)

(* All but a published velocity and a late Move leave a robot at rest at   *)
(* rest, with no Move on its way that was not before.                      *)
Calmed(a, b) == Kept(a, b) /\ (b.moving => a.moving) /\ (b.late => a.late)

LEMMA KeptTransitive ==
  ASSUME NEW a, NEW b, NEW c, Kept(a, b), Kept(b, c)
  PROVE  Kept(a, c)
BY DEF Kept

LEMMA CalmTransitive ==
  ASSUME NEW a, NEW b, NEW c, Calmed(a, b), Calmed(b, c)
  PROVE  Calmed(a, c)
BY KeptTransitive DEF Calmed

LEMMA CalmReflexive ==
  ASSUME NEW a \in Adapter
  PROVE  Calmed(a, a)
BY DEF Calmed, Kept

LEMMA FaultCalms ==
  ASSUME NEW a \in Adapter, NEW f, NEW b \in Fault(f, a)
  PROVE  Calmed(a, b) /\ ~b.clean /\ b.following = a.following
<1>1. b = [a EXCEPT !.clean = FALSE]
  BY DEF Fault
<1>2. QED
  BY <1>1 DEF Calmed, Kept, Sound, Adapter

(* A zero: only a missing session or a fault makes it fail.                *)
LEMMA ZeroCalms ==
  ASSUME NEW a \in Adapter, NEW z \in PublishZero(a)
  PROVE  /\ z.ok \in BOOLEAN
         /\ Calmed(a, z.ad)
         /\ z.ad.following = a.following
         /\ z.ad.clean => z.ok = a.session
         /\ Sound(a) => AtRest(z.ad)
<1>1. CASE a.session /\ z = Outcome(TRUE, [a EXCEPT !.moving = FALSE])
  BY <1>1 DEF Outcome, Calmed, Kept, Sound, AtRest, Adapter
<1>2. CASE a.session /\ \E b \in Fault("zeroFails", a) : z = Outcome(FALSE, b)
  BY <1>2, FaultCalms DEF Outcome, AtRest
<1>3. CASE ~a.session /\ z = Outcome(FALSE, a)
  <2>1. z.ok = FALSE /\ z.ad = a /\ a.session = FALSE
    BY <1>3 DEF Outcome, Adapter
  <2>2. QED
    BY <2>1, CalmReflexive DEF Sound, AtRest
<1>4. QED
  BY <1>1, <1>2, <1>3 DEF PublishZero

(* A velocity leaves the follow alone, and only a Move sets the robot      *)
(* moving.                                                                 *)
LEMMA VelocityKeeps ==
  ASSUME NEW a \in Adapter, NEW cmd \in Commands, NEW p \in PublishVelocity(a, cmd)
  PROVE  /\ p.ok \in BOOLEAN
         /\ Kept(a, p.ad)
         /\ p.ad.following = a.following
         /\ cmd # "move" => (p.ad.moving => a.moving) /\ (p.ad.late => a.late)
<1>1. CASE a.session /\ p = Outcome(TRUE, [a EXCEPT !.moving = (cmd = "move")])
  <2>1. ASSUME NEW m \in BOOLEAN
        PROVE  LET b == [a EXCEPT !.moving = m] IN
               Kept(a, b) /\ b.following = a.following /\ b.moving = m /\ b.late = a.late
    BY <1>1 DEF Kept, Sound, Adapter
  <2>2. CASE cmd = "move"
    <3>1. p = Outcome(TRUE, [a EXCEPT !.moving = TRUE])
      BY <1>1, <2>2, Zenon
    <3>2. QED
      BY <2>1, <2>2, <3>1 DEF Outcome
  <2>3. CASE cmd # "move"
    <3>1. p = Outcome(TRUE, [a EXCEPT !.moving = FALSE])
      BY <1>1, <2>3, Zenon
    <3>2. QED
      BY <2>1, <3>1 DEF Outcome
  <2>4. QED
    BY <2>2, <2>3
<1>2. CASE p = Outcome(FALSE, [a EXCEPT !.moving = FALSE])
  BY <1>2 DEF Outcome, Kept, Sound, Adapter
<1>3. CASE cmd = "move" /\ \E b \in Fault("lateMove", a) : p = Outcome(FALSE, [b EXCEPT !.late = TRUE])
  <2>1. PICK b \in Fault("lateMove", a) : p = Outcome(FALSE, [b EXCEPT !.late = TRUE])
    BY <1>3
  <2>2. Kept(a, b) /\ ~b.clean /\ b.following = a.following
    BY FaultCalms DEF Calmed
  <2>3. Kept(b, [b EXCEPT !.late = TRUE]) /\ [b EXCEPT !.late = TRUE].following = b.following
    BY <2>2 DEF Kept, Sound, Adapter
  <2>4. QED
    BY <1>3, <2>1, <2>2, <2>3, KeptTransitive DEF Outcome
<1>4. CASE cmd = "move" /\ \E b \in Fault("lateMove", a) : p = Outcome(FALSE, [b EXCEPT !.moving = TRUE])
  <2>1. PICK b \in Fault("lateMove", a) : p = Outcome(FALSE, [b EXCEPT !.moving = TRUE])
    BY <1>4
  <2>2. Kept(a, b) /\ ~b.clean /\ b.following = a.following
    BY FaultCalms DEF Calmed
  <2>3. Kept(b, [b EXCEPT !.moving = TRUE]) /\ [b EXCEPT !.moving = TRUE].following = b.following
    BY <2>2 DEF Kept, Sound, Adapter
  <2>4. QED
    BY <1>4, <2>1, <2>2, <2>3, KeptTransitive DEF Outcome
<1>5. CASE p = Outcome(FALSE, a)
  BY <1>5, CalmReflexive DEF Outcome, Calmed
<1>6. QED
  BY <1>1, <1>2, <1>3, <1>4, <1>5 DEF PublishVelocity

LEMMA ThreadEndCalms ==
  ASSUME NEW a \in Adapter, NEW t \in Threads, a.at[t] \in Working
  PROVE  Calmed(a, ThreadEnd(a, t))
<1> DEFINE b == ThreadEnd(a, t)
<1>1. b \in Adapter /\ b.at = [a.at EXCEPT ![t] = "dead"] /\ ~b.following /\ ~b.visible
  BY DEF ThreadEnd, Adapter, Commands
<1>2. /\ b.moving = a.moving /\ b.late = a.late /\ b.clean = a.clean
      /\ b.session = a.session /\ b.dropped = a.dropped /\ b.thread = a.thread
  BY DEF ThreadEnd, Adapter
<1>3. Sound(a) => Sound(b)
  <2>1. a.clean /\ Sound(a) => \A s \in Threads : b.at[s] \notin Working
    BY <1>1 DEF Sound, Adapter, Working
  <2>2. QED
    BY <1>1, <1>2, <2>1 DEF Sound
<1>4. QED
  BY <1>1, <1>2, <1>3 DEF Calmed, Kept

LEMMA ThreadCheckCalms ==
  ASSUME NEW a \in Adapter, NEW t \in Threads, NEW b \in ThreadCheck(a, t)
  PROVE  Calmed(a, b) /\ (b.following => a.following)
<1>1. a.at[t] = "checking"
  BY DEF ThreadCheck
<1>2. CASE b = [a EXCEPT !.at[t] = "looking"]
  BY <1>1, <1>2 DEF Calmed, Kept, Sound, Adapter, Working
<1>3. CASE b = ThreadEnd(a, t)
  <2>1. ~b.following
    BY <1>3 DEF ThreadEnd, Adapter
  <2>2. QED
    BY <1>1, <1>3, <2>1, ThreadEndCalms DEF Working
<1>4. QED
  BY <1>1, <1>2, <1>3 DEF ThreadCheck

LEMMA ThreadLookCalms ==
  ASSUME NEW a \in Adapter, NEW t \in Threads, NEW b \in ThreadLook(a, t)
  PROVE  Calmed(a, b) /\ (b.following => a.following)
<1> DEFINE again == [a EXCEPT !.at[t] = "checking"]
<1>1. a.at[t] = "looking"
  BY DEF ThreadLook
<1>2. /\ again \in Adapter
      /\ again.at[t] = "checking" /\ \A s \in Threads : again.at[s] \in Working <=> a.at[s] \in Working
      /\ again.moving = a.moving /\ again.late = a.late /\ again.clean = a.clean
      /\ again.session = a.session /\ again.dropped = a.dropped
      /\ again.following = a.following /\ again.visible = a.visible /\ again.thread = a.thread
  BY <1>1 DEF Adapter, Working
<1>3. a.cmd \in Commands
  BY DEF Adapter
<1> HIDE DEF again
<1>4. ASSUME NEW c \in Commands, NEW v \in BOOLEAN
      PROVE  LET l == [again EXCEPT !.visible = v, !.cmd = c] IN
             Calmed(a, l) /\ l.following = a.following
  BY <1>1, <1>2 DEF Calmed, Kept, Sound, Adapter, Working
<1>5. ASSUME NEW c \in Commands
      PROVE  LET l == [again EXCEPT !.cmd = c] IN Calmed(a, l) /\ l.following = a.following
  BY <1>1, <1>2 DEF Calmed, Kept, Sound, Adapter, Working
<1>6. \/ \E c \in {a.cmd, "zero", "move"} : b = [again EXCEPT !.visible = TRUE, !.cmd = c]
      \/ b = [again EXCEPT !.visible = FALSE, !.cmd = "zero"]
      \/ b = [again EXCEPT !.cmd = "zero"]
      \/ b = ThreadEnd(a, t)
  BY DEF ThreadLook, again
<1>7. {a.cmd, "zero", "move"} \subseteq Commands
  BY <1>3 DEF Commands
<1>8. CASE b = ThreadEnd(a, t)
  <2>1. ~b.following
    BY <1>8 DEF ThreadEnd, Adapter
  <2>2. QED
    BY <1>1, <1>8, <2>1, ThreadEndCalms DEF Working
<1>9. QED
  BY <1>4, <1>5, <1>6, <1>7, <1>8

(* After stop_follow no follow is on, whatever becomes of its thread.      *)
LEMMA StopFollowCalms ==
  ASSUME NEW a \in Adapter, NEW b \in StopFollow(a)
  PROVE  Calmed(a, b) /\ ~b.following /\ (Sound(a) => AtRest(b))
<1> DEFINE told == [a EXCEPT !.stop = TRUE]
           alive == a.thread # NoThread /\ a.at[a.thread] \in Working
           waited == IF alive
                     THEN {ThreadEnd(told, a.thread)}
                            \union (IF a.at[a.thread] = "looking" THEN Fault("overrun", told) ELSE {})
                     ELSE {told}
           forgotten == {[w EXCEPT !.thread = NoThread, !.following = FALSE, !.visible = FALSE] :
                           w \in waited}
           Dead(w) == w.clean /\ Sound(a) => \A t \in Threads : w.at[t] \notin Working
<1>1. told \in Adapter /\ Calmed(a, told) /\ told.at = a.at /\ told.thread = a.thread
  BY DEF Adapter, Calmed, Kept, Sound
<1>2. ASSUME NEW w \in waited
      PROVE  Calmed(a, w) /\ Dead(w)
  <2>1. CASE alive /\ w = ThreadEnd(told, a.thread)
    <3>1. a.thread \in Threads /\ told.at[a.thread] \in Working
      BY <1>1, <2>1 DEF Adapter
    <3>2. Calmed(a, w)
      BY <1>1, <2>1, <3>1, ThreadEndCalms, CalmTransitive
    <3>3. w.at = [a.at EXCEPT ![a.thread] = "dead"] /\ w.clean = a.clean
      BY <2>1, <3>1 DEF ThreadEnd, Adapter
    <3>4. QED
      BY <3>1, <3>2, <3>3 DEF Sound, Adapter, Working
  <2>2. CASE w \in Fault("overrun", told)
    BY <1>1, <2>2, FaultCalms, CalmTransitive
  <2>3. CASE ~alive /\ w = told
    BY <1>1, <2>3 DEF Sound, Adapter
  <2>4. QED
    BY <2>1, <2>2, <2>3
<1>3. ASSUME NEW f \in forgotten
      PROVE  Calmed(a, f) /\ ~f.following
  <2>1. PICK w \in waited : f = [w EXCEPT !.thread = NoThread, !.following = FALSE, !.visible = FALSE]
    OBVIOUS
  <2>2. w \in Adapter /\ Calmed(a, w) /\ Dead(w)
    BY <1>2 DEF Calmed, Kept
  <2>3. /\ f \in Adapter /\ ~f.following /\ ~f.visible /\ f.at = w.at
        /\ f.moving = w.moving /\ f.late = w.late /\ f.clean = w.clean
        /\ f.session = w.session /\ f.dropped = w.dropped
    BY <2>1, <2>2 DEF Adapter
  <2>4. Sound(a) => Sound(f)
    BY <2>2, <2>3 DEF Calmed, Kept, Sound
  <2>5. QED
    BY <2>2, <2>3, <2>4 DEF Calmed, Kept
<1>4. PICK f \in forgotten : \E z \in PublishZero(f) : b = z.ad
  BY DEF StopFollow
<1>5. f \in Adapter /\ Calmed(a, f) /\ ~f.following
  BY <1>3 DEF Calmed, Kept
<1>6. Calmed(f, b) /\ ~b.following /\ (Sound(f) => AtRest(b))
  <2>1. PICK z \in PublishZero(f) : b = z.ad
    BY <1>4
  <2>2. QED
    BY <1>5, <2>1, ZeroCalms
<1>7. QED
  BY <1>5, <1>6, CalmTransitive DEF Calmed, Kept

LEMMA StartFollowCalms ==
  ASSUME NEW a \in Adapter, NEW b \in StartFollow(a)
  PROVE  Calmed(a, b)
<1>1. PICK s \in StopFollow(a), t \in Threads :
        b = [s EXCEPT !.stop = FALSE, !.following = TRUE, !.visible = TRUE,
                      !.thread = t, !.at[t] = "checking"]
  BY DEF StartFollow
<1>2. s \in Adapter /\ Calmed(a, s) /\ ~s.following
  BY StopFollowCalms DEF Calmed, Kept
<1>3. Calmed(s, b)
  BY <1>1, <1>2 DEF Adapter, Calmed, Kept, Sound, Working
<1>4. QED
  BY <1>2, <1>3, CalmTransitive

LEMMA LateMoveKeeps ==
  ASSUME NEW a \in Adapter, NEW b \in LateMove(a)
  PROVE  Kept(a, b) /\ a.late /\ ~b.late /\ b.following = a.following /\ b.clean = a.clean
<1>1. PICK m \in {TRUE, FALSE, a.moving} : b = [a EXCEPT !.late = FALSE, !.moving = m]
  BY DEF LateMove
<1>2. m \in BOOLEAN /\ a.late /\ a.session
  BY DEF Adapter, LateMove
<1>3. QED
  BY <1>1, <1>2 DEF Adapter, Kept, Sound

(* disconnect leaves a robot at rest that no late Move reaches.            *)
LEMMA DisconnectFacts ==
  ASSUME NEW a \in Adapter, NEW b \in Disconnect(a)
  PROVE  /\ b \in Adapter
         /\ b.clean => a.clean
         /\ ~b.session /\ ~b.late /\ ~b.following
         /\ b.moving => a.moving \/ a.late
         /\ Sound(a) => Sound(b) /\ AtRest(b)
<1> DEFINE zeroed(S) == UNION {{z.ad : z \in PublishZero(s)} : s \in S}
           Still(s) == Calmed(a, s) /\ ~s.following /\ (Sound(a) => AtRest(s))
           still == zeroed(zeroed(StopFollow(a)))
<1>1. PICK d \in still \union UNION {LateMove(s) : s \in still} :
        b = [d EXCEPT !.session = FALSE, !.late = FALSE]
  BY DEF Disconnect
<1>2. ASSUME NEW S, \A s \in S : Still(s)
      PROVE  \A s \in zeroed(S) : Still(s)
  <2> SUFFICES ASSUME NEW s \in S, NEW z \in PublishZero(s)
               PROVE  Still(z.ad)
    OBVIOUS
  <2>1. s \in Adapter /\ Still(s)
    BY <1>2 DEF Calmed, Kept
  <2>2. Calmed(s, z.ad) /\ z.ad.following = s.following /\ (Sound(s) => AtRest(z.ad))
    BY <2>1, ZeroCalms
  <2>3. Sound(a) => Sound(s)
    BY <2>1 DEF Calmed, Kept
  <2>4. QED
    BY <2>1, <2>2, <2>3, CalmTransitive
<1>3. \A s \in still : Still(s)
  <2>1. \A s \in StopFollow(a) : Still(s)
    BY StopFollowCalms
  <2>2. \A s \in zeroed(StopFollow(a)) : Still(s)
    BY <1>2, <2>1
  <2>3. QED
    BY <1>2, <2>2
<1> HIDE DEF still
<1>4. /\ d \in Adapter /\ (d.clean => a.clean) /\ ~d.following
      /\ d.moving => a.moving \/ a.late
      /\ Sound(a) => Sound(d) /\ AtRest(d)
  <2>1. CASE d \in still
    BY <1>3, <2>1 DEF Calmed, Kept
  <2>2. CASE \E s \in still : d \in LateMove(s)
    <3>1. PICK s \in still : d \in LateMove(s)
      BY <2>2
    <3>2. s \in Adapter /\ Still(s)
      BY <1>3 DEF Calmed, Kept
    <3>3. Kept(s, d) /\ s.late /\ d.following = s.following /\ d.clean = s.clean
      BY <3>1, <3>2, LateMoveKeeps
    <3>4. Sound(a) => Sound(d) /\ AtRest(d)
      BY <3>2, <3>3 DEF Calmed, Kept, Sound, AtRest
    <3>5. QED
      BY <3>2, <3>3, <3>4 DEF Calmed, Kept
  <2>3. QED
    BY <1>1, <2>1, <2>2
<1>5. /\ b \in Adapter /\ ~b.session /\ ~b.late
      /\ b.moving = d.moving /\ b.clean = d.clean /\ b.following = d.following
      /\ b.visible = d.visible /\ b.at = d.at /\ b.thread = d.thread
  BY <1>1, <1>4 DEF Adapter
<1>6. QED
  BY <1>4, <1>5 DEF Sound, AtRest

LEMMA QuietenCalms ==
  ASSUME NEW a \in Adapter, NEW b \in Quieten(a)
  PROVE  Calmed(a, b) /\ ~b.following /\ (Sound(a) => AtRest(b))
<1>1. PICK z \in PublishZero(a) : b \in IF z.ad.following THEN StopFollow(z.ad) ELSE {z.ad}
  BY DEF Quieten, ForceZero
<1>2. z.ad \in Adapter /\ Calmed(a, z.ad) /\ (Sound(a) => Sound(z.ad) /\ AtRest(z.ad))
  BY ZeroCalms DEF Calmed, Kept
<1>3. CASE z.ad.following
  <2>1. b \in StopFollow(z.ad)
    BY <1>1, <1>3
  <2>2. QED
    BY <1>2, <2>1, StopFollowCalms, CalmTransitive
<1>4. CASE ~z.ad.following
  BY <1>1, <1>2, <1>4
<1>5. QED
  BY <1>3, <1>4

(* A transition settles only where the table allows it, with the robot at  *)
(* rest; a session and no fault are enough for it to do so.                *)
LEMMA TransitionCalms ==
  ASSUME NEW a \in Adapter, NEW from, NEW to, NEW stopFollow \in BOOLEAN,
         NEW o \in BeginTransition(a, from, to, stopFollow)
  PROVE  /\ o.ok \in BOOLEAN
         /\ Calmed(a, o.ad)
         /\ o.ad.following => a.following
         /\ o.ok => to = from \/ to \in Allowed(from)
         /\ o.ok /\ stopFollow => ~o.ad.following
         /\ o.ok /\ Sound(a) => AtRest(o.ad)
         /\ o.ad.clean /\ a.session /\ (to = from \/ to \in Allowed(from)) => o.ok
<1>1. CASE to # from /\ to \notin Allowed(from)
  <2>1. o = Outcome(FALSE, a)
    BY <1>1 DEF BeginTransition
  <2>2. QED
    BY <1>1, <2>1, CalmReflexive DEF Outcome
<1>2. CASE ~(to # from /\ to \notin Allowed(from))
  <2>1. PICK z \in PublishZero(a) :
          o \in IF z.ok
                THEN {Outcome(TRUE, b) :
                        b \in IF stopFollow /\ z.ad.following THEN StopFollow(z.ad) ELSE {z.ad}}
                ELSE {z}
    BY <1>2 DEF BeginTransition, ForceZero
  <2>2. /\ z.ok \in BOOLEAN /\ z.ad \in Adapter /\ Calmed(a, z.ad)
        /\ z.ad.following = a.following
        /\ z.ad.clean => z.ok = a.session
        /\ Sound(a) => Sound(z.ad) /\ AtRest(z.ad)
    BY ZeroCalms DEF Calmed, Kept
  <2>3. CASE ~z.ok
    <3>1. o = z
      BY <2>1, <2>3
    <3>2. QED
      BY <2>2, <2>3, <3>1
  <2>4. CASE z.ok /\ stopFollow /\ z.ad.following
    <3>1. PICK b \in StopFollow(z.ad) : o = Outcome(TRUE, b)
      BY <2>1, <2>4
    <3>2. Calmed(a, b) /\ ~b.following /\ (Sound(a) => AtRest(b))
      BY <2>2, StopFollowCalms, CalmTransitive
    <3>3. o.ok /\ o.ad = b
      BY <3>1 DEF Outcome
    <3>4. QED
      BY <1>2, <3>2, <3>3
  <2>5. CASE z.ok /\ ~(stopFollow /\ z.ad.following)
    <3>1. o = Outcome(TRUE, z.ad)
      BY <2>1, <2>5
    <3>2. o.ok /\ o.ad = z.ad
      BY <3>1 DEF Outcome
    <3>3. QED
      BY <1>2, <2>2, <2>5, <3>2
  <2>6. QED
    BY <2>2, <2>3, <2>4, <2>5
<1>3. QED
  BY <1>1, <1>2

HoldsFrom == {"MANUAL", "FOLLOWING", "ACQUIRING_TARGET"}

LEMMA HoldCalms ==
  ASSUME NEW a \in Adapter, NEW m, NEW h \in BeginHold(a, m)
  PROVE  /\ h.ok \in BOOLEAN
         /\ Calmed(a, h.ad)
         /\ ~h.ad.following
         /\ Sound(a) => AtRest(h.ad)
         /\ h.ok => m \in HoldsFrom
         /\ h.ad.clean /\ a.session /\ m \in HoldsFrom => h.ok
<1>1. PICK b \in Quieten(a) : h \in IF m \in HoldsFrom
                                    THEN BeginTransition(b, m, "IDLE", FALSE)
                                    ELSE {Outcome(FALSE, b)}
  BY DEF BeginHold, HoldsFrom
<1>2. b \in Adapter /\ Calmed(a, b) /\ ~b.following /\ (Sound(a) => Sound(b) /\ AtRest(b))
  BY QuietenCalms DEF Calmed, Kept
<1>3. CASE m \notin HoldsFrom
  <2>1. h = Outcome(FALSE, b)
    BY <1>1, <1>3
  <2>2. QED
    BY <1>2, <1>3, <2>1 DEF Outcome
<1>4. CASE m \in HoldsFrom
  <2>1. h \in BeginTransition(b, m, "IDLE", FALSE) /\ "IDLE" \in Allowed(m)
    BY <1>1, <1>4 DEF HoldsFrom, Allowed
  <2>2. /\ h.ok \in BOOLEAN /\ Calmed(b, h.ad) /\ (h.ad.following => b.following)
        /\ h.ad.clean /\ b.session => h.ok
    BY <1>2, <2>1, TransitionCalms
  <2>3. Calmed(a, h.ad) /\ b.session = a.session /\ (Sound(a) => AtRest(h.ad))
    BY <1>2, <2>2, CalmTransitive DEF Calmed, Kept, AtRest
  <2>4. QED
    BY <1>2, <1>4, <2>2, <2>3
<1>5. QED
  BY <1>3, <1>4

-----------------------------------------------------------------------------
(* The controller's inductive invariant, in named parts. Whatever drives   *)
(* the controller, it stays true as long as one command runs at a time.    *)

(* The count of lost frames starts again before each follow, and a tick    *)
(* that counts past the limit leaves FOLLOWING in the same step.           *)
FollowCounts ==
  /\ mode = "FOLLOWING" => lost <= MaxLost
  /\ task = "toFollow" => lost = 0

(* What a command finds when it wakes: the ticks in between may have ended *)
(* a follow or found an error, and did nothing else to the mode.           *)
SettlesLegally ==
  /\ task # "none" => mode \notin {"ESTOP", "DISCONNECTED"}
  /\ task \in {"looking", "toFollow"} => mode \in {"ACQUIRING_TARGET", "ERROR"}
  /\ task = "toManual" => mode # "ACQUIRING_TARGET"

(* Without a session there is nothing but an error, a stop or the end.     *)
SessionInv ==
  ~ad.session => task = "none" /\ mode \in {"ERROR", "ESTOP", "DISCONNECTED"}

ErrorMeansLost == mode = "ERROR" => ~Connected(ad)

AcquiringSleeps == ad.clean /\ mode = "ACQUIRING_TARGET" => task # "none"

(* The robot moves for the one who owns the velocity and for nobody while  *)
(* a command sleeps; and a command that sleeps has no follow beside it but *)
(* the one it starts, so that no tick can take the velocity meanwhile.     *)
OwnerMoves ==
  ad.moving => /\ task = "none"
               /\ \/ mode = "FOLLOWING" /\ owner = "FOLLOW"
                  \/ mode = "MANUAL" /\ owner = "MANUAL"
NoFollowBeside == task \in {"toAcquire", "looking", "toIdle", "toManual"} => ~ad.following

HandoverInv ==
  /\ Sound(ad)
  /\ ad.clean => OwnerMoves /\ NoFollowBeside

ControllerInv ==
  /\ ControllerTypeOK
  /\ FollowCounts
  /\ SettlesLegally
  /\ SessionInv
  /\ ErrorMeansLost
  /\ AcquiringSleeps
  /\ HandoverInv

LEMMA ControllerStarts == ControllerInit => ControllerInv
<1> SUFFICES ASSUME ControllerInit
             PROVE  ControllerInv
  OBVIOUS
<1>1. /\ owner = "NONE" /\ estop = FALSE /\ lost = 0
      /\ manual = "off" /\ task = "none" /\ scanning = FALSE
      /\ \/ mode = "IDLE" /\ ad = NewAdapter(TRUE)
         \/ mode = "ERROR" /\ ad = NewAdapter(FALSE)
  BY DEF ControllerInit
<1>2. ASSUME NEW s \in BOOLEAN
      PROVE  LET a == NewAdapter(s) IN
             a \in Adapter /\ Sound(a) /\ ~a.moving /\ a.session = s /\ ~a.following
  BY DEF NewAdapter, Adapter, Commands, Sound, Working
<1>3. ad \in Adapter /\ Sound(ad) /\ ~ad.moving /\ ~ad.following /\ (ad.session <=> mode = "IDLE")
  BY <1>1, <1>2
<1>4. lost \in 0..(MaxLost + 1)
  BY <1>1
<1>5. ControllerTypeOK
  BY <1>1, <1>3, <1>4, Zenon DEF ControllerTypeOK, MuxTypeOK, Modes, Owners, Awaits
<1>6. FollowCounts /\ SettlesLegally /\ AcquiringSleeps
  BY <1>1 DEF FollowCounts, SettlesLegally, AcquiringSleeps
<1>7. SessionInv /\ ErrorMeansLost
  BY <1>1, <1>3 DEF SessionInv, ErrorMeansLost, Connected
<1>8. HandoverInv
  BY <1>1, <1>3 DEF HandoverInv, OwnerMoves, NoFollowBeside
<1>9. QED
  BY <1>5, <1>6, <1>7, <1>8 DEF ControllerInv

LEMMA ControllerStutters == ControllerInv /\ UNCHANGED controllerVars => ControllerInv'
BY DEF ControllerInv, ControllerTypeOK, MuxTypeOK, FollowCounts, SettlesLegally, SessionInv,
       ErrorMeansLost, AcquiringSleeps, HandoverInv, OwnerMoves, NoFollowBeside

(* What the steps below use of the invariant.                              *)
LEMMA InvFacts ==
  ASSUME ControllerInv
  PROVE  ad \in Adapter /\ Sound(ad) /\ (ad.clean => OwnerMoves /\ NoFollowBeside)
BY DEF ControllerInv, ControllerTypeOK, MuxTypeOK, HandoverInv

-----------------------------------------------------------------------------
(* The pieces that several commands share.                                 *)

LEMMA HoldFromFacts ==
  ASSUME NEW a \in Adapter, Sound(a), NEW m, HoldFrom(a, m)
  PROVE  /\ Calmed(a, ad') /\ ~ad'.following /\ AtRest(ad')
         /\ task' \in {"none", "toIdle"}
         /\ task' = "toIdle" => m \in HoldsFrom
         /\ ad'.clean /\ a.session /\ m \in HoldsFrom => task' = "toIdle"
         /\ manual' = "off"
<1>1. PICK h \in BeginHold(a, m) :
        /\ ad' = h.ad
        /\ task' = IF h.ok THEN "toIdle" ELSE "none"
        /\ manual' = "off"
  BY DEF HoldFrom
<1>2. QED
  BY <1>1, HoldCalms

LEMMA FollowReturnsFacts ==
  ASSUME ControllerInv, NEW a \in Adapter, Sound(a), AtRest(a), NEW m, FollowReturns(a, m)
  PROVE  /\ Calmed(a, ad') /\ (ad'.following => a.following) /\ AtRest(ad')
         /\ task' \in {"none", "toIdle"}
         /\ task' = "toIdle" => m \in HoldsFrom
         /\ manual' \in {"off", "running", "expired"}
         /\ scanning' = FALSE
<1>1. CASE scanning
  BY <1>1, HoldFromFacts DEF FollowReturns
<1>2. CASE ~scanning
  BY <1>2, CalmReflexive DEF FollowReturns, ControllerInv, ControllerTypeOK
<1>3. QED
  BY <1>1, <1>2

(* An acquisition that is given up goes back to IDLE, but for a fault.     *)
LEMMA GiveUpFromFacts ==
  ASSUME ControllerInv, NEW a \in Adapter, Sound(a), GiveUpFrom(a),
         mode \in {"ACQUIRING_TARGET", "ERROR"}
  PROVE  /\ Calmed(a, ad') /\ (ad'.following => a.following) /\ AtRest(ad')
         /\ task' \in {"none", "toIdle"}
         /\ ad'.clean /\ a.session => task' = "toIdle"
         /\ manual' \in {"off", "running", "expired"}
         /\ scanning' \in BOOLEAN /\ (scanning' => task' = "toIdle")
<1>1. PICK o \in BeginTransition(a, mode, "IDLE", FALSE) :
        IF o.ok
        THEN ad' = o.ad /\ task' = "toIdle" /\ UNCHANGED <<scanning, manual>>
        ELSE FollowReturns(o.ad, mode)
  BY DEF GiveUpFrom
<1>2. "IDLE" \in Allowed(mode)
  BY DEF Allowed
<1>3. /\ o.ok \in BOOLEAN /\ Calmed(a, o.ad) /\ (o.ad.following => a.following)
      /\ o.ok => AtRest(o.ad)
      /\ o.ad.clean /\ a.session => o.ok
  BY <1>2, TransitionCalms
<1>4. CASE o.ok
  BY <1>1, <1>3, <1>4 DEF ControllerInv, ControllerTypeOK
<1>5. CASE ~o.ok
  <2>1. o.ad \in Adapter /\ Sound(o.ad) /\ o.ad.session = a.session
    BY <1>3 DEF Calmed, Kept
  <2>2. AtRest(o.ad)
    BY <1>3, <1>5, <2>1 DEF Sound, AtRest
  <2>3. /\ Calmed(o.ad, ad') /\ (ad'.following => o.ad.following) /\ AtRest(ad')
        /\ task' \in {"none", "toIdle"}
        /\ manual' \in {"off", "running", "expired"}
        /\ scanning' = FALSE
    BY <1>1, <1>5, <2>1, <2>2, FollowReturnsFacts
  <2>4. ~(ad'.clean /\ a.session)
    BY <1>3, <1>5, <2>3 DEF Calmed, Kept
  <2>5. QED
    BY <1>3, <2>3, <2>4, CalmTransitive
<1>6. QED
  BY <1>3, <1>4, <1>5

-----------------------------------------------------------------------------
(* The commands. Each is called when none is under way.                    *)

LEMMA StartFollowFromInv ==
  ASSUME ControllerInv, NEW a, Calmed(ad, a), NEW scan \in BOOLEAN, StartFollowFrom(a, scan)
  PROVE  /\ ControllerInv'
         /\ ad'.clean => ad.clean
         /\ ad'.clean /\ mode = "FOLLOWING" => task' # "none"
         /\ task' \in {"none", "toAcquire", "toIdle"}
         /\ task' = "toAcquire" => scanning' = scan
<1> USE DEF ControllerInv, ControllerTypeOK, MuxTypeOK
<1>1. PICK o \in BeginTransition(a, mode, "ACQUIRING_TARGET", TRUE) :
        \/ /\ o.ok
           /\ ad' = o.ad
           /\ task' = "toAcquire"
           /\ scanning' = scan
           /\ UNCHANGED manual
        \/ /\ ~o.ok
           /\ IF scan THEN HoldFrom(o.ad, mode) ELSE ad' = o.ad /\ UNCHANGED <<task, manual>>
           /\ UNCHANGED scanning
  BY DEF StartFollowFrom
<1>2. task = "none" /\ UNCHANGED <<owner, mode, estop, lost>>
  BY DEF StartFollowFrom
<1>3. /\ a \in Adapter /\ Sound(a)
      /\ o.ok \in BOOLEAN /\ Calmed(a, o.ad)
      /\ o.ok => mode \in {"IDLE", "MANUAL", "ACQUIRING_TARGET", "FOLLOWING"}
      /\ o.ok => ~o.ad.following /\ AtRest(o.ad)
      /\ o.ad.clean /\ a.session /\ mode = "FOLLOWING" => o.ok
  <2>1. a \in Adapter /\ Sound(a)
    BY InvFacts DEF Calmed, Kept
  <2>2. /\ o.ok => mode = "ACQUIRING_TARGET" \/ "ACQUIRING_TARGET" \in Allowed(mode)
        /\ o.ad.clean /\ a.session /\ "ACQUIRING_TARGET" \in Allowed(mode) => o.ok
        /\ o.ok \in BOOLEAN /\ Calmed(a, o.ad)
        /\ o.ok => ~o.ad.following /\ AtRest(o.ad)
    BY <2>1, TransitionCalms
  <2>3. "ACQUIRING_TARGET" \in Allowed(mode) <=> mode \in {"IDLE", "MANUAL", "FOLLOWING"}
    BY DEF Allowed
  <2>4. QED
    BY <2>1, <2>2, <2>3
<1>4. Calmed(ad, o.ad) /\ o.ad \in Adapter /\ Sound(o.ad)
  BY <1>3, CalmTransitive DEF Calmed, Kept
<1>5. /\ Calmed(ad, ad')
      /\ task' \in {"none", "toAcquire", "toIdle"}
      /\ task' # "none" => AtRest(ad') /\ ~ad'.following
      /\ task' # "none" => mode \in {"IDLE", "MANUAL", "ACQUIRING_TARGET", "FOLLOWING"}
      /\ ad'.clean /\ ad.session /\ mode = "FOLLOWING" => task' # "none"
      /\ task' = "toAcquire" => scanning' = scan
      /\ manual' \in {"off", "running", "expired"} /\ scanning' \in BOOLEAN
  <2>1. a.session = ad.session /\ o.ad.session = ad.session
    BY <1>4 DEF Calmed, Kept
  <2>2. CASE o.ok
    BY <1>1, <1>3, <1>4, <2>1, <2>2
  <2>3. CASE ~o.ok /\ scan
    <3>1. /\ Calmed(o.ad, ad') /\ ~ad'.following /\ AtRest(ad')
          /\ task' \in {"none", "toIdle"}
          /\ task' = "toIdle" => mode \in HoldsFrom
          /\ ad'.clean /\ o.ad.session /\ mode \in HoldsFrom => task' = "toIdle"
          /\ manual' = "off" /\ scanning' = scanning
      BY <1>1, <1>4, <2>3, HoldFromFacts
    <3>2. Calmed(ad, ad')
      BY <1>4, <3>1, CalmTransitive
    <3>3. QED
      BY <2>1, <3>1, <3>2 DEF HoldsFrom
  <2>4. CASE ~o.ok /\ ~scan
    BY <1>1, <1>2, <1>3, <1>4, <2>1, <2>4
  <2>5. QED
    BY <1>3, <2>2, <2>3, <2>4
<1>6. /\ ad' \in Adapter /\ Sound(ad') /\ (ad'.clean => ad.clean)
      /\ ad'.session = ad.session /\ ad'.dropped = ad.dropped /\ (ad'.moving => ad.moving)
  BY <1>5, InvFacts DEF Calmed, Kept
<1>7. ControllerTypeOK' /\ FollowCounts' /\ SettlesLegally'
  BY <1>2, <1>5, <1>6 DEF FollowCounts, SettlesLegally, Awaits
<1>8. SessionInv' /\ ErrorMeansLost' /\ AcquiringSleeps'
  BY <1>2, <1>5, <1>6 DEF SessionInv, ErrorMeansLost, AcquiringSleeps, Connected
<1>9. HandoverInv'
  BY <1>2, <1>5, <1>6 DEF HandoverInv, OwnerMoves, NoFollowBeside, AtRest
<1>10. mode = "FOLLOWING" => ad.session
  BY DEF SessionInv
<1>11. QED
  BY <1>5, <1>6, <1>7, <1>8, <1>9, <1>10

LEMMA HoldInv ==
  ASSUME ControllerInv, NEW a, Calmed(ad, a), HoldFrom(a, mode), task = "none",
         UNCHANGED <<owner, mode, estop, lost, scanning>>
  PROVE  /\ ControllerInv'
         /\ ad'.clean => ad.clean
         /\ ad'.clean /\ mode = "FOLLOWING" => task' # "none"
         /\ task' \in {"none", "toIdle"}
<1> USE DEF ControllerInv, ControllerTypeOK, MuxTypeOK
<1>1. a \in Adapter /\ Sound(a)
  BY InvFacts DEF Calmed, Kept
<1>2. /\ Calmed(a, ad') /\ ~ad'.following /\ AtRest(ad')
      /\ task' \in {"none", "toIdle"}
      /\ task' = "toIdle" => mode \in HoldsFrom
      /\ ad'.clean /\ a.session /\ mode \in HoldsFrom => task' = "toIdle"
      /\ manual' = "off"
  BY <1>1, HoldFromFacts
<1>3. /\ ad' \in Adapter /\ Sound(ad') /\ (ad'.clean => ad.clean)
      /\ ad'.session = ad.session /\ ad'.dropped = ad.dropped /\ (ad'.moving => ad.moving)
      /\ a.session = ad.session
  BY <1>1, <1>2 DEF Calmed, Kept
<1>4. ControllerTypeOK' /\ FollowCounts' /\ SettlesLegally'
  BY <1>2, <1>3 DEF FollowCounts, SettlesLegally, Awaits, HoldsFrom
<1>5. SessionInv' /\ ErrorMeansLost' /\ AcquiringSleeps'
  BY <1>2, <1>3 DEF SessionInv, ErrorMeansLost, AcquiringSleeps, Connected, HoldsFrom
<1>6. HandoverInv'
  BY <1>2, <1>3 DEF HandoverInv, OwnerMoves, NoFollowBeside, AtRest
<1>7. mode = "FOLLOWING" => ad.session
  BY DEF SessionInv
<1>8. QED
  BY <1>2, <1>3, <1>4, <1>5, <1>6, <1>7 DEF HoldsFrom

LEMMA StartManualInv ==
  ASSUME ControllerInv, StartManual
  PROVE  ControllerInv'
<1> USE DEF ControllerInv, ControllerTypeOK, MuxTypeOK
<1>1. PICK o \in BeginTransition(ad, mode, "MANUAL", TRUE) :
        ad' = o.ad /\ task' = IF o.ok THEN "toManual" ELSE "none"
  BY DEF StartManual
<1>2. task = "none" /\ UNCHANGED <<owner, mode, estop, lost, manual, scanning>>
  BY DEF StartManual
<1>3. /\ o.ok \in BOOLEAN /\ Calmed(ad, ad')
      /\ o.ok => mode \in {"IDLE", "MANUAL", "FOLLOWING"}
      /\ o.ok => ~ad'.following /\ AtRest(ad')
  <2>1. /\ o.ok => mode = "MANUAL" \/ "MANUAL" \in Allowed(mode)
        /\ o.ok \in BOOLEAN /\ Calmed(ad, ad')
        /\ o.ok => ~ad'.following /\ AtRest(ad')
    BY <1>1, InvFacts, TransitionCalms
  <2>2. "MANUAL" \in Allowed(mode) => mode \in {"IDLE", "FOLLOWING"}
    BY DEF Allowed
  <2>3. QED
    BY <2>1, <2>2
<1>4. /\ ad' \in Adapter /\ Sound(ad') /\ (ad'.clean => ad.clean)
      /\ ad'.session = ad.session /\ ad'.dropped = ad.dropped /\ (ad'.moving => ad.moving)
  BY <1>3, InvFacts DEF Calmed, Kept
<1>5. ControllerTypeOK' /\ FollowCounts' /\ SettlesLegally'
  BY <1>1, <1>2, <1>3, <1>4 DEF FollowCounts, SettlesLegally, Awaits
<1>6. SessionInv' /\ ErrorMeansLost' /\ AcquiringSleeps'
  BY <1>1, <1>2, <1>3, <1>4 DEF SessionInv, ErrorMeansLost, AcquiringSleeps, Connected
<1>7. HandoverInv'
  BY <1>1, <1>2, <1>3, <1>4 DEF HandoverInv, OwnerMoves, NoFollowBeside, AtRest
<1>8. QED
  BY <1>5, <1>6, <1>7

LEMMA EmergencyStopInv ==
  ASSUME ControllerInv, EmergencyStop, task = "none"
  PROVE  ControllerInv' /\ (ad'.moving => ad.moving)
<1> USE DEF ControllerInv, ControllerTypeOK, MuxTypeOK
<1>1. Calmed(ad, ad') /\ ~ad'.following /\ AtRest(ad')
  BY InvFacts, QuietenCalms DEF EmergencyStop
<1>2. /\ ad' \in Adapter /\ Sound(ad') /\ ad'.session = ad.session /\ (ad'.moving => ad.moving)
  BY <1>1, InvFacts DEF Calmed, Kept
<1>3. /\ owner' = "ESTOP" /\ mode' = "ESTOP" /\ manual' = "off" /\ estop' = TRUE
      /\ UNCHANGED <<lost, task, scanning>>
  BY DEF EmergencyStop
<1>4. ControllerTypeOK' /\ FollowCounts' /\ SettlesLegally'
  BY <1>2, <1>3 DEF FollowCounts, SettlesLegally, Owners, Modes
<1>5. SessionInv' /\ ErrorMeansLost' /\ AcquiringSleeps' /\ HandoverInv'
  BY <1>1, <1>2, <1>3 DEF SessionInv, ErrorMeansLost, AcquiringSleeps, HandoverInv, OwnerMoves,
                         NoFollowBeside, AtRest
<1>6. QED
  BY <1>2, <1>4, <1>5

LEMMA ShutdownInv ==
  ASSUME ControllerInv, NEW a, Calmed(ad, a), ShutdownFrom(a)
  PROVE  ControllerInv' /\ (ad'.moving => ad.moving \/ ad.late)
<1> USE DEF ControllerInv, ControllerTypeOK, MuxTypeOK
<1>1. PICK b \in Quieten(a) : ad' \in Disconnect(b)
  BY DEF ShutdownFrom
<1>2. a \in Adapter /\ Sound(a)
  BY InvFacts DEF Calmed, Kept
<1>3. b \in Adapter /\ Sound(b) /\ (b.moving => ad.moving) /\ (b.late => ad.late)
  BY <1>2, QuietenCalms DEF Calmed, Kept
<1>4. /\ ad' \in Adapter /\ ~ad'.session /\ ~ad'.following
      /\ ad'.moving => b.moving \/ b.late
      /\ Sound(ad') /\ AtRest(ad')
  BY <1>1, <1>3, DisconnectFacts
<1>5. /\ task = "none" /\ manual' = "off" /\ mode' = "DISCONNECTED" /\ owner' = "NONE"
      /\ UNCHANGED <<estop, lost, task, scanning>>
  BY DEF ShutdownFrom, EndTransition
<1>6. ControllerTypeOK' /\ FollowCounts' /\ SettlesLegally'
  BY <1>4, <1>5 DEF FollowCounts, SettlesLegally, Owners, Modes
<1>7. SessionInv' /\ ErrorMeansLost' /\ AcquiringSleeps' /\ HandoverInv'
  BY <1>4, <1>5 DEF SessionInv, ErrorMeansLost, AcquiringSleeps, HandoverInv, OwnerMoves,
                    NoFollowBeside, AtRest
<1>8. QED
  BY <1>3, <1>4, <1>6, <1>7

(* A zero that a terminal publishes as a velocity leaves a robot at rest   *)
(* at rest.                                                                *)
LEMMA ManualZeroCalms ==
  ASSUME NEW a \in Adapter, NEW m, NEW p \in ManualVelocity(a, m, "zero")
  PROVE  Calmed(a, p.ad)
<1>1. CASE p = Outcome(FALSE, a)
  BY <1>1, CalmReflexive DEF Outcome
<1>2. CASE p \in PublishVelocity(a, "zero")
  BY <1>2, VelocityKeeps DEF Commands, Calmed
<1>3. QED
  BY <1>1, <1>2 DEF ManualVelocity, Publish

-----------------------------------------------------------------------------
(* What a command does when it wakes, step by step.                        *)

LEMMA AcquireSettledInv == ControllerInv /\ AcquireSettled => ControllerInv'
BY DEF ControllerInv, ControllerTypeOK, MuxTypeOK, FollowCounts, SettlesLegally, SessionInv,
       ErrorMeansLost, AcquiringSleeps, HandoverInv, OwnerMoves, NoFollowBeside,
       AcquireSettled, EndTransition, Awaits, Modes, Owners, Connected

LEMMA LookAgainInv ==
  ASSUME ControllerInv, LookAgain
  PROVE  ControllerInv' /\ (ad'.clean => ad.clean)
<1> USE DEF ControllerInv, ControllerTypeOK, MuxTypeOK
<1>1. PICK z \in PublishZero(ad) : ad' = z.ad
  BY DEF LookAgain, ForceZero
<1>2. Calmed(ad, ad') /\ ad'.following = ad.following
  BY <1>1, InvFacts, ZeroCalms
<1>3. /\ ad' \in Adapter /\ Sound(ad') /\ (ad'.clean => ad.clean) /\ ad'.following = ad.following
      /\ ad'.session = ad.session /\ ad'.dropped = ad.dropped /\ (ad'.moving => ad.moving)
  BY <1>2, InvFacts DEF Calmed, Kept
<1>4. QED
  BY <1>3 DEF LookAgain, FollowCounts, SettlesLegally, SessionInv, ErrorMeansLost,
              AcquiringSleeps, HandoverInv, OwnerMoves, NoFollowBeside, Connected

(* Giving up, from the adapter as it is or after one more zero.            *)
LEMMA GiveUpInv ==
  ASSUME ControllerInv, task = "looking", NEW a, Calmed(ad, a), a.following => ad.following,
         GiveUpFrom(a), UNCHANGED <<owner, mode, estop, lost>>
  PROVE  ControllerInv' /\ (ad'.clean => ad.clean) /\ task' \in {"none", "toIdle"}
<1> USE DEF ControllerInv, ControllerTypeOK, MuxTypeOK
<1>1. a \in Adapter /\ Sound(a) /\ mode \in {"ACQUIRING_TARGET", "ERROR"} /\ ad.session
  BY InvFacts DEF Calmed, Kept, SettlesLegally, SessionInv
<1>2. /\ Calmed(a, ad') /\ (ad'.following => a.following) /\ AtRest(ad')
      /\ task' \in {"none", "toIdle"}
      /\ ad'.clean /\ a.session => task' = "toIdle"
      /\ manual' \in {"off", "running", "expired"}
      /\ scanning' \in BOOLEAN
  BY <1>1, GiveUpFromFacts
<1>3. /\ ad' \in Adapter /\ Sound(ad') /\ (ad'.clean => ad.clean)
      /\ ad'.session = ad.session /\ ad'.dropped = ad.dropped /\ a.session = ad.session
      /\ ad'.following => ad.following
  BY <1>1, <1>2 DEF Calmed, Kept
<1>4. ControllerTypeOK' /\ FollowCounts' /\ SettlesLegally'
  BY <1>1, <1>2, <1>3 DEF FollowCounts, SettlesLegally, Awaits
<1>5. SessionInv' /\ ErrorMeansLost' /\ AcquiringSleeps'
  BY <1>1, <1>2, <1>3 DEF SessionInv, ErrorMeansLost, AcquiringSleeps, Connected
<1>6. HandoverInv'
  BY <1>1, <1>2, <1>3 DEF HandoverInv, OwnerMoves, NoFollowBeside, AtRest
<1>7. QED
  BY <1>2, <1>3, <1>4, <1>5, <1>6

LEMMA FollowFailsInv ==
  ASSUME ControllerInv, FollowFails
  PROVE  ControllerInv' /\ (ad'.clean => ad.clean) /\ task' \in {"none", "toIdle"}
<1>1. PICK s \in {ad} \union StopFollow(ad) : \E z \in PublishZero(s) : GiveUpFrom(z.ad)
  BY DEF FollowFails, ForceZero
<1>2. s \in Adapter /\ Calmed(ad, s) /\ (s.following => ad.following)
  BY InvFacts, StopFollowCalms, CalmReflexive DEF Calmed, Kept
<1>3. PICK z \in PublishZero(s) : GiveUpFrom(z.ad)
  BY <1>1
<1>4. Calmed(ad, z.ad) /\ z.ad.following = s.following
  BY <1>2, ZeroCalms, CalmTransitive
<1>5. QED
  BY <1>2, <1>3, <1>4, GiveUpInv DEF FollowFails

LEMMA FollowStartsInv ==
  ASSUME ControllerInv, FollowStarts
  PROVE  ControllerInv' /\ (ad'.clean => ad.clean) /\ task' \in {"none", "toFollow"}
<1> USE DEF ControllerInv, ControllerTypeOK, MuxTypeOK
<1>1. PICK a \in StartFollow(ad) : \E o \in BeginTransition(a, mode, "FOLLOWING", FALSE) :
        \/ o.ok /\ ad' = o.ad /\ task' = "toFollow"
        \/ ~o.ok /\ ad' \in {z.ad : z \in UNION {ForceZero(s) : s \in StopFollow(o.ad)}} /\ task' = "none"
  BY DEF FollowStarts
<1>2. PICK o \in BeginTransition(a, mode, "FOLLOWING", FALSE) :
        \/ o.ok /\ ad' = o.ad /\ task' = "toFollow"
        \/ ~o.ok /\ ad' \in {z.ad : z \in UNION {ForceZero(s) : s \in StopFollow(o.ad)}} /\ task' = "none"
  BY <1>1
<1>3. /\ task = "looking" /\ mode = "ACQUIRING_TARGET" /\ ad.session /\ lost' = 0
      /\ UNCHANGED <<owner, mode, estop, manual, scanning>>
  BY DEF FollowStarts, Connected
<1>4. a \in Adapter /\ Sound(a) /\ Calmed(ad, a) /\ a.session
  BY <1>3, InvFacts, StartFollowCalms DEF Calmed, Kept
<1>5. /\ Calmed(a, o.ad)
      /\ o.ok => AtRest(o.ad)
      /\ o.ad.clean => o.ok
  <2>1. "FOLLOWING" \in Allowed(mode)
    BY <1>3 DEF Allowed
  <2>2. QED
    BY <1>4, <2>1, TransitionCalms
<1>6. Calmed(o.ad, ad') /\ (o.ok => ad' = o.ad /\ task' = "toFollow") /\ (~o.ok => task' = "none")
  <2>1. CASE o.ok
    BY <1>2, <1>5, <2>1, CalmReflexive DEF Calmed, Kept
  <2>2. CASE ~o.ok
    <3>1. PICK s \in StopFollow(o.ad) : ad' \in {z.ad : z \in PublishZero(s)}
      BY <1>2, <2>2 DEF ForceZero
    <3>2. o.ad \in Adapter /\ Calmed(o.ad, s) /\ s \in Adapter
      BY <1>5, StopFollowCalms DEF Calmed, Kept
    <3>3. QED
      BY <1>2, <2>2, <3>1, <3>2, ZeroCalms, CalmTransitive
  <2>3. QED
    BY <2>1, <2>2
<1>7. /\ ad' \in Adapter /\ Sound(ad') /\ (ad'.clean => ad.clean)
      /\ ad'.session = ad.session /\ ad'.dropped = ad.dropped
      /\ ad'.clean => task' = "toFollow" /\ ~ad'.moving
  BY <1>4, <1>5, <1>6 DEF Calmed, Kept, AtRest
<1>8. task' \in {"none", "toFollow"} /\ lost' \in 0..(MaxLost + 1)
  BY <1>2, <1>3
<1>9. ControllerTypeOK' /\ FollowCounts' /\ SettlesLegally'
  BY <1>3, <1>7, <1>8 DEF FollowCounts, SettlesLegally, Awaits
<1>10. SessionInv' /\ ErrorMeansLost' /\ AcquiringSleeps'
  BY <1>3, <1>7, <1>8 DEF SessionInv, ErrorMeansLost, AcquiringSleeps, Connected
<1>11. HandoverInv'
  BY <1>3, <1>7, <1>8 DEF HandoverInv, OwnerMoves, NoFollowBeside
<1>12. QED
  BY <1>7, <1>8, <1>9, <1>10, <1>11

LEMMA FollowSettledInv == ControllerInv /\ FollowSettled => ControllerInv'
BY DEF ControllerInv, ControllerTypeOK, MuxTypeOK, FollowCounts, SettlesLegally, SessionInv,
       ErrorMeansLost, AcquiringSleeps, HandoverInv, OwnerMoves, NoFollowBeside,
       FollowSettled, EndTransition, Awaits, Modes, Owners, Connected

LEMMA IdleSettledInv ==
  ASSUME ControllerInv, IdleSettled
  PROVE  ControllerInv' /\ (ad'.clean => ad.clean) /\ task' = "none"
<1> USE DEF ControllerInv, ControllerTypeOK, MuxTypeOK
<1>1. task = "toIdle" /\ mode' = "IDLE" /\ owner' = "NONE" /\ UNCHANGED <<estop, lost>>
  BY DEF IdleSettled, EndTransition
<1>2. AtRest(ad) /\ ad.session
  BY <1>1, InvFacts DEF OwnerMoves, AtRest, SessionInv
<1>3. /\ Calmed(ad, ad') /\ (ad'.following => ad.following) /\ AtRest(ad')
      /\ task' \in {"none", "toIdle"} /\ task' # "toIdle"
      /\ manual' \in {"off", "running", "expired"}
      /\ scanning' = FALSE
  <2>1. FollowReturns(ad, "IDLE") /\ "IDLE" \notin HoldsFrom
    BY DEF IdleSettled, HoldsFrom
  <2>2. ad \in Adapter /\ Sound(ad)
    BY InvFacts
  <2>3. QED
    BY <1>2, <2>1, <2>2, FollowReturnsFacts
<1>4. /\ ad' \in Adapter /\ Sound(ad') /\ (ad'.clean => ad.clean) /\ ad'.session
  BY <1>2, <1>3, InvFacts DEF Calmed, Kept
<1>5. QED
  BY <1>1, <1>3, <1>4 DEF FollowCounts, SettlesLegally, SessionInv, ErrorMeansLost,
     AcquiringSleeps, HandoverInv, OwnerMoves, NoFollowBeside, AtRest, Awaits, Modes, Owners

LEMMA ManualSettledInv == ControllerInv /\ ManualSettled => ControllerInv'
BY DEF ControllerInv, ControllerTypeOK, MuxTypeOK, FollowCounts, SettlesLegally, SessionInv,
       ErrorMeansLost, AcquiringSleeps, HandoverInv, OwnerMoves, NoFollowBeside,
       ManualSettled, EndTransition, Awaits, Modes, Owners, Connected

LEMMA WakeInv ==
  ASSUME ControllerInv, Wake
  PROVE  ControllerInv' /\ (ad'.clean => ad.clean)
<1>1. CASE GiveUp
  BY <1>1, InvFacts, CalmReflexive, GiveUpInv DEF GiveUp
<1>2. CASE FollowFails
  BY <1>2, FollowFailsInv
<1>3. CASE AcquireSettled \/ FollowSettled \/ ManualSettled
  <2>1. ad' = ad
    BY <1>3 DEF AcquireSettled, FollowSettled, ManualSettled
  <2>2. QED
    BY <1>3, <2>1, AcquireSettledInv, FollowSettledInv, ManualSettledInv
<1>4. QED
  BY <1>1, <1>2, <1>3, LookAgainInv, FollowStartsInv, IdleSettledInv DEF Wake

-----------------------------------------------------------------------------
(* The watchdog tick, and what runs beside the controller.                 *)

LEMMA EndFollowFacts ==
  ASSUME NEW a \in Adapter, Sound(a), EndFollow(a)
  PROVE  Calmed(a, ad') /\ ~ad'.following /\ AtRest(ad') /\ mode' = "IDLE" /\ owner' = "NONE"
<1>1. PICK z \in PublishZero(a) : ad' \in StopFollow(z.ad)
  BY DEF EndFollow, ForceZero
<1>2. z.ad \in Adapter /\ Calmed(a, z.ad) /\ Sound(z.ad)
  BY ZeroCalms DEF Calmed, Kept
<1>3. QED
  BY <1>1, <1>2, StopFollowCalms, CalmTransitive DEF EndFollow

LEMMA TickConnectionLostInv ==
  ASSUME ControllerInv, TickConnectionLost
  PROVE  ControllerInv' /\ (ad'.clean => ad.clean)
<1> USE DEF ControllerInv, ControllerTypeOK, MuxTypeOK
<1>1. PICK z \in PublishZero(ad) : ad' = z.ad
  BY DEF TickConnectionLost, ForceZero
<1>2. /\ ~Connected(ad) /\ mode \notin {"DISCONNECTED", "ERROR", "ESTOP"} /\ mode' = "ERROR"
      /\ UNCHANGED <<owner, estop, lost, manual, task, scanning>>
  BY DEF TickConnectionLost, LostConnection
<1>3. Calmed(ad, ad') /\ AtRest(ad') /\ ad'.following = ad.following
  BY <1>1, InvFacts, ZeroCalms
<1>4. /\ ad' \in Adapter /\ Sound(ad') /\ (ad'.clean => ad.clean)
      /\ ad'.session = ad.session /\ ad'.dropped = ad.dropped
  BY <1>3, InvFacts DEF Calmed, Kept
<1>5. QED
  BY <1>2, <1>3, <1>4 DEF FollowCounts, SettlesLegally, SessionInv, ErrorMeansLost,
     AcquiringSleeps, HandoverInv, OwnerMoves, NoFollowBeside, AtRest, Connected, Modes

LEMMA TickManualInv ==
  ASSUME ControllerInv, TickManual
  PROVE  ControllerInv' /\ (ad'.clean => ad.clean)
<1> USE DEF ControllerInv, ControllerTypeOK, MuxTypeOK
<1>1. PICK z \in ZeroBy(ad, "MANUAL") : ad' = z.ad
  BY DEF TickManual
<1>2. /\ mode = "MANUAL" /\ manual' = "off"
      /\ UNCHANGED <<owner, mode, estop, lost, task, scanning>>
  BY DEF TickManual
<1>3. Calmed(ad, ad') /\ ad'.following = ad.following
  BY <1>1, InvFacts, ZeroCalms, CalmReflexive DEF ZeroBy, Outcome
<1>4. /\ ad' \in Adapter /\ Sound(ad') /\ (ad'.clean => ad.clean) /\ (ad'.moving => ad.moving)
      /\ ad'.session = ad.session /\ ad'.dropped = ad.dropped
  BY <1>3, InvFacts DEF Calmed, Kept
<1>5. QED
  BY <1>2, <1>3, <1>4 DEF FollowCounts, SettlesLegally, SessionInv, ErrorMeansLost,
     AcquiringSleeps, HandoverInv, OwnerMoves, NoFollowBeside, Connected

(* Both ends of a follow by the tick.                                      *)
LEMMA EndFollowInv ==
  ASSUME ControllerInv, mode = "FOLLOWING", NEW a, Calmed(ad, a), EndFollow(a),
         lost' \in 0..(MaxLost + 1), task # "toFollow", UNCHANGED <<estop, manual, task, scanning>>
  PROVE  ControllerInv' /\ (ad'.clean => ad.clean)
<1> USE DEF ControllerInv, ControllerTypeOK, MuxTypeOK
<1>1. a \in Adapter /\ Sound(a) /\ a.session = ad.session /\ a.dropped = ad.dropped
      /\ (a.clean => ad.clean)
  BY InvFacts DEF Calmed, Kept
<1>2. Calmed(a, ad') /\ ~ad'.following /\ AtRest(ad') /\ mode' = "IDLE" /\ owner' = "NONE"
  BY <1>1, EndFollowFacts
<1>3. /\ ad' \in Adapter /\ Sound(ad') /\ (ad'.clean => ad.clean)
      /\ ad'.session = ad.session /\ ad'.dropped = ad.dropped
  BY <1>1, <1>2 DEF Calmed, Kept
<1>4. QED
  BY <1>2, <1>3 DEF FollowCounts, SettlesLegally, SessionInv, ErrorMeansLost,
     AcquiringSleeps, HandoverInv, OwnerMoves, NoFollowBeside, AtRest, Modes, Owners

LEMMA TickTargetLostInv ==
  ASSUME ControllerInv, TickTargetLost
  PROVE  ControllerInv' /\ (ad'.clean => ad.clean)
<1> USE DEF ControllerInv, ControllerTypeOK, MuxTypeOK
<1>1. PICK z \in ZeroBy(ad, "FOLLOW") :
        IF lost' > MaxLost THEN EndFollow(z.ad) ELSE ad' = z.ad /\ UNCHANGED <<mode, owner>>
  BY DEF TickTargetLost
<1>2. Calmed(ad, z.ad) /\ z.ad.following = ad.following
  BY InvFacts, ZeroCalms, CalmReflexive DEF ZeroBy, Outcome
<1>3. /\ lost' = lost + 1 /\ lost <= MaxLost /\ mode = "FOLLOWING" /\ task # "toFollow"
      /\ UNCHANGED <<estop, manual, task, scanning>>
  BY DEF TickTargetLost, FollowCounts, SettlesLegally
<1>4. CASE lost' > MaxLost
  BY <1>1, <1>2, <1>3, <1>4, EndFollowInv
<1>5. CASE ~(lost' > MaxLost)
  <2>1. /\ ad' \in Adapter /\ Sound(ad') /\ (ad'.clean => ad.clean) /\ (ad'.moving => ad.moving)
        /\ ad'.session = ad.session /\ ad'.dropped = ad.dropped /\ ad'.following = ad.following
    BY <1>1, <1>2, <1>5, InvFacts DEF Calmed, Kept
  <2>2. QED
    BY <1>1, <1>3, <1>5, <2>1 DEF FollowCounts, SettlesLegally, SessionInv, ErrorMeansLost,
       AcquiringSleeps, HandoverInv, OwnerMoves, NoFollowBeside
<1>6. QED
  BY <1>4, <1>5

(* The tick that sends the follow's velocity: a target in view means that  *)
(* the follow is on, so no command sleeps.                                 *)
LEMMA TickFollowInv ==
  ASSUME ControllerInv, TickFollow
  PROVE  ControllerInv' /\ (ad'.clean => ad.clean)
<1> USE DEF ControllerInv, ControllerTypeOK, MuxTypeOK
<1>1. /\ mode = "FOLLOWING" /\ ad.visible /\ lost' = 0
      /\ UNCHANGED <<owner, mode, estop, manual, task, scanning>>
  BY DEF TickFollow
<1>2. ad.clean => task = "none"
  <2>1. ad.clean => ad.following
    BY <1>1, InvFacts DEF Sound
  <2>2. task # "toFollow"
    BY <1>1 DEF SettlesLegally
  <2>3. QED
    BY <2>1, <2>2, InvFacts DEF NoFollowBeside, Awaits
<1>3. Kept(ad, ad') /\ ad'.following = ad.following /\ (ad'.moving => ad.moving \/ owner = "FOLLOW")
  <2>1. CASE scanning \/ ad.cmd = "none"
    BY <1>1, <2>1, InvFacts, CalmReflexive DEF TickFollow, Calmed
  <2>2. CASE ~(scanning \/ ad.cmd = "none")
    <3> DEFINE taken == [ad EXCEPT !.cmd = "none"]
    <3>1. ad.cmd \in Commands /\ Calmed(ad, taken) /\ taken \in Adapter /\ taken.following = ad.following
      BY InvFacts DEF Adapter, Commands, Calmed, Kept, Sound
    <3>2. PICK p \in Publish(taken, "FOLLOW", ad.cmd) : ad' = p.ad
      BY <2>2 DEF TickFollow
    <3> HIDE DEF taken
    <3>3. CASE owner = "FOLLOW"
      <4>1. Kept(taken, ad') /\ ad'.following = taken.following
        BY <3>1, <3>2, <3>3, VelocityKeeps DEF Publish
      <4>2. QED
        BY <3>1, <3>3, <4>1, KeptTransitive DEF Calmed
    <3>4. CASE owner # "FOLLOW"
      BY <3>1, <3>2, <3>4 DEF Publish, Outcome, Calmed
    <3>5. QED
      BY <3>3, <3>4
  <2>3. QED
    BY <2>1, <2>2
<1>4. /\ ad' \in Adapter /\ Sound(ad') /\ (ad'.clean => ad.clean)
      /\ ad'.session = ad.session /\ ad'.dropped = ad.dropped
  BY <1>3, InvFacts DEF Kept
<1>5. lost' \in 0..(MaxLost + 1)
  BY <1>1
<1>6. QED
  BY <1>1, <1>2, <1>3, <1>4, <1>5 DEF FollowCounts, SettlesLegally, SessionInv, ErrorMeansLost,
     AcquiringSleeps, HandoverInv, OwnerMoves, NoFollowBeside

LEMMA TickInv ==
  ASSUME ControllerInv, Tick
  PROVE  ControllerInv' /\ (ad'.clean => ad.clean)
<1>1. CASE TickCameraStale
  <2>1. task # "toFollow" /\ lost \in 0..(MaxLost + 1) /\ Calmed(ad, ad)
    BY <1>1, InvFacts, CalmReflexive DEF TickCameraStale, ControllerInv, ControllerTypeOK, SettlesLegally
  <2>2. QED
    BY <1>1, <2>1, EndFollowInv DEF TickCameraStale
<1>2. QED
  BY <1>1, TickConnectionLostInv, TickManualInv, TickTargetLostInv, TickFollowInv DEF Tick

Outside ==
  \/ \E t \in Threads : FollowThread(t)
  \/ LateMoveArrives
  \/ ConnectionDrops

(* They leave a robot at rest at rest, but for a late Move.                *)
LEMMA OutsideInv ==
  ASSUME ControllerInv, Outside
  PROVE  ControllerInv' /\ (ad'.clean => ad.clean) /\ (ad'.moving => ad.moving \/ ad.late)
<1> USE DEF ControllerInv, ControllerTypeOK, MuxTypeOK
<1>1. UNCHANGED <<owner, mode, estop, lost, manual, task, scanning>>
  BY DEF Outside, FollowThread, LateMoveArrives, ConnectionDrops
<1>2. /\ ad' \in Adapter /\ Sound(ad') /\ (ad'.clean => ad.clean)
      /\ ad'.session = ad.session /\ (Connected(ad') => Connected(ad))
      /\ ad'.following => ad.following
      /\ ad'.moving => ad.moving \/ ad.late
      /\ ad.clean => ~ad.late
  <2>1. ad.clean => ~ad.late
    BY InvFacts DEF Sound
  <2>2. ASSUME NEW t \in Threads, FollowThread(t)
        PROVE  Calmed(ad, ad') /\ (ad'.following => ad.following)
    BY <2>2, InvFacts, ThreadCheckCalms, ThreadLookCalms DEF FollowThread
  <2>3. CASE \E t \in Threads : FollowThread(t)
    BY <2>1, <2>2, <2>3, InvFacts DEF Calmed, Kept, Connected
  <2>4. CASE LateMoveArrives
    BY <2>1, <2>4, InvFacts, LateMoveKeeps DEF LateMoveArrives, Kept, Connected
  <2>5. CASE ConnectionDrops
    BY <2>1, <2>5, InvFacts DEF ConnectionDrops, Adapter, Sound, Connected
  <2>6. QED
    BY <2>3, <2>4, <2>5 DEF Outside
<1>3. QED
  BY <1>1, <1>2 DEF FollowCounts, SettlesLegally, SessionInv, ErrorMeansLost,
     AcquiringSleeps, HandoverInv, OwnerMoves, NoFollowBeside

-----------------------------------------------------------------------------
(* What a command leaves behind, whatever fails in it: detect_only and the *)
(* follow are on only while a command sleeps that needs them, and in       *)
(* ACQUIRING_TARGET nobody owns the velocity. Unlike HandoverInv this does *)
(* not ask for an adapter without faults.                                  *)
LeftInv ==
  /\ scanning => task \in {"toAcquire", "looking", "toIdle"}
  /\ NoFollowBeside
  /\ mode = "ACQUIRING_TARGET" => owner = "NONE" /\ (ad.following => task = "toFollow")

LEMMA LeftStarts == ControllerInit => LeftInv
BY DEF ControllerInit, LeftInv, NoFollowBeside

LEMMA StartFollowFromLeaves ==
  ASSUME ControllerInv, LeftInv, NEW scan \in BOOLEAN, StartFollowFrom(ad, scan)
  PROVE  LeftInv'
<1> USE DEF LeftInv, NoFollowBeside
<1>1. PICK o \in BeginTransition(ad, mode, "ACQUIRING_TARGET", TRUE) :
        \/ o.ok /\ ad' = o.ad /\ task' = "toAcquire"
        \/ /\ ~o.ok
           /\ IF scan THEN HoldFrom(o.ad, mode) ELSE ad' = o.ad /\ UNCHANGED <<task, manual>>
           /\ UNCHANGED scanning
  BY DEF StartFollowFrom
<1>2. task = "none" /\ ~scanning /\ UNCHANGED <<owner, mode>>
  BY DEF StartFollowFrom
<1>3. /\ Calmed(ad, o.ad) /\ (o.ad.following => ad.following)
      /\ o.ok => ~o.ad.following
  BY InvFacts, TransitionCalms
<1>4. o.ad \in Adapter /\ Sound(o.ad)
  BY <1>3, InvFacts DEF Calmed, Kept
<1>5. CASE o.ok
  BY <1>1, <1>2, <1>3, <1>5
<1>6. CASE ~o.ok /\ scan
  <2>1. ~ad'.following /\ task' \in {"none", "toIdle"}
    BY <1>1, <1>4, <1>6, HoldFromFacts
  <2>2. scanning' = scanning
    BY <1>1, <1>6
  <2>3. QED
    BY <1>2, <2>1, <2>2
<1>7. CASE ~o.ok /\ ~scan
  BY <1>1, <1>2, <1>3, <1>7
<1>8. QED
  BY <1>5, <1>6, <1>7

LEMMA HoldLeaves ==
  ASSUME ControllerInv, LeftInv, Hold
  PROVE  LeftInv'
<1>1. HoldFrom(ad, mode) /\ task = "none" /\ UNCHANGED <<owner, mode, scanning>>
  BY DEF Hold
<1>2. ~ad'.following /\ task' \in {"none", "toIdle"}
  BY <1>1, InvFacts, HoldFromFacts
<1>3. QED
  BY <1>1, <1>2 DEF LeftInv, NoFollowBeside

LEMMA WakeLeaves ==
  ASSUME ControllerInv, LeftInv, Wake
  PROVE  LeftInv'
<1> USE DEF LeftInv, NoFollowBeside
<1>1. CASE AcquireSettled \/ FollowSettled \/ ManualSettled
  BY <1>1 DEF AcquireSettled, FollowSettled, ManualSettled, EndTransition
<1>2. CASE LookAgain
  <2>1. PICK z \in PublishZero(ad) : ad' = z.ad
    BY <1>2 DEF LookAgain, ForceZero
  <2>2. ad'.following = ad.following
    BY <2>1, InvFacts, ZeroCalms
  <2>3. QED
    BY <1>2, <2>2 DEF LookAgain
<1>3. ASSUME task = "looking", NEW a \in Adapter, Sound(a), a.following => ad.following,
             GiveUpFrom(a), UNCHANGED <<owner, mode>>
      PROVE  LeftInv'
  <2>1. mode \in {"ACQUIRING_TARGET", "ERROR"}
    BY <1>3 DEF ControllerInv, SettlesLegally
  <2>2. ~ad'.following /\ (scanning' => task' = "toIdle")
    BY <1>3, <2>1, GiveUpFromFacts
  <2>3. QED
    BY <1>3, <2>2
<1>4. CASE GiveUp
  BY <1>3, <1>4, InvFacts DEF GiveUp
<1>5. CASE FollowFails
  <2>1. PICK s \in {ad} \union StopFollow(ad) : \E z \in PublishZero(s) : GiveUpFrom(z.ad)
    BY <1>5 DEF FollowFails, ForceZero
  <2>2. s \in Adapter /\ Sound(s) /\ (s.following => ad.following)
    BY InvFacts, StopFollowCalms DEF Calmed, Kept
  <2>3. PICK z \in PublishZero(s) : GiveUpFrom(z.ad)
    BY <2>1
  <2>4. z.ad \in Adapter /\ Sound(z.ad) /\ (z.ad.following => ad.following)
    BY <2>2, ZeroCalms DEF Calmed, Kept
  <2>5. QED
    BY <1>3, <1>5, <2>3, <2>4 DEF FollowFails
<1>6. CASE FollowStarts
  <2>1. PICK a \in StartFollow(ad) : \E o \in BeginTransition(a, mode, "FOLLOWING", FALSE) :
          \/ o.ok /\ ad' = o.ad /\ task' = "toFollow"
          \/ ~o.ok /\ ad' \in {z.ad : z \in UNION {ForceZero(s) : s \in StopFollow(o.ad)}} /\ task' = "none"
    BY <1>6 DEF FollowStarts
  <2>2. PICK o \in BeginTransition(a, mode, "FOLLOWING", FALSE) :
          \/ o.ok /\ ad' = o.ad /\ task' = "toFollow"
          \/ ~o.ok /\ ad' \in {z.ad : z \in UNION {ForceZero(s) : s \in StopFollow(o.ad)}} /\ task' = "none"
    BY <2>1
  <2>3. ~scanning /\ UNCHANGED <<owner, mode, scanning>>
    BY <1>6 DEF FollowStarts
  <2>4. a \in Adapter /\ o.ad \in Adapter
    BY InvFacts, StartFollowCalms, TransitionCalms DEF Calmed, Kept
  <2>5. task' = "toFollow" \/ (task' = "none" /\ ~ad'.following)
    <3>1. CASE ~o.ok
      <4>1. PICK s \in StopFollow(o.ad) : \E z \in PublishZero(s) : ad' = z.ad
        BY <2>2, <3>1 DEF ForceZero
      <4>2. s \in Adapter /\ ~s.following
        BY <2>4, StopFollowCalms DEF Calmed, Kept
      <4>3. QED
        BY <2>2, <3>1, <4>1, <4>2, ZeroCalms
    <3>2. QED
      BY <2>2, <3>1
  <2>6. QED
    BY <2>3, <2>5
<1>7. CASE IdleSettled
  <2>1. mode' = "IDLE" /\ task' = "none"
    BY <1>7, IdleSettledInv DEF IdleSettled, EndTransition
  <2>2. scanning' = FALSE
    <3>1. FollowReturns(ad, "IDLE") /\ AtRest(ad)
      BY <1>7, InvFacts DEF IdleSettled, OwnerMoves, AtRest
    <3>2. QED
      BY <3>1, InvFacts, FollowReturnsFacts
  <2>3. QED
    BY <2>1, <2>2
<1>8. QED
  BY <1>1, <1>2, <1>4, <1>5, <1>6, <1>7 DEF Wake

LEMMA TickLeaves ==
  ASSUME ControllerInv, LeftInv, Tick
  PROVE  LeftInv'
<1>1. UNCHANGED <<task, scanning>> /\ mode' # "ACQUIRING_TARGET"
  BY DEF Tick, TickConnectionLost, TickManual, TickCameraStale, TickTargetLost, TickFollow, EndFollow
<1>2. ad'.following => ad.following
  <2>1. CASE TickConnectionLost
    BY <2>1, InvFacts, ZeroCalms DEF TickConnectionLost, ForceZero
  <2>2. CASE TickManual
    BY <2>2, InvFacts, ZeroCalms DEF TickManual, ZeroBy, Outcome
  <2>3. CASE TickCameraStale
    BY <2>3, InvFacts, EndFollowFacts DEF TickCameraStale
  <2>4. CASE TickTargetLost
    <3>1. PICK z \in ZeroBy(ad, "FOLLOW") :
            IF lost' > MaxLost THEN EndFollow(z.ad) ELSE ad' = z.ad /\ UNCHANGED <<mode, owner>>
      BY <2>4 DEF TickTargetLost
    <3>2. z.ad \in Adapter /\ Sound(z.ad) /\ z.ad.following = ad.following
      BY InvFacts, ZeroCalms DEF ZeroBy, Outcome, Calmed, Kept
    <3>3. QED
      BY <3>1, <3>2, EndFollowFacts
  <2>5. CASE TickFollow
    <3>1. CASE scanning \/ ad.cmd = "none"
      BY <2>5, <3>1 DEF TickFollow
    <3>2. CASE ~(scanning \/ ad.cmd = "none")
      <4> DEFINE taken == [ad EXCEPT !.cmd = "none"]
      <4>1. ad.cmd \in Commands /\ taken \in Adapter /\ taken.following = ad.following
        BY InvFacts DEF Adapter, Commands
      <4>2. PICK p \in Publish(taken, "FOLLOW", ad.cmd) : ad' = p.ad
        BY <2>5, <3>2 DEF TickFollow
      <4> HIDE DEF taken
      <4>3. QED
        BY <4>1, <4>2, VelocityKeeps DEF Publish, Outcome
    <3>3. QED
      BY <3>1, <3>2
  <2>6. QED
    BY <2>1, <2>2, <2>3, <2>4, <2>5 DEF Tick
<1>3. QED
  BY <1>1, <1>2 DEF LeftInv, NoFollowBeside

LEMMA OutsideLeaves ==
  ASSUME ControllerInv, LeftInv, Outside
  PROVE  LeftInv'
<1>1. UNCHANGED <<owner, mode, task, scanning>>
  BY DEF Outside, FollowThread, LateMoveArrives, ConnectionDrops
<1>2. ad'.following => ad.following
  <2>1. ASSUME NEW t \in Threads, FollowThread(t)
        PROVE  ad'.following => ad.following
    BY <2>1, InvFacts, ThreadCheckCalms, ThreadLookCalms DEF FollowThread
  <2>2. CASE LateMoveArrives
    BY <2>2, InvFacts, LateMoveKeeps DEF LateMoveArrives
  <2>3. CASE ConnectionDrops
    BY <2>3, InvFacts DEF ConnectionDrops, Adapter
  <2>4. QED
    BY <2>1, <2>2, <2>3 DEF Outside
<1>3. QED
  BY <1>1, <1>2 DEF LeftInv, NoFollowBeside

-----------------------------------------------------------------------------
(* Every change of the mode by a tick or by a command that wakes is in the *)
(* table, but for a lost connection's ERROR that a settle overwrites.      *)
Legal ==
  mode' # mode /\ mode' # "DISCONNECTED" =>
    \/ mode' \in Allowed(mode)
    \/ mode = "ERROR" /\ mode' = "ESTOP"
    \/ /\ mode = "ERROR" /\ task \in DOMAIN SettlesInto
       /\ mode' = SettlesInto[task] /\ ~Connected(ad')

LEMMA TickLegal ==
  ASSUME ControllerInv, Tick
  PROVE  Legal
<1>1. mode \in Modes
  BY DEF ControllerInv, ControllerTypeOK
<1>2. CASE TickConnectionLost
  BY <1>1, <1>2 DEF TickConnectionLost, LostConnection, Legal, Allowed, Modes
<1>3. CASE TickCameraStale
  BY <1>3 DEF TickCameraStale, EndFollow, Legal, Allowed
<1>4. CASE TickTargetLost
  <2>1. mode = "FOLLOWING" /\ (mode' = "IDLE" \/ mode' = mode)
    BY <1>4 DEF TickTargetLost, EndFollow
  <2>2. QED
    BY <2>1 DEF Legal, Allowed
<1>5. CASE TickManual \/ TickFollow
  BY <1>5 DEF TickManual, TickFollow, Legal
<1>6. QED
  BY <1>2, <1>3, <1>4, <1>5 DEF Tick

(* The end of a settle, from the mode its transition has seen or from an   *)
(* ERROR that a tick has set since.                                        *)
LEMMA SettleLegal ==
  ASSUME ControllerInv, AcquireSettled \/ FollowSettled \/ IdleSettled \/ ManualSettled
  PROVE  /\ Legal
         /\ mode' # "DISCONNECTED"
<1> USE DEF ControllerInv, ControllerTypeOK, SettlesLegally
<1>1. task \in DOMAIN SettlesInto /\ mode' = SettlesInto[task] /\ mode' # "DISCONNECTED"
  BY DEF AcquireSettled, FollowSettled, IdleSettled, ManualSettled, EndTransition, SettlesInto
<1>2. CASE mode = "ERROR"
  <2>1. ~Connected(ad)
    BY <1>2 DEF ErrorMeansLost
  <2>2. Connected(ad') => Connected(ad)
    <3>1. CASE IdleSettled
      <4>1. Calmed(ad, ad')
        <5>1. "IDLE" \notin HoldsFrom /\ FollowReturns(ad, "IDLE") /\ AtRest(ad)
          BY <3>1, InvFacts DEF IdleSettled, HoldsFrom, OwnerMoves, AtRest
        <5>2. QED
          BY <5>1, InvFacts, FollowReturnsFacts
      <4>2. QED
        BY <4>1 DEF Calmed, Kept, Connected
    <3>2. CASE AcquireSettled \/ FollowSettled \/ ManualSettled
      BY <3>2 DEF AcquireSettled, FollowSettled, ManualSettled
    <3>3. QED
      BY <3>1, <3>2
  <2>3. QED
    BY <1>1, <1>2, <2>1, <2>2 DEF Legal
<1>3. CASE mode # "ERROR"
  <2>1. mode' = mode \/ mode' \in Allowed(mode)
    <3>1. mode \in Modes
      OBVIOUS
    <3>2. CASE AcquireSettled
      BY <1>3, <3>1, <3>2 DEF AcquireSettled, EndTransition, Allowed, Modes
    <3>3. CASE FollowSettled
      BY <1>3, <3>1, <3>3 DEF FollowSettled, EndTransition, Allowed, Modes
    <3>4. CASE IdleSettled
      BY <1>3, <3>1, <3>4 DEF IdleSettled, EndTransition, Allowed, Modes
    <3>5. CASE ManualSettled
      BY <1>3, <3>1, <3>5 DEF ManualSettled, EndTransition, Allowed, Modes
    <3>6. QED
      BY <3>2, <3>3, <3>4, <3>5
  <2>2. QED
    BY <1>1, <2>1 DEF Legal
<1>4. QED
  BY <1>2, <1>3

LEMMA WakeLegal ==
  ASSUME ControllerInv, Wake
  PROVE  Legal
<1>1. CASE LookAgain \/ GiveUp \/ FollowFails \/ FollowStarts
  BY <1>1 DEF LookAgain, GiveUp, FollowFails, FollowStarts, Legal
<1>2. QED
  BY <1>1, SettleLegal DEF Wake

(* Where a command that wakes can go: into FOLLOWING only from the settle  *)
(* of a follow, which no scan begins.                                      *)
LEMMA WakeMoves ==
  ASSUME ControllerInv, Wake
  PROVE  /\ mode' = "FOLLOWING" => task = "toFollow" /\ task' = "none"
         /\ mode' = "MANUAL" \/ task' = "toManual" => task = "toManual"
         /\ task' \in {"toAcquire", "looking"} => scanning' = scanning /\ task \in {"toAcquire", "looking"}
         /\ task' = "toFollow" => task = "looking" /\ ~scanning
<1> USE DEF ControllerInv, ControllerTypeOK, SettlesLegally
<1>1. CASE AcquireSettled
  BY <1>1 DEF AcquireSettled, EndTransition
<1>2. CASE FollowSettled
  BY <1>2 DEF FollowSettled, EndTransition
<1>3. CASE IdleSettled
  <2>1. task' = "none" /\ mode' = "IDLE"
    BY <1>3, IdleSettledInv DEF IdleSettled, EndTransition
  <2>2. QED
    BY <2>1
<1>4. CASE ManualSettled
  BY <1>4 DEF ManualSettled, EndTransition
<1>5. CASE LookAgain
  BY <1>5 DEF LookAgain
<1>6. CASE GiveUp \/ FollowFails
  <2>1. task = "looking" /\ mode' = mode
    BY <1>6 DEF GiveUp, FollowFails
  <2>2. task' \in {"none", "toIdle"}
    <3>1. CASE GiveUp
      BY <3>1, InvFacts, CalmReflexive, GiveUpInv DEF GiveUp
    <3>2. CASE FollowFails
      BY <3>2, FollowFailsInv
    <3>3. QED
      BY <1>6, <3>1, <3>2
  <2>3. QED
    BY <2>1, <2>2
<1>7. CASE FollowStarts
  <2>1. task = "looking" /\ ~scanning /\ mode' = mode /\ task' \in {"none", "toFollow"}
    BY <1>7, FollowStartsInv DEF FollowStarts
  <2>2. QED
    BY <2>1
<1>8. QED
  BY <1>1, <1>2, <1>3, <1>4, <1>5, <1>6, <1>7 DEF Wake

(* A tick leaves the command under way alone, and starts no follow.        *)
LEMMA TickMoves ==
  ASSUME Tick
  PROVE  /\ UNCHANGED <<estop, task, scanning>>
         /\ mode \notin {"ESTOP", "DISCONNECTED"}
         /\ mode' \in {mode, "IDLE", "ERROR"}
BY DEF Tick, TickConnectionLost, TickManual, TickCameraStale, TickTargetLost, TickFollow,
       LostConnection, EndFollow
=============================================================================
