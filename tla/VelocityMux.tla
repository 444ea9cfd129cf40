------------------------------ MODULE VelocityMux ------------------------------
(***************************************************************************)
(* VelocityMux (robot-console/singularity_go2_console/velocity_mux.py):    *)
(* the one way from the controller to the adapter's velocity. Whoever      *)
(* publishes must be the owner, and ESTOP is an owner that nobody in the   *)
(* program publishes as. Each method is one critical section of the mux's  *)
(* lock; all its callers run on the console's event loop.                  *)
(***************************************************************************)
EXTENDS Go2Adapter

VARIABLES
  owner,   \* VelocityMux._owner
  ad       \* the adapter the mux writes to

Owners == {"NONE", "MANUAL", "FOLLOW", "ESTOP"}

MuxTypeOK ==
  /\ owner \in Owners
  /\ ad \in Adapter

(* publish(by, ...): rejected unless `by` owns the velocity.               *)
Publish(a, by, cmd) ==
  IF owner = by THEN PublishVelocity(a, cmd) ELSE {Outcome(FALSE, a)}

(* zero(by): rejected only when somebody else owns the velocity.           *)
ZeroBy(a, by) ==
  IF owner \in {by, "NONE"} THEN PublishZero(a) ELSE {Outcome(FALSE, a)}

(* force_zero: whoever owns the velocity.                                  *)
ForceZero(a) == PublishZero(a)
=============================================================================
