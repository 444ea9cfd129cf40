----------------------------- MODULE CommandGate -----------------------------
(***************************************************************************)
(* What the command path of the robot service promises: commands wait in   *)
(* one bounded line, start one at a time in the order in which they        *)
(* entered it, each at most once, and none starts while the stop latch is  *)
(* on. A stop may throw the line away, except the command already taken    *)
(* in hand.                                                                *)
(***************************************************************************)
EXTENDS Naturals, Sequences

CONSTANTS Cmds, None, Capacity

VARIABLES
  line,      \* the commands that wait, oldest first
  seen,      \* the commands that ever entered the line
  running,   \* the command being executed, or None
  latched    \* the stop latch

gateVars == <<line, seen, running, latched>>

Init ==
  /\ line = <<>>
  /\ seen = {}
  /\ running = None
  /\ latched = FALSE

Enter(c) ==
  /\ c \notin seen
  /\ Len(line) < Capacity
  /\ line' = Append(line, c)
  /\ seen' = seen \union {c}
  /\ UNCHANGED <<running, latched>>

BeginOldest ==
  /\ line # <<>>
  /\ running = None
  /\ ~latched
  /\ running' = Head(line)
  /\ line' = Tail(line)
  /\ UNCHANGED <<seen, latched>>

(* The oldest command is refused when its turn comes.                      *)
RefuseOldest ==
  /\ line # <<>>
  /\ running = None
  /\ line' = Tail(line)
  /\ UNCHANGED <<seen, running, latched>>

Complete ==
  /\ running # None
  /\ running' = None
  /\ UNCHANGED <<line, seen, latched>>

Flush ==
  /\ line # <<>>
  /\ line' \in {<<>>, <<Head(line)>>}
  /\ UNCHANGED <<seen, running, latched>>

SetLatch(on) ==
  /\ latched' = on
  /\ UNCHANGED <<line, seen, running>>

Next ==
  \/ \E c \in Cmds : Enter(c)
  \/ BeginOldest
  \/ RefuseOldest
  \/ Complete
  \/ Flush
  \/ \E on \in BOOLEAN : SetLatch(on)

Spec == Init /\ [][Next]_gateVars
=============================================================================
