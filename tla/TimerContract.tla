--------------------------- MODULE TimerContract ---------------------------
(***************************************************************************)
(* What a set of timers promises: an armed timer is due its delay after    *)
(* the loop's time at which it was armed; of the timers that are due the   *)
(* one due first runs, and of those due at the same time the one armed     *)
(* first; a timer that was stopped, or is not due, never runs.             *)
(***************************************************************************)
EXTENDS Integers

CONSTANTS
  Timers,     \* the timers
  Delays,     \* the delays they are armed with
  Never,      \* the last instant there is: what lies beyond is due then
  None        \* no timer

VARIABLES
  now,        \* the loop's time
  armed,      \* for each timer [due, turn], turn 0: it is not armed
  running     \* the timer whose callback runs

vars == <<now, armed, running>>

IsArmed(t) == armed[t].turn > 0

Init ==
  /\ now \in Nat
  /\ armed = [t \in Timers |-> [due |-> 0, turn |-> 0]]
  /\ running = None

Pass == now' >= now /\ UNCHANGED <<armed, running>>

\* t is due after one of the delays, behind all that are armed for then.
ArmedNow(t) ==
  /\ \A u \in Timers \ {t} : armed'[u] = armed[u] /\ armed'[t].turn > armed[u].turn
  /\ \E d \in Delays :
       armed'[t].due = IF now + d > Never THEN Never ELSE now + d

Disarmed(t) == armed' = [armed EXCEPT ![t] = [due |-> 0, turn |-> 0]]

Arm(t) == ArmedNow(t) /\ UNCHANGED <<now, running>>
Disarm(t) == Disarmed(t) /\ UNCHANGED <<now, running>>

\* A timer without a repeat is armed no longer when its callback runs.
Fire(t) ==
  /\ running = None /\ IsArmed(t) /\ armed[t].due <= now
  /\ \A u \in Timers \ {t} : IsArmed(u) =>
       \/ armed[t].due < armed[u].due
       \/ armed[t].due = armed[u].due /\ armed[t].turn < armed[u].turn
  /\ running' = t
  /\ ArmedNow(t) \/ Disarmed(t)
  /\ UNCHANGED now

Return == running # None /\ running' = None /\ UNCHANGED <<now, armed>>

Next == Pass \/ Return \/ \E t \in Timers : Arm(t) \/ Disarm(t) \/ Fire(t)

Spec == Init /\ [][Next]_vars
=============================================================================
