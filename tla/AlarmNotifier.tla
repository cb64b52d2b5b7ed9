---------------------------- MODULE AlarmNotifier ----------------------------
(***************************************************************************)
(* What the alarm thread (applications/alarm_timer.c) promises to whoever    *)
(* gets the notifications, without its scan, its indices and its tick        *)
(* counter: it notifies of something it has just found to be the case (which *)
(* need not be the case any more), one notification at a time, and leaves    *)
(* Cooldown between two.  GatewayAlarm is shown to implement it.             *)
(***************************************************************************)
EXTENDS Naturals

CONSTANTS
  Sources,   \* what may raise an alarm: a reading of a device
  Cooldown   \* the time without notifications after each one

VARIABLES
  pressing,  \* the sources beyond their threshold, their alarm switched on
  found,     \* the source the thread has found beyond its threshold
  sending,   \* the source a notification is being sent of, if there is one
  quiet      \* the time since boot or the last notification, up to Cooldown

vars == <<pressing, found, sending, quiet>>

Init == pressing \subseteq Sources /\ found = {} /\ sending = {} /\ quiet = 0

Find(s) ==
  /\ sending = {} /\ found = {}
  /\ s \in pressing /\ found' = {s}
  /\ UNCHANGED <<pressing, sending, quiet>>

Dismiss ==
  /\ found # {} /\ found' = {}
  /\ UNCHANGED <<pressing, sending, quiet>>

\* What was found is notified of, whether or not it is still pressing.
Begin ==
  /\ found # {} /\ quiet >= Cooldown
  /\ sending' = found /\ found' = {}
  /\ UNCHANGED <<pressing, quiet>>

End ==
  /\ sending # {} /\ sending' = {}
  /\ quiet' = 0
  /\ UNCHANGED <<pressing, found>>

TimePasses ==
  /\ quiet < Cooldown /\ quiet' = quiet + 1
  /\ UNCHANGED <<pressing, found, sending>>

Change ==
  /\ pressing' \subseteq Sources
  /\ UNCHANGED <<found, sending, quiet>>

Next == (\E s \in Sources : Find(s)) \/ Dismiss \/ Begin \/ End \/ TimePasses \/ Change

Spec == Init /\ [][Next]_vars
=============================================================================
