------------------------ MODULE GatewayAlarm_proofs ------------------------
(***************************************************************************)
(* The rate limit of the alarms holds for any number of devices, any range  *)
(* of the tick counter and any cooldown of at most half that range.         *)
(*                                                                          *)
(* RateLimit speaks of the time that has passed, the code of a difference   *)
(* of two ticks.  Synced relates them: as long as the cooldown is not over, *)
(* the difference modulo the range of the counter is the time itself, so    *)
(* its sign bit is clear and the comparison is the one that was meant.      *)
(***************************************************************************)
EXTENDS GatewayAlarm, TLAPS

\* Within the cooldown the tick difference tells the time since the last alarm.
Synced == quiet < Cooldown => Elapsed = quiet

\* The device the thread works with has its alarm switched on.
ArmedAtWork == pc \notin {"sleep", "device"} => armed[at]

IInv == TypeOK /\ InRegistry /\ Synced /\ ArmedAtWork

USE AlarmAssumption

-----------------------------------------------------------------------------
\* The clock's difference is one of its own values.
LEMMA ElapsedType == TypeOK => Elapsed \in Ticks
  BY DEF TypeOK, Elapsed, Ticks

\* A cooldown that the code finds over is over.
LEMMA DueMeansQuiet == TypeOK /\ Synced /\ Due => quiet >= Cooldown
  BY ElapsedType DEF TypeOK, Synced, Due, Signed, Ticks

LEMMA InitIInv == Init => IInv
<1> SUFFICES ASSUME Init PROVE IInv
  OBVIOUS
<1>1. TypeOK
  BY DEF Init, TypeOK, Ticks, Kinds
<1>2. InRegistry
  BY DEF Init, InRegistry
<1>3. Synced
  BY DEF Init, Synced, Elapsed
<1>4. ArmedAtWork
  BY DEF Init, ArmedAtWork
<1> QED
  BY <1>1, <1>2, <1>3, <1>4 DEF IInv

\* TypeOK, the invariant of the types, is preserved by every step.
LEMMA StepTypeOK == TypeOK /\ [Next]_vars => TypeOK'
<1> SUFFICES ASSUME TypeOK, [Next]_vars PROVE TypeOK'
  OBVIOUS
<1> USE DEF TypeOK, Ticks, Kinds, devices, thread
<1>1. CASE NextDevice
  BY <1>1 DEF NextDevice, NoMoreDevices
<1>2. CASE Compare
  BY <1>2 DEF Compare, Advance
<1>11. CASE TestTime
  BY <1>11 DEF TestTime, Advance
<1>3. CASE MqttAlarmUp
  BY <1>3 DEF MqttAlarmUp
<1>4. CASE MailAlarmUp
  BY <1>4 DEF MailAlarmUp
<1>5. CASE PopupAndStamp
  BY <1>5 DEF PopupAndStamp, Stamp, Advance
<1>6. CASE Tick
  BY <1>6 DEF Tick
<1>7. CASE Register
  BY <1>7 DEF Register
<1>8. ASSUME NEW i \in Devs, Arm(i) PROVE TypeOK'
  BY <1>8, Zenon DEF Arm
<1>9. ASSUME NEW i \in Devs, NEW k \in Kinds, Cross(i, k) PROVE TypeOK'
  <2>1. over' \in [Devs -> [Kinds -> BOOLEAN]]
    BY <1>9, Zenon DEF Cross
  <2> QED
    BY <1>9, <2>1 DEF Cross
<1>10. CASE UNCHANGED vars
  BY <1>10 DEF vars
<1> QED
  BY <1>1, <1>2, <1>3, <1>4, <1>5, <1>6, <1>7, <1>8, <1>9, <1>10, <1>11
  DEF Next, AlarmThread, Others

\* The device index the thread uses stays registered: only Register writes
\* devNum, and the thread tests every index before it uses it.
LEMMA StepInRegistry == TypeOK /\ InRegistry /\ [Next]_vars => InRegistry'
<1> SUFFICES ASSUME TypeOK, InRegistry, [Next]_vars PROVE InRegistry'
  OBVIOUS
<1> USE DEF TypeOK, InRegistry, devices, thread
<1>1. CASE AlarmThread
  BY <1>1 DEF AlarmThread, NextDevice, NoMoreDevices, Compare, TestTime, MqttAlarmUp,
              MailAlarmUp, PopupAndStamp, Advance
<1>2. CASE Tick
  BY <1>2 DEF Tick
<1>3. CASE Others
  BY <1>3 DEF Others, Register, Arm, Cross
<1>4. CASE UNCHANGED vars
  BY <1>4 DEF vars
<1> QED
  BY <1>1, <1>2, <1>3, <1>4 DEF Next

\* The GUI never switches an alarm off, so what NextDevice has found switched on
\* still is when the thread gets to the readings.
LEMMA StepArmed ==
  TypeOK /\ InRegistry /\ ArmedAtWork /\ [Next]_vars => ArmedAtWork'
<1> SUFFICES ASSUME TypeOK, InRegistry, ArmedAtWork, [Next]_vars PROVE ArmedAtWork'
  OBVIOUS
<1> USE DEF ArmedAtWork, devices, thread
<1>1. CASE AlarmThread
  BY <1>1 DEF AlarmThread, NextDevice, Compare, TestTime, MqttAlarmUp, MailAlarmUp,
              PopupAndStamp, Advance
<1>2. CASE Tick
  BY <1>2 DEF Tick
<1>3. ASSUME NEW i \in Devs, Arm(i) PROVE ArmedAtWork'
  <2>1. pc' = pc /\ at' = at /\ armed' = [armed EXCEPT ![i] = TRUE]
    BY <1>3 DEF Arm
  <2>2. pc \notin {"sleep", "device"} => at \in Devs
    BY DEF InRegistry, TypeOK, Devs
  <2> QED
    BY <2>1, <2>2, Zenon DEF TypeOK
<1>4. CASE Register \/ \E i \in Devs, k \in Kinds : Cross(i, k)
  BY <1>4 DEF Register, Cross
<1>5. CASE UNCHANGED vars
  BY <1>5 DEF vars
<1> QED
  BY <1>1, <1>2, <1>3, <1>4, <1>5 DEF Next, Others

\* A second that passes moves the difference by one, also where the counter
\* wraps.
LEMMA TickSynced == TypeOK /\ Synced /\ Tick => Synced'
<1> SUFFICES ASSUME TypeOK, Synced, Tick, quiet' < Cooldown
             PROVE  Elapsed' = quiet'
  BY DEF Synced
<1> USE DEF TypeOK, Ticks
<1>1. /\ quiet < Cooldown /\ quiet' = quiet + 1 /\ last' = last
      /\ tick' = IF tick = 2 * Half - 1 THEN 0 ELSE tick + 1
  BY DEF Tick
<1>2. Elapsed = quiet
  BY <1>1 DEF Synced
<1>3. quiet + 1 < 2 * Half
  BY <1>1
<1> QED
  BY <1>1, <1>2, <1>3 DEF Elapsed

LEMMA StepSynced == TypeOK /\ Synced /\ [Next]_vars => Synced'
<1> SUFFICES ASSUME TypeOK, Synced, [Next]_vars PROVE Synced'
  OBVIOUS
<1>1. CASE Tick
  BY <1>1, TickSynced
<1>2. CASE PopupAndStamp
  BY <1>2 DEF PopupAndStamp, Stamp, Synced, Elapsed, TypeOK, Ticks
<1>3. CASE UNCHANGED <<tick, last, quiet>>
  BY <1>3 DEF Synced, Elapsed
<1> QED
  BY <1>1, <1>2, <1>3 DEF Next, AlarmThread, Others, NextDevice, Compare, TestTime,
                         MqttAlarmUp, MailAlarmUp, Register, Arm, Cross, vars

-----------------------------------------------------------------------------
\* The inductive invariant holds in every state.
THEOREM Invariance == Spec => []IInv
<1>1. IInv /\ [Next]_vars => IInv'
  BY StepTypeOK, StepInRegistry, StepSynced, StepArmed DEF IInv
<1> QED
  BY <1>1, InitIInv, PTL DEF Spec

\* Type correctness of the alarm thread's state.
THEOREM TypeCorrect == Spec => []TypeOK
<1>1. IInv => TypeOK
  BY DEF IInv
<1> QED
  BY <1>1, Invariance, PTL

\* alram_timer_cb indexes dev_attr only below dev_num, for any number of
\* devices and however their registration interleaves with its scan.
THEOREM AlwaysInRegistry == Spec => []InRegistry
<1>1. IInv => InRegistry
  BY DEF IInv
<1> QED
  BY <1>1, Invariance, PTL

\* No notification begins within Cooldown of the boot or of the end of the one
\* before, wherever the 32-bit tick counter wraps (alarm_timer.c:26,44).
THEOREM RateLimited == Spec => RateLimit
<1> DEFINE A == ~ Notifying /\ Notifying' => quiet >= Cooldown
<1>1. IInv /\ [Next]_vars => [A]_vars
  <2> SUFFICES ASSUME IInv, Next, ~ Notifying, Notifying' PROVE quiet >= Cooldown
    OBVIOUS
  <2>1. TestTime /\ Due
    BY DEF Next, AlarmThread, Others, NextDevice, Compare, TestTime, Advance,
           MqttAlarmUp, MailAlarmUp, PopupAndStamp, Tick, Register, Arm, Cross, Notifying,
           thread, devices
  <2> QED
    BY <2>1, DueMeansQuiet DEF IInv
<1> QED
  BY <1>1, Invariance, PTL DEF Spec, RateLimit

-----------------------------------------------------------------------------
(* The scan implements the notifier *)

\* What is pressing depends on the devices alone.
LEMMA PressingKept == UNCHANGED devices => Pressing' = Pressing
  BY DEF devices, Pressing

\* A comparison that holds has found a source that is pressing.
LEMMA CompareFinds ==
  IInv /\ Compare /\ pc' = "clock"
    => Notifier!Find(<<at, kind>>) /\ <<at, kind>> \in Devs \X Kinds
<1> SUFFICES ASSUME IInv, Compare, pc' = "clock"
             PROVE  Notifier!Find(<<at, kind>>) /\ <<at, kind>> \in Devs \X Kinds
  OBVIOUS
<1>1. pc = "check" /\ Exceeds /\ UNCHANGED <<devices, quiet, at, kind>>
  BY DEF Compare, Advance
<1>2. Found = {} /\ Found' = {<<at, kind>>} /\ Sending = {} /\ Sending' = {}
  BY <1>1 DEF Notifying, Sending, Found
<1>4. at \in Devs /\ at < devNum
  BY <1>1 DEF IInv, InRegistry, TypeOK, Devs
<1>5. armed[at] /\ over[at][kind] /\ kind \in Kinds
  BY <1>1 DEF IInv, ArmedAtWork, TypeOK, Exceeds
<1>6. <<at, kind>> \in Pressing
  BY <1>4, <1>5 DEF Pressing
<1>7. Pressing' = Pressing
  BY <1>1, PressingKept
<1> QED
  BY <1>1, <1>2, <1>4, <1>5, <1>6, <1>7 DEF Notifier!Find

\* A notification is of the source that was found, and begins after the cooldown.
LEMMA TimeBegins ==
  IInv /\ TestTime => Notifier!Begin \/ Notifier!Dismiss
<1> SUFFICES ASSUME IInv, TestTime PROVE Notifier!Begin \/ Notifier!Dismiss
  OBVIOUS
<1>1. pc = "clock" /\ UNCHANGED <<devices, quiet>>
  BY DEF TestTime
<1>2. Found = {<<at, kind>>} /\ Sending = {} /\ Pressing' = Pressing
  BY <1>1, PressingKept DEF Found, Sending, Notifying
<1>3. CASE Due
  <2>1. pc' = "mqtt" /\ UNCHANGED <<at, kind>>
    BY <1>3 DEF TestTime
  <2>2. Found' = {} /\ Sending' = Found
    BY <1>2, <2>1 DEF Found, Sending, Notifying
  <2> QED
    BY <1>1, <1>2, <1>3, <2>2, DueMeansQuiet DEF IInv, Notifier!Begin
<1>4. CASE ~ Due
  <2>1. pc' \in {"check", "device"}
    BY <1>4 DEF TestTime, Advance
  <2>2. Found' = {} /\ Sending' = {}
    BY <2>1 DEF Found, Sending, Notifying
  <2> QED
    BY <1>1, <1>2, <2>2 DEF Notifier!Dismiss
<1> QED
  BY <1>3, <1>4

\* Every step of the scan, of the clock and of the other threads is one of the
\* notifier, or none.
LEMMA StepNotifier == IInv /\ [Next]_vars => [Notifier!Next]_(Notifier!vars)
<1> SUFFICES ASSUME IInv, [Next]_vars PROVE [Notifier!Next]_(Notifier!vars)
  OBVIOUS
<1> USE DEF Notifier!Next, Notifier!vars
<1>1. CASE Compare
  <2>1. CASE pc' = "clock"
    BY <1>1, <2>1, CompareFinds
  <2>2. CASE pc' # "clock"
    <3>1. /\ Found = {} /\ Found' = {} /\ Sending = {} /\ Sending' = {}
          /\ UNCHANGED <<devices, quiet>>
      BY <1>1, <2>2 DEF Compare, Advance, Notifying, Sending, Found
    <3> QED
      BY <3>1, PressingKept
  <2> QED
    BY <2>1, <2>2
<1>8. CASE TestTime
  BY <1>8, TimeBegins
<1>2. CASE PopupAndStamp
  <2>1. /\ Sending = {<<at, kind>>} /\ Sending' = {} /\ Found = {} /\ Found' = {}
        /\ quiet' = 0 /\ UNCHANGED devices
    BY <1>2 DEF PopupAndStamp, Advance, Notifying, Sending, Found
  <2> QED
    BY <2>1, PressingKept DEF Notifier!End
<1>3. CASE NextDevice
  <2>1. /\ Sending = {} /\ Sending' = {} /\ Found = {} /\ Found' = {}
        /\ UNCHANGED <<devices, quiet>>
    BY <1>3 DEF NextDevice, Notifying, Sending, Found
  <2> QED
    BY <2>1, PressingKept
<1>7. CASE MqttAlarmUp \/ MailAlarmUp
  <2>1. UNCHANGED <<Found, Sending, devices, quiet>>
    BY <1>7 DEF MqttAlarmUp, MailAlarmUp, Notifying, Sending, Found
  <2> QED
    BY <2>1, PressingKept
<1>4. CASE Tick
  <2>1. UNCHANGED <<Found, Sending, devices>>
    BY <1>4 DEF Tick, Notifying, Sending, Found, thread
  <2>2. quiet' = IF quiet < Cooldown THEN quiet + 1 ELSE quiet
    BY <1>4 DEF Tick
  <2> QED
    BY <2>1, <2>2, PressingKept DEF Notifier!TimePasses
<1>5. CASE Others
  <2>1. UNCHANGED <<Found, Sending, quiet>>
    BY <1>5 DEF Others, Register, Arm, Cross, Notifying, Sending, Found, thread
  <2>2. Pressing' \subseteq Devs \X Kinds
    BY DEF Pressing
  <2> QED
    BY <2>1, <2>2 DEF Notifier!Change
<1>6. CASE UNCHANGED vars
  BY <1>6, PressingKept DEF vars, thread, Notifying, Sending, Found
<1> QED
  BY <1>1, <1>2, <1>3, <1>4, <1>5, <1>6, <1>7, <1>8 DEF Next, AlarmThread

\* The alarm thread implements AlarmNotifier, for any number of devices, any range
\* of the tick counter and any cooldown of at most half of it.
THEOREM NotifierImplemented == Spec => ImplementsNotifier
<1>1. Init => Notifier!Init
  BY DEF Init, Notifier!Init, Notifying, Found, Sending, Pressing
<1> QED
  BY <1>1, StepNotifier, Invariance, PTL DEF Spec, ImplementsNotifier, Notifier!Spec
=============================================================================
