---------------------------- MODULE GatewayAlarm ----------------------------
(***************************************************************************)
(* The alarm thread (applications/alarm_timer.c): once a second it compares *)
(* the readings of every device with the device's alarm thresholds, and     *)
(* notifies over MQTT, by mail and with a message box unless the last       *)
(* notification, of whatever device and kind, is less than Cooldown ago.    *)
(*                                                                          *)
(* The clock is the 32-bit tick counter.  The thread keeps it in an int,    *)
(* and the difference of two ints wraps on this processor (Signed).  One    *)
(* step of the clock stands for the second that rt_thread_mdelay sleeps;    *)
(* a scan that notifies nobody takes no time, a notification any amount.    *)
(***************************************************************************)
EXTENDS Integers

CONSTANTS
  MaxDev,    \* bound: devices that get registered
  Half,      \* half the range of the tick counter
  Cooldown   \* 60 * 1000 ticks

ASSUME AlarmAssumption ==
  /\ MaxDev \in Nat
  /\ Half \in Nat /\ Cooldown \in 1 .. Half

Devs == 0 .. MaxDev - 1
Kinds == {"temp", "humi"}
Ticks == 0 .. 2 * Half - 1

VARIABLES
  tick,      \* rt_tick_get()
  last,      \* last_alram_time
  pc,        \* where the alarm thread is
  at,        \* i, the device it looks at
  kind,      \* the reading it looks at
  devNum,    \* dev_num, which the UDP thread increments
  armed,     \* alarm_switch of each device, which the GUI sets
  over,      \* the readings beyond their threshold: now_* and alarm_*
  quiet      \* history: ticks since boot or since the last notification ended,
             \* counted up to Cooldown

thread == <<pc, at, kind>>
devices == <<devNum, armed, over>>
vars == <<tick, last, thread, devices, quiet>>

Elapsed == IF tick >= last THEN tick - last ELSE tick - last + 2 * Half
Signed(d) == IF d < Half THEN d ELSE d - 2 * Half
\* Variants of Due and Stamp: points in time are compared; a deadline is stored;
\* nothing is.
DueAtTick == tick >= last + Cooldown
Deadline == tick + Cooldown
NoStamp == last

Due == Signed(Elapsed) >= Cooldown
Stamp == tick  \* last_alram_time = rt_tick_get()
Notifying == pc \in {"mqtt", "mail", "popup"}

-----------------------------------------------------------------------------
(* The alarm thread *)

BeyondDevices == at > devNum  \* a variant of NoMoreDevices: one device too many
NoMoreDevices == at >= devNum

\* The head of the loop over the devices, and the test of alarm_switch.
NextDevice ==
  /\ pc = "device"
  /\ IF NoMoreDevices
     THEN pc' = "sleep" /\ UNCHANGED <<at, kind>>
     ELSE \/ armed[at] /\ pc' = "check" /\ kind' = "temp" /\ UNCHANGED at
          \/ ~ armed[at] /\ at' = at + 1 /\ UNCHANGED <<pc, kind>>
  /\ UNCHANGED <<tick, last, devices, quiet>>

\* From the temperature to the humidity, and on to the next device.
Advance ==
  IF kind = "temp" THEN pc' = "check" /\ kind' = "humi" /\ UNCHANGED at
                   ELSE pc' = "device" /\ at' = at + 1 /\ UNCHANGED kind

\* A variant of Exceeds: both branches look at the temperature.
TempExceeds == over[at]["temp"]
Exceeds == over[at][kind]

\* The comparison of a reading with its threshold.
Compare ==
  /\ pc = "check"
  /\ IF Exceeds THEN pc' = "clock" /\ UNCHANGED <<at, kind>> ELSE Advance
  /\ UNCHANGED <<tick, last, devices, quiet>>

\* The text is written, and then the time compared with that of the last alarm:
\* other threads may have changed reading, threshold and switch by now.
TestTime ==
  /\ pc = "clock"
  /\ IF Due THEN pc' = "mqtt" /\ UNCHANGED <<at, kind>> ELSE Advance
  /\ UNCHANGED <<tick, last, devices, quiet>>

MqttAlarmUp ==
  /\ pc = "mqtt" /\ pc' = "mail"
  /\ UNCHANGED <<tick, last, at, kind, devices, quiet>>

MailAlarmUp ==
  /\ pc = "mail" /\ pc' = "popup"
  /\ UNCHANGED <<tick, last, at, kind, devices, quiet>>

\* msg_box_alarm_up, and the new time of the last alarm.
PopupAndStamp ==
  /\ pc = "popup"
  /\ last' = Stamp /\ quiet' = 0
  /\ Advance
  /\ UNCHANGED <<tick, devices>>

-----------------------------------------------------------------------------
(* The clock and the threads that write the devices *)

\* Time passes while the thread sleeps, and while it is held up by the broker
\* or by the mail server.
Tick ==
  /\ pc \in {"sleep", "mqtt", "mail"}
  /\ tick' = IF tick = 2 * Half - 1 THEN 0 ELSE tick + 1
  /\ quiet' = IF quiet < Cooldown THEN quiet + 1 ELSE quiet
  /\ IF pc = "sleep" THEN pc' = "device" /\ at' = 0 /\ UNCHANGED kind
                     ELSE UNCHANGED thread
  /\ UNCHANGED <<last, devices>>

Register ==
  /\ devNum < MaxDev /\ devNum' = devNum + 1
  /\ UNCHANGED <<tick, last, thread, armed, over, quiet>>

\* ck_alram_cb stores the state bits of the check box, of which FOCUSED is set by
\* the very touch: whatever the user does, alarm_switch is not 0 any more.
Arm(i) ==
  /\ armed' = [armed EXCEPT ![i] = TRUE]
  /\ UNCHANGED <<tick, last, thread, devNum, over, quiet>>

\* A report (udp_data_process) or a new threshold (temp_dd_cb, humi_slider_cb).
Cross(i, k) ==
  /\ over' = [over EXCEPT ![i][k] = ~ @]
  /\ UNCHANGED <<tick, last, thread, devNum, armed, quiet>>

Init ==
  /\ tick = 0 /\ last = 0 /\ quiet = 0
  /\ pc = "device" /\ at = 0 /\ kind = "temp"
  /\ devNum = 0
  /\ armed = [i \in Devs |-> FALSE]
  /\ over \in [Devs -> [Kinds -> BOOLEAN]]

AlarmThread == \/ NextDevice \/ Compare \/ TestTime
               \/ MqttAlarmUp \/ MailAlarmUp \/ PopupAndStamp
Others == \/ Register
          \/ \E i \in Devs : Arm(i)
          \/ \E i \in Devs, k \in Kinds : Cross(i, k)

Next == AlarmThread \/ Tick \/ Others

\* The thread runs when the others sleep, a notification ends (a publish after
\* its retries, a mail when the server answers or closes), and time passes.
Spec == Init /\ [][Next]_vars /\ WF_vars(AlarmThread) /\ WF_vars(Tick)

-----------------------------------------------------------------------------
(* Properties *)

TypeOK ==
  /\ tick \in Ticks /\ last \in Ticks /\ quiet \in 0 .. Cooldown
  /\ pc \in {"sleep", "device", "check", "clock", "mqtt", "mail", "popup"}
  /\ at \in Nat /\ kind \in Kinds
  /\ devNum \in 0 .. MaxDev
  /\ armed \in [Devs -> BOOLEAN]
  /\ over \in [Devs -> [Kinds -> BOOLEAN]]

\* The index the thread works with is that of a registered device, whatever the
\* UDP thread registers during a scan.
InRegistry == pc \notin {"sleep", "device"} => at < devNum

\* No notification begins within Cooldown of the boot or of the end of the one
\* before, however long that one took and wherever the tick counter wraps.
RateLimit == [][~ Notifying /\ Notifying' => quiet >= Cooldown]_vars

\* A reading that stays beyond its threshold on an armed device makes the
\* gateway notify again and again, also across the range in which the signed
\* difference of the ticks is negative.
PersistentAlarmNotified ==
  \A i \in Devs, k \in Kinds :
    <>[](i < devNum /\ armed[i] /\ over[i][k]) => []<>(pc = "mqtt")

-----------------------------------------------------------------------------
(* The scan implements the notifier it stands for *)

Pressing == {s \in Devs \X Kinds :
               s[1] < devNum /\ armed[s[1]] /\ over[s[1]][s[2]]}

Found == IF pc = "clock" THEN {<<at, kind>>} ELSE {}
Sending == IF Notifying THEN {<<at, kind>>} ELSE {}

Notifier == INSTANCE AlarmNotifier WITH
  Sources <- Devs \X Kinds, pressing <- Pressing, found <- Found, sending <- Sending

\* Each notification is of a reading that was beyond its threshold, on a registered
\* device with its alarm switched on, when the scan compared it, although device,
\* switch and index were read in earlier steps and reading and threshold may change
\* before it begins; they come one at a time and Cooldown apart.
ImplementsNotifier == Notifier!Spec
=============================================================================
