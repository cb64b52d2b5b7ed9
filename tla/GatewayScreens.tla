--------------------------- MODULE GatewayScreens ---------------------------
(***************************************************************************)
(* The windows of the gateway (applications/lvgl_sn_interface.c): which one *)
(* is open, which widgets exist, which of the global pointers to them are   *)
(* not NULL, and the alarm settings that the alarm window shows and edits.  *)
(*                                                                          *)
(* Everything runs in the LVGL thread except Register, which stands for the *)
(* UDP thread.  The timer and para_update use what the pointers point to:   *)
(* they change no state of this module, so what may go wrong with them is   *)
(* an invariant.  A pointer and the widget it was set to have one name.     *)
(***************************************************************************)
EXTENDS Naturals

CONSTANTS
  MaxDev,       \* entries of dev_attr
  FirstOption,  \* the drop-down list offers the temperatures from 25 ...
  LastOption,   \* ... to 40
  MaxHumidity   \* the slider offers the humidities from 0 to 100

\* A new entry of dev_attr is all zeroes.
ASSUME ScreenAssumption ==
  /\ MaxDev \in Nat \ {0}
  /\ FirstOption \in Nat \ {0} /\ LastOption \in Nat /\ FirstOption <= LastOption
  /\ MaxHumidity \in Nat

Slots == 0 .. MaxDev - 1
Options == FirstOption .. LastOption
Humidities == 0 .. MaxHumidity

VARIABLES
  window,    \* the window the screen holds
  live,      \* widgets that exist
  held,      \* global pointers that are not NULL
  devNum,    \* dev_num
  listed,    \* device buttons of the open window
  selected,  \* device_selected_id
  stored,    \* alarm_switch # 0, alarm_temperature and alarm_humidity
  checked,   \* the check box alram_cb
  option,    \* the temperature temp_dd shows
  slider     \* the humidity humi_slider shows

settings == <<stored, checked, option, slider>>
vars == <<window, live, held, devNum, listed, selected, settings>>

-----------------------------------------------------------------------------
(* Widgets *)

LockWidgets == {"systime_task_label", "sysdate_task_label", "meter"}
DeskWidgets == {"label_time", "weather_label"}
StatusWidgets == {"dev_label_title", "dev_temp_meter", "dev_temp_label",
                  "dev_humi_bar", "dev_sw"}
AlarmWidgets == {"alarm_label_title", "alram_cb", "temp_dd", "humi_slider",
                 "slider_label"}
RemoteWidgets == {"mail_dd", "mail_svr_ta", "mail_name_ta",
                  "mail_passwd_ta", "mail_recvier_ta", "addr_ta", "port_ta"}
Apps == [status |-> StatusWidgets, alarm |-> AlarmWidgets, remote |-> RemoteWidgets]
Widgets == UNION {LockWidgets, DeskWidgets, StatusWidgets, AlarmWidgets, RemoteWidgets}

\* timer_cb and dev_status_update: what they use once a second.  The label of the
\* thermometer is used when the thermometer is there.
TimerUses ==
  LET tested == LockWidgets \cup DeskWidgets \cup (StatusWidgets \ {"dev_temp_label"})
  IN  (held \cap tested)
        \cup {w \in {"dev_temp_label"} : "dev_temp_meter" \in held}

\* What the callbacks of the open window use without a test.
CallbacksUse == IF window \in {"alarm", "remote"} THEN Apps[window] ELSE {}

Open(name, widgets) ==
  /\ window' = name
  /\ live' = widgets

-----------------------------------------------------------------------------
(* From the lock screen to the desk and to the three windows *)

\* my_event_cb_1: the lock screen begins to slide away; another gesture starts
\* its animation again.
Gesture ==
  /\ window = "lock"
  /\ window' = "sliding"
  /\ UNCHANGED <<live, held, devNum, listed, selected, settings>>

\* anim_read_cb
Unlock ==
  /\ window = "sliding"
  /\ Open("desk", (live \ LockWidgets) \cup DeskWidgets)
  /\ held' = (held \ LockWidgets) \cup DeskWidgets
  /\ UNCHANGED <<devNum, listed, selected, settings>>

NoResetAtClose == [status |-> {}, alarm |-> {}, remote |-> {}]  \* a variant
\* app_close_cb: the pointers it sets to NULL.
ResetAtClose == [status |-> StatusWidgets \ {"dev_temp_label"},
                 alarm |-> {}, remote |-> {}]

Close ==
  /\ window \in DOMAIN Apps
  /\ Open("desk", DeskWidgets)
  /\ held' = (held \ ResetAtClose[window]) \cup DeskWidgets
  /\ listed' = 0
  /\ UNCHANGED <<devNum, selected, settings>>

\* para_update: the widgets of the alarm window get the settings of a device.
\* lv_dropdown_set_selected takes its last option for what is not on its list.
OptionAsIs(t) == t  \* a variant of OptionFor
OptionFor(t) == IF t \in Options THEN t ELSE LastOption
ParaUpdate(d) ==
  /\ checked' = d.armed
  /\ option' = OptionFor(d.temp)
  /\ slider' = d.humi

\* app_click_cb, create_device_status, create_alarm, create_net_up
OpenApp(name) ==
  /\ window = "desk"
  /\ Open(name, Apps[name])
  /\ held' = (held \ DeskWidgets) \cup Apps[name]
  /\ listed' = IF name = "remote" THEN 0 ELSE devNum
  /\ IF name = "alarm" THEN ParaUpdate(stored[selected]) /\ UNCHANGED stored
                       ELSE UNCHANGED settings
  /\ UNCHANGED <<devNum, selected>>

-----------------------------------------------------------------------------
(* The buttons of the devices, and the alarm settings *)

\* list_btn_cb
SelectInStatus(i) ==
  /\ window = "status" /\ i < listed
  /\ selected' = i
  /\ UNCHANGED <<window, live, held, devNum, listed, settings>>

OfPrevious(i) == stored[selected]  \* a variant of OfDevice
OfDevice(i) == stored[i]

\* dev_btn_cb
SelectInAlarm(i) ==
  /\ window = "alarm" /\ i < listed
  /\ selected' = i
  /\ ParaUpdate(OfDevice(i))
  /\ UNCHANGED <<window, live, held, devNum, listed, stored>>

\* ck_alram_cb: all state bits of the check box are stored, and FOCUSED is one of
\* them since the check box has just been touched.
TouchCheckBox ==
  /\ window = "alarm"
  /\ checked' = ~ checked
  /\ stored' = [stored EXCEPT ![selected].armed = TRUE]
  /\ UNCHANGED <<window, live, held, devNum, listed, selected, option, slider>>

\* temp_dd_cb
ChooseTemperature(t) ==
  /\ window = "alarm"
  /\ option' = t
  /\ stored' = [stored EXCEPT ![selected].temp = t]
  /\ UNCHANGED <<window, live, held, devNum, listed, selected, checked, slider>>

\* humi_slider_cb
SlideHumidity(h) ==
  /\ window = "alarm"
  /\ slider' = h
  /\ stored' = [stored EXCEPT ![selected].humi = h]
  /\ UNCHANGED <<window, live, held, devNum, listed, selected, checked, option>>

\* udptest_entry registers a device: its settings are what its entry holds.
Register ==
  /\ devNum < MaxDev
  /\ devNum' = devNum + 1
  /\ UNCHANGED <<window, live, held, listed, selected, settings>>

Init ==
  /\ window = "lock" /\ live = LockWidgets /\ held = LockWidgets
  /\ devNum = 0 /\ listed = 0 /\ selected = 0
  /\ stored = [i \in Slots |-> [armed |-> FALSE, temp |-> 0, humi |-> 0]]
  /\ checked = FALSE /\ option = LastOption /\ slider = 0

Next ==
  \/ Gesture \/ Unlock \/ Close
  \/ \E name \in DOMAIN Apps : OpenApp(name)
  \/ \E i \in Slots : SelectInStatus(i) \/ SelectInAlarm(i)
  \/ TouchCheckBox
  \/ \E t \in Options : ChooseTemperature(t)
  \/ \E h \in Humidities : SlideHumidity(h)
  \/ Register

Spec == Init /\ [][Next]_vars

-----------------------------------------------------------------------------
(* Properties *)

Settings == [armed : BOOLEAN, temp : Options \cup {0}, humi : Humidities]

TypeOK ==
  /\ window \in {"lock", "sliding", "desk"} \cup DOMAIN Apps
  /\ live \subseteq Widgets /\ held \subseteq Widgets
  /\ devNum \in 0 .. MaxDev /\ listed \in 0 .. MaxDev /\ selected \in Slots
  /\ stored \in [Slots -> Settings]
  /\ checked \in BOOLEAN /\ option \in Options /\ slider \in Humidities

\* Neither the timer, which runs in whatever window is open, nor a callback uses a
\* widget that was deleted, through any sequence of windows: every pointer that is
\* tested is NULL or was set again when its widget was deleted.
OnlyLiveWidgetsUsed == TimerUses \cup CallbacksUse \subseteq live

\* The alarm window shows the thresholds of the selected device, however it was
\* selected, here or in the status window, and whatever was edited before; a
\* temperature that was never set (0) is not on the list.
ShowsSelected ==
  window = "alarm" =>
    /\ slider = stored[selected].humi
    /\ stored[selected].temp # 0 => option = stored[selected].temp
=============================================================================
