------------------------ MODULE GatewayScreens_proofs ------------------------
(***************************************************************************)
(* Proofs about GatewayScreens, for any number of devices, temperatures and *)
(* humidities: no deleted widget is used, and the alarm window shows the     *)
(* settings of the selected device.                                          *)
(***************************************************************************)
EXTENDS GatewayScreens, TLAPS

USE ScreenAssumption DEF Slots, Options, Humidities

\* Pointers that a closed window leaves behind; nothing uses them before they
\* are set again.
Stale == AlarmWidgets \cup RemoteWidgets \cup {"dev_temp_label"}

\* Which widgets exist and which pointers are held depends on the window alone.
Owned ==
  /\ window \in {"lock", "sliding"} => live = LockWidgets /\ held = LockWidgets
  /\ window = "desk" => live = DeskWidgets /\ held \subseteq DeskWidgets \cup Stale
  /\ window \in DOMAIN Apps =>
       live = Apps[window] /\ held \subseteq Apps[window] \cup Stale

IInv == TypeOK /\ Owned /\ ShowsSelected

\* The kinds of widgets, once and for all.
LEMMA AppNames ==
  /\ DOMAIN Apps = {"status", "alarm", "remote"}
  /\ Apps["status"] = StatusWidgets /\ Apps["alarm"] = AlarmWidgets
  /\ Apps["remote"] = RemoteWidgets
BY DEF Apps

LEMMA WidgetKinds ==
  /\ LockWidgets \subseteq Widgets /\ DeskWidgets \subseteq Widgets
  /\ \A name \in DOMAIN Apps : Apps[name] \subseteq Widgets
BY AppNames DEF Widgets

-----------------------------------------------------------------------------
(* The invariant *)

LEMMA InitInv == Init => IInv
<1> SUFFICES ASSUME Init PROVE IInv
  OBVIOUS
<1>1. stored \in [Slots -> Settings]
  <2>1. [armed |-> FALSE, temp |-> 0, humi |-> 0] \in Settings
    BY DEF Settings
  <2> QED
    BY <2>1 DEF Init
<1>2. option \in Options /\ slider \in Humidities /\ selected \in Slots
  BY DEF Init
<1>3. window = "lock" /\ live = LockWidgets /\ held = LockWidgets
      /\ devNum = 0 /\ listed = 0 /\ checked = FALSE
  BY DEF Init
<1>4. TypeOK
  <2>1. checked \in BOOLEAN
    BY <1>3
  <2>2. live \subseteq Widgets /\ held \subseteq Widgets
    BY <1>3, WidgetKinds
  <2>3. devNum \in 0 .. MaxDev /\ listed \in 0 .. MaxDev
    BY <1>3
  <2> QED
    BY <1>1, <1>2, <1>3, <2>1, <2>2, <2>3 DEF TypeOK
<1>5. Owned /\ ShowsSelected
  BY <1>3, AppNames DEF Owned, ShowsSelected
<1> QED
  BY <1>4, <1>5 DEF IInv

\* What para_update shows are the settings of the device it is given.
LEMMA ParaUpdateShows ==
  ASSUME NEW d \in Settings, ParaUpdate(d)
  PROVE  /\ checked' \in BOOLEAN /\ option' \in Options /\ slider' \in Humidities
         /\ slider' = d.humi
         /\ d.temp # 0 => option' = d.temp
BY DEF ParaUpdate, Settings, OptionFor

LEMMA GestureInv == IInv /\ Gesture => IInv'
BY AppNames DEF IInv, TypeOK, Owned, ShowsSelected, Gesture, settings

LEMMA UnlockInv == IInv /\ Unlock => IInv'
<1> SUFFICES ASSUME IInv, Unlock PROVE IInv'
  OBVIOUS
<1>1. live' = DeskWidgets /\ held' = DeskWidgets
  BY DEF IInv, Owned, Unlock, Open
<1> QED
  BY <1>1, AppNames, WidgetKinds
  DEF IInv, TypeOK, Owned, ShowsSelected, Unlock, Open, settings

LEMMA CloseInv == IInv /\ Close => IInv'
<1> SUFFICES ASSUME IInv, Close PROVE IInv'
  OBVIOUS
<1>1. held' \subseteq DeskWidgets \cup Stale
  BY AppNames DEF IInv, Owned, Close, ResetAtClose, Stale, StatusWidgets
<1>2. held' \subseteq Widgets
  BY <1>1, WidgetKinds, AppNames
  DEF Stale, Widgets, StatusWidgets
<1> QED
  BY <1>1, <1>2, AppNames, WidgetKinds
  DEF IInv, TypeOK, Owned, ShowsSelected, Close, Open, settings

LEMMA OpenAppInv ==
  ASSUME IInv, NEW name \in DOMAIN Apps, OpenApp(name) PROVE IInv'
<1>1. held' \subseteq Apps[name] \cup Stale
  BY DEF IInv, Owned, OpenApp
<1>2. held' \subseteq Widgets /\ live' = Apps[name] /\ window' = name
  BY <1>1, WidgetKinds, AppNames DEF OpenApp, Open, Stale, Widgets, StatusWidgets
<1>3. Owned'
  BY <1>1, <1>2, AppNames DEF Owned
<1>4. stored[selected] \in Settings /\ stored' = stored /\ selected' = selected
  BY DEF IInv, TypeOK, OpenApp, settings
<1>5. CASE name = "alarm"
  <2>1. ParaUpdate(stored[selected])
    BY <1>5 DEF OpenApp
  <2> QED
    BY <1>2, <1>3, <1>4, <1>5, <2>1, ParaUpdateShows, WidgetKinds
    DEF IInv, TypeOK, ShowsSelected, OpenApp
<1>6. CASE name # "alarm"
  BY <1>2, <1>3, <1>6, WidgetKinds DEF IInv, TypeOK, ShowsSelected, OpenApp, settings
<1> QED
  BY <1>5, <1>6

LEMMA SelectInv ==
  ASSUME IInv, NEW i \in Slots, SelectInStatus(i) \/ SelectInAlarm(i) PROVE IInv'
<1>1. CASE SelectInStatus(i)
  BY <1>1, AppNames DEF IInv, TypeOK, Owned, ShowsSelected, SelectInStatus, settings
<1>2. CASE SelectInAlarm(i)
  <2>1. stored[i] \in Settings /\ ParaUpdate(stored[i])
    BY <1>2 DEF IInv, TypeOK, SelectInAlarm, OfDevice
  <2> QED
    BY <1>2, <2>1, ParaUpdateShows, AppNames
    DEF IInv, TypeOK, Owned, ShowsSelected, SelectInAlarm
<1> QED
  BY <1>1, <1>2

\* An edit changes one setting of the selected device and the widget it is made
\* with.
LEMMA EditInv ==
  ASSUME IInv,
         \/ TouchCheckBox
         \/ \E t \in Options : ChooseTemperature(t)
         \/ \E h \in Humidities : SlideHumidity(h)
  PROVE  IInv'
<1>1. CASE TouchCheckBox
  BY <1>1, AppNames DEF IInv, TypeOK, Owned, ShowsSelected, TouchCheckBox, Settings
<1>2. ASSUME NEW t \in Options, ChooseTemperature(t) PROVE IInv'
  BY <1>2, AppNames DEF IInv, TypeOK, Owned, ShowsSelected, ChooseTemperature, Settings
<1>3. ASSUME NEW h \in Humidities, SlideHumidity(h) PROVE IInv'
  <2> DEFINE entry == [stored[selected] EXCEPT !.humi = h]
  <2>1. stored[selected] \in Settings
    BY DEF IInv, TypeOK
  <2>2. entry \in Settings /\ entry.humi = h /\ entry.temp = stored[selected].temp
    BY <2>1 DEF Settings
  <2>3. stored' = [stored EXCEPT ![selected] = entry]
    BY <1>3 DEF SlideHumidity
  <2>4. stored' \in [Slots -> Settings] /\ stored'[selected] = entry
    <3> HIDE DEF entry
    <3> QED
      BY <2>2, <2>3 DEF IInv, TypeOK
  <2> HIDE DEF entry
  <2> QED
    BY <1>3, <2>2, <2>4, AppNames
    DEF IInv, TypeOK, Owned, ShowsSelected, SlideHumidity
<1> QED
  BY <1>1, <1>2, <1>3

LEMMA RegisterInv == IInv /\ Register => IInv'
BY AppNames DEF IInv, TypeOK, Owned, ShowsSelected, Register, settings

LEMMA NextInv == IInv /\ [Next]_vars => IInv'
<1> SUFFICES ASSUME IInv, [Next]_vars PROVE IInv'
  OBVIOUS
<1>1. CASE Gesture
  BY <1>1, GestureInv
<1>2. CASE Unlock
  BY <1>2, UnlockInv
<1>3. CASE Close
  BY <1>3, CloseInv
<1>4. CASE \E name \in DOMAIN Apps : OpenApp(name)
  BY <1>4, OpenAppInv
<1>5. CASE \E i \in Slots : SelectInStatus(i) \/ SelectInAlarm(i)
  BY <1>5, SelectInv DEF Slots
<1>6. CASE TouchCheckBox \/ (\E t \in Options : ChooseTemperature(t))
             \/ (\E h \in Humidities : SlideHumidity(h))
  BY <1>6, EditInv
<1>7. CASE Register
  BY <1>7, RegisterInv
<1>8. CASE UNCHANGED vars
  BY <1>8, AppNames DEF vars, settings, IInv, TypeOK, Owned, ShowsSelected
<1> QED
  BY <1>1, <1>2, <1>3, <1>4, <1>5, <1>6, <1>7, <1>8 DEF Next

\* The windows, their widgets and the settings shown stay in step.
THEOREM Invariance == Spec => []IInv
BY InitInv, NextInv, PTL DEF Spec

\* Type correctness.
THEOREM TypeCorrect == Spec => []TypeOK
<1>1. IInv => TypeOK
  BY DEF IInv
<1> QED
  BY <1>1, Invariance, PTL

\* No deleted widget is used: a pointer that the timer tests is held only in the
\* window that owns its widget.
THEOREM OnlyLive == Spec => []OnlyLiveWidgetsUsed
<1>1. IInv => OnlyLiveWidgetsUsed
  <2> SUFFICES ASSUME IInv PROVE OnlyLiveWidgetsUsed
    OBVIOUS
  <2>1. window \in {"lock", "sliding", "desk", "status", "alarm", "remote"}
    BY AppNames DEF IInv, TypeOK
  <2>2. CallbacksUse \subseteq live
    BY AppNames DEF IInv, Owned, CallbacksUse
  <2>3. TimerUses \subseteq live
    BY <2>1, AppNames
    DEF IInv, Owned, TimerUses, Stale, LockWidgets, DeskWidgets, StatusWidgets,
        AlarmWidgets, RemoteWidgets
  <2> QED
    BY <2>2, <2>3 DEF OnlyLiveWidgetsUsed
<1> QED
  BY <1>1, Invariance, PTL

\* The alarm window shows the thresholds of the selected device.
THEOREM SelectedShown == Spec => []ShowsSelected
<1>1. IInv => ShowsSelected
  BY DEF IInv
<1> QED
  BY <1>1, Invariance, PTL
=============================================================================
