---------------------------- MODULE GatewayNotify ----------------------------
(***************************************************************************)
(* The alarm thread (GatewayAlarm) with the mails it sends (MailSession):    *)
(* mail_alarm_up is a call, so the whole SMTP dialogue runs inside the scan  *)
(* of applications/alarm_timer.c and nothing else of the thread happens      *)
(* until send_mail returns, while the tick counter, the UDP thread and the   *)
(* GUI go on.                                                                *)
(***************************************************************************)
EXTENDS MailSession

CONSTANTS MaxDev, Half, Cooldown  \* of GatewayAlarm

VARIABLES tick, last, pc, at, kind, devNum, armed, over, quiet  \* of GatewayAlarm

Alarm == INSTANCE GatewayAlarm

alarmVars == <<tick, last, pc, at, kind, devNum, armed, over, quiet>>
notifyVars == <<vars, alarmVars>>

\* The first step of mail_alarm_up, connectHost.  Alarms beyond the bound are not
\* mailed.
CallMail ==
  /\ pc = "mail" /\ step = "idle"
  /\ \/ Connect
     \/ mail = MaxMails /\ UNCHANGED vars

\* A step of the call is one of the thread: it returns when the dialogue is over.
InMail ==
  /\ CallMail \/ Client
  /\ IF step' = "idle" THEN Alarm!MailAlarmUp ELSE UNCHANGED alarmVars

\* The other steps of the thread.
ScanStep == Alarm!AlarmThread /\ pc # "mail" /\ UNCHANGED vars

MailServer == (Greet \/ Grumble \/ Close) /\ UNCHANGED alarmVars
Time == Alarm!Tick /\ UNCHANGED vars
OtherThreads == Alarm!Others /\ UNCHANGED vars

NotifyInit == Init /\ Alarm!Init
NotifyNext == InMail \/ ScanStep \/ MailServer \/ Time \/ OtherThreads

\* The thread runs when it can, time passes, and the server greets a client or closes
\* the connection.  That a mail comes to its end is not assumed.
NotifySpec ==
  /\ NotifyInit /\ [][NotifyNext]_notifyVars
  /\ WF_notifyVars(InMail \/ ScanStep) /\ WF_notifyVars(Time)
  /\ WF_notifyVars((Greet \/ Close) /\ UNCHANGED alarmVars)

-----------------------------------------------------------------------------
(* Properties *)

\* Together with its mails the alarm thread is the one of GatewayAlarm, fairness
\* included: a dialogue takes no step outside the notification it belongs to, and
\* never holds the thread up for good, whatever the server refuses or when it closes.
\* What is shown of GatewayAlarm holds with a real mail server.
AlarmAsSpecified == Alarm!Spec
=============================================================================
