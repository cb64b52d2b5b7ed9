\* The status reply and an alarm.
CONSTANTS
  Alarm = Alarm
  Shell = Shell
  Rx = Rx
  Apps = {Alarm}
  QueueSize = 4
  ReconMax = 3
  MaxPacketId = 9
  MaxChannel = 2
  Budgets <- ReplyBudget
SPECIFICATION Spec
CHECK_DEADLOCK FALSE
INVARIANT OkMeansAccepted
