\* One or two threads, the callback, PINGREQ and a lost connection; or one thread
\* at a time with identifiers that start again at 1.
CONSTANTS
  Alarm = Alarm
  Shell = Shell
  Rx = Rx
  Apps = {Alarm, Shell}
  QueueSize = 2
  ReconMax = 2
  MaxPacketId = 2
  MaxChannel = 2
  Budgets <- CallBudgets
SPECIFICATION Spec
CHECK_DEADLOCK FALSE
INVARIANTS TypeOK AcksConserved AnswerNeverAcked OkMeansAcceptedAlone
PROPERTY CallsReturn
