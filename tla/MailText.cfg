\* Two alarms in a row.
CONSTANTS
  MaxMails = 2
  MaxCuts = 1
  MaxSockets = 2
SPECIFICATION Spec
CHECK_DEADLOCK FALSE
INVARIANT MailCarriesOwnAlarm
