\* Two alarms mailed and later ones not, one socket, one reply of a dialogue cut in
\* two; one device, a tick counter that wraps at 4.
CONSTANTS
  MaxMails = 2
  MaxCuts = 1
  MaxSockets = 1
  MaxDev = 1
  Half = 2
  Cooldown = 1
SPECIFICATION NotifySpec
INVARIANTS TypeOK FailedMeansUndelivered RefusedMeansStopped
PROPERTY AlarmAsSpecified
