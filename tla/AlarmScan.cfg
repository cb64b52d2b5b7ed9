\* Two devices; the tick counter wraps at 8.
CONSTANTS
  MaxDev = 2
  Half = 4
  Cooldown = 2
SPECIFICATION Spec
INVARIANTS TypeOK InRegistry
PROPERTIES RateLimit ImplementsNotifier PersistentAlarmNotified
