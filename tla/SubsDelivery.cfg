\* main and the shell; a list of one; plans with losses, late answers, wildcards.
CONSTANTS
  Main = Main
  Shell = Shell
  Limit = 1
  QueueSize = 2
  ReconMax = 2
  Watched <- StatusTopic
  Plans <- SubsPlans
SPECIFICATION Spec
CHECK_DEADLOCK FALSE
INVARIANTS TypeOK ListBounded DeliveredByTheRules PromisesKeptWhileSteady
PROPERTIES RxReadsOn ListedIsDelivered
