\* One lost connection.
CONSTANTS
  Main = Main
  Shell = Shell
  Limit = 4
  QueueSize = 2
  ReconMax = 2
  Watched <- StatusTopic
  Plans <- LossPlan
SPECIFICATION Spec
CHECK_DEADLOCK FALSE
PROPERTY SubscribeOkMeansSubscribed
