\* Two breaks with silence and a stop, or two ends of connections and outages.
CONSTANTS
  Rx = Rx
  K = K
  NoSock = NoSock
  ReconMax = 3
  KeepMax = 2
  MaxSocks = 2
  Surroundings <- BothSurroundings
SPECIFICATION Spec
INVARIANT TypeOK
PROPERTIES DeadLinkDetected OnlineOrGivenUp
