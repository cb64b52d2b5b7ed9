\* Binary digits; a buffer of five octets.
CONSTANTS
  Base = 2
  MaxLenOctets = 3
  RecvSize = 5
  Messages <- MixedMessages
  MaxPackets = 3
  MaxSlow = 1
  MaxEnds = 1
SPECIFICATION Spec
CHECK_DEADLOCK FALSE
INVARIANTS TypeOK InStep InsideBuffer
PROPERTY FittingHandled
