\* One node with one switch and two stray identities share two entries, which are
\* too few; strays may carry the identity of the node, and reports may be late.
CONSTANTS
  A1 = A1
  Junk = Junk
  Noise = Noise
  sw0 = sw0
  NoName = NoName
  NoReading = 0
  Nodes = {A1}
  Strangers = {Junk, Noise}
  MaxDev = 2
  Readings = {1}
  Channels = {sw0}
  MaxInbox = 2
  MaxCommands = 1
SPECIFICATION Spec
INVARIANTS TypeOK UniqueNames ReadingsAreOwn
PROPERTIES StableHandles ImplementsDirectory ReportRegisters ScreenFollowsNode
