\* A report is handled between the two halves of sw_cb.
CONSTANTS
  A1 = A1
  Junk = Junk
  Noise = Noise
  sw0 = sw0
  NoName = NoName
  NoReading = 0
  Nodes = {A1}
  Strangers = {Junk}
  MaxDev = 2
  Readings = {1}
  Channels = {sw0}
  MaxInbox = 2
  MaxCommands = 1
SPECIFICATION Spec
INVARIANT CommandCarriesToggle
