--------------------------- MODULE DeviceDirectory ---------------------------
(***************************************************************************)
(* What the registry of the gateway (dev_attr, dev_num and                   *)
(* device_selected_id) promises to the threads that read it, without its     *)
(* array, its indices and the socket: the devices that were met, each with   *)
(* the last reading learned from it, and the one the user has chosen.        *)
(* GatewayDevices is shown to implement it.                                  *)
(***************************************************************************)
CONSTANTS
  Names,      \* identities that may be met
  Readings,
  NoName,     \* no device is chosen
  NoReading   \* nothing was learned yet

VARIABLES
  directory,  \* the devices that were met: name and reading
  chosen,     \* the device the user looks at
  reported    \* readings the nodes have reported: name and reading

vars == <<directory, chosen, reported>>

Known == {e.name : e \in directory}

Init == directory = {} /\ chosen = NoName /\ reported = {}

\* The first device that is met is chosen.
Choice(n) == chosen' = IF directory = {} THEN n ELSE chosen

Report(n, r) ==
  /\ reported' = reported \cup {[name |-> n, reading |-> r]}
  /\ UNCHANGED <<directory, chosen>>

\* A device becomes known without a reading.
Meet(n) ==
  /\ n \notin Known
  /\ directory' = directory \cup {[name |-> n, reading |-> NoReading]}
  /\ Choice(n)
  /\ UNCHANGED reported

\* A reading the device has reported takes the place of the one before.
Learn(n, r) ==
  /\ [name |-> n, reading |-> r] \in reported
  /\ directory' = {e \in directory : e.name # n} \cup {[name |-> n, reading |-> r]}
  /\ Choice(n)
  /\ UNCHANGED reported

Choose(n) ==
  /\ n \in Known /\ chosen' = n
  /\ UNCHANGED <<directory, reported>>

Next ==
  \E n \in Names :
    Meet(n) \/ Choose(n) \/ \E r \in Readings : Report(n, r) \/ Learn(n, r)

Spec == Init /\ [][Next]_vars
=============================================================================
