--------------------------- MODULE GatewayDevices ---------------------------
(***************************************************************************)
(* The device registry of the gateway (dev_attr, dev_num) and the two      *)
(* threads that write it: the UDP thread, which registers nodes and stores *)
(* what they report (applications/udp_server.c), and the LVGL thread,      *)
(* whose status screen toggles a switch and broadcasts the command         *)
(* (applications/lvgl_sn_interface.c).  Neither takes a lock.              *)
(*                                                                         *)
(* The UDP thread has priority 15 and the LVGL thread 20: a report may be  *)
(* handled between any two steps of a GUI callback, never the reverse.     *)
(***************************************************************************)
EXTENDS Naturals, Sequences, FiniteSets

CONSTANTS
  Nodes,       \* identities (two bytes of a datagram) of the sensor nodes
  Strangers,   \* identities of datagrams that are not reports
  NoName,      \* the name of an entry of dev_attr nobody has registered
  MaxDev,      \* entries of the array dev_attr
  Readings,    \* a reading: temperature and humidity
  NoReading,   \* the zeroes an entry holds before its first report
  Channels,    \* switch channels of a node
  MaxInbox,    \* bound: datagrams queued on the socket
  MaxCommands  \* bound: commands on their way to the nodes

Names == Nodes \cup Strangers
Slots == 0 .. MaxDev - 1
Status == [Channels -> BOOLEAN]

ASSUME DeviceAssumption ==
  /\ Names # {}
  /\ NoName \notin Names /\ NoReading \notin Readings
  /\ MaxDev \in Nat \ {0}
  /\ MaxInbox \in Nat /\ MaxCommands \in Nat

VARIABLES
  devNum,    \* dev_num
  devAttr,   \* dev_attr[i].cfg: name, reading and switch_status
  overrun,   \* an entry past the end of dev_attr has been written
  recvName,  \* the identity bytes left in recv_data by the last datagram
  inbox,     \* datagrams queued on the UDP socket
  selected,  \* device_selected_id
  shown,     \* state of the switch widgets dev_sw[] of the status screen
  pending,   \* the toggle sw_cb has stored but not yet sent
  commands,  \* commands broadcast and not yet received by a node
  nodeSw,    \* the switches of the nodes themselves
  reported   \* history: the readings each node has reported

vars == <<devNum, devAttr, overrun, recvName, inbox, selected, shown, pending,
          commands, nodeSw, reported>>

registry == <<devNum, devAttr, overrun, recvName>>
gui == <<selected, shown, pending>>

AllOff == [c \in Channels |-> FALSE]
EmptyEntry == [name |-> NoName, reading |-> NoReading, sw |-> AllOff]
Entries == [name : Names \cup {NoName}, reading : Readings \cup {NoReading},
            sw : Status]
Reports == [valid : {TRUE}, name : Nodes, reading : Readings, sw : Status]
Strays == [valid : {FALSE}, name : Names]
Toggles == [ch : Channels, on : BOOLEAN]
None == {}  \* no toggle pending

-----------------------------------------------------------------------------
(* The UDP thread *)

\* Variants of Matching: the search stops one entry early, or compares too
\* little of the identity.
MatchingButLast(name) == {i \in Slots : i + 1 < devNum /\ devAttr[i].name = name}
MatchingLoosely(name) == {i \in Slots : i < devNum}

\* get_dev_index: the entries that carry the identity bytes of the datagram.
Matching(name) == {i \in Slots : i < devNum /\ devAttr[i].name = name}
FirstOf(S) == CHOOSE i \in S : \A j \in S : i <= j

\* Variant of NewIndex: the entry registered last.
LastIndex == IF devNum = 0 THEN 0 ELSE devNum - 1

\* Where udptest_entry registers a new identity, whatever the size of dev_attr:
\* with devNum = MaxDev the entry is past its end.
NewIndex == devNum

\* A new entry gets the identity of the datagram, be it a report or not.
Identified(old, name) == [old EXCEPT !.name = name]

\* Variants of Stored: what is not a report is stored, too; the switches of a
\* report are not.
StoredUnchecked(old, d) ==
  [old EXCEPT !.reading = IF d.valid THEN d.reading ELSE d.name]
StoredStatusless(old, d) == IF d.valid THEN [old EXCEPT !.reading = d.reading] ELSE old

\* udp_data_process stores a report in the entry of its identity; anything but 16
\* bytes with header 0xD0 (d.valid) it leaves alone.
Stored(old, d) ==
  IF d.valid THEN [old EXCEPT !.reading = d.reading, !.sw = d.sw] ELSE old

\* One turn of udptest_entry after recvfrom has filled recv_data: look the
\* identity up, register it when it is new, and store what the datagram says.
\* An entry past the end of dev_attr is left out by EXCEPT.
HandleDatagram(d) ==
  LET known == Matching(d.name) # {}
      i == IF known THEN FirstOf(Matching(d.name)) ELSE NewIndex
  IN  /\ recvName' = d.name
      /\ devNum' = IF known THEN devNum ELSE devNum + 1
      /\ overrun' = (i \notin Slots)
      /\ devAttr' = [devAttr EXCEPT
                       ![i] = Stored(IF known THEN @ ELSE Identified(@, d.name), d)]

\* A datagram is received.
UdpReceive ==
  /\ ~overrun /\ inbox # <<>>
  /\ HandleDatagram(Head(inbox))
  /\ inbox' = Tail(inbox)
  /\ UNCHANGED <<selected, shown, pending, commands, nodeSw, reported>>

\* recvfrom fails: the identity is what the previous datagram left behind, and
\* the negative length is rejected.
UdpReceiveFails ==
  /\ ~overrun
  /\ HandleDatagram([valid |-> FALSE, name |-> recvName])
  /\ UNCHANGED <<inbox, selected, shown, pending, commands, nodeSw, reported>>

-----------------------------------------------------------------------------
(* The LVGL thread: the status screen *)

\* timer_cb, once a second: the widgets follow the registry.
RefreshStatus ==
  /\ pending = None
  /\ shown' = devAttr[selected].sw
  /\ UNCHANGED <<registry, inbox, selected, pending, commands, nodeSw, reported>>

\* list_btn_cb: another device is selected and shown.
SelectDevice(i) ==
  /\ pending = None
  /\ i < devNum
  /\ selected' = i
  /\ shown' = devAttr[i].sw
  /\ UNCHANGED <<registry, inbox, pending, commands, nodeSw, reported>>

\* sw_cb, first half: the widget the user flipped is copied to the registry.
ToggleSwitch(c) ==
  /\ pending = None
  /\ shown' = [shown EXCEPT ![c] = ~ @]
  /\ devAttr' = [devAttr EXCEPT ![selected].sw[c] = ~ shown[c]]
  /\ pending' = {[ch |-> c, on |-> ~ shown[c]]}
  /\ UNCHANGED <<devNum, overrun, recvName, inbox, selected, commands, nodeSw,
                 reported>>

\* sw_cb, second half: udp_send_command reads the name and every switch of the
\* entry again and broadcasts them; a failed sendto is only logged.
SendCommand ==
  /\ pending # None
  /\ LET cmd == [name |-> devAttr[selected].name, sw |-> devAttr[selected].sw]
     IN  \/ /\ Cardinality(commands \cup {cmd}) <= MaxCommands
            /\ commands' = commands \cup {cmd}
         \/ UNCHANGED commands
  /\ pending' = None
  /\ UNCHANGED <<registry, inbox, selected, shown, nodeSw, reported>>

-----------------------------------------------------------------------------
(* The nodes and the network: reports and commands may be late or lost, and *)
(* other datagrams reach the socket too.                                    *)

\* A report that is lost on the way is one that is never sent.
NodeReport(n) ==
  /\ Len(inbox) < MaxInbox
  /\ \E r \in Readings :
       /\ inbox' = Append(inbox, [valid |-> TRUE, name |-> n, reading |-> r,
                                  sw |-> nodeSw[n]])
       /\ reported' = reported \cup {[name |-> n, reading |-> r]}
  /\ UNCHANGED <<registry, gui, commands, nodeSw>>

StrayDatagram(s) ==
  /\ Len(inbox) < MaxInbox
  /\ inbox' = Append(inbox, [valid |-> FALSE, name |-> s])
  /\ UNCHANGED <<registry, gui, commands, nodeSw, reported>>

NodeApply(cmd) ==
  /\ nodeSw' = [n \in Nodes |-> IF n = cmd.name THEN cmd.sw ELSE nodeSw[n]]
  /\ commands' = commands \ {cmd}
  /\ UNCHANGED <<registry, inbox, gui, reported>>

-----------------------------------------------------------------------------
Init ==
  /\ devNum = 0
  /\ devAttr = [i \in Slots |-> EmptyEntry]
  /\ overrun = FALSE
  /\ recvName \in Strangers  \* recv_data is an uninitialised stack buffer
  /\ inbox = <<>>
  /\ selected = 0
  /\ shown = AllOff
  /\ pending = None
  /\ commands = {}
  /\ nodeSw \in [Nodes -> Status]
  /\ reported = {}

Udp == UdpReceive \/ UdpReceiveFails
Gui == \/ RefreshStatus
       \/ \E i \in Slots : SelectDevice(i)
       \/ \E c \in Channels : ToggleSwitch(c)
       \/ SendCommand
Environment == \/ \E n \in Nodes : NodeReport(n)
               \/ \E s \in Names : StrayDatagram(s)
               \/ \E cmd \in commands : NodeApply(cmd)

Next == Udp \/ Gui \/ Environment

\* The UDP thread is never starved, since only the umqtt threads and the kernel
\* have a higher priority and they block; LVGL runs its timers for ever; a node
\* reports periodically and not all of its reports are lost.
Spec == /\ Init /\ [][Next]_vars
        /\ WF_vars(UdpReceive) /\ WF_vars(RefreshStatus) /\ WF_vars(SendCommand)
        /\ \A n \in Nodes : SF_vars(NodeReport(n))

-----------------------------------------------------------------------------
(* Properties *)

TypeOK ==
  /\ devNum \in Nat
  /\ devAttr \in [Slots -> Entries]
  /\ overrun \in BOOLEAN
  /\ recvName \in Names
  /\ inbox \in Seq(Reports \cup Strays)
  /\ selected \in Slots
  /\ shown \in Status
  /\ pending \in SUBSET Toggles
  /\ commands \in SUBSET [name : Names \cup {NoName}, sw : Status]
  /\ nodeSw \in [Nodes -> Status]
  /\ reported \in SUBSET [name : Nodes, reading : Readings]

Registered == {i \in Slots : i < devNum}

\* A node has one entry: get_dev_index finds it again whatever arrived in
\* between, so udptest_entry never registers it twice.
UniqueNames ==
  \A i, j \in Registered : devAttr[i].name = devAttr[j].name => i = j

\* The temperature and humidity stored for a device were reported by that very
\* node: no short, foreign or failed datagram, and no switch command, makes
\* udp_data_process store one node's reading in another's entry.
ReadingsAreOwn ==
  \A i \in Slots : devAttr[i].reading # NoReading =>
    [name |-> devAttr[i].name, reading |-> devAttr[i].reading] \in reported

\* An index is a stable handle of its device: the GUI buttons, the selected
\* device and the alarm thread keep indices while the UDP thread registers
\* others, the last of them past the end of dev_attr.
StableHandles ==
  [][/\ devNum' >= devNum
     /\ \A i \in Registered : devAttr'[i].name = devAttr[i].name]_vars

\* A report that has reached the socket gets its node registered, behind
\* however many other datagrams, unless one of these is registered past the end
\* of dev_attr.
ReportRegisters ==
  \A n \in Nodes :
    (\E k \in DOMAIN inbox : inbox[k].valid /\ inbox[k].name = n)
      ~> (overrun \/ \E i \in Registered : devAttr[i].name = n)

\* The status screen follows the node: whatever was toggled, sent, lost or
\* reported before, the widgets come to show the switches of the selected node
\* once these stay as they are and the user leaves them alone
\* (udp_data_process, dev_status_update).
Settled(n, s) == /\ devAttr[selected].name = n /\ selected < devNum
                 /\ nodeSw[n] = s /\ pending = None
ScreenFollowsNode ==
  \A n \in Nodes, s \in Status :
    <>[]Settled(n, s) => <>[](shown = s \/ overrun)

\* What the user switched is what is sent: the command of a toggle carries the
\* toggled value (sw_cb, udp_send_command).
CommandCarriesToggle ==
  \A t \in pending : devAttr[selected].sw[t.ch] = t.on

-----------------------------------------------------------------------------
(* The registry implements a directory of devices *)

Directory == {[name |-> devAttr[i].name, reading |-> devAttr[i].reading] :
                i \in Registered}
Chosen == IF selected \in Registered THEN devAttr[selected].name ELSE NoName

Promise == INSTANCE DeviceDirectory WITH directory <- Directory, chosen <- Chosen

\* Through the array, its indices and the two threads, the gateway keeps a
\* directory: no device is ever forgotten, mixed up with another or given a
\* reading it has not reported, and the device the user looks at changes only
\* when the user chooses another (udptest_entry, list_btn_cb).
ImplementsDirectory == Promise!Spec

=============================================================================
