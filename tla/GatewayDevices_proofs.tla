----------------------- MODULE GatewayDevices_proofs -----------------------
(***************************************************************************)
(* The registry of devices, for any number of nodes, strangers, entries,     *)
(* readings and switch channels, and any bound on the datagrams and          *)
(* commands under way.                                                       *)
(*                                                                           *)
(* What udptest_entry does with a datagram depends on UniqueNames already:   *)
(* get_dev_index returns the first entry with the identity, and it is the    *)
(* only one.  A reading is its node's own because what waits on the socket   *)
(* has been reported (InboxReported) and an entry that is about to be        *)
(* registered holds no reading (Fresh).  Nothing is claimed of what the     *)
(* thread does once it has written past the end of dev_attr (overrun).       *)
(***************************************************************************)
EXTENDS GatewayDevices, TLAPS

\* The reports on the socket have been made by their nodes.
InboxReported ==
  \A k \in DOMAIN inbox : inbox[k].valid =>
    [name |-> inbox[k].name, reading |-> inbox[k].reading] \in reported

\* An entry that is not registered holds no reading.
Fresh == \A i \in Slots : i >= devNum => devAttr[i].reading = NoReading

\* A registered entry has the identity of a datagram.
Named == \A i \in Registered : devAttr[i].name \in Names

IInv == TypeOK /\ UniqueNames /\ ReadingsAreOwn /\ InboxReported /\ Fresh /\ Named

USE DeviceAssumption

-----------------------------------------------------------------------------
(* One datagram *)

\* get_dev_index finds the entry of a registered identity.
LEMMA FirstOfMatching ==
  ASSUME TypeOK, UniqueNames, NEW name \in Names, Matching(name) # {}
  PROVE  FirstOf(Matching(name)) \in Matching(name)
<1>1. PICK i \in Matching(name) : TRUE
  OBVIOUS
<1>2. \A j \in Matching(name) : j = i
  BY <1>1 DEF Matching, UniqueNames, Registered
<1>3. i \in Nat
  BY DEF Matching, Slots
<1>4. \E x \in Matching(name) : \A j \in Matching(name) : x <= j
  BY <1>2, <1>3
<1> QED
  BY <1>4 DEF FirstOf

\* What a turn of udptest_entry does to the registry: it works on one entry i,
\* the one that has the identity or the next one, gives it the identity, and
\* replaces its reading by that of a report or leaves it alone.
Handled(d, i) ==
  /\ \/ i \in Registered /\ devAttr[i].name = d.name /\ devNum' = devNum
     \/ /\ i = devNum /\ devNum' = devNum + 1
        /\ \A j \in Registered : devAttr[j].name # d.name
  /\ overrun' = (i \notin Slots)
  /\ recvName' = d.name
  /\ devAttr' \in [Slots -> Entries]
  /\ \A j \in Slots : j # i => devAttr'[j] = devAttr[j]
  /\ i \in Slots =>
       /\ devAttr'[i].name = d.name
       /\ devAttr'[i].reading = IF d.valid THEN d.reading ELSE devAttr[i].reading

LEMMA DatagramHandled ==
  ASSUME TypeOK, UniqueNames, NEW d \in Reports \cup Strays, HandleDatagram(d)
  PROVE  \E i \in Nat : Handled(d, i)
<1> DEFINE known == Matching(d.name) # {}
           i == IF known THEN FirstOf(Matching(d.name)) ELSE devNum
<1>1. d.name \in Names
  BY DEF Reports, Strays, Names
<1>2. known => i \in Registered /\ devAttr[i].name = d.name
  BY <1>1, FirstOfMatching DEF Matching, Registered
<1>3. ~ known => \A j \in Registered : devAttr[j].name # d.name
  BY DEF Matching, Registered
<1>4. i \in Nat
  BY <1>2 DEF TypeOK, Registered, Slots
<1> DEFINE old == IF known THEN devAttr[i] ELSE Identified(devAttr[i], d.name)
<1>5. devAttr' = [devAttr EXCEPT ![i] = Stored(old, d)]
  BY DEF HandleDatagram, NewIndex
<1>6. ASSUME NEW e \in Entries, e.name = d.name
      PROVE  /\ Stored(e, d) \in Entries /\ Stored(e, d).name = d.name
             /\ Stored(e, d).reading = IF d.valid THEN d.reading ELSE e.reading
  <2>1. CASE d.valid
    <3>1. d.reading \in Readings /\ d.sw \in Status
      BY <2>1 DEF Reports, Strays
    <3> QED
      BY <1>6, <2>1, <3>1 DEF Stored, Entries
  <2>2. CASE ~ d.valid
    BY <1>6, <2>2 DEF Stored, Entries
  <2> QED
    BY <2>1, <2>2
<1>7. ASSUME i \in Slots
      PROVE  /\ old \in Entries /\ old.name = d.name
             /\ old.reading = devAttr[i].reading
  <2>1. devAttr[i] \in Entries
    BY <1>7 DEF TypeOK
  <2>2. CASE known
    BY <1>2, <2>1, <2>2
  <2>3. CASE ~ known
    BY <1>1, <2>1, <2>3 DEF Identified, Entries
  <2> QED
    BY <2>2, <2>3
<1>8. /\ devAttr' \in [Slots -> Entries]
      /\ \A j \in Slots : j # i => devAttr'[j] = devAttr[j]
      /\ i \in Slots =>
           /\ devAttr'[i].name = d.name
           /\ devAttr'[i].reading = IF d.valid THEN d.reading ELSE devAttr[i].reading
  <2> HIDE DEF i, old
  <2> QED
    BY <1>5, <1>6, <1>7 DEF TypeOK
<1>9. /\ devNum' = IF known THEN devNum ELSE devNum + 1
      /\ overrun' = (i \notin Slots) /\ recvName' = d.name
  BY DEF HandleDatagram, NewIndex
<1>10. Handled(d, i)
  BY <1>2, <1>3, <1>8, <1>9 DEF Handled
<1> QED
  BY <1>4, <1>10

-----------------------------------------------------------------------------
(* The invariant *)

LEMMA InitIInv == Init => IInv
<1> SUFFICES ASSUME Init PROVE IInv
  OBVIOUS
<1>1. AllOff \in Status /\ EmptyEntry \in Entries
  BY DEF AllOff, Status, EmptyEntry, Entries
<1>2. inbox \in Seq(Reports \cup Strays)
  BY DEF Init
<1>3. TypeOK
  BY <1>1, <1>2 DEF Init, TypeOK, Names, Slots, None
<1>4. UniqueNames /\ ReadingsAreOwn /\ InboxReported /\ Fresh /\ Named
  BY DEF Init, UniqueNames, ReadingsAreOwn, InboxReported, Fresh, Named, Registered,
         EmptyEntry, Slots
<1> QED
  BY <1>3, <1>4 DEF IInv

\* A datagram, be it a report that its node has made or not, leaves the registry
\* with one entry per identity and every reading with its node.
LEMMA DatagramStep ==
  ASSUME IInv, NEW d \in Reports \cup Strays, HandleDatagram(d),
         d.valid => [name |-> d.name, reading |-> d.reading] \in reported,
         inbox' \in Seq(Reports \cup Strays), InboxReported',
         UNCHANGED <<selected, shown, pending, commands, nodeSw, reported>>
  PROVE  IInv'
<1>1. PICK i \in Nat : Handled(d, i)
  BY DatagramHandled DEF IInv
<1>2. d.name \in Names
  BY DEF Reports, Strays, Names
<1>3. TypeOK'
  BY <1>1, <1>2 DEF IInv, TypeOK, Handled
<1>4. UniqueNames'
  BY <1>1 DEF IInv, TypeOK, UniqueNames, Registered, Handled, Slots
<1>5. ReadingsAreOwn'
  <2> SUFFICES ASSUME NEW j \in Slots, devAttr'[j].reading # NoReading
               PROVE  [name |-> devAttr'[j].name, reading |-> devAttr'[j].reading]
                        \in reported
    BY DEF ReadingsAreOwn
  <2>1. CASE j # i
    BY <2>1, <1>1 DEF IInv, ReadingsAreOwn, Handled
  <2>2. CASE j = i /\ d.valid
    BY <2>2, <1>1 DEF Handled
  <2>3. CASE j = i /\ ~ d.valid
    <3>1. devAttr'[j].reading = devAttr[j].reading /\ devAttr'[j].name = d.name
      BY <2>3, <1>1 DEF Handled
    <3>2. i # devNum
      BY <2>3, <3>1 DEF IInv, Fresh, TypeOK
    <3>3. devAttr[j].name = d.name
      BY <2>3, <3>2, <1>1 DEF Handled
    <3> QED
      BY <3>1, <3>3 DEF IInv, ReadingsAreOwn
  <2> QED
    BY <2>1, <2>2, <2>3
<1>6. Fresh'
  BY <1>1 DEF IInv, TypeOK, Fresh, Handled, Registered, Slots
<1>7. Named'
  BY <1>1, <1>2 DEF IInv, TypeOK, Named, Handled, Registered, Slots
<1> QED
  BY <1>3, <1>4, <1>5, <1>6, <1>7 DEF IInv

LEMMA UdpReceiveStep == ASSUME IInv, UdpReceive PROVE IInv'
<1>1. inbox \in Seq(Reports \cup Strays) /\ inbox # <<>>
  BY DEF IInv, TypeOK, UdpReceive
<1>2. /\ Head(inbox) \in Reports \cup Strays /\ Head(inbox) = inbox[1]
      /\ 1 \in DOMAIN inbox
      /\ Tail(inbox) \in Seq(Reports \cup Strays)
      /\ \A k \in DOMAIN Tail(inbox) : k + 1 \in DOMAIN inbox
                                      /\ Tail(inbox)[k] = inbox[k + 1]
  BY <1>1
<1>3. InboxReported'
  BY <1>2 DEF IInv, InboxReported, UdpReceive
<1> QED
  BY <1>2, <1>3, DatagramStep DEF IInv, InboxReported, UdpReceive

LEMMA UdpReceiveFailsStep == ASSUME IInv, UdpReceiveFails PROVE IInv'
<1> DEFINE d == [valid |-> FALSE, name |-> recvName]
<1>1. d \in Reports \cup Strays /\ ~ d.valid
  BY DEF IInv, TypeOK, Strays
<1>2. InboxReported'
  BY DEF IInv, InboxReported, UdpReceiveFails
<1> QED
  BY <1>1, <1>2, DatagramStep DEF IInv, TypeOK, UdpReceiveFails

\* The status screen writes nothing of the registry but switches.
LEMMA GuiStep == ASSUME IInv, Gui PROVE IInv'
<1> USE DEF IInv
<1>1. CASE RefreshStatus
  <2>1. shown' \in Status
    BY <1>1 DEF RefreshStatus, TypeOK, Entries
  <2> QED
    BY <1>1, <2>1 DEF RefreshStatus, registry, TypeOK, UniqueNames, ReadingsAreOwn,
                      InboxReported, Fresh, Named, Registered
<1>2. ASSUME NEW i \in Slots, SelectDevice(i) PROVE IInv'
  <2>1. shown' \in Status
    BY <1>2 DEF SelectDevice, TypeOK, Entries
  <2> QED
    BY <1>2, <2>1 DEF SelectDevice, registry, TypeOK, UniqueNames, ReadingsAreOwn,
                      InboxReported, Fresh, Named, Registered
<1>3. ASSUME NEW c \in Channels, ToggleSwitch(c) PROVE IInv'
  <2> DEFINE sw == [devAttr[selected].sw EXCEPT ![c] = ~ shown[c]]
             entry == [devAttr[selected] EXCEPT !.sw = sw]
  <2>1. (~ shown[c]) \in BOOLEAN
    OBVIOUS
  <2>2. shown' \in Status
    BY <1>3, Zenon DEF ToggleSwitch, TypeOK, Status
  <2>3. pending' \in SUBSET Toggles
    <3>1. [ch |-> c, on |-> ~ shown[c]] \in Toggles
      BY <2>1, Zenon DEF Toggles
    <3> QED
      BY <1>3, <3>1 DEF ToggleSwitch
  <2>4. devAttr[selected] \in Entries
    BY DEF TypeOK
  <2>5. sw \in Status
    <3>1. devAttr[selected].sw \in Status
      BY <2>4 DEF Entries
    <3> QED
      BY <3>1, Zenon DEF Status
  <2>6. /\ entry \in Entries /\ entry.name = devAttr[selected].name
        /\ entry.reading = devAttr[selected].reading
    <3> HIDE DEF sw
    <3> QED
      BY <2>4, <2>5 DEF Entries
  <2>7. devAttr' = [devAttr EXCEPT ![selected] = entry]
    BY <1>3, Zenon DEF ToggleSwitch
  <2> HIDE DEF entry
  <2>8. devAttr' \in [Slots -> Entries]
    BY <2>6, <2>7 DEF TypeOK
  <2>9. \A i \in Slots : /\ devAttr'[i].name = devAttr[i].name
                         /\ devAttr'[i].reading = devAttr[i].reading
    BY <2>6, <2>7 DEF TypeOK
  <2> QED
    BY <1>3, <2>2, <2>3, <2>8, <2>9
    DEF ToggleSwitch, TypeOK, UniqueNames, ReadingsAreOwn, InboxReported, Fresh, Named,
        Registered
<1>4. CASE SendCommand
  <2>1. devAttr[selected] \in Entries
    BY DEF TypeOK
  <2>2. commands' \in SUBSET [name : Names \cup {NoName}, sw : Status]
    BY <1>4, <2>1 DEF SendCommand, TypeOK, Entries
  <2> QED
    BY <1>4, <2>2 DEF SendCommand, registry, TypeOK, None, UniqueNames, ReadingsAreOwn,
                      InboxReported, Fresh, Named, Registered
<1> QED
  BY <1>1, <1>2, <1>3, <1>4 DEF Gui

LEMMA EnvironmentStep == ASSUME IInv, Environment PROVE IInv'
<1> USE DEF IInv
<1>1. ASSUME NEW n \in Nodes, NodeReport(n) PROVE IInv'
  <2>1. PICK r \in Readings :
          /\ inbox' = Append(inbox, [valid |-> TRUE, name |-> n, reading |-> r,
                                     sw |-> nodeSw[n]])
          /\ reported' = reported \cup {[name |-> n, reading |-> r]}
    BY <1>1 DEF NodeReport
  <2> DEFINE d == [valid |-> TRUE, name |-> n, reading |-> r, sw |-> nodeSw[n]]
  <2>2. d \in Reports
    BY DEF TypeOK, Reports
  <2>3. inbox' \in Seq(Reports \cup Strays)
    BY <2>1, <2>2 DEF TypeOK
  <2>4. \A k \in DOMAIN inbox' : \/ k \in DOMAIN inbox /\ inbox'[k] = inbox[k]
                                 \/ inbox'[k] = d
    BY <2>1 DEF TypeOK
  <2>5. InboxReported'
    BY <2>1, <2>4 DEF InboxReported
  <2> QED
    BY <1>1, <2>1, <2>3, <2>5
    DEF NodeReport, registry, gui, TypeOK, UniqueNames, ReadingsAreOwn, Fresh, Named,
        Registered
<1>2. ASSUME NEW s \in Names, StrayDatagram(s) PROVE IInv'
  <2> DEFINE d == [valid |-> FALSE, name |-> s]
  <2>1. d \in Strays /\ ~ d.valid
    BY DEF Strays
  <2>2. inbox' = Append(inbox, d)
    BY <1>2 DEF StrayDatagram
  <2>3. inbox' \in Seq(Reports \cup Strays)
    BY <2>1, <2>2 DEF TypeOK
  <2>4. \A k \in DOMAIN inbox' : \/ k \in DOMAIN inbox /\ inbox'[k] = inbox[k]
                                 \/ inbox'[k] = d
    BY <2>2 DEF TypeOK
  <2>5. InboxReported'
    BY <1>2, <2>1, <2>4 DEF InboxReported, StrayDatagram
  <2> QED
    BY <1>2, <2>3, <2>5
    DEF StrayDatagram, registry, gui, TypeOK, UniqueNames, ReadingsAreOwn, Fresh, Named,
        Registered
<1>3. ASSUME NEW cmd \in commands, NodeApply(cmd) PROVE IInv'
  <2>1. cmd.sw \in Status
    BY DEF TypeOK
  <2>2. nodeSw' \in [Nodes -> Status] /\ commands' \subseteq commands
    BY <1>3, <2>1 DEF NodeApply, TypeOK
  <2> QED
    BY <1>3, <2>2
    DEF NodeApply, registry, gui, TypeOK, UniqueNames, ReadingsAreOwn, InboxReported,
        Fresh, Named, Registered
<1> QED
  BY <1>1, <1>2, <1>3 DEF Environment

LEMMA Step == IInv /\ [Next]_vars => IInv'
<1> SUFFICES ASSUME IInv, [Next]_vars PROVE IInv'
  OBVIOUS
<1>1. CASE Udp
  BY <1>1, UdpReceiveStep, UdpReceiveFailsStep DEF Udp
<1>2. CASE Gui
  BY <1>2, GuiStep
<1>3. CASE Environment
  BY <1>3, EnvironmentStep
<1>4. CASE UNCHANGED vars
  BY <1>4 DEF vars, IInv, TypeOK, UniqueNames, ReadingsAreOwn, InboxReported, Fresh,
              Named, Registered
<1> QED
  BY <1>1, <1>2, <1>3, <1>4 DEF Next

\* The inductive invariant holds in every state.
THEOREM Invariance == Spec => []IInv
  BY InitIInv, Step, PTL DEF Spec

-----------------------------------------------------------------------------
(* What follows *)

\* Type correctness of the registry, the socket and the status screen.
THEOREM TypeCorrect == Spec => []TypeOK
<1>1. IInv => TypeOK
  BY DEF IInv
<1> QED
  BY <1>1, Invariance, PTL

\* get_dev_index and the registration in udptest_entry keep one entry per
\* identity, for any number of nodes and any order of datagrams.
THEOREM NamesUnique == Spec => []UniqueNames
<1>1. IInv => UniqueNames
  BY DEF IInv
<1> QED
  BY <1>1, Invariance, PTL

\* udp_data_process stores every reading with the node that reported it.
THEOREM ReadingsOwn == Spec => []ReadingsAreOwn
<1>1. IInv => ReadingsAreOwn
  BY DEF IInv
<1> QED
  BY <1>1, Invariance, PTL

\* The index of a device, which the GUI and the alarm thread keep, is its handle
\* for good: no datagram and no toggle moves or renames an entry.
THEOREM HandlesStable == Spec => StableHandles
<1> DEFINE Stable == /\ devNum' >= devNum
                     /\ \A i \in Registered : devAttr'[i].name = devAttr[i].name
<1>1. IInv /\ [Next]_vars => [Stable]_vars
  <2> SUFFICES ASSUME IInv, Next PROVE Stable
    OBVIOUS
  <2>1. ASSUME NEW d \in Reports \cup Strays, HandleDatagram(d) PROVE Stable
    <3>1. PICK i \in Nat : Handled(d, i)
      BY <2>1, DatagramHandled DEF IInv
    <3> QED
      BY <3>1 DEF Handled, IInv, TypeOK, Registered, Slots
  <2>2. CASE UdpReceive
    <3>1. Head(inbox) \in Reports \cup Strays
      BY <2>2 DEF UdpReceive, IInv, TypeOK
    <3> QED
      BY <2>1, <2>2, <3>1 DEF UdpReceive
  <2>3. CASE UdpReceiveFails
    <3>1. [valid |-> FALSE, name |-> recvName] \in Reports \cup Strays
      BY DEF IInv, TypeOK, Strays
    <3> QED
      BY <2>1, <2>3, <3>1 DEF UdpReceiveFails
  <2>4. ASSUME NEW c \in Channels, ToggleSwitch(c) PROVE Stable
    BY <2>4 DEF ToggleSwitch, IInv, TypeOK, Entries, Registered
  <2>5. CASE UNCHANGED <<devNum, devAttr>>
    BY <2>5 DEF IInv, TypeOK
  <2> QED
    BY <2>2, <2>3, <2>4, <2>5
    DEF Next, Udp, Gui, Environment, RefreshStatus, SelectDevice, SendCommand, NodeReport,
        StrayDatagram, NodeApply, registry
<1> QED
  BY <1>1, Invariance, PTL DEF Spec, StableHandles

-----------------------------------------------------------------------------
(* The registry implements a directory *)

\* The selected index is that of a registered device, or the first one as long as
\* there is none.
SelectedKnown == selected < devNum \/ (devNum = 0 /\ selected = 0)

\* What a thread does that leaves names and readings alone changes no directory.
LEMMA DirectoryKept ==
  ASSUME Registered' = Registered,
         \A i \in Registered : /\ devAttr'[i].name = devAttr[i].name
                               /\ devAttr'[i].reading = devAttr[i].reading
  PROVE  /\ Directory' = Directory
         /\ selected' = selected => Chosen' = Chosen
  BY DEF Directory, Chosen

\* A datagram of a registered device: its reading is learned, or nothing is.
LEMMA KnownDatagram ==
  ASSUME IInv, NEW d \in Reports \cup Strays, NEW i \in Registered, Handled(d, i),
         devAttr[i].name = d.name, devNum' = devNum,
         UNCHANGED <<selected, reported>>,
         d.valid => [name |-> d.name, reading |-> d.reading] \in reported
  PROVE  [Promise!Next]_(Promise!vars)
<1>1. Registered' = Registered /\ i \in Slots
  BY DEF Registered
<1>2. \A j \in Registered : devAttr'[j].name = devAttr[j].name
  BY <1>1 DEF Handled, Registered
<1>3. Chosen' = Chosen
  BY <1>1, <1>2 DEF Chosen
<1>4. CASE ~ d.valid
  <2>1. \A j \in Registered : devAttr'[j].reading = devAttr[j].reading
    BY <1>1, <1>4 DEF Handled, Registered
  <2> QED
    BY <1>1, <1>2, <2>1, DirectoryKept DEF Promise!vars
<1>5. CASE d.valid
  <2> DEFINE e == [name |-> d.name, reading |-> d.reading]
  <2>1. d.name \in Names /\ d.reading \in Readings
    BY <1>5 DEF Reports, Strays, Names
  <2>2. Directory # {}
    BY DEF Directory
  <2>3. \A j \in Registered : devAttr[j].name = d.name => j = i
    BY DEF IInv, UniqueNames
  <2>4. /\ devAttr'[i].name = d.name /\ devAttr'[i].reading = d.reading
        /\ \A j \in Registered : j # i => devAttr'[j] = devAttr[j]
    BY <1>1, <1>5 DEF Handled, Registered
  <2>5. Directory' = {f \in Directory : f.name # d.name} \cup {e}
    BY <1>1, <2>3, <2>4 DEF Directory
  <2>6. Promise!Learn(d.name, d.reading)
    BY <1>3, <1>5, <2>2, <2>5 DEF Promise!Learn, Promise!Choice
  <2> QED
    BY <2>1, <2>6 DEF Promise!Next
<1> QED
  BY <1>4, <1>5

\* The first datagram of a device: the device is met or its reading learned; the
\* first of all is the one that is chosen.
LEMMA NewDatagram ==
  ASSUME IInv, SelectedKnown, NEW d \in Reports \cup Strays, Handled(d, devNum),
         devNum' = devNum + 1, \A j \in Registered : devAttr[j].name # d.name,
         UNCHANGED <<selected, reported>>,
         d.valid => [name |-> d.name, reading |-> d.reading] \in reported
  PROVE  [Promise!Next]_(Promise!vars)
<1>1. devNum \in Nat /\ selected \in Slots /\ d.name \in Names
  BY DEF IInv, TypeOK, Reports, Strays, Names
<1>2. \A j \in Registered : devAttr'[j] = devAttr[j]
  BY <1>1 DEF Handled, Registered, Slots
<1>3. CASE devNum \notin Slots
  <2>1. Registered' = Registered
    BY <1>1, <1>3 DEF Registered, Slots
  <2> QED
    BY <1>2, <2>1, DirectoryKept DEF Promise!vars
<1>4. CASE devNum \in Slots
  <2> DEFINE r == IF d.valid THEN d.reading ELSE NoReading
             e == [name |-> d.name, reading |-> r]
  <2>1. Registered' = Registered \cup {devNum}
    BY <1>1, <1>4 DEF Registered, Slots
  <2>2. devAttr[devNum].reading = NoReading
    BY <1>1, <1>4 DEF IInv, Fresh
  <2>3. devAttr'[devNum].name = d.name /\ devAttr'[devNum].reading = r
    BY <1>4, <2>2 DEF Handled
  <2> HIDE DEF r
  <2>4. Directory' = Directory \cup {e}
    BY <1>2, <2>1, <2>3 DEF Directory
  <2>5. \A f \in Directory : f.name # d.name
    BY DEF Directory
  <2>6. Chosen' = IF Directory = {} THEN d.name ELSE Chosen
    <3>1. CASE devNum = 0
      <4>1. Registered = {} /\ selected = 0
        BY <1>1, <3>1 DEF Registered, SelectedKnown, Slots
      <4>2. Directory = {}
        BY <4>1 DEF Directory
      <4>3. selected' = devNum
        BY <3>1, <4>1
      <4> QED
        BY <2>1, <2>3, <4>2, <4>3 DEF Chosen
    <3>2. CASE devNum # 0
      <4>1. selected \in Registered
        BY <1>1, <3>2 DEF SelectedKnown, Registered
      <4>2. Directory # {}
        BY <4>1 DEF Directory
      <4> QED
        BY <1>2, <2>1, <4>1, <4>2 DEF Chosen
    <3> QED
      BY <3>1, <3>2
  <2>7. CASE d.valid
    <3>1. r = d.reading /\ d.reading \in Readings
      BY <2>7 DEF r, Reports, Strays
    <3>2. {f \in Directory : f.name # d.name} = Directory
      BY <2>5
    <3>3. Promise!Learn(d.name, d.reading)
      BY <2>4, <2>6, <2>7, <3>1, <3>2 DEF Promise!Learn, Promise!Choice
    <3> QED
      BY <1>1, <3>1, <3>3 DEF Promise!Next
  <2>8. CASE ~ d.valid
    <3>1. r = NoReading
      BY <2>8 DEF r
    <3>2. Promise!Meet(d.name)
      BY <2>4, <2>5, <2>6, <3>1 DEF Promise!Meet, Promise!Choice, Promise!Known
    <3> QED
      BY <1>1, <3>2 DEF Promise!Next
  <2> QED
    BY <2>7, <2>8
<1> QED
  BY <1>3, <1>4

LEMMA DatagramImplements ==
  ASSUME IInv, SelectedKnown, NEW d \in Reports \cup Strays, HandleDatagram(d),
         UNCHANGED <<selected, reported>>,
         d.valid => [name |-> d.name, reading |-> d.reading] \in reported
  PROVE  [Promise!Next]_(Promise!vars) /\ SelectedKnown'
<1>1. PICK i \in Nat : Handled(d, i)
  BY DatagramHandled DEF IInv
<1>2. CASE i \in Registered /\ devAttr[i].name = d.name /\ devNum' = devNum
  BY <1>1, <1>2, KnownDatagram DEF SelectedKnown
<1>3. CASE /\ i = devNum /\ devNum' = devNum + 1
           /\ \A j \in Registered : devAttr[j].name # d.name
  BY <1>1, <1>3, NewDatagram DEF SelectedKnown, IInv, TypeOK, Slots
<1> QED
  BY <1>1, <1>2, <1>3 DEF Handled

LEMMA StepImplements ==
  IInv /\ SelectedKnown /\ [Next]_vars
    => [Promise!Next]_(Promise!vars) /\ SelectedKnown'
<1> SUFFICES ASSUME IInv, SelectedKnown, [Next]_vars
             PROVE  [Promise!Next]_(Promise!vars) /\ SelectedKnown'
  OBVIOUS
<1>1. CASE UdpReceive
  <2>1. /\ Head(inbox) \in Reports \cup Strays /\ Head(inbox) = inbox[1]
        /\ 1 \in DOMAIN inbox
    BY <1>1 DEF IInv, TypeOK, UdpReceive
  <2> QED
    BY <1>1, <2>1, DatagramImplements DEF UdpReceive, IInv, InboxReported
<1>2. CASE UdpReceiveFails
  <2> DEFINE d == [valid |-> FALSE, name |-> recvName]
  <2>1. d \in Reports \cup Strays /\ ~ d.valid
    BY DEF IInv, TypeOK, Strays
  <2> QED
    BY <1>2, <2>1, DatagramImplements DEF UdpReceiveFails
<1>3. ASSUME NEW i \in Slots, SelectDevice(i)
      PROVE  [Promise!Next]_(Promise!vars) /\ SelectedKnown'
  <2>1. /\ i \in Registered /\ selected' = i /\ Registered' = Registered
        /\ UNCHANGED <<devNum, devAttr, reported>>
    BY <1>3 DEF SelectDevice, Registered, registry
  <2>2. Directory' = Directory /\ Chosen' = devAttr[i].name
    BY <2>1 DEF Directory, Chosen
  <2>3. devAttr[i].name \in Names /\ devAttr[i].name \in Promise!Known
    <3> DEFINE e == [name |-> devAttr[i].name, reading |-> devAttr[i].reading]
    <3>1. e \in Directory /\ e.name = devAttr[i].name
      BY <2>1 DEF Directory
    <3> HIDE DEF e
    <3> QED
      BY <2>1, <3>1 DEF IInv, Named, Promise!Known
  <2>4. Promise!Choose(devAttr[i].name)
    BY <2>1, <2>2, <2>3 DEF Promise!Choose
  <2>5. SelectedKnown'
    BY <2>1 DEF SelectedKnown, Registered
  <2> QED
    BY <2>3, <2>4, <2>5 DEF Promise!Next
<1>4. ASSUME NEW c \in Channels, ToggleSwitch(c)
      PROVE  [Promise!Next]_(Promise!vars) /\ SelectedKnown'
  <2>1. \A i \in Registered : /\ devAttr'[i].name = devAttr[i].name
                               /\ devAttr'[i].reading = devAttr[i].reading
    BY <1>4 DEF ToggleSwitch, IInv, TypeOK, Entries, Registered
  <2>2. UNCHANGED <<devNum, selected, reported>> /\ Registered' = Registered
    BY <1>4 DEF ToggleSwitch, Registered
  <2> QED
    BY <2>1, <2>2, DirectoryKept DEF Promise!vars, SelectedKnown
<1>5. ASSUME NEW n \in Nodes, NodeReport(n)
      PROVE  [Promise!Next]_(Promise!vars) /\ SelectedKnown'
  <2>1. PICK r \in Readings : reported' = reported \cup {[name |-> n, reading |-> r]}
    BY <1>5 DEF NodeReport
  <2>2. UNCHANGED <<devNum, devAttr, selected>>
    BY <1>5 DEF NodeReport, registry, gui
  <2>3. UNCHANGED <<Directory, Chosen, Registered>>
    BY <2>2 DEF Directory, Chosen, Registered
  <2>4. Promise!Report(n, r) /\ n \in Names
    BY <2>1, <2>3 DEF Promise!Report, Names
  <2> QED
    BY <2>2, <2>4 DEF Promise!Next, SelectedKnown
<1>6. CASE UNCHANGED <<devNum, devAttr, selected, reported>>
  BY <1>6 DEF Directory, Chosen, Registered, Promise!vars, SelectedKnown
<1> QED
  BY <1>1, <1>2, <1>3, <1>4, <1>5, <1>6
  DEF Next, Udp, Gui, Environment, RefreshStatus, SendCommand, StrayDatagram, NodeApply,
      registry, gui, vars

\* The registry implements the directory of devices, for any number of nodes,
\* strangers and entries.
THEOREM DirectoryImplemented == Spec => ImplementsDirectory
<1>1. Init => Promise!Init /\ SelectedKnown
  <2> SUFFICES ASSUME Init  PROVE Promise!Init /\ SelectedKnown
    OBVIOUS
  <2>1. Registered = {}
    BY DEF Init, Registered, Slots
  <2> QED
    BY <2>1 DEF Init, Promise!Init, Directory, Chosen, SelectedKnown
<1> QED
  BY <1>1, StepImplements, Invariance, PTL DEF Spec, ImplementsDirectory, Promise!Spec
=============================================================================
