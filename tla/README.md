# Verification of the gateway

The repository is the firmware of a control gateway on an i.MX RT1060 (`imxrt1060-nxp-evk/`):
sensor nodes report temperature, humidity and switches over UDP, a touch screen (LVGL)
shows them and switches them, and an alarm thread notifies over MQTT, by mail and on the
screen. This directory holds TLA+ models of the parts of it that decide something, abstract
specifications that two of them implement, the TLC configurations that check them, and the
theorems that TLAPS proves about eight of them.
Paths below are relative to `imxrt1060-nxp-evk/`; `README_en.md` is the one beside that
directory. `PROJECT.json` maps every definition to the lines it is translated from.

## 1. Inventory

`main` (`applications/main.c`) starts the UDP thread, the MQTT client and the alarm thread;
the LVGL thread is started by the kernel. Priorities (a smaller number runs first): the two
threads of umqtt 8, `main` 10, UDP 15, LVGL 20, alarm 25. They share globals without any lock.

| component | state | operations | talks to |
|---|---|---|---|
| device registry, UDP protocol (`applications/udp_server.c`, `global.h`) | `dev_attr[5]`, `dev_num`, the receive buffer | `udptest_entry` (receive, register), `udp_data_process` (store a report), `udp_send_command` | nodes over UDP; its globals are read by every other thread |
| screens (`applications/lvgl_sn_interface.c`) | the open window, global pointers to widgets, `device_selected_id`, alarm settings in `dev_attr`, mail and FTP settings | opening and closing windows, `timer_cb` once a second, `dev_status_update`, `sw_cb`, `list_btn_cb`, `para_update`, the alarm settings | the registry, `udp_send_command`, the mail settings, FTP |
| alarm thread (`applications/alarm_timer.c`) | `last_alram_time`, loop index | `alram_timer_cb` once a second | registry (reads), MQTT, mail, message box |
| MQTT calls (`packages/umqtt-v1.0.0/src/umqtt.c`, `applications/umqtt_sample.c`) | `send_buf`, `msg_queue`, `packet_id`, the connection | `umqtt_publish`, `_async`, `umqtt_subscribe`, `umqtt_unsubscribe`, the receive thread, the subscription callback | broker; called by the alarm thread, the shell and its own receive thread |
| MQTT link (same file) | `connect_state`, `sock`, `reconnect_count`, `keepalive_count`, ticks | `umqtt_connect`, `umqtt_thread`, `mqtt_thread1` (ping, reconnect), `umqtt_stop` | socket layer, broker |
| MQTT subscriptions and delivery (same file, `applications/umqtt_sample.c`) | `sub_recv_list`, the walk of the receive thread | `umqtt_subscribe`, `umqtt_unsubscribe`, `umqtt_deliver_message`, `topicname_is_matched` | broker; the callback of the gateway, which publishes an answer from inside the walk |
| MQTT receive framing (same file) | `recv_buf`, the length being read, octets of the connection | `umqtt_handle_readpacket`, `umqtt_readpacket` | socket layer; hands complete packets to the handlers of the other MQTT components |
| inbound QoS 2 (same file) | the queue of QoS 2 messages | `add_one_qos2_msg`, the handler of PUBREL | nobody: the gateway subscribes with QoS 1 |
| alarm mail (`applications/send_mail.c`) | global `Context`, sockets, mail settings | `connectHost`, `login`, `sendmail`, `getResponse`, `send_mail`, `mail_alarm_up` | SMTP server; called by the alarm thread |
| log upload (`applications/zFTP_test.c`) | one FTP session | `ftp_upload` | called by a button of the remote window |
| clock and weather (`applications/httpclient_sample.c`) | one string | periodic fetch | read by `timer_cb` |

What is hard, and what correctness means for each:

* **Registry.** Reports, foreign datagrams and failed receives come in any order, while the
  GUI and the alarm thread hold indices into the array. A node must have one entry, its own
  readings, at an index that never moves, inside the array; a report must get its node
  registered; the screen must come to show what the node does, after toggles and commands
  that were lost or overtaken by late reports.
* **Screens.** The timer goes on through every change of windows, with global pointers to
  widgets that a window deletes. No deleted widget may be used; the alarm window must show
  the settings of the device that is selected, in whichever window that was done.
* **Alarm.** Devices appear and change in the middle of a scan; the tick counter wraps, is
  kept signed, and one time stamp serves all devices. Notifications must keep their
  distance, indices must be registered ones, and an alarm that persists must be notified.
* **MQTT calls.** Several threads and a callback share one send buffer and one queue of
  acknowledgements. Acknowledgements must not be used twice, success must mean that the
  broker has the message, and calls must return, also from the callback and over a loss.
* **MQTT link.** Two threads notice a loss, close and connect. A dead connection must be
  noticed, the client must come back.
* **MQTT subscriptions.** The list is changed by two threads, each after a wait, and walked
  without a lock by a third that may be in a callback for half a minute; the broker forgets
  its side with every connection. Client and broker must agree on what is subscribed, the
  list must keep its limit, a message must reach the filters that match it, and the walk
  must come to its end.
* **MQTT framing.** The octets of a packet come in any portions, its length decides how much
  is read where, and a packet that is too long is thrown away in parts. The thread must stay
  in step with the packets and inside its buffer, and must not wait for octets that do not
  come.
* **Mail.** A dialogue over a blocking socket with a server that may refuse at any command.
  A failed mail must not have been delivered, a refused command must end the dialogue, a
  dialogue must end, and a mail must carry its own alarm.

## 2. Modules

| module | models | state and actions |
|---|---|---|
| `GatewayDevices` (`MCGatewayDevices`) | registry, UDP thread, status screen, nodes and network | `UdpReceive`/`UdpReceiveFails` are one turn of `udptest_entry`; `RefreshStatus`, `SelectDevice`, `ToggleSwitch` + `SendCommand` the callbacks of the screen. `sw_cb` is two steps because the UDP thread preempts it between storing the toggle and reading it back for the command. |
| `GatewayAlarm` | alarm thread, its clock and the threads that write what it reads | `NextDevice`, `Compare`, `TestTime`, `MqttAlarmUp`, `MailAlarmUp`, `PopupAndStamp` are the steps of a scan. The thread has the lowest priority, so comparing a reading and testing the time are two steps; `Tick` lets time pass while the thread sleeps or is held up by a notification; `Register`, `Arm`, `Cross` are the other threads. |
| `GatewayScreens` | windows, their widgets, the global pointers, the alarm settings | one action per callback. A pointer and the widget it was set to have one name: `held` are the pointers that are not NULL, `live` the widgets that exist. |
| `UmqttExchange` (`MCUmqttExchange`) | calls, callback, receive thread, PINGREQ, broker | a call is encode (`Start`), `Send`, then `TakeAck` or `Timeout`. Encoding and sending are separate steps since another thread may encode in between. A packet is its type and identifier. |
| `UmqttLink` (`MCUmqttLink`) | `umqtt_thread` and `mqtt_thread1` | a step is a call of the socket layer with what follows it up to the next one: `umqtt_connect` is `Attempt` (the count of attempts), `Resolve`, `Dial`, `Drop`, `SendConnect`, and each closes or uses the socket that the client has by then. Intervals are abstracted to "may end now". |
| `UmqttTopics` | topic filters and names | `topicname_is_matched` and the comparison of prefixes as operators, and the rules of MQTT they are compared with. |
| `UmqttSubs` (`MCUmqttSubs`) | the list of subscriptions, main and the shell, the receive thread, the callback, the broker | a call is `Subscribe` or `Unsubscribe`, then `TakeAck` or `Timeout`; `Receive` starts the walk, `Publish`, `CallbackAck`, `CallbackTimeout` are the callback, which goes on with the walk when it returns; `Broker` answers, and may refuse with the return code of its SUBACK; `Lose`, `CloseLink`, `Reconnect` are the connection. |
| `UmqttFraming` (`MCUmqttFraming`) | `umqtt_handle_readpacket` on a stream of octets | `ReadHeader`, `Recv` (one return of `recv`, which may be late), `NothingToSkip`, `RecvFails`, `Reconnect`; `at` is the place in the code, `got` what the current `umqtt_readpacket` has read. |
| `MailSession` | the SMTP dialogue, `Context`, sockets, the server | `SendStep` and `ReadReply` are the two halves of each command of `login` and `sendmail`; a `recv` returns one or several replies, the last of them perhaps in part (`Left`); `Serve`, `Greet`, `Grumble`, `Close` are the server. |
| `GatewayNotify` | the alarm thread together with its mails | `MailAlarmUp` of `GatewayAlarm` is the last step of a whole dialogue of `MailSession`, during which the clock, the devices and the GUI go on. |
| `DeviceDirectory`, `AlarmNotifier` | what the registry and the alarm thread promise, without arrays, indices and counters | section 4 |
| `GatewayDevices_proofs`, `GatewayAlarm_proofs`, `GatewayScreens_proofs`, `UmqttExchange_proofs`, `UmqttLink_proofs`, `UmqttSubs_proofs`, `UmqttFraming_proofs`, `GatewayNotify_proofs` | | theorems, section 5 |

Definitions marked "a variant of" in a module are plausible slips in the code (a missing
test, a wrong order, a counter not incremented). No specification uses them; each property
has been seen to fail when the variant takes the place of the original, which `PROJECT.json`
records under `mutants`.

### Where the model stands for more than one line

* A received identity is looked up among the registered entries (`get_dev_index`), and written
  only into a new one; what udptest_entry stores past the end of `dev_attr`, which it does when
  there are more identities than entries, is recorded as `overrun`. Nothing is said of what the
  memory holds after that: the properties end there.
* `recv_data` is an uninitialised stack buffer, so the identity it holds before the first
  datagram is any identity outside the nodes.
* `alarm_switch` is set by `Arm` and never cleared: `ck_alram_cb` stores every state bit of
  the check box, and one that has just been touched is focused (section 6).
* Thresholds and readings are reduced in `GatewayAlarm` to whether a reading is beyond its
  threshold; `GatewayScreens` has the thresholds.
* PINGREQ is written over the head of `send_buf` while `send_len` keeps the length of the
  packet behind it: the buffer becomes `Garbled`, which the broker answers by closing.
* Entries of `sub_recv_list` are counted from the end, so that an entry inserted at the head
  changes the number of no other; entry 0 is one that was freed under the walk. The QoS of a
  subscription and the packet identifiers are left out of `UmqttSubs`: no test reads them.
* In `UmqttFraming` the 127 and 128 of the length octets are `Base - 1` and `Base`; a packet
  is a type and a body of octets, and what is done with it belongs to the other modules.
* In `UmqttLink`, a read by the receive thread ends when the socket is closed by whichever
  thread, and a socket number is reused, so one thread may close what the other has opened.

## 3. Runs

| run | shows | bounds |
|---|---|---|
| `GatewayDevices` | one entry per node, own readings, stable indices, a report registers its node, the screen follows the node | one node and two stray identities on two entries, one reading, one switch, two datagrams queued, one command on its way. Two entries are the smallest array in which an entry can be doubled, moved or mixed up, and three identities are too many for it: the array is overrun in this run. |
| `GatewayToggle` | **violated:** a report handled inside `sw_cb` puts the old switch back and the command carries the old value | one node |
| `AlarmScan` | indices are registered, notifications keep their distance, a persistent alarm is notified again, and each is of a reading that was found beyond its threshold | two devices, a counter that wraps at 8 with a cooldown of 2: it wraps several times, and the negative half of the signed difference is visited |
| `ExchangeCalls` | acknowledgements are conserved, the callback's own answer is never the one it takes, calls return; for one caller at a time with answers in time `UMQTT_OK` means accepted, over losses, pings, retries and the wrap of the identifiers | three plans: one call with the callback, one inbound message, one PINGREQ and one loss; two threads with a call each and a loss; three calls of four kinds by one thread at a time with a PINGREQ and a loss. Two identifiers, so that the third call uses the first one again. Two attempts per publish, two acknowledgements queued |
| `ExchangeStale` | **violated:** with the callback or a late answer `UMQTT_OK` does not mean accepted | one call, one inbound message |
| `LinkOnline` | a connection that breaks, also silently, is given up; when the broker is there and nothing breaks any more the client is online or tells that it has given up, whatever the two threads do to each other | two breaks, in silence or with a FIN, and a stop; or two breaks or outages. Pings are late or not, three attempts, two missed pings, two sockets: enough for both threads to connect at once, to lose a socket that way, and to use the attempts up |
| `SubsDelivery` | the list keeps its limit, messages go to the filters that match, a promise of the client lasts on a steady connection, the walk ends, what is listed is delivered | a list of one and two acknowledgements queued, so that both limits are passed. Five plans: a prefix of another filter with a loss, a refusal, a message and unsubscribes; late answers with a callback; four subscribes; six calls in turn; eight filters with every wildcard against six topics with one to three levels, some empty |
| `SubsKept` | **violated:** after a lost connection subscribe returns success for a filter that is still listed, without asking the new session of the broker | one filter, two calls, one loss |
| `Framing` | the thread stays in step, reads inside its buffer, handles every packet that fits | lengths in base 2 with up to three octets, a buffer of five, five packets: without body, just fitting, one octet too long, a buffer full, more than that; three packets, one late read, one end of the connection. In base 2 a body of four to seven octets needs a length of three |
| `MailDialogue` | failed means undelivered; the client goes past a refused command only if a `recv` returned a part of a reply; with its mails the alarm thread is still the one of `GatewayAlarm`, fairness included, so that a dialogue ends | two mails, one socket, one reply of a dialogue cut in two (that shifts every later one), one device, a counter that wraps at 4. Alarms after the second are not mailed: the scan goes on |
| `MailText` | **violated:** the second mail has the text of the first | two mails |
| `GatewayScreens` | no deleted widget is used, the alarm window shows the selected device | two devices, two temperatures, two humidities |

The four violated runs (`GatewayToggle`, `ExchangeStale`, `SubsKept`, `MailText`) are recorded
under `findings` with the sentence of the documentation or of the code that they contradict.

Deadlock is checked except where the bounds let everything come to rest: the calls of
`UmqttExchange` and `UmqttSubs`, the packets of `UmqttFraming` and the mails of `MailText` are
used up. `MailDialogue` checks it: the scan goes on without mails.

### Fairness

* `GatewayDevices`: the UDP thread and LVGL's timer run (threads of higher priority block,
  and LVGL runs its timers for ever); a node reports periodically, so a report is sent
  again and again (strong fairness, because a full socket queue refuses some). Nothing is
  assumed of commands, of failed receives or of the user.
* `GatewayAlarm`: the thread runs when the others sleep, and time passes. A notification
  ends because a publish has a bounded number of attempts (`CallsReturn`) and a mail ends
  when the server answers or closes (`AlarmAsSpecified`).
* `UmqttExchange`: threads run, a wait ends at its timeout, the broker reads its connection.
  Losses, pings and inbound messages are not fair.
* `UmqttLink`: both threads run, a ping that is due again and again is sent, one that a dead
  connection does not answer is counted as missed (strong fairness: other turns of the callback
  disable them for a while), `reconnect_next_tick` is reached. Nothing is assumed of how fast
  an answer is: a miss may be counted before it, or while the other thread connects.
* `UmqttSubs`: main, the shell and the receive thread run, a wait ends at its timeout, the
  broker reads its connection. Losses, messages from others and new calls are not fair.
* `UmqttFraming`: the thread reads what has come.
* `GatewayNotify`: the thread runs, time passes, and the server greets or closes. Without
  the latter, with a server that falls silent or a connection that breaks without a sign, the
  dialogue blocks for ever in `recv`, which has no timeout, and the alarm thread with it: that
  is assumed away here. That a mail comes to its end otherwise is not assumed but shown: it is
  what the fairness of `GatewayAlarm` asks.

Two premises narrow what a plan may do. An `exclusive` budget in `UmqttExchange` is one thread at
a time in a call, no callback that publishes, and no wait that times out while a packet or an
acknowledgement is still on its way (`Underway`); connections are lost, pings overwrite the
buffer and publishes are sent again all the same. A plan that is `inTurn` in `UmqttSubs` is one
call at a time with answers in time. `ExchangeStale` and the other plans of each run are
without them, and section 6 has what goes wrong then.

## 4. Abstract specifications

* `DeviceDirectory` is a set of devices with the last reading learned of each, and the one
  the user looks at. `GatewayDevices` implements it (`ImplementsDirectory`): the entries
  below `dev_num` are the devices, the entry at `device_selected_id` is the chosen one.
  What the mapping rules out is an entry that is moved, lost, doubled or given the reading
  of another, and a choice that changes because a device registers.
* `AlarmNotifier` finds a source beyond its threshold, then dismisses it or begins a
  notification of it, one at a time, `Cooldown` apart; reading, threshold and switch may have
  changed by the time it begins. `GatewayAlarm` implements it (`ImplementsNotifier`): the sources are
  the pairs of a device and a reading, `Compare` finds, `TestTime` dismisses or begins, and a
  notification lasts until the time stamp.
* `GatewayNotify` implements `GatewayAlarm`, fairness included (`AlarmAsSpecified`), although a
  notification is a dialogue of a dozen blocking steps.

The first two are checked by TLC and proved by TLAPS. Of the third, TLAPS proves the initial
states and the steps (`AlarmImplemented`), and TLC checks it with the fairness. The
other modules state their promises over history variables (`accepted`, `acked`,
`oks`, `confirmed`, `delivered`, `refused`, `cuts`, `promised`, `sent`, `handled`), which no
guard reads, except that `sent` bounds the packets of a connection and `cuts` the replies cut.

## 5. Theorems

All are for every value of the constants that satisfies the named assumptions of the module
(`DeviceAssumption`, `AlarmAssumption`, `ScreenAssumption`, `MailAssumption`,
`ExchangeAssumption`, `LinkAssumption`, `SubsAssumption`, `FilterAssumption`,
`FramingAssumption`, `LengthAssumption`), proved by TLAPS. Each is evaluated by TLC in the
runs of its module. `FilterAssumption` says that filters are such as MQTT allows: a wildcard is
alone in its level, and "#" is in the last one. `LengthAssumption` says that the broker
keeps to the number of length octets that MQTT has. One theorem has a hypothesis besides,
and says so: `AnswerIsNeverAcked`.
Proofs are split into lemmas on the actions that disturb the invariant, with a last step by PTL.
What a recursive function computes is proved where a proof needs it (`LenOctets`, `Encoded`,
`Matched`, `Levels`): not with the induction theorems of the library, which take an
operator, but by the least element of the set of numbers for which a lemma would fail.

* **`GatewayDevices_proofs`**: `TypeCorrect`, `NamesUnique`, `ReadingsOwn`, `HandlesStable`,
  `DirectoryImplemented`. `UniqueNames` is inductive only with the types
  of what is in the socket; `ReadingsAreOwn` needs more: every report on the socket is
  in the history (`InboxReported`), an entry that is not registered holds no reading, so
  that a stray cannot give its identity to one (`Fresh`), and a registered entry has the
  identity of a datagram (`Named`). All of it is for as long as the array is not overrun, which
  nothing in the code prevents.
  `DirectoryImplemented` maps every step to a step of `DeviceDirectory` or to none.
* **`GatewayAlarm_proofs`**: `TypeCorrect`, `AlwaysInRegistry`, `RateLimited`,
  `NotifierImplemented`. The invariant behind the last two relates the history `quiet` to the
  wrapped difference (`Synced`): while less than `Cooldown` ticks have passed, the difference
  is exactly `quiet`. A difference that reads as at least `Cooldown` therefore means that
  `Cooldown` ticks have passed, wherever the counter wraps. It needs `Cooldown <= Half`.
  The last says that what is notified of was beyond its threshold when it was compared, and
  that nothing else is looked at in between.
* **`GatewayScreens_proofs`**: `TypeCorrect`, `OnlyLive`, `SelectedShown`. The inductive
  invariant says which widgets exist in each window and which pointers can be left over
  there (`Stale`); the pointers that the timer tests are none of these.
* **`GatewayNotify_proofs`**. Of the mails alone: `TypeCorrect`, `FailureIsUndelivered`,
  `RefusalStops`. A mail is delivered in the order of the numbers and not before the login is
  over (`InOrder`, `Unsent`), and a dialogue that runs has not returned yet (`Running`,
  `NotYet`); as long as no `recv` has cut a reply, none is left before a command and there is at
  most one after it (`OneReply`), so that the reply to a refused command is still to be read, by
  the step that then ends the dialogue (`RefusalPending`). `RefusalStops` is therefore about
  refusals of dialogues with whole replies; of the others only that a reply was cut. The rest
  holds for any cuts. Of the composition: `MailsInScan`, that the dialogues keep this inside the
  scan, because every step of the composition is one of the mails or changes nothing of
  theirs; `DialogueWithinNotification`, that a dialogue runs only while the scan is at
  its mail; and `AlarmImplemented`, that the composition takes the steps of `GatewayAlarm` and
  no others, so that `RateLimit` and `InRegistry` hold of it, too.
* **`UmqttExchange_proofs`**: `TypeCorrect`, `AcksAreConserved`, `SuccessIsAccepted`,
  `AnswerIsNeverAcked`. The first
  safety theorem counts: QoS 1 publishes that returned `UMQTT_OK` (`oks`), their
  acknowledgements in the queue and those on the way are never more than the broker sent, with lemmas on counting in sequences
  at both ends. `SuccessIsAccepted` is for `exclusive` budgets, over losses, pings, retries and
  reconnections; `accepted` and `confirmed` are of the latest use of an identifier, so that it
  says as much after a wrap as before. Its invariant (`AloneInv`) is that at most one packet
  that asks for an acknowledgement is underway, the one of the call, or its one answer, which
  the broker gave after it accepted (`InCall`); that nothing is when no call is (`AtRest`); and
  that what the receive thread sends after its CONNECT has left by the hand of a caller is no
  request (`Greeted`), so that there is never a second answer. What is in the way to a broker
  that has not accepted the connection does not count: it closes it (`Live`).
  `AnswerIsNeverAcked` has the hypothesis `NoSecondRound`: a message may arrive only in plans in
  which there are no more packets than identifiers. Otherwise the callback could be given the
  identifier of an acknowledgement that was left in the queue, as the code allows after
  65535 packets. The invariant (`AnswerInv`) says that the broker sends no message at all, or that
  there are identifiers for what is still to come (`Room`), what is anywhere underway has one
  that was handed out (`UnderwayOK`), and no acknowledgement of the callback's packet is in the
  queue (`RxUnanswered`): the receive thread reads nothing while it waits.
* **`UmqttLink_proofs`**: `TypeCorrect`, for any surroundings and numbers. The part on sockets
  is more than types: answers are on their way only on connections that work, none works
  whose end was signalled, and a thread that waits in `connect` waits on a socket that is open,
  whichever thread closes it.
* **`UmqttSubs_proofs`**: `TypeCorrect`, `ListStaysBounded`, `PromisesAreKept`,
  `DeliveryByTheRules`. A subscribe that waits has passed the test already, so that the invariant counts it as an entry (`RoomOK`). Types rest on the fact
  that nobody else removes the entry that an unsubscribe has chosen. That the matching entry
  nearest to the head exists is an induction over finite sets, by the well-foundedness of
  their inclusion.
  `PromisesAreKept` has an invariant for each kind of steady plan, which has neither losses nor
  refusals. Without unsubscribes
  nothing is ever taken back: what is listed or waited for has been asked of the broker
  (`Lasting`). With them, in turn, either nothing is underway and the broker knows all that is
  listed, or one call is, with its request or its answer alone in the queues (`Turn`). It needs
  filters of which none begins another: then the first entry that begins with a topic is
  the topic itself (`FoundIs`).
  `DeliveryByTheRules` compares the walk of `topicname_is_matched` over two strings of
  characters with the rules, which are on lists of levels. From each pair of places in filter and
  topic the code's answer for the rest is the one of a comparison of the levels that are left
  (`Goes`), by induction on the places of the filter from the end (`AllAgreed`); that comparison
  is the rules but for the exceptions in `Missed`, which are part of the statement
  (`GoesByRules`). The invariant only says that a listed filter is one of the plan, which
  never changes.
* **`UmqttFraming_proofs`**: `TypeCorrect` and `ReadsInsideBuffer` for any octets, in or out of
  step, and `StaysInStep`. The invariant of the second relates the rest of a packet that is
  thrown away to the full buffers still counted (at least as many octets, and fewer than one
  more buffer). That of the third (`InTouch`) says for each place in the code which octets
  of the packet under way are still in the stream: what comes before it was handled, the
  rest of it follows, and then the packets behind it, encoded (`Standing`, `Follows`). In the
  length it says that the octets read so far and those still to come add up to the length of
  the packet, whatever the base (`InLength`). That `LenOctets` is a sequence of octets is a lemma
  by induction on the number; that `Encoded` is the packets one after the other is one about
  `FlattenSeq`.

Only model-checked: every liveness property (`ReportRegisters`, `ScreenFollowsNode`,
`PersistentAlarmNotified`, `CallsReturn`, `DeadLinkDetected`, `OnlineOrGivenUp`, `RxReadsOn`,
`ListedIsDelivered`, `FittingHandled`), and of `AlarmAsSpecified` that the fairness of
`GatewayAlarm` follows: beyond this prover. Every invariant and every action property of the
passing runs is the conclusion of a theorem.

## 6. Observations without a run

Met while modelling; the hazard list of `PROJECT.json` has those that concurrency, order or
limits make hard to test.

* Nothing limits what `udptest_entry` registers (`udp_server.c:206-213`): with more identities
  than entries, strays included, it writes behind `dev_attr`.
* The one `last_alram_time` lets a device early in the loop take every turn
  (`alarm_timer.c:26`, `:44`): others may never be notified. After more than 2^31 ticks
  without an alarm the signed difference is negative, and an alarm that is due waits for up
  to 24 days.
* `_repubrel` sets `_cnt` to 0 (`umqtt.c:1600`), so a publish of QoS 2 without PUBCOMP never
  returns. `CallsReturn` is therefore stated for QoS 1, subscribe and unsubscribe.
* `reconnect_count` is not reset by a connection that succeeds (`umqtt.c:389-396`): the
  client goes offline for good after `reconnect_max_num` losses, however far apart.
* The two threads connect at once, also without any silence: `mqtt_thread1` counts misses while
  the receive thread sleeps five seconds between attempts. Then one closes the socket that the
  other is connecting, or sends CONNECT on the other's broken socket and sets DISCONNECT
  (`umqtt.c:408`) while the receive thread reads a working connection that `client->sock` no
  longer names. In DISCONNECT nothing pings or connects any more, with attempts left: hence
  `OnlineOrGivenUp` and not a promise to come back.
* `keepalive_count` is not reset by an answer (`umqtt.c:1015`): late answers add up over the
  life of a connection.
* `umqtt_connect` overwrites `client->sock` without closing what is in it (`umqtt.c:396`): when
  the two threads connect at the same time, a socket stays open that nobody closes any more,
  and each such race costs one of the few there are.
* `umqtt_stop` leaves `mqtt_thread1` running (`umqtt.c:1457-1477`), which connects again.
* `getResponse` reads once per command (`send_mail.c:76`): a reply that comes in two parts shifts
  all later ones, and a refusal may be read after the client has gone on, or taken for the
  answer to another command. Hence the `cuts` of `RefusedMeansStopped`.
* `send_mail` ignores the result of `sendmail` (`send_mail.c:248-249`) and returns success;
  sockets are closed only when a send fails (`send_mail.c:97-112`, `:214-218`).
* `up_btn_cb`: the button for the recipient falls through to the one for the log upload
  (`lvgl_sn_interface.c:121-143`) and blocks the LVGL thread. A threshold that was never set
  (0) is shown as 40. Settings made before any device is registered go to entry 0, which
  the first device inherits. `msg_box_alarm_up` calls LVGL from the alarm thread.
* `ck_alram_cb` stores all state bits of the check box (`lvgl_sn_interface.c:389`), of which
  focus is set by the touch itself: the alarm of a device cannot be switched off again.
* Inbound QoS 2: the test at `umqtt.c:208` is inverted, and a second queued message inserts
  NULL (`:183`).
* Subscriptions: the test of the limit is off by one (`umqtt.c:1704`) and made before the wait,
  so that two callers pass it together. Filters are compared up to the length of the new one
  (`:1695`): a filter that begins an entry is never subscribed, and unsubscribing it removes
  that entry (with a filter and one that begins with it, the property of `SubsKept` fails without any loss). A message between SUBACK and the insertion (`:1744-1756`) is dropped. An
  unsubscribe frees an entry whose callback is running; what the walk finds in it then
  (`:575`) may be the entry itself, for ever. After a reconnection nothing is subscribed, and
  subscribing again sends nothing (`SubsKept`). The return code of a SUBACK is not looked
  at (`:1744`): a filter that the broker has refused is listed and success returned. An unsubscribe while another subscribes the
  same filter, or one whose answer is late, leaves list and broker in disagreement: hence
  `steady` plans.
* `topicname_is_matched` never lets "#" match a name that begins with "/", nor "a/#" the
  name "a", nor "+" an empty level (`Missed` in `UmqttTopics`).
* Framing: a read of more than `recv_time_ms` fails in the middle of a packet, and the
  connection is kept (`umqtt.c:625`): the next octet is read as a header. Hence the premise of
  `InStep`. `umqtt_pkgs_len` (`umqtt_internal.h:359`) counts one octet too many for remaining
  lengths of 127 and 16383, so that a packet that would just fit is refused.

## 7. Plan

Done: `GatewayDevices`, `GatewayAlarm`, `GatewayScreens`, `UmqttExchange`, `UmqttLink`,
`MailSession`, `UmqttSubs` and `UmqttFraming`, model-checked and with proofs; the abstract
specifications `DeviceDirectory` and `AlarmNotifier` with proofs; the composition `GatewayNotify`.

Left, in order:

1. A composition of the alarm thread with the calls of `UmqttExchange`, like the one with mail.
2. The fields of the remote window and the keyboard (`GatewayScreens`).
3. The log upload (`zFTP_test.c`), if the sequential dialogue turns out to have a promise
   worth stating.

## 8. What is not modelled

LVGL itself, the RT-Thread kernel and its components, the ESP32 driver and AT sockets,
cJSON, netutils, webclient, zFTP, the board support: vendored code, taken by what its calls
do. Images and fonts: generated. The packet codec, base64 and the JSON texts: conversions
without state. Layout, wording and logging. The sensor, clock and weather threads: they
store a value nothing decides on. Inbound QoS 2: the gateway subscribes
with QoS 1 and a broker delivers with no higher one, so the queue stays empty. The log
upload: one thread, one sequential dialogue over a vendored client. Samples that the firmware
does not start. Memory that the models do not keep: the octet behind `recv_data`, the
application buffer that two threads write, LVGL called from the alarm thread (the hazards
without a property). The models cover a small share of the repository because nearly all
of it is vendored: what the firmware itself decides is in `applications/` and, for MQTT, in
`packages/umqtt-v1.0.0/`.
