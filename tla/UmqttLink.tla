------------------------------ MODULE UmqttLink ------------------------------
(***************************************************************************)
(* Keeping the MQTT client online (packages/umqtt-v1.0.0/src/umqtt.c).       *)
(* Two threads of equal priority do it without excluding each other: the     *)
(* receive thread Rx reconnects when it reads the end of the connection      *)
(* (umqtt_thread), the thread K pings, gives a silent connection up and      *)
(* reconnects (mqtt_thread1).  Both run umqtt_connect and close whatever     *)
(* socket the client has at that moment.                                     *)
(*                                                                           *)
(* Intervals are abstracted: a wait may end at any step, so an answer may    *)
(* come after its ping was counted as missed, and K may give a connection up *)
(* while Rx waits or connects.  A call of the socket layer is one step with  *)
(* what follows it up to the next one; closing a socket and forgetting it    *)
(* (closesocket, client->sock = -1) is one step too.                         *)
(***************************************************************************)
EXTENDS Naturals

CONSTANTS
  Rx, K,      \* umqtt_thread and mqtt_thread1
  NoSock,     \* -1
  ReconMax,   \* reconnect_max_num
  KeepMax,    \* keepalive_max_num
  MaxSocks,   \* sockets the network device has for the client
  Surroundings  \* the surroundings the client may run in

\* Surroundings tell how many connections break (a bound), and what else may happen.
FaultKinds == {"silent", "outage", "stop"}
Surrounding == [breaks : Nat, faults : SUBSET FaultKinds]

ASSUME LinkAssumption ==
  /\ Rx # K
  /\ ReconMax \in Nat \ {0} /\ KeepMax \in Nat \ {0} /\ MaxSocks \in Nat \ {0}
  /\ Surroundings \subseteq Surrounding
  /\ NoSock \notin 1 .. MaxSocks

Threads == {Rx, K}
Socks == 1 .. MaxSocks

VARIABLES
  state,        \* connect_state
  sock,         \* client->sock
  rcount,       \* reconnect_count
  kcount,       \* keepalive_count
  outstanding,  \* uplink_last_tick >= uplink_next_tick
  wait,         \* reconnect_next_tick is not reached
  pc,           \* where the two threads are
  reading,      \* the socket Rx reads from
  dial,         \* the sockets on which the threads have called connect
  open,         \* sockets the client holds
  talking,      \* those whose connection works
  failing,      \* those on which calls fail: not connected yet, or ended by FIN or RST
  hello,        \* those on which CONNACK is on its way
  pong,         \* those on which PINGRESP is on its way
  up,           \* the broker accepts connections
  env,          \* the surroundings, with the breaks that are left
  stopped       \* umqtt_stop has returned

clientVars == <<state, sock, rcount, kcount, outstanding, wait, pc>>
calls == <<reading, dial>>
sockVars == <<open, talking, failing, hello, pong>>
vars == <<clientVars, calls, sockVars, up, env, stopped>>

-----------------------------------------------------------------------------
(* Sockets *)

\* closesocket, which also ends the calls that wait on that socket.
Interrupted(s) == [t \in Threads |-> IF dial[t] = s THEN NoSock ELSE dial[t]]
Closed(s) == /\ open' = open \ {s} /\ talking' = talking \ {s}
             /\ failing' = failing \ {s} /\ hello' = hello \ {s} /\ pong' = pong \ {s}
             /\ reading' = IF reading = s THEN NoSock ELSE reading
             /\ dial' = Interrupted(s)

Goto(t, place) == pc' = [pc EXCEPT ![t] = place]

\* umqtt_trans_disconnect(client->sock); client->sock = -1.
DropSock == Closed(sock) /\ sock' = NoSock

-----------------------------------------------------------------------------
(* umqtt_connect, run by either thread *)

LateTest == rcount > ReconMax  \* a variant of TooMany: tested before it counts
TooMany == rcount + 1 > ReconMax

\* Rx ends when umqtt_connect gives up; K goes on with its loop.
GiveUp(t) == Goto(t, IF t = Rx THEN "gone" ELSE "loop")

\* From _reconnect to the start of umqtt_trans_connect, which forgets the socket.  The
\* count is never reset by a connection that succeeds.
Attempt(t) ==
  /\ pc[t] = "attempt"
  /\ IF TooMany
     THEN rcount' = 0 /\ state' = "disconnect" /\ GiveUp(t) /\ UNCHANGED sock
     ELSE rcount' = rcount + 1 /\ sock' = NoSock /\ Goto(t, "resolve") /\ UNCHANGED state
  /\ UNCHANGED <<kcount, outstanding, calls, sockVars, up, env, stopped, wait>>

\* The address is found and connect is called on a new socket, which the client has
\* from now on; or there is no address or no socket.
Resolve(t) ==
  /\ pc[t] = "resolve"
  /\ \/ /\ \E s \in Socks \ open :
             /\ \A r \in Socks \ open : s <= r
             /\ sock' = s
             /\ open' = open \cup {s} /\ failing' = failing \cup {s}
             /\ dial' = [dial EXCEPT ![t] = s]
        /\ Goto(t, "dial")
        /\ UNCHANGED <<reading, talking, hello, pong>>
     \/ /\ \/ ~ up /\ UNCHANGED sock
           \/ Socks \subseteq open /\ sock' = NoSock
        /\ Goto(t, "drop")
        /\ UNCHANGED <<calls, sockVars>>
  /\ UNCHANGED <<state, rcount, kcount, outstanding, up, env, stopped, wait>>

\* connect returns.  When it fails the thread closes the socket the client has by now.
Dial(t) ==
  /\ pc[t] = "dial"
  /\ IF up /\ dial[t] # NoSock
     THEN /\ talking' = talking \cup {dial[t]} /\ failing' = failing \ {dial[t]}
          /\ dial' = [dial EXCEPT ![t] = NoSock]
          /\ Goto(t, "hello")
          /\ UNCHANGED <<sock, reading, open, hello, pong>>
     ELSE DropSock /\ Goto(t, "drop")
  /\ UNCHANGED <<state, rcount, kcount, outstanding, up, env, stopped, wait>>

\* disconnect: closes once more what the client has, waits five seconds and connects.
Drop(t) ==
  /\ pc[t] = "drop"
  /\ DropSock
  /\ Goto(t, "attempt")
  /\ UNCHANGED <<state, rcount, kcount, outstanding, up, env, stopped, wait>>

\* CONNECT is sent on the socket the client has by now.  Rx goes on to read the
\* CONNACK itself, K leaves that to Rx.
SendConnect(t) ==
  /\ pc[t] = "hello"
  /\ IF sock \in open \ failing
     THEN /\ hello' = IF sock \in talking THEN hello \cup {sock} ELSE hello
          /\ outstanding' = TRUE
          /\ Goto(t, IF t = Rx THEN "await" ELSE "loop")
          /\ UNCHANGED state
     ELSE /\ state' = "disconnect"
          /\ Goto(t, IF t = Rx THEN "enter" ELSE "loop")
          /\ UNCHANGED <<hello, outstanding>>
  /\ UNCHANGED <<sock, rcount, kcount, calls, open, talking, failing, pong, up,
                 env, stopped, wait>>

-----------------------------------------------------------------------------
(* umqtt_thread *)

\* umqtt_handle_readpacket starts to read.
EnterRead ==
  /\ pc[Rx] \in {"enter", "await"}
  /\ reading' = sock
  /\ Goto(Rx, IF pc[Rx] = "await" THEN "greeting" ELSE "read")
  /\ UNCHANGED <<state, sock, rcount, kcount, outstanding, dial, sockVars, up,
                 env, stopped, wait>>

\* A CONNACK or PINGRESP arrives.  In umqtt_connect any packet ends the wait,
\* and what counts is the state, which a connection that ended leaves LINKED.
ReadPacket ==
  /\ pc[Rx] \in {"read", "greeting"} /\ reading \in talking
  /\ \/ /\ reading \in hello
        /\ hello' = hello \ {reading}
        /\ state' = "linked"
        /\ UNCHANGED pong
     \/ /\ reading \in pong
        /\ pong' = pong \ {reading}
        /\ state' = IF pc[Rx] = "greeting" /\ state # "linked" THEN "disconnect"
                    ELSE state
        /\ UNCHANGED hello
  /\ outstanding' = FALSE
  /\ Goto(Rx, "enter")
  /\ UNCHANGED <<sock, rcount, kcount, calls, open, talking, failing, up, env,
                 stopped, wait>>

\* The read fails: Rx closes the socket the client has by now, waits five
\* seconds and connects again.
ReadEnd ==
  /\ pc[Rx] \in {"read", "greeting"} /\ reading \notin open \ failing
  /\ DropSock
  /\ Goto(Rx, "attempt")
  /\ UNCHANGED <<state, rcount, kcount, outstanding, up, env, stopped, wait>>

-----------------------------------------------------------------------------
(* mqtt_thread1 *)

\* umqtt_keepalive_callback sends a PINGREQ when nothing was received for a while
\* (late), and every 32767 ticks; counts an answer that is missing; or finds
\* nothing to do.  keepalive_count is not reset by an answer.
SendPing == pong' = IF sock \in talking THEN pong \cup {sock} ELSE pong
Callback == /\ pc[K] = "loop" /\ Goto(K, "recon")
            /\ UNCHANGED <<sock, rcount, calls, open, talking, failing, hello, up,
                           env, stopped, wait>>
Ping(late) ==
  /\ Callback
  /\ state = "linked" /\ (late => ~ outstanding)
  /\ SendPing
  /\ outstanding' = (outstanding \/ late)
  /\ UNCHANGED <<state, kcount>>
FirstMiss == 1  \* a variant of NextMiss: every ping starts the count again
NextMiss == kcount + 1
Miss ==
  /\ Callback
  /\ state = "linked" /\ outstanding
  /\ kcount' = NextMiss
  /\ IF kcount' >= KeepMax THEN state' = "unlink" /\ UNCHANGED pong
                           ELSE SendPing /\ UNCHANGED state
  /\ UNCHANGED outstanding
NoPing == Callback /\ UNCHANGED <<state, kcount, outstanding, pong>>
Keepalive == (\E late \in BOOLEAN : Ping(late)) \/ Miss \/ NoPing

\* umqtt_reconnect_callback.  The first attempt follows the loss at once, the
\* next one reconnect_interval after it.
Unlink ==
  /\ state = "unlink"
  /\ state' = "unlinkLinking"
  /\ DropSock
  /\ Goto(K, "loop")
  /\ UNCHANGED <<rcount, kcount, wait>>
Relink ==
  /\ state = "unlinkLinking" /\ ~ wait /\ sock = NoSock
  /\ IF rcount >= ReconMax
     THEN /\ state' = "disconnect"
          /\ pc' = [pc EXCEPT ![K] = "loop", ![Rx] = "gone"]
          /\ UNCHANGED <<kcount, wait>>
     ELSE /\ kcount' = 0 /\ wait' = TRUE
          /\ Goto(K, "attempt")
          /\ UNCHANGED state
  /\ UNCHANGED <<sock, calls, rcount, sockVars>>
LeftOpen == UNCHANGED <<sock, calls, sockVars>>  \* a variant of NotAnswered: K waits on
NotAnswered == DropSock  \* an attempt that nobody has seen succeed
Discard ==
  /\ state = "unlinkLinking" /\ ~ wait /\ sock # NoSock
  /\ NotAnswered
  /\ Goto(K, "loop")
  /\ UNCHANGED <<state, rcount, kcount, wait>>
NoRelink ==
  /\ state # "unlink" /\ (state = "unlinkLinking" => wait)
  /\ Goto(K, "loop")
  /\ UNCHANGED <<state, sock, calls, rcount, kcount, wait, sockVars>>

ReconnectCallback ==
  /\ pc[K] = "recon"
  /\ Unlink \/ Relink \/ Discard \/ NoRelink
  /\ UNCHANGED <<outstanding, up, env, stopped>>

\* reconnect_next_tick is reached: a minute after K has begun to connect.
IntervalEnds ==
  /\ wait
  /\ wait' = FALSE
  /\ UNCHANGED <<state, sock, rcount, kcount, outstanding, pc, calls, sockVars, up,
                 env, stopped>>

-----------------------------------------------------------------------------
(* The application, the broker and the network *)

\* umqtt_stop deletes Rx and closes the socket; K is not told.
Stop ==
  /\ "stop" \in env.faults /\ ~ stopped
  /\ stopped' = TRUE
  /\ Goto(Rx, "gone")
  /\ DropSock
  /\ UNCHANGED <<state, rcount, kcount, outstanding, wait, up, env>>

\* A connection breaks, with a FIN or in silence.
Break ==
  /\ env.breaks > 0 /\ env' = [env EXCEPT !.breaks = @ - 1]
  /\ \E s \in talking :
       /\ talking' = talking \ {s} /\ hello' = hello \ {s} /\ pong' = pong \ {s}
       /\ \/ failing' = failing \cup {s}
          \/ "silent" \in env.faults /\ UNCHANGED failing
  /\ UNCHANGED <<clientVars, calls, open, up, stopped>>

\* The broker goes down and comes back.
Outage ==
  /\ "outage" \in env.faults
  /\ env.breaks > 0
  /\ env' = [env EXCEPT !.breaks = IF up THEN @ ELSE @ - 1]
  /\ up' = ~ up
  /\ UNCHANGED <<clientVars, calls, sockVars, stopped>>

\* The client has been started: umqtt_start has counted one connection.
Init ==
  /\ state = "linked" /\ sock = 1 /\ rcount = 1 /\ kcount = 0
  /\ outstanding = FALSE /\ wait = FALSE
  /\ pc = [t \in Threads |-> IF t = Rx THEN "enter" ELSE "loop"]
  /\ reading = 1 /\ dial = [t \in Threads |-> NoSock]
  /\ open = {1} /\ talking = {1} /\ failing = {} /\ hello = {} /\ pong = {}
  /\ up = TRUE /\ env \in Surroundings /\ stopped = FALSE

Connect(t) == Attempt(t) \/ Resolve(t) \/ Dial(t) \/ Drop(t) \/ SendConnect(t)
RxThread == Connect(Rx) \/ EnterRead \/ ReadPacket \/ ReadEnd
KThread == Connect(K) \/ Keepalive \/ ReconnectCallback
Next == RxThread \/ KThread \/ IntervalEnds \/ Stop \/ Break \/ Outage

\* Both threads run; a ping that is due is sent, one that a dead connection does not
\* answer is counted as missed, and the wait for reconnect_next_tick ends.
Spec == /\ Init /\ [][Next]_vars
        /\ WF_vars(RxThread) /\ WF_vars(KThread)
        /\ SF_vars(Ping(TRUE)) /\ SF_vars(Miss /\ sock \notin talking)
        /\ WF_vars(IntervalEnds)

-----------------------------------------------------------------------------
(* Properties *)

ConnectPlaces == {"attempt", "resolve", "dial", "drop", "hello"}

TypeOK ==
  /\ state \in {"linked", "unlink", "unlinkLinking", "disconnect"}
  /\ sock \in Socks \cup {NoSock} /\ reading \in Socks \cup {NoSock}
  /\ dial \in [Threads -> open \cup {NoSock}]
  /\ rcount \in 0 .. ReconMax /\ kcount \in Nat
  /\ pc[Rx] \in ConnectPlaces \cup {"enter", "read", "await", "greeting", "gone"}
  /\ pc[K] \in ConnectPlaces \cup {"loop", "recon"}
  /\ {outstanding, wait, up, stopped} \subseteq BOOLEAN /\ env \in Surrounding
  /\ open \subseteq Socks /\ talking \cup failing \subseteq open
  /\ talking \cap failing = {} /\ hello \cup pong \subseteq talking

\* A connection that breaks while the client is linked is given up or replaced, also
\* when no FIN tells so: unanswered pings add up to keepalive_max_num.
DeadLinkDetected ==
  \A s \in Socks : (state = "linked" /\ sock = s /\ s \notin talking)
      ~> (state # "linked" \/ sock # s \/ s \in talking)

\* When the broker is there and connections stop breaking, the client does not stay
\* halfway: it is online, or its state tells that it has given up, over and over,
\* although both threads may connect at once and close each other's sockets, although
\* one of them may have been deleted, and although the count of attempts is never
\* reset by a connection that succeeds.
Online == state = "linked" /\ sock \in talking
OnlineOrGivenUp == <>[]up => []<>(Online \/ state = "disconnect")
=============================================================================
