--------------------------- MODULE UmqttLink_proofs ---------------------------
(***************************************************************************)
(* Types of the threads and sockets of the MQTT client, for any numbers of  *)
(* attempts, missed pings and sockets and any surroundings.                 *)
(***************************************************************************)
EXTENDS UmqttLink, TLAPS

RxPlaces == ConnectPlaces \cup {"enter", "read", "await", "greeting", "gone"}
KPlaces == ConnectPlaces \cup {"loop", "recon"}
States == {"linked", "unlink", "unlinkLinking", "disconnect"}

PcOK == /\ pc \in [Threads -> RxPlaces \cup KPlaces]
        /\ pc[Rx] \in RxPlaces /\ pc[K] \in KPlaces
CountsOK == state \in States /\ rcount \in 0 .. ReconMax /\ kcount \in Nat
FlagsOK == {outstanding, wait, up, stopped} \subseteq BOOLEAN
SocksOK ==
  /\ sock \in Socks \cup {NoSock} /\ reading \in Socks \cup {NoSock}
  /\ dial \in [Threads -> open \cup {NoSock}]
  /\ open \subseteq Socks /\ talking \cup failing \subseteq open
  /\ talking \cap failing = {} /\ hello \cup pong \subseteq talking

IInv == PcOK /\ CountsOK /\ FlagsOK /\ SocksOK /\ env \in Surrounding

LEMMA GotoOK ==
  ASSUME PcOK, NEW t \in Threads, NEW place, Goto(t, place),
         t = Rx => place \in RxPlaces, t = K => place \in KPlaces
  PROVE  PcOK'
BY LinkAssumption DEF PcOK, Goto, Threads

LEMMA ClosedOK ==
  ASSUME SocksOK, NEW s, Closed(s), sock' \in {sock, NoSock}
  PROVE  SocksOK'
<1>1. dial' \in [Threads -> open' \cup {NoSock}]
  BY DEF SocksOK, Closed, Interrupted
<1>2. reading' \in Socks \cup {NoSock}
  BY DEF SocksOK, Closed
<1> QED  BY <1>1, <1>2 DEF SocksOK, Closed

LEMMA AttemptOK ==
  ASSUME IInv, NEW t \in Threads, Attempt(t)
  PROVE  IInv'
<1>1. UNCHANGED <<kcount, outstanding, calls, sockVars, up, env, stopped, wait>>
  BY DEF Attempt
<1>2. PcOK'
  <2>1. GiveUp(t) \/ Goto(t, "resolve")
    BY DEF Attempt
  <2> QED  BY <2>1, GotoOK, LinkAssumption DEF IInv, GiveUp, RxPlaces, KPlaces, ConnectPlaces
<1>3. CountsOK'
  <2>1. rcount \in Nat /\ ReconMax \in Nat
    BY LinkAssumption DEF IInv, CountsOK
  <2>2. rcount' \in 0 .. ReconMax
    BY <2>1 DEF Attempt, TooMany
  <2>3. state' \in States
    BY DEF Attempt, IInv, CountsOK, States
  <2> QED  BY <1>1, <2>2, <2>3 DEF IInv, CountsOK
<1>4. SocksOK'
  <2>1. sock' \in {sock, NoSock}
    BY DEF Attempt
  <2> QED  BY <1>1, <2>1 DEF IInv, SocksOK, calls, sockVars
<1>5. FlagsOK' /\ env' \in Surrounding
  BY <1>1 DEF IInv, FlagsOK
<1> QED  BY <1>2, <1>3, <1>4, <1>5 DEF IInv

\* A new socket fails all calls until it is connected.
LEMMA ResolveSocks ==
  ASSUME SocksOK, NEW t \in Threads, Resolve(t)
  PROVE  SocksOK'
<1>1. CASE sock' \in {sock, NoSock} /\ UNCHANGED <<calls, sockVars>>
  BY <1>1 DEF SocksOK, calls, sockVars
<1>2. ASSUME NEW s \in Socks \ open, sock' = s,
             open' = open \cup {s}, failing' = failing \cup {s},
             dial' = [dial EXCEPT ![t] = s], UNCHANGED <<reading, talking, hello, pong>>
      PROVE  SocksOK'
  <2>1. dial' \in [Threads -> open' \cup {NoSock}]
    BY <1>2 DEF SocksOK
  <2> QED  BY <1>2, <2>1 DEF SocksOK
<1> QED  BY <1>1, <1>2 DEF Resolve

\* connect has returned on a socket that is still open.
LEMMA DialSocks ==
  ASSUME SocksOK, NEW t \in Threads, Dial(t)
  PROVE  SocksOK'
<1>1. CASE DropSock
  BY <1>1, ClosedOK DEF DropSock
<1>2. CASE ~ DropSock
  <2>1. /\ dial[t] # NoSock
        /\ talking' = talking \cup {dial[t]} /\ failing' = failing \ {dial[t]}
        /\ dial' = [dial EXCEPT ![t] = NoSock]
        /\ UNCHANGED <<sock, reading, open, hello, pong>>
    BY <1>2 DEF Dial
  <2>2. dial[t] \in open
    BY <2>1 DEF SocksOK
  <2>3. dial' \in [Threads -> open' \cup {NoSock}]
    BY <2>1 DEF SocksOK
  <2> QED  BY <2>1, <2>2, <2>3 DEF SocksOK
<1> QED  BY <1>1, <1>2

LEMMA ResolveOK ==
  ASSUME IInv, NEW t \in Threads, Resolve(t) \/ Dial(t) \/ Drop(t)
  PROVE  IInv'
<1>1. UNCHANGED <<state, rcount, kcount, outstanding, up, env, stopped, wait>>
  BY DEF Resolve, Dial, Drop
<1>2. PcOK'
  <2>1. \E place \in ConnectPlaces : Goto(t, place)
    BY DEF Resolve, Dial, Drop, ConnectPlaces
  <2> QED  BY <2>1, GotoOK DEF IInv, RxPlaces, KPlaces
<1>3. CountsOK' /\ FlagsOK' /\ env' \in Surrounding
  BY <1>1 DEF IInv, CountsOK, FlagsOK
<1>4. SocksOK'
  <2>1. CASE Drop(t)
    BY <2>1, ClosedOK DEF Drop, DropSock, IInv
  <2> QED  BY <2>1, ResolveSocks, DialSocks DEF IInv
<1> QED  BY <1>2, <1>3, <1>4 DEF IInv

LEMMA SendConnectOK ==
  ASSUME IInv, NEW t \in Threads, SendConnect(t)
  PROVE  IInv'
<1>1. UNCHANGED <<sock, rcount, kcount, calls, open, talking, failing, pong, up, env, stopped,
                  wait>>
  BY DEF SendConnect
<1>2. PcOK'
  BY GotoOK, LinkAssumption DEF SendConnect, IInv, RxPlaces, KPlaces, ConnectPlaces
<1>3. state' \in {state, "disconnect"} /\ outstanding' \in {outstanding, TRUE}
  BY DEF SendConnect
<1>4. hello' \in {hello, hello \cup {sock}} /\ (hello' # hello => sock \in talking)
  BY DEF SendConnect
<1>5. CountsOK'
  BY <1>1, <1>3 DEF IInv, CountsOK, States
<1>6. FlagsOK'
  BY <1>1, <1>3 DEF IInv, FlagsOK
<1>7. SocksOK'
  BY <1>1, <1>4 DEF IInv, SocksOK, calls
<1> QED  BY <1>1, <1>2, <1>5, <1>6, <1>7 DEF IInv

LEMMA ReceiveThreadOK ==
  ASSUME IInv, EnterRead \/ ReadPacket \/ ReadEnd
  PROVE  IInv'
<1>1. UNCHANGED <<rcount, kcount, up, env, stopped, wait>>
  BY DEF EnterRead, ReadPacket, ReadEnd
<1>2. PcOK'
  <2>1. Goto(Rx, "greeting") \/ Goto(Rx, "read") \/ Goto(Rx, "enter") \/ Goto(Rx, "attempt")
    BY DEF EnterRead, ReadPacket, ReadEnd
  <2> QED  BY <2>1, GotoOK, LinkAssumption DEF IInv, RxPlaces, ConnectPlaces, Threads
<1>3. state' \in {state, "linked", "disconnect"} /\ outstanding' \in {outstanding, FALSE}
  BY DEF EnterRead, ReadPacket, ReadEnd
<1>4. CountsOK'
  BY <1>1, <1>3 DEF IInv, CountsOK, States
<1>5. FlagsOK'
  BY <1>1, <1>3 DEF IInv, FlagsOK
<1>6. SocksOK'
  <2>1. CASE EnterRead
    BY <2>1 DEF EnterRead, sockVars, IInv, SocksOK
  <2>2. CASE ReadPacket
    BY <2>2 DEF ReadPacket, calls, IInv, SocksOK
  <2>3. CASE ReadEnd
    BY <2>3, ClosedOK DEF ReadEnd, DropSock, IInv
  <2> QED  BY <2>1, <2>2, <2>3
<1> QED  BY <1>1, <1>2, <1>4, <1>5, <1>6 DEF IInv

LEMMA KeepaliveOK ==
  ASSUME IInv, Keepalive
  PROVE  IInv'
<1>1. /\ Goto(K, "recon")
      /\ UNCHANGED <<sock, rcount, calls, open, talking, failing, hello, up, env, stopped,
                  wait>>
  BY DEF Keepalive, Ping, Miss, NoPing, Callback
<1>2. PcOK'
  BY <1>1, GotoOK, LinkAssumption DEF IInv, KPlaces, ConnectPlaces, Threads
<1>3. CountsOK'
  <2>1. state' \in States
    BY DEF Keepalive, Ping, Miss, NoPing, IInv, CountsOK, States
  <2>2. kcount' \in Nat
    BY DEF Keepalive, Ping, Miss, NoPing, NextMiss, IInv, CountsOK
  <2> QED  BY <1>1, <2>1, <2>2 DEF IInv, CountsOK
<1>4. outstanding' \in BOOLEAN
  <2>1. outstanding \in BOOLEAN
    BY DEF IInv, FlagsOK
  <2>2. CASE UNCHANGED outstanding
    BY <2>1, <2>2
  <2>3. CASE \E late \in BOOLEAN : Ping(late)
    BY <2>1, <2>3 DEF Ping
  <2> QED  BY <2>2, <2>3 DEF Keepalive, Miss, NoPing
<1>5. FlagsOK'
  BY <1>1, <1>4 DEF IInv, FlagsOK
<1>6. pong' \in {pong, pong \cup {sock}} /\ (pong' # pong => sock \in talking)
  BY DEF Keepalive, Ping, Miss, NoPing, SendPing
<1>7. SocksOK'
  BY <1>1, <1>6 DEF IInv, SocksOK, calls
<1> QED  BY <1>1, <1>2, <1>3, <1>5, <1>7 DEF IInv

LEMMA ReconnectCallbackOK ==
  ASSUME IInv, ReconnectCallback
  PROVE  IInv'
<1>1. UNCHANGED <<outstanding, up, env, stopped>> /\ rcount' = rcount
  BY DEF ReconnectCallback, Unlink, Relink, Discard, NotAnswered, NoRelink
<1>2. PcOK'
  <2>1. CASE Goto(K, "loop") \/ Goto(K, "attempt")
    BY <2>1, GotoOK, LinkAssumption DEF IInv, KPlaces, ConnectPlaces, Threads
  <2>2. CASE pc' = [pc EXCEPT ![K] = "loop", ![Rx] = "gone"]
    BY <2>2, LinkAssumption DEF IInv, PcOK, RxPlaces, KPlaces, ConnectPlaces, Threads
  <2> QED  BY <2>1, <2>2 DEF ReconnectCallback, Unlink, Relink, Discard, NotAnswered, NoRelink
<1>3. /\ state' \in {state, "unlinkLinking", "disconnect"} /\ kcount' \in {kcount, 0}
      /\ wait' \in {wait, TRUE}
  BY DEF ReconnectCallback, Unlink, Relink, Discard, NotAnswered, NoRelink
<1>4. CountsOK'
  BY <1>1, <1>3 DEF IInv, CountsOK, States
<1>5. FlagsOK'
  BY <1>1, <1>3 DEF IInv, FlagsOK
<1>6. SocksOK'
  <2>1. CASE DropSock
    BY <2>1, ClosedOK DEF IInv, DropSock
  <2>2. CASE UNCHANGED <<sock, calls, sockVars>>
    BY <2>2 DEF IInv, SocksOK, calls, sockVars
  <2> QED  BY <2>1, <2>2 DEF ReconnectCallback, Unlink, Relink, Discard, NotAnswered, NoRelink
<1> QED  BY <1>1, <1>2, <1>4, <1>5, <1>6 DEF IInv

LEMMA SurroundingsOK ==
  ASSUME IInv, IntervalEnds \/ Stop \/ Break \/ Outage
  PROVE  IInv'
<1>1. PcOK'
  <2>1. CASE Goto(Rx, "gone")
    BY <2>1, GotoOK, LinkAssumption DEF IInv, RxPlaces, ConnectPlaces, Threads
  <2>2. CASE UNCHANGED pc
    BY <2>2 DEF IInv, PcOK
  <2> QED  BY <2>1, <2>2 DEF IntervalEnds, Stop, Break, Outage, clientVars
<1>2. CountsOK'
  BY DEF IntervalEnds, Stop, Break, Outage, clientVars, IInv, CountsOK
<1>3. FlagsOK'
  BY DEF IntervalEnds, Stop, Break, Outage, clientVars, IInv, FlagsOK
<1>4. SocksOK'
  <2>1. CASE Stop
    BY <2>1, ClosedOK DEF Stop, DropSock, IInv
  <2>2. CASE IntervalEnds \/ Outage
    BY <2>2 DEF IntervalEnds, Outage, clientVars, calls, sockVars, IInv, SocksOK
  <2>3. CASE Break
    BY <2>3 DEF Break, clientVars, calls, IInv, SocksOK
  <2> QED  BY <2>1, <2>2, <2>3
<1>5. env' \in Surrounding
  <2>1. env \in Surrounding
    BY DEF IInv
  <2>2. env' = env \/ (env.breaks > 0 /\ env' = [env EXCEPT !.breaks = env.breaks - 1])
    BY <2>1 DEF IntervalEnds, Stop, Break, Outage, Surrounding
  <2> QED  BY <2>1, <2>2 DEF Surrounding
<1> QED  BY <1>1, <1>2, <1>3, <1>4, <1>5 DEF IInv

LEMMA InitOK ==
  ASSUME Init
  PROVE  IInv
<1>1. PcOK
  BY LinkAssumption DEF Init, PcOK, RxPlaces, KPlaces, ConnectPlaces, Threads
<1>2. CountsOK
  BY LinkAssumption DEF Init, CountsOK, States
<1>3. FlagsOK
  BY DEF Init, FlagsOK
<1>4. SocksOK
  BY LinkAssumption DEF Init, SocksOK, Socks
<1>5. env \in Surrounding
  BY LinkAssumption DEF Init
<1> QED  BY <1>1, <1>2, <1>3, <1>4, <1>5 DEF IInv

LEMMA StepOK ==
  ASSUME IInv, [Next]_vars
  PROVE  IInv'
<1>1. CASE RxThread \/ KThread
  BY <1>1, AttemptOK, ResolveOK, SendConnectOK, ReceiveThreadOK, KeepaliveOK, ReconnectCallbackOK
     DEF RxThread, KThread, Connect, Threads
<1>2. CASE IntervalEnds \/ Stop \/ Break \/ Outage
  BY <1>2, SurroundingsOK
<1>3. CASE UNCHANGED vars
  BY <1>3 DEF vars, clientVars, calls, sockVars, IInv, PcOK, CountsOK, FlagsOK, SocksOK
<1> QED  BY <1>1, <1>2, <1>3 DEF Next

\* Type correctness of the two threads that keep the client online, and of the sockets
\* they close and open under each other: what is on its way is on a connection that works,
\* no connection works that is not made yet or whose end was signalled, and no thread
\* waits for a connection on a socket that has been closed.
THEOREM TypeCorrect == Spec => []TypeOK
<1>1. IInv => TypeOK
  BY DEF IInv, PcOK, RxPlaces, KPlaces, ConnectPlaces, CountsOK, States, FlagsOK, SocksOK, TypeOK
<1> QED  BY <1>1, InitOK, StepOK, PTL DEF Spec
=============================================================================
