------------------------ MODULE UmqttExchange_proofs ------------------------
(***************************************************************************)
(* Theorems about the calls of the MQTT client, for any set of threads, any *)
(* size of the queue and any budget.                                        *)
(***************************************************************************)
EXTENDS UmqttExchange, FiniteSetTheorems, SequenceTheorems, TLAPS

-----------------------------------------------------------------------------
(* Counting the packets of a type in a sequence *)

Places(s, type) == {i \in DOMAIN s : s[i].type = type}

LEMMA CountIsNat ==
  ASSUME NEW S, NEW s \in Seq(S), NEW type
  PROVE  IsFiniteSet(Places(s, type)) /\ Count(s, type) \in Nat
<1>1. DOMAIN s = 1 .. Len(s) /\ Len(s) \in Nat
  OBVIOUS
<1>2. IsFiniteSet(1 .. Len(s))
  BY <1>1, FS_Interval
<1>3. Places(s, type) \in SUBSET (1 .. Len(s))
  BY <1>1 DEF Places
<1>4. IsFiniteSet(Places(s, type))
  BY <1>2, <1>3, FS_Subset
<1> QED  BY <1>4, FS_CardinalityType DEF Places, Count

LEMMA CountEmpty == \A type : Count(<<>>, type) = 0
<1> SUFFICES ASSUME NEW type
             PROVE  Count(<<>>, type) = 0
  OBVIOUS
<1>1. {i \in DOMAIN <<>> : <<>>[i].type = type} = {}
  OBVIOUS
<1> QED  BY <1>1, FS_EmptySet DEF Count

LEMMA CountAppend ==
  ASSUME NEW S, NEW s \in Seq(S), NEW e \in S, NEW type
  PROVE  Count(Append(s, e), type) = IF e.type = type THEN Count(s, type) + 1
                                                      ELSE Count(s, type)
<1> DEFINE n == Len(s) + 1
<1>1. /\ DOMAIN s = 1 .. Len(s) /\ Len(s) \in Nat /\ n \notin DOMAIN s
      /\ DOMAIN Append(s, e) = 1 .. n /\ Append(s, e)[n] = e
      /\ \A i \in 1 .. Len(s) : Append(s, e)[i] = s[i]
  OBVIOUS
<1>2. Places(Append(s, e), type) = IF e.type = type THEN Places(s, type) \cup {n}
                                                    ELSE Places(s, type)
  BY <1>1 DEF Places
<1>3. n \notin Places(s, type)
  BY <1>1 DEF Places
<1>4. IsFiniteSet(Places(s, type))
  BY CountIsNat
<1>5. Cardinality(Places(s, type) \cup {n}) = Cardinality(Places(s, type)) + 1
  BY <1>3, <1>4, FS_AddElement
<1> QED  BY <1>2, <1>5 DEF Count, Places

LEMMA CountTail ==
  ASSUME NEW S, NEW s \in Seq(S), s # <<>>, NEW type
  PROVE  Count(s, type) = IF Head(s).type = type THEN Count(Tail(s), type) + 1
                                                 ELSE Count(Tail(s), type)
<1> DEFINE P == Places(Tail(s), type)
           Q == Places(s, type) \ {1}
           f == [i \in P |-> i + 1]
<1>1. /\ Len(s) \in Nat \ {0} /\ DOMAIN s = 1 .. Len(s) /\ Head(s) = s[1]
      /\ DOMAIN Tail(s) = 1 .. Len(s) - 1 /\ Tail(s) \in Seq(S)
      /\ \A i \in 1 .. Len(s) - 1 : Tail(s)[i] = s[i + 1]
  BY EmptySeq, HeadTailProperties
<1>2. P \subseteq 1 .. Len(s) - 1 /\ Q \subseteq 2 .. Len(s)
  BY <1>1 DEF Places
<1>3. \A i \in 1 .. Len(s) - 1 : i \in P <=> i + 1 \in Q
  BY <1>1 DEF Places
<1>4. f \in Bijection(P, Q)
  <2>1. f \in [P -> Q]
    BY <1>2, <1>3
  <2>2. \A i, j \in P : f[i] = f[j] => i = j
    BY <1>1, <1>2
  <2>3. \A j \in Q : \E i \in P : f[i] = j
    <3> SUFFICES ASSUME NEW j \in Q
                 PROVE  j - 1 \in P /\ f[j - 1] = j
      OBVIOUS
    <3>1. j - 1 \in 1 .. Len(s) - 1 /\ j = (j - 1) + 1
      BY <1>1, <1>2
    <3>2. j - 1 \in P
      BY <1>3, <3>1
    <3> QED  BY <3>1, <3>2
  <2> QED  BY <2>1, <2>2, <2>3 DEF Bijection, Injection, IsInjective, Surjection
<1>5. IsFiniteSet(P) /\ IsFiniteSet(Places(s, type))
  BY <1>1, CountIsNat
<1>6. Cardinality(Q) = Cardinality(P)
  BY <1>4, <1>5, FS_Bijection DEF ExistsBijection
<1>7. 1 \in Places(s, type) <=> Head(s).type = type
  BY <1>1 DEF Places
<1>8. Cardinality(Q) = IF Head(s).type = type THEN Cardinality(Places(s, type)) - 1
                                              ELSE Cardinality(Places(s, type))
  BY <1>5, <1>7, FS_RemoveElement
<1>9. Cardinality(Places(s, type)) \in Nat /\ Cardinality(P) \in Nat
  BY <1>5, FS_CardinalityType
<1>10. Count(s, type) = Cardinality(Places(s, type)) /\ Count(Tail(s), type) = Cardinality(P)
  BY DEF Count, Places
<1> HIDE DEF P, Q
<1> QED  BY <1>6, <1>8, <1>9, <1>10

-----------------------------------------------------------------------------
(* Type correctness, by component *)

Steps == {"idle", "send", "wait", "reply", "finish"}
Calls == [kind : CallKinds \cup {"rel", "none"}, id : Ids, cnt : 0 .. ReconMax]
FromBroker == AckPackets \cup [type : {"PUBLISH"}, id : {0, 1}]

\* A flag and a number together are more than one leaf can use.
LEMMA IdTypes ==
  /\ Ids \subseteq Nat /\ 0 \in Ids /\ 1 \in Ids
  /\ packetId \in Ids => NextId \in Ids
BY ExchangeAssumption DEF Ids, NextId

\* A packet that is encoded is one.
LEMMA PacketTypes ==
  /\ \A kind \in CallKinds, id \in Ids : [type |-> PacketOf[kind], id |-> id] \in Packets
  /\ \A type \in {"PUBREL", "PUBACK", "PINGREQ"}, id \in Ids : [type |-> type, id |-> id] \in Packets
  /\ Connect \in Packets /\ Garbled \in Packets
BY IdTypes DEF Packets, PacketOf, Answer, Connect, Garbled, CallKinds

\* So is an answer.
LEMMA AnswerTypes ==
  ASSUME NEW p \in Packets, p.type \in DOMAIN Answer
  PROVE  /\ [type |-> Answer[p.type], id |-> p.id] \in AckPackets
         /\ Answer[p.type] = "PUBACK" <=> p.type = "PUBLISH1"
BY DEF Packets, Answer, AckPackets, Acks, AckOf

LEMMA TypeInit ==
  ASSUME Init
  PROVE  TypeOK
<1>1. packetId \in Ids /\ owes \in Ids /\ sendBuf \in Packets
  BY IdTypes, PacketTypes DEF Init
<1>2. ping \in BOOLEAN /\ session \in BOOLEAN /\ link \in {"up", "lost", "closed"}
  BY DEF Init
<1>3. msgQueue \in Seq(AckPackets) /\ Len(msgQueue) <= QueueSize
  BY ExchangeAssumption, EmptySeq DEF Init
<1>4. toBroker \in Seq(Packets) /\ toClient \in Seq(FromBroker)
  BY DEF Init
<1>5. pc \in [Threads -> Steps] /\ call \in [Threads -> Calls]
  <2>1. NoCall \in Calls
    BY IdTypes, ExchangeAssumption DEF NoCall, Calls
  <2> QED  BY <2>1 DEF Init, Steps
<1>6. /\ accepted \subseteq Ids /\ confirmed \subseteq Ids /\ acked \in Nat /\ oks \in Nat
      /\ budget \in Budget
  BY ExchangeAssumption DEF Init
<1> QED
  BY <1>1, <1>2, <1>3, <1>4, <1>5, <1>6 DEF TypeOK, Steps, Calls, FromBroker

LEMMA StartTypes ==
  ASSUME TypeOK, NEW t \in Threads, NEW kind \in CallKinds, Start(t, kind)
  PROVE  /\ packetId' \in Ids /\ sendBuf' \in Packets
         /\ pc' \in [Threads -> Steps] /\ call' \in [Threads -> Calls]
         /\ accepted' \subseteq Ids /\ confirmed' \subseteq Ids
<1>1. packetId' = NextId /\ NextId \in Ids
  BY IdTypes DEF Start, TypeOK
<1>2. sendBuf' \in Packets
  BY <1>1, PacketTypes DEF Start
<1>3. [kind |-> kind, id |-> NextId, cnt |-> 0] \in Calls
  BY <1>1, ExchangeAssumption DEF Calls
<1>4. call' \in [Threads -> Calls]
  BY <1>3 DEF Start, TypeOK, Calls
<1>5. pc' \in [Threads -> Steps]
  BY DEF Start, TypeOK, Steps
<1>6. accepted' \subseteq Ids /\ confirmed' \subseteq Ids
  BY DEF Start, TypeOK
<1> QED  BY <1>1, <1>2, <1>4, <1>5, <1>6

LEMMA ReturnTypes ==
  ASSUME TypeOK, NEW t \in Threads, NEW ok \in BOOLEAN, Return(t, ok)
  PROVE  /\ pc' \in [Threads -> Steps] /\ call' \in [Threads -> Calls]
         /\ confirmed' \subseteq Ids /\ oks' \in Nat
<1>1. NoCall \in Calls
  BY IdTypes, ExchangeAssumption DEF NoCall, Calls
<1>2. call' \in [Threads -> Calls]
  BY <1>1 DEF Return, Leave, TypeOK, Calls
<1>3. pc' \in [Threads -> Steps]
  BY DEF Return, Leave, TypeOK, Steps
<1>4. call[t].id \in Ids
  BY DEF TypeOK
<1>5. confirmed' \in {confirmed, confirmed \cup {call[t].id}}
  BY DEF Return
<1>6. oks' \in Nat
  BY DEF Return, TypeOK
<1> QED  BY <1>2, <1>3, <1>4, <1>5, <1>6 DEF TypeOK

LEMMA PubrelTypes ==
  ASSUME TypeOK, NEW t \in Threads, Pubrel(t)
  PROVE  /\ pc' \in [Threads -> Steps] /\ call' \in [Threads -> Calls]
         /\ sendBuf' \in Packets
<1> DEFINE c == [call[t] EXCEPT !.kind = "rel", !.cnt = 0]
<1>1. call[t] \in Calls
  BY DEF TypeOK, Calls
<1>2. c \in Calls
  <2>1. 0 \in 0 .. ReconMax
    BY ExchangeAssumption
  <2> QED  BY <1>1, <2>1 DEF Calls
<1>3. call' = [call EXCEPT ![t] = c]
  BY <1>1 DEF Pubrel, TypeOK
<1> HIDE DEF c
<1>4. call' \in [Threads -> Calls]
  BY <1>2, <1>3 DEF TypeOK, Calls
<1>5. pc' \in [Threads -> Steps]
  BY DEF Pubrel, TypeOK, Steps
<1>6. call[t].id \in Ids
  BY <1>1 DEF Calls
<1>7. sendBuf' \in Packets
  BY <1>6, PacketTypes DEF Pubrel
<1> QED  BY <1>4, <1>5, <1>7

\* The types of what the network holds.
LEMMA TransmitTypes ==
  ASSUME TypeOK, NEW packet \in Packets, Transmit(packet)
  PROVE  toBroker' \in Seq(Packets)
BY DEF TypeOK, Transmit

LEMMA TypeNewCall ==
  ASSUME TypeOK, NEW t \in Apps, NewCall(t)
  PROVE  TypeOK'
<1>1. PICK kind \in CallKinds : AppCall(t, kind)
  BY DEF NewCall, Publish, PublishAsync, Subscribe, Unsubscribe, CallKinds
<1>2. /\ packetId' \in Ids /\ sendBuf' \in Packets
      /\ pc' \in [Threads -> Steps] /\ call' \in [Threads -> Calls]
      /\ accepted' \subseteq Ids /\ confirmed' \subseteq Ids
  BY <1>1, StartTypes DEF AppCall, Threads
<1>3. budget' \in Budget
  <2>1. budget \in Budget /\ budget.calls - 1 \in Nat
    BY <1>1 DEF AppCall, TypeOK, Budget
  <2> QED  BY <1>1, <2>1 DEF AppCall, Budget
<1>4. ping' \in BOOLEAN /\ session' \in BOOLEAN
  BY <1>1 DEF AppCall, network, TypeOK
<1>5. UNCHANGED <<msgQueue, owes, link, toBroker, toClient, acked, oks>>
  BY <1>1 DEF AppCall, network, history
<1> QED  BY <1>2, <1>3, <1>4, <1>5 DEF TypeOK, Steps, Calls

LEMMA TypeSend ==
  ASSUME TypeOK, NEW t \in Threads, Send(t)
  PROVE  TypeOK'
<1>1. /\ pc' \in [Threads -> Steps] /\ call' \in [Threads -> Calls]
      /\ confirmed' \subseteq Ids /\ oks' \in Nat
  <2>1. CASE Return(t, FALSE)
    BY <2>1, ReturnTypes
  <2>2. CASE pc' = [pc EXCEPT ![t] = "wait"] /\ UNCHANGED <<call, confirmed, oks>>
    BY <2>2 DEF TypeOK, Steps, Calls
  <2> QED  BY <2>1, <2>2 DEF Send
<1>2. toBroker' \in Seq(Packets)
  BY TransmitTypes DEF Send, TypeOK
<1>3. ping' \in BOOLEAN /\ session' \in BOOLEAN
  BY DEF Send, TypeOK
<1>4. UNCHANGED <<packetId, sendBuf, msgQueue, owes, link, toClient, budget, accepted, acked>>
  BY DEF Send
<1> QED  BY <1>1, <1>2, <1>3, <1>4 DEF TypeOK, Steps, Calls

LEMMA TypeTakeAck ==
  ASSUME TypeOK, NEW t \in Threads, TakeAck(t)
  PROVE  TypeOK'
<1>1. /\ pc' \in [Threads -> Steps] /\ call' \in [Threads -> Calls]
      /\ confirmed' \subseteq Ids /\ oks' \in Nat /\ sendBuf' \in Packets
  <2>1. CASE Pubrel(t) /\ UNCHANGED <<confirmed, oks>>
    BY <2>1, PubrelTypes DEF TypeOK
  <2>2. CASE UNCHANGED sendBuf /\ \E ok \in BOOLEAN : Return(t, ok)
    BY <2>2, ReturnTypes DEF TypeOK
  <2> QED  BY <2>1, <2>2 DEF TakeAck
<1>2. msgQueue' \in Seq(AckPackets) /\ Len(msgQueue') <= QueueSize
  <2>1. /\ msgQueue \in Seq(AckPackets) /\ msgQueue # <<>> /\ msgQueue' = Tail(msgQueue)
        /\ Len(msgQueue) <= QueueSize
    BY DEF TakeAck, Taken, TypeOK
  <2>2. Len(msgQueue') = Len(msgQueue) - 1 /\ Len(msgQueue) \in Nat /\ QueueSize \in Nat
    BY <2>1, HeadTailProperties, ExchangeAssumption
  <2>3. Len(msgQueue) <= QueueSize
    BY <2>1
  <2>4. Len(msgQueue') <= QueueSize
    BY <2>2, <2>3
  <2>5. msgQueue' \in Seq(AckPackets)
    BY <2>1, HeadTailProperties
  <2> QED  BY <2>4, <2>5
<1>3. ping' \in BOOLEAN /\ session' \in BOOLEAN
  BY DEF TakeAck, network, TypeOK
<1>4. UNCHANGED <<packetId, owes, link, toBroker, toClient, budget, accepted, acked>>
  BY DEF TakeAck, network
<1> QED  BY <1>1, <1>2, <1>3, <1>4 DEF TypeOK, Steps, Calls

LEMMA TypeTimeout ==
  ASSUME TypeOK, NEW t \in Threads, Timeout(t)
  PROVE  TypeOK'
<1>1. /\ pc' \in [Threads -> Steps] /\ call' \in [Threads -> Calls]
      /\ confirmed' \subseteq Ids /\ oks' \in Nat /\ sendBuf' \in Packets
  <2>1. CASE Return(t, FALSE) /\ UNCHANGED sendBuf
    BY <2>1, ReturnTypes DEF TypeOK
  <2>2. CASE Pubrel(t) /\ UNCHANGED <<confirmed, oks>>
    BY <2>2, PubrelTypes DEF TypeOK
  <2>3. CASE /\ ~ (call[t].cnt + 1 >= ReconMax)
             /\ call' = [call EXCEPT ![t].cnt = Counted(@)]
             /\ pc' = [pc EXCEPT ![t] = "send"]
             /\ UNCHANGED <<sendBuf, confirmed, oks>>
    <3> DEFINE c == [call[t] EXCEPT !.cnt = @ + 1]
    <3>1. call[t] \in Calls
      BY DEF TypeOK, Calls
    <3>2. call[t].cnt + 1 \in 0 .. ReconMax
      BY <2>3, <3>1, ExchangeAssumption DEF Calls
    <3>3. c \in Calls
      BY <3>1, <3>2 DEF Calls
    <3>4. call' = [call EXCEPT ![t] = c]
      BY <2>3, <3>1 DEF TypeOK, Counted
    <3> HIDE DEF c
    <3>5. call' \in [Threads -> Calls]
      BY <3>3, <3>4 DEF TypeOK, Calls
    <3>6. pc' \in [Threads -> Steps]
      BY <2>3 DEF TypeOK, Steps
    <3> QED  BY <2>3, <3>5, <3>6 DEF TypeOK
  <2>4. Counted(call[t].cnt) = call[t].cnt + 1
    BY DEF Counted
  <2> QED  BY <2>1, <2>2, <2>3, <2>4 DEF Timeout
<1>2. ping' \in BOOLEAN /\ session' \in BOOLEAN
  BY DEF Timeout, network, TypeOK
<1>3. UNCHANGED <<packetId, msgQueue, owes, link, toBroker, toClient, budget, accepted, acked>>
  BY DEF Timeout, network
<1> QED  BY <1>1, <1>2, <1>3 DEF TypeOK, Steps, Calls

LEMMA TypeReceive ==
  ASSUME TypeOK, Receive
  PROVE  TypeOK'
<1> DEFINE p == Head(toClient)
<1>1. p \in FromBroker /\ toClient' \in Seq(FromBroker)
  BY HeadTailProperties DEF Receive, TypeOK, FromBroker
<1>2. /\ packetId' \in Ids /\ sendBuf' \in Packets /\ owes' \in Ids
      /\ pc' \in [Threads -> Steps] /\ call' \in [Threads -> Calls]
      /\ msgQueue' \in Seq(AckPackets) /\ Len(msgQueue') <= QueueSize
      /\ accepted' \subseteq Ids /\ confirmed' \subseteq Ids
  <2>1. CASE p.type \in Acks
    <3>1. p \in AckPackets
      BY <1>1, <2>1 DEF FromBroker, Acks, AckOf
    <3>2. Len(msgQueue') <= QueueSize
      <4>1. CASE Len(msgQueue) < QueueSize
        <5>1. Len(msgQueue') = Len(msgQueue) + 1 /\ Len(msgQueue) \in Nat
          BY <2>1, <3>1, <4>1 DEF Receive, Queued, TypeOK
        <5> QED  BY <4>1, <5>1, ExchangeAssumption
      <4>2. CASE ~ (Len(msgQueue) < QueueSize)
        BY <2>1, <4>2 DEF Receive, Queued, TypeOK
      <4> QED  BY <4>1, <4>2
    <3>3. msgQueue' \in Seq(AckPackets)
      <4>1. msgQueue \in Seq(AckPackets)
        BY DEF TypeOK
      <4>2. msgQueue' = Append(msgQueue, p) \/ msgQueue' = msgQueue
        BY <2>1 DEF Receive, Queued
      <4> QED  BY <3>1, <4>1, <4>2, AppendProperties
    <3>4. UNCHANGED <<packetId, sendBuf, call, pc, owes, accepted, confirmed>>
      BY <2>1 DEF Receive
    <3> QED  BY <3>2, <3>3, <3>4 DEF TypeOK, Steps, Calls
  <2>2. CASE p.type \notin Acks
    <3>1. Start(Rx, "pub1") /\ owes' = p.id /\ UNCHANGED msgQueue
      BY <2>2 DEF Receive
    <3>2. p.id \in {0, 1}
      BY <1>1, <2>2 DEF FromBroker, AckPackets
    <3>3. Rx \in Threads /\ "pub1" \in CallKinds
      BY DEF Threads, CallKinds
    <3>4. /\ packetId' \in Ids /\ sendBuf' \in Packets
          /\ pc' \in [Threads -> Steps] /\ call' \in [Threads -> Calls]
          /\ accepted' \subseteq Ids /\ confirmed' \subseteq Ids
      BY <3>1, <3>3, StartTypes
    <3>5. msgQueue' \in Seq(AckPackets) /\ Len(msgQueue') <= QueueSize
      BY <3>1 DEF TypeOK
    <3>6. owes' \in Ids
      BY <3>1, <3>2, IdTypes
    <3> QED  BY <3>4, <3>5, <3>6
  <2> QED  BY <2>1, <2>2
<1>3. ping' \in BOOLEAN /\ session' \in BOOLEAN
  BY DEF Receive, TypeOK
<1>4. UNCHANGED <<link, toBroker, budget, acked, oks>>
  BY DEF Receive
<1> QED  BY <1>1, <1>2, <1>3, <1>4 DEF TypeOK, Steps, Calls, FromBroker

LEMMA TypeRest ==
  ASSUME TypeOK, EncodePuback \/ CloseLink \/ Reconnect \/ FinishRx \/ Pinger
  PROVE  TypeOK'
<1>1. /\ packetId' \in Ids /\ owes' \in Ids /\ sendBuf' \in Packets
      /\ link' \in {"up", "lost", "closed"}
  BY IdTypes, PacketTypes
  DEF EncodePuback, CloseLink, Reconnect, FinishRx, Pinger, EncodePing, SendPing,
      client, network, TypeOK
<1>2. ping' \in BOOLEAN /\ session' \in BOOLEAN
  BY DEF EncodePuback, CloseLink, Reconnect, FinishRx, Pinger, EncodePing, SendPing,
      client, network, TypeOK
<1>3. UNCHANGED <<msgQueue, call, toClient, accepted, acked, confirmed, oks>>
  BY DEF EncodePuback, CloseLink, Reconnect, FinishRx, Pinger, EncodePing, SendPing,
      client, network, history
<1>4. pc' \in [Threads -> Steps]
  BY DEF EncodePuback, CloseLink, Reconnect, FinishRx, Pinger, EncodePing, SendPing,
      client, network, TypeOK, Steps
<1>5. toBroker' \in Seq(Packets)
  <2>1. CASE UNCHANGED toBroker
    BY <2>1 DEF TypeOK
  <2>2. CASE FinishRx \/ SendPing
    <3>1. \E packet \in Packets : Transmit(packet)
      BY <2>2, IdTypes, PacketTypes DEF FinishRx, SendPing, TypeOK
    <3> QED  BY <3>1, TransmitTypes
  <2> QED  BY <2>1, <2>2 DEF EncodePuback, CloseLink, Reconnect, Pinger, EncodePing, network
<1>6. budget' \in Budget
  <2>1. CASE UNCHANGED budget
    BY <2>1 DEF TypeOK
  <2>2. CASE EncodePing
    <3>1. budget \in Budget /\ budget.pings - 1 \in Nat
      BY <2>2 DEF EncodePing, TypeOK, Budget
    <3> QED  BY <2>2, <3>1 DEF EncodePing, Budget
  <2> QED  BY <2>1, <2>2 DEF EncodePuback, CloseLink, Reconnect, FinishRx, Pinger, SendPing
<1> QED  BY <1>1, <1>2, <1>3, <1>4, <1>5, <1>6 DEF TypeOK, Steps, Calls

LEMMA TypeBroker ==
  ASSUME TypeOK, Broker
  PROVE  TypeOK'
<1> DEFINE p == Head(toBroker)
<1>1. p \in Packets /\ Tail(toBroker) \in Seq(Packets)
  BY HeadTailProperties DEF Broker, TypeOK
<1>2. /\ toBroker' \in Seq(Packets) /\ toClient' \in Seq(FromBroker)
      /\ link' \in {"up", "lost", "closed"}
      /\ accepted' \subseteq Ids /\ acked' \in Nat
  <2>1. CASE Drop /\ UNCHANGED <<accepted, acked>>
    BY <2>1 DEF Drop, TypeOK
  <2>2. CASE ~ (Drop /\ UNCHANGED <<accepted, acked>>)
    <3>1. p.type \in DOMAIN Answer => [type |-> Answer[p.type], id |-> p.id] \in FromBroker
      BY <1>1, AnswerTypes DEF FromBroker
    <3>2. toClient' \in Seq(FromBroker)
      <4>1. toClient \in Seq(FromBroker)
        BY DEF TypeOK, FromBroker
      <4>2. \/ toClient' = toClient
            \/ /\ p.type \in DOMAIN Answer
               /\ toClient' = Append(toClient, [type |-> Answer[p.type], id |-> p.id])
        BY <2>2 DEF Broker
      <4> QED  BY <3>1, <4>1, <4>2, AppendProperties
    <3>3. p.id \in Ids
      BY <1>1 DEF Packets
    <3>4. accepted' \subseteq Ids /\ acked' \in Nat
      BY <2>2, <3>3 DEF Broker, TypeOK
    <3>5. toBroker' \in Seq(Packets) /\ UNCHANGED link
      BY <1>1, <2>2 DEF Broker
    <3> QED  BY <3>2, <3>4, <3>5 DEF TypeOK
  <2> QED  BY <2>1, <2>2
<1>3. session' \in BOOLEAN /\ ping' \in BOOLEAN
  BY DEF Broker, Drop, client, TypeOK
<1>4. UNCHANGED <<packetId, sendBuf, msgQueue, pc, call, owes, budget, confirmed, oks>>
  BY DEF Broker, client
<1> QED  BY <1>2, <1>3, <1>4 DEF TypeOK, FromBroker

LEMMA TypeInbound ==
  ASSUME TypeOK, Inbound
  PROVE  TypeOK'
<1>1. toClient' \in Seq(FromBroker)
  <2>1. PICK id \in {0, 1} : toClient' = Append(toClient, [type |-> "PUBLISH", id |-> id])
    BY DEF Inbound
  <2>2. toClient \in Seq(FromBroker) /\ [type |-> "PUBLISH", id |-> id] \in FromBroker
    BY DEF TypeOK, FromBroker
  <2> QED  BY <2>1, <2>2, AppendProperties
<1>2. budget' \in Budget
  <2>1. budget \in Budget /\ budget.inbound - 1 \in Nat
    BY DEF Inbound, TypeOK, Budget
  <2> QED  BY <2>1 DEF Inbound, Budget
<1>3. session' \in BOOLEAN /\ ping' \in BOOLEAN
  BY DEF Inbound, client, TypeOK
<1>4. UNCHANGED <<packetId, sendBuf, msgQueue, pc, call, owes, link, toBroker,
                  accepted, acked, confirmed, oks>>
  BY DEF Inbound, client, history
<1> QED  BY <1>1, <1>2, <1>3, <1>4 DEF TypeOK, FromBroker

LEMMA TypeLose ==
  ASSUME TypeOK, Lose
  PROVE  TypeOK'
<1>1. budget' \in Budget
  <2>1. budget \in Budget /\ budget.losses - 1 \in Nat
    BY DEF Lose, TypeOK, Budget
  <2> QED  BY <2>1 DEF Lose, Budget
<1>2. session' \in BOOLEAN /\ ping' \in BOOLEAN
  BY DEF Lose, Drop, client, TypeOK
<1>3. toBroker' \in Seq(Packets) /\ toClient' \in Seq(FromBroker) /\ link' = "lost"
  BY DEF Lose, Drop
<1>4. UNCHANGED <<packetId, sendBuf, msgQueue, pc, call, owes, accepted, acked, confirmed, oks>>
  BY DEF Lose, client, history
<1> QED  BY <1>1, <1>2, <1>3, <1>4 DEF TypeOK, FromBroker

\* The state of the client keeps its types, and msg_queue its size, whatever the threads,
\* the broker and the network do.
THEOREM TypeCorrect == Spec => []TypeOK
<1>1. Init => TypeOK
  BY TypeInit
<1>2. TypeOK /\ [Next]_vars => TypeOK'
  <2> SUFFICES ASSUME TypeOK, [Next]_vars
               PROVE  TypeOK'
    OBVIOUS
  <2>1. CASE UNCHANGED vars
    BY <2>1 DEF vars, client, network, history, TypeOK
  <2>2. CASE Next
    BY <2>2, TypeNewCall, TypeSend, TypeTakeAck, TypeTimeout, TypeReceive, TypeRest,
       TypeBroker, TypeInbound, TypeLose DEF Next, CallStep, RxStep
  <2> QED  BY <2>1, <2>2
<1> QED  BY <1>1, <1>2, PTL DEF Spec

-----------------------------------------------------------------------------
(* AcksConserved *)

\* The numbers it compares.
LEMMA Numbers ==
  ASSUME TypeOK
  PROVE  /\ oks \in Nat /\ acked \in Nat
         /\ Pubacks(msgQueue) \in Nat /\ Pubacks(toClient) \in Nat
<1>1. msgQueue \in Seq(AckPackets) /\ toClient \in Seq(FromBroker)
  BY DEF TypeOK, FromBroker
<1> QED  BY <1>1, CountIsNat DEF Pubacks, TypeOK

\* Only a PUBACK that is taken from the queue confirms a call, and no more than one.
LEMMA TakenOnce ==
  ASSUME TypeOK, AcksConserved, NEW t \in Threads, TakeAck(t)
  PROVE  AcksConserved'
<1>1. /\ msgQueue \in Seq(AckPackets) /\ msgQueue # <<>> /\ msgQueue' = Tail(msgQueue)
      /\ UNCHANGED <<toClient, acked>>
  BY DEF TakeAck, Taken, network, TypeOK
<1>2. Pubacks(msgQueue) = IF Head(msgQueue).type = "PUBACK" THEN Pubacks(msgQueue') + 1
                                                           ELSE Pubacks(msgQueue')
  BY <1>1, CountTail DEF Pubacks
<1>3. msgQueue' \in Seq(AckPackets)
  BY <1>1, HeadTailProperties
<1>4. Pubacks(msgQueue') \in Nat
  BY <1>3, CountIsNat DEF Pubacks
<1>5. oks' = oks \/ (oks' = oks + 1 /\ Head(msgQueue).type = "PUBACK")
  <2>1. AckOf["pub1"] = "PUBACK"
    BY DEF AckOf
  <2>2. \/ oks' = oks
        \/ oks' = oks + 1 /\ call[t].kind = "pub1" /\ Head(msgQueue).type = AckOf[call[t].kind]
    BY DEF TakeAck, Return
  <2> QED  BY <2>1, <2>2
<1> QED  BY <1>1, <1>2, <1>4, <1>5, Numbers DEF AcksConserved

\* A PUBACK that Rx receives moves from the connection to the queue or is dropped.
LEMMA ReceivedOnce ==
  ASSUME TypeOK, AcksConserved, Receive
  PROVE  AcksConserved'
<1> DEFINE p == Head(toClient)
<1>1. /\ toClient \in Seq(FromBroker) /\ toClient # <<>> /\ toClient' = Tail(toClient)
      /\ msgQueue \in Seq(AckPackets) /\ UNCHANGED <<oks, acked>>
  BY DEF Receive, TypeOK, FromBroker
<1>2. Pubacks(toClient) = IF p.type = "PUBACK" THEN Pubacks(toClient') + 1
                                               ELSE Pubacks(toClient')
  BY <1>1, CountTail DEF Pubacks
<1>3. p \in FromBroker /\ toClient' \in Seq(FromBroker)
  BY <1>1, HeadTailProperties
<1>4. Pubacks(toClient') \in Nat
  BY <1>3, CountIsNat DEF Pubacks
<1>5. \/ msgQueue' = msgQueue
      \/ msgQueue' = Append(msgQueue, p) /\ p \in AckPackets
  <2>1. p.type \in Acks => p \in AckPackets
    BY <1>3 DEF FromBroker, Acks, AckOf
  <2> QED  BY <2>1 DEF Receive, Queued
<1>6. Pubacks(msgQueue') \in {Pubacks(msgQueue),
                              IF p.type = "PUBACK" THEN Pubacks(msgQueue) + 1
                                                   ELSE Pubacks(msgQueue)}
  <2>1. CASE msgQueue' = msgQueue
    BY <2>1
  <2>2. CASE msgQueue' = Append(msgQueue, p) /\ p \in AckPackets
    <3> HIDE DEF p
    <3> QED  BY <1>1, <2>2, CountAppend DEF Pubacks
  <2> QED  BY <1>5, <2>1, <2>2
<1> QED  BY <1>1, <1>2, <1>4, <1>6, Numbers DEF AcksConserved

\* The broker sends a PUBACK with each PUBLISH of QoS 1 it has received.
LEMMA AnsweredOnce ==
  ASSUME TypeOK, AcksConserved, Broker
  PROVE  AcksConserved'
<1> DEFINE p == Head(toBroker)
           a == [type |-> Answer[p.type], id |-> p.id]
<1>1. UNCHANGED <<msgQueue, oks>> /\ toClient \in Seq(FromBroker)
  BY DEF Broker, client, TypeOK, FromBroker
<1>2. p \in Packets
  BY HeadTailProperties DEF Broker, TypeOK
<1>3. CASE Drop /\ UNCHANGED <<accepted, acked>>
  <2>1. toClient' = <<>>
    BY <1>3 DEF Drop
  <2>2. Pubacks(toClient') = 0
    BY <2>1, CountEmpty DEF Pubacks
  <2> QED  BY <1>1, <1>3, <2>2, Numbers DEF AcksConserved
<1>4. CASE ~ (Drop /\ UNCHANGED <<accepted, acked>>)
  <2>1. CASE p.type \in DOMAIN Answer
    <3>1. a \in FromBroker /\ (a.type = "PUBACK" <=> p.type = "PUBLISH1")
      BY <1>2, <2>1, AnswerTypes DEF FromBroker
    <3>2. /\ toClient' = Append(toClient, a)
          /\ acked' = IF p.type = "PUBLISH1" THEN acked + 1 ELSE acked
      BY <1>4, <2>1 DEF Broker
    <3> HIDE DEF a
    <3>3. Pubacks(toClient') = IF a.type = "PUBACK" THEN Pubacks(toClient) + 1
                                                    ELSE Pubacks(toClient)
      BY <1>1, <3>1, <3>2, CountAppend DEF Pubacks
    <3> QED  BY <1>1, <3>1, <3>2, <3>3, Numbers DEF AcksConserved
  <2>2. CASE p.type \notin DOMAIN Answer
    <3>1. toClient' = toClient /\ acked' = acked
      BY <1>4, <2>2 DEF Broker, Answer
    <3> QED  BY <1>1, <3>1 DEF AcksConserved
  <2> QED  BY <2>1, <2>2
<1> QED  BY <1>3, <1>4

\* Nothing else makes an acknowledgement or uses one.
LEMMA NoAckElsewhere ==
  ASSUME TypeOK, AcksConserved,
         UNCHANGED <<oks, msgQueue, acked>>,
         toClient' = toClient \/ toClient' = <<>>
           \/ \E id \in {0, 1} : toClient' = Append(toClient, [type |-> "PUBLISH", id |-> id])
  PROVE  AcksConserved'
<1>1. CASE toClient' = toClient
  BY <1>1 DEF AcksConserved
<1>2. CASE toClient' = <<>>
  <2>1. Pubacks(toClient') = 0
    BY <1>2, CountEmpty DEF Pubacks
  <2> QED  BY <2>1, Numbers DEF AcksConserved
<1>3. CASE \E id \in {0, 1} : toClient' = Append(toClient, [type |-> "PUBLISH", id |-> id])
  <2>1. PICK id \in {0, 1} : toClient' = Append(toClient, [type |-> "PUBLISH", id |-> id])
    BY <1>3
  <2>2. toClient \in Seq(FromBroker) /\ [type |-> "PUBLISH", id |-> id] \in FromBroker
    BY DEF TypeOK, FromBroker
  <2>3. Pubacks(toClient') = Pubacks(toClient)
    BY <2>1, <2>2, CountAppend DEF Pubacks
  <2> QED  BY <2>3 DEF AcksConserved
<1> QED  BY <1>1, <1>2, <1>3

\* For any threads, budget and queue an acknowledgement confirms at most one call.
THEOREM AcksAreConserved == Spec => []AcksConserved
<1>1. Init => AcksConserved
  <2> SUFFICES ASSUME Init
               PROVE  AcksConserved
    OBVIOUS
  <2>1. oks = 0 /\ Pubacks(msgQueue) = 0 /\ Pubacks(toClient) = 0
    BY CountEmpty DEF Init, Pubacks
  <2> QED  BY <2>1 DEF Init, AcksConserved
<1>2. TypeOK /\ AcksConserved /\ [Next]_vars => AcksConserved'
  <2> SUFFICES ASSUME TypeOK, AcksConserved, [Next]_vars
               PROVE  AcksConserved'
    OBVIOUS
  <2>1. CASE UNCHANGED vars
    BY <2>1 DEF vars, client, network, history, AcksConserved
  <2>2. ASSUME NEW t \in Threads, CallStep(t)
        PROVE  AcksConserved'
    <3>1. CASE Send(t) \/ Timeout(t)
      <4>1. UNCHANGED <<oks, msgQueue, acked, toClient>>
        BY <3>1 DEF Send, Timeout, Return, network
      <4> QED  BY <4>1, NoAckElsewhere
    <3> QED  BY <2>2, <3>1, TakenOnce DEF CallStep
  <2>3. ASSUME NEW t \in Apps, NewCall(t)
        PROVE  AcksConserved'
    <3>1. UNCHANGED <<oks, msgQueue, acked, toClient>>
      BY <2>3 DEF NewCall, Publish, PublishAsync, Subscribe, Unsubscribe, AppCall,
         network, history
    <3> QED  BY <3>1, NoAckElsewhere
  <2>4. CASE EncodePuback \/ CloseLink \/ Reconnect \/ FinishRx \/ Pinger
    <3>1. UNCHANGED <<oks, msgQueue, acked, toClient>>
      BY <2>4 DEF EncodePuback, CloseLink, Reconnect, FinishRx, Pinger, EncodePing,
         SendPing, client, network, history
    <3> QED  BY <3>1, NoAckElsewhere
  <2>5. CASE Inbound \/ Lose
    <3>1. UNCHANGED <<oks, msgQueue, acked>>
      BY <2>5 DEF Inbound, Lose, client, history
    <3>2. \/ toClient' = <<>>
          \/ \E id \in {0, 1} : toClient' = Append(toClient, [type |-> "PUBLISH", id |-> id])
      BY <2>5 DEF Inbound, Lose, Drop
    <3> QED  BY <3>1, <3>2, NoAckElsewhere
  <2> QED
    BY <2>1, <2>2, <2>3, <2>4, <2>5, ReceivedOnce, AnsweredOnce DEF Next, RxStep
<1> QED  BY <1>1, <1>2, TypeCorrect, PTL DEF Spec

-----------------------------------------------------------------------------
(* OkMeansAcceptedAlone *)

\* Packets the broker answers; a sequence without any; and with one at most, a certain one.
Asking == DOMAIN Answer
Quiet(s) == \A i \in DOMAIN s : s[i].type \notin Asking
Only(s, p) ==
  \A i \in DOMAIN s : s[i].type \in Asking =>
    s[i] = p /\ \A j \in DOMAIN s : s[j].type \in Asking => i = j

\* The broker has accepted this connection or is about to: else it closes it on the
\* next packet, and what is in toBroker does not count.
Live == session = TRUE \/ (toBroker # <<>> /\ Head(toBroker).type = "CONNECT")

Request(t) == [type |-> PacketOf[call[t].kind], id |-> call[t].id]
Ack(t) == [type |-> AckOf[call[t].kind], id |-> call[t].id]
NoAnswer == msgQueue = <<>> /\ toClient = <<>>
NoRequest == Live => Quiet(toBroker)
OwnPacket(t) == sendBuf.type \in Asking => sendBuf = Request(t)

\* A call is about to send, perhaps again; it has asked, or what it sent got lost; or its
\* answer has come.  There is never a second answer.
Sending(t) == pc[t] = "send" /\ NoAnswer /\ NoRequest
Asked(t) == pc[t] = "wait" /\ NoAnswer /\ (Live => Only(toBroker, Request(t)))
Answered(t) ==
  /\ pc[t] = "wait" /\ NoRequest
  /\ \/ toClient = <<Ack(t)>> /\ msgQueue = <<>>
     \/ toClient = <<>> /\ msgQueue = <<Ack(t)>>
  /\ call[t].kind = "pub1" => call[t].id \in accepted

AtRest == NoAnswer /\ NoRequest /\ \A t \in Apps : pc[t] = "idle"
InCall(t) == /\ \A u \in Apps \ {t} : pc[u] = "idle"
             /\ call[t].kind \in {"pub1", "pub2", "sub", "unsub", "rel"}
             /\ OwnPacket(t)
             /\ Sending(t) \/ Asked(t) \/ Answered(t)

\* Rx has encoded its CONNECT and a caller has sent it before Rx does: it waits in vain,
\* so what Rx sends after it is no request.
Greeted == pc[Rx] = "finish" /\ Live =>
             /\ sendBuf.type \notin Asking /\ NoAnswer /\ Quiet(toBroker)
             /\ \E t \in Apps : pc[t] = "wait"
Down == link # "up" => toBroker = <<>> /\ toClient = <<>> /\ session = FALSE

\* What an exclusive budget leaves out.
Calm == budget.inbound = 0 /\ "async" \notin budget.kinds /\ pc[Rx] \in {"idle", "finish"}

Alone == /\ Calm /\ Down /\ Greeted
         /\ AtRest \/ \E t \in Apps : InCall(t)
         /\ confirmed \subseteq accepted
AloneInv == budget.exclusive = TRUE => Alone

LEMMA QuietEnds ==
  /\ Quiet(<<>>)
  /\ \A p : p.type \notin Asking => Quiet(<<p>>)
  /\ \A s, p : Quiet(s) => Only(s, p)
BY DEF Quiet, Only

LEMMA QuietAppend ==
  ASSUME NEW S, NEW s \in Seq(S), NEW e \in S, Quiet(s)
  PROVE  (e.type \notin Asking => Quiet(Append(s, e))) /\ Only(Append(s, e), e)
<1>1. /\ DOMAIN Append(s, e) = 1 .. Len(s) + 1 /\ DOMAIN s = 1 .. Len(s)
      /\ Append(s, e)[Len(s) + 1] = e /\ \A i \in 1 .. Len(s) : Append(s, e)[i] = s[i]
  OBVIOUS
<1>2. \A i \in 1 .. Len(s) + 1 : i \in 1 .. Len(s) \/ i = Len(s) + 1
  OBVIOUS
<1> QED  BY <1>1, <1>2 DEF Quiet, Only

LEMMA OnlyAppend ==
  ASSUME NEW S, NEW s \in Seq(S), NEW e \in S, e.type \notin Asking, NEW p, Only(s, p)
  PROVE  Only(Append(s, e), p)
<1>1. /\ DOMAIN Append(s, e) = 1 .. Len(s) + 1 /\ DOMAIN s = 1 .. Len(s)
      /\ Append(s, e)[Len(s) + 1] = e /\ \A i \in 1 .. Len(s) : Append(s, e)[i] = s[i]
  OBVIOUS
<1>2. \A i \in 1 .. Len(s) + 1 : i \in 1 .. Len(s) \/ i = Len(s) + 1
  OBVIOUS
<1> QED  BY <1>1, <1>2 DEF Only

LEMMA OnlyTail ==
  ASSUME NEW S, NEW s \in Seq(S), s # <<>>, NEW p, Only(s, p)
  PROVE  /\ Only(Tail(s), p)
         /\ Head(s).type \in Asking => Head(s) = p /\ Quiet(Tail(s))
<1>1. /\ DOMAIN Tail(s) = 1 .. Len(s) - 1 /\ DOMAIN s = 1 .. Len(s) /\ Len(s) \in Nat \ {0}
      /\ Head(s) = s[1] /\ \A i \in 1 .. Len(s) - 1 : Tail(s)[i] = s[i + 1]
  BY EmptySeq, HeadTailProperties
<1>2. /\ 1 \in 1 .. Len(s)
      /\ \A i \in 1 .. Len(s) - 1 : i + 1 \in 1 .. Len(s) /\ i + 1 # 1
      /\ \A i, j \in 1 .. Len(s) - 1 : i + 1 = j + 1 => i = j
  BY <1>1
<1>3. Only(Tail(s), p)
  BY <1>1, <1>2 DEF Only
<1>4. ASSUME Head(s).type \in Asking PROVE Head(s) = p /\ Quiet(Tail(s))
  BY <1>1, <1>2, <1>4 DEF Only, Quiet
<1> QED  BY <1>3, <1>4

LEMMA QuietTail ==
  ASSUME NEW S, NEW s \in Seq(S), s # <<>>, Quiet(s)
  PROVE  Quiet(Tail(s)) /\ Head(s).type \notin Asking
<1>1. /\ DOMAIN Tail(s) = 1 .. Len(s) - 1 /\ DOMAIN s = 1 .. Len(s) /\ Len(s) \in Nat \ {0}
      /\ Head(s) = s[1] /\ \A i \in 1 .. Len(s) - 1 : Tail(s)[i] = s[i + 1]
  BY EmptySeq, HeadTailProperties
<1>2. 1 \in 1 .. Len(s) /\ \A i \in 1 .. Len(s) - 1 : i + 1 \in 1 .. Len(s)
  BY <1>1
<1> QED  BY <1>1, <1>2 DEF Quiet

\* What is sent is behind the rest on a connection that counts; another begins to count
\* with a CONNECT alone.
LEMMA SentOn ==
  ASSUME TypeOK, Down, NEW p \in Packets, Transmit(p), UNCHANGED session
  PROVE  /\ Live => Live' /\ toBroker' = Append(toBroker, p)
         /\ ~ Live /\ Live' => p.type = "CONNECT" /\ toBroker' = <<p>>
<1>1. toBroker \in Seq(Packets)
  BY DEF TypeOK
<1>2. ~ (link = "up") => ~ Live /\ ~ Live'
  BY DEF Down, Live, Transmit
<1>3. ASSUME link = "up" PROVE toBroker' = Append(toBroker, p)
  BY <1>3 DEF Transmit
<1>4. CASE link = "up" /\ toBroker = <<>>
  <2>1. toBroker' = <<p>> /\ Head(toBroker') = p
    BY <1>3, <1>4
  <2> QED  BY <1>3, <1>4, <2>1 DEF Live
<1>5. CASE link = "up" /\ toBroker # <<>>
  <2>1. Head(toBroker') = Head(toBroker) /\ toBroker' # <<>>
    BY <1>1, <1>3, <1>5, AppendProperties, EmptySeq
  <2> QED  BY <1>3, <1>5, <2>1 DEF Live
<1> QED  BY <1>2, <1>4, <1>5

\* A packet that is no request on a connection that counts leaves the requests as they are.
LEMMA HarmlessSend ==
  ASSUME TypeOK, Down, NEW p \in Packets, Live => p.type \notin Asking,
         Transmit(p), UNCHANGED session
  PROVE  /\ NoRequest => NoRequest'
         /\ \A r : (Live => Only(toBroker, r)) => (Live' => Only(toBroker', r))
<1>1. toBroker \in Seq(Packets)
  BY DEF TypeOK
<1>2. CASE Live
  <2>1. toBroker' = Append(toBroker, p) /\ p.type \notin Asking
    BY <1>2, SentOn
  <2>2. Quiet(toBroker) => Quiet(toBroker')
    BY <1>1, <2>1, QuietAppend
  <2>3. \A r : Only(toBroker, r) => Only(toBroker', r)
    BY <1>1, <2>1, OnlyAppend
  <2> QED  BY <1>2, <2>2, <2>3 DEF NoRequest
<1>3. CASE ~ Live
  <2>1. Live' => Quiet(toBroker')
    BY <1>3, SentOn, QuietEnds DEF Asking, Answer
  <2> QED  BY <2>1, QuietEnds DEF NoRequest
<1> QED  BY <1>2, <1>3

\* Steps of other threads that leave the calls as they are.
LEMMA CallKept ==
  ASSUME AtRest \/ \E t \in Apps : InCall(t),
         UNCHANGED <<call, msgQueue, toClient, accepted>>,
         \A t \in Apps : pc'[t] = pc[t],
         sendBuf' = sendBuf \/ sendBuf'.type \notin Asking,
         NoRequest => NoRequest',
         \A r : (Live => Only(toBroker, r)) => (Live' => Only(toBroker', r))
  PROVE  (AtRest \/ \E t \in Apps : InCall(t))'
<1>1. CASE AtRest
  BY <1>1 DEF AtRest, NoAnswer
<1>2. ASSUME NEW t \in Apps, InCall(t) PROVE InCall(t)'
  <2>1. OwnPacket(t)'
    BY <1>2 DEF InCall, OwnPacket, Request
  <2>2. Sending(t) => Sending(t)'
    BY DEF Sending, NoAnswer
  <2>3. Asked(t) => Asked(t)'
    BY DEF Asked, NoAnswer, Request
  <2>4. Answered(t) => Answered(t)'
    BY DEF Answered, Ack
  <2> QED  BY <1>2, <2>1, <2>2, <2>3, <2>4 DEF InCall
<1> QED  BY <1>1, <1>2

LEMMA AloneInit ==
  ASSUME Init
  PROVE  AloneInv
<1>1. SUFFICES ASSUME budget.exclusive = TRUE
               PROVE  Alone
  BY DEF AloneInv
<1>2. Rx \in Threads /\ Apps \subseteq Threads
  BY DEF Threads
<1>3. Calm /\ Down /\ Greeted
  BY <1>1, <1>2, ExchangeAssumption DEF Init, Calm, Down, Greeted
<1>4. AtRest /\ confirmed \subseteq accepted
  BY <1>2, QuietEnds DEF Init, AtRest, NoAnswer, NoRequest
<1> QED  BY <1>3, <1>4 DEF Alone

\* The thread in a call is the only one that is not idle, Rx apart.
LEMMA OnlyCaller ==
  ASSUME TypeOK, Alone, NEW t \in Threads, pc[t] \in {"send", "wait"}
  PROVE  t \in Apps /\ t # Rx /\ InCall(t)
<1>1. t \in Apps /\ t # Rx
  BY DEF Alone, Calm, Threads
<1>2. ~ AtRest
  BY <1>1 DEF AtRest
<1>3. PICK u \in Apps : InCall(u)
  BY <1>2 DEF Alone
<1>4. u = t
  BY <1>1, <1>3 DEF InCall
<1> QED  BY <1>1, <1>3, <1>4

\* A request has its own answer.
LEMMA RequestAnswered ==
  ASSUME NEW kind \in {"pub1", "pub2", "sub", "unsub", "rel"}
  PROVE  /\ PacketOf[kind] \in DOMAIN Answer /\ Answer[PacketOf[kind]] = AckOf[kind]
         /\ AckOf[kind] \in Acks
         /\ kind = "pub1" <=> PacketOf[kind] = "PUBLISH1"
BY DEF PacketOf, Answer, AckOf, Acks

\* What a step of a call leaves as it is for Rx and the connection.
LEMMA CalmStep ==
  ASSUME TypeOK, Calm, pc'[Rx] = pc[Rx],
         budget'.inbound = budget.inbound, budget'.kinds = budget.kinds
  PROVE  Calm'
BY DEF Calm

LEMMA AloneNewCall ==
  ASSUME TypeOK, Alone, budget.exclusive = TRUE, NEW t \in Apps, NewCall(t)
  PROVE  Alone'
<1>1. PICK kind \in {"pub1", "pub2", "sub", "unsub"} : AppCall(t, kind)
  BY DEF NewCall, Publish, PublishAsync, Subscribe, Unsubscribe, AppCall, Alone, Calm
<1>2. \A u \in Apps : pc[u] = "idle"
  BY <1>1 DEF AppCall
<1>3. NoAnswer /\ NoRequest
  BY <1>2 DEF Alone, InCall, Sending, Asked, Answered, AtRest
<1>4. t \in Threads /\ t # Rx /\ Apps \subseteq Threads /\ Rx \in Threads
  BY ExchangeAssumption DEF Threads
<1>5. /\ pc' = [pc EXCEPT ![t] = "send"] /\ pc \in [Threads -> Steps]
      /\ call' = [call EXCEPT ![t] = [kind |-> kind, id |-> NextId, cnt |-> 0]]
      /\ call \in [Threads -> Calls]
      /\ sendBuf' = [type |-> PacketOf[kind], id |-> NextId]
      /\ UNCHANGED <<msgQueue, toClient, toBroker, link, session>>
  BY <1>1 DEF AppCall, Start, network, TypeOK, Steps, Calls
<1>6. InCall(t)'
  <2>1. call'[t] = [kind |-> kind, id |-> NextId, cnt |-> 0] /\ pc'[t] = "send"
    BY <1>4, <1>5
  <2>2. \A u \in Apps \ {t} : pc'[u] = "idle"
    BY <1>2, <1>4, <1>5
  <2>3. NoAnswer' /\ NoRequest'
    BY <1>3, <1>5 DEF NoAnswer, NoRequest, Live
  <2>4. sendBuf' = Request(t)'
    BY <1>5, <2>1 DEF Request
  <2> QED  BY <2>1, <2>2, <2>3, <2>4 DEF InCall, Sending, OwnPacket
<1>7. Calm'
  <2>1. budget'.inbound = budget.inbound /\ budget'.kinds = budget.kinds
    BY <1>1 DEF AppCall, TypeOK, Budget
  <2>2. pc'[Rx] = pc[Rx]
    BY <1>4, <1>5
  <2> QED  BY <2>1, <2>2, CalmStep DEF Alone
<1>8. Down' /\ Greeted'
  <2>1. Down'
    BY <1>5 DEF Alone, Down
  <2>2. ~ (pc[Rx] = "finish" /\ Live)
    BY <1>2 DEF Alone, Greeted
  <2>3. ~ (pc[Rx] = "finish" /\ Live)'
    BY <1>4, <1>5, <2>2 DEF Live
  <2> QED  BY <2>1, <2>3 DEF Greeted
<1>9. confirmed' \subseteq accepted'
  BY <1>1 DEF AppCall, Start, Alone
<1> QED  BY <1>6, <1>7, <1>8, <1>9 DEF Alone

LEMMA AloneSend ==
  ASSUME TypeOK, Alone, NEW t \in Threads, Send(t)
  PROVE  Alone'
<1>1. t \in Apps /\ t # Rx /\ InCall(t) /\ Sending(t)
  <2>1. pc[t] = "send"
    BY DEF Send
  <2> QED  BY <2>1, OnlyCaller DEF InCall, Asked, Answered
<1>2. Rx \in Threads /\ pc \in [Threads -> Steps] /\ Apps \subseteq Threads
  BY DEF Threads, TypeOK, Steps
<1>3. /\ Transmit(sendBuf) /\ sendBuf \in Packets /\ call[t].kind # "async"
      /\ UNCHANGED <<sendBuf, msgQueue, link, session, toClient, budget, accepted>>
  BY <1>1 DEF Send, InCall, TypeOK
<1>4. \/ pc' = [pc EXCEPT ![t] = "wait"] /\ UNCHANGED <<call, confirmed>>
      \/ /\ link = "closed" /\ pc' = [pc EXCEPT ![t] = "idle"] /\ UNCHANGED confirmed
  BY <1>1, <1>3 DEF Send, Return, Leave
<1>5. Calm'
  <2>1. pc'[Rx] = pc[Rx]
    BY <1>1, <1>2, <1>4
  <2> QED  BY <1>3, <2>1, CalmStep DEF Alone
<1>6. Down'
  BY <1>3 DEF Alone, Down, Transmit
<1>7. ~ (pc[Rx] = "finish" /\ Live)
  BY <1>1 DEF Alone, Greeted, InCall, Sending
<1>8. CASE link = "closed" /\ pc' = [pc EXCEPT ![t] = "idle"] /\ UNCHANGED confirmed
  <2>1. toBroker' = toBroker
    BY <1>3, <1>8 DEF Transmit
  <2>2. AtRest'
    BY <1>1, <1>2, <1>3, <1>8, <2>1 DEF AtRest, InCall, Sending, NoAnswer, NoRequest, Live
  <2>3. ~ Live'
    BY <1>3, <1>8, <2>1 DEF Alone, Down, Live
  <2> QED  BY <1>3, <1>5, <1>6, <1>8, <2>2, <2>3 DEF Alone, Greeted
<1>9. CASE pc' = [pc EXCEPT ![t] = "wait"] /\ UNCHANGED <<call, confirmed>>
  <2>1. toBroker \in Seq(Packets) /\ Down /\ Request(t)' = Request(t)
    BY <1>9 DEF TypeOK, Alone, Request
  <2>2. ASSUME Live' PROVE Only(toBroker', Request(t))
    <3>1. CASE Live
      <4>1. Quiet(toBroker) /\ toBroker' = Append(toBroker, sendBuf)
        BY <1>1, <1>3, <2>1, <3>1, SentOn DEF Sending, NoRequest
      <4>2. Only(toBroker', sendBuf)
        BY <1>3, <2>1, <4>1, QuietAppend
      <4>3. sendBuf.type \notin Asking => Quiet(toBroker')
        BY <1>3, <2>1, <4>1, QuietAppend
      <4> QED  BY <1>1, <4>2, <4>3, QuietEnds DEF InCall, OwnPacket
    <3>2. CASE ~ Live
      <4>1. sendBuf.type = "CONNECT" /\ toBroker' = <<sendBuf>>
        BY <1>3, <2>1, <2>2, <3>2, SentOn
      <4> QED  BY <4>1, QuietEnds DEF Asking, Answer
    <3> QED  BY <3>1, <3>2
  <2>3. Asked(t)'
    BY <1>1, <1>2, <1>3, <1>9, <2>1, <2>2 DEF Asked, Sending, NoAnswer
  <2>4. InCall(t)'
    <3>1. OwnPacket(t)'
      BY <1>1, <1>3, <2>1 DEF InCall, OwnPacket
    <3>2. \A u \in Apps \ {t} : pc'[u] = "idle"
      BY <1>1, <1>2, <1>9 DEF InCall
    <3> QED  BY <1>1, <1>9, <2>3, <3>1, <3>2 DEF InCall
  <2>5. Greeted'
    <3> SUFFICES ASSUME pc'[Rx] = "finish", Live'
                 PROVE  sendBuf'.type \notin Asking /\ NoAnswer' /\ Quiet(toBroker')
                        /\ \E u \in Apps : pc'[u] = "wait"
      BY DEF Greeted
    <3>1. ~ Live
      BY <1>1, <1>2, <1>7, <1>9
    <3>2. sendBuf.type = "CONNECT" /\ toBroker' = <<sendBuf>>
      BY <1>3, <2>1, <3>1, SentOn
    <3> QED  BY <1>1, <1>2, <1>3, <1>9, <2>3, <3>2, QuietEnds DEF Asked, Asking, Answer
  <2> QED  BY <1>1, <1>3, <1>5, <1>6, <1>9, <2>4, <2>5 DEF Alone
<1> QED  BY <1>4, <1>8, <1>9

LEMMA AloneTakeAck ==
  ASSUME TypeOK, Alone, NEW t \in Threads, TakeAck(t)
  PROVE  Alone'
<1>1. t \in Apps /\ t # Rx /\ InCall(t)
  <2>1. pc[t] = "wait"
    BY DEF TakeAck
  <2> QED  BY <2>1, OnlyCaller
<1>2. Answered(t) /\ msgQueue = <<Ack(t)>> /\ toClient = <<>> /\ NoRequest
  BY <1>1 DEF TakeAck, InCall, Sending, Asked, Answered, NoAnswer
<1>3. /\ Rx \in Threads /\ Apps \subseteq Threads
      /\ pc \in [Threads -> Steps] /\ call \in [Threads -> Calls]
  BY DEF Threads, TypeOK, Steps, Calls
<1>4. Head(msgQueue).type = AckOf[call[t].kind] /\ msgQueue' = <<>>
  BY <1>2 DEF Ack, TakeAck, Taken
<1>5. UNCHANGED <<link, session, toBroker, toClient, accepted, budget>>
  BY DEF TakeAck, network
<1>6. NoAnswer' /\ NoRequest'
  BY <1>2, <1>4, <1>5 DEF NoAnswer, NoRequest, Live
<1>7. pc'[Rx] = pc[Rx]
  BY <1>1, <1>3 DEF TakeAck, Pubrel, Return, Leave
<1>8. Calm' /\ Down' /\ Greeted'
  <2>1. Calm' /\ Down'
    BY <1>5, <1>7, CalmStep DEF Alone, Down
  <2>2. ~ (pc[Rx] = "finish" /\ Live)
    BY <1>2 DEF Alone, Greeted, NoAnswer
  <2>3. ~ (pc[Rx] = "finish" /\ Live)'
    BY <1>5, <1>7, <2>2 DEF Live
  <2> QED  BY <2>1, <2>3 DEF Greeted
<1>9. CASE call[t].kind = "pub2"
  <2>1. Pubrel(t) /\ UNCHANGED confirmed
    BY <1>4, <1>9 DEF TakeAck
  <2>2. call'[t].kind = "rel" /\ call'[t].id = call[t].id /\ pc'[t] = "send"
    BY <1>1, <1>3, <2>1 DEF Pubrel, Calls
  <2>3. \A u \in Apps \ {t} : pc'[u] = "idle"
    BY <1>1, <1>3, <2>1 DEF Pubrel, InCall
  <2>4. sendBuf' = Request(t)'
    BY <2>1, <2>2 DEF Pubrel, Request, PacketOf
  <2>5. InCall(t)'
    BY <1>6, <2>2, <2>3, <2>4 DEF InCall, Sending, OwnPacket
  <2> QED  BY <1>1, <1>5, <1>8, <2>1, <2>5 DEF Alone
<1>10. CASE call[t].kind # "pub2"
  <2>1. Return(t, TRUE)
    BY <1>4, <1>10 DEF TakeAck, Return
  <2>2. pc' = [pc EXCEPT ![t] = "idle"]
    BY <1>1, <2>1 DEF Return, Leave
  <2>3. AtRest'
    BY <1>1, <1>3, <1>6, <2>2 DEF AtRest, InCall
  <2>4. confirmed' \subseteq accepted'
    BY <1>2, <1>5, <2>1 DEF Return, Answered, Alone
  <2> QED  BY <1>8, <2>3, <2>4 DEF Alone
<1> QED  BY <1>9, <1>10

\* A wait ends when nothing is underway, so no late answer is left behind.
LEMMA AloneTimeout ==
  ASSUME TypeOK, Alone, budget.exclusive = TRUE, NEW t \in Threads, Timeout(t)
  PROVE  Alone'
<1>1. t \in Apps /\ t # Rx /\ InCall(t)
  <2>1. pc[t] = "wait"
    BY DEF Timeout
  <2> QED  BY <2>1, OnlyCaller
<1>2. msgQueue = <<>> /\ toBroker = <<>> /\ toClient = <<>> /\ pc[Rx] # "finish"
  BY DEF Timeout, Underway, Alone, Down
<1>3. /\ Rx \in Threads /\ Apps \subseteq Threads
      /\ pc \in [Threads -> Steps] /\ call \in [Threads -> Calls]
  BY DEF Threads, TypeOK, Steps, Calls
<1>4. UNCHANGED <<msgQueue, link, session, toBroker, toClient, accepted, budget>>
  BY DEF Timeout, network
<1>5. NoAnswer' /\ NoRequest'
  BY <1>2, <1>4, QuietEnds DEF NoAnswer, NoRequest
<1>6. pc'[Rx] = pc[Rx]
  BY <1>1, <1>3 DEF Timeout, Pubrel, Return, Leave
<1>7. Calm' /\ Down' /\ Greeted'
  BY <1>2, <1>4, <1>6, CalmStep DEF Alone, Down, Greeted
<1>8. CASE Return(t, FALSE)
  <2>1. pc' = [pc EXCEPT ![t] = "idle"] /\ UNCHANGED confirmed
    BY <1>1, <1>8 DEF Return, Leave
  <2>2. AtRest'
    BY <1>1, <1>3, <1>5, <2>1 DEF AtRest, InCall
  <2> QED  BY <1>4, <1>7, <2>1, <2>2 DEF Alone
<1>9. CASE Pubrel(t) /\ UNCHANGED confirmed /\ call[t].kind = "rel"
  <2>1. call'[t].kind = "rel" /\ call'[t].id = call[t].id /\ pc'[t] = "send"
    BY <1>1, <1>3, <1>9 DEF Pubrel, Calls
  <2>2. \A u \in Apps \ {t} : pc'[u] = "idle"
    BY <1>1, <1>3, <1>9 DEF Pubrel, InCall
  <2>3. sendBuf' = Request(t)'
    BY <1>9, <2>1 DEF Pubrel, Request, PacketOf
  <2>4. InCall(t)'
    BY <1>5, <2>1, <2>2, <2>3 DEF InCall, Sending, OwnPacket
  <2> QED  BY <1>1, <1>4, <1>7, <1>9, <2>4 DEF Alone
<1>10. CASE /\ call' = [call EXCEPT ![t].cnt = Counted(@)]
            /\ pc' = [pc EXCEPT ![t] = "send"]
            /\ UNCHANGED <<sendBuf, confirmed>>
  <2>1. call'[t].kind = call[t].kind /\ call'[t].id = call[t].id /\ pc'[t] = "send"
    BY <1>1, <1>3, <1>10 DEF Calls
  <2>2. \A u \in Apps \ {t} : pc'[u] = "idle"
    BY <1>1, <1>3, <1>10 DEF InCall
  <2>3. OwnPacket(t)'
    BY <1>1, <1>10, <2>1 DEF InCall, OwnPacket, Request
  <2>4. InCall(t)'
    BY <1>1, <1>5, <2>1, <2>2, <2>3 DEF InCall, Sending
  <2> QED  BY <1>1, <1>4, <1>7, <1>10, <2>4 DEF Alone
<1> QED  BY <1>8, <1>9, <1>10 DEF Timeout

LEMMA AloneReceive ==
  ASSUME TypeOK, Alone, Receive
  PROVE  Alone'
<1>1. toClient # <<>>
  BY DEF Receive
<1>2. PICK t \in Apps : InCall(t)
  BY <1>1 DEF Alone, AtRest, NoAnswer
<1>3. Answered(t) /\ toClient = <<Ack(t)>> /\ msgQueue = <<>>
  BY <1>1, <1>2 DEF InCall, Sending, Asked, Answered, NoAnswer
<1>4. Head(toClient) = Ack(t) /\ Tail(toClient) = <<>> /\ Ack(t).type \in Acks
  BY <1>2, <1>3, RequestAnswered DEF Ack, InCall
<1>5. msgQueue' = <<Ack(t)>> /\ toClient' = <<>>
  <2>1. Len(msgQueue) < QueueSize
    BY <1>3, ExchangeAssumption
  <2> QED  BY <1>3, <1>4, <2>1 DEF Receive, Queued
<1>6. UNCHANGED <<pc, call, sendBuf, toBroker, accepted, confirmed, budget, link, session>>
  BY <1>4 DEF Receive
<1>7. Answered(t)'
  BY <1>3, <1>5, <1>6 DEF Answered, Ack, NoRequest, Live
<1>8. InCall(t)'
  BY <1>2, <1>6, <1>7 DEF InCall, OwnPacket, Request
<1>9. Calm' /\ Down' /\ Greeted'
  <2>1. pc[Rx] = "idle" /\ link = "up"
    BY DEF Receive, Reads
  <2> QED  BY <1>6, <2>1, CalmStep DEF Alone, Down, Greeted
<1> QED  BY <1>6, <1>8, <1>9 DEF Alone

\* The connection ends: a packet or an answer that was underway is lost.
LEMMA AloneDrop ==
  ASSUME TypeOK, Alone, Drop, UNCHANGED <<client, accepted, confirmed>>,
         budget'.inbound = budget.inbound, budget'.kinds = budget.kinds
  PROVE  Alone'
<1>1. UNCHANGED <<pc, call, sendBuf, msgQueue>>
  BY DEF client
<1>2. toBroker' = <<>> /\ toClient' = <<>> /\ session' = FALSE /\ ~ Live'
  BY DEF Drop, Live
<1>3. Calm' /\ Down' /\ Greeted'
  BY <1>1, <1>2, CalmStep DEF Alone, Down, Greeted
<1>4. NoRequest'
  BY <1>2 DEF NoRequest
<1>5. CASE AtRest
  BY <1>1, <1>2, <1>3, <1>4, <1>5 DEF Alone, AtRest, NoAnswer
<1>6. ASSUME NEW t \in Apps, InCall(t) PROVE InCall(t)'
  <2>1. OwnPacket(t)'
    BY <1>1, <1>6 DEF InCall, OwnPacket, Request
  <2>2. Sending(t) => Sending(t)'
    BY <1>1, <1>2, <1>4 DEF Sending, NoAnswer
  <2>3. Asked(t) => Asked(t)'
    BY <1>1, <1>2 DEF Asked, NoAnswer
  <2>4. Answered(t) => Asked(t)' \/ Answered(t)'
    BY <1>1, <1>2, <1>4 DEF Answered, Asked, NoAnswer, Ack
  <2> QED  BY <1>1, <1>6, <2>1, <2>2, <2>3, <2>4 DEF InCall
<1> QED  BY <1>3, <1>5, <1>6 DEF Alone

\* The broker reads the caller's request and answers it, once.
LEMMA AloneAnswer ==
  ASSUME TypeOK, Alone, Broker, ~ Drop, Head(toBroker).type \in Asking
  PROVE  Alone'
<1> DEFINE p == Head(toBroker)
<1>1. toBroker \in Seq(Packets) /\ toBroker # <<>>
  BY DEF Broker, TypeOK
<1>2. /\ session = TRUE /\ session' = TRUE /\ toBroker' = Tail(toBroker) /\ link' = link
      /\ toClient' = Append(toClient, [type |-> Answer[p.type], id |-> p.id])
      /\ accepted' = IF p.type = "PUBLISH1" THEN accepted \cup {p.id} ELSE accepted
      /\ UNCHANGED <<pc, call, sendBuf, msgQueue, confirmed, budget>>
  BY DEF Broker, client, Asking, Answer, TypeOK
<1>3. Live /\ ~ Quiet(toBroker)
  BY <1>1, <1>2, QuietTail DEF Live
<1>4. PICK t \in Apps : InCall(t)
  BY <1>3 DEF Alone, AtRest, NoRequest
<1>5. Asked(t) /\ Only(toBroker, Request(t))
  BY <1>3, <1>4 DEF InCall, Sending, Answered, Asked, NoRequest
<1>6. p = Request(t) /\ Quiet(Tail(toBroker))
  BY <1>1, <1>5, OnlyTail
<1>7. /\ [type |-> Answer[p.type], id |-> p.id] = Ack(t)
      /\ call[t].kind = "pub1" => p.type = "PUBLISH1" /\ p.id = call[t].id
  BY <1>4, <1>6, RequestAnswered DEF InCall, Request, Ack
<1>8. toClient' = <<Ack(t)>>
  BY <1>2, <1>5, <1>7 DEF Asked, NoAnswer
<1>9. Answered(t)'
  <2>1. NoRequest'
    BY <1>2, <1>6 DEF NoRequest
  <2>2. call[t].kind = "pub1" => call[t].id \in accepted'
    BY <1>2, <1>7
  <2> QED  BY <1>2, <1>5, <1>8, <2>1, <2>2 DEF Answered, Asked, NoAnswer, Ack
<1>10. InCall(t)'
  BY <1>2, <1>4, <1>9 DEF InCall, OwnPacket, Request
<1>11. Calm' /\ Down'
  BY <1>2, CalmStep DEF Alone, Down, Broker
<1>12. Greeted'
  <2>1. pc[Rx] # "finish"
    BY <1>3 DEF Alone, Greeted
  <2> QED  BY <1>2, <2>1 DEF Greeted
<1>13. confirmed' \subseteq accepted'
  BY <1>2 DEF Alone
<1> QED  BY <1>10, <1>11, <1>12, <1>13 DEF Alone

LEMMA AloneBroker ==
  ASSUME TypeOK, Alone, Broker
  PROVE  Alone'
<1>1. toBroker \in Seq(Packets) /\ toBroker # <<>> /\ link = "up"
  BY DEF Broker, TypeOK
<1>2. CASE Drop
  <2>1. UNCHANGED <<client, accepted, confirmed, budget>>
    BY <1>1, <1>2 DEF Broker, Drop
  <2> QED  BY <1>2, <2>1, AloneDrop
<1>3. CASE ~ Drop /\ Head(toBroker).type \in Asking
  BY <1>3, AloneAnswer
<1>4. CASE ~ Drop /\ Head(toBroker).type \notin Asking
  <2>1. /\ session' = TRUE /\ toBroker' = Tail(toBroker)
        /\ UNCHANGED <<pc, call, sendBuf, msgQueue, toClient, link, accepted, confirmed, budget>>
    BY <1>4 DEF Broker, client, Asking, Answer
  <2>2. Live
    BY <1>1, <1>4 DEF Broker, Live, TypeOK
  <2>3. Quiet(toBroker) => Quiet(toBroker')
    BY <1>1, <2>1, QuietTail
  <2>4. \A r : Only(toBroker, r) => Only(toBroker', r)
    BY <1>1, <2>1, OnlyTail
  <2>5. (AtRest \/ \E t \in Apps : InCall(t))'
    BY <2>1, <2>2, <2>3, <2>4, CallKept DEF Alone, NoRequest
  <2>6. Calm' /\ Down'
    BY <1>1, <2>1, CalmStep DEF Alone, Down
  <2>7. Greeted'
    BY <2>1, <2>2, <2>3 DEF Alone, Greeted, NoAnswer
  <2> QED  BY <2>1, <2>5, <2>6, <2>7 DEF Alone
<1> QED  BY <1>2, <1>3, <1>4

\* Rx closes the connection and makes another.
LEMMA AloneConnect ==
  ASSUME TypeOK, Alone, CloseLink \/ Reconnect
  PROVE  Alone'
<1>1. /\ UNCHANGED <<call, msgQueue, toBroker, toClient, session, accepted, confirmed, budget>>
      /\ sendBuf' = sendBuf \/ sendBuf'.type \notin Asking
      /\ pc[Rx] = "idle" /\ link # "up"
  BY DEF CloseLink, Reconnect, client, history, Connect, Asking, Answer
<1>2. pc'[Rx] \in {"idle", "finish"} /\ \A t \in Apps : pc'[t] = pc[t]
  BY ExchangeAssumption DEF CloseLink, Reconnect, client, TypeOK, Threads
<1>3. ~ Live' /\ toBroker' = <<>> /\ toClient' = <<>> /\ session' = FALSE
  BY <1>1 DEF Alone, Down, Live
<1>4. (AtRest \/ \E t \in Apps : InCall(t))'
  BY <1>1, <1>2, <1>3, CallKept DEF Alone, NoRequest
<1>5. Calm' /\ Down' /\ Greeted'
  BY <1>1, <1>2, <1>3 DEF Alone, Calm, Down, Greeted
<1> QED  BY <1>1, <1>4, <1>5 DEF Alone

\* Rx sends what send_buf holds by now, and the pinging thread its PINGREQ.
LEMMA AloneFinish ==
  ASSUME TypeOK, Alone, FinishRx
  PROVE  Alone'
<1>1. /\ UNCHANGED <<call, sendBuf, msgQueue, toClient, session, link, accepted, confirmed, budget>>
      /\ Transmit(sendBuf) /\ sendBuf \in Packets /\ pc[Rx] = "finish"
  BY DEF FinishRx, history, TypeOK
<1>2. pc'[Rx] = "idle" /\ \A t \in Apps : pc'[t] = pc[t]
  BY ExchangeAssumption DEF FinishRx, TypeOK, Threads
<1>3. Live => sendBuf.type \notin Asking
  BY <1>1 DEF Alone, Greeted
<1>4. /\ NoRequest => NoRequest'
      /\ \A r : (Live => Only(toBroker, r)) => (Live' => Only(toBroker', r))
  BY <1>1, <1>3, HarmlessSend DEF Alone
<1>5. (AtRest \/ \E t \in Apps : InCall(t))'
  BY <1>1, <1>2, <1>4, CallKept DEF Alone
<1>6. Calm' /\ Down' /\ Greeted'
  BY <1>1, <1>2 DEF Alone, Calm, Down, Greeted, Transmit
<1> QED  BY <1>1, <1>5, <1>6 DEF Alone

LEMMA AlonePinger ==
  ASSUME TypeOK, Alone, Pinger
  PROVE  Alone'
<1>1. /\ UNCHANGED <<pc, call, msgQueue, toClient, session, link, accepted, confirmed>>
      /\ sendBuf' = sendBuf \/ sendBuf'.type \notin Asking
  BY DEF Pinger, EncodePing, SendPing, network, history, Garbled, Asking, Answer
<1>2. budget'.inbound = budget.inbound /\ budget'.kinds = budget.kinds
  BY DEF Pinger, EncodePing, SendPing, TypeOK, Budget
<1>3. CASE EncodePing
  <2>1. toBroker' = toBroker /\ (Live' <=> Live)
    BY <1>1, <1>3 DEF EncodePing, network, Live
  <2>2. (AtRest \/ \E t \in Apps : InCall(t))'
    BY <1>1, <2>1, CallKept DEF Alone, NoRequest
  <2>3. Calm' /\ Down' /\ Greeted'
    BY <1>1, <1>2, <2>1, CalmStep DEF Alone, Down, Greeted, NoAnswer
  <2> QED  BY <1>1, <2>2, <2>3 DEF Alone
<1>4. CASE SendPing
  <2>1. PICK p \in Packets : Transmit(p) /\ p.type \in {"PINGREQ", "GARBLED"}
    BY <1>4, IdTypes, PacketTypes DEF SendPing, Garbled
  <2>2. p.type \notin Asking /\ p.type # "CONNECT" /\ Down
    BY <2>1 DEF Asking, Answer, Alone
  <2>3. /\ NoRequest => NoRequest'
        /\ \A r : (Live => Only(toBroker, r)) => (Live' => Only(toBroker', r))
    BY <1>1, <2>1, <2>2, HarmlessSend
  <2>4. (AtRest \/ \E t \in Apps : InCall(t))'
    BY <1>1, <2>3, CallKept DEF Alone
  <2>5. Calm' /\ Down'
    BY <1>1, <1>2, <2>1, CalmStep DEF Alone, Down, Transmit
  <2>6. Greeted'
    <3>1. Live' => Live
      BY <1>1, <2>1, <2>2, SentOn
    <3>2. UNCHANGED sendBuf
      BY <1>4 DEF SendPing
    <3> QED  BY <1>1, <2>3, <3>1, <3>2 DEF Alone, Greeted, NoAnswer, NoRequest
  <2> QED  BY <1>1, <2>4, <2>5, <2>6 DEF Alone
<1> QED  BY <1>3, <1>4 DEF Pinger

\* Rx owes the broker nothing, and the broker publishes nothing.
LEMMA AloneRest ==
  ASSUME TypeOK, Alone, EncodePuback \/ Inbound \/ Lose
  PROVE  Alone'
<1>1. Lose
  BY DEF EncodePuback, Inbound, Alone, Calm
<1>2. UNCHANGED <<client, accepted, confirmed>> /\ Drop
  BY <1>1 DEF Lose, history
<1>3. budget'.inbound = budget.inbound /\ budget'.kinds = budget.kinds
  BY <1>1 DEF Lose, TypeOK, Budget
<1> QED  BY <1>2, <1>3, AloneDrop

LEMMA SameUse ==
  ASSUME TypeOK, [Next]_vars
  PROVE  budget'.exclusive = budget.exclusive
<1>1. budget \in Budget
  BY DEF TypeOK
<1>2. \/ budget' = budget
      \/ budget' = [budget EXCEPT !.calls = @ - 1]
      \/ budget' = [budget EXCEPT !.pings = @ - 1]
      \/ budget' = [budget EXCEPT !.inbound = @ - 1]
      \/ budget' = [budget EXCEPT !.losses = @ - 1]
  BY DEF Next, CallStep, NewCall, RxStep, Pinger, Send, TakeAck, Timeout, Publish, PublishAsync,
     Subscribe, Unsubscribe, AppCall, Receive, EncodePuback, CloseLink, Reconnect, FinishRx,
     EncodePing, SendPing, Broker, Inbound, Lose, vars
<1> QED  BY <1>1, <1>2 DEF Budget

\* For any identifiers and queue, whatever kinds of calls one thread after another makes,
\* however often the connection is lost and send_buf overwritten, with answers in time:
\* umqtt_publish reports success only for what the broker has received.
THEOREM SuccessIsAccepted == Spec => []OkMeansAcceptedAlone
<1>1. Init => AloneInv
  BY AloneInit
<1>2. TypeOK /\ AloneInv /\ [Next]_vars => AloneInv'
  <2> SUFFICES ASSUME TypeOK, AloneInv, [Next]_vars, budget'.exclusive = TRUE
               PROVE  Alone'
    BY DEF AloneInv
  <2>1. budget.exclusive = TRUE
    BY SameUse
  <2>2. Alone
    BY <2>1 DEF AloneInv
  <2>3. CASE UNCHANGED vars
    BY <2>2, <2>3 DEF vars, client, network, history, Alone, Calm, Down, Greeted, Live, AtRest,
       NoAnswer, NoRequest, InCall, OwnPacket, Sending, Asked, Answered, Request, Ack
  <2>4. CASE Next
    BY <2>1, <2>2, <2>4, AloneNewCall, AloneSend, AloneTakeAck, AloneTimeout, AloneReceive,
       AloneBroker, AloneConnect, AloneFinish, AlonePinger, AloneRest DEF Next, CallStep, RxStep
  <2> QED  BY <2>3, <2>4
<1>3. TypeOK /\ AloneInv => OkMeansAcceptedAlone
  BY DEF AloneInv, Alone, OkMeansAcceptedAlone, OkMeansAccepted, TypeOK, Budget
<1> QED  BY <1>1, <1>2, <1>3, TypeCorrect, PTL DEF Spec

-----------------------------------------------------------------------------
(* AnswerNeverAcked *)

\* Identifiers of packets of some types up to a number, and an identifier that no packet has.
UpTo(s, types, n) == \A i \in DOMAIN s : s[i].type \in types => s[i].id <= n
Absent(s, id) == \A i \in DOMAIN s : s[i].id # id

LEMMA UpToAppend ==
  ASSUME NEW S, NEW s \in Seq(S), NEW e \in S, NEW types, NEW n,
         UpTo(s, types, n), e.type \in types => e.id <= n
  PROVE  UpTo(Append(s, e), types, n)
<1>1. /\ DOMAIN Append(s, e) = 1 .. Len(s) + 1 /\ DOMAIN s = 1 .. Len(s)
      /\ Append(s, e)[Len(s) + 1] = e /\ \A i \in 1 .. Len(s) : Append(s, e)[i] = s[i]
  OBVIOUS
<1>2. \A i \in 1 .. Len(s) + 1 : i \in 1 .. Len(s) \/ i = Len(s) + 1
  OBVIOUS
<1> QED  BY <1>1, <1>2 DEF UpTo

LEMMA UpToTail ==
  ASSUME NEW S, NEW s \in Seq(S), s # <<>>, NEW types, NEW n, UpTo(s, types, n)
  PROVE  UpTo(Tail(s), types, n) /\ (Head(s).type \in types => Head(s).id <= n)
<1>1. /\ DOMAIN Tail(s) = 1 .. Len(s) - 1 /\ DOMAIN s = 1 .. Len(s) /\ Len(s) \in Nat \ {0}
      /\ Head(s) = s[1] /\ \A i \in 1 .. Len(s) - 1 : Tail(s)[i] = s[i + 1]
  BY EmptySeq, HeadTailProperties
<1>2. \A i \in 1 .. Len(s) - 1 : i + 1 \in 1 .. Len(s)
  BY <1>1
<1> QED  BY <1>1, <1>2 DEF UpTo

LEMMA UpToMore ==
  ASSUME NEW s, NEW types, NEW n \in Nat, UpTo(s, types, n),
         \A i \in DOMAIN s : s[i].id \in Nat
  PROVE  UpTo(s, types, n + 1)
BY DEF UpTo

LEMMA AbsentTail ==
  ASSUME NEW S, NEW s \in Seq(S), s # <<>>, NEW id, Absent(s, id)
  PROVE  Absent(Tail(s), id)
<1>1. /\ DOMAIN Tail(s) = 1 .. Len(s) - 1 /\ DOMAIN s = 1 .. Len(s) /\ Len(s) \in Nat \ {0}
      /\ \A i \in 1 .. Len(s) - 1 : Tail(s)[i] = s[i + 1]
  BY EmptySeq, HeadTailProperties
<1>2. \A i \in 1 .. Len(s) - 1 : i + 1 \in 1 .. Len(s)
  BY <1>1
<1> QED  BY <1>1, <1>2 DEF Absent

\* Identifiers that are left for the calls and the messages to come.
Room == packetId + budget.calls + budget.inbound + Count(toClient, "PUBLISH") <= MaxPacketId

\* What is underway has an identifier that has been given out, ...
SentOK == sendBuf.type \in Asking => sendBuf.id <= packetId
CallsOK == \A t \in Threads : call[t].id <= packetId
UnderwayOK == /\ UpTo(toBroker, Asking, packetId) /\ UpTo(toClient, Acks, packetId)
              /\ UpTo(msgQueue, Acks, packetId)
\* ... and what Rx waits for is not in the queue.
RxUnanswered == pc[Rx] \in {"send", "wait"} => Absent(msgQueue, call[Rx].id)

Numbered == Room /\ SentOK /\ CallsOK /\ UnderwayOK /\ RxUnanswered

\* Without messages from the broker Rx makes no call.
Unasked == budget.inbound = 0 /\ Count(toClient, "PUBLISH") = 0 /\ pc[Rx] \notin {"send", "wait"}

AnswerInv == Unasked \/ Numbered

\* In no run do the identifiers start again at 1 after the broker has sent a message.
NoSecondRound == \A b \in Budgets : b.inbound = 0 \/ b.calls + b.inbound <= MaxPacketId

LEMMA AnswerInit == ASSUME NoSecondRound, Init PROVE AnswerInv
<1>1. Count(toClient, "PUBLISH") = 0
  BY CountEmpty DEF Init
<1>2. Rx \in Threads /\ pc[Rx] = "idle"
  BY DEF Init, Threads
<1>3. budget.inbound = 0 => Unasked
  BY <1>1, <1>2 DEF Unasked
<1>4. ASSUME budget.inbound # 0
      PROVE  Numbered
  <2>1. budget \in Budget /\ MaxPacketId \in Nat
    BY ExchangeAssumption DEF Init
  <2>2. Room
    BY <1>1, <1>4, <2>1 DEF NoSecondRound, Init, Room, Budget
  <2>3. SentOK /\ CallsOK
    BY DEF Init, SentOK, CallsOK, Connect, Answer, Asking, NoCall
  <2>4. UnderwayOK
    BY DEF Init, UnderwayOK, UpTo
  <2>5. RxUnanswered
    BY <1>2 DEF RxUnanswered
  <2> QED  BY <2>2, <2>3, <2>4, <2>5 DEF Numbered
<1> QED  BY <1>3, <1>4 DEF AnswerInv

LEMMA ElementsOf ==
  ASSUME NEW S, NEW s \in Seq(S)
  PROVE  \A i \in DOMAIN s : s[i] \in S
OBVIOUS

\* The numbers in a state.
LEMMA IdNumbers ==
  ASSUME TypeOK
  PROVE  /\ packetId \in Nat /\ MaxPacketId \in Nat /\ budget.calls \in Nat /\ budget.inbound \in Nat
         /\ Count(toClient, "PUBLISH") \in Nat
         /\ sendBuf.id \in Nat
         /\ \A t \in Threads : call[t].id \in Nat
         /\ \A i \in DOMAIN toBroker : toBroker[i].id \in Nat
         /\ \A i \in DOMAIN toClient : toClient[i].id \in Nat
         /\ \A i \in DOMAIN msgQueue : msgQueue[i].id \in Nat /\ msgQueue[i].type \in Acks
<1>1. Ids \subseteq Nat /\ MaxPacketId \in Nat
  BY IdTypes, ExchangeAssumption
<1>2. toClient \in Seq(FromBroker)
  BY DEF TypeOK, FromBroker
<1>3. Count(toClient, "PUBLISH") \in Nat
  BY <1>2, CountIsNat
<1>4. \A i \in DOMAIN toClient : toClient[i].id \in Nat
  <2>1. \A i \in DOMAIN toClient : toClient[i] \in FromBroker
    BY <1>2, ElementsOf
  <2>2. \A q \in AckPackets : q.id \in Nat
    BY <1>1 DEF AckPackets
  <2>3. \A q \in [type : {"PUBLISH"}, id : {0, 1}] : q.id \in Nat
    OBVIOUS
  <2> QED  BY <2>1, <2>2, <2>3 DEF FromBroker
<1>5. \A i \in DOMAIN toBroker : toBroker[i].id \in Nat
  <2>1. \A i \in DOMAIN toBroker : toBroker[i] \in Packets
    BY ElementsOf DEF TypeOK
  <2> QED  BY <1>1, <2>1 DEF Packets
<1>6. \A i \in DOMAIN msgQueue : msgQueue[i].id \in Nat /\ msgQueue[i].type \in Acks
  <2>1. \A i \in DOMAIN msgQueue : msgQueue[i] \in AckPackets
    BY ElementsOf DEF TypeOK
  <2> QED  BY <1>1, <2>1 DEF AckPackets
<1>7. \A t \in Threads : call[t].id \in Nat
  BY <1>1 DEF TypeOK
<1>8. packetId \in Nat /\ sendBuf.id \in Nat
  BY <1>1 DEF TypeOK, Packets
<1>9. budget.calls \in Nat /\ budget.inbound \in Nat
  BY DEF TypeOK, Budget
<1> QED  BY <1>1, <1>3, <1>4, <1>5, <1>6, <1>7, <1>8, <1>9

\* A call gets an identifier that nothing underway has.
LEMMA NewIdentifier ==
  ASSUME TypeOK, Numbered, packetId < MaxPacketId, NEW t \in Threads, NEW kind \in CallKinds,
         Start(t, kind), UNCHANGED <<toBroker, msgQueue>>
  PROVE  /\ packetId' = packetId + 1
         /\ SentOK' /\ CallsOK'
         /\ UpTo(toBroker, Asking, packetId)' /\ UpTo(msgQueue, Acks, packetId)'
         /\ UpTo(toClient, Acks, packetId')
         /\ t = Rx => RxUnanswered'
<1>1. packetId' = packetId + 1
  BY IdNumbers DEF Start, NextId
<1>2. /\ sendBuf'.id = packetId + 1 /\ call'[t].id = packetId + 1
      /\ \A u \in Threads \ {t} : call'[u] = call[u]
  BY <1>1 DEF Start, TypeOK
<1>3. SentOK' /\ CallsOK'
  BY <1>1, <1>2, IdNumbers DEF SentOK, CallsOK, Numbered
<1>4. /\ UpTo(toBroker, Asking, packetId + 1) /\ UpTo(toClient, Acks, packetId + 1)
      /\ UpTo(msgQueue, Acks, packetId + 1)
  BY IdNumbers, UpToMore DEF Numbered, UnderwayOK
<1>5. t = Rx => RxUnanswered'
  <2>1. Absent(msgQueue, packetId + 1)
    BY IdNumbers DEF Absent, Numbered, UnderwayOK, UpTo
  <2> QED  BY <1>2, <2>1 DEF RxUnanswered
<1> QED  BY <1>1, <1>3, <1>4, <1>5

LEMMA AnswerNewCall ==
  ASSUME TypeOK, AnswerInv, NEW t \in Apps, NewCall(t)
  PROVE  AnswerInv'
<1>1. PICK kind \in CallKinds : AppCall(t, kind)
  BY DEF NewCall, Publish, PublishAsync, Subscribe, Unsubscribe, CallKinds
<1>2. /\ Start(t, kind) /\ budget.calls > 0
      /\ budget' = [budget EXCEPT !.calls = @ - 1]
      /\ UNCHANGED <<msgQueue, toBroker, toClient>>
  BY <1>1 DEF AppCall, network
<1>3. budget'.calls = budget.calls - 1 /\ budget'.inbound = budget.inbound
  BY <1>2 DEF TypeOK, Budget
<1>4. t \in Threads /\ t # Rx /\ Rx \in Threads
  BY ExchangeAssumption DEF Threads
<1>5. pc'[Rx] = pc[Rx] /\ call'[Rx] = call[Rx]
  BY <1>2, <1>4 DEF Start, TypeOK
<1>6. CASE Unasked
  BY <1>2, <1>3, <1>5, <1>6 DEF Unasked, AnswerInv
<1>7. CASE Numbered
  <2>1. packetId < MaxPacketId
    BY <1>2, <1>7, IdNumbers DEF Numbered, Room
  <2>2. packetId' = packetId + 1 /\ SentOK' /\ CallsOK' /\ UnderwayOK'
    BY <1>2, <1>4, <1>7, <2>1, NewIdentifier DEF UnderwayOK
  <2>3. Room'
    BY <1>2, <1>3, <1>7, <2>2, IdNumbers DEF Numbered, Room
  <2>4. RxUnanswered'
    BY <1>2, <1>5, <1>7 DEF Numbered, RxUnanswered
  <2> QED  BY <2>2, <2>3, <2>4 DEF Numbered, AnswerInv
<1> QED  BY <1>6, <1>7 DEF AnswerInv

\* A message becomes a call of Rx; an acknowledgement is queued only when Rx is in none.
LEMMA AnswerReceive ==
  ASSUME TypeOK, AnswerInv, Receive
  PROVE  AnswerInv'
<1> DEFINE p == Head(toClient)
<1>1. /\ toClient \in Seq(FromBroker) /\ toClient # <<>> /\ toClient' = Tail(toClient)
      /\ p \in FromBroker /\ pc[Rx] = "idle" /\ UNCHANGED <<toBroker, budget>>
  BY HeadTailProperties DEF Receive, Reads, TypeOK, FromBroker
<1>2. Count(toClient', "PUBLISH") \in Nat
  BY <1>1, HeadTailProperties, CountIsNat
<1>3. Count(toClient, "PUBLISH") = IF p.type = "PUBLISH" THEN Count(toClient', "PUBLISH") + 1
                                                         ELSE Count(toClient', "PUBLISH")
  BY <1>1, CountTail
<1>4. p.type = "PUBLISH" <=> p.type \notin Acks
  BY <1>1 DEF FromBroker, AckPackets, Acks, AckOf
<1>5. Rx \in Threads
  BY DEF Threads
<1>6. CASE p.type \in Acks
  <2>1. msgQueue' = Queued(p) /\ UNCHANGED <<packetId, sendBuf, call, pc>>
    BY <1>6 DEF Receive
  <2>2. CASE Unasked
    BY <1>1, <1>3, <1>4, <1>6, <2>1, <2>2 DEF Unasked, AnswerInv
  <2>3. CASE Numbered
    <3>1. UpTo(toClient', Acks, packetId) /\ p.id <= packetId
      BY <1>1, <1>6, <2>3, UpToTail DEF Numbered, UnderwayOK
    <3>2. p \in AckPackets
      BY <1>1, <1>6 DEF FromBroker, Acks, AckOf
    <3>3. UpTo(msgQueue', Acks, packetId)
      <4>1. UpTo(Append(msgQueue, p), Acks, packetId)
        BY <2>3, <3>1, <3>2, UpToAppend DEF TypeOK, Numbered, UnderwayOK
      <4> QED  BY <2>1, <2>3, <4>1 DEF Queued, Numbered, UnderwayOK
    <3>4. Room' /\ SentOK' /\ CallsOK'
      BY <1>1, <1>3, <1>4, <1>6, <2>1, <2>3 DEF Numbered, Room, SentOK, CallsOK
    <3>5. UnderwayOK' /\ RxUnanswered'
      BY <1>1, <2>1, <2>3, <3>1, <3>3 DEF Numbered, UnderwayOK, RxUnanswered
    <3> QED  BY <3>4, <3>5 DEF Numbered, AnswerInv
  <2> QED  BY <2>2, <2>3 DEF AnswerInv
<1>7. CASE p.type \notin Acks
  <2>1. Start(Rx, "pub1") /\ UNCHANGED msgQueue
    BY <1>7 DEF Receive
  <2>2. Numbered
    BY <1>2, <1>3, <1>4, <1>7 DEF AnswerInv, Unasked
  <2>3. packetId < MaxPacketId
    BY <1>2, <1>3, <1>4, <1>7, <2>2, IdNumbers DEF Numbered, Room
  <2>4. /\ packetId' = packetId + 1 /\ SentOK' /\ CallsOK' /\ RxUnanswered'
        /\ UpTo(toBroker, Asking, packetId)' /\ UpTo(msgQueue, Acks, packetId)'
        /\ UpTo(toClient, Acks, packetId')
    BY <1>1, <1>5, <2>1, <2>2, <2>3, NewIdentifier DEF CallKinds
  <2>5. UpTo(toClient', Acks, packetId')
    BY <1>1, <2>4, UpToTail
  <2>6. Room'
    <3>1. Count(toClient, "PUBLISH") = Count(toClient', "PUBLISH") + 1
      BY <1>3, <1>4, <1>7
    <3>2. packetId + budget.calls + budget.inbound + Count(toClient, "PUBLISH") <= MaxPacketId
      BY <2>2 DEF Numbered, Room
    <3>3. budget'.calls = budget.calls /\ budget'.inbound = budget.inbound
      BY <1>1
    <3> HIDE DEF p
    <3> QED  BY <1>2, <2>4, <3>1, <3>2, <3>3, IdNumbers DEF Room
  <2> QED  BY <2>4, <2>5, <2>6 DEF Numbered, UnderwayOK, AnswerInv
<1> QED  BY <1>6, <1>7

\* The end of a call, and PUBREL.
LEMMA AnswerCallStep ==
  ASSUME TypeOK, AnswerInv, NEW t \in Threads, CallStep(t)
  PROVE  AnswerInv'
<1>1. UNCHANGED <<packetId, toClient, budget>>
  BY DEF CallStep, Send, TakeAck, Timeout, network
<1>2. Rx \in Threads
  BY DEF Threads
<1>3. pc[t] \in {"send", "wait"}
  BY DEF CallStep, Send, TakeAck, Timeout
<1>4. pc'[Rx] \in {"send", "wait"} => pc[Rx] \in {"send", "wait"}
  BY <1>2, <1>3 DEF CallStep, Send, TakeAck, Timeout, Return, Leave, Pubrel, TypeOK
<1>5. CASE Unasked
  BY <1>1, <1>4, <1>5 DEF Unasked, AnswerInv
<1>6. CASE Numbered
  <2>1. \A u \in Threads : call'[u].id \in {call[u].id, 0}
    <3>1. call \in [Threads -> Calls]
      BY DEF TypeOK, Calls
    <3>2. \/ call' = call
          \/ call' = [call EXCEPT ![t] = NoCall]
          \/ call' = [call EXCEPT ![t].kind = "rel", ![t].cnt = 0]
          \/ call' = [call EXCEPT ![t].cnt = Counted(@)]
      BY DEF CallStep, Send, TakeAck, Timeout, Return, Leave, Pubrel
    <3> QED  BY <3>1, <3>2 DEF Calls, NoCall
  <2>2. pc'[Rx] \in {"send", "wait"} => call'[Rx].id = call[Rx].id
    <3>1. call \in [Threads -> Calls] /\ pc \in [Threads -> Steps]
      BY DEF TypeOK, Calls, Steps
    <3>2. \/ call' = call
          \/ Leave(t)
          \/ call' = [call EXCEPT ![t].kind = "rel", ![t].cnt = 0]
          \/ call' = [call EXCEPT ![t].cnt = Counted(@)]
      BY DEF CallStep, Send, TakeAck, Timeout, Return, Pubrel
    <3>3. Leave(t) => \/ t = Rx /\ pc'[Rx] \notin {"send", "wait"}
                      \/ t # Rx /\ call'[Rx] = call[Rx]
      BY <1>2, <3>1 DEF Leave
    <3> QED  BY <1>2, <3>1, <3>2, <3>3 DEF Calls
  <2>3. CallsOK'
    BY <1>1, <1>6, <2>1, IdNumbers DEF CallsOK, Numbered
  <2>4. SentOK'
    <3>1. sendBuf' = sendBuf \/ sendBuf' = [type |-> "PUBREL", id |-> call[t].id]
      BY DEF CallStep, Send, TakeAck, Timeout, Pubrel
    <3> QED  BY <1>1, <1>6, <3>1 DEF SentOK, CallsOK, Numbered
  <2>5. UpTo(toBroker', Asking, packetId)
    <3>1. toBroker' = toBroker \/ toBroker' = Append(toBroker, sendBuf)
      BY DEF CallStep, Send, TakeAck, Timeout, Transmit, network
    <3>2. toBroker \in Seq(Packets) /\ sendBuf \in Packets
      BY DEF TypeOK
    <3>3. UpTo(toBroker, Asking, packetId) /\ (sendBuf.type \in Asking => sendBuf.id <= packetId)
      BY <1>6 DEF Numbered, UnderwayOK, SentOK
    <3>4. UpTo(Append(toBroker, sendBuf), Asking, packetId)
      BY <3>2, <3>3, UpToAppend
    <3> QED  BY <3>1, <3>3, <3>4
  <2>6. UpTo(msgQueue', Acks, packetId) /\ \A id : Absent(msgQueue, id) => Absent(msgQueue', id)
    <3>1. msgQueue' = msgQueue \/ (msgQueue # <<>> /\ msgQueue' = Tail(msgQueue))
      BY DEF CallStep, Send, TakeAck, Timeout, Taken
    <3>2. msgQueue \in Seq(AckPackets) /\ UpTo(msgQueue, Acks, packetId)
      BY <1>6 DEF TypeOK, Numbered, UnderwayOK
    <3> QED  BY <3>1, <3>2, UpToTail, AbsentTail
  <2>7. RxUnanswered'
    BY <1>4, <1>6, <2>2, <2>6 DEF RxUnanswered, Numbered
  <2>8. Room'
    BY <1>1, <1>6 DEF Room, Numbered
  <2> QED  BY <1>1, <1>6, <2>3, <2>4, <2>5, <2>6, <2>7, <2>8 DEF Numbered, UnderwayOK, AnswerInv
<1> QED  BY <1>5, <1>6 DEF AnswerInv

\* The broker answers with the identifier it was asked with.
LEMMA AnswerBroker ==
  ASSUME TypeOK, AnswerInv, Broker
  PROVE  AnswerInv'
<1> DEFINE p == Head(toBroker)
<1>1. /\ toBroker \in Seq(Packets) /\ toBroker # <<>> /\ p \in Packets
      /\ toClient \in Seq(FromBroker)
      /\ UNCHANGED <<packetId, sendBuf, msgQueue, call, pc, budget>>
  BY HeadTailProperties DEF Broker, TypeOK, FromBroker, client
<1>2. CASE Drop
  <2>1. toBroker' = <<>> /\ toClient' = <<>> /\ Count(toClient', "PUBLISH") = 0
    BY <1>2, CountEmpty DEF Drop
  <2>2. UpTo(<<>>, Asking, packetId) /\ UpTo(<<>>, Acks, packetId)
    BY DEF UpTo
  <2>3. CASE Unasked
    BY <1>1, <2>1, <2>3 DEF Unasked, AnswerInv
  <2>4. CASE Numbered
    <3>1. Room'
      BY <1>1, <2>1, <2>4, IdNumbers DEF Numbered, Room
    <3> QED  BY <1>1, <2>1, <2>2, <2>4, <3>1
             DEF Numbered, SentOK, CallsOK, UnderwayOK, RxUnanswered, AnswerInv
  <2> QED  BY <2>3, <2>4 DEF AnswerInv
<1>3. CASE ~ Drop
  <2> DEFINE a == [type |-> Answer[p.type], id |-> p.id]
  <2>1. /\ toBroker' = Tail(toBroker)
        /\ \/ toClient' = toClient
           \/ p.type \in Asking /\ toClient' = Append(toClient, a)
    BY <1>3 DEF Broker, Asking
  <2>2. p.type \in Asking => a \in FromBroker /\ a.type # "PUBLISH"
    BY <1>1, AnswerTypes DEF FromBroker, AckPackets, Acks, AckOf, Asking
  <2>3. Count(toClient', "PUBLISH") = Count(toClient, "PUBLISH")
    <3> HIDE DEF a
    <3>1. p.type \in Asking => Count(Append(toClient, a), "PUBLISH") = Count(toClient, "PUBLISH")
      BY <1>1, <2>2, CountAppend
    <3> QED  BY <2>1, <3>1
  <2>4. CASE Unasked
    BY <1>1, <2>3, <2>4 DEF Unasked, AnswerInv
  <2>5. CASE Numbered
    <3>1. UpTo(toBroker', Asking, packetId) /\ (p.type \in Asking => p.id <= packetId)
      BY <1>1, <2>1, <2>5, UpToTail DEF Numbered, UnderwayOK
    <3>2. p.type \in Asking => UpTo(Append(toClient, a), Acks, packetId)
      BY <1>1, <2>2, <2>5, <3>1, UpToAppend DEF Numbered, UnderwayOK
    <3>3. UnderwayOK'
      BY <1>1, <2>1, <2>5, <3>1, <3>2 DEF Numbered, UnderwayOK
    <3>4. Room'
      BY <1>1, <2>3, <2>5 DEF Numbered, Room
    <3> QED  BY <1>1, <2>5, <3>3, <3>4 DEF Numbered, SentOK, CallsOK, RxUnanswered, AnswerInv
  <2> QED  BY <2>4, <2>5 DEF AnswerInv
<1> QED  BY <1>2, <1>3

\* A message of the broker, and a connection that is lost.
LEMMA AnswerNetwork ==
  ASSUME TypeOK, AnswerInv, Inbound \/ Lose
  PROVE  AnswerInv'
<1>1. UNCHANGED <<packetId, sendBuf, msgQueue, call, pc>> /\ toClient \in Seq(FromBroker)
  BY DEF Inbound, Lose, client, TypeOK, FromBroker
<1>2. CASE Inbound
  <2>1. PICK id \in {0, 1} : toClient' = Append(toClient, [type |-> "PUBLISH", id |-> id])
    BY <1>2 DEF Inbound
  <2>2. [type |-> "PUBLISH", id |-> id] \in FromBroker /\ "PUBLISH" \notin Acks
    BY DEF FromBroker, Acks, AckOf
  <2>3. Count(toClient', "PUBLISH") = Count(toClient, "PUBLISH") + 1
    BY <1>1, <2>1, <2>2, CountAppend
  <2>4. /\ budget.inbound > 0 /\ toBroker' = toBroker
        /\ budget'.calls = budget.calls /\ budget'.inbound = budget.inbound - 1
    BY <1>2 DEF Inbound, TypeOK, Budget
  <2>5. Numbered
    BY <2>4, IdNumbers DEF AnswerInv, Unasked
  <2>6. Room'
    BY <1>1, <2>3, <2>4, <2>5, IdNumbers DEF Numbered, Room
  <2>7. UnderwayOK'
    BY <1>1, <2>1, <2>2, <2>4, <2>5, UpToAppend DEF Numbered, UnderwayOK
  <2> QED  BY <1>1, <2>5, <2>6, <2>7 DEF Numbered, SentOK, CallsOK, RxUnanswered, AnswerInv
<1>3. CASE Lose
  <2>1. /\ toBroker' = <<>> /\ toClient' = <<>> /\ Count(toClient', "PUBLISH") = 0
        /\ budget'.calls = budget.calls /\ budget'.inbound = budget.inbound
    BY <1>3, CountEmpty DEF Lose, Drop, TypeOK, Budget
  <2>2. UpTo(<<>>, Asking, packetId) /\ UpTo(<<>>, Acks, packetId)
    BY DEF UpTo
  <2>3. CASE Unasked
    BY <1>1, <2>1, <2>3 DEF Unasked, AnswerInv
  <2>4. CASE Numbered
    <3>1. Room'
      BY <1>1, <2>1, <2>4, IdNumbers DEF Numbered, Room
    <3> QED  BY <1>1, <2>1, <2>2, <2>4, <3>1
             DEF Numbered, SentOK, CallsOK, UnderwayOK, RxUnanswered, AnswerInv
  <2> QED  BY <2>3, <2>4 DEF AnswerInv
<1> QED  BY <1>2, <1>3

\* PUBACK, CONNECT and PINGREQ are not answered.
LEMMA AnswerRest ==
  ASSUME TypeOK, AnswerInv, EncodePuback \/ CloseLink \/ Reconnect \/ FinishRx \/ Pinger
  PROVE  AnswerInv'
<1>1. UNCHANGED <<packetId, msgQueue, call, toClient>> /\ budget'.calls = budget.calls
      /\ budget'.inbound = budget.inbound
  BY DEF EncodePuback, CloseLink, Reconnect, FinishRx, Pinger, EncodePing, SendPing,
     client, network, TypeOK, Budget
<1>2. Rx \in Threads
  BY DEF Threads
<1>3. pc'[Rx] \in {"send", "wait"} => pc[Rx] \in {"send", "wait"}
  BY <1>2 DEF EncodePuback, CloseLink, Reconnect, FinishRx, Pinger, EncodePing, SendPing,
     client, TypeOK
<1>4. CASE Unasked
  BY <1>1, <1>3, <1>4 DEF Unasked, AnswerInv
<1>5. CASE Numbered
  <2>1. SentOK'
    BY <1>1, <1>5 DEF EncodePuback, CloseLink, Reconnect, FinishRx, Pinger, EncodePing, SendPing,
       client, Numbered, SentOK, Asking, Answer, Connect, Garbled
  <2>2. UpTo(toBroker', Asking, packetId)
    <3>1. \/ toBroker' = toBroker \/ toBroker' = Append(toBroker, sendBuf)
          \/ \E e \in Packets : e.type \notin Asking /\ toBroker' = Append(toBroker, e)
      BY PacketTypes, IdTypes DEF EncodePuback, CloseLink, Reconnect, FinishRx, Pinger, EncodePing,
         SendPing, client, network, Transmit, Asking, Answer, Garbled
    <3>2. toBroker \in Seq(Packets) /\ sendBuf \in Packets
      BY DEF TypeOK
    <3>3. UpTo(toBroker, Asking, packetId) /\ (sendBuf.type \in Asking => sendBuf.id <= packetId)
      BY <1>5 DEF Numbered, UnderwayOK, SentOK
    <3>4. UpTo(Append(toBroker, sendBuf), Asking, packetId)
      BY <3>2, <3>3, UpToAppend
    <3>5. ASSUME NEW e \in Packets, e.type \notin Asking
          PROVE  UpTo(Append(toBroker, e), Asking, packetId)
      BY <3>2, <3>3, <3>5, UpToAppend
    <3> QED  BY <3>1, <3>3, <3>4, <3>5
  <2>3. Room' /\ CallsOK' /\ RxUnanswered'
    BY <1>1, <1>3, <1>5 DEF Numbered, Room, CallsOK, RxUnanswered
  <2> QED  BY <1>1, <1>5, <2>1, <2>2, <2>3 DEF Numbered, UnderwayOK, AnswerInv
<1> QED  BY <1>4, <1>5 DEF AnswerInv

\* For any threads, queue and budget in which the identifiers do not start again: while the
\* receive thread waits in its own callback, the acknowledgement of what it has published
\* is never in the queue it waits on.
THEOREM AnswerIsNeverAcked ==
  ASSUME NoSecondRound
  PROVE  Spec => []AnswerNeverAcked
<1>1. Init => AnswerInv
  BY AnswerInit
<1>2. TypeOK /\ AnswerInv /\ [Next]_vars => AnswerInv'
  <2> SUFFICES ASSUME TypeOK, AnswerInv, [Next]_vars
               PROVE  AnswerInv'
    OBVIOUS
  <2>1. CASE UNCHANGED vars
    BY <2>1 DEF vars, client, network, AnswerInv, Unasked, Numbered, Room, SentOK, CallsOK,
       UnderwayOK, RxUnanswered
  <2>2. CASE Next
    BY <2>2, AnswerNewCall, AnswerReceive, AnswerCallStep, AnswerBroker, AnswerNetwork,
       AnswerRest DEF Next, RxStep
  <2> QED  BY <2>1, <2>2
<1>3. TypeOK /\ AnswerInv => AnswerNeverAcked
  BY DEF AnswerInv, Unasked, Numbered, RxUnanswered, Absent, AnswerNeverAcked
<1> QED  BY <1>1, <1>2, <1>3, TypeCorrect, PTL DEF Spec
=============================================================================
