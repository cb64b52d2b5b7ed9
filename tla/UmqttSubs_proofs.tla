-------------------------- MODULE UmqttSubs_proofs --------------------------
(***************************************************************************)
(* Theorems about the list of subscriptions, for any limit, any size of the *)
(* queue and any plans.                                                     *)
(***************************************************************************)
EXTENDS UmqttSubs, SequenceTheorems, FiniteSetTheorems, WellFoundedInduction, TLAPS

-----------------------------------------------------------------------------
(* Sets of positions, and sequences *)

\* The induction is over the sets of elements not below one of them.
LEMMA MaxExists ==
  ASSUME NEW n \in Nat, NEW S \in SUBSET (1 .. n), S # {}
  PROVE  MaxOf(S) \in S /\ \A j \in S : j <= MaxOf(S)
<1> DEFINE Up(j) == {k \in S : j <= k}
           T == {Up(j) : j \in S}
<1>1. IsFiniteSet(S)
  <2>1. 1 \in Int /\ n \in Int
    OBVIOUS
  <2>2. IsFiniteSet(1 .. n)
    BY <2>1, FS_Interval
  <2> QED  BY <2>2, FS_Subset
<1>2. T \subseteq FiniteSubsetsOf(S) /\ T # {}
  <2>1. \A j \in S : Up(j) \in SUBSET S
    OBVIOUS
  <2> HIDE DEF Up
  <2>2. \A j \in S : IsFiniteSet(Up(j))
    BY <1>1, <2>1, FS_Subset
  <2> QED  BY <2>1, <2>2 DEF FiniteSubsetsOf
<1>3. PICK X \in T : \A Y \in T : ~ (<<Y, X>> \in StrictSubsetOrdering(S))
  <2> HIDE DEF T
  <2>1. IsWellFoundedOn(StrictSubsetOrdering(S), FiniteSubsetsOf(S))
    BY FS_StrictSubsetOrderingWellFounded
  <2> QED BY <2>1, <1>2, WFMin
<1>4. PICK k \in S : X = Up(k)
  OBVIOUS
<1>5. \A j \in S : j <= k
  <2> SUFFICES ASSUME NEW j \in S, j > k PROVE FALSE
    OBVIOUS
  <2>1. Up(j) \subseteq Up(k) /\ k \in Up(k) /\ k \notin Up(j)
    <3>1. k \in Nat /\ j \in Nat /\ \A i \in S : i \in Nat
      OBVIOUS
    <3>2. \A i \in S : j <= i => k <= i
      BY <3>1
    <3>3. k <= k /\ ~ (j <= k)
      BY <3>1
    <3> QED  BY <3>2, <3>3, Zenon
  <2>2. <<Up(j), Up(k)>> \in StrictSubsetOrdering(S)
    <3>1. Up(j) \in SUBSET S /\ Up(k) \in SUBSET S
      OBVIOUS
    <3> HIDE DEF Up
    <3> QED  BY <2>1, <3>1, Zenon DEF StrictSubsetOrdering
  <2> QED  BY <2>2, <1>3, <1>4
<1> QED  BY <1>5 DEF MaxOf

LEMMA Removed ==
  ASSUME NEW S, NEW s \in Seq(S), NEW i \in 1 .. Len(s)
  PROVE  RemoveAt(s, i) \in Seq(S) /\ Len(RemoveAt(s, i)) = Len(s) - 1
<1> DEFINE l == SubSeq(s, 1, i - 1)
           r == SubSeq(s, i + 1, Len(s))
<1>1. l \in Seq(S) /\ Len(l) = i - 1
  OBVIOUS
<1>2. r \in Seq(S) /\ Len(r) = Len(s) - i
  OBVIOUS
<1>3. Len(s) \in Nat
  OBVIOUS
<1> HIDE DEF l, r
<1>4. l \o r \in Seq(S) /\ Len(l \o r) = Len(l) + Len(r)
  BY <1>1, <1>2, ConcatProperties
<1>5. RemoveAt(s, i) = l \o r
  BY DEF RemoveAt, l, r
<1>6. (i - 1) + (Len(s) - i) = Len(s) - 1
  BY <1>3
<1> QED  BY <1>1, <1>2, <1>4, <1>5, <1>6

LEMMA Consed ==
  ASSUME NEW S, NEW s \in Seq(S), NEW e \in S
  PROVE  <<e>> \o s \in Seq(S) /\ Len(<<e>> \o s) = Len(s) + 1
<1>1. <<e>> \in Seq(S) /\ Len(<<e>>) = 1
  OBVIOUS
<1> QED  BY <1>1, ConcatProperties, LenProperties

-----------------------------------------------------------------------------
(* The inductive invariant *)

Topics == plan.topics \cup plan.filters \cup {<<>>}
Acks == {"SUBACK", "UNSUBACK", "PUBACK"}
Requests == [type : {"SUBSCRIBE", "UNSUBSCRIBE"}, topic : plan.filters]
            \cup [type : {"PUBLISH"}, topic : {<<>>}]
Answers == [type : Acks \cup {"PUBLISH"}, topic : Topics]
Calls == [kind : {"none", "SUBACK", "UNSUBACK"}, topic : Topics, entry : Nat]

ListOK == /\ plan \in Plan
          /\ subs \in Seq(plan.filters)
          /\ promised \subseteq plan.filters /\ known \subseteq plan.filters

\* Only the shell unsubscribes, and it waits for one answer at a time: nobody else
\* removes the entry it has chosen.
CallsOK ==
  /\ pc \in [Callers -> {"idle", "wait", "done"}]
  /\ call \in [Callers -> Calls]
  /\ \A t \in Callers :
       /\ call[t].kind = "SUBACK" => call[t].topic \in plan.filters
       /\ call[t].kind = "UNSUBACK" => t = Shell /\ call[t].entry \in Entries

RxOK == rx \in [at : {"read", "answer", "await", "stuck"}, topic : Topics,
                entry : 0 .. Len(subs), tries : 0 .. ReconMax - 1]

QueuesOK == /\ msgQueue \in Seq(Acks) /\ Len(msgQueue) <= QueueSize
            /\ toBroker \in Seq(Requests) /\ toClient \in Seq(Answers)
            /\ link \in {"up", "lost", "closed"}

\* A subscribe that waits has looked at the limit already: it has a place in the list.
Place(t) == IF call[t].kind = "SUBACK" THEN 1 ELSE 0
RoomOK == Len(subs) + Place(Main) + Place(Shell) <= Limit + 2

Typed == ListOK /\ CallsOK /\ RxOK /\ QueuesOK
IInv == Typed /\ RoomOK

LEMMA Constants ==
  /\ Main # Shell /\ Limit \in Nat /\ QueueSize \in Nat \ {0} /\ ReconMax \in Nat \ {0}
  /\ Plans \subseteq Plan
BY SubsAssumption

LEMMA LenSubs == ASSUME ListOK PROVE Len(subs) \in Nat /\ Entries = 1 .. Len(subs)
BY LenProperties DEF ListOK, Entries

LEMMA FoundSome ==
  ASSUME ListOK, NEW f, Found(f) # {}
  PROVE  MaxOf(Found(f)) \in Found(f) /\ MaxOf(Found(f)) \in Entries
<1>1. Found(f) \in SUBSET (1 .. Len(subs)) /\ Len(subs) \in Nat
  BY LenSubs DEF Found
<1>2. MaxOf(Found(f)) \in Found(f)
  BY <1>1, MaxExists
<1> QED  BY <1>1, <1>2, LenSubs

LEMMA FirstFromIs ==
  ASSUME ListOK, NEW topic, NEW k \in 0 .. Len(subs)
  PROVE  FirstFrom(topic, k) \in 0 .. Len(subs)
<1> DEFINE S == {j \in 1 .. k : Matched(Entry(j), topic)}
<1>1. Len(subs) \in Nat /\ k \in Nat /\ k <= Len(subs)
  BY LenSubs
<1>2. S \in SUBSET (1 .. k)
  OBVIOUS
<1>3. FirstFrom(topic, k) = IF S = {} THEN 0 ELSE MaxOf(S)
  BY DEF FirstFrom
<1> HIDE DEF S
<1>4. S # {} => MaxOf(S) \in 1 .. k
  BY <1>1, <1>2, MaxExists
<1> QED  BY <1>1, <1>3, <1>4

\* A call leaves everything but the bound on calls of its plan.
LEMMA CallsPlan ==
  ASSUME plan \in Plan, NEW t, NewCall(t)
  PROVE  /\ plan' \in Plan /\ plan'.filters = plan.filters /\ plan'.topics = plan.topics
         /\ plan'.steady = plan.steady /\ plan'.inTurn = plan.inTurn
         /\ plan'.refuses = plan.refuses
         /\ plan'.unsubscribes = plan.unsubscribes /\ plan'.losses = plan.losses
         /\ plan'.inbound = plan.inbound
BY DEF NewCall, Plan

-----------------------------------------------------------------------------
(* The calls *)

LEMMA TopicsKept ==
  ASSUME plan'.filters = plan.filters, plan'.topics = plan.topics
  PROVE  Topics' = Topics /\ Requests' = Requests /\ Answers' = Answers /\ Calls' = Calls
BY DEF Topics, Requests, Answers, Calls

LEMMA NoCallOK == NoCall \in Calls /\ NoCall.kind = "none"
BY DEF NoCall, Calls, Topics

LEMMA SendOK ==
  ASSUME QueuesOK, NEW packet \in Requests, Send(packet)
  PROVE  toBroker' \in Seq(Requests)
BY AppendProperties DEF Send, QueuesOK

\* A call that ends takes no place in the list and holds no entry.
LEMMA ReturnOK ==
  ASSUME CallsOK, NEW t \in Callers, Return(t)
  PROVE  /\ pc' \in [Callers -> {"idle", "wait", "done"}]
         /\ call' \in [Callers -> Calls]
         /\ call'[t].kind = "none"
         /\ \A u \in Callers \ {t} : call'[u] = call[u] /\ pc'[u] = pc[u]
BY NoCallOK DEF CallsOK, Return

LEMMA StartOK ==
  ASSUME CallsOK, NEW t \in Callers, NEW c \in Calls, call' = [call EXCEPT ![t] = c],
         pc' = [pc EXCEPT ![t] = "wait"]
  PROVE  /\ pc' \in [Callers -> {"idle", "wait", "done"}]
         /\ call' \in [Callers -> Calls]
         /\ call'[t] = c
         /\ \A u \in Callers \ {t} : call'[u] = call[u] /\ pc'[u] = pc[u]
BY DEF CallsOK

LEMMA RefusedOK ==
  ASSUME IInv, NEW t \in Callers, NEW f \in plan.filters,
         SubscribeAgain(t, f) \/ SubscribeRefused(t, f)
  PROVE  IInv'
<1>1. /\ NewCall(t) /\ Return(t)
      /\ UNCHANGED <<subs, rx, msgQueue, network>>
      /\ promised' \in {promised, promised \cup {f}}
  BY DEF SubscribeAgain, SubscribeRefused
<1>2. plan' \in Plan /\ plan'.filters = plan.filters /\ plan'.topics = plan.topics
  BY <1>1, CallsPlan DEF IInv, Typed, ListOK
<1>3. Topics' = Topics /\ Requests' = Requests /\ Answers' = Answers /\ Calls' = Calls
  BY <1>2, TopicsKept
<1>4. ListOK'
  BY <1>1, <1>2 DEF IInv, Typed, ListOK, network
<1>5. CallsOK'
  BY <1>1, <1>2, <1>3, ReturnOK DEF IInv, Typed, CallsOK, Entries
<1>6. RxOK' /\ QueuesOK'
  BY <1>1, <1>3 DEF IInv, Typed, RxOK, QueuesOK, network
<1>7. RoomOK'
  <2>1. Len(subs') = Len(subs) /\ Len(subs) \in Nat
    BY <1>1, LenSubs DEF IInv, Typed
  <2>2. Place(Main)' <= Place(Main) /\ Place(Shell)' <= Place(Shell)
    BY <1>1, ReturnOK, Constants DEF IInv, Typed, Place, Callers
  <2>3. {Place(Main), Place(Shell), Place(Main)', Place(Shell)'} \subseteq Nat
    BY DEF Place
  <2> QED  BY <2>1, <2>2, <2>3, Constants DEF IInv, RoomOK
<1> QED  BY <1>4, <1>5, <1>6, <1>7 DEF IInv, Typed

LEMMA SubscribeOK ==
  ASSUME IInv, NEW t \in Callers, NEW f \in plan.filters, Subscribe(t, f)
  PROVE  IInv'
<1> DEFINE c == [kind |-> "SUBACK", topic |-> f, entry |-> 0]
<1>1. /\ NewCall(t) /\ ~ Full /\ Send([type |-> "SUBSCRIBE", topic |-> f])
      /\ call' = [call EXCEPT ![t] = c] /\ pc' = [pc EXCEPT ![t] = "wait"]
      /\ UNCHANGED <<subs, rx, msgQueue, link, known, toClient, promised>>
  BY DEF Subscribe
<1>2. plan' \in Plan /\ plan'.filters = plan.filters /\ plan'.topics = plan.topics
  BY <1>1, CallsPlan DEF IInv, Typed, ListOK
<1>3. Topics' = Topics /\ Requests' = Requests /\ Answers' = Answers /\ Calls' = Calls
  BY <1>2, TopicsKept
<1>4. ListOK'
  BY <1>1, <1>2 DEF IInv, Typed, ListOK
<1>5. c \in Calls /\ c.kind = "SUBACK" /\ c.topic = f
  BY DEF Calls, Topics
<1> HIDE DEF c
<1>6. CallsOK'
  BY <1>1, <1>2, <1>3, <1>5, StartOK DEF IInv, Typed, CallsOK, Entries
<1>7. RxOK'
  BY <1>1, <1>3 DEF IInv, Typed, RxOK
<1>8. toBroker' \in Seq(Requests)
  <2>1. [type |-> "SUBSCRIBE", topic |-> f] \in Requests
    BY DEF Requests
  <2> QED  BY <2>1, <1>1, SendOK DEF IInv, Typed
<1>9. QueuesOK'
  BY <1>1, <1>3, <1>8 DEF IInv, Typed, QueuesOK
<1>10. RoomOK'
  <2>1. Len(subs') = Len(subs) /\ Len(subs) \in Nat /\ Len(subs) <= Limit
    BY <1>1, LenSubs, Constants DEF IInv, Typed, Full
  <2>2. Place(Main)' \in 0 .. 1 /\ Place(Shell)' \in 0 .. 1
    BY DEF Place
  <2> QED  BY <2>1, <2>2, Constants DEF RoomOK
<1> QED  BY <1>4, <1>6, <1>7, <1>9, <1>10 DEF IInv, Typed

LEMMA UnsubscribeOK ==
  ASSUME IInv, NEW f \in plan.filters, Unsubscribe(f)
  PROVE  IInv'
<1> DEFINE c == [kind |-> "UNSUBACK", topic |-> f, entry |-> MaxOf(Found(f))]
<1>1. /\ NewCall(Shell) /\ Found(f) # {} /\ Send([type |-> "UNSUBSCRIBE", topic |-> f])
      /\ call' = [call EXCEPT ![Shell] = c] /\ pc' = [pc EXCEPT ![Shell] = "wait"]
      /\ promised' = promised \ {f}
      /\ UNCHANGED <<subs, rx, msgQueue, link, known, toClient>>
  BY DEF Unsubscribe
<1>2. plan' \in Plan /\ plan'.filters = plan.filters /\ plan'.topics = plan.topics
  BY <1>1, CallsPlan DEF IInv, Typed, ListOK
<1>3. Topics' = Topics /\ Requests' = Requests /\ Answers' = Answers /\ Calls' = Calls
  BY <1>2, TopicsKept
<1>4. ListOK'
  BY <1>1, <1>2 DEF IInv, Typed, ListOK
<1>5. MaxOf(Found(f)) \in Entries /\ MaxOf(Found(f)) \in Nat
  BY <1>1, FoundSome, LenSubs DEF IInv, Typed
<1>6. c \in Calls /\ c.kind = "UNSUBACK" /\ c.entry \in Entries /\ Shell \in Callers
  BY <1>5 DEF Calls, Topics, Callers
<1> HIDE DEF c
<1>7. CallsOK'
  BY <1>1, <1>2, <1>3, <1>6, StartOK DEF IInv, Typed, CallsOK, Entries
<1>8. RxOK'
  BY <1>1, <1>3 DEF IInv, Typed, RxOK
<1>9. toBroker' \in Seq(Requests)
  <2>1. [type |-> "UNSUBSCRIBE", topic |-> f] \in Requests
    BY DEF Requests
  <2> QED  BY <2>1, <1>1, SendOK DEF IInv, Typed
<1>10. QueuesOK'
  BY <1>1, <1>3, <1>9 DEF IInv, Typed, QueuesOK
<1>11. RoomOK'
  <2>1. Len(subs') = Len(subs) /\ Len(subs) \in Nat
    BY <1>1, LenSubs DEF IInv, Typed
  <2>2. Place(Main)' = Place(Main) /\ Place(Shell)' <= Place(Shell)
    BY <1>1, <1>6, StartOK, Constants DEF IInv, Typed, Place, Callers
  <2>3. {Place(Main), Place(Shell), Place(Shell)'} \subseteq Nat
    BY DEF Place
  <2> QED  BY <2>1, <2>2, <2>3, Constants DEF IInv, RoomOK
<1> QED  BY <1>4, <1>7, <1>8, <1>10, <1>11 DEF IInv, Typed

LEMMA UnsubscribeFailsOK ==
  ASSUME IInv, NEW f \in plan.filters, UnsubscribeFails(f)
  PROVE  IInv'
<1>1. /\ NewCall(Shell) /\ promised' = promised \ {f}
      /\ UNCHANGED <<subs, pc, call, rx, msgQueue, network>>
  BY DEF UnsubscribeFails
<1>2. plan' \in Plan /\ plan'.filters = plan.filters /\ plan'.topics = plan.topics
  BY <1>1, CallsPlan DEF IInv, Typed, ListOK
<1>3. Topics' = Topics /\ Requests' = Requests /\ Answers' = Answers /\ Calls' = Calls
  BY <1>2, TopicsKept
<1>4. ListOK' /\ CallsOK' /\ RxOK' /\ QueuesOK'
  BY <1>1, <1>2, <1>3 DEF IInv, Typed, ListOK, CallsOK, RxOK, QueuesOK, network, Entries
<1>5. RoomOK'
  BY <1>1 DEF IInv, RoomOK, Place
<1> QED  BY <1>4, <1>5 DEF IInv, Typed

-----------------------------------------------------------------------------
(* The ends of calls *)

\* An entry at the head of the list changes the number of no other.
LEMMA InsertedOK ==
  ASSUME IInv, NEW t \in Callers, TakeAck(t), call[t].kind = "SUBACK",
         subs' = <<call[t].topic>> \o subs, promised' = promised \cup {call[t].topic},
         rx' = rx
  PROVE  ListOK' /\ CallsOK' /\ RxOK' /\ RoomOK'
<1>1. Return(t) /\ UNCHANGED <<network, plan>>
  BY DEF TakeAck
<1>2. Topics' = Topics /\ Requests' = Requests /\ Answers' = Answers /\ Calls' = Calls
  BY <1>1, TopicsKept
<1>3. Len(subs) \in Nat /\ Entries = 1 .. Len(subs)
  BY LenSubs DEF IInv, Typed
<1>4. subs' \in Seq(plan.filters) /\ Len(subs') = Len(subs) + 1
  BY Consed DEF IInv, Typed, ListOK, CallsOK
<1>5. ListOK'
  BY <1>1, <1>4 DEF IInv, Typed, ListOK, CallsOK, network
<1>6. Entries' = 1 .. Len(subs) + 1 /\ \A k \in Entries : k \in Entries'
  BY <1>3, <1>4 DEF Entries
<1>7. CallsOK'
  BY <1>1, <1>2, <1>6, ReturnOK DEF IInv, Typed, CallsOK
<1>8. RxOK'
  BY <1>2, <1>3, <1>4 DEF IInv, Typed, RxOK
<1>9. RoomOK'
  <2>1. /\ t = Main => Place(Main) = 1 /\ Place(Main)' = 0 /\ Place(Shell)' = Place(Shell)
        /\ t = Shell => Place(Shell) = 1 /\ Place(Shell)' = 0 /\ Place(Main)' = Place(Main)
    BY <1>1, ReturnOK, Constants DEF IInv, Typed, Place, Callers
  <2>2. {Place(Main), Place(Shell)} \subseteq Nat
    BY DEF Place
  <2> QED  BY <1>3, <1>4, <2>1, <2>2, Constants DEF IInv, RoomOK, Callers
<1> QED  BY <1>5, <1>7, <1>8, <1>9

\* The number of an entry behind the one that is removed goes down by one.
LEMMA RemovedOK ==
  ASSUME IInv, NEW t \in Callers, TakeAck(t), call[t].kind = "UNSUBACK",
         RemoveEntry(call[t].entry), promised' = promised
  PROVE  ListOK' /\ CallsOK' /\ RxOK' /\ RoomOK'
<1> DEFINE k == call[t].entry
           i == Len(subs) + 1 - k
<1>1. Return(t) /\ UNCHANGED <<network, plan>> /\ t = Shell
  BY DEF TakeAck, IInv, Typed, CallsOK
<1>2. Topics' = Topics /\ Requests' = Requests /\ Answers' = Answers /\ Calls' = Calls
  BY <1>1, TopicsKept
<1>3. Len(subs) \in Nat /\ Entries = 1 .. Len(subs)
  BY LenSubs DEF IInv, Typed
<1>4. k \in 1 .. Len(subs)
  BY <1>3 DEF IInv, Typed, CallsOK
<1>5. /\ subs' = RemoveAt(subs, i)
      /\ rx' = [rx EXCEPT !.entry = IF k < rx.entry THEN rx.entry - 1
                                    ELSE IF k = rx.entry THEN 0 ELSE rx.entry]
  BY DEF RemoveEntry
<1> HIDE DEF k
<1>6. i \in 1 .. Len(subs)
  BY <1>3, <1>4
<1> HIDE DEF i
<1>7. subs' \in Seq(plan.filters) /\ Len(subs') = Len(subs) - 1
  BY <1>5, <1>6, Removed DEF IInv, Typed, ListOK
<1>8. ListOK'
  BY <1>1, <1>7 DEF IInv, Typed, ListOK, network
<1>9. CallsOK'
  BY <1>1, <1>2, ReturnOK, Constants DEF IInv, Typed, CallsOK, Callers
<1>10. RxOK'
  <2> DEFINE e == IF k < rx.entry THEN rx.entry - 1 ELSE IF k = rx.entry THEN 0 ELSE rx.entry
  <2>1. rx.entry \in 0 .. Len(subs)
    BY DEF IInv, Typed, RxOK
  <2>2. e \in 0 .. Len(subs) - 1
    BY <1>3, <1>4, <2>1
  <2>3. rx' = [rx EXCEPT !.entry = e]
    BY <1>5
  <2> HIDE DEF e
  <2> QED  BY <1>2, <1>7, <2>2, <2>3 DEF IInv, Typed, RxOK
<1>11. RoomOK'
  <2>1. Place(Main)' = Place(Main) /\ Place(Shell)' = 0
    BY <1>1, ReturnOK, Constants DEF IInv, Typed, Place, Callers
  <2>2. {Place(Main), Place(Shell)} \subseteq Nat
    BY DEF Place
  <2> QED  BY <1>3, <1>7, <2>1, <2>2, Constants DEF IInv, RoomOK
<1> QED  BY <1>8, <1>9, <1>10, <1>11

LEMMA GaveUpOK ==
  ASSUME IInv, NEW t \in Callers, Return(t), UNCHANGED <<subs, rx, promised, network, plan>>
  PROVE  ListOK' /\ CallsOK' /\ RxOK' /\ RoomOK'
<1>1. Topics' = Topics /\ Requests' = Requests /\ Answers' = Answers /\ Calls' = Calls
  BY TopicsKept
<1>2. ListOK' /\ RxOK'
  BY <1>1 DEF IInv, Typed, ListOK, RxOK, network
<1>3. CallsOK'
  BY <1>1, ReturnOK DEF IInv, Typed, CallsOK, Entries
<1>4. RoomOK'
  <2>1. Place(Main)' <= Place(Main) /\ Place(Shell)' <= Place(Shell)
    BY ReturnOK, Constants DEF IInv, Typed, Place, Callers
  <2>2. {Place(Main), Place(Shell), Place(Main)', Place(Shell)'} \subseteq Nat
    BY DEF Place
  <2>3. Len(subs) \in Nat
    BY LenSubs DEF IInv, Typed
  <2> QED  BY <2>1, <2>2, <2>3, Constants DEF IInv, RoomOK
<1> QED  BY <1>2, <1>3, <1>4

LEMMA QueueTail ==
  ASSUME QueuesOK, msgQueue # <<>>, msgQueue' = Tail(msgQueue),
         UNCHANGED <<network, plan>>
  PROVE  QueuesOK'
<1>1. msgQueue' \in Seq(Acks) /\ Len(msgQueue') = Len(msgQueue) - 1 /\ Len(msgQueue) \in Nat
  BY HeadTailProperties, LenProperties DEF QueuesOK
<1>2. Len(msgQueue') <= QueueSize
  BY <1>1, Constants DEF QueuesOK
<1>3. Requests' = Requests /\ Answers' = Answers
  BY TopicsKept
<1> QED  BY <1>1, <1>2, <1>3 DEF QueuesOK, network

LEMMA EndOfCallOK ==
  ASSUME IInv, NEW t \in Callers, EndOfCall(t)
  PROVE  IInv'
<1>1. CASE TakeAck(t)
  <2>1. QueuesOK'
    BY <1>1, QueueTail DEF TakeAck, IInv, Typed
  <2>2. ListOK' /\ CallsOK' /\ RxOK' /\ RoomOK'
    BY <1>1, InsertedOK, RemovedOK, GaveUpOK DEF TakeAck
  <2> QED  BY <2>1, <2>2 DEF IInv, Typed
<1>2. CASE Timeout(t)
  <2>1. Requests' = Requests /\ Answers' = Answers
    BY <1>2, TopicsKept DEF Timeout
  <2>2. QueuesOK'
    BY <1>2, <2>1 DEF Timeout, IInv, Typed, QueuesOK, network
  <2>3. ListOK' /\ CallsOK' /\ RxOK' /\ RoomOK'
    BY <1>2, GaveUpOK DEF Timeout
  <2> QED  BY <2>2, <2>3 DEF IInv, Typed
<1> QED  BY <1>1, <1>2 DEF EndOfCall

-----------------------------------------------------------------------------
(* The receive thread, the broker and the network *)

LEMMA WalkOK ==
  ASSUME ListOK, RxOK, NEW topic \in Topics, NEW k \in 0 .. Len(subs), WalkFrom(topic, k),
         UNCHANGED <<subs, plan>>
  PROVE  RxOK'
<1> DEFINE e == FirstFrom(topic, k)
<1>1. e \in 0 .. Len(subs)
  BY FirstFromIs
<1>2. rx' = IF e = 0 THEN Reading
            ELSE [at |-> "answer", topic |-> topic, entry |-> e, tries |-> 0]
  BY DEF WalkFrom
<1> HIDE DEF e
<1>3. 0 \in 0 .. ReconMax - 1 /\ 0 \in 0 .. Len(subs) /\ <<>> \in Topics
  BY Constants, LenSubs DEF Topics
<1>4. rx' \in [at : {"read", "answer", "await", "stuck"}, topic : Topics,
              entry : 0 .. Len(subs), tries : 0 .. ReconMax - 1]
  BY <1>1, <1>2, <1>3 DEF Reading
<1>5. Topics' = Topics
  BY TopicsKept
<1> QED  BY <1>4, <1>5 DEF RxOK

LEMMA CallbackReturnsOK ==
  ASSUME ListOK, RxOK, CallbackReturns, UNCHANGED <<subs, plan>>
  PROVE  RxOK'
<1>1. rx.topic \in Topics /\ rx.entry \in 0 .. Len(subs) /\ Len(subs) \in Nat
  BY LenSubs DEF RxOK
<1>2. CASE rx.entry = 0
  <2>1. 0 \in 0 .. ReconMax - 1 /\ 0 \in 0 .. Len(subs) /\ <<>> \in Topics
    BY <1>1, Constants DEF Topics
  <2>2. Topics' = Topics
    BY TopicsKept
  <2>3. rx' \in {[Reading EXCEPT !.at = "stuck"], Reading}
    BY <1>2 DEF CallbackReturns
  <2> QED  BY <2>1, <2>2, <2>3 DEF RxOK, Reading
<1>3. CASE rx.entry # 0
  <2>1. rx.entry - 1 \in 0 .. Len(subs)
    BY <1>1, <1>3
  <2>2. WalkFrom(rx.topic, rx.entry - 1)
    BY <1>3 DEF CallbackReturns
  <2> QED  BY <1>1, <2>1, <2>2, WalkOK
<1> QED  BY <1>2, <1>3

\* What Rx, the broker and the network leave alone.
LEMMA CallsKept ==
  ASSUME IInv, UNCHANGED <<subs, caller>>, plan' \in Plan,
         plan'.filters = plan.filters, plan'.topics = plan.topics,
         known' \subseteq plan.filters
  PROVE  ListOK' /\ CallsOK' /\ RoomOK'
<1>1. Calls' = Calls
  BY TopicsKept
<1>2. ListOK'
  BY DEF IInv, Typed, ListOK, caller
<1>3. CallsOK'
  BY <1>1 DEF IInv, Typed, CallsOK, Entries, caller
<1>4. RoomOK'
  BY DEF IInv, RoomOK, Place, caller
<1> QED  BY <1>2, <1>3, <1>4

LEMMA ReceiveOK ==
  ASSUME IInv, Receive
  PROVE  IInv'
<1> DEFINE p == Head(toClient)
<1>1. /\ p \in Answers /\ Tail(toClient) \in Seq(Answers)
  BY HeadTailProperties DEF Receive, IInv, Typed, QueuesOK
<1>2. /\ IF p.type = "PUBLISH"
         THEN WalkFrom(p.topic, Len(subs)) /\ UNCHANGED msgQueue
         ELSE msgQueue' = Queued(p.type) /\ UNCHANGED rx
      /\ toClient' = Tail(toClient)
      /\ UNCHANGED <<subs, caller, link, known, toBroker, plan>>
  BY DEF Receive
<1> HIDE DEF p
<1>3. Topics' = Topics /\ Requests' = Requests /\ Answers' = Answers
  BY <1>2, TopicsKept
<1>4. ListOK' /\ CallsOK' /\ RoomOK'
  BY <1>2, CallsKept DEF IInv, Typed, ListOK
<1>5. RxOK'
  <2>1. p.topic \in Topics /\ Len(subs) \in 0 .. Len(subs)
    BY <1>1, LenSubs DEF Answers, IInv, Typed
  <2>2. CASE p.type = "PUBLISH"
    BY <1>2, <2>1, <2>2, WalkOK DEF IInv, Typed
  <2>3. CASE p.type # "PUBLISH"
    BY <1>2, <1>3, <2>3 DEF IInv, Typed, RxOK
  <2> QED  BY <2>2, <2>3
<1>6. msgQueue' \in Seq(Acks) /\ Len(msgQueue') <= QueueSize
  <2>1. CASE p.type = "PUBLISH"
    BY <1>2, <2>1 DEF IInv, Typed, QueuesOK
  <2>2. CASE p.type # "PUBLISH"
    <3>1. p.type \in Acks /\ msgQueue' = Queued(p.type)
      BY <1>1, <1>2, <2>2 DEF Answers
    <3> QED  BY <3>1, AppendProperties, LenProperties, Constants
             DEF Queued, IInv, Typed, QueuesOK
  <2> QED  BY <2>1, <2>2
<1>7. QueuesOK'
  BY <1>1, <1>2, <1>3, <1>6 DEF IInv, Typed, QueuesOK
<1> QED  BY <1>4, <1>5, <1>7 DEF IInv, Typed

LEMMA CallbackOK ==
  ASSUME IInv, Publish \/ CallbackAck \/ CallbackTimeout
  PROVE  IInv'
<1>1. UNCHANGED <<subs, caller, link, known, toClient, plan>>
  BY DEF Publish, CallbackAck, CallbackTimeout, network
<1>2. Topics' = Topics /\ Requests' = Requests /\ Answers' = Answers
  BY <1>1, TopicsKept
<1>3. ListOK' /\ CallsOK' /\ RoomOK'
  BY <1>1, CallsKept DEF IInv, Typed, ListOK
<1>4. ListOK /\ RxOK /\ QueuesOK
  BY DEF IInv, Typed
<1>5. CASE Publish
  <2>1. [type |-> "PUBLISH", topic |-> <<>>] \in Requests
    BY DEF Requests
  <2>2. toBroker' \in Seq(Requests)
    BY <1>4, <1>5, <2>1, SendOK DEF Publish
  <2>3. QueuesOK'
    BY <1>2, <1>4, <1>5, <2>2 DEF Publish, QueuesOK
  <2>4. RxOK'
    BY <1>2, <1>4, <1>5 DEF Publish, RxOK
  <2> QED  BY <1>3, <2>3, <2>4 DEF IInv, Typed
<1>6. CASE CallbackAck
  <2>1. QueuesOK'
    BY <1>4, <1>6, QueueTail DEF CallbackAck
  <2>2. RxOK'
    BY <1>4, <1>6, CallbackReturnsOK DEF CallbackAck
  <2> QED  BY <1>3, <2>1, <2>2 DEF IInv, Typed
<1>7. CASE CallbackTimeout
  <2>1. QueuesOK'
    BY <1>2, <1>4, <1>7 DEF CallbackTimeout, QueuesOK, network
  <2>2. CASE rx.tries + 1 >= ReconMax
    <3>1. RxOK'
      BY <1>1, <1>4, <1>7, <2>2, CallbackReturnsOK DEF CallbackTimeout
    <3> QED  BY <1>3, <2>1, <3>1 DEF IInv, Typed
  <2>3. CASE ~ (rx.tries + 1 >= ReconMax)
    <3> DEFINE n == rx.tries + 1
    <3>1. n \in 0 .. ReconMax - 1
      BY <1>4, <2>3, Constants DEF RxOK
    <3>2. rx' = [rx EXCEPT !.at = "answer", !.tries = n]
      BY <1>7, <2>3 DEF CallbackTimeout, OnceMore
    <3> HIDE DEF n
    <3>3. RxOK'
      BY <1>1, <1>2, <1>4, <3>1, <3>2 DEF RxOK
    <3> QED  BY <1>3, <2>1, <3>3 DEF IInv, Typed
  <2> QED  BY <2>2, <2>3
<1> QED  BY <1>5, <1>6, <1>7

LEMMA LinkOK ==
  ASSUME IInv, CloseLink \/ Reconnect
  PROVE  IInv'
<1>1. /\ UNCHANGED <<subs, caller, rx, msgQueue, known, toBroker, toClient, plan>>
      /\ link' \in {"closed", "up"}
  BY DEF CloseLink, Reconnect
<1>2. Topics' = Topics /\ Requests' = Requests /\ Answers' = Answers
  BY <1>1, TopicsKept
<1>3. ListOK' /\ CallsOK' /\ RoomOK'
  BY <1>1, CallsKept DEF IInv, Typed, ListOK
<1>4. RxOK' /\ QueuesOK'
  BY <1>1, <1>2 DEF IInv, Typed, RxOK, QueuesOK
<1> QED  BY <1>3, <1>4 DEF IInv, Typed

LEMMA BrokerOK ==
  ASSUME IInv, Broker
  PROVE  IInv'
<1> DEFINE p == Head(toBroker)
           answer == [type |-> AckOf[p.type], topic |-> <<>>]
<1>1. p \in Requests /\ Tail(toBroker) \in Seq(Requests)
  BY HeadTailProperties DEF Broker, IInv, Typed, QueuesOK
<1>2. /\ \/ known' = IF p.type = "SUBSCRIBE" THEN known \cup {p.topic}
                     ELSE IF p.type = "UNSUBSCRIBE" THEN known \ {p.topic} ELSE known
         \/ known' = known
      /\ toClient' = Append(toClient, answer) /\ toBroker' = Tail(toBroker)
      /\ UNCHANGED <<subs, caller, rx, msgQueue, link, plan>>
  BY DEF Broker
<1> HIDE DEF p
<1>3. p.type \in {"SUBSCRIBE", "UNSUBSCRIBE", "PUBLISH"} /\ AckOf[p.type] \in Acks
  BY <1>1 DEF Requests, AckOf, Acks
<1>4. answer \in Answers
  BY <1>3 DEF Answers, Topics
<1> HIDE DEF answer
<1>5. toClient' \in Seq(Answers)
  BY <1>2, <1>4, AppendProperties DEF IInv, Typed, QueuesOK
<1>6. known' \subseteq plan.filters
  BY <1>1, <1>2 DEF IInv, Typed, ListOK, Requests
<1>7. Topics' = Topics /\ Requests' = Requests /\ Answers' = Answers
  BY <1>2, TopicsKept
<1>8. ListOK' /\ CallsOK' /\ RoomOK'
  BY <1>2, <1>6, CallsKept DEF IInv, Typed, ListOK
<1>9. RxOK' /\ QueuesOK'
  BY <1>1, <1>2, <1>5, <1>7 DEF IInv, Typed, RxOK, QueuesOK
<1> QED  BY <1>8, <1>9 DEF IInv, Typed

LEMMA InboundOK ==
  ASSUME IInv, NEW topic \in plan.topics, Inbound(topic)
  PROVE  IInv'
<1>1. /\ toClient' = Append(toClient, [type |-> "PUBLISH", topic |-> topic])
      /\ plan' = [plan EXCEPT !.inbound = @ - 1] /\ plan.inbound > 0
      /\ UNCHANGED <<subs, caller, rx, msgQueue, link, known, toBroker>>
  BY DEF Inbound
<1>2. plan' \in Plan /\ plan'.filters = plan.filters /\ plan'.topics = plan.topics
  <2>1. plan \in Plan /\ plan.inbound - 1 \in Nat
    BY <1>1 DEF IInv, Typed, ListOK, Plan
  <2>2. plan' = [plan EXCEPT !.inbound = plan.inbound - 1]
    BY <1>1
  <2> QED  BY <2>1, <2>2 DEF Plan
<1>3. [type |-> "PUBLISH", topic |-> topic] \in Answers
  BY DEF Answers, Topics
<1>4. toClient' \in Seq(Answers)
  BY <1>1, <1>3, AppendProperties DEF IInv, Typed, QueuesOK
<1>5. Topics' = Topics /\ Requests' = Requests /\ Answers' = Answers
  BY <1>2, TopicsKept
<1>6. ListOK' /\ CallsOK' /\ RoomOK'
  BY <1>1, <1>2, CallsKept DEF IInv, Typed, ListOK
<1>7. RxOK' /\ QueuesOK'
  BY <1>1, <1>4, <1>5 DEF IInv, Typed, RxOK, QueuesOK
<1> QED  BY <1>6, <1>7 DEF IInv, Typed

LEMMA LoseOK ==
  ASSUME IInv, Lose
  PROVE  IInv'
<1>1. /\ link' = "lost" /\ known' = {} /\ toBroker' = <<>> /\ toClient' = <<>>
      /\ plan' = [plan EXCEPT !.losses = @ - 1] /\ plan.losses > 0
      /\ UNCHANGED <<subs, caller, rx, msgQueue>>
  BY DEF Lose
<1>2. plan' \in Plan /\ plan'.filters = plan.filters /\ plan'.topics = plan.topics
  <2>1. plan \in Plan /\ plan.losses - 1 \in Nat
    BY <1>1 DEF IInv, Typed, ListOK, Plan
  <2>2. plan' = [plan EXCEPT !.losses = plan.losses - 1]
    BY <1>1
  <2> QED  BY <2>1, <2>2 DEF Plan
<1>3. Topics' = Topics /\ Requests' = Requests /\ Answers' = Answers
  BY <1>2, TopicsKept
<1>4. ListOK' /\ CallsOK' /\ RoomOK'
  BY <1>1, <1>2, CallsKept DEF IInv, Typed, ListOK
<1>5. RxOK' /\ QueuesOK'
  BY <1>1, <1>3, EmptySeq DEF IInv, Typed, RxOK, QueuesOK
<1> QED  BY <1>4, <1>5 DEF IInv, Typed

-----------------------------------------------------------------------------
(* The theorems *)

LEMMA Initially == Init => IInv
<1> SUFFICES ASSUME Init PROVE IInv
  OBVIOUS
<1>1. ListOK
  BY Constants, EmptySeq DEF Init, ListOK
<1>2. CallsOK
  BY NoCallOK DEF Init, CallsOK
<1>3. Len(subs) = 0 /\ Len(msgQueue) = 0
  BY EmptySeq DEF Init
<1>4. RxOK
  BY <1>3, Constants DEF Init, RxOK, Reading, Topics
<1>5. QueuesOK
  BY <1>3, Constants, EmptySeq DEF Init, QueuesOK
<1>6. RoomOK
  <2>1. Place(Main) = 0 /\ Place(Shell) = 0
    BY NoCallOK DEF Init, Place, Callers
  <2> QED  BY <1>3, <2>1, Constants DEF RoomOK
<1> QED  BY <1>1, <1>2, <1>4, <1>5, <1>6 DEF IInv, Typed

LEMMA StepKeeps == IInv /\ [Next]_vars => IInv'
<1> SUFFICES ASSUME IInv, [Next]_vars PROVE IInv'
  OBVIOUS
<1>1. ASSUME NEW t \in Callers, NEW f \in plan.filters, SomeSubscribe(t, f)
      PROVE  IInv'
  BY <1>1, RefusedOK, SubscribeOK DEF SomeSubscribe
<1>2. ASSUME NEW f \in plan.filters, Unsubscribe(f) \/ UnsubscribeFails(f)
      PROVE  IInv'
  BY <1>2, UnsubscribeOK, UnsubscribeFailsOK
<1>3. ASSUME NEW t \in Callers, EndOfCall(t)
      PROVE  IInv'
  BY <1>3, EndOfCallOK
<1>4. CASE RxStep
  BY <1>4, ReceiveOK, CallbackOK, LinkOK DEF RxStep
<1>5. CASE Broker \/ Lose
  BY <1>5, BrokerOK, LoseOK
<1>6. ASSUME NEW topic \in plan.topics, Inbound(topic)
      PROVE  IInv'
  BY <1>6, InboundOK
<1>7. CASE UNCHANGED vars
  <2>1. Topics' = Topics /\ Requests' = Requests /\ Answers' = Answers /\ Calls' = Calls
    BY <1>7, TopicsKept DEF vars
  <2>2. ListOK' /\ CallsOK' /\ RoomOK'
    BY <1>7, CallsKept DEF vars, IInv, Typed, ListOK, network
  <2>3. RxOK' /\ QueuesOK'
    BY <1>7, <2>1 DEF IInv, Typed, RxOK, QueuesOK, vars, network
  <2> QED  BY <2>2, <2>3 DEF IInv, Typed
<1> QED  BY <1>1, <1>2, <1>3, <1>4, <1>5, <1>6, <1>7 DEF Next

LEMMA Invariant == Spec => []IInv
<1> QED  BY Initially, StepKeeps, PTL DEF Spec

\* Type correctness of the list, the calls and the walk: the entry that
\* umqtt_unsubscribe has chosen is still in the list when it removes it, and the walk
\* of umqtt_deliver_message is at an entry of the list or at one that was freed.
THEOREM TypeCorrect == Spec => []TypeOK
<1>1. IInv => TypeOK
  <2> SUFFICES ASSUME IInv PROVE TypeOK
    OBVIOUS
  <2>1. subs \in Seq(plan.filters) /\ promised \subseteq plan.filters /\ known \subseteq plan.filters
    BY DEF IInv, Typed, ListOK
  <2>2. /\ pc \in [Callers -> {"idle", "wait", "done"}]
        /\ \A t \in Callers :
             /\ call[t].kind \in {"none", "SUBACK", "UNSUBACK"}
             /\ call[t].kind = "UNSUBACK" => call[t].entry \in Entries
    BY DEF IInv, Typed, CallsOK, Calls
  <2>3. /\ rx.at \in {"read", "answer", "await", "stuck"} /\ rx.entry \in 0 .. Len(subs)
        /\ rx.tries \in 0 .. ReconMax - 1
    BY DEF IInv, Typed, RxOK
  <2>4. Len(msgQueue) <= QueueSize /\ link \in {"up", "lost", "closed"}
    BY DEF IInv, Typed, QueuesOK
  <2> QED  BY <2>1, <2>2, <2>3, <2>4 DEF TypeOK
<1> QED  BY <1>1, Invariant, PTL

\* umqtt_subscribe tests the limit before it waits and inserts the entry afterwards,
\* with a test that is off by one: the list never outgrows the limit by more than the
\* two threads that subscribe.
THEOREM ListStaysBounded == Spec => []ListBounded
<1>1. IInv => ListBounded
  <2> SUFFICES ASSUME IInv PROVE ListBounded
    OBVIOUS
  <2>1. Cardinality(Callers) = 2
    <3>1. IsFiniteSet({Main}) /\ Cardinality({Main}) = 1
      BY FS_Singleton
    <3>2. Cardinality({Main} \cup {Shell}) = 2
      BY <3>1, FS_AddElement, Constants
    <3> QED  BY <3>2 DEF Callers
  <2>2. {Place(Main), Place(Shell)} \subseteq Nat
    BY DEF Place
  <2>3. Len(subs) \in Nat
    BY LenSubs DEF IInv, Typed
  <2> QED  BY <2>1, <2>2, <2>3, Constants DEF IInv, RoomOK, ListBounded
<1> QED  BY <1>1, Invariant, PTL

-----------------------------------------------------------------------------
(* Elements of sequences *)

Distinct(s) == \A i, j \in DOMAIN s : s[i] = s[j] => i = j

LEMMA ElementsOfCons ==
  ASSUME NEW S, NEW s \in Seq(S), NEW e \in S
  PROVE  /\ ToSet(<<e>> \o s) = {e} \cup ToSet(s)
         /\ Distinct(s) /\ e \notin ToSet(s) => Distinct(<<e>> \o s)
<1> DEFINE r == <<e>> \o s
<1>1. /\ Len(s) \in Nat /\ DOMAIN s = 1 .. Len(s) /\ DOMAIN r = 1 .. Len(s) + 1
      /\ r[1] = e /\ \A i \in 1 .. Len(s) : r[i + 1] = s[i]
  OBVIOUS
<1> HIDE DEF r
<1>2. \A j \in 2 .. Len(s) + 1 : j - 1 \in DOMAIN s /\ r[j] = s[j - 1]
  <2> SUFFICES ASSUME NEW j \in 2 .. Len(s) + 1
               PROVE  j - 1 \in DOMAIN s /\ r[j] = s[j - 1]
    OBVIOUS
  <2>1. j - 1 \in 1 .. Len(s) /\ (j - 1) + 1 = j
    BY <1>1
  <2> QED  BY <1>1, <2>1
<1>3. ToSet(r) = {e} \cup ToSet(s)
  <2>1. ASSUME NEW i \in DOMAIN r PROVE r[i] \in {e} \cup ToSet(s)
    BY <1>1, <1>2 DEF ToSet
  <2>2. ASSUME NEW i \in DOMAIN s PROVE s[i] \in ToSet(r)
    <3>1. i + 1 \in DOMAIN r /\ r[i + 1] = s[i]
      BY <1>1
    <3> QED  BY <3>1 DEF ToSet
  <2>3. e \in ToSet(r)
    BY <1>1 DEF ToSet
  <2> QED  BY <2>1, <2>2, <2>3 DEF ToSet
<1>4. ASSUME Distinct(s), e \notin ToSet(s) PROVE Distinct(r)
  <2> SUFFICES ASSUME NEW i \in DOMAIN r, NEW j \in DOMAIN r, r[i] = r[j]
               PROVE  i = j
    BY DEF Distinct
  <2>1. \A k \in DOMAIN s : s[k] # e
    BY <1>4 DEF ToSet
  <2>2. CASE i = 1
    BY <1>1, <1>2, <2>1, <2>2
  <2>3. CASE j = 1
    BY <1>1, <1>2, <2>1, <2>3
  <2>4. CASE i # 1 /\ j # 1
    <3>1. i \in 2 .. Len(s) + 1 /\ j \in 2 .. Len(s) + 1
      BY <1>1, <2>4
    <3>2. i - 1 = j - 1
      BY <1>2, <1>4, <3>1 DEF Distinct
    <3> QED  BY <3>1, <3>2
  <2> QED  BY <2>2, <2>3, <2>4
<1> QED  BY <1>3, <1>4 DEF r

LEMMA ElementsOfAppend ==
  ASSUME NEW S, NEW s \in Seq(S), NEW e \in S
  PROVE  ToSet(Append(s, e)) = ToSet(s) \cup {e}
<1>1. /\ Len(s) \in Nat /\ DOMAIN s = 1 .. Len(s) /\ DOMAIN Append(s, e) = 1 .. Len(s) + 1
      /\ Append(s, e)[Len(s) + 1] = e /\ \A i \in 1 .. Len(s) : Append(s, e)[i] = s[i]
  OBVIOUS
<1> QED  BY <1>1 DEF ToSet

LEMMA ElementsOfTail ==
  ASSUME NEW S, NEW s \in Seq(S), s # <<>>
  PROVE  ToSet(s) = {Head(s)} \cup ToSet(Tail(s))
<1> DEFINE r == Tail(s)
<1>1. /\ Len(s) \in Nat \ {0} /\ DOMAIN s = 1 .. Len(s) /\ DOMAIN r = 1 .. Len(s) - 1
      /\ Head(s) = s[1] /\ \A i \in 1 .. Len(s) - 1 : r[i] = s[i + 1]
  BY EmptySeq, HeadTailProperties
<1> HIDE DEF r
<1>2. ASSUME NEW i \in DOMAIN s PROVE s[i] \in {s[1]} \cup ToSet(r)
  <2>1. CASE i = 1
    BY <2>1
  <2>2. CASE i # 1
    <3>1. i - 1 \in 1 .. Len(s) - 1 /\ (i - 1) + 1 = i
      BY <1>1, <2>2
    <3>2. r[i - 1] = s[i]
      BY <1>1, <3>1
    <3> QED  BY <1>1, <3>1, <3>2 DEF ToSet
  <2> QED  BY <2>1, <2>2
<1>3. ASSUME NEW i \in DOMAIN r PROVE r[i] \in ToSet(s)
  <2>1. i + 1 \in DOMAIN s /\ r[i] = s[i + 1]
    BY <1>1
  <2> QED  BY <2>1 DEF ToSet
<1>4. s[1] \in ToSet(s)
  BY <1>1 DEF ToSet
<1> QED  BY <1>1, <1>2, <1>3, <1>4 DEF ToSet, r

LEMMA ElementsOfRemoved ==
  ASSUME NEW S, NEW s \in Seq(S), Distinct(s), NEW i \in 1 .. Len(s)
  PROVE  ToSet(RemoveAt(s, i)) = ToSet(s) \ {s[i]} /\ Distinct(RemoveAt(s, i))
<1> DEFINE l == SubSeq(s, 1, i - 1)
           r == SubSeq(s, i + 1, Len(s))
           n == Len(s) - 1
           Old(j) == IF j < i THEN j ELSE j + 1
<1>0. Len(s) \in Nat /\ DOMAIN s = 1 .. Len(s)
  OBVIOUS
<1>1. l \in Seq(S) /\ Len(l) = i - 1 /\ \A j \in 1 .. i - 1 : l[j] = s[j]
  OBVIOUS
<1>2. r \in Seq(S) /\ Len(r) = Len(s) - i /\ \A j \in 1 .. Len(s) - i : r[j] = s[i + j]
  OBVIOUS
<1> HIDE DEF l, r
<1>3. /\ l \o r \in Seq(S) /\ Len(l \o r) = n
      /\ \A j \in 1 .. n : (l \o r)[j] = IF j <= i - 1 THEN l[j] ELSE r[j - (i - 1)]
  <2>1. i - 1 + (Len(s) - i) = n
    BY <1>0
  <2>2. /\ l \o r \in Seq(S) /\ Len(l \o r) = Len(l) + Len(r)
        /\ \A j \in 1 .. Len(l) + Len(r) :
             (l \o r)[j] = IF j <= Len(l) THEN l[j] ELSE r[j - Len(l)]
    BY <1>1, <1>2, ConcatProperties
  <2>3. Len(l) = i - 1 /\ Len(l) + Len(r) = n
    BY <1>1, <1>2, <2>1
  <2> HIDE DEF n
  <2> QED  BY <2>2, <2>3
<1>4. \A j \in 1 .. n : (l \o r)[j] = s[Old(j)]
  <2> SUFFICES ASSUME NEW j \in 1 .. n PROVE (l \o r)[j] = s[Old(j)]
    OBVIOUS
  <2>1. CASE j < i
    <3>1. j \in 1 .. i - 1
      BY <1>0, <2>1
    <3> QED  BY <1>1, <1>3, <2>1, <3>1
  <2>2. CASE ~ (j < i)
    <3>1. j - (i - 1) \in 1 .. Len(s) - i /\ i + (j - (i - 1)) = j + 1 /\ ~ (j <= i - 1)
      BY <1>0, <2>2
    <3> QED  BY <1>2, <1>3, <2>2, <3>1
  <2> QED  BY <2>1, <2>2
<1>5. \A j \in 1 .. n : Old(j) \in DOMAIN s \ {i}
  BY <1>0
<1>6. \A j, k \in 1 .. n : Old(j) = Old(k) => j = k
  BY <1>0
<1>7. \A k \in DOMAIN s \ {i} : \E j \in 1 .. n : Old(j) = k
  <2> SUFFICES ASSUME NEW k \in DOMAIN s \ {i} PROVE \E j \in 1 .. n : Old(j) = k
    OBVIOUS
  <2>1. CASE k < i
    <3>1. k \in 1 .. n /\ Old(k) = k
      BY <1>0, <2>1
    <3> QED  BY <3>1
  <2>2. CASE k > i
    <3>1. k - 1 \in 1 .. n /\ Old(k - 1) = k
      BY <1>0, <2>2
    <3> QED  BY <3>1
  <2> QED  BY <1>0, <2>1, <2>2
<1> DEFINE t == l \o r
<1>8. RemoveAt(s, i) = t /\ DOMAIN t = 1 .. n
  <2>1. DOMAIN t = 1 .. n
    BY <1>3
  <2> QED  BY <2>1 DEF RemoveAt, l, r
<1> HIDE DEF t, Old, n
<1>9. ToSet(t) = ToSet(s) \ {s[i]}
  <2>1. ASSUME NEW j \in DOMAIN t PROVE t[j] \in ToSet(s) \ {s[i]}
    <3>1. t[j] = s[Old(j)] /\ Old(j) \in DOMAIN s /\ Old(j) # i
      BY <1>4, <1>5, <1>8 DEF t
    <3> QED  BY <1>0, <3>1 DEF ToSet, Distinct
  <2>2. ASSUME NEW k \in DOMAIN s, s[k] # s[i] PROVE s[k] \in ToSet(t)
    <3>1. PICK j \in 1 .. n : Old(j) = k
      BY <1>7, <2>2
    <3>2. t[j] = s[k]
      BY <1>4, <3>1 DEF t
    <3> QED  BY <1>8, <3>2 DEF ToSet
  <2> QED  BY <2>1, <2>2 DEF ToSet
<1>10. Distinct(t)
  <2> SUFFICES ASSUME NEW j \in DOMAIN t, NEW k \in DOMAIN t, t[j] = t[k]
               PROVE  j = k
    BY DEF Distinct
  <2>1. s[Old(j)] = s[Old(k)] /\ Old(j) \in DOMAIN s /\ Old(k) \in DOMAIN s
    BY <1>4, <1>5, <1>8 DEF t
  <2>2. Old(j) = Old(k)
    BY <2>1 DEF Distinct
  <2> QED  BY <1>6, <1>8, <2>2
<1> QED  BY <1>8, <1>9, <1>10

-----------------------------------------------------------------------------
(* Promises *)

SteadyPlan == /\ plan.losses = 0 /\ ~ plan.refuses /\ PrefixFree(plan.filters)
              /\ plan.unsubscribes => plan.inTurn /\ plan.inbound = 0

Firm == link = "up" /\ promised \subseteq ToSet(subs)

\* Without unsubscribes: what is listed or waited for was asked for, and nothing takes
\* it back.
Asked(f) == f \in known \/ [type |-> "SUBSCRIBE", topic |-> f] \in ToSet(toBroker)
Lasting ==
  /\ Firm
  /\ \A p \in ToSet(toBroker) : p.type # "UNSUBSCRIBE"
  /\ \A f \in ToSet(subs) : Asked(f)
  /\ \A t \in Callers : /\ call[t].kind # "UNSUBACK"
                        /\ call[t].kind = "SUBACK" => Asked(call[t].topic)

\* With unsubscribes, in turn: between two calls nothing is underway, and in a call
\* its request or its answer is.
AtRest == /\ \A t \in Callers : pc[t] # "wait"
          /\ toBroker = <<>> /\ toClient = <<>> /\ msgQueue = <<>>
          /\ ToSet(subs) \subseteq known

Request(c) == [type |-> IF c.kind = "SUBACK" THEN "SUBSCRIBE" ELSE "UNSUBSCRIBE",
               topic |-> c.topic]
AtBroker(c) == toBroker = <<Request(c)>> /\ toClient = <<>> /\ msgQueue = <<>>
Answered(c) == /\ toBroker = <<>>
               /\ \/ toClient = <<[type |-> c.kind, topic |-> <<>>]>> /\ msgQueue = <<>>
                  \/ toClient = <<>> /\ msgQueue = <<c.kind>>
               /\ c.kind = "SUBACK" => c.topic \in known
Changing(c) ==
  \/ /\ c.kind = "SUBACK" /\ c.topic \notin ToSet(subs)
     /\ ToSet(subs) \subseteq known
  \/ /\ c.kind = "UNSUBACK" /\ Entry(c.entry) = c.topic
     /\ c.topic \notin promised
     /\ ToSet(subs) \ {c.topic} \subseteq known
InCall(t) == /\ pc[t] = "wait" /\ \A u \in Callers \ {t} : pc[u] # "wait"
             /\ AtBroker(call[t]) \/ Answered(call[t])
             /\ Changing(call[t])
Turn == Firm /\ rx.at = "read" /\ Distinct(subs) /\ (AtRest \/ \E t \in Callers : InCall(t))

SteadyInv == plan.steady => /\ SteadyPlan
                            /\ ~ plan.unsubscribes => Lasting
                            /\ plan.unsubscribes => Turn

LEMMA FoundIs ==
  ASSUME ListOK, SteadyPlan, NEW f \in plan.filters
  PROVE  /\ \A k \in Found(f) : Entry(k) = f
         /\ Found(f) # {} <=> f \in ToSet(subs)
<1>1. Len(subs) \in Nat /\ Entries = 1 .. Len(subs) /\ DOMAIN subs = 1 .. Len(subs)
  BY LenSubs DEF ListOK
<1>2. \A k \in Entries : Len(subs) + 1 - k \in DOMAIN subs
  BY <1>1
<1>3. \A k \in Entries : Entry(k) \in plan.filters
  BY <1>2 DEF Entry, ListOK
<1>4. \A k \in Found(f) : Entry(k) = f
  BY <1>3 DEF Found, SteadyPlan, PrefixFree
<1>5. Begins(f, f)
  <2>1. f \in Seq(STRING)
    BY DEF ListOK, Plan
  <2>2. Len(f) \in Nat
    BY <2>1
  <2> QED  BY <2>2 DEF Begins, IsPrefix
<1>6. ASSUME NEW k \in Found(f) PROVE f \in ToSet(subs)
  <2>1. k \in Entries /\ subs[Len(subs) + 1 - k] = f
    BY <1>4, <1>6 DEF Found, Entry
  <2> QED  BY <1>2, <2>1 DEF ToSet
<1>7. ASSUME f \in ToSet(subs) PROVE Found(f) # {}
  <2>1. PICK i \in DOMAIN subs : subs[i] = f
    BY <1>7 DEF ToSet
  <2>2. Len(subs) + 1 - i \in Entries /\ Len(subs) + 1 - (Len(subs) + 1 - i) = i
    BY <1>1
  <2>3. Entry(Len(subs) + 1 - i) = f
    BY <2>1, <2>2 DEF Entry
  <2> QED  BY <1>5, <2>2, <2>3 DEF Found
<1> QED  BY <1>4, <1>6, <1>7

\* What a step may change of the plan.
LEMMA PlanSteps ==
  ASSUME Next
  PROVE  \/ plan' = plan
         \/ \E t : NewCall(t)
         \/ \E topic : Inbound(topic)
         \/ Lose
<1>1. CASE \E f \in plan.filters : \/ \E t \in Callers : SomeSubscribe(t, f)
                                  \/ Unsubscribe(f) \/ UnsubscribeFails(f)
  BY <1>1 DEF SomeSubscribe, SubscribeAgain, SubscribeRefused, Subscribe, Unsubscribe,
              UnsubscribeFails
<1>2. CASE (\E t \in Callers : EndOfCall(t)) \/ RxStep \/ Broker
  BY <1>2 DEF EndOfCall, TakeAck, Timeout, RxStep, Receive, Publish, CallbackAck,
              CallbackTimeout, CloseLink, Reconnect, Broker
<1>3. CASE Lose \/ \E topic \in plan.topics : Inbound(topic)
  BY <1>3
<1> QED  BY <1>1, <1>2, <1>3 DEF Next

LEMMA PlanFixed ==
  ASSUME plan \in Plan, Next
  PROVE  /\ plan'.filters = plan.filters /\ plan'.inTurn = plan.inTurn
         /\ plan'.steady = plan.steady /\ plan'.unsubscribes = plan.unsubscribes
         /\ plan'.refuses = plan.refuses
BY PlanSteps, CallsPlan DEF Inbound, Lose, Plan

LEMMA SteadyPlanKept ==
  ASSUME plan \in Plan, SteadyPlan, Next
  PROVE  SteadyPlan'
<1>1. ~ Lose
  BY DEF Lose, SteadyPlan
<1>2. plan'.losses = plan.losses
  BY <1>1, PlanSteps, CallsPlan DEF Inbound, Plan
<1>3. ASSUME plan.unsubscribes PROVE plan'.inbound = plan.inbound
  <2>1. plan.inbound = 0
    BY <1>3 DEF SteadyPlan
  <2>2. \A topic : ~ Inbound(topic)
    BY <2>1 DEF Inbound
  <2> QED  BY <1>1, <2>2, PlanSteps, CallsPlan
<1> QED  BY <1>2, <1>3, PlanFixed DEF SteadyPlan, PrefixFree

\* What is asked for stays asked for while the broker's side does not shrink.
LEMMA LastingKept ==
  ASSUME Lasting, known \subseteq known', ToSet(toBroker) \subseteq ToSet(toBroker'),
         \A p \in ToSet(toBroker') \ ToSet(toBroker) : p.type # "UNSUBSCRIBE",
         UNCHANGED <<subs, caller, link>>
  PROVE  Lasting'
<1>1. \A f : Asked(f) => Asked(f)'
  BY DEF Asked
<1> QED  BY <1>1 DEF Lasting, Firm, caller

LEMMA LastingCall ==
  ASSUME IInv, SteadyPlan, Lasting, NEW t \in Callers, NEW f \in plan.filters,
         SomeSubscribe(t, f)
  PROVE  Lasting'
<1>1. CASE SubscribeAgain(t, f) \/ SubscribeRefused(t, f)
  <2>1. /\ Return(t) /\ UNCHANGED <<subs, network>>
        /\ promised' = promised \/ (promised' = promised \cup {f} /\ Found(f) # {})
    BY <1>1 DEF SubscribeAgain, SubscribeRefused
  <2>2. Firm'
    BY <2>1, FoundIs DEF Lasting, Firm, network, IInv, Typed
  <2>3. \A g : Asked(g)' <=> Asked(g)
    BY <2>1 DEF Asked, network
  <2>4. call'[t].kind = "none" /\ \A u \in Callers \ {t} : call'[u] = call[u]
    BY <2>1, ReturnOK DEF IInv, Typed
  <2> QED  BY <2>1, <2>2, <2>3, <2>4 DEF Lasting, network
<1>2. CASE Subscribe(t, f)
  <2> DEFINE p == [type |-> "SUBSCRIBE", topic |-> f]
             c == [kind |-> "SUBACK", topic |-> f, entry |-> 0]
  <2>1. /\ Send(p) /\ call' = [call EXCEPT ![t] = c]
        /\ UNCHANGED <<subs, link, known, promised>>
    BY <1>2 DEF Subscribe
  <2>2. toBroker' = Append(toBroker, p)
    BY <2>1 DEF Send, Lasting, Firm
  <2>3. p \in Requests
    BY DEF Requests
  <2>4. ToSet(toBroker') = ToSet(toBroker) \cup {p}
    BY <2>2, <2>3, ElementsOfAppend DEF IInv, Typed, QueuesOK
  <2>5. Asked(f)' /\ \A g : Asked(g) => Asked(g)'
    BY <2>1, <2>4 DEF Asked
  <2>6. call'[t] = c /\ \A u \in Callers \ {t} : call'[u] = call[u]
    BY <2>1 DEF IInv, Typed, CallsOK
  <2>7. Firm'
    BY <2>1 DEF Lasting, Firm
  <2> QED  BY <2>1, <2>4, <2>5, <2>6, <2>7 DEF Lasting
<1> QED  BY <1>1, <1>2 DEF SomeSubscribe

LEMMA LastingEnd ==
  ASSUME IInv, Lasting, NEW t \in Callers, EndOfCall(t)
  PROVE  Lasting'
<1>1. Return(t) /\ UNCHANGED network
  BY DEF EndOfCall, TakeAck, Timeout
<1>2. call'[t].kind = "none" /\ \A u \in Callers \ {t} : call'[u] = call[u]
  BY <1>1, ReturnOK DEF IInv, Typed
<1>3. \A g : Asked(g)' <=> Asked(g)
  BY <1>1 DEF Asked, network
<1>4. \/ subs' = subs /\ promised' = promised
      \/ /\ call[t].kind = "SUBACK" /\ subs' = <<call[t].topic>> \o subs
         /\ promised' = promised \cup {call[t].topic}
  BY DEF EndOfCall, TakeAck, Timeout, Lasting
<1>5. CASE subs' = subs /\ promised' = promised
  BY <1>1, <1>2, <1>3, <1>5 DEF Lasting, Firm, network
<1>6. CASE /\ call[t].kind = "SUBACK" /\ subs' = <<call[t].topic>> \o subs
           /\ promised' = promised \cup {call[t].topic}
  <2>1. call[t].topic \in plan.filters
    BY <1>6 DEF IInv, Typed, CallsOK
  <2>2. ToSet(subs') = {call[t].topic} \cup ToSet(subs)
    BY <1>6, <2>1, ElementsOfCons DEF IInv, Typed, ListOK
  <2> QED  BY <1>1, <1>2, <1>3, <1>6, <2>2 DEF Lasting, Firm, network
<1> QED  BY <1>4, <1>5, <1>6

LEMMA LastingBroker ==
  ASSUME IInv, SteadyPlan, Lasting, Broker
  PROVE  Lasting'
<1> DEFINE p == Head(toBroker)
<1>1. /\ known' = IF p.type = "SUBSCRIBE" THEN known \cup {p.topic}
                  ELSE IF p.type = "UNSUBSCRIBE" THEN known \ {p.topic} ELSE known
      /\ toBroker' = Tail(toBroker) /\ toBroker # <<>>
      /\ UNCHANGED <<subs, caller, link>>
  BY DEF Broker, SteadyPlan
<1>2. ToSet(toBroker) = {p} \cup ToSet(toBroker')
  BY <1>1, ElementsOfTail DEF IInv, Typed, QueuesOK
<1> HIDE DEF p
<1>3. p.type # "UNSUBSCRIBE"
  BY <1>2 DEF Lasting
<1>4. \A f : Asked(f) => Asked(f)'
  <2> SUFFICES ASSUME NEW f, Asked(f) PROVE Asked(f)'
    OBVIOUS
  <2>1. CASE f \in known
    BY <1>1, <1>3, <2>1 DEF Asked
  <2>2. CASE p = [type |-> "SUBSCRIBE", topic |-> f]
    BY <1>1, <2>2 DEF Asked
  <2>3. CASE [type |-> "SUBSCRIBE", topic |-> f] \in ToSet(toBroker')
    BY <2>3 DEF Asked
  <2> QED  BY <1>2, <2>1, <2>2, <2>3 DEF Asked
<1> QED  BY <1>1, <1>2, <1>4 DEF Lasting, Firm, caller

LEMMA LastingRest ==
  ASSUME IInv, Lasting, RxStep \/ \E topic : Inbound(topic)
  PROVE  Lasting'
<1>1. ~ CloseLink /\ ~ Reconnect
  BY DEF CloseLink, Reconnect, Lasting, Firm
<1>2. CASE Publish
  <2> DEFINE p == [type |-> "PUBLISH", topic |-> <<>>]
  <2>1. Send(p) /\ UNCHANGED <<subs, caller, link, known>> /\ p \in Requests
    BY <1>2 DEF Publish, Requests
  <2>2. toBroker' = Append(toBroker, p)
    BY <2>1 DEF Send, Lasting, Firm
  <2>3. ToSet(toBroker') = ToSet(toBroker) \cup {p}
    BY <2>1, <2>2, ElementsOfAppend DEF IInv, Typed, QueuesOK
  <2> QED  BY <2>1, <2>3, LastingKept
<1>3. CASE Receive \/ CallbackAck \/ CallbackTimeout \/ \E topic : Inbound(topic)
  <2>1. UNCHANGED <<subs, caller, link, known, toBroker>>
    BY <1>3 DEF Receive, CallbackAck, CallbackTimeout, Inbound, network
  <2> QED  BY <2>1, LastingKept
<1> QED  BY <1>1, <1>2, <1>3 DEF RxStep

\* A call starts only when nobody waits.
LEMMA TurnStarts ==
  ASSUME SteadyPlan, Turn, plan.unsubscribes, NEW t, NewCall(t)
  PROVE  AtRest
<1>1. \A u \in Callers : pc[u] # "wait"
  BY DEF NewCall, SteadyPlan
<1> QED  BY <1>1 DEF Turn, InCall

LEMMA TurnRefused ==
  ASSUME IInv, SteadyPlan, Turn, plan.unsubscribes, NEW t \in Callers,
         NEW f \in plan.filters, SubscribeAgain(t, f) \/ SubscribeRefused(t, f)
  PROVE  Turn'
<1>1. /\ NewCall(t) /\ Return(t) /\ UNCHANGED <<subs, rx, msgQueue, network>>
      /\ promised' = promised \/ (promised' = promised \cup {f} /\ Found(f) # {})
  BY DEF SubscribeAgain, SubscribeRefused
<1>2. AtRest
  BY <1>1, TurnStarts
<1>3. Firm'
  BY <1>1, FoundIs DEF Turn, Firm, network, IInv, Typed
<1>4. \A u \in Callers : pc'[u] # "wait"
  BY <1>1, <1>2 DEF AtRest, Return, IInv, Typed, CallsOK
<1>5. AtRest'
  BY <1>1, <1>2, <1>4 DEF AtRest, network
<1> QED  BY <1>1, <1>3, <1>5 DEF Turn, Distinct

\* What a call that has just been sent is underway with.
LEMMA TurnSent ==
  ASSUME IInv, AtRest, Firm, NEW t \in Callers, NEW c \in Calls, c.kind # "none",
         Send(Request(c)), call' = [call EXCEPT ![t] = c],
         pc' = [pc EXCEPT ![t] = "wait"], UNCHANGED <<msgQueue, toClient>>,
         Changing(c)'
  PROVE  InCall(t)'
<1>1. toBroker' = <<Request(c)>>
  BY DEF Send, AtRest, Firm
<1>2. call'[t] = c /\ pc'[t] = "wait" /\ \A u \in Callers \ {t} : pc'[u] = pc[u]
  BY DEF IInv, Typed, CallsOK
<1>3. AtBroker(call[t])'
  BY <1>1, <1>2 DEF AtBroker, AtRest, Request
<1>4. Changing(call[t])'
  BY <1>2 DEF Changing
<1> QED  BY <1>2, <1>3, <1>4 DEF InCall, AtRest

LEMMA TurnSubscribe ==
  ASSUME IInv, SteadyPlan, Turn, plan.unsubscribes, NEW t \in Callers,
         NEW f \in plan.filters, Subscribe(t, f)
  PROVE  Turn'
<1> DEFINE c == [kind |-> "SUBACK", topic |-> f, entry |-> 0]
<1>1. /\ NewCall(t) /\ Found(f) = {} /\ Send([type |-> "SUBSCRIBE", topic |-> f])
      /\ call' = [call EXCEPT ![t] = c] /\ pc' = [pc EXCEPT ![t] = "wait"]
      /\ UNCHANGED <<subs, rx, msgQueue, link, known, toClient, promised>>
  BY DEF Subscribe
<1>2. AtRest
  BY <1>1, TurnStarts
<1>3. f \notin ToSet(subs)
  BY <1>1, FoundIs DEF IInv, Typed
<1>4. c \in Calls /\ c.kind = "SUBACK" /\ c.topic = f
  BY DEF Calls, Topics
<1>5. Request(c) = [type |-> "SUBSCRIBE", topic |-> f]
  BY DEF Request
<1> HIDE DEF c
<1>6. Changing(c)'
  BY <1>1, <1>2, <1>3, <1>4 DEF Changing, AtRest
<1>7. InCall(t)'
  BY <1>1, <1>2, <1>4, <1>5, <1>6, TurnSent DEF Turn
<1> QED  BY <1>1, <1>7 DEF Turn, Firm, Distinct

LEMMA TurnUnsubscribe ==
  ASSUME IInv, SteadyPlan, Turn, plan.unsubscribes, NEW f \in plan.filters, Unsubscribe(f)
  PROVE  Turn'
<1>1. PICK e \in Nat : e = MaxOf(Found(f)) /\ e \in Found(f)
  BY FoundSome, LenSubs DEF IInv, Typed, Unsubscribe
<1> DEFINE c == [kind |-> "UNSUBACK", topic |-> f, entry |-> e]
<1>2. /\ NewCall(Shell) /\ Send([type |-> "UNSUBSCRIBE", topic |-> f])
      /\ call' = [call EXCEPT ![Shell] = c] /\ pc' = [pc EXCEPT ![Shell] = "wait"]
      /\ promised' = promised \ {f}
      /\ UNCHANGED <<subs, rx, msgQueue, link, known, toClient>>
  BY <1>1 DEF Unsubscribe
<1>3. AtRest
  BY <1>2, TurnStarts
<1>4. Entry(e) = f
  BY <1>1, FoundIs DEF IInv, Typed
<1>5. c \in Calls /\ c.kind = "UNSUBACK" /\ c.topic = f /\ c.entry = e
  BY <1>1 DEF Calls, Topics
<1>6. Request(c) = [type |-> "UNSUBSCRIBE", topic |-> f]
  BY DEF Request
<1> HIDE DEF c
<1>7. Changing(c)'
  BY <1>2, <1>3, <1>4, <1>5 DEF Changing, AtRest, Entry
<1>8. InCall(Shell)'
  BY <1>2, <1>3, <1>5, <1>6, <1>7, TurnSent DEF Turn, Callers
<1> QED  BY <1>2, <1>8 DEF Turn, Firm, Distinct, Callers

LEMMA TurnUnsubscribeFails ==
  ASSUME IInv, SteadyPlan, Turn, plan.unsubscribes, NEW f, UnsubscribeFails(f)
  PROVE  Turn'
<1>1. /\ NewCall(Shell) /\ promised' = promised \ {f}
      /\ UNCHANGED <<subs, pc, call, rx, msgQueue, network>>
  BY DEF UnsubscribeFails
<1>2. AtRest
  BY <1>1, TurnStarts
<1>3. AtRest'
  BY <1>1, <1>2 DEF AtRest, network
<1> QED  BY <1>1, <1>3 DEF Turn, Firm, Distinct, network

\* The answer that is taken is the one to this call.
LEMMA TurnTakeAck ==
  ASSUME IInv, Turn, NEW t \in Callers, TakeAck(t)
  PROVE  Turn'
<1> DEFINE c == call[t]
<1>1. /\ pc[t] = "wait" /\ msgQueue # <<>> /\ msgQueue' = Tail(msgQueue) /\ Return(t)
      /\ UNCHANGED <<network, plan>>
  BY DEF TakeAck
<1>2. InCall(t)
  BY <1>1 DEF Turn, AtRest, InCall
<1>3. /\ toBroker = <<>> /\ toClient = <<>> /\ msgQueue = <<c.kind>>
      /\ c.kind = "SUBACK" => c.topic \in known
  BY <1>1, <1>2 DEF InCall, AtBroker, Answered
<1>4. Head(msgQueue) = c.kind /\ msgQueue' = <<>>
  BY <1>1, <1>3
<1>5. RightAck(t)
  BY <1>4 DEF RightAck
<1>6. \A u \in Callers : pc'[u] # "wait"
  BY <1>1, <1>2 DEF InCall, Return, IInv, Typed, CallsOK
<1>7. CASE c.kind = "SUBACK"
  <2>1. /\ subs' = <<c.topic>> \o subs /\ promised' = promised \cup {c.topic} /\ rx' = rx
    BY <1>5, <1>7 DEF TakeAck
  <2>2. c.topic \in plan.filters
    BY <1>7 DEF IInv, Typed, CallsOK
  <2>3. c.topic \notin ToSet(subs) /\ ToSet(subs) \subseteq known
    BY <1>2, <1>7 DEF InCall, Changing
  <2> HIDE DEF c
  <2>4. ToSet(subs') = {c.topic} \cup ToSet(subs) /\ Distinct(subs')
    BY <2>1, <2>2, <2>3, ElementsOfCons DEF IInv, Typed, ListOK, Turn
  <2>5. AtRest'
    BY <1>1, <1>3, <1>4, <1>6, <1>7, <2>3, <2>4 DEF AtRest, network
  <2> QED  BY <1>1, <2>1, <2>4, <2>5 DEF Turn, Firm, network
<1>8. CASE c.kind = "UNSUBACK"
  <2> DEFINE i == Len(subs) + 1 - c.entry
  <2>1. /\ RemoveEntry(c.entry) /\ promised' = promised
    BY <1>5, <1>8 DEF TakeAck
  <2>2. subs' = RemoveAt(subs, i) /\ rx'.at = "read"
    BY <2>1 DEF RemoveEntry, Turn, IInv, Typed, RxOK
  <2>3. i \in 1 .. Len(subs)
    <3>1. Len(subs) \in Nat /\ c.entry \in 1 .. Len(subs)
      BY <1>8, LenSubs DEF IInv, Typed, CallsOK
    <3> QED  BY <3>1
  <2>4. subs[i] = c.topic /\ c.topic \notin promised /\ ToSet(subs) \ {c.topic} \subseteq known
    BY <1>2, <1>8 DEF InCall, Changing, Entry
  <2> HIDE DEF c, i
  <2>5. ToSet(subs') = ToSet(subs) \ {c.topic} /\ Distinct(subs')
    BY <2>2, <2>3, <2>4, ElementsOfRemoved DEF IInv, Typed, ListOK, Turn
  <2>6. AtRest'
    BY <1>1, <1>3, <1>4, <1>6, <2>4, <2>5 DEF AtRest, network
  <2> QED  BY <1>1, <2>1, <2>2, <2>4, <2>5, <2>6 DEF Turn, Firm, network
<1> QED  BY <1>2, <1>7, <1>8 DEF InCall, Changing

\* No wait times out while its request or its answer is underway.
LEMMA TurnNoTimeout ==
  ASSUME SteadyPlan, Turn, plan.unsubscribes, NEW t \in Callers
  PROVE  ~ Timeout(t)
<1> SUFFICES ASSUME Timeout(t) PROVE FALSE
  OBVIOUS
<1>1. pc[t] = "wait" /\ msgQueue = <<>> /\ ~ Underway
  BY DEF Timeout, SteadyPlan
<1>2. InCall(t)
  BY <1>1 DEF Turn, AtRest, InCall
<1>3. toBroker = <<>> /\ toClient = <<>>
  BY <1>1 DEF Underway, Turn, Firm
<1> QED  BY <1>1, <1>2, <1>3 DEF InCall, AtBroker, Answered

LEMMA TurnReceive ==
  ASSUME IInv, Turn, Receive
  PROVE  Turn'
<1>1. toClient # <<>>
  BY DEF Receive
<1>2. PICK t \in Callers : InCall(t)
  BY <1>1 DEF Turn, AtRest
<1> DEFINE c == call[t]
           a == [type |-> c.kind, topic |-> <<>>]
<1>3. toBroker = <<>> /\ toClient = <<a>> /\ msgQueue = <<>>
  BY <1>1, <1>2 DEF InCall, AtBroker, Answered
<1>4. c.kind \in {"SUBACK", "UNSUBACK"}
  BY <1>2 DEF InCall, Changing
<1>5. Head(toClient) = a /\ Tail(toClient) = <<>>
  BY <1>3
<1>6. a.type = c.kind /\ a.type # "PUBLISH"
  BY <1>4
<1>7. /\ msgQueue' = Queued(c.kind) /\ toClient' = <<>>
      /\ UNCHANGED <<subs, caller, rx, link, known, toBroker>>
  BY <1>5, <1>6 DEF Receive
<1>8. msgQueue' = <<c.kind>>
  <2>1. Len(msgQueue) = 0
    BY <1>3
  <2> QED  BY <1>3, <1>7, <2>1, Constants DEF Queued
<1>9. InCall(t)'
  <2>1. Answered(call[t])'
    BY <1>1, <1>2, <1>3, <1>7, <1>8 DEF Answered, InCall, AtBroker, caller
  <2>2. Changing(call[t])'
    BY <1>2, <1>7 DEF InCall, Changing, Entry, caller
  <2> QED  BY <1>2, <1>7, <2>1, <2>2 DEF InCall, caller
<1> QED  BY <1>7, <1>9 DEF Turn, Firm, Distinct, caller

LEMMA TurnBroker ==
  ASSUME IInv, SteadyPlan, Turn, Broker
  PROVE  Turn'
<1>1. toBroker # <<>> /\ toBroker' = Tail(toBroker) /\ UNCHANGED <<subs, caller, rx, msgQueue, link>>
  BY DEF Broker
<1>2. PICK t \in Callers : InCall(t)
  BY <1>1 DEF Turn, AtRest
<1> DEFINE c == call[t]
           p == Request(c)
<1>3. toBroker = <<p>> /\ toClient = <<>> /\ msgQueue = <<>>
  BY <1>1, <1>2 DEF InCall, AtBroker, Answered
<1>4. p.topic = c.topic /\ p.type = IF c.kind = "SUBACK" THEN "SUBSCRIBE" ELSE "UNSUBSCRIBE"
  BY DEF Request
<1>5. c.kind \in {"SUBACK", "UNSUBACK"}
  BY <1>2 DEF InCall, Changing
<1> HIDE DEF p
<1>6. Head(toBroker) = p /\ toBroker' = <<>>
  BY <1>1, <1>3
<1>7. AckOf[p.type] = c.kind
  BY <1>4, <1>5 DEF AckOf
<1>8. toClient' = <<[type |-> c.kind, topic |-> <<>>]>>
  BY <1>3, <1>6, <1>7 DEF Broker
<1>9. known' = IF c.kind = "SUBACK" THEN known \cup {c.topic} ELSE known \ {c.topic}
  BY <1>4, <1>5, <1>6 DEF Broker, SteadyPlan
<1>10. InCall(t)'
  <2>1. Answered(call[t])'
    BY <1>1, <1>3, <1>6, <1>8, <1>9 DEF Answered, caller
  <2>2. Changing(call[t])'
    BY <1>1, <1>2, <1>9 DEF InCall, Changing, Entry, caller
  <2> QED  BY <1>1, <1>2, <2>1, <2>2 DEF InCall, caller
<1> QED  BY <1>1, <1>10 DEF Turn, Firm, Distinct, caller

LEMMA SteadyInitially ==
  ASSUME Init
  PROVE  SteadyInv
<1> SUFFICES ASSUME plan.steady
             PROVE  /\ SteadyPlan
                    /\ ~ plan.unsubscribes => Lasting
                    /\ plan.unsubscribes => Turn
  BY DEF SteadyInv
<1>1. SteadyPlan
  BY SubsAssumption DEF Init, SteadyPlan
<1>2. \A f : f \notin ToSet(<<>>)
  BY DEF ToSet
<1>3. \A t \in Callers : call[t].kind = "none" /\ pc[t] # "wait"
  BY NoCallOK DEF Init
<1>4. Firm
  BY DEF Init, Firm
<1>5. Lasting
  BY <1>2, <1>3, <1>4 DEF Init, Lasting
<1>6. AtRest
  BY <1>2, <1>3 DEF Init, AtRest
<1>7. Turn
  <2>1. rx.at = "read" /\ Distinct(subs)
    BY EmptySeq DEF Init, Reading, Distinct
  <2> QED  BY <1>4, <1>6, <2>1 DEF Turn
<1> QED  BY <1>1, <1>5, <1>7

LEMMA SteadyStutters ==
  ASSUME SteadyInv, UNCHANGED vars
  PROVE  SteadyInv'
<1>1. SteadyPlan' <=> SteadyPlan
  BY DEF SteadyPlan, PrefixFree, vars
<1>2. Lasting' <=> Lasting
  BY DEF Lasting, Firm, Asked, vars, caller, network
<1>3. Turn' <=> Turn
  BY DEF Turn, Firm, Distinct, AtRest, InCall, AtBroker, Answered, Changing, Entry, vars,
         caller, network
<1> QED  BY <1>1, <1>2, <1>3 DEF SteadyInv, vars

LEMMA SteadyStep ==
  ASSUME IInv, SteadyInv, Next
  PROVE  SteadyInv'
<1> SUFFICES ASSUME plan'.steady
             PROVE  /\ SteadyPlan'
                    /\ ~ plan'.unsubscribes => Lasting'
                    /\ plan'.unsubscribes => Turn'
  BY DEF SteadyInv
<1>1. plan.losses = 0 => ~ Lose
  BY DEF Lose
<1>2. CASE ~ plan.steady
  BY <1>2, PlanFixed DEF IInv, Typed, ListOK
<1>3. CASE plan.steady
  <2>1. /\ SteadyPlan /\ ~ Lose
        /\ ~ plan.unsubscribes => Lasting
        /\ plan.unsubscribes => Turn
    BY <1>1, <1>3 DEF SteadyInv, SteadyPlan
  <2>2. SteadyPlan' /\ plan'.unsubscribes = plan.unsubscribes
    BY <2>1, SteadyPlanKept, PlanFixed DEF IInv, Typed, ListOK
  <2>3. CASE ~ plan.unsubscribes
    <3>1. \A f : ~ Unsubscribe(f) /\ ~ UnsubscribeFails(f)
      BY <2>3 DEF Unsubscribe, UnsubscribeFails
    <3>2. Lasting'
      BY <2>1, <2>3, <3>1, LastingCall, LastingEnd, LastingBroker, LastingRest DEF Next
    <3> QED  BY <2>2, <2>3, <3>2
  <2>4. CASE plan.unsubscribes
    <3>1. \A topic : ~ Inbound(topic)
      BY <2>1, <2>4 DEF Inbound, SteadyPlan
    <3>2. ~ Publish /\ ~ CallbackAck /\ ~ CallbackTimeout /\ ~ CloseLink /\ ~ Reconnect
      BY <2>1, <2>4 DEF Publish, CallbackAck, CallbackTimeout, CloseLink, Reconnect, Turn, Firm
    <3>3. ASSUME NEW t \in Callers, NEW f \in plan.filters, SomeSubscribe(t, f)
          PROVE  Turn'
      BY <2>1, <2>4, <3>3, TurnRefused, TurnSubscribe DEF SomeSubscribe
    <3>4. ASSUME NEW f \in plan.filters, Unsubscribe(f) \/ UnsubscribeFails(f)
          PROVE  Turn'
      BY <2>1, <2>4, <3>4, TurnUnsubscribe, TurnUnsubscribeFails
    <3>5. ASSUME NEW t \in Callers, EndOfCall(t)
          PROVE  Turn'
      BY <2>1, <2>4, <3>5, TurnTakeAck, TurnNoTimeout DEF EndOfCall
    <3>6. Turn'
      BY <2>1, <2>4, <3>1, <3>2, <3>3, <3>4, <3>5, TurnReceive, TurnBroker DEF Next, RxStep
    <3> QED  BY <2>2, <2>4, <3>6
  <2> QED  BY <2>3, <2>4
<1> QED  BY <1>2, <1>3

\* As long as one connection lasts, no filter begins another, and an unsubscribe is
\* answered before anything else happens: whatever subscribe has promised is known to
\* the broker or on its way there, and listed for delivery, however late the
\* acknowledgements are and whoever takes them (umqtt_subscribe, umqtt_unsubscribe).
THEOREM PromisesAreKept == Spec => []PromisesKeptWhileSteady
<1>1. Init => SteadyInv
  BY SteadyInitially
<1>2. IInv /\ SteadyInv /\ [Next]_vars => SteadyInv'
  BY SteadyStep, SteadyStutters
<1>3. SteadyInv => PromisesKeptWhileSteady
  <2> SUFFICES ASSUME SteadyInv, plan.steady, NEW f \in promised
               PROVE  Subscribed(f)
    BY DEF PromisesKeptWhileSteady, PromisesKept
  <2>1. CASE ~ plan.unsubscribes
    BY <2>1 DEF SteadyInv, Lasting, Firm, Asked, Subscribed
  <2>2. CASE plan.unsubscribes
    <3>1. Turn /\ f \in ToSet(subs)
      BY <2>2 DEF SteadyInv, Turn, Firm
    <3>2. f \in known
      BY <3>1 DEF Turn, AtRest, InCall, Changing
    <3> QED  BY <3>1, <3>2 DEF Subscribed
  <2> QED  BY <2>1, <2>2
<1> QED  BY <1>1, <1>2, <1>3, Invariant, PTL DEF Spec

-----------------------------------------------------------------------------
(* Topics: induction, and the least of a set *)

\* Induction over a set of numbers.
LEMMA NatSetInduction ==
  ASSUME NEW S, \A n \in Nat : (\A m \in Nat : m < n => m \in S) => n \in S
  PROVE  \A n \in Nat : n \in S
<1> DEFINE R == OpToRel(<, Nat)
           T == Nat \ S
<1>1. \A i, j \in Nat : <<i, j>> \in R <=> i < j
  BY DEF OpToRel
<1>2. IsWellFoundedOn(R, Nat)
  BY NatLessThanWellFounded
<1> HIDE DEF R
<1>3. SUFFICES ASSUME T # {} PROVE FALSE
  OBVIOUS
<1>4. T \subseteq Nat
  OBVIOUS
<1> HIDE DEF T
<1>5. PICK n \in T : \A m \in T : ~ (<<m, n>> \in R)
  BY <1>2, <1>3, <1>4, WFMin
<1> USE DEF T
<1>6. \A m \in Nat : m < n => m \in S
  BY <1>1, <1>5
<1> QED  BY <1>5, <1>6

LEMMA MinExists ==
  ASSUME NEW S \in SUBSET Nat, S # {}
  PROVE  Min(S) \in S /\ \A j \in S : Min(S) <= j
<1>1. \E k \in S : \A j \in S : k <= j
  <2> SUFFICES ASSUME \A k \in S : \E j \in S : ~ (k <= j) PROVE FALSE
    OBVIOUS
  <2> DEFINE N == Nat \ S
  <2>1. ASSUME NEW n \in Nat, \A m \in Nat : m < n => m \in N
        PROVE  n \in N
    <3> SUFFICES ASSUME n \in S PROVE FALSE
      OBVIOUS
    <3>1. PICK j \in S : ~ (n <= j)
      OBVIOUS
    <3>2. j \in Nat /\ j < n
      BY <3>1
    <3> QED  BY <2>1, <3>2
  <2> HIDE DEF N
  <2>2. \A n \in Nat : n \in N
    BY <2>1, NatSetInduction
  <2> QED  BY <2>2 DEF N
<1> QED  BY <1>1 DEF Min

-----------------------------------------------------------------------------
(* Ends of levels *)

Chars == Seq(STRING)
Positions(s) == 1 .. Len(s) + 1

IsEnd(s, j, e) == /\ e \in j + 1 .. Len(s) + 1
                  /\ e <= Len(s) => s[e] = "/"
                  /\ \A k \in j + 1 .. e - 1 : s[k] # "/"

LEMMA LevelEndIs ==
  ASSUME NEW s \in Chars, NEW j \in 0 .. Len(s)
  PROVE  IsEnd(s, j, LevelEnd(s, j))
<1> DEFINE S == {k \in j + 1 .. Len(s) : s[k] = "/"} \cup {Len(s) + 1}
<1>1. Len(s) \in Nat
  BY LenProperties DEF Chars
<1>2. S \in SUBSET Nat /\ S # {} /\ S \subseteq j + 1 .. Len(s) + 1
  BY <1>1
<1>3. Min(S) \in S /\ \A k \in S : Min(S) <= k
  <2> HIDE DEF S
  <2> QED  BY <1>2, MinExists
<1>4. LevelEnd(s, j) = Min(S)
  BY DEF LevelEnd
<1> DEFINE e == Min(S)
<1>5. e \in j + 1 .. Len(s) + 1 /\ (e <= Len(s) => s[e] = "/")
  BY <1>1, <1>2, <1>3
<1>6. \A k \in j + 1 .. e - 1 : s[k] # "/"
  <2> SUFFICES ASSUME NEW k \in j + 1 .. e - 1, s[k] = "/" PROVE FALSE
    OBVIOUS
  <2>1. k \in Nat /\ k <= Len(s) /\ k < e
    BY <1>1, <1>5
  <2>2. k \in S
    BY <2>1
  <2> QED  BY <1>3, <1>5, <2>1, <2>2
<1> HIDE DEF S
<1> QED  BY <1>4, <1>5, <1>6 DEF IsEnd

LEMMA EndUnique ==
  ASSUME NEW s \in Chars, NEW j \in 0 .. Len(s), NEW e, IsEnd(s, j, e)
  PROVE  LevelEnd(s, j) = e
<1> DEFINE d == LevelEnd(s, j)
<1>1. IsEnd(s, j, d) /\ Len(s) \in Nat
  BY LevelEndIs, LenProperties DEF Chars
<1> HIDE DEF d
<1>2. ~ (d < e) /\ ~ (e < d)
  BY <1>1 DEF IsEnd
<1>3. d \in Nat /\ e \in Nat
  BY <1>1 DEF IsEnd
<1>4. d = e
  BY <1>2, <1>3
<1> QED  BY <1>4 DEF d

\* The places of a string, and the end of the level each is in.
End(s, i) == LevelEnd(s, i - 1)

LEMMA EndIs ==
  ASSUME NEW s \in Chars, NEW i \in Positions(s)
  PROVE  /\ End(s, i) \in i .. Len(s) + 1
         /\ End(s, i) <= Len(s) => s[End(s, i)] = "/"
         /\ i <= Len(s) /\ s[i] = "/" => End(s, i) = i
         /\ i <= Len(s) /\ s[i] # "/" => End(s, i) = End(s, i + 1) /\ End(s, i) = LevelEnd(s, i)
         /\ End(s, End(s, i)) = End(s, i)
<1>1. Len(s) \in Nat
  BY LenProperties DEF Chars
<1>2. i - 1 \in 0 .. Len(s) /\ i \in Nat
  BY <1>1 DEF Positions
<1>3. IsEnd(s, i - 1, End(s, i))
  BY <1>2, LevelEndIs DEF End
<1> DEFINE e == End(s, i)
<1> HIDE DEF e
<1>4. e \in i .. Len(s) + 1 /\ (e <= Len(s) => s[e] = "/") /\ \A k \in i .. e - 1 : s[k] # "/"
  BY <1>1, <1>2, <1>3 DEF IsEnd, e
<1>5. ASSUME i <= Len(s), s[i] = "/" PROVE e = i
  BY <1>1, <1>2, <1>4, <1>5
<1>6. ASSUME i <= Len(s), s[i] # "/" PROVE e = End(s, i + 1) /\ e = LevelEnd(s, i)
  <2>1. e # i
    BY <1>1, <1>2, <1>4, <1>6
  <2>2. IsEnd(s, i, e)
    BY <2>1, <1>1, <1>2, <1>4 DEF IsEnd
  <2>3. i \in 0 .. Len(s)
    BY <1>1, <1>2, <1>6
  <2>4. LevelEnd(s, i) = e
    BY <2>2, <2>3, EndUnique
  <2>5. (i + 1) - 1 = i
    BY <1>2
  <2> QED  BY <2>4, <2>5 DEF End
<1>7. End(s, e) = e
  <2>1. IsEnd(s, e - 1, e) /\ e - 1 \in 0 .. Len(s)
    BY <1>1, <1>2, <1>4 DEF IsEnd
  <2> QED  BY <2>1, EndUnique DEF End
<1> QED  BY <1>4, <1>5, <1>6, <1>7 DEF e

-----------------------------------------------------------------------------
(* Matched and Levels are what their definitions say *)

\* What the recursion of Matched computes at i.
Step(g, f, t, i) ==
  IF i > Len(f) THEN {Len(t) + 1}
  ELSE {j \in 1 .. Len(t) :
          /\ t[j] = "/" => f[i] = "/"
          /\ \/ f[i] = "+" /\ LevelEnd(t, j) \in g[i + 1]
             \/ f[i] = "#" /\ Len(t) + 1 \in g[i + 1]
             \/ f[i] \notin {"+", "#"} /\ f[i] = t[j] /\ j + 1 \in g[i + 1]}
Places(f, t) == CHOOSE g : g = [i \in 1 .. Len(f) + 1 |-> Step(g, f, t, i)]

LEMMA StepLooksAhead ==
  ASSUME NEW f \in Chars, NEW t, NEW i \in Positions(f), NEW g, NEW h,
         i <= Len(f) => g[i + 1] = h[i + 1]
  PROVE  Step(g, f, t, i) = Step(h, f, t, i)
<1>1. Len(f) \in Nat /\ i \in Nat
  BY LenProperties DEF Chars, Positions
<1>2. CASE i > Len(f)
  BY <1>2 DEF Step
<1>3. CASE ~ (i > Len(f))
  <2>1. g[i + 1] = h[i + 1]
    BY <1>1, <1>3
  <2> QED  BY <2>1, Zenon DEF Step
<1> QED  BY <1>2, <1>3

LEMMA PlacesExist ==
  ASSUME NEW f \in Chars, NEW t
  PROVE  \E g : g = [i \in 1 .. Len(f) + 1 |-> Step(g, f, t, i)]
<1> DEFINE Right(g, m) == \A i \in 1 .. Len(f) + 1 :
                             Len(f) + 1 - i <= m => g[i] = Step(g, f, t, i)
           S == {m \in Nat : \E g : Right(g, m)}
<1>0. Len(f) \in Nat /\ Positions(f) = 1 .. Len(f) + 1
  BY LenProperties DEF Chars, Positions
<1>1. ASSUME NEW m \in Nat, \A l \in Nat : l < m => l \in S
      PROVE  m \in S
  <2>1. PICK g : \A i \in 1 .. Len(f) + 1 : Len(f) + 1 - i < m => g[i] = Step(g, f, t, i)
    <3>1. CASE m = 0
      BY <3>1, <1>0
    <3>2. CASE m # 0
      <4>1. m - 1 \in Nat /\ m - 1 < m
        BY <3>2
      <4>2. PICK g : Right(g, m - 1)
        BY <1>1, <4>1
      <4>3. \A i \in 1 .. Len(f) + 1 : Len(f) + 1 - i < m => Len(f) + 1 - i <= m - 1
        BY <1>0
      <4> QED  BY <4>2, <4>3
    <3> QED  BY <3>1, <3>2
  <2> DEFINE h == [i \in 1 .. Len(f) + 1 |-> Step(g, f, t, i)]
  <2>2. ASSUME NEW i \in 1 .. Len(f) + 1, Len(f) + 1 - i <= m
        PROVE  h[i] = Step(h, f, t, i)
    <3>1. ASSUME i <= Len(f) PROVE g[i + 1] = h[i + 1]
      <4>1. i + 1 \in 1 .. Len(f) + 1 /\ Len(f) + 1 - (i + 1) < m
        BY <1>0, <2>2, <3>1
      <4>2. g[i + 1] = Step(g, f, t, i + 1)
        BY <2>1, <4>1
      <4>3. h[i + 1] = Step(g, f, t, i + 1)
        BY <4>1
      <4> QED  BY <4>2, <4>3
    <3>2. h[i] = Step(g, f, t, i)
      OBVIOUS
    <3> HIDE DEF h
    <3>3. Step(g, f, t, i) = Step(h, f, t, i)
      <4>1. i \in Positions(f)
        BY <1>0
      <4> QED  BY <3>1, <4>1, StepLooksAhead
    <3> QED  BY <3>2, <3>3
  <2>3. Right(h, m)
    <3> HIDE DEF h
    <3> QED  BY <2>2
  <2> HIDE DEF h, Right
  <2> QED  BY <2>3
<1> HIDE DEF S
<1>2. \A m \in Nat : m \in S
  BY <1>1, NatSetInduction
<1>3. PICK g : Right(g, Len(f))
  <2> HIDE DEF Right
  <2>1. Len(f) \in S
    BY <1>0, <1>2
  <2> QED  BY <2>1 DEF S
<1> DEFINE h == [i \in 1 .. Len(f) + 1 |-> Step(g, f, t, i)]
<1>4. \A i \in 1 .. Len(f) + 1 : g[i] = Step(g, f, t, i)
  BY <1>0, <1>3
<1>5. \A i \in 1 .. Len(f) + 1 : Step(h, f, t, i) = Step(g, f, t, i)
  <2> SUFFICES ASSUME NEW i \in 1 .. Len(f) + 1 PROVE Step(h, f, t, i) = Step(g, f, t, i)
    OBVIOUS
  <2>1. i <= Len(f) => h[i + 1] = g[i + 1]
    <3> SUFFICES ASSUME i <= Len(f) PROVE h[i + 1] = g[i + 1]
      OBVIOUS
    <3>1. i + 1 \in 1 .. Len(f) + 1
      BY <1>0
    <3> QED  BY <1>4, <3>1
  <2> HIDE DEF h
  <2> QED  BY <1>0, <2>1, StepLooksAhead
<1>6. h = [i \in 1 .. Len(f) + 1 |-> Step(h, f, t, i)]
  <2>1. h = [i \in 1 .. Len(f) + 1 |-> Step(g, f, t, i)]
    OBVIOUS
  <2> HIDE DEF h
  <2> QED  BY <1>5, <2>1
<1> HIDE DEF h
<1> QED  BY <1>6

LEMMA PlacesAre ==
  ASSUME NEW f \in Chars, NEW t, NEW i \in Positions(f)
  PROVE  Places(f, t)[i] = Step(Places(f, t), f, t, i)
<1> DEFINE p == Places(f, t)
<1>1. p = [k \in 1 .. Len(f) + 1 |-> Step(p, f, t, k)]
  BY PlacesExist, Zenon DEF Places
<1> DEFINE q == [k \in 1 .. Len(f) + 1 |-> Step(p, f, t, k)]
<1>2. q[i] = Step(p, f, t, i)
  BY DEF Positions
<1>3. p = q
  BY <1>1
<1> HIDE DEF p, q
<1>4. p[i] = Step(p, f, t, i)
  BY <1>2, <1>3, Zenon
<1> QED  BY <1>4 DEF p

LEMMA MatchedIs == ASSUME NEW f, NEW t PROVE Matched(f, t) <=> 1 \in Places(f, t)[1]
BY Zenon DEF Matched, Places, Step

\* What the recursion of Levels computes at i: the level that begins there, and
\* those behind it.
LevelAt(s, i) == SubSeq(s, i, End(s, i) - 1)
Behind(g, s, i) == IF End(s, i) > Len(s) THEN <<>> ELSE g[End(s, i) + 1]
LevelsFrom(s) == CHOOSE g : g = [i \in 1 .. Len(s) + 1 |-> <<LevelAt(s, i)>> \o Behind(g, s, i)]
Rest(s, i) == Behind(LevelsFrom(s), s, i)

LEMMA BehindLooksAhead ==
  ASSUME NEW s \in Chars, NEW i \in Positions(s), NEW g, NEW h,
         \A k \in Positions(s) : k > i => g[k] = h[k]
  PROVE  Behind(g, s, i) = Behind(h, s, i)
<1>1. Len(s) \in Nat /\ i \in Nat /\ End(s, i) \in i .. Len(s) + 1
  BY LenProperties, EndIs DEF Chars, Positions
<1>2. CASE End(s, i) > Len(s)
  BY <1>2 DEF Behind
<1>3. CASE ~ (End(s, i) > Len(s))
  <2>1. End(s, i) + 1 \in Positions(s) /\ End(s, i) + 1 > i
    BY <1>1, <1>3 DEF Positions
  <2>2. g[End(s, i) + 1] = h[End(s, i) + 1]
    BY <2>1
  <2> QED  BY <2>2, Zenon DEF Behind
<1> QED  BY <1>2, <1>3

LEMMA LevelsExist ==
  ASSUME NEW s \in Chars
  PROVE  \E g : g = [i \in 1 .. Len(s) + 1 |-> <<LevelAt(s, i)>> \o Behind(g, s, i)]
<1> DEFINE Right(g, m) == \A i \in 1 .. Len(s) + 1 :
                             Len(s) + 1 - i <= m => g[i] = <<LevelAt(s, i)>> \o Behind(g, s, i)
           S == {m \in Nat : \E g : Right(g, m)}
<1>0. Len(s) \in Nat /\ Positions(s) = 1 .. Len(s) + 1
  BY LenProperties DEF Chars, Positions
<1>1. ASSUME NEW m \in Nat, \A l \in Nat : l < m => l \in S
      PROVE  m \in S
  <2>1. PICK g : \A i \in 1 .. Len(s) + 1 :
                   Len(s) + 1 - i < m => g[i] = <<LevelAt(s, i)>> \o Behind(g, s, i)
    <3>1. CASE m = 0
      BY <3>1, <1>0
    <3>2. CASE m # 0
      <4>1. m - 1 \in Nat /\ m - 1 < m
        BY <3>2
      <4>2. PICK g : Right(g, m - 1)
        BY <1>1, <4>1
      <4>3. \A i \in 1 .. Len(s) + 1 : Len(s) + 1 - i < m => Len(s) + 1 - i <= m - 1
        BY <1>0
      <4> QED  BY <4>2, <4>3
    <3> QED  BY <3>1, <3>2
  <2> DEFINE h == [i \in 1 .. Len(s) + 1 |-> <<LevelAt(s, i)>> \o Behind(g, s, i)]
  <2>2. ASSUME NEW i \in 1 .. Len(s) + 1, Len(s) + 1 - i <= m
        PROVE  h[i] = <<LevelAt(s, i)>> \o Behind(h, s, i)
    <3>1. ASSUME NEW k \in Positions(s), k > i PROVE g[k] = h[k]
      <4>1. k \in 1 .. Len(s) + 1 /\ Len(s) + 1 - k < m
        BY <1>0, <2>2, <3>1
      <4>2. g[k] = <<LevelAt(s, k)>> \o Behind(g, s, k)
        BY <2>1, <4>1
      <4>3. h[k] = <<LevelAt(s, k)>> \o Behind(g, s, k)
        BY <4>1
      <4> QED  BY <4>2, <4>3
    <3>2. h[i] = <<LevelAt(s, i)>> \o Behind(g, s, i)
      OBVIOUS
    <3> HIDE DEF h
    <3>3. Behind(g, s, i) = Behind(h, s, i)
      <4>1. i \in Positions(s)
        BY <1>0
      <4> QED  BY <3>1, <4>1, BehindLooksAhead
    <3> QED  BY <3>2, <3>3
  <2>3. Right(h, m)
    <3> HIDE DEF h
    <3> QED  BY <2>2
  <2> HIDE DEF h, Right
  <2> QED  BY <2>3
<1> HIDE DEF S
<1>2. \A m \in Nat : m \in S
  BY <1>1, NatSetInduction
<1>3. PICK g : Right(g, Len(s))
  <2> HIDE DEF Right
  <2>1. Len(s) \in S
    BY <1>0, <1>2
  <2> QED  BY <2>1 DEF S
<1> DEFINE h == [i \in 1 .. Len(s) + 1 |-> <<LevelAt(s, i)>> \o Behind(g, s, i)]
<1>4. \A i \in 1 .. Len(s) + 1 : g[i] = <<LevelAt(s, i)>> \o Behind(g, s, i)
  BY <1>0, <1>3
<1>5. \A i \in 1 .. Len(s) + 1 : Behind(h, s, i) = Behind(g, s, i)
  <2> SUFFICES ASSUME NEW i \in 1 .. Len(s) + 1 PROVE Behind(h, s, i) = Behind(g, s, i)
    OBVIOUS
  <2>1. \A k \in Positions(s) : k > i => h[k] = g[k]
    BY <1>0, <1>4
  <2> HIDE DEF h
  <2> QED  BY <1>0, <2>1, BehindLooksAhead
<1>6. h = [i \in 1 .. Len(s) + 1 |-> <<LevelAt(s, i)>> \o Behind(h, s, i)]
  <2>1. h = [i \in 1 .. Len(s) + 1 |-> <<LevelAt(s, i)>> \o Behind(g, s, i)]
    OBVIOUS
  <2> HIDE DEF h
  <2> QED  BY <1>5, <2>1
<1> HIDE DEF h
<1> QED  BY <1>6

\* The levels from i on begin with the level at i.
Split(L, a, R) == L = <<a>> \o R

LEMMA LevelsAre ==
  ASSUME NEW s \in Chars, NEW i \in Positions(s)
  PROVE  Split(LevelsFrom(s)[i], LevelAt(s, i), Rest(s, i))
<1> DEFINE p == LevelsFrom(s)
<1>1. p = [k \in 1 .. Len(s) + 1 |-> <<LevelAt(s, k)>> \o Behind(p, s, k)]
  BY LevelsExist, Zenon DEF LevelsFrom
<1> DEFINE q == [k \in 1 .. Len(s) + 1 |-> <<LevelAt(s, k)>> \o Behind(p, s, k)]
<1>2. q[i] = <<LevelAt(s, i)>> \o Behind(p, s, i)
  BY DEF Positions
<1>3. p = q
  BY <1>1
<1> HIDE DEF p, q
<1>4. p[i] = <<LevelAt(s, i)>> \o Behind(p, s, i)
  BY <1>2, <1>3, Zenon
<1> QED  BY <1>4 DEF p, Split, Rest

LEMMA LevelsIs == ASSUME NEW s PROVE Levels(s) = LevelsFrom(s)[1]
BY Zenon DEF Levels, LevelsFrom, LevelAt, Behind, End

-----------------------------------------------------------------------------
(* The level at a place, and the rest *)

LEMMA LevelType ==
  ASSUME NEW s \in Chars, NEW i \in Positions(s)
  PROVE  LevelAt(s, i) \in Chars
<1>1. Len(s) \in Nat /\ i \in Nat /\ i >= 1 /\ End(s, i) \in i .. Len(s) + 1
  BY LenProperties, EndIs DEF Chars, Positions
<1>2. \A k \in i .. End(s, i) - 1 : s[k] \in STRING
  BY <1>1, ElementOfSeq DEF Chars
<1>3. i \in Int /\ End(s, i) - 1 \in Int
  BY <1>1
<1> QED  BY <1>2, <1>3, SubSeqProperties DEF LevelAt, Chars

LEMMA LevelsType ==
  ASSUME NEW s \in Chars
  PROVE  \A i \in Positions(s) : LevelsFrom(s)[i] \in Seq(Chars) /\ LevelsFrom(s)[i] # <<>>
<1> DEFINE OK(i) == LevelsFrom(s)[i] \in Seq(Chars) /\ LevelsFrom(s)[i] # <<>>
           S == {m \in Nat : \A i \in Positions(s) : Len(s) + 1 - i = m => OK(i)}
<1>0. Len(s) \in Nat /\ \A i \in Positions(s) : i \in Nat /\ i <= Len(s) + 1
  BY LenProperties DEF Chars, Positions
<1>1. ASSUME NEW m \in Nat, \A l \in Nat : l < m => l \in S
      PROVE  m \in S
  <2>1. ASSUME NEW i \in Positions(s), Len(s) + 1 - i = m PROVE OK(i)
    <3>1. Rest(s, i) \in Seq(Chars)
      <4>1. CASE End(s, i) > Len(s)
        BY <4>1 DEF Rest, Behind
      <4>2. CASE ~ (End(s, i) > Len(s))
        <5> DEFINE k == End(s, i) + 1
        <5>1. k \in Positions(s) /\ Len(s) + 1 - k \in Nat /\ Len(s) + 1 - k < m
          BY <1>0, <2>1, <4>2, EndIs DEF Positions
        <5> HIDE DEF k
        <5>2. OK(k)
          BY <1>1, <5>1
        <5> QED  BY <4>2, <5>2 DEF Rest, Behind, k
      <4> QED  BY <4>1, <4>2
    <3>2. <<LevelAt(s, i)>> \in Seq(Chars) /\ Len(<<LevelAt(s, i)>>) = 1
      BY LevelType
    <3>3. LevelsFrom(s)[i] = <<LevelAt(s, i)>> \o Rest(s, i)
      BY LevelsAre DEF Split
    <3>4. LevelsFrom(s)[i] \in Seq(Chars) /\ Len(LevelsFrom(s)[i]) = 1 + Len(Rest(s, i))
      BY <3>1, <3>2, <3>3, ConcatProperties
    <3>5. Len(Rest(s, i)) \in Nat
      BY <3>1, LenProperties
    <3>6. 1 + Len(Rest(s, i)) # 0
      BY <3>5
    <3>7. Len(<<>>) = 0
      OBVIOUS
    <3> QED  BY <3>4, <3>6, <3>7, Zenon
  <2> HIDE DEF OK
  <2> QED  BY <2>1
<1> HIDE DEF S, OK
<1>2. \A m \in Nat : m \in S
  BY <1>1, NatSetInduction
<1>3. ASSUME NEW i \in Positions(s) PROVE OK(i)
  <2>1. Len(s) + 1 - i \in Nat
    BY <1>0
  <2> QED  BY <1>2, <2>1 DEF S
<1> QED  BY <1>3 DEF OK

LEMMA RestType ==
  ASSUME NEW s \in Chars, NEW i \in Positions(s)
  PROVE  /\ Rest(s, i) \in Seq(Chars)
         /\ End(s, i) > Len(s) => Rest(s, i) = <<>>
         /\ End(s, i) <= Len(s) => /\ Rest(s, i) = LevelsFrom(s)[End(s, i) + 1]
                                   /\ Rest(s, i) # <<>>
<1>0. Len(s) \in Nat /\ i \in Nat /\ i <= Len(s) + 1 /\ End(s, i) \in i .. Len(s) + 1 /\ i >= 1
  BY LenProperties, EndIs DEF Chars, Positions
<1>1. CASE End(s, i) > Len(s)
  BY <1>0, <1>1 DEF Rest, Behind
<1>2. CASE ~ (End(s, i) > Len(s))
  <2>1. End(s, i) + 1 \in Positions(s)
    BY <1>0, <1>2 DEF Positions
  <2>2. Rest(s, i) = LevelsFrom(s)[End(s, i) + 1]
    BY <1>2, Zenon DEF Rest, Behind
  <2> QED  BY <1>2, <2>1, <2>2, LevelsType
<1> QED  BY <1>1, <1>2

\* At the end, at a slash, at the end of a level, and inside a level.
LEMMA AtEnd ==
  ASSUME NEW s \in Chars
  PROVE  LevelAt(s, Len(s) + 1) = <<>> /\ Rest(s, Len(s) + 1) = <<>>
<1>1. Len(s) \in Nat /\ Len(s) + 1 \in Positions(s)
  BY LenProperties DEF Chars, Positions
<1>2. End(s, Len(s) + 1) = Len(s) + 1
  BY <1>1, EndIs
<1>3. Len(s) + 1 \in Int /\ (Len(s) + 1) - 1 \in Int /\ (Len(s) + 1) - 1 < Len(s) + 1
  BY <1>1
<1>4. SubSeq(s, Len(s) + 1, (Len(s) + 1) - 1) = <<>>
  BY <1>3, SubSeqEmpty
<1> QED  BY <1>1, <1>2, <1>4, RestType DEF LevelAt

LEMMA AtSlash ==
  ASSUME NEW s \in Chars, NEW i \in 1 .. Len(s), s[i] = "/"
  PROVE  /\ LevelAt(s, i) = <<>>
         /\ Rest(s, i) = LevelsFrom(s)[i + 1] /\ Rest(s, i) # <<>> /\ i + 1 \in Positions(s)
<1>1. Len(s) \in Nat /\ i \in Positions(s) /\ i + 1 \in Positions(s)
  BY LenProperties DEF Chars, Positions
<1>2. End(s, i) = i
  BY <1>1, EndIs
<1>3. i \in Int /\ i - 1 \in Int /\ i - 1 < i
  OBVIOUS
<1>4. SubSeq(s, i, i - 1) = <<>>
  BY <1>3, SubSeqEmpty
<1> QED  BY <1>1, <1>2, <1>4, RestType DEF LevelAt

LEMMA AtLevelEnd ==
  ASSUME NEW s \in Chars, NEW i \in Positions(s)
  PROVE  /\ End(s, i) \in Positions(s)
         /\ LevelAt(s, End(s, i)) = <<>> /\ Rest(s, End(s, i)) = Rest(s, i)
<1>1. Len(s) \in Nat /\ i \in Nat /\ i >= 1
  BY LenProperties DEF Chars, Positions
<1> DEFINE e == End(s, i)
<1>2. e \in Positions(s) /\ e \in Nat /\ End(s, e) = e
  BY <1>1, EndIs DEF Positions
<1> HIDE DEF e
<1>3. e \in Int /\ e - 1 \in Int /\ e - 1 < e
  BY <1>2
<1>4. SubSeq(s, e, e - 1) = <<>>
  BY <1>3, SubSeqEmpty
<1>5. Rest(s, e) = Rest(s, i)
  BY <1>2, Zenon DEF Rest, Behind, e
<1> QED  BY <1>2, <1>4, <1>5 DEF LevelAt, e

Longer(a, c, b) == a = <<c>> \o b

LEMMA InLevel ==
  ASSUME NEW s \in Chars, NEW i \in 1 .. Len(s), s[i] # "/"
  PROVE  /\ i \in Positions(s) /\ i + 1 \in Positions(s) /\ s[i] \in STRING
         /\ Longer(LevelAt(s, i), s[i], LevelAt(s, i + 1)) /\ LevelAt(s, i) # <<>>
         /\ Rest(s, i) = Rest(s, i + 1)
<1>1. Len(s) \in Nat /\ i \in Positions(s) /\ i + 1 \in Positions(s) /\ s[i] \in STRING
  BY LenProperties, ElementOfSeq DEF Chars, Positions
<1> DEFINE e == End(s, i + 1)
<1>2. End(s, i) = e
  BY <1>1, EndIs
<1>3. e \in i + 1 .. Len(s) + 1
  BY <1>1, EndIs
<1> HIDE DEF e
<1>4. e - 1 \in i .. Len(s)
  BY <1>1, <1>3
<1>5. SubSeq(s, i, e - 1) = <<s[i]>> \o SubSeq(s, i + 1, e - 1)
  BY <1>4, SubSeqRecursiveFirst DEF Chars
<1>6. Longer(LevelAt(s, i), s[i], LevelAt(s, i + 1))
  BY <1>2, <1>5, Zenon DEF Longer, LevelAt, e
<1>7. Rest(s, i) = Rest(s, i + 1)
  BY <1>2, Zenon DEF Rest, Behind, e
<1>8. LevelAt(s, i) # <<>>
  <2>1. LevelAt(s, i + 1) \in Seq(STRING) /\ <<s[i]>> \in Seq(STRING)
    BY <1>1, LevelType DEF Chars
  <2>2. Len(<<s[i]>>) = 1 /\ Len(LevelAt(s, i + 1)) \in Nat
    BY <2>1, LenProperties
  <2>3. Len(LevelAt(s, i)) = 1 + Len(LevelAt(s, i + 1))
    BY <1>6, <2>1, <2>2, ConcatProperties DEF Longer
  <2>4. 1 + Len(LevelAt(s, i + 1)) # 0
    BY <2>2
  <2>5. Len(<<>>) = 0
    OBVIOUS
  <2> QED  BY <2>3, <2>4, <2>5, Zenon
<1> QED  BY <1>1, <1>6, <1>7, <1>8

-----------------------------------------------------------------------------
(* The rules and their exceptions, from the first level to the last *)

Plus == <<"+">>
Hash == <<"#">>

\* A level of a filter and one of a name.
Fit(a, b, last) == \/ a = b
                   \/ a = Plus /\ b # <<>>
                   \/ a = Hash /\ last /\ b # <<>>

Goes(F, T) == /\ Len(T) >= Len(F)
              /\ F[Len(F)] # Hash => Len(T) = Len(F)
              /\ \A k \in 1 .. Len(F) : Fit(F[k], T[k], k = Len(F))

LEMMA Wildcards == Plus # Hash /\ Plus # <<>> /\ Hash # <<>>
<1>1. "+" # "#"
  OBVIOUS
<1>2. <<"+">>[1] = "+" /\ <<"#">>[1] = "#"
  OBVIOUS
<1>3. <<"+">> # <<"#">>
  BY <1>1, <1>2
<1>4. <<"+">> # <<>> /\ <<"#">> # <<>>
  OBVIOUS
<1> QED  BY <1>3, <1>4 DEF Plus, Hash

\* ByTheRules and Missed, of the levels.
Open(F) == F[Len(F)] = Hash
Fixed(F) == IF Open(F) THEN Len(F) - 1 ELSE Len(F)
RulesHold(F, T) == /\ IF Open(F) THEN Len(T) >= Fixed(F) ELSE Len(T) = Fixed(F)
                   /\ \A k \in 1 .. Fixed(F) : F[k] \in {Plus, T[k]}
GivenUp(F, T) == \E k \in DOMAIN F : /\ F[k] \in {Plus, Hash}
                                     /\ k > Len(T) \/ T[k] = <<>>

LEMMA RulesOfLevels ==
  ASSUME NEW f, NEW t
  PROVE  /\ ByTheRules(f, t) <=> RulesHold(Levels(f), Levels(t))
         /\ Missed(f, t) <=> GivenUp(Levels(f), Levels(t))
BY Zenon DEF ByTheRules, Missed, RulesHold, GivenUp, Open, Fixed, Last, Plus, Hash

LEMMA RulesGo ==
  ASSUME NEW F \in Seq(Chars), NEW T \in Seq(Chars), F # <<>>, RulesHold(F, T), ~ GivenUp(F, T)
  PROVE  Goes(F, T)
<1>0. DOMAIN F = 1 .. Len(F)
  BY LenProperties
<1>1. Len(F) \in Nat \ {0} /\ Len(T) \in Nat
  BY EmptySeq, LenProperties
<1>2. /\ Open(F) => Fixed(F) = Len(F) - 1 /\ Len(T) >= Len(F) - 1
      /\ ~ Open(F) => Fixed(F) = Len(F) /\ Len(T) = Len(F)
      /\ \A k \in 1 .. Fixed(F) : F[k] \in {Plus, T[k]}
  BY DEF RulesHold, Fixed
<1>3. \A k \in 1 .. Len(F) : F[k] \in {Plus, Hash} => ~ (k > Len(T)) /\ T[k] # <<>>
  BY <1>0 DEF GivenUp
<1>4. Len(T) >= Len(F) /\ (~ Open(F) => Len(T) = Len(F))
  <2>1. CASE Open(F)
    <3>1. Len(F) \in 1 .. Len(F) /\ F[Len(F)] \in {Plus, Hash}
      BY <1>1, <2>1 DEF Open
    <3>2. ~ (Len(F) > Len(T))
      BY <1>3, <3>1
    <3> QED  BY <1>1, <3>2, <2>1
  <2>2. CASE ~ Open(F)
    BY <1>1, <1>2, <2>2
  <2> QED  BY <2>1, <2>2
<1>5. ASSUME NEW k \in 1 .. Len(F) PROVE Fit(F[k], T[k], k = Len(F))
  <2>1. CASE Open(F) /\ k = Len(F)
    <3>1. F[k] = Hash
      BY <2>1 DEF Open
    <3>2. T[k] # <<>>
      BY <1>3, <3>1
    <3> QED  BY <2>1, <3>1, <3>2 DEF Fit
  <2>2. CASE ~ (Open(F) /\ k = Len(F))
    <3>1. k \in 1 .. Fixed(F)
      <4>1. CASE Open(F)
        <5>1. Fixed(F) = Len(F) - 1 /\ k # Len(F)
          BY <1>2, <2>2, <4>1
        <5> QED  BY <1>1, <5>1
      <4>2. CASE ~ Open(F)
        <5>1. Fixed(F) = Len(F)
          BY <1>2, <4>2
        <5> QED  BY <1>1, <5>1
      <4> QED  BY <4>1, <4>2
    <3>2. F[k] \in {Plus, T[k]}
      BY <1>2, <3>1
    <3>3. F[k] = Plus => T[k] # <<>>
      BY <1>3
    <3> QED  BY <3>2, <3>3 DEF Fit
  <2> QED  BY <2>1, <2>2
<1> QED  BY <1>4, <1>5 DEF Goes, Open

LEMMA GoesByRules ==
  ASSUME NEW F \in Seq(Chars), NEW T \in Seq(Chars), F # <<>>, Goes(F, T)
  PROVE  RulesHold(F, T) /\ ~ GivenUp(F, T)
<1>0. DOMAIN F = 1 .. Len(F)
  BY LenProperties
<1>1. Len(F) \in Nat \ {0} /\ Len(T) \in Nat
  BY EmptySeq, LenProperties
<1>2. /\ Len(T) >= Len(F) /\ (~ Open(F) => Len(T) = Len(F))
      /\ \A k \in 1 .. Len(F) : Fit(F[k], T[k], k = Len(F))
  BY DEF Goes, Open
<1>3. ~ GivenUp(F, T)
  <2> SUFFICES ASSUME NEW k \in 1 .. Len(F), F[k] \in {Plus, Hash},
                      k > Len(T) \/ T[k] = <<>>
               PROVE  FALSE
    BY <1>0 DEF GivenUp
  <2>1. Fit(F[k], T[k], k = Len(F)) /\ Len(T) >= Len(F)
    BY <1>2
  <2>2. k <= Len(F)
    BY <1>1
  <2>3. ~ (k > Len(T))
    <3> HIDE DEF Fit
    <3> QED  BY <1>1, <2>1, <2>2
  <2>4. T[k] = <<>>
    BY <2>3
  <2> QED  BY <2>1, <2>4, Wildcards DEF Fit
<1>4. (Open(F) => Fixed(F) = Len(F) - 1) /\ (~ Open(F) => Fixed(F) = Len(F))
  BY DEF Fixed
<1>5. ASSUME NEW k \in 1 .. Fixed(F) PROVE F[k] \in {Plus, T[k]}
  <2>1. k \in 1 .. Len(F) /\ (k = Len(F) => ~ Open(F))
    <3>1. CASE Open(F)
      <4>1. Fixed(F) = Len(F) - 1
        BY <1>4, <3>1
      <4> QED  BY <1>1, <4>1
    <3>2. CASE ~ Open(F)
      <4>1. Fixed(F) = Len(F)
        BY <1>4, <3>2
      <4> QED  BY <1>1, <3>2, <4>1
    <3> QED  BY <3>1, <3>2
  <2>2. k = Len(F) => F[k] # Hash
    BY <2>1 DEF Open
  <2>3. Fit(F[k], T[k], k = Len(F))
    BY <1>2, <2>1
  <2> QED  BY <2>2, <2>3 DEF Fit
<1>6. IF Open(F) THEN Len(T) >= Fixed(F) ELSE Len(T) = Fixed(F)
  <2>1. CASE Open(F)
    <3>1. Fixed(F) = Len(F) - 1 /\ Len(T) >= Len(F)
      BY <1>2, <1>4, <2>1
    <3>2. Len(T) >= Fixed(F)
      BY <1>1, <3>1
    <3> QED  BY <2>1, <3>2
  <2>2. CASE ~ Open(F)
    <3>1. Fixed(F) = Len(F) /\ Len(T) = Len(F)
      BY <1>2, <1>4, <2>2
    <3> QED  BY <2>2, <3>1
  <2> QED  BY <2>1, <2>2
<1> QED  BY <1>3, <1>5, <1>6 DEF RulesHold

LEMMA GoesIsByTheRules ==
  ASSUME NEW f, NEW t, Levels(f) \in Seq(Chars), Levels(t) \in Seq(Chars), Levels(f) # <<>>
  PROVE  ByTheRules(f, t) /\ ~ Missed(f, t) <=> Goes(Levels(f), Levels(t))
<1>1. RulesHold(Levels(f), Levels(t)) /\ ~ GivenUp(Levels(f), Levels(t))
        <=> Goes(Levels(f), Levels(t))
  BY RulesGo, GoesByRules
<1> QED  BY <1>1, RulesOfLevels

LEMMA OnSplit ==
  ASSUME NEW a \in Chars, NEW R \in Seq(Chars), NEW F, Split(F, a, R)
  PROVE  /\ Len(F) = Len(R) + 1 /\ Len(R) \in Nat /\ (R = <<>> <=> Len(R) = 0)
         /\ F[1] = a /\ \A k \in 1 .. Len(R) : F[k + 1] = R[k]
<1>1. <<a>> \in Seq(Chars) /\ Len(<<a>>) = 1 /\ <<a>>[1] = a
  OBVIOUS
<1>2. Len(R) \in Nat /\ (R = <<>> <=> Len(R) = 0)
  BY LenProperties, EmptySeq
<1>3. F = <<a>> \o R
  BY DEF Split
<1>4. /\ Len(F) = Len(<<a>>) + Len(R)
      /\ \A k \in 1 .. Len(<<a>>) + Len(R) :
           F[k] = IF k <= Len(<<a>>) THEN <<a>>[k] ELSE R[k - Len(<<a>>)]
  BY <1>1, <1>3, ConcatProperties
<1>5. F[1] = a
  BY <1>1, <1>2, <1>4
<1>6. \A k \in 1 .. Len(R) : F[k + 1] = R[k]
  <2> TAKE k \in 1 .. Len(R)
  <2>1. k + 1 \in 1 .. Len(<<a>>) + Len(R) /\ ~ (k + 1 <= Len(<<a>>)) /\ (k + 1) - Len(<<a>>) = k
    BY <1>1, <1>2
  <2> QED  BY <1>4, <2>1
<1> QED  BY <1>1, <1>2, <1>4, <1>5, <1>6

LEMMA GoesOn ==
  ASSUME NEW a \in Chars, NEW R \in Seq(Chars), NEW F, Split(F, a, R),
         NEW b \in Chars, NEW Q \in Seq(Chars), NEW T, Split(T, b, Q)
  PROVE  Goes(F, T) <=> /\ Fit(a, b, R = <<>>)
                        /\ R = <<>> /\ a # Hash => Q = <<>>
                        /\ R # <<>> => Q # <<>> /\ Goes(R, Q)
<1>1. /\ Len(F) = Len(R) + 1 /\ Len(R) \in Nat /\ (R = <<>> <=> Len(R) = 0)
      /\ F[1] = a /\ \A k \in 1 .. Len(R) : F[k + 1] = R[k]
  BY OnSplit
<1>2. /\ Len(T) = Len(Q) + 1 /\ Len(Q) \in Nat /\ (Q = <<>> <=> Len(Q) = 0)
      /\ T[1] = b /\ \A k \in 1 .. Len(Q) : T[k + 1] = Q[k]
  BY OnSplit
<1>3. CASE R = <<>>
  <2>1. Len(F) = 1 /\ F[Len(F)] = a
    BY <1>1, <1>3
  <2>2. (1 = Len(F)) <=> (R = <<>>)
    BY <2>1, <1>3
  <2>3. Fit(F[1], T[1], 1 = Len(F)) <=> Fit(a, b, R = <<>>)
    BY <1>1, <1>2, <2>2 DEF Fit
  <2>4. (\A k \in 1 .. Len(F) : Fit(F[k], T[k], k = Len(F))) <=> Fit(F[1], T[1], 1 = Len(F))
    <3>1. 1 .. Len(F) = {1}
      BY <2>1
    <3> QED  BY <3>1
  <2>5. Len(T) >= Len(F) /\ (Len(T) = Len(F) <=> Q = <<>>)
    BY <1>2, <2>1
  <2>6. Goes(F, T) <=> Fit(a, b, R = <<>>) /\ (a # Hash => Q = <<>>)
    BY <2>1, <2>3, <2>4, <2>5 DEF Goes
  <2> QED  BY <2>6, <1>3
<1>4. CASE R # <<>>
  <2>1. Len(F) > 1 /\ F[Len(F)] = R[Len(R)]
    <3>1. Len(R) \in 1 .. Len(R) /\ Len(R) + 1 = Len(F)
      BY <1>1, <1>4
    <3> QED  BY <3>1, <1>1
  <2>2. ASSUME Goes(F, T)
        PROVE  Fit(a, b, R = <<>>) /\ Q # <<>> /\ Goes(R, Q)
    <3>1. /\ Len(T) >= Len(F) /\ (F[Len(F)] # Hash => Len(T) = Len(F))
          /\ \A k \in 1 .. Len(F) : Fit(F[k], T[k], k = Len(F))
      BY <2>2 DEF Goes
    <3>2. Q # <<>> /\ Len(Q) >= Len(R) /\ (R[Len(R)] # Hash => Len(Q) = Len(R))
      BY <1>1, <1>2, <2>1, <3>1
    <3>3. Fit(a, b, R = <<>>)
      <4>1. 1 \in 1 .. Len(F) /\ ~ (1 = Len(F)) /\ ~ (R = <<>>)
        BY <1>1, <1>4, <2>1
      <4>2. Fit(F[1], T[1], 1 = Len(F))
        BY <3>1, <4>1
      <4> QED  BY <1>1, <1>2, <4>1, <4>2 DEF Fit
    <3>4. ASSUME NEW k \in 1 .. Len(R) PROVE Fit(R[k], Q[k], k = Len(R))
      <4>1. k + 1 \in 1 .. Len(F) /\ k \in 1 .. Len(Q) /\ (k + 1 = Len(F) <=> k = Len(R))
        BY <1>1, <1>2, <3>2
      <4>2. Fit(F[k + 1], T[k + 1], k + 1 = Len(F))
        BY <3>1, <4>1
      <4>3. F[k + 1] = R[k] /\ T[k + 1] = Q[k]
        BY <1>1, <1>2, <4>1
      <4> QED  BY <4>1, <4>2, <4>3 DEF Fit
    <3> QED  BY <3>2, <3>3, <3>4 DEF Goes
  <2>3. ASSUME Fit(a, b, R = <<>>), Goes(R, Q)
        PROVE  Goes(F, T)
    <3>1. /\ Len(Q) >= Len(R) /\ (R[Len(R)] # Hash => Len(Q) = Len(R))
          /\ \A k \in 1 .. Len(R) : Fit(R[k], Q[k], k = Len(R))
      BY <2>3 DEF Goes
    <3>2. Len(T) >= Len(F) /\ (F[Len(F)] # Hash => Len(T) = Len(F))
      BY <1>1, <1>2, <2>1, <3>1
    <3>3. ASSUME NEW k \in 1 .. Len(F) PROVE Fit(F[k], T[k], k = Len(F))
      <4>1. CASE k = 1
        BY <1>1, <1>2, <1>4, <2>1, <2>3, <4>1 DEF Fit
      <4>2. CASE k # 1
        <5>1. k - 1 \in 1 .. Len(R) /\ k - 1 \in 1 .. Len(Q) /\ (k - 1 = Len(R) <=> k = Len(F))
              /\ (k - 1) + 1 = k
          BY <1>1, <1>2, <3>1, <4>2
        <5>2. Fit(R[k - 1], Q[k - 1], k - 1 = Len(R))
          BY <3>1, <5>1
        <5>3. F[k] = R[k - 1] /\ T[k] = Q[k - 1]
          BY <1>1, <1>2, <5>1
        <5> QED  BY <5>1, <5>2, <5>3 DEF Fit
      <4> QED  BY <4>1, <4>2
    <3> QED  BY <3>2, <3>3 DEF Goes
  <2> QED  BY <1>4, <2>2, <2>3
<1> QED  BY <1>3, <1>4

-----------------------------------------------------------------------------
(* The client's comparison, place by place, is the rules with their exceptions *)

LEMMA LongerIs ==
  ASSUME NEW S, NEW c \in S, NEW b \in Seq(S), NEW a, Longer(a, c, b)
  PROVE  /\ a \in Seq(S) /\ Len(a) = Len(b) + 1 /\ Len(b) \in Nat /\ a # <<>> /\ a[1] = c
         /\ \A k \in 1 .. Len(b) : a[k + 1] = b[k]
<1>1. <<c>> \in Seq(S) /\ Len(<<c>>) = 1 /\ <<c>>[1] = c
  OBVIOUS
<1>2. Len(b) \in Nat
  BY LenProperties
<1>3. /\ a \in Seq(S) /\ Len(a) = Len(<<c>>) + Len(b)
      /\ \A k \in 1 .. Len(<<c>>) + Len(b) :
           a[k] = IF k <= Len(<<c>>) THEN <<c>>[k] ELSE b[k - Len(<<c>>)]
  BY <1>1, ConcatProperties DEF Longer
<1>4. a[1] = c
  BY <1>1, <1>2, <1>3
<1>5. \A k \in 1 .. Len(b) : a[k + 1] = b[k]
  <2> TAKE k \in 1 .. Len(b)
  <2>1. k + 1 \in 1 .. Len(<<c>>) + Len(b) /\ ~ (k + 1 <= Len(<<c>>)) /\ (k + 1) - Len(<<c>>) = k
    BY <1>1, <1>2
  <2> QED  BY <1>3, <2>1
<1>6. a # <<>>
  <2>1. Len(b) + 1 # 0 /\ Len(a) = Len(b) + 1
    BY <1>1, <1>2, <1>3
  <2>2. Len(<<>>) = 0
    OBVIOUS
  <2> QED  BY <2>1, <2>2, Zenon
<1> QED  BY <1>1, <1>2, <1>3, <1>4, <1>5, <1>6

LEMMA SameLonger ==
  ASSUME NEW S, NEW c \in S, NEW d \in S, NEW a \in Seq(S), NEW b \in Seq(S),
         NEW x, Longer(x, c, a), NEW y, Longer(y, d, b)
  PROVE  x = y <=> c = d /\ a = b
<1>1. /\ x \in Seq(S) /\ Len(x) = Len(a) + 1 /\ Len(a) \in Nat /\ x[1] = c
      /\ \A k \in 1 .. Len(a) : x[k + 1] = a[k]
  BY LongerIs
<1>2. /\ y \in Seq(S) /\ Len(y) = Len(b) + 1 /\ Len(b) \in Nat /\ y[1] = d
      /\ \A k \in 1 .. Len(b) : y[k + 1] = b[k]
  BY LongerIs
<1>3. ASSUME x = y PROVE c = d /\ a = b
  <2>1. c = d /\ Len(a) = Len(b)
    BY <1>1, <1>2, <1>3
  <2>2. \A k \in 1 .. Len(a) : a[k] = b[k]
    BY <1>1, <1>2, <1>3, <2>1
  <2> QED  BY <2>1, <2>2, SeqEqual
<1>4. c = d /\ a = b => x = y
  BY DEF Longer
<1> QED  BY <1>3, <1>4

\* What the client finds from i and j on, and what the rules say.
Agreed(f, t, i, j) == j \in Places(f, t)[i] <=> Goes(LevelsFrom(f)[i], LevelsFrom(t)[j])

LEMMA GoesAt ==
  ASSUME NEW f \in Chars, NEW t \in Chars, NEW i \in Positions(f), NEW j \in Positions(t)
  PROVE  Goes(LevelsFrom(f)[i], LevelsFrom(t)[j]) <=>
           /\ Fit(LevelAt(f, i), LevelAt(t, j), Rest(f, i) = <<>>)
           /\ Rest(f, i) = <<>> /\ LevelAt(f, i) # Hash => Rest(t, j) = <<>>
           /\ Rest(f, i) # <<>> => Rest(t, j) # <<>> /\ Goes(Rest(f, i), Rest(t, j))
<1>1. Split(LevelsFrom(f)[i], LevelAt(f, i), Rest(f, i))
  BY LevelsAre
<1>2. Split(LevelsFrom(t)[j], LevelAt(t, j), Rest(t, j))
  BY LevelsAre
<1>3. /\ LevelAt(f, i) \in Chars /\ Rest(f, i) \in Seq(Chars)
      /\ LevelAt(t, j) \in Chars /\ Rest(t, j) \in Seq(Chars)
  BY LevelType, RestType
<1> QED  BY <1>1, <1>2, <1>3, GoesOn

LEMMA AtOrIn ==
  ASSUME NEW s \in Chars, NEW j \in Positions(s)
  PROVE  /\ LevelAt(s, j) = <<>> <=> j = Len(s) + 1 \/ s[j] = "/"
         /\ LevelAt(s, j) = <<>> /\ Rest(s, j) = <<>> <=> j = Len(s) + 1
<1>1. CASE j = Len(s) + 1
  BY <1>1, AtEnd
<1>2. CASE j # Len(s) + 1
  <2>1. j \in 1 .. Len(s)
    <3>1. Len(s) \in Nat
      BY LenProperties DEF Chars
    <3> QED  BY <1>2, <3>1 DEF Positions
  <2>2. CASE s[j] = "/"
    BY <1>2, <2>1, <2>2, AtSlash
  <2>3. CASE s[j] # "/"
    BY <1>2, <2>1, <2>3, InLevel
  <2> QED  BY <2>2, <2>3
<1> QED  BY <1>1, <1>2

LEMMA AgreedAtEnd ==
  ASSUME NEW f \in Chars, NEW t \in Chars, NEW j \in Positions(t)
  PROVE  Agreed(f, t, Len(f) + 1, j)
<1>1. Len(f) \in Nat /\ Len(f) + 1 \in Positions(f) /\ Len(f) + 1 > Len(f)
  BY LenProperties DEF Chars, Positions
<1>2. Places(f, t)[Len(f) + 1] = {Len(t) + 1}
  BY <1>1, PlacesAre DEF Step
<1>3. LevelAt(f, Len(f) + 1) = <<>> /\ Rest(f, Len(f) + 1) = <<>>
  BY AtEnd
<1>4. Fit(LevelAt(f, Len(f) + 1), LevelAt(t, j), Rest(f, Len(f) + 1) = <<>>)
        <=> LevelAt(t, j) = <<>>
  BY <1>3, Wildcards DEF Fit
<1>5. Goes(LevelsFrom(f)[Len(f) + 1], LevelsFrom(t)[j])
        <=> LevelAt(t, j) = <<>> /\ Rest(t, j) = <<>>
  BY <1>1, <1>3, <1>4, GoesAt, Wildcards
<1> QED  BY <1>2, <1>5, AtOrIn DEF Agreed

\* One step of the comparison.
LEMMA PlacesStep ==
  ASSUME NEW f \in Chars, NEW t \in Chars, NEW i \in 1 .. Len(f), NEW j \in Positions(t)
  PROVE  j \in Places(f, t)[i] <=>
           /\ j # Len(t) + 1
           /\ t[j] = "/" => f[i] = "/"
           /\ \/ f[i] = "+" /\ LevelEnd(t, j) \in Places(f, t)[i + 1]
              \/ f[i] = "#" /\ Len(t) + 1 \in Places(f, t)[i + 1]
              \/ f[i] \notin {"+", "#"} /\ f[i] = t[j] /\ j + 1 \in Places(f, t)[i + 1]
<1>1. i \in Positions(f) /\ ~ (i > Len(f)) /\ Len(t) \in Nat
  BY LenProperties DEF Chars, Positions
<1>2. Places(f, t)[i] = Step(Places(f, t), f, t, i)
  BY <1>1, PlacesAre
<1>3. j \in 1 .. Len(t) <=> j # Len(t) + 1
  BY <1>1 DEF Positions
<1>4. Step(Places(f, t), f, t, i) =
        {k \in 1 .. Len(t) :
          /\ t[k] = "/" => f[i] = "/"
          /\ \/ f[i] = "+" /\ LevelEnd(t, k) \in Places(f, t)[i + 1]
             \/ f[i] = "#" /\ Len(t) + 1 \in Places(f, t)[i + 1]
             \/ f[i] \notin {"+", "#"} /\ f[i] = t[k] /\ k + 1 \in Places(f, t)[i + 1]}
  BY <1>1, Zenon DEF Step
<1> QED  BY <1>2, <1>3, <1>4, Zenon

LEMMA AgreedAtSlash ==
  ASSUME NEW f \in Chars, NEW t \in Chars, NEW i \in 1 .. Len(f), NEW j \in Positions(t),
         f[i] = "/", \A k \in Positions(t) : Agreed(f, t, i + 1, k)
  PROVE  Agreed(f, t, i, j)
<1>1. /\ LevelAt(f, i) = <<>> /\ Rest(f, i) = LevelsFrom(f)[i + 1] /\ Rest(f, i) # <<>>
      /\ i \in Positions(f)
  BY AtSlash DEF Positions
<1>2. Goes(LevelsFrom(f)[i], LevelsFrom(t)[j]) <=>
        LevelAt(t, j) = <<>> /\ Rest(t, j) # <<>> /\ Goes(LevelsFrom(f)[i + 1], Rest(t, j))
  <2>1. Fit(LevelAt(f, i), LevelAt(t, j), Rest(f, i) = <<>>) <=> LevelAt(t, j) = <<>>
    BY <1>1, Wildcards DEF Fit
  <2> QED  BY <1>1, <2>1, GoesAt
<1>3. j \in Places(f, t)[i] <=> j # Len(t) + 1 /\ t[j] = "/" /\ j + 1 \in Places(f, t)[i + 1]
  <2>1. "/" # "+" /\ "/" # "#"
    OBVIOUS
  <2> QED  BY <2>1, PlacesStep
<1>4. CASE j # Len(t) + 1 /\ t[j] = "/"
  <2>1. j \in 1 .. Len(t)
    <3>1. Len(t) \in Nat
      BY LenProperties DEF Chars
    <3> QED  BY <1>4, <3>1 DEF Positions
  <2>2. /\ LevelAt(t, j) = <<>> /\ Rest(t, j) = LevelsFrom(t)[j + 1] /\ Rest(t, j) # <<>>
        /\ j + 1 \in Positions(t)
    BY <1>4, <2>1, AtSlash
  <2>3. Agreed(f, t, i + 1, j + 1)
    BY <2>2
  <2> QED  BY <1>2, <1>3, <1>4, <2>2, <2>3 DEF Agreed
<1>5. CASE ~ (j # Len(t) + 1 /\ t[j] = "/")
  <2>1. LevelAt(t, j) = <<>> /\ Rest(t, j) # <<>> => FALSE
    BY <1>5, AtOrIn
  <2> QED  BY <1>2, <1>3, <1>5, <2>1 DEF Agreed
<1> QED  BY <1>4, <1>5

\* A filter that is well formed at i, read on.
LEMMA Unwild ==
  ASSUME NEW f \in Chars, WellFormed(f), NEW i \in 1 .. Len(f), f[i] # "/", f[i] \notin {"+", "#"}
  PROVE  LevelAt(f, i) \notin {Plus, Hash} /\ LevelAt(f, i + 1) \notin {Plus, Hash}
<1>1. /\ i + 1 \in Positions(f) /\ f[i] \in STRING
      /\ Longer(LevelAt(f, i), f[i], LevelAt(f, i + 1)) /\ LevelAt(f, i + 1) \in Seq(STRING)
  BY InLevel, LevelType DEF Chars
<1>2. LevelAt(f, i)[1] = f[i]
  BY <1>1, LongerIs
<1>3. LevelAt(f, i) \notin {Plus, Hash}
  BY <1>2 DEF Plus, Hash
<1>4. LevelAt(f, i + 1) \notin {Plus, Hash}
  <2>1. CASE LevelAt(f, i + 1) = <<>>
    BY <2>1, Wildcards
  <2>2. CASE LevelAt(f, i + 1) # <<>>
    <3>1. i + 1 \in 1 .. Len(f) /\ f[i + 1] # "/" /\ DOMAIN f = 1 .. Len(f)
      <4>1. Len(f) \in Nat /\ DOMAIN f = 1 .. Len(f)
        BY LenProperties DEF Chars
      <4>2. i + 1 # Len(f) + 1 /\ f[i + 1] # "/"
        BY <1>1, <2>2, AtOrIn
      <4> QED  BY <1>1, <4>1, <4>2 DEF Positions
    <3>2. f[i + 1] \notin {"+", "#"}
      <4>1. i + 1 # 1 /\ (i + 1) - 1 = i
        OBVIOUS
      <4> QED  BY <3>1, <4>1 DEF WellFormed
    <3>3. /\ f[i + 1] \in STRING /\ Longer(LevelAt(f, i + 1), f[i + 1], LevelAt(f, (i + 1) + 1))
          /\ (i + 1) + 1 \in Positions(f)
      BY <3>1, InLevel
    <3>4. LevelAt(f, (i + 1) + 1) \in Seq(STRING)
      BY <3>3, LevelType DEF Chars
    <3>5. LevelAt(f, i + 1)[1] = f[i + 1]
      BY <3>3, <3>4, LongerIs
    <3> QED  BY <3>2, <3>5 DEF Plus, Hash
  <2> QED  BY <2>1, <2>2
<1> QED  BY <1>3, <1>4

LEMMA AgreedInLevel ==
  ASSUME NEW f \in Chars, NEW t \in Chars, NEW i \in 1 .. Len(f), NEW j \in Positions(t),
         WellFormed(f), f[i] # "/", f[i] \notin {"+", "#"},
         \A k \in Positions(t) : Agreed(f, t, i + 1, k)
  PROVE  Agreed(f, t, i, j)
<1>1. /\ i \in Positions(f) /\ i + 1 \in Positions(f) /\ f[i] \in STRING
      /\ Longer(LevelAt(f, i), f[i], LevelAt(f, i + 1)) /\ LevelAt(f, i) # <<>>
      /\ Rest(f, i) = Rest(f, i + 1)
  BY InLevel
<1>2. LevelAt(f, i) \notin {Plus, Hash} /\ LevelAt(f, i + 1) \notin {Plus, Hash}
  BY Unwild
<1>3. j \in Places(f, t)[i] <=>
        j # Len(t) + 1 /\ t[j] # "/" /\ f[i] = t[j] /\ j + 1 \in Places(f, t)[i + 1]
  BY PlacesStep
<1>4. Goes(LevelsFrom(f)[i], LevelsFrom(t)[j]) <=>
        /\ LevelAt(f, i) = LevelAt(t, j)
        /\ Rest(f, i) = <<>> => Rest(t, j) = <<>>
        /\ Rest(f, i) # <<>> => Rest(t, j) # <<>> /\ Goes(Rest(f, i), Rest(t, j))
  <2>1. Fit(LevelAt(f, i), LevelAt(t, j), Rest(f, i) = <<>>) <=> LevelAt(f, i) = LevelAt(t, j)
    BY <1>2 DEF Fit
  <2> QED  BY <1>1, <1>2, <2>1, GoesAt
<1>5. CASE j # Len(t) + 1 /\ t[j] # "/"
  <2>1. j \in 1 .. Len(t)
    <3>1. Len(t) \in Nat
      BY LenProperties DEF Chars
    <3> QED  BY <1>5, <3>1 DEF Positions
  <2>2. /\ j + 1 \in Positions(t) /\ t[j] \in STRING
        /\ Longer(LevelAt(t, j), t[j], LevelAt(t, j + 1)) /\ Rest(t, j) = Rest(t, j + 1)
    BY <1>5, <2>1, InLevel
  <2>3. LevelAt(f, i) = LevelAt(t, j) <=> f[i] = t[j] /\ LevelAt(f, i + 1) = LevelAt(t, j + 1)
    <3>1. LevelAt(f, i + 1) \in Seq(STRING) /\ LevelAt(t, j + 1) \in Seq(STRING)
      BY <1>1, <2>2, LevelType DEF Chars
    <3> QED  BY <1>1, <2>2, <3>1, SameLonger
  <2>4. Goes(LevelsFrom(f)[i + 1], LevelsFrom(t)[j + 1]) <=>
          /\ LevelAt(f, i + 1) = LevelAt(t, j + 1)
          /\ Rest(f, i) = <<>> => Rest(t, j) = <<>>
          /\ Rest(f, i) # <<>> => Rest(t, j) # <<>> /\ Goes(Rest(f, i), Rest(t, j))
    <3>1. Fit(LevelAt(f, i + 1), LevelAt(t, j + 1), Rest(f, i + 1) = <<>>)
            <=> LevelAt(f, i + 1) = LevelAt(t, j + 1)
      BY <1>2 DEF Fit
    <3>2. Goes(LevelsFrom(f)[i + 1], LevelsFrom(t)[j + 1]) <=>
            /\ Fit(LevelAt(f, i + 1), LevelAt(t, j + 1), Rest(f, i + 1) = <<>>)
            /\ Rest(f, i + 1) = <<>> /\ LevelAt(f, i + 1) # Hash => Rest(t, j + 1) = <<>>
            /\ Rest(f, i + 1) # <<>>
                 => Rest(t, j + 1) # <<>> /\ Goes(Rest(f, i + 1), Rest(t, j + 1))
      BY <1>1, <2>2, GoesAt
    <3>3. LevelAt(f, i + 1) # Hash /\ Rest(f, i + 1) = Rest(f, i) /\ Rest(t, j + 1) = Rest(t, j)
      BY <1>1, <1>2, <2>2
    <3> QED  BY <3>1, <3>2, <3>3, Zenon
  <2>5. Agreed(f, t, i + 1, j + 1)
    BY <2>2
  <2> QED  BY <1>3, <1>4, <1>5, <2>3, <2>4, <2>5 DEF Agreed
<1>6. CASE ~ (j # Len(t) + 1 /\ t[j] # "/")
  <2>1. LevelAt(t, j) = <<>>
    BY <1>6, AtOrIn
  <2> QED  BY <1>1, <1>3, <1>4, <1>6, <2>1 DEF Agreed
<1> QED  BY <1>5, <1>6

LEMMA WildLevel ==
  ASSUME NEW f \in Chars, WellFormed(f), NEW i \in 1 .. Len(f), f[i] \in {"+", "#"}
  PROVE  /\ i \in Positions(f) /\ i + 1 \in Positions(f)
         /\ Longer(LevelAt(f, i), f[i], <<>>) /\ LevelAt(f, i + 1) = <<>>
         /\ Rest(f, i) = Rest(f, i + 1)
         /\ f[i] = "#" => i = Len(f) /\ Rest(f, i) = <<>>
<1>1. "/" # "+" /\ "/" # "#" /\ "+" # "#"
  OBVIOUS
<1>2. Len(f) \in Nat /\ DOMAIN f = 1 .. Len(f)
  BY LenProperties DEF Chars
<1>3. /\ i \in Positions(f) /\ i + 1 \in Positions(f)
      /\ Longer(LevelAt(f, i), f[i], LevelAt(f, i + 1))
      /\ Rest(f, i) = Rest(f, i + 1)
  BY <1>1, InLevel
<1>4. i = Len(f) \/ (f[i] = "+" /\ f[i + 1] = "/")
  BY <1>2 DEF WellFormed
<1>5. LevelAt(f, i + 1) = <<>>
  BY <1>3, <1>4, AtOrIn
<1>6. i = Len(f) => Rest(f, i) = <<>>
  BY <1>3, AtEnd
<1> QED  BY <1>1, <1>3, <1>4, <1>5, <1>6

LEMMA OneLevel == ASSUME NEW c, NEW a, Longer(a, c, <<>>) PROVE a = <<c>>
BY DEF Longer

LEMMA AgreedAtPlus ==
  ASSUME NEW f \in Chars, NEW t \in Chars, NEW i \in 1 .. Len(f), NEW j \in Positions(t),
         WellFormed(f), f[i] = "+", \A k \in Positions(t) : Agreed(f, t, i + 1, k)
  PROVE  Agreed(f, t, i, j)
<1>1. "/" # "+" /\ "+" # "#"
  OBVIOUS
<1>2. /\ i \in Positions(f) /\ i + 1 \in Positions(f)
      /\ Longer(LevelAt(f, i), f[i], <<>>) /\ LevelAt(f, i + 1) = <<>>
      /\ Rest(f, i) = Rest(f, i + 1)
  BY WildLevel
<1>3. LevelAt(f, i) = Plus
  BY <1>2, OneLevel DEF Plus
<1>4. j \in Places(f, t)[i] <=>
        j # Len(t) + 1 /\ t[j] # "/" /\ LevelEnd(t, j) \in Places(f, t)[i + 1]
  BY <1>1, PlacesStep
<1>5. Goes(LevelsFrom(f)[i], LevelsFrom(t)[j]) <=>
        /\ LevelAt(t, j) # <<>>
        /\ Rest(f, i) = <<>> => Rest(t, j) = <<>>
        /\ Rest(f, i) # <<>> => Rest(t, j) # <<>> /\ Goes(Rest(f, i), Rest(t, j))
  <2>1. Fit(LevelAt(f, i), LevelAt(t, j), Rest(f, i) = <<>>) <=> LevelAt(t, j) # <<>>
    BY <1>3, Wildcards DEF Fit
  <2> QED  BY <1>2, <1>3, <2>1, GoesAt, Wildcards
<1>6. CASE j # Len(t) + 1 /\ t[j] # "/"
  <2> DEFINE e == LevelEnd(t, j)
  <2>1. j <= Len(t)
    <3>1. Len(t) \in Nat
      BY LenProperties DEF Chars
    <3> QED  BY <1>6, <3>1 DEF Positions
  <2>2. e \in Positions(t) /\ LevelAt(t, e) = <<>> /\ Rest(t, e) = Rest(t, j)
    <3>1. End(t, j) = e
      BY <1>6, <2>1, EndIs
    <3> HIDE DEF e
    <3> QED  BY <3>1, AtLevelEnd
  <2> HIDE DEF e
  <2>3. Goes(LevelsFrom(f)[i + 1], LevelsFrom(t)[e]) <=>
          /\ Rest(f, i) = <<>> => Rest(t, j) = <<>>
          /\ Rest(f, i) # <<>> => Rest(t, j) # <<>> /\ Goes(Rest(f, i), Rest(t, j))
    <3>1. Fit(LevelAt(f, i + 1), LevelAt(t, e), Rest(f, i + 1) = <<>>)
      BY <1>2, <2>2 DEF Fit
    <3> QED  BY <1>2, <2>2, <3>1, GoesAt, Wildcards
  <2>4. Agreed(f, t, i + 1, e)
    BY <2>2
  <2>5. LevelAt(t, j) # <<>>
    BY <1>6, AtOrIn
  <2>6. j \in Places(f, t)[i] <=> e \in Places(f, t)[i + 1]
    BY <1>4, <1>6 DEF e
  <2> QED  BY <1>5, <2>3, <2>4, <2>5, <2>6 DEF Agreed
<1>7. CASE ~ (j # Len(t) + 1 /\ t[j] # "/")
  <2>1. LevelAt(t, j) = <<>>
    BY <1>7, AtOrIn
  <2> QED  BY <1>4, <1>5, <1>7, <2>1 DEF Agreed
<1> QED  BY <1>6, <1>7

LEMMA AgreedAtHash ==
  ASSUME NEW f \in Chars, NEW t \in Chars, NEW i \in 1 .. Len(f), NEW j \in Positions(t),
         WellFormed(f), f[i] = "#"
  PROVE  Agreed(f, t, i, j)
<1>1. "/" # "#" /\ "+" # "#"
  OBVIOUS
<1>2. /\ i \in Positions(f) /\ Longer(LevelAt(f, i), f[i], <<>>)
      /\ i = Len(f) /\ Rest(f, i) = <<>>
  BY WildLevel
<1>3. LevelAt(f, i) = Hash
  BY <1>2, OneLevel DEF Hash
<1>4. Len(t) + 1 \in Places(f, t)[i + 1]
  <2>1. Len(f) \in Nat /\ Len(f) + 1 \in Positions(f) /\ Len(f) + 1 > Len(f)
    BY LenProperties DEF Chars, Positions
  <2>2. Places(f, t)[Len(f) + 1] = {Len(t) + 1}
    BY <2>1, PlacesAre DEF Step
  <2> QED  BY <1>2, <2>2
<1>5. j \in Places(f, t)[i] <=> j # Len(t) + 1 /\ t[j] # "/"
  BY <1>1, <1>4, PlacesStep
<1>6. Goes(LevelsFrom(f)[i], LevelsFrom(t)[j]) <=> LevelAt(t, j) # <<>>
  <2>1. Fit(LevelAt(f, i), LevelAt(t, j), Rest(f, i) = <<>>) <=> LevelAt(t, j) # <<>>
    BY <1>2, <1>3, Wildcards DEF Fit
  <2> QED  BY <1>2, <1>3, <2>1, GoesAt
<1> QED  BY <1>5, <1>6, AtOrIn DEF Agreed

\* By induction over the places of the filter, from its end.
LEMMA AllAgreed ==
  ASSUME NEW f \in Chars, NEW t \in Chars, WellFormed(f)
  PROVE  \A i \in Positions(f), j \in Positions(t) : Agreed(f, t, i, j)
<1> DEFINE All(i) == \A j \in Positions(t) : Agreed(f, t, i, j)
           S == {m \in Nat : \A i \in Positions(f) : Len(f) + 1 - i = m => All(i)}
<1>0. Len(f) \in Nat /\ \A i \in Positions(f) : i \in Nat /\ i >= 1 /\ i <= Len(f) + 1
  BY LenProperties DEF Chars, Positions
<1>1. ASSUME NEW m \in Nat, \A l \in Nat : l < m => l \in S
      PROVE  m \in S
  <2>1. ASSUME NEW i \in Positions(f), Len(f) + 1 - i = m PROVE All(i)
    <3>1. CASE i = Len(f) + 1
      BY <3>1, AgreedAtEnd
    <3>2. CASE i # Len(f) + 1
      <4>1. i \in 1 .. Len(f) /\ i + 1 \in Positions(f)
        BY <1>0, <3>2 DEF Positions
      <4>2. Len(f) + 1 - (i + 1) \in Nat /\ Len(f) + 1 - (i + 1) < m
        BY <1>0, <2>1, <4>1
      <4>3. All(i + 1)
        <5> HIDE DEF All
        <5> QED  BY <1>1, <4>1, <4>2
      <4> QED  BY <4>1, <4>3, AgreedAtSlash, AgreedInLevel, AgreedAtPlus, AgreedAtHash
    <3> QED  BY <3>1, <3>2
  <2> HIDE DEF All
  <2> QED  BY <2>1
<1> HIDE DEF S, All
<1>2. \A m \in Nat : m \in S
  BY <1>1, NatSetInduction
<1>3. ASSUME NEW i \in Positions(f) PROVE All(i)
  <2>1. Len(f) + 1 - i \in Nat
    BY <1>0
  <2> QED  BY <1>2, <2>1 DEF S
<1> QED  BY <1>3 DEF All

LEMMA MatchedByTheRules ==
  ASSUME NEW f \in Chars, NEW t \in Chars, WellFormed(f)
  PROVE  Matched(f, t) <=> ByTheRules(f, t) /\ ~ Missed(f, t)
<1>1. 1 \in Positions(f) /\ 1 \in Positions(t)
  BY LenProperties DEF Chars, Positions
<1>2. Matched(f, t) <=> Goes(LevelsFrom(f)[1], LevelsFrom(t)[1])
  BY <1>1, AllAgreed, MatchedIs DEF Agreed
<1>3. /\ Levels(f) = LevelsFrom(f)[1] /\ Levels(f) \in Seq(Chars) /\ Levels(f) # <<>>
      /\ Levels(t) = LevelsFrom(t)[1] /\ Levels(t) \in Seq(Chars)
  BY <1>1, LevelsIs, LevelsType
<1> QED  BY <1>2, <1>3, GoesIsByTheRules

-----------------------------------------------------------------------------
(* Delivery *)

\* The filters of the plan never change.
FiltersOK == \A f \in plan.filters : WellFormed(f)

LEMMA FiltersKept == IInv /\ FiltersOK /\ [Next]_vars => FiltersOK'
<1> SUFFICES ASSUME IInv, FiltersOK, [Next]_vars PROVE plan'.filters = plan.filters
  BY DEF FiltersOK
<1>1. plan \in Plan
  BY DEF IInv, Typed, ListOK
<1>2. CASE Next
  BY <1>1, <1>2, PlanFixed
<1>3. CASE UNCHANGED vars
  BY <1>3 DEF vars
<1> QED  BY <1>2, <1>3

\* A message that comes is delivered by topicname_is_matched to exactly the entries
\* whose filters match its topic by the rules of MQTT, except that a wildcard stands
\* for no empty level and "#" not for no level: for all topics, with wildcards or
\* without, and all filters that MQTT allows.
THEOREM DeliveryByTheRules == Spec => []DeliveredByTheRules
<1>1. Init => FiltersOK
  BY FilterAssumption DEF Init, FiltersOK
<1>2. IInv /\ FiltersOK => DeliveredByTheRules
  <2> SUFFICES ASSUME IInv, FiltersOK, NEW i \in DOMAIN toClient, NEW k \in Entries,
                      toClient[i].type = "PUBLISH"
               PROVE  LET f == Entry(k)
                          topic == toClient[i].topic
                      IN  Matched(f, topic) <=> ByTheRules(f, topic) /\ ~ Missed(f, topic)
    BY DEF DeliveredByTheRules
  <2> DEFINE f == Entry(k)
             topic == toClient[i].topic
  <2>1. plan \in Plan /\ plan.filters \subseteq Chars /\ plan.topics \subseteq Chars
    BY DEF IInv, Typed, ListOK, Plan, Chars
  <2>2. f \in plan.filters
    <3>1. subs \in Seq(plan.filters) /\ Len(subs) \in Nat /\ k \in 1 .. Len(subs)
      BY LenProperties DEF IInv, Typed, ListOK, Entries
    <3>2. Len(subs) + 1 - k \in 1 .. Len(subs)
      BY <3>1
    <3>3. subs[Len(subs) + 1 - k] \in plan.filters
      BY <3>1, <3>2, ElementOfSeq
    <3> QED  BY <3>3 DEF Entry
  <2>3. topic \in Chars
    <3>1. toClient \in Seq(Answers) /\ DOMAIN toClient = 1 .. Len(toClient)
      BY LenProperties DEF IInv, Typed, QueuesOK
    <3>2. toClient[i] \in Answers
      BY <3>1, ElementOfSeq
    <3>3. topic \in Topics
      BY <3>2 DEF Answers
    <3>4. <<>> \in Chars
      BY DEF Chars
    <3> QED  BY <2>1, <3>3, <3>4 DEF Topics
  <2>4. WellFormed(f)
    BY <2>2 DEF FiltersOK
  <2>5. f \in Chars
    BY <2>1, <2>2
  <2> HIDE DEF f, topic
  <2>6. Matched(f, topic) <=> ByTheRules(f, topic) /\ ~ Missed(f, topic)
    BY <2>3, <2>4, <2>5, MatchedByTheRules
  <2> QED  BY <2>6 DEF f, topic
<1> QED  BY <1>1, <1>2, FiltersKept, Invariant, PTL DEF Spec
=============================================================================
