---------------------------- MODULE UmqttFraming ----------------------------
(***************************************************************************)
(* How the MQTT client finds packets in the octets of its connection         *)
(* (umqtt_handle_readpacket and umqtt_readpacket of                          *)
(* packages/umqtt-v1.0.0/src/umqtt.c).  Octets come in any portions and at   *)
(* any time; a packet too long for recv_buf is read and thrown away; a read   *)
(* that takes too long fails, and the thread goes on with the next octet as   *)
(* if a packet began there.                                                  *)
(*                                                                           *)
(* An octet is a number below 2 * Base.  A read of some octets and the test   *)
(* of the time after it are one step.                                        *)
(***************************************************************************)
EXTENDS Naturals, Sequences, SequencesExt

CONSTANTS
  Base,          \* 128: a length octet has a digit below it, and may add it
  MaxLenOctets,  \* MAX_NO_OF_REMAINING_LENGTH_BYTES
  RecvSize,      \* PKG_UMQTT_INFO_DEF_RECVSIZE
  Messages,      \* packets the broker may send: a type and a body
  MaxPackets,    \* bound: packets of one connection
  MaxSlow,       \* bound: reads that take too long
  MaxEnds        \* bound: connections that end

Octets == 0 .. 2 * Base - 1

ASSUME FramingAssumption ==
  /\ Base \in Nat \ {0, 1} /\ MaxLenOctets \in Nat \ {0}
  /\ RecvSize \in Nat /\ RecvSize > MaxLenOctets
  /\ Messages \subseteq [type : Octets, body : Seq(Octets)]
  /\ MaxPackets \in Nat /\ MaxSlow \in Nat /\ MaxEnds \in Nat

VARIABLES
  stream,   \* octets that are sent and not yet read
  ended,    \* the connection is closed or reset behind them
  at,       \* what the thread reads: "header", "length", "body" or "skip"
  head,     \* the octet it takes for the header
  cnt,      \* _cnt: length octets, with the one it reads
  len,      \* _pkt_len
  mult,     \* _multiplier
  chunks,   \* _loop_cnt: full buffers still to be thrown away
  got,      \* the octets that this umqtt_readpacket has read
  slow, ends,  \* what is left of the bounds
  sent,     \* history: the packets sent on this connection
  handled,  \* history: the packets handled on this connection
  slipped   \* history: a read on this connection has taken too long

reader == <<at, head, cnt, len, mult, chunks, got>>
history == <<sent, handled, slipped>>
vars == <<stream, ended, reader, slow, ends, history>>

-----------------------------------------------------------------------------
(* The packets of the broker *)

\* The length, least significant digit first; umqtt_pkgs_encode does the same for
\* the packets of the client.
LenOctets[n \in Nat] ==
  IF n < Base THEN <<n>> ELSE <<Base + (n % Base)>> \o LenOctets[n \div Base]

Encode(p) == <<p.type>> \o LenOctets[Len(p.body)] \o p.body
Encoded(packets) == FlattenSeq([i \in DOMAIN packets |-> Encode(packets[i])])

\* The broker keeps to the limit of MQTT: a longer length is no packet.
ASSUME LengthAssumption == \A p \in Messages : Len(LenOctets[Len(p.body)]) <= MaxLenOctets

BrokerSends(p) ==
  /\ ~ ended /\ Len(sent) < MaxPackets
  /\ stream' = stream \o Encode(p)
  /\ sent' = Append(sent, p)
  /\ UNCHANGED <<ended, reader, slow, ends, handled, slipped>>

\* The connection ends; what is on its way may be lost.
ConnectionEnds ==
  /\ ~ ended /\ ends > 0
  /\ ended' = TRUE /\ ends' = ends - 1
  /\ \E n \in 0 .. Len(stream) : stream' = SubSeq(stream, 1, n)
  /\ UNCHANGED <<reader, slow, history>>

-----------------------------------------------------------------------------
(* umqtt_handle_readpacket *)

\* Back in the loop of umqtt_thread.
NextPacket == at' = "header" /\ got' = <<>> /\ UNCHANGED <<head, cnt, len, mult, chunks>>

ReadHeader ==
  /\ at = "header" /\ stream # <<>>
  /\ head' = Head(stream) /\ stream' = Tail(stream)
  /\ at' = "length" /\ got' = <<>> /\ cnt' = 1 /\ len' = 0 /\ mult' = 1
  /\ UNCHANGED <<chunks, ended, slow, ends, history>>

\* Variants of the next three: digits have equal weight; a packet that just fits is
\* too long, or one that does not fit with its header is not; a fifth length octet.
SameWeight == mult
TooLongAtLimit(n) == n + 1 + cnt >= RecvSize
TooLongAlone(n) == n > RecvSize
OneMoreOctet == cnt > MaxLenOctets

Weight == mult * Base
TooLong(n) == n + 1 + cnt > RecvSize
NoMoreOctets == cnt >= MaxLenOctets

Handle(body) == handled' = Append(handled, [type |-> head, body |-> body])

\* After the last length octet: a packet without body is complete.
BodyOf(n) ==
  /\ len' = n
  /\ IF TooLong(n) THEN at' = "skip" /\ chunks' = n \div RecvSize /\ UNCHANGED handled
     ELSE /\ UNCHANGED chunks
          /\ IF n = 0 THEN at' = "header" /\ Handle(<<>>)
                      ELSE at' = "body" /\ UNCHANGED handled
  /\ UNCHANGED <<cnt, mult>>

\* A length octet has been read in time.
LengthOctet(o) ==
  /\ got' = <<>>
  /\ UNCHANGED head
  /\ LET n == len + ((o % Base) * mult)
     IN  IF o < Base THEN BodyOf(n)
         ELSE /\ len' = n /\ mult' = Weight
              /\ IF NoMoreOctets THEN at' = "header" /\ UNCHANGED cnt
                                 ELSE at' = "length" /\ cnt' = cnt + 1
              /\ UNCHANGED <<chunks, handled>>

\* umqtt_readpacket returns after reading a part of what is thrown away; its result
\* is not looked at.
ChunkEnds ==
  /\ IF chunks = 0
     THEN at' = "header" /\ UNCHANGED <<chunks, len>>
     ELSE at' = "skip" /\ chunks' = chunks - 1 /\ len' = len - RecvSize
  /\ got' = <<>>
  /\ UNCHANGED <<head, cnt, mult>>

-----------------------------------------------------------------------------
(* umqtt_readpacket *)

Want == IF at = "length" THEN 1 ELSE IF at = "skip" /\ chunks # 0 THEN RecvSize ELSE len

\* All octets have come, in time.
Complete(octets) ==
  \/ at = "length" /\ LengthOctet(octets[1])
  \/ at = "body" /\ NextPacket /\ Handle(octets)
  \/ at = "skip" /\ ChunkEnds /\ UNCHANGED handled

\* recv returns n octets.
Recv(n) ==
  /\ at # "header" /\ n \in 1 .. Len(stream) /\ Len(got) + n <= Want
  /\ stream' = SubSeq(stream, n + 1, Len(stream))
  /\ LET octets == got \o SubSeq(stream, 1, n)
     IN  \/ /\ IF Len(octets) = Want THEN Complete(octets)
               ELSE got' = octets /\ UNCHANGED <<at, head, cnt, len, mult, chunks, handled>>
            /\ UNCHANGED <<slow, slipped>>
         \/ /\ slow > 0 /\ slow' = slow - 1  \* later than recv_time_ms
            /\ slipped' = TRUE
            /\ IF at = "skip" THEN ChunkEnds ELSE NextPacket
            /\ UNCHANGED handled
  /\ UNCHANGED <<ended, ends, sent>>

\* Nothing is wanted: a rest of length 0.
NothingToSkip ==
  /\ at = "skip" /\ Want = 0
  /\ ChunkEnds
  /\ UNCHANGED <<stream, ended, slow, ends, history>>

\* recv fails.  A header or a body that does not come is the end of the connection,
\* unless the error is not a FIN: then the next header does not come.
RecvFails ==
  /\ at # "header" /\ ended /\ stream = <<>> /\ Want > 0
  /\ IF at = "skip" THEN ChunkEnds ELSE NextPacket
  /\ UNCHANGED <<stream, ended, slow, ends, history>>

\* umqtt_thread closes the socket and umqtt_connect opens another.
Reconnect ==
  /\ at \in {"header", "length", "body"} /\ ended /\ stream = <<>>
  /\ ended' = FALSE
  /\ NextPacket
  /\ sent' = <<>> /\ handled' = <<>> /\ slipped' = FALSE
  /\ UNCHANGED <<stream, slow, ends>>

Init ==
  /\ stream = <<>> /\ ended = FALSE
  /\ at = "header" /\ head = 0 /\ cnt = 0 /\ len = 0 /\ mult = 1 /\ chunks = 0
  /\ got = <<>>
  /\ slow = MaxSlow /\ ends = MaxEnds
  /\ sent = <<>> /\ handled = <<>> /\ slipped = FALSE

UmqttThread == \/ ReadHeader \/ \E n \in 1 .. RecvSize : Recv(n)
               \/ NothingToSkip \/ RecvFails \/ Reconnect
Next == UmqttThread \/ ConnectionEnds \/ \E p \in Messages : BrokerSends(p)

\* The thread reads what has come.
Spec == Init /\ [][Next]_vars /\ WF_vars(UmqttThread)

-----------------------------------------------------------------------------
(* Properties *)

TypeOK ==
  /\ stream \in Seq(Octets) /\ got \in Seq(Octets) /\ head \in Octets
  /\ at \in {"header", "length", "body", "skip"}
  /\ cnt \in 0 .. MaxLenOctets /\ len \in Nat /\ mult \in Nat /\ chunks \in Nat
  /\ ended \in BOOLEAN /\ slipped \in BOOLEAN
  /\ slow \in 0 .. MaxSlow /\ ends \in 0 .. MaxEnds
  /\ sent \in Seq(Messages) /\ handled \in Seq([type : Octets, body : Seq(Octets)])

\* The packets that recv_buf has room for.
Fits(p) == Len(Encode(p)) <= RecvSize
Fitting(packets) ==
  FlattenSeq([i \in DOMAIN packets |-> IF Fits(packets[i]) THEN <<packets[i]>> ELSE <<>>])

\* As long as no read has taken too long, the thread stands between two packets
\* when it reads a header, and has handled all that fit before it, each once and
\* in order: portions, lengths of several octets and packets that are thrown away
\* in several reads do not put it out of step.
InStep ==
  at = "header" /\ ~ slipped /\ ~ ended =>
    \E k \in 0 .. Len(sent) :
      /\ stream = Encoded(SubSeq(sent, k + 1, Len(sent)))
      /\ handled = Fitting(SubSeq(sent, 1, k))

\* Whatever it reads, also out of step, where any octet may pass for a header or a
\* length, the thread stores it inside recv_buf.
InsideBuffer ==
  /\ at = "length" => cnt < RecvSize
  /\ at = "body" => cnt + 1 + len <= RecvSize
  /\ at = "skip" => Want <= RecvSize

\* A packet that fits is handled, unless a read takes too long or the connection
\* ends: the thread never waits for octets that do not come.
FittingHandled ==
  Len(handled) < Len(Fitting(sent)) ~> (handled = Fitting(sent) \/ slipped \/ ended)
=============================================================================
