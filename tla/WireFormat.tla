----------------------------- MODULE WireFormat ------------------------------
(***************************************************************************)
(* The bytes of the protocol: how generate_packets() cuts a message into   *)
(* packets with their headers, how parse_header() reads them, and the QoS  *)
(* that CREATE_STREAM packets carry (scorpio_udp.cpp, types.hpp).          *)
(*                                                                         *)
(* A packet is a sequence of bytes.  Positions count from 0, as there.     *)
(***************************************************************************)
EXTENDS Integers, Sequences, SequencesExt

CONSTANTS
  MaxPacketSize, \* SCU_UDP_MAX_PACKET_SIZE, 512 in the code
  Numbers,       \* stream numbers
  FirstSeqs,     \* what the counter of sequence numbers may stand at
  Lengths,       \* of messages
  Depths,        \* of a StreamQoS
  None           \* std::nullopt

WireAssumption == /\ MaxPacketSize \in Nat /\ MaxPacketSize > 10
                  /\ Numbers \subseteq 0 .. 65535 /\ Depths \subseteq 0 .. 65535
                  /\ FirstSeqs \subseteq Nat /\ Lengths \subseteq Nat

VARIABLES message, \* command, stream number, first sequence number, epoch, data, qos
          packets  \* what generate_packets() made of it; none yet
vars == <<message, packets>>

-----------------------------------------------------------------------------
\* enum Values, the commands in their order
Commands == [PING |-> 0, CONNECT |-> 1, DISCONNECT |-> 2, STATUS |-> 3, ERROR |-> 4,
             HEARTBEAT |-> 5, CREATE_STREAM |-> 6, CLOSE_STREAM |-> 7, STREAM_DATA |-> 8]
FIRST == 64
NOT_LAST == 128

GetCommand(code) == code % 16
IsFirst(code) == (code \div FIRST) % 2 = 1
IsNotLast(code) == code >= NOT_LAST
IsCommandForStream(code) ==
  GetCommand(code) \in {Commands.STREAM_DATA, Commands.CLOSE_STREAM}

-----------------------------------------------------------------------------
\* Big-endian, width bytes.
HostToNetwork(n, width) == [i \in 1 .. width |-> (n \div 256 ^ (width - i)) % 256]

NetworkToHost(data, pos, width) ==
  IF pos + width > Len(data) THEN None
  ELSE FoldLeft(LAMBDA n, byte : 256 * n + byte, 0, SubSeq(data, pos + 1, pos + width))

\* The header of a packet; None as soon as a field is cut short.
ParseHeader(data) ==
  LET code == data[1]
      ofStream == IsCommandForStream(code)
      afterNumbers == IF ofStream THEN 7 ELSE 1
      end == afterNumbers + (IF IsNotLast(code) THEN 2 ELSE 0)
  IN IF end > Len(data) THEN None
     ELSE [data_offset |-> end,
           command |-> GetCommand(code),
           is_first |-> IsFirst(code),
           stream_number |-> IF ofStream THEN NetworkToHost(data, 1, 2) ELSE None,
           seq_number |-> IF ofStream THEN NetworkToHost(data, 3, 4) ELSE None,
           frames_left |-> IF IsNotLast(code) THEN NetworkToHost(data, afterNumbers, 2) ELSE None]

-----------------------------------------------------------------------------
\* UNRELIABLE, UNRELIABLE_LATEST_ONLY, RELIABLE_UNORDERED, RELIABLE_ORDERED
Reliabilities == 0 .. 3
IsReliable(qos) == qos.reliability > 1

SerializeQos(qos) ==
  HostToNetwork(qos.reliability, 1) \o (IF IsReliable(qos) THEN HostToNetwork(qos.depth, 2) ELSE <<>>)

ParseQos(data, pos) ==
  LET reliability == NetworkToHost(data, pos, 1)
      depth == NetworkToHost(data, pos + 1, 2)
  IN CASE reliability = None -> None
       [] reliability # None /\ reliability <= 1 -> [reliability |-> reliability, depth |-> 0]
       [] OTHER -> IF depth = None THEN None ELSE [reliability |-> reliability, depth |-> depth]

-----------------------------------------------------------------------------
HeaderWithoutFramesLeft(m) ==
  1 + (IF IsCommandForStream(m.command) THEN 6 ELSE 0) + (IF m.epoch = None THEN 0 ELSE 1)

WithoutFramesLeft(m) == MaxPacketSize - HeaderWithoutFramesLeft(m)
WithFramesLeft(m) == WithoutFramesLeft(m) - 2

\* The loop goes on while more is left than fits without frames_left.
Rounds(m) ==
  LET rest == Len(m.data) - WithoutFramesLeft(m)
  IN IF rest <= 0 THEN 0 ELSE (rest + WithFramesLeft(m) - 1) \div WithFramesLeft(m)

\* Seeded bug: every packet of a message carries the number of the first.
HeaderOfFirst(m, i, last) ==
  HostToNetwork(m.command + (IF i = 0 THEN FIRST ELSE 0) + (IF last THEN 0 ELSE NOT_LAST), 1)
    \o (IF IsCommandForStream(m.command)
        THEN HostToNetwork(m.number, 2) \o HostToNetwork(m.seq, 4) ELSE <<>>)

\* generate_header of packet i
Header(m, i, last) ==
  HostToNetwork(m.command + (IF i = 0 THEN FIRST ELSE 0) + (IF last THEN 0 ELSE NOT_LAST), 1)
    \o (IF IsCommandForStream(m.command)
        THEN HostToNetwork(m.number, 2) \o HostToNetwork(m.seq + i, 4) ELSE <<>>)

Epoch(m) == IF m.epoch = None THEN <<>> ELSE HostToNetwork(m.epoch, 1)

NotLastPacket(m, i) ==
  LET current == i * WithFramesLeft(m)
      left == (Len(m.data) - current - WithoutFramesLeft(m)) \div WithFramesLeft(m)
  IN Header(m, i, FALSE) \o HostToNetwork(left, 2) \o Epoch(m)
       \o SubSeq(m.data, current + 1, current + WithFramesLeft(m))

LastPacket(m) ==
  Header(m, Rounds(m), TRUE) \o Epoch(m)
    \o SubSeq(m.data, Rounds(m) * WithFramesLeft(m) + 1, Len(m.data))

GeneratePackets(m) ==
  [i \in 1 .. Rounds(m) |-> NotLastPacket(m, i - 1)] \o <<LastPacket(m)>>

-----------------------------------------------------------------------------
Bytes(length) == [i \in 1 .. length |-> i]

Message(command, number, seq, epoch, data, qos) ==
  [command |-> command, number |-> number, seq |-> seq, epoch |-> epoch, data |-> data, qos |-> qos]

\* create_stream() sets the depth of what is not reliable to 0.
Qos == [reliability : Reliabilities, depth : Depths]

Init ==
  /\ packets = <<>>
  /\ \E number \in Numbers, seq \in FirstSeqs, length \in Lengths, qos \in Qos :
       message \in
         {Message(Commands.STREAM_DATA, number, seq, epoch, Bytes(length), None) : epoch \in {None, 0, 255}}
           \cup {Message(Commands.CLOSE_STREAM, number, seq, None, Bytes(length), None),
                 Message(Commands.HEARTBEAT, None, seq, None, Bytes(length), None)}
           \cup (IF IsReliable(qos) \/ qos.depth = 0
                 THEN {Message(Commands.CREATE_STREAM, None, seq, None, SerializeQos(qos), qos)} ELSE {})

Send == packets = <<>> /\ packets' = GeneratePackets(message) /\ UNCHANGED message

Next == Send
Spec == Init /\ [][Next]_vars

-----------------------------------------------------------------------------
\* packets_count(), by which the counter of sequence numbers has advanced
PacketsCount(m) == IF m.data = <<>> THEN 0 ELSE 1 + Rounds(m)

ReadsBack(i) ==
  LET header == ParseHeader(packets[i])
      ofStream == message.number # None
  IN /\ header # None /\ Len(packets[i]) <= MaxPacketSize
     /\ header.command = message.command
     /\ header.is_first = (i = 1)
     /\ header.stream_number = message.number
     /\ header.seq_number = IF ofStream THEN message.seq + i - 1 ELSE None
     /\ (header.frames_left = None) = (i = Len(packets))
     /\ message.epoch # None => NetworkToHost(packets[i], header.data_offset, 1) = message.epoch
     /\ message.qos # None => ParseQos(packets[i], header.data_offset) = message.qos

\* What is behind the headers and epochs
Payload(packet) ==
  LET epoch == IF message.epoch = None THEN 0 ELSE 1
  IN SubSeq(packet, ParseHeader(packet).data_offset + epoch + 1, Len(packet))

\* The receiver reads from every packet what the sender wrote into it: command, stream,
\* number, epoch and QoS; the packets fit, are numbered one by one up to where the next
\* message begins, and their payloads are the message (scorpio_udp.cpp:67-121, 760-833).
PacketsAreReadBack ==
  packets # <<>> =>
    /\ \A i \in DOMAIN packets : ReadsBack(i)
    /\ message.data # <<>> => Len(packets) = PacketsCount(message)
    /\ FoldLeft(LAMBDA data, packet : data \o Payload(packet), <<>>, packets) = message.data
=============================================================================
