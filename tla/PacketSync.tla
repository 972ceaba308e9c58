----------------------------- MODULE PacketSync -----------------------------
(***************************************************************************)
(* Reassembly of packets from a TCP byte stream: class PacketSync          *)
(* (uv/Packet.h) fed by CTcpClient::AfterRecv and by                       *)
(* CTcpClientSession's receive callback, one chunk per read, and a peer    *)
(* that frames its packets as the demo programs do.                        *)
(*                                                                         *)
(* A packet on the wire is three 32-bit words (flag, type, dataSize) and   *)
(* dataSize bytes of data.  The network cuts the stream anywhere, so a     *)
(* chunk may hold half a header or several packets.                        *)
(***************************************************************************)
EXTENDS Integers, Sequences

CONSTANTS
  Byte,          \* the values of one byte
  WordLen,       \* sizeof(uint32_t)
  WordMod,       \* 2^32: unsigned arithmetic wraps here
  Encode(_),     \* a word as it lies in memory, a sequence of WordLen bytes
  Decode(_),     \* *(uint32_t*)p
  HeadFlag,        \* the flag this PacketSync was initialised with
  Flags,         \* the flags the peer stamps on its packets
  Types,         \* the values of the type word
  Payloads,      \* the data the peer sends
  ReadBufferLen, \* read_buf_.len: the longest chunk of one read
  InitialCap,    \* PACK_BUFFER_SIZE: what the constructor allocates
  MaxPackets     \* bound: packets the peer sends

Word == 0 .. (WordMod - 1)

\* NET_PACKAGE_HEADLEN, and where dataSize lies behind flag and type.
HeadLen == WordLen + WordLen + WordLen
SizeOffset == WordLen + WordLen

ASSUME SizesAssumption ==
  /\ WordLen \in Nat \ {0}
  /\ WordMod \in Nat /\ WordMod > HeadLen
  /\ ReadBufferLen \in Nat \ {0}
  /\ InitialCap \in Nat
  /\ MaxPackets \in Nat

ASSUME CodecAssumption ==
  /\ \A b \in [1 .. WordLen -> Byte] : Decode(b) \in Word
  /\ \A w \in Word : /\ Encode(w) \in Seq(Byte)
                     /\ Len(Encode(w)) = WordLen
                     /\ Decode(Encode(w)) = w

\* A packet's size is itself a uint32_t in the sender (TestClient.cpp:52).
ASSUME PeerAssumption ==
  /\ HeadFlag \in Word /\ Flags \subseteq Word /\ Types \subseteq Word
  /\ \A d \in Payloads : d \in Seq(Byte) /\ Len(d) + HeadLen < WordMod

VARIABLES
  stream,     \* history: the bytes the peer has sent
  ends,       \* history: ends[i] is the length of stream after packet i
  flags,      \* history: flags[i] is the flag of packet i
  received,   \* history: how many bytes of stream OnRecvData was given
  read_data,  \* the first real_packet_len bytes of read_data.base
  cap,        \* read_data.len, the allocated size
  hasPack,    \* OnRecvData is in its loop
  delivered   \* history: the blocks handed to _func_package_cb

vars == <<stream, ends, flags, received, read_data, cap, hasPack, delivered>>

\* An int in the code: here a buffer is taken to stay below 2 GB.
real_packet_len == Len(read_data)

(***************************************************************************)
(* The peer.                                                               *)
(***************************************************************************)
Packet(flag, type, data) ==
  Encode(flag) \o Encode(type) \o Encode(Len(data)) \o data

PeerSend(flag, type, data) ==
  /\ Len(ends) < MaxPackets
  /\ stream' = stream \o Packet(flag, type, data)
  /\ ends' = Append(ends, Len(stream'))
  /\ flags' = Append(flags, flag)
  /\ UNCHANGED <<received, read_data, cap, hasPack, delivered>>

(***************************************************************************)
(* OnRecvData.                                                             *)
(***************************************************************************)
\* Variants of the code that the checks must tell from it stand in front of the
\* definition they vary, marked "Mutant".

\* Mutant: the chunk is copied to the start of the buffer.
RecvOverwrites(n) ==
  /\ ~hasPack
  /\ received + n <= Len(stream)
  /\ cap' = IF real_packet_len + n > cap THEN real_packet_len + n ELSE cap
  /\ read_data' = SubSeq(stream, received + 1, received + n) \o read_data
  /\ received' = received + n
  /\ hasPack' = TRUE
  /\ UNCHANGED <<stream, ends, flags, delivered>>

\* The chunk is appended, after the buffer was grown to hold it.
Recv(n) ==
  /\ ~hasPack
  /\ received + n <= Len(stream)
  /\ cap' = IF real_packet_len + n > cap THEN real_packet_len + n ELSE cap
  /\ read_data' = read_data \o SubSeq(stream, received + 1, received + n)
  /\ received' = received + n
  /\ hasPack' = TRUE
  /\ UNCHANGED <<stream, ends, flags, delivered>>

\* Mutant: the loop looks for packets with at least two bytes of data.
LoopTestLate == real_packet_len > HeadLen + 1

\* hasPack && real_packet_len > NET_PACKAGE_HEADLEN
LoopTest == real_packet_len > HeadLen

head_flag == Decode(SubSeq(read_data, 1, WordLen))
pack_size ==
  (Decode(SubSeq(read_data, SizeOffset + 1, HeadLen)) + HeadLen) % WordMod

\* Mutant: the flag is not compared before a block is handed over.
DeliverAnyFlag ==
  /\ hasPack /\ LoopTest
  /\ pack_size <= real_packet_len
  /\ delivered' = Append(delivered, SubSeq(read_data, 1, pack_size))
  /\ read_data' = SubSeq(read_data, pack_size + 1, real_packet_len)
  /\ UNCHANGED <<stream, ends, flags, received, cap, hasPack>>

\* Mutant: the rest is not moved down after a delivery.
DeliverWithoutMove ==
  /\ hasPack /\ LoopTest
  /\ head_flag = HeadFlag
  /\ pack_size <= real_packet_len
  /\ delivered' = Append(delivered, SubSeq(read_data, 1, pack_size))
  /\ read_data' = SubSeq(read_data, 1, real_packet_len - pack_size)
  /\ UNCHANGED <<stream, ends, flags, received, cap, hasPack>>

\* A whole packet lies at the front: hand it over and move the rest down.
DeliverPacket ==
  /\ hasPack /\ LoopTest
  /\ head_flag = HeadFlag
  /\ pack_size <= real_packet_len
  /\ delivered' = Append(delivered, SubSeq(read_data, 1, pack_size))
  /\ read_data' = SubSeq(read_data, pack_size + 1, real_packet_len)
  /\ UNCHANGED <<stream, ends, flags, received, cap, hasPack>>

\* The packet at the front is not complete yet.
WaitForMore ==
  /\ hasPack /\ LoopTest
  /\ head_flag = HeadFlag
  /\ pack_size > real_packet_len
  /\ hasPack' = FALSE
  /\ UNCHANGED <<stream, ends, flags, received, read_data, cap, delivered>>

\* No packet starts here: everything received so far is dropped.
DropBuffer ==
  /\ hasPack /\ LoopTest
  /\ head_flag # HeadFlag
  /\ read_data' = <<>>
  /\ UNCHANGED <<stream, ends, flags, received, cap, hasPack, delivered>>

LoopEnds ==
  /\ hasPack /\ ~LoopTest
  /\ hasPack' = FALSE
  /\ UNCHANGED <<stream, ends, flags, received, read_data, cap, delivered>>

-----------------------------------------------------------------------------
Init ==
  /\ stream = <<>> /\ ends = <<>> /\ flags = <<>>
  /\ received = 0
  /\ read_data = <<>>
  /\ cap = InitialCap
  /\ hasPack = FALSE
  /\ delivered = <<>>

PeerSends == \E flag \in Flags, type \in Types, data \in Payloads :
               PeerSend(flag, type, data)
RecvChunk == \E n \in 1 .. ReadBufferLen : Recv(n)
LoopStep  == DeliverPacket \/ WaitForMore \/ DropBuffer \/ LoopEnds

Next == PeerSends \/ RecvChunk \/ LoopStep

\* The loop runs on the event loop's thread and nothing in it waits; the
\* transport keeps delivering what the peer sent.
Fairness == WF_vars(LoopStep) /\ WF_vars(RecvChunk)

Spec == Init /\ [][Next]_vars
FairSpec == Spec /\ Fairness

-----------------------------------------------------------------------------
(***************************************************************************)
(* Properties.                                                             *)
(***************************************************************************)
Blocks == Seq(Byte)

\* Where the i-th packet of the stream ends and starts, and its contents.
Boundary(i) == IF i = 0 THEN 0 ELSE ends[i]
StartOf(i) == Boundary(i - 1)
PacketOf(i) == SubSeq(stream, StartOf(i) + 1, ends[i])

\* The first byte of the stream that read_data still holds.
consumed == received - real_packet_len

\* Every variable keeps its type (class PacketSync and the histories).
TypeOK ==
  /\ stream \in Blocks
  /\ ends \in Seq(Nat)
  /\ flags \in Seq(Flags)
  /\ received \in 0 .. Len(stream)
  /\ read_data \in Blocks
  /\ cap \in Nat
  /\ hasPack \in BOOLEAN
  /\ delivered \in Seq(Blocks)

\* The memcpy of OnRecvData stays inside the buffer: the valid length never
\* passes the allocated length (Packet.h:92-98).
InsideBuffer == real_packet_len <= cap

\* read_data holds an unbroken window of the stream that ends at the last byte
\* received: the moves after a delivery lose nothing and duplicate nothing.
Window == read_data = SubSeq(stream, consumed + 1, received)

\* However the stream is cut, the blocks handed to the application are the
\* packets the peer sent, whole, in order and without gaps, when all of them
\* carry this PacketSync's flag.
DeliveredInOrder ==
  /\ Len(delivered) <= Len(ends)
  /\ \A i \in 1 .. Len(delivered) : delivered[i] = PacketOf(i)

\* What is delivered depends on how many bytes came, not on how they were cut:
\* when OnRecvData has returned, every packet wholly received was handed over,
\* except one without data at the very end of what was received (the loop
\* wants more than a header, Packet.h:100).
ChunkingIndependent ==
  ~hasPack =>
    \A i \in 1 .. Len(ends) :
      \/ ends[i] < received
      \/ ends[i] = received /\ ends[i] > StartOf(i) + HeadLen
      => i <= Len(delivered)

\* The word of the flag lies nowhere in what the peers send but where a packet
\* starts: not inside a packet, and not across the end of one.
FlagOnlyAtStart ==
  LET packets == {Packet(f, t, d) : f \in Flags, t \in Types, d \in Payloads}
  IN  \A x, y \in packets : \A p \in 1 .. Len(x) - 1 :
        Decode(SubSeq(x \o y, p + 1, p + WordLen)) # HeadFlag

\* With peers of several flags the blocks handed over are still whole packets
\* of the peer that carry this PacketSync's flag, each at most once and in the
\* order sent: starting again behind a foreign flag never invents a packet, as
\* long as FlagOnlyAtStart holds of what is sent.
OnlyOwnPackets ==
  \E f \in [1 .. Len(delivered) -> 1 .. Len(ends)] :
    \A k \in 1 .. Len(delivered) :
      /\ flags[f[k]] = HeadFlag /\ delivered[k] = PacketOf(f[k])
      /\ \A j \in 1 .. k - 1 : f[j] < f[k]

\* What reassembly implements when every packet carries this PacketSync's flag.
Channel == INSTANCE FramedChannel WITH
             Packets <- {Packet(HeadFlag, t, d) : t \in Types, d \in Payloads},
             sent <- [i \in 1 .. Len(ends) |-> PacketOf(i)],
             got <- delivered

\* The application sees a first-in-first-out channel of whole packets.
ImplementsChannel == Channel!ChannelSpec
(***************************************************************************)
(* The inductive invariant of the proofs (PacketSyncProofs).               *)
(***************************************************************************)
BufferInv == Window /\ InsideBuffer /\ real_packet_len <= received

\* The header of every packet of the stream tells its flag and its length.
FramesInv ==
  /\ Len(flags) = Len(ends)
  /\ Boundary(Len(ends)) = Len(stream)
  /\ \A i, j \in 1 .. Len(ends) : i <= j => ends[i] <= ends[j]
  /\ \A i \in 1 .. Len(ends) :
       /\ ends[i] - StartOf(i) \in HeadLen .. WordMod - 1
       /\ Decode(SubSeq(stream, StartOf(i) + 1, StartOf(i) + WordLen)) = flags[i]
       /\ Decode(SubSeq(stream, StartOf(i) + SizeOffset + 1, StartOf(i) + HeadLen))
            = ends[i] - StartOf(i) - HeadLen

\* The buffer starts where a packet starts.
Aligned ==
  /\ Len(delivered) <= Len(ends)
  /\ consumed = Boundary(Len(delivered))

\* Outside OnRecvData the buffer holds no packet that could be handed over.
NothingReady ==
  ~hasPack => \/ real_packet_len <= HeadLen
              \/ /\ Len(delivered) < Len(ends)
                 /\ ends[Len(delivered) + 1] > received

StreamInv == TypeOK /\ BufferInv /\ FramesInv
IInv == StreamInv /\ Aligned /\ DeliveredInOrder /\ NothingReady

\* Every packet with data that the peer sends is handed over in the end.
EveryPacketDelivered ==
  \A i \in 1 .. MaxPackets :
    (Len(ends) >= i /\ ends[i] > StartOf(i) + HeadLen) ~> (Len(delivered) >= i)
=============================================================================
