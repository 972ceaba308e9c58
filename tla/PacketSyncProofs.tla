-------------------------- MODULE PacketSyncProofs --------------------------
(***************************************************************************)
(* Proofs about PacketSync.  For every word size, chunk size and number of *)
(* packets: the buffer is always a window of the stream and is never       *)
(* overrun; and when all packets carry the flag this PacketSync was given, *)
(* the application sees exactly the packets sent, in order, however the    *)
(* stream was cut, which is the channel of FramedChannel.                  *)
(***************************************************************************)
EXTENDS PacketSync, TLAPS

-----------------------------------------------------------------------------
(***************************************************************************)
(* Facts about sequences.                                                  *)
(***************************************************************************)

\* A part of a sequence is a sequence of the same values, as long as its bounds say.
LEMMA SubSeqType ==
  ASSUME NEW S, NEW s \in Seq(S), NEW m \in Nat, NEW n \in Nat,
         m >= 1, n <= Len(s), m <= n + 1
  PROVE  /\ SubSeq(s, m, n) \in Seq(S)
         /\ Len(SubSeq(s, m, n)) = n - m + 1
         /\ \A i \in 1 .. (n - m + 1) : SubSeq(s, m, n)[i] = s[m + i - 1]
  OBVIOUS

\* What lies inside a sequence stays where it is when something is appended.
LEMMA SubSeqOfPrefix ==
  ASSUME NEW S, NEW s \in Seq(S), NEW t \in Seq(S), NEW m \in Nat, NEW n \in Nat,
         m >= 1, n <= Len(s), m <= n + 1, NEW u, u = s \o t
  PROVE  SubSeq(u, m, n) = SubSeq(s, m, n)
  OBVIOUS

\* Part of a window is part of the sequence.
LEMMA SubSeqOfWindow ==
  ASSUME NEW S, NEW s \in Seq(S), NEW c \in Nat, NEW r \in Nat, c <= r, r <= Len(s),
         NEW b, b = SubSeq(s, c + 1, r),
         NEW lo \in Nat, NEW hi \in Nat, lo >= 1, lo <= hi + 1, hi <= r - c
  PROVE  SubSeq(b, lo, hi) = SubSeq(s, c + lo, c + hi)
  OBVIOUS

\* Two neighbouring parts, joined, are the part that spans both.
LEMMA SubSeqAdjacent ==
  ASSUME NEW S, NEW s \in Seq(S), NEW m \in Nat, NEW n \in Nat, NEW k \in Nat,
         m >= 1, m <= n + 1, n <= k, k <= Len(s)
  PROVE  SubSeq(s, m, n) \o SubSeq(s, n + 1, k) = SubSeq(s, m, k)
  OBVIOUS

\* What follows a cut, read from the cut on, is what the whole holds there.
LEMMA SubSeqOfSuffix ==
  ASSUME NEW S, NEW s \in Seq(S), NEW t \in Seq(S), NEW i \in Nat, NEW j \in Nat,
         i >= 1, i <= j + 1, j <= Len(t), NEW u, u = s \o t
  PROVE  SubSeq(u, Len(s) + i, Len(s) + j) = SubSeq(t, i, j)
  OBVIOUS

-----------------------------------------------------------------------------
(***************************************************************************)
(* Types and the buffer.                                                   *)
(***************************************************************************)
\* A header is three words, the third one behind the first two.
LEMMA HeadLenType ==
  /\ HeadLen \in Nat /\ WordLen \in Nat /\ WordMod \in Nat
  /\ WordLen > 0 /\ SizeOffset \in Nat /\ HeadLen = SizeOffset + WordLen
  /\ WordLen <= SizeOffset
  BY SizesAssumption DEF HeadLen, SizeOffset

\* What a packet looks like on the wire: its length, and its first and third
\* words (NetPacket, Packet.h:12-18).
LEMMA PacketLayout ==
  ASSUME NEW f \in Flags, NEW t \in Types, NEW d \in Payloads
  PROVE  LET p == Packet(f, t, d) IN
         /\ p \in Seq(Byte)
         /\ Len(p) \in HeadLen .. WordMod - 1
         /\ Decode(SubSeq(p, 1, WordLen)) = f
         /\ Decode(SubSeq(p, SizeOffset + 1, HeadLen)) = Len(p) - HeadLen
<1>1. Len(d) \in Word /\ f \in Word /\ t \in Word /\ d \in Seq(Byte)
      /\ Len(d) + HeadLen < WordMod
  BY PeerAssumption, HeadLenType, SizesAssumption DEF Word
<1>2. /\ Encode(f) \in Seq(Byte) /\ Len(Encode(f)) = WordLen
      /\ Encode(t) \in Seq(Byte) /\ Len(Encode(t)) = WordLen
      /\ Encode(Len(d)) \in Seq(Byte) /\ Len(Encode(Len(d))) = WordLen
      /\ Decode(Encode(f)) = f /\ Decode(Encode(Len(d))) = Len(d)
  BY <1>1, CodecAssumption
<1>3. /\ Packet(f, t, d) \in Seq(Byte)
      /\ Len(Packet(f, t, d)) = HeadLen + Len(d)
  BY <1>1, <1>2, HeadLenType DEF Packet, HeadLen, SizeOffset
<1>4. SubSeq(Packet(f, t, d), 1, WordLen) = Encode(f)
  BY <1>1, <1>2, HeadLenType DEF Packet, HeadLen, SizeOffset
<1>5. SubSeq(Packet(f, t, d), SizeOffset + 1, HeadLen) = Encode(Len(d))
  BY <1>1, <1>2, HeadLenType DEF Packet, HeadLen, SizeOffset
<1>6. Len(Packet(f, t, d)) \in HeadLen .. WordMod - 1
  BY <1>1, <1>3, HeadLenType, SizesAssumption DEF HeadLen
<1>7. Decode(SubSeq(Packet(f, t, d), SizeOffset + 1, HeadLen)) = Len(Packet(f, t, d)) - HeadLen
  <2>1. Len(Packet(f, t, d)) - HeadLen = Len(d)
    BY <1>1, <1>3, HeadLenType
  <2> QED BY <1>2, <1>5, <2>1
<1> QED BY <1>2, <1>3, <1>4, <1>6, <1>7

\* The constructor's state satisfies the invariant of the buffer.
LEMMA InitStreamInv == Init => StreamInv
<1> SUFFICES ASSUME Init PROVE StreamInv
  OBVIOUS
<1> USE SizesAssumption, HeadLenType DEF Init
<1>1. TypeOK
  <2>1. stream \in Blocks /\ read_data \in Blocks
    BY DEF Blocks
  <2>2. ends \in Seq(Nat) /\ flags \in Seq(Flags) /\ delivered \in Seq(Blocks)
    OBVIOUS
  <2>3. hasPack \in BOOLEAN
    OBVIOUS
  <2>4. received \in 0 .. Len(stream) /\ cap \in Nat
    OBVIOUS
  <2> QED BY <2>1, <2>2, <2>3, <2>4 DEF TypeOK
<1>2. BufferInv
  BY DEF BufferInv, Window, InsideBuffer, consumed, real_packet_len
<1>3. FramesInv
  BY DEF FramesInv, Boundary
<1> QED BY <1>1, <1>2, <1>3 DEF StreamInv
-----------------------------------------------------------------------------
\* The peer's step extends the stream and leaves every earlier packet where it
\* was.
LEMMA PeerSendStreamInv ==
  ASSUME StreamInv, NEW f \in Flags, NEW t \in Types, NEW d \in Payloads,
         PeerSend(f, t, d)
  PROVE  StreamInv'
<1> DEFINE p == Packet(f, t, d)
<1> USE DEF PeerSend
<1>1. /\ p \in Seq(Byte)
      /\ Len(p) \in HeadLen .. WordMod - 1
      /\ Decode(SubSeq(p, 1, WordLen)) = f
      /\ Decode(SubSeq(p, SizeOffset + 1, HeadLen)) = Len(p) - HeadLen
  BY PacketLayout
<1> HIDE DEF p
<1>2. TypeOK /\ BufferInv /\ FramesInv
  BY DEF StreamInv
<1>3. /\ stream' = stream \o p
      /\ stream \in Seq(Byte) /\ stream' \in Seq(Byte)
      /\ Len(stream') = Len(stream) + Len(p)
  BY <1>1, <1>2 DEF TypeOK, Blocks, p
<1>a. stream' = stream \o p /\ stream \in Seq(Byte) /\ p \in Seq(Byte)
  BY <1>1, <1>3
<1>4. /\ ends \in Seq(Nat) /\ ends' \in Seq(Nat)
      /\ Len(ends') = Len(ends) + 1
      /\ ends'[Len(ends) + 1] = Len(stream')
      /\ \A i \in 1 .. Len(ends) : ends'[i] = ends[i]
  BY <1>2, <1>3 DEF TypeOK
<1>5. /\ flags \in Seq(Flags) /\ flags' \in Seq(Flags)
      /\ Len(flags') = Len(flags) + 1
      /\ flags'[Len(flags) + 1] = f
      /\ \A i \in 1 .. Len(flags) : flags'[i] = flags[i]
  BY <1>2 DEF TypeOK
<1>6. TypeOK'
  <2>1. received' \in 0 .. Len(stream')
    BY <1>1, <1>2, <1>3, HeadLenType, SizesAssumption DEF TypeOK
  <2> QED BY <1>2, <1>3, <1>4, <1>5, <2>1 DEF TypeOK, Blocks
<1>7. BufferInv'
  <2>1. /\ received \in 0 .. Len(stream) /\ read_data \in Seq(Byte)
        /\ Len(read_data) <= received
        /\ read_data = SubSeq(stream, received - Len(read_data) + 1, received)
    BY <1>2 DEF TypeOK, Blocks, BufferInv, Window, consumed, real_packet_len
  <2>2. SubSeq(stream', received - Len(read_data) + 1, received)
          = SubSeq(stream, received - Len(read_data) + 1, received)
    <3>1. ASSUME NEW lo \in Nat, NEW hi \in Nat, lo >= 1, lo <= hi + 1, hi <= Len(stream)
          PROVE  SubSeq(stream', lo, hi) = SubSeq(stream, lo, hi)
      BY <1>a, <3>1, SubSeqOfPrefix
    <3>2. /\ received - Len(read_data) + 1 \in Nat /\ received \in Nat
          /\ received - Len(read_data) + 1 >= 1 /\ received <= Len(stream)
          /\ received - Len(read_data) + 1 <= received + 1
      BY <2>1, <1>a
    <3> QED BY <3>1, <3>2
  <2> QED BY <1>2, <2>1, <2>2
          DEF BufferInv, Window, InsideBuffer, consumed, real_packet_len
<1>8. FramesInv'
  <2> DEFINE n == Len(ends)
  <2>1. /\ n \in Nat /\ Len(flags) = n
        /\ Len(ends') = n + 1 /\ Len(flags') = n + 1
    BY <1>2, <1>4, <1>5 DEF FramesInv
  <2>2. ASSUME NEW i \in 1 .. n
        PROVE  ends[i] \in Nat /\ ends[i] <= Len(stream)
    <3>1. n \in 1 .. n /\ i <= n /\ n # 0
      BY <2>1
    <3>2. ends[n] = Len(stream)
      BY <1>2, <3>1 DEF FramesInv, Boundary
    <3> QED BY <1>2, <1>4, <3>1, <3>2 DEF FramesInv
  <2>3. \A i \in 0 .. n : Boundary(i)' = Boundary(i) /\ Boundary(i) \in 0 .. Len(stream)
    BY <1>4, <2>2 DEF Boundary
  <2>4. Boundary(n) = Len(stream) /\ Boundary(Len(ends))' = Len(stream')
    <3>1. Boundary(n) = Len(stream)
      BY <1>2 DEF FramesInv
    <3>2. Len(ends') # 0 /\ Boundary(Len(ends))' = ends'[Len(ends')]
      BY <2>1 DEF Boundary
    <3> QED BY <1>4, <3>1, <3>2
  <2> HIDE DEF n
  <2>5. ASSUME NEW i \in 1 .. Len(ends'), NEW j \in 1 .. Len(ends'), i <= j
        PROVE  ends'[i] <= ends'[j]
    <3>1. CASE j <= n
      BY <1>2, <1>4, <2>1, <2>5, <3>1 DEF FramesInv, n
    <3>2. CASE i <= n /\ j = n + 1
      <4>1. Len(p) \in Nat /\ Len(stream) \in Nat
        BY <1>1, <1>3, HeadLenType
      <4>2. i \in 1 .. n /\ ends'[i] = ends[i]
        BY <1>4, <2>1, <3>2 DEF n
      <4>3. ends[i] \in Nat /\ ends[i] <= Len(stream)
        BY <2>2, <4>2
      <4>4. ends'[j] = Len(stream) + Len(p)
        BY <1>3, <1>4, <3>2 DEF n
      <4> QED BY <4>1, <4>2, <4>3, <4>4
    <3>3. CASE i = n + 1 /\ j = n + 1
      BY <1>3, <1>4, <3>3 DEF n
    <3> QED BY <2>1, <2>5, <3>1, <3>2, <3>3
  <2>6. ASSUME NEW i \in 1 .. Len(ends')
        PROVE  /\ ends'[i] - StartOf(i)' \in HeadLen .. WordMod - 1
               /\ Decode(SubSeq(stream', StartOf(i)' + 1, StartOf(i)' + WordLen)) = flags'[i]
               /\ Decode(SubSeq(stream', StartOf(i)' + SizeOffset + 1, StartOf(i)' + HeadLen))
                    = ends'[i] - StartOf(i)' - HeadLen
    <3>1. CASE i <= n
      <4> DEFINE k == StartOf(i)
      <4>1. i \in 1 .. n /\ i - 1 \in 0 .. n
        BY <2>1, <3>1
      <4>2. ends'[i] = ends[i] /\ flags'[i] = flags[i]
        BY <1>4, <1>5, <2>1, <4>1 DEF n
      <4>3. k' = k /\ k \in Nat
        BY <2>3, <4>1 DEF StartOf
      <4>4. /\ ends[i] - k \in HeadLen .. WordMod - 1
            /\ Decode(SubSeq(stream, k + 1, k + WordLen)) = flags[i]
            /\ Decode(SubSeq(stream, k + SizeOffset + 1, k + HeadLen)) = ends[i] - k - HeadLen
        BY <1>2, <4>1 DEF FramesInv, n
      <4>5. ends[i] \in Nat /\ ends[i] <= Len(stream) /\ Len(stream) \in Nat
        BY <1>3, <2>2, <4>1
      <4> HIDE DEF k
      <4>6. k + HeadLen <= Len(stream)
        <5>1. ends[i] - k >= HeadLen
          BY <4>3, <4>4, <4>5, HeadLenType
        <5> QED BY <4>3, <4>5, <5>1, HeadLenType
      <4>7. ASSUME NEW lo \in Nat, NEW hi \in Nat, lo >= 1, lo <= hi + 1, hi <= Len(stream)
            PROVE  SubSeq(stream', lo, hi) = SubSeq(stream, lo, hi)
        BY <1>a, <4>7, SubSeqOfPrefix
      <4>8. SubSeq(stream', k + 1, k + WordLen) = SubSeq(stream, k + 1, k + WordLen)
        <5>1. /\ k + 1 \in Nat /\ k + WordLen \in Nat
              /\ k + 1 >= 1 /\ k + 1 <= (k + WordLen) + 1 /\ k + WordLen <= Len(stream)
          BY <4>3, <4>5, <4>6, HeadLenType
        <5> QED BY <4>7, <5>1
      <4>9. SubSeq(stream', k + SizeOffset + 1, k + HeadLen)
              = SubSeq(stream, k + SizeOffset + 1, k + HeadLen)
        <5>1. /\ k + SizeOffset + 1 \in Nat /\ k + HeadLen \in Nat
              /\ k + SizeOffset + 1 >= 1 /\ k + HeadLen <= Len(stream)
              /\ k + SizeOffset + 1 <= (k + HeadLen) + 1
          BY <4>3, <4>5, <4>6, HeadLenType
        <5> QED BY <4>7, <5>1
      <4> QED BY <4>2, <4>3, <4>4, <4>8, <4>9 DEF k
    <3>2. CASE i = n + 1
      <4>1. /\ StartOf(i)' = Len(stream) /\ ends'[i] = Len(stream) + Len(p)
            /\ flags'[i] = f
        BY <1>3, <1>4, <1>5, <2>1, <2>3, <2>4, <3>2 DEF StartOf, n
      <4>2. SubSeq(stream', Len(stream) + 1, Len(stream) + WordLen) = SubSeq(p, 1, WordLen)
        <5>1. 1 \in Nat /\ WordLen \in Nat /\ 1 >= 1 /\ 1 <= WordLen + 1 /\ WordLen <= Len(p)
          BY <1>1, HeadLenType
        <5> QED BY <1>a, <5>1, SubSeqOfSuffix
      <4>3. SubSeq(stream', Len(stream) + (SizeOffset + 1), Len(stream) + HeadLen)
              = SubSeq(p, SizeOffset + 1, HeadLen)
        <5>1. /\ SizeOffset + 1 \in Nat /\ HeadLen \in Nat /\ SizeOffset + 1 >= 1
              /\ SizeOffset + 1 <= HeadLen + 1 /\ HeadLen <= Len(p)
          BY <1>1, HeadLenType
        <5>2. ASSUME NEW lo \in Nat, NEW hi \in Nat, lo >= 1, lo <= hi + 1, hi <= Len(p)
              PROVE  SubSeq(stream', Len(stream) + lo, Len(stream) + hi) = SubSeq(p, lo, hi)
          BY <1>a, <5>2, SubSeqOfSuffix
        <5> QED BY <5>1, <5>2
      <4>4. Len(stream) + (SizeOffset + 1) = Len(stream) + SizeOffset + 1
        BY <1>3, HeadLenType
      <4>5. (Len(stream) + Len(p)) - Len(stream) = Len(p)
        BY <1>1, <1>3
      <4> QED BY <1>1, <4>1, <4>2, <4>3, <4>4, <4>5
    <3> QED BY <2>1, <3>1, <3>2
  <2> QED BY <2>1, <2>4, <2>5, <2>6 DEF FramesInv
<1> QED BY <1>6, <1>7, <1>8 DEF StreamInv

-----------------------------------------------------------------------------
(***************************************************************************)
(* OnRecvData keeps the buffer a window of the stream.                     *)
(***************************************************************************)
\* Only the peer changes what is known about the frames of the stream.
LEMMA FramesUnchanged ==
  ASSUME FramesInv, UNCHANGED <<stream, ends, flags>>
  PROVE  FramesInv'
  BY DEF FramesInv, Boundary, StartOf

\* Appending a chunk, after growing the buffer, keeps the buffer a window of the
\* stream that fits (Packet.h:92-98).
LEMMA RecvStreamInv ==
  ASSUME StreamInv, NEW n \in 1 .. ReadBufferLen, Recv(n)
  PROVE  StreamInv'
<1> DEFINE c == received - Len(read_data)
<1> USE DEF Recv
<1>1. TypeOK /\ BufferInv /\ FramesInv
  BY DEF StreamInv
<1>2. n \in Nat \ {0}
  BY SizesAssumption
<1>3. /\ stream \in Seq(Byte) /\ read_data \in Seq(Byte)
      /\ received \in Nat /\ received + n <= Len(stream) /\ cap \in Nat
      /\ Len(read_data) <= cap /\ Len(read_data) <= received
      /\ read_data = SubSeq(stream, c + 1, received)
  BY <1>1, <1>2 DEF TypeOK, Blocks, BufferInv, Window, InsideBuffer, consumed, real_packet_len
<1>4. /\ SubSeq(stream, received + 1, received + n) \in Seq(Byte)
      /\ Len(SubSeq(stream, received + 1, received + n)) = n
  BY <1>2, <1>3
<1>5. read_data' \in Seq(Byte) /\ Len(read_data') = Len(read_data) + n
  BY <1>3, <1>4
<1>6. received' = received + n /\ received' - Len(read_data') = c /\ c \in Nat
  BY <1>2, <1>3, <1>5
<1>7. read_data' = SubSeq(stream, c + 1, received + n)
  <2>1. c + 1 \in Nat /\ received + n \in Nat /\ c + 1 >= 1 /\ c + 1 <= received + 1
        /\ received <= received + n
    BY <1>2, <1>3, <1>6
  <2>2. SubSeq(stream, c + 1, received) \o SubSeq(stream, received + 1, received + n)
          = SubSeq(stream, c + 1, received + n)
    <3>1. ASSUME NEW lo \in Nat, lo >= 1, lo <= received + 1
          PROVE  SubSeq(stream, lo, received) \o SubSeq(stream, received + 1, received + n)
                   = SubSeq(stream, lo, received + n)
      <4>1. /\ stream \in Seq(Byte) /\ received \in Nat /\ received + n \in Nat
            /\ received <= received + n /\ received + n <= Len(stream)
        BY <1>3, <2>1
      <4> QED BY <3>1, <4>1, SubSeqAdjacent
    <3> QED BY <2>1, <3>1
  <2> QED BY <1>3, <2>2
<1>8. cap' \in Nat /\ Len(read_data') <= cap'
  BY <1>2, <1>3, <1>5 DEF real_packet_len
<1>9. TypeOK'
  <2>1. hasPack' \in BOOLEAN
    OBVIOUS
  <2>2. received' \in 0 .. Len(stream)
    BY <1>2, <1>3, <1>6
  <2> QED BY <1>1, <1>5, <1>8, <2>1, <2>2 DEF TypeOK, Blocks
<1>10. BufferInv'
  <2>1. Len(read_data') <= received'
    BY <1>2, <1>3, <1>5, <1>6
  <2> QED BY <1>6, <1>7, <1>8, <2>1
          DEF BufferInv, Window, InsideBuffer, consumed, real_packet_len
<1> QED BY <1>1, <1>9, <1>10, FramesUnchanged DEF StreamInv

\* pack_size is a number whatever bytes lie at the front.
LEMMA PackSizeType ==
  ASSUME TypeOK, LoopTest
  PROVE  pack_size \in Nat
<1> DEFINE w == SubSeq(read_data, SizeOffset + 1, HeadLen)
<1>1. read_data \in Seq(Byte) /\ HeadLen < Len(read_data)
  BY HeadLenType DEF TypeOK, Blocks, LoopTest, real_packet_len
<1>2. w \in [1 .. WordLen -> Byte]
  <2>1. w \in Seq(Byte) /\ Len(w) = WordLen
    <3>1. /\ SizeOffset + 1 \in Nat /\ HeadLen \in Nat /\ SizeOffset + 1 >= 1
          /\ HeadLen <= Len(read_data) /\ SizeOffset + 1 <= HeadLen + 1
      BY <1>1, HeadLenType
    <3>2. HeadLen - (SizeOffset + 1) + 1 = WordLen
      BY HeadLenType
    <3> QED BY <1>1, <3>1, <3>2, SubSeqType
  <2> HIDE DEF w
  <2> QED BY <2>1
<1>3. Decode(w) \in Nat
  <2>1. Decode(w) \in Word
    BY <1>2, CodecAssumption
  <2> QED BY <2>1, SizesAssumption DEF Word
<1> HIDE DEF w
<1>4. (Decode(w) + HeadLen) % WordMod \in Nat
  BY <1>3, HeadLenType, SizesAssumption
<1> QED BY <1>4 DEF pack_size, w

\* Handing over a packet and moving the rest down keeps the window.
LEMMA DeliverStreamInv ==
  ASSUME StreamInv, DeliverPacket
  PROVE  StreamInv'
<1> DEFINE c == received - Len(read_data)
           m == Len(read_data)
<1>1. TypeOK /\ BufferInv /\ FramesInv
  BY DEF StreamInv
<1>2. pack_size \in Nat /\ pack_size <= m
  BY <1>1, PackSizeType DEF DeliverPacket, real_packet_len
<1>3. /\ stream \in Seq(Byte) /\ read_data \in Seq(Byte)
      /\ received \in Nat /\ received <= Len(stream)
      /\ m \in Nat /\ m <= cap /\ m <= received /\ cap \in Nat
      /\ read_data = SubSeq(stream, c + 1, received)
  BY <1>1 DEF TypeOK, Blocks, BufferInv, Window, InsideBuffer, consumed, real_packet_len
<1> DEFINE q == pack_size
<1> HIDE DEF q
<1>4. read_data' = SubSeq(read_data, q + 1, m) /\ q \in Nat /\ q <= m
  BY <1>2 DEF q, DeliverPacket, real_packet_len
<1>b. UNCHANGED <<stream, ends, flags, received, cap, hasPack>>
  BY DEF DeliverPacket
<1>c. delivered' \in Seq(Seq(Byte))
  <2>1. SubSeq(read_data, 1, pack_size) \in Seq(Byte)
    BY <1>2, <1>3
  <2> QED BY <1>1, <2>1 DEF TypeOK, Blocks, DeliverPacket
<1>5. read_data' \in Seq(Byte) /\ Len(read_data') = m - q
  <2>1. q + 1 \in Nat /\ q + 1 >= 1 /\ m <= Len(read_data) /\ q + 1 <= m + 1
        /\ m - (q + 1) + 1 = m - q
    BY <1>3, <1>4
  <2>2. ASSUME NEW lo \in Nat, lo >= 1, lo <= m + 1
        PROVE  /\ SubSeq(read_data, lo, m) \in Seq(Byte)
               /\ Len(SubSeq(read_data, lo, m)) = m - lo + 1
    <3>1. read_data \in Seq(Byte)
      BY <1>3
    <3> QED BY <2>2, <3>1, SubSeqType
  <2> QED BY <1>4, <2>1, <2>2
<1>6. read_data' = SubSeq(stream, c + q + 1, received)
  <2>1. c \in Nat
    BY <1>3
  <2>2. SubSeq(SubSeq(stream, c + 1, received), q + 1, m) = SubSeq(stream, c + q + 1, received)
    BY <1>3, <1>4, <2>1
  <2> QED BY <1>3, <1>4, <2>2
<1>7. received' - Len(read_data') = c + q
  <2>1. received' = received
    BY <1>b
  <2>2. received - (m - q) = c + q
    BY <1>3, <1>4
  <2> QED BY <1>5, <2>1, <2>2
<1>9. TypeOK'
  BY <1>1, <1>b, <1>c, <1>5 DEF TypeOK, Blocks
<1>10. BufferInv'
  <2>1. Len(read_data') <= received' /\ Len(read_data') <= cap'
    BY <1>b, <1>3, <1>4, <1>5
  <2> QED BY <1>b, <1>6, <1>7, <2>1
          DEF BufferInv, Window, InsideBuffer, consumed, real_packet_len
<1> QED BY <1>1, <1>b, <1>9, <1>10, FramesUnchanged DEF StreamInv

\* Dropping everything received leaves an empty window.
LEMMA DropStreamInv ==
  ASSUME StreamInv, DropBuffer
  PROVE  StreamInv'
<1> USE DEF DropBuffer
<1>1. TypeOK /\ BufferInv /\ FramesInv
  BY DEF StreamInv
<1>2. read_data' = <<>> /\ Len(read_data') = 0
  OBVIOUS
<1>3. read_data' \in Seq(Byte)
  BY <1>2
<1>4. TypeOK'
  BY <1>1, <1>3 DEF TypeOK, Blocks
<1>5. stream \in Seq(Byte) /\ received \in Nat /\ cap \in Nat
  BY <1>1 DEF TypeOK, Blocks
<1>6. SubSeq(stream, received + 1, received) = <<>>
  BY <1>5
<1>7. BufferInv'
  BY <1>2, <1>5, <1>6 DEF BufferInv, Window, InsideBuffer, consumed, real_packet_len
<1> QED BY <1>1, <1>4, <1>7, FramesUnchanged DEF StreamInv

\* The steps that only leave the loop, and stuttering.
LEMMA LeaveStreamInv ==
  ASSUME StreamInv, WaitForMore \/ LoopEnds \/ UNCHANGED vars
  PROVE  StreamInv'
<1>1. UNCHANGED <<stream, ends, flags, received, read_data, cap, delivered>>
  BY DEF WaitForMore, LoopEnds, vars
<1>2. TypeOK /\ BufferInv /\ FramesInv
  BY DEF StreamInv
<1>3. hasPack' \in BOOLEAN
  BY <1>2 DEF WaitForMore, LoopEnds, vars, TypeOK
<1>4. TypeOK'
  BY <1>1, <1>2, <1>3 DEF TypeOK
<1>5. BufferInv'
  BY <1>1, <1>2 DEF BufferInv, Window, InsideBuffer, consumed, real_packet_len
<1> QED BY <1>1, <1>2, <1>4, <1>5, FramesUnchanged DEF StreamInv

\* No step breaks the invariant of the buffer.
LEMMA NextStreamInv == StreamInv /\ [Next]_vars => StreamInv'
<1> SUFFICES ASSUME StreamInv, [Next]_vars PROVE StreamInv'
  OBVIOUS
<1>1. CASE PeerSends
  BY <1>1, PeerSendStreamInv DEF PeerSends
<1>2. CASE RecvChunk
  BY <1>2, RecvStreamInv DEF RecvChunk
<1>3. CASE DeliverPacket
  BY <1>3, DeliverStreamInv
<1>4. CASE DropBuffer
  BY <1>4, DropStreamInv
<1>5. CASE WaitForMore \/ LoopEnds \/ UNCHANGED vars
  BY <1>5, LeaveStreamInv
<1> QED BY <1>1, <1>2, <1>3, <1>4, <1>5 DEF Next, LoopStep

\* For every stream, whatever flags its packets carry and however it is cut,
\* the variables keep their types, read_data is the unconsumed part of what was
\* received, and no copy leaves the allocated buffer.
THEOREM BufferSafe == Spec => [](TypeOK /\ Window /\ InsideBuffer)
<1>1. StreamInv => TypeOK /\ Window /\ InsideBuffer
  BY DEF StreamInv, BufferInv
<1> QED BY InitStreamInv, NextStreamInv, <1>1, PTL DEF Spec

-----------------------------------------------------------------------------
(***************************************************************************)
(* When every packet carries this PacketSync's flag.                       *)
(***************************************************************************)
\* A number below the modulus is its own remainder.
LEMMA SmallModulo ==
  ASSUME NEW a \in Nat, NEW m \in Nat, a < m
  PROVE  a % m = a
  OBVIOUS

\* Where the buffer starts with a packet of the stream, OnRecvData reads that
\* packet's flag and length.
LEMMA HeaderRead ==
  ASSUME StreamInv, LoopTest, NEW i \in 1 .. Len(ends), StartOf(i) = consumed
  PROVE  /\ consumed \in Nat /\ head_flag = flags[i]
         /\ ends[i] \in Nat /\ pack_size = ends[i] - consumed
         /\ pack_size \in Nat /\ pack_size >= HeadLen
<1> DEFINE c == consumed
           n == Len(read_data)
<1>1. TypeOK /\ BufferInv /\ FramesInv
  BY DEF StreamInv
<1>2. /\ stream \in Seq(Byte) /\ read_data \in Seq(Byte)
      /\ received \in Nat /\ received <= Len(stream)
      /\ n \in Nat /\ n <= received /\ c \in Nat /\ received = c + n /\ n > HeadLen
      /\ read_data = SubSeq(stream, c + 1, received)
  BY <1>1, HeadLenType
  DEF TypeOK, Blocks, BufferInv, Window, InsideBuffer, consumed, real_packet_len, LoopTest
<1> HIDE DEF c, n
<1>3. StartOf(i) = c
  BY DEF c
<1>4. /\ ends[i] - c \in HeadLen .. WordMod - 1
      /\ Decode(SubSeq(stream, c + 1, c + WordLen)) = flags[i]
      /\ Decode(SubSeq(stream, c + SizeOffset + 1, c + HeadLen)) = ends[i] - c - HeadLen
  BY <1>1, <1>3 DEF FramesInv
<1>5. ends[i] \in Nat
  BY <1>1 DEF TypeOK
<1>6. ASSUME NEW lo \in Nat, NEW hi \in Nat, lo >= 1, lo <= hi + 1, hi <= n
      PROVE  SubSeq(read_data, lo, hi) = SubSeq(stream, c + lo, c + hi)
  <2>1. c <= received /\ hi <= received - c
    BY <1>2, <1>6
  <2> QED BY <1>2, <1>6, <2>1, SubSeqOfWindow
<1>7. head_flag = flags[i]
  <2>1. 1 \in Nat /\ WordLen \in Nat /\ 1 >= 1 /\ 1 <= WordLen + 1 /\ WordLen <= n
    BY <1>2, HeadLenType
  <2>2. SubSeq(read_data, 1, WordLen) = SubSeq(stream, c + 1, c + WordLen)
    BY <1>6, <2>1
  <2> QED BY <1>4, <2>2 DEF head_flag
<1>8. pack_size = ends[i] - c /\ pack_size \in Nat /\ pack_size >= HeadLen
  <2>1. /\ SizeOffset + 1 \in Nat /\ HeadLen \in Nat /\ SizeOffset + 1 >= 1
        /\ SizeOffset + 1 <= HeadLen + 1 /\ HeadLen <= n
        /\ c + (SizeOffset + 1) = c + SizeOffset + 1
    BY <1>2, HeadLenType
  <2>2. SubSeq(read_data, SizeOffset + 1, HeadLen) = SubSeq(stream, c + SizeOffset + 1, c + HeadLen)
    BY <1>6, <2>1
  <2>3. pack_size = ((ends[i] - c - HeadLen) + HeadLen) % WordMod
    BY <1>4, <2>2 DEF pack_size
  <2>4. /\ (ends[i] - c - HeadLen) + HeadLen = ends[i] - c
        /\ ends[i] - c \in Nat /\ ends[i] - c < WordMod /\ ends[i] - c >= HeadLen
    <3>1. ends[i] - c \in HeadLen .. WordMod - 1 /\ c \in Nat
      BY <1>2, <1>4
    <3> QED BY <1>5, <3>1, HeadLenType
  <2>5. (ends[i] - c) % WordMod = ends[i] - c
    BY <2>4, HeadLenType, SmallModulo
  <2> QED BY <2>3, <2>4, <2>5
<1> QED BY <1>2, <1>5, <1>7, <1>8 DEF c

\* The block handed over there is that packet, and the buffer starts behind it.
LEMMA BlockHandedOver ==
  ASSUME StreamInv, DeliverPacket, NEW i \in 1 .. Len(ends), StartOf(i) = consumed
  PROVE  /\ delivered' = Append(delivered, PacketOf(i))
         /\ consumed' = ends[i]
<1> DEFINE q == pack_size
           c == consumed
<1>1. TypeOK /\ BufferInv
  BY DEF StreamInv
<1>2. /\ StartOf(i) = c /\ c \in Nat
      /\ ends[i] \in Nat /\ q = ends[i] - c /\ q \in Nat
  BY <1>1, HeaderRead DEF DeliverPacket
<1>3. /\ q <= Len(read_data) /\ delivered' = Append(delivered, SubSeq(read_data, 1, q))
      /\ read_data' = SubSeq(read_data, q + 1, Len(read_data))
      /\ UNCHANGED <<stream, ends, flags, received, cap>> /\ hasPack' = hasPack /\ hasPack
  BY DEF DeliverPacket, real_packet_len
<1> HIDE DEF q, c
<1>4. /\ stream \in Seq(Byte) /\ read_data \in Seq(Byte)
      /\ received \in Nat /\ received <= Len(stream) /\ Len(read_data) <= received
      /\ received = c + Len(read_data)
      /\ read_data = SubSeq(stream, c + 1, received)
  BY <1>1 DEF TypeOK, Blocks, BufferInv, Window, consumed, real_packet_len, c
<1> DEFINE m == Len(read_data)
<1>a. m \in Nat /\ m <= received /\ received = c + m /\ received \in Nat /\ q <= m
  <2>1. m \in Nat
    BY <1>4
  <2>2. q <= m
    BY <1>3
  <2> QED BY <1>4, <2>1, <2>2
<1>c. q \in Nat /\ c \in Nat
  BY <1>2
<1>b. ends[i] = c + q
  BY <1>2
<1>5. SubSeq(read_data, 1, q) = SubSeq(stream, c + 1, ends[i])
  <2>1. c <= received /\ 1 \in Nat /\ 1 >= 1 /\ 1 <= q + 1 /\ q <= received - c
    <3> HIDE DEF m
    <3> QED BY <1>a, <1>c
  <2>2. SubSeq(read_data, 1, q) = SubSeq(stream, c + 1, c + q)
    <3>1. ASSUME NEW lo \in Nat, NEW hi \in Nat, lo >= 1, lo <= hi + 1, hi <= received - c
          PROVE  SubSeq(read_data, lo, hi) = SubSeq(stream, c + lo, c + hi)
      <4>1. stream \in Seq(Byte) /\ received \in Nat /\ received <= Len(stream) /\ c \in Nat
        BY <1>2, <1>4
      <4> QED BY <1>4, <2>1, <3>1, <4>1, SubSeqOfWindow
    <3> QED BY <1>2, <2>1, <3>1
  <2> QED BY <1>b, <2>2
<1>6. delivered' = Append(delivered, PacketOf(i))
  BY <1>2, <1>3, <1>5 DEF PacketOf
<1>8. consumed' = ends[i]
  <2>1. Len(read_data') = m - q
    <3>1. q + 1 \in Nat /\ q + 1 >= 1 /\ q + 1 <= m + 1 /\ m - (q + 1) + 1 = m - q
      <4> HIDE DEF m
      <4> QED BY <1>a, <1>c
    <3>2. ASSUME NEW lo \in Nat, lo >= 1, lo <= m + 1
          PROVE  Len(SubSeq(read_data, lo, m)) = m - lo + 1
      <4>1. read_data \in Seq(Byte)
        BY <1>4
      <4>2. m \in Nat /\ m <= Len(read_data)
        BY <1>a
      <4> QED BY <3>2, <4>1, <4>2, SubSeqType
    <3> QED BY <1>3, <3>1, <3>2
  <2>2. received' - Len(read_data') = ends[i]
    <3>1. received - (m - q) = c + q
      <4> HIDE DEF m
      <4> QED BY <1>a, <1>c
    <3> QED BY <1>3, <1>b, <2>1, <3>1
  <2> QED BY <2>2 DEF consumed, real_packet_len
<1> QED BY <1>6, <1>8

\* The packet at the front of the buffer is the first one not yet delivered, and
\* OnRecvData reads its flag and its length.
LEMMA FrontPacket ==
  ASSUME Flags = {HeadFlag}, StreamInv, Aligned, LoopTest
  PROVE  LET i == Len(delivered) + 1 IN
         /\ i \in 1 .. Len(ends)
         /\ StartOf(i) = consumed /\ consumed \in Nat
         /\ head_flag = HeadFlag
         /\ ends[i] \in Nat /\ pack_size = ends[i] - consumed
         /\ pack_size \in Nat /\ pack_size >= HeadLen
<1>1. TypeOK /\ BufferInv /\ FramesInv
  BY DEF StreamInv
<1>2. consumed < Len(stream) /\ consumed \in Nat /\ Len(stream) \in Nat
  BY <1>1, HeadLenType
  DEF TypeOK, Blocks, BufferInv, consumed, real_packet_len, LoopTest
<1>3. /\ Len(delivered) \in Nat /\ Len(ends) \in Nat /\ Len(delivered) <= Len(ends)
      /\ consumed = Boundary(Len(delivered)) /\ Boundary(Len(ends)) = Len(stream)
  BY <1>1 DEF TypeOK, Aligned, FramesInv
<1>4. Len(delivered) # Len(ends)
  BY <1>2, <1>3
<1> PICK i \in Nat : i = Len(delivered) + 1
  BY <1>3
<1>5. i \in 1 .. Len(ends) /\ i - 1 = Len(delivered)
  BY <1>3, <1>4
<1>6. StartOf(i) = consumed
  BY <1>3, <1>5 DEF StartOf
<1>7. flags[i] = HeadFlag
  <2>1. i \in 1 .. Len(flags)
    BY <1>1, <1>5 DEF FramesInv
  <2> QED BY <1>1, <2>1 DEF TypeOK
<1> QED BY <1>5, <1>6, <1>7, HeaderRead

\* A packet of the stream stays what it is when the peer sends another one.
LEMMA EarlierPackets ==
  ASSUME StreamInv, NEW f \in Flags, NEW t \in Types, NEW d \in Payloads,
         PeerSend(f, t, d)
  PROVE  \A i \in 1 .. Len(ends) : PacketOf(i)' = PacketOf(i)
<1>1. TypeOK /\ BufferInv /\ FramesInv
  BY DEF StreamInv
<1>3. /\ Len(ends) \in Nat
      /\ Len(ends') = Len(ends) + 1 /\ \A i \in 1 .. Len(ends) : ends'[i] = ends[i]
  BY <1>1 DEF TypeOK, PeerSend
<1>4. Packet(f, t, d) \in Seq(Byte) /\ Len(Packet(f, t, d)) \in Nat
      /\ Len(Packet(f, t, d)) >= HeadLen
  BY PacketLayout, HeadLenType
<1>5. /\ stream' = stream \o Packet(f, t, d) /\ stream \in Seq(Byte)
      /\ Len(stream') = Len(stream) + Len(Packet(f, t, d)) /\ Len(stream) \in Nat
  BY <1>1, <1>4 DEF PeerSend, TypeOK, Blocks
<1>6. \A i \in 0 .. Len(ends) : Boundary(i)' = Boundary(i)
  BY <1>3 DEF Boundary
<1> SUFFICES ASSUME NEW i \in 1 .. Len(ends) PROVE PacketOf(i)' = PacketOf(i)
  OBVIOUS
<1>11. ends'[i] = ends[i] /\ StartOf(i)' = StartOf(i)
  BY <1>3, <1>6 DEF StartOf
<1>12. ends[i] \in Nat /\ ends[i] <= Len(stream)
  <2>1. Len(ends) \in 1 .. Len(ends) /\ i <= Len(ends) /\ Len(ends) # 0
    BY <1>3
  <2>2. ends[Len(ends)] = Len(stream)
    BY <1>1, <2>1 DEF FramesInv, Boundary
  <2> QED BY <1>1, <2>1, <2>2 DEF FramesInv, TypeOK
<1>13. StartOf(i) \in Nat /\ StartOf(i) + 1 <= ends[i] + 1
  <2>1. i - 1 \in 0 .. Len(ends)
    BY <1>3
  <2>2. Boundary(i - 1) \in Nat
    BY <1>1, <2>1 DEF Boundary, TypeOK
  <2>3. ends[i] - StartOf(i) \in HeadLen .. WordMod - 1
    BY <1>1 DEF FramesInv
  <2> QED BY <1>12, <2>2, <2>3, HeadLenType DEF StartOf
<1> DEFINE s == StartOf(i)
<1> HIDE DEF s
<1>14. s + 1 \in Nat /\ s + 1 >= 1 /\ s + 1 <= ends[i] + 1
  BY <1>13 DEF s
<1>15. SubSeq(stream', s + 1, ends[i]) = SubSeq(stream, s + 1, ends[i])
  <2>1. stream' = stream \o Packet(f, t, d) /\ stream \in Seq(Byte) /\ Packet(f, t, d) \in Seq(Byte)
    BY <1>4, <1>5
  <2>2. ASSUME NEW lo \in Nat, NEW hi \in Nat, lo >= 1, lo <= hi + 1, hi <= Len(stream)
        PROVE  SubSeq(stream', lo, hi) = SubSeq(stream, lo, hi)
    BY <2>1, <2>2, SubSeqOfPrefix
  <2> QED BY <1>12, <1>14, <2>2
<1> QED BY <1>11, <1>15 DEF PacketOf, s

\* Outside the loop nothing happens to the buffer; the peer's step only adds
\* packets behind the ones there are.
LEMMA PeerSendAligned ==
  ASSUME IInv, NEW f \in Flags, NEW t \in Types, NEW d \in Payloads,
         PeerSend(f, t, d)
  PROVE  (Aligned /\ DeliveredInOrder /\ NothingReady)'
<1> DEFINE nd == Len(delivered)
<1>1. TypeOK /\ BufferInv /\ FramesInv /\ Aligned /\ DeliveredInOrder /\ NothingReady
  BY DEF IInv, StreamInv
<1>2. UNCHANGED <<received, read_data, cap, hasPack, delivered>>
  BY DEF PeerSend
<1>3. /\ nd \in Nat /\ Len(ends) \in Nat /\ nd <= Len(ends)
      /\ Len(ends') = Len(ends) + 1 /\ \A i \in 1 .. Len(ends) : ends'[i] = ends[i]
      /\ ends'[Len(ends) + 1] = Len(stream')
  BY <1>1 DEF TypeOK, Aligned, PeerSend
<1>6. \A i \in 0 .. Len(ends) : Boundary(i)' = Boundary(i)
  BY <1>3 DEF Boundary
<1>7. Aligned'
  BY <1>1, <1>2, <1>3, <1>6 DEF Aligned, consumed, real_packet_len
<1>8. \A i \in 1 .. Len(ends) : PacketOf(i)' = PacketOf(i)
  BY EarlierPackets DEF IInv
<1>9. DeliveredInOrder'
  BY <1>1, <1>2, <1>3, <1>8 DEF DeliveredInOrder
<1>10. NothingReady'
  <2>1. hasPack' = hasPack /\ real_packet_len' = real_packet_len /\ received' = received
        /\ Len(delivered') = nd
    BY <1>2 DEF real_packet_len
  <2>2. CASE nd < Len(ends)
    <3>1. nd < Len(ends') /\ ends'[nd + 1] = ends[nd + 1]
      BY <1>3, <2>2
    <3> QED BY <1>1, <2>1, <3>1 DEF NothingReady
  <2>3. CASE nd = Len(ends)
    BY <1>1, <2>1, <2>3 DEF NothingReady
  <2> QED BY <1>3, <2>2, <2>3
<1> QED BY <1>7, <1>9, <1>10

\* A chunk is added at the end: the buffer starts where it did.
LEMMA RecvConsumed ==
  ASSUME TypeOK, NEW n \in 1 .. ReadBufferLen, Recv(n)
  PROVE  consumed' = consumed
<1>1. /\ n \in Nat /\ stream \in Seq(Byte) /\ read_data \in Seq(Byte)
      /\ received \in Nat /\ received + n <= Len(stream)
  BY SizesAssumption DEF TypeOK, Blocks, Recv
<1>2. Len(read_data \o SubSeq(stream, received + 1, received + n)) = Len(read_data) + n
  BY <1>1
<1> QED BY <1>1, <1>2 DEF Recv, consumed, real_packet_len

\* A chunk that arrives leaves the buffer starting where a packet starts.
LEMMA RecvAligned ==
  ASSUME IInv, NEW n \in 1 .. ReadBufferLen, Recv(n)
  PROVE  (Aligned /\ DeliveredInOrder /\ NothingReady)'
<1>1. TypeOK /\ Aligned /\ DeliveredInOrder
  BY DEF IInv, StreamInv
<1>2. UNCHANGED <<stream, ends, delivered>> /\ hasPack' = TRUE
  BY DEF Recv
<1>3. consumed' = consumed
  BY <1>1, RecvConsumed
<1>4. Aligned'
  BY <1>1, <1>2, <1>3 DEF Aligned, Boundary
<1>5. DeliveredInOrder'
  BY <1>1, <1>2 DEF DeliveredInOrder, PacketOf, StartOf, Boundary
<1>6. NothingReady'
  BY <1>2 DEF NothingReady
<1> QED BY <1>4, <1>5, <1>6

\* The loop's steps.  The delivered block is the next packet of the stream.
LEMMA DeliverAligned ==
  ASSUME Flags = {HeadFlag}, IInv, DeliverPacket
  PROVE  /\ Len(delivered) < Len(ends)
         /\ delivered' = Append(delivered, PacketOf(Len(delivered) + 1))
         /\ (Aligned /\ DeliveredInOrder /\ NothingReady)'
<1> DEFINE i == Len(delivered) + 1
<1>1. TypeOK /\ BufferInv /\ Aligned /\ DeliveredInOrder /\ StreamInv
  BY DEF IInv, StreamInv
<1>2. i \in 1 .. Len(ends) /\ StartOf(i) = consumed
  BY <1>1, FrontPacket DEF DeliverPacket
<1>3. UNCHANGED <<stream, ends, flags, received, cap>> /\ hasPack' = hasPack /\ hasPack
  BY DEF DeliverPacket
<1>6. delivered' = Append(delivered, PacketOf(i))
  BY <1>1, <1>2, BlockHandedOver
<1>7. Len(delivered') = i /\ Len(delivered) \in Nat
  BY <1>1, <1>6 DEF TypeOK
<1>8. consumed' = ends[i]
  BY <1>1, <1>2, BlockHandedOver
<1>9. Aligned'
  BY <1>2, <1>3, <1>7, <1>8 DEF Aligned, Boundary
<1>10. DeliveredInOrder'
  <2>1. \A k \in 1 .. Len(ends) : PacketOf(k)' = PacketOf(k)
    BY <1>3 DEF PacketOf, StartOf, Boundary
  <2>2. Len(delivered') <= Len(ends')
    BY <1>2, <1>3, <1>7
  <2>3. ASSUME NEW k \in 1 .. Len(delivered')
        PROVE  delivered'[k] = PacketOf(k)'
    <3>1. CASE k = i
      BY <1>1, <1>2, <1>6, <2>1, <3>1 DEF TypeOK
    <3>2. CASE k # i
      <4>1. k \in 1 .. Len(delivered) /\ k \in 1 .. Len(ends)
        BY <1>2, <1>7, <2>3, <3>2
      <4>2. delivered'[k] = delivered[k]
        BY <1>1, <1>6, <4>1 DEF TypeOK
      <4> QED BY <1>1, <2>1, <4>1, <4>2 DEF DeliveredInOrder
    <3> QED BY <3>1, <3>2
  <2> QED BY <2>2, <2>3 DEF DeliveredInOrder
<1>11. NothingReady'
  BY <1>3 DEF NothingReady
<1> QED BY <1>2, <1>6, <1>7, <1>9, <1>10, <1>11

\* The loop is left only when no packet is ready, and never by dropping bytes.
LEMMA LeaveAligned ==
  ASSUME Flags = {HeadFlag}, IInv, WaitForMore \/ LoopEnds \/ UNCHANGED vars
  PROVE  (Aligned /\ DeliveredInOrder /\ NothingReady)'
<1>1. TypeOK /\ StreamInv /\ Aligned /\ DeliveredInOrder /\ NothingReady
  BY DEF IInv, StreamInv
<1>2. UNCHANGED <<stream, ends, flags, received, read_data, delivered>>
  BY DEF WaitForMore, LoopEnds, vars
<1>3. Aligned'
  BY <1>1, <1>2 DEF Aligned, consumed, real_packet_len, Boundary
<1>4. DeliveredInOrder'
  BY <1>1, <1>2 DEF DeliveredInOrder, PacketOf, StartOf, Boundary
<1>5. ASSUME WaitForMore PROVE NothingReady'
  <2>1. /\ Len(delivered) + 1 \in 1 .. Len(ends) /\ consumed \in Nat
        /\ ends[Len(delivered) + 1] \in Nat
        /\ pack_size = ends[Len(delivered) + 1] - consumed
    BY <1>1, <1>5, FrontPacket DEF WaitForMore
  <2>2. received \in Nat /\ Len(read_data) \in Nat /\ consumed = received - Len(read_data)
        /\ Len(delivered) \in Nat /\ Len(ends) \in Nat
    BY <1>1 DEF TypeOK, Blocks, consumed, real_packet_len
  <2>3. pack_size > Len(read_data)
    BY <1>5 DEF WaitForMore, real_packet_len
  <2>4. Len(delivered) < Len(ends) /\ ends[Len(delivered) + 1] > received
    BY <2>1, <2>2, <2>3
  <2> QED BY <1>2, <2>4 DEF NothingReady
<1>6. ASSUME LoopEnds PROVE NothingReady'
  <2>1. real_packet_len <= HeadLen
    BY <1>1, <1>6, HeadLenType DEF LoopEnds, LoopTest, real_packet_len, TypeOK, Blocks
  <2> QED BY <1>2, <2>1 DEF NothingReady, real_packet_len
<1>7. ASSUME UNCHANGED vars PROVE NothingReady'
  BY <1>1, <1>7 DEF NothingReady, real_packet_len, vars
<1> QED BY <1>3, <1>4, <1>5, <1>6, <1>7

\* With peers of one flag the loop never takes the branch that drops bytes.
LEMMA NeverDrops ==
  ASSUME Flags = {HeadFlag}, IInv
  PROVE  ~DropBuffer
  BY FrontPacket DEF IInv, DropBuffer

\* The constructor's state satisfies the inductive invariant.
LEMMA InitIInv == Init => IInv
<1> SUFFICES ASSUME Init PROVE IInv
  OBVIOUS
<1>1. StreamInv
  BY InitStreamInv
<1>2. delivered = <<>> /\ ends = <<>> /\ read_data = <<>> /\ received = 0
  BY DEF Init
<1>3. Aligned
  <2>1. Len(delivered) = 0 /\ Len(ends) = 0 /\ Len(read_data) = 0
    BY <1>2
  <2>2. consumed = 0
    <3>1. received = 0
      BY DEF Init
    <3> QED BY <2>1, <3>1 DEF consumed, real_packet_len
  <2>3. Boundary(Len(delivered)) = 0
    BY <2>1 DEF Boundary
  <2> QED BY <2>1, <2>2, <2>3 DEF Aligned
<1>4. DeliveredInOrder
  BY <1>2 DEF DeliveredInOrder
<1>5. NothingReady
  BY <1>2, HeadLenType DEF NothingReady, real_packet_len
<1> QED BY <1>1, <1>3, <1>4, <1>5 DEF IInv

\* No step breaks it when every packet carries this PacketSync's flag.
LEMMA NextIInv ==
  ASSUME Flags = {HeadFlag}
  PROVE  IInv /\ [Next]_vars => IInv'
<1> SUFFICES ASSUME IInv, [Next]_vars PROVE IInv'
  OBVIOUS
<1>1. StreamInv'
  BY NextStreamInv DEF IInv
<1>2. CASE PeerSends
  BY <1>1, <1>2, PeerSendAligned DEF PeerSends, IInv
<1>3. CASE RecvChunk
  BY <1>1, <1>3, RecvAligned DEF RecvChunk, IInv
<1>4. CASE DeliverPacket
  BY <1>1, <1>4, DeliverAligned DEF IInv
<1>5. CASE DropBuffer
  BY <1>5, NeverDrops
<1>6. CASE WaitForMore \/ LoopEnds \/ UNCHANGED vars
  BY <1>1, <1>6, LeaveAligned DEF IInv
<1> QED BY <1>2, <1>3, <1>4, <1>5, <1>6 DEF Next, LoopStep

\* When all packets carry this PacketSync's flag, the buffer always starts where a
\* packet of the stream starts, and between two calls of OnRecvData it holds none
\* that could be handed over.
THEOREM Inductive ==
  ASSUME Flags = {HeadFlag}
  PROVE  Spec => []IInv
<1>1. IInv /\ [Next]_vars => IInv'
  BY NextIInv
<1> QED BY InitIInv, <1>1, PTL DEF Spec

\* When all packets carry this PacketSync's flag, the blocks handed to the
\* application are the packets sent, whole and in order, however the stream was
\* cut into chunks.
THEOREM PacketsInOrder ==
  ASSUME Flags = {HeadFlag}
  PROVE  Spec => []DeliveredInOrder
<1>1. IInv => DeliveredInOrder
  BY DEF IInv
<1> QED BY <1>1, Inductive, PTL

\* What was handed over when OnRecvData returns depends only on the bytes that
\* came, not on how they were cut.
THEOREM CutDoesNotMatter ==
  ASSUME Flags = {HeadFlag}
  PROVE  Spec => []ChunkingIndependent
<1>1. ASSUME IInv PROVE ChunkingIndependent
  <2>1. TypeOK /\ BufferInv /\ FramesInv /\ Aligned /\ NothingReady
    BY <1>1 DEF IInv, StreamInv
  <2>2. /\ received \in Nat /\ Len(read_data) \in Nat /\ Len(delivered) \in Nat
        /\ Len(ends) \in Nat /\ Len(delivered) <= Len(ends)
        /\ \A j \in 1 .. Len(ends) : ends[j] \in Nat
    BY <2>1 DEF TypeOK, Blocks, Aligned
  <2> SUFFICES ASSUME ~hasPack, NEW i \in 1 .. Len(ends), i > Len(delivered),
                      \/ ends[i] < received
                      \/ ends[i] = received /\ ends[i] > StartOf(i) + HeadLen
               PROVE  FALSE
    BY <2>2 DEF ChunkingIndependent
  <2> DEFINE j == Len(delivered) + 1
  <2>3. j \in 1 .. Len(ends) /\ j <= i /\ j - 1 = Len(delivered)
    BY <2>2
  <2>4. ends[j] <= ends[i] /\ ends[i] <= received
    BY <2>1, <2>2, <2>3 DEF FramesInv
  <2>5. Len(read_data) <= HeadLen
    BY <2>1, <2>2, <2>3, <2>4 DEF NothingReady, real_packet_len
  <2>6. StartOf(j) = received - Len(read_data)
    BY <2>1, <2>3 DEF Aligned, StartOf, consumed, real_packet_len
  <2>7. ends[j] - StartOf(j) \in HeadLen .. WordMod - 1
    BY <2>1, <2>3 DEF FramesInv
  <2>8. ends[j] >= received /\ Len(read_data) = HeadLen
    <3>1. received - Len(read_data) \in Int /\ ends[j] \in Nat
      BY <2>2, <2>3
    <3>2. ends[j] - (received - Len(read_data)) >= HeadLen
      BY <2>6, <2>7, <3>1, HeadLenType
    <3>3. ends[j] <= received
      BY <2>2, <2>3, <2>4
    <3> QED BY <2>2, <2>5, <3>1, <3>2, <3>3, HeadLenType
  <2>9. ends[i] = received
    BY <2>2, <2>3, <2>4, <2>8
  <2>10. CASE i = j
    BY <2>2, <2>6, <2>8, <2>9, <2>10, HeadLenType
  <2>11. CASE i # j
    <3>1. i - 1 \in 1 .. Len(ends) /\ j <= i - 1 /\ i - 1 # 0
      BY <2>2, <2>3, <2>11
    <3>2. ends[j] <= ends[i - 1] /\ StartOf(i) = ends[i - 1]
      BY <2>1, <2>3, <3>1 DEF FramesInv, StartOf, Boundary
    <3>3. ends[i] - StartOf(i) \in HeadLen .. WordMod - 1
      BY <2>1 DEF FramesInv
    <3>4. ends[i - 1] \in Nat /\ ends[j] \in Nat
      BY <2>2, <2>3, <3>1
    <3>5. HeadLen \in Nat /\ HeadLen > 0
      BY HeadLenType
    <3>6. ends[i] - ends[i - 1] >= HeadLen
      BY <3>2, <3>3
    <3>7. ends[i] <= ends[j] /\ ends[i] \in Nat
      BY <2>2, <2>8, <2>9
    <3>8. ends[j] <= ends[i - 1]
      BY <3>2
    <3> QED BY <3>4, <3>5, <3>6, <3>7, <3>8
  <2> QED BY <2>10, <2>11
<1>2. IInv => ChunkingIndependent
  BY <1>1
<1> QED BY <1>2, Inductive, PTL

(***************************************************************************)
(* Refinement: the application sees a first-in-first-out channel.          *)
(***************************************************************************)
SentPackets == [i \in 1 .. Len(ends) |-> PacketOf(i)]

\* DeliverPacket takes the next packet out of the channel.
LEMMA ChannelDelivers ==
  ASSUME Flags = {HeadFlag}, IInv, DeliverPacket
  PROVE  Channel!Get
<1>1. /\ Len(delivered) < Len(ends)
      /\ delivered' = Append(delivered, PacketOf(Len(delivered) + 1))
  BY DeliverAligned
<1>2. Len(delivered) \in Nat /\ Len(ends) \in Nat
  BY DEF IInv, StreamInv, TypeOK
<1>3. Len(SentPackets) = Len(ends)
      /\ SentPackets[Len(delivered) + 1] = PacketOf(Len(delivered) + 1)
  BY <1>1, <1>2 DEF SentPackets
<1>4. SentPackets' = SentPackets
  BY DEF DeliverPacket, SentPackets, PacketOf, StartOf, Boundary
<1> QED BY <1>1, <1>3, <1>4 DEF Channel!Get, SentPackets

\* PeerSend puts a packet into the channel.
LEMMA ChannelAccepts ==
  ASSUME IInv, NEW f \in Flags, NEW t \in Types, NEW d \in Payloads,
         PeerSend(f, t, d)
  PROVE  Channel!Put(Packet(f, t, d))
<1> DEFINE p == Packet(f, t, d)
           n == Len(ends)
<1>1. TypeOK /\ FramesInv /\ StreamInv
  BY DEF IInv, StreamInv
<1>2. p \in Seq(Byte) /\ Len(p) \in Nat
  BY PacketLayout, HeadLenType
<1> HIDE DEF p
<1>3. /\ stream' = stream \o p /\ stream \in Seq(Byte) /\ Len(stream) \in Nat
      /\ Len(stream') = Len(stream) + Len(p)
  BY <1>1, <1>2 DEF PeerSend, TypeOK, Blocks, p
<1>4. /\ n \in Nat /\ Len(ends') = n + 1 /\ ends'[n + 1] = Len(stream')
      /\ \A i \in 1 .. n : ends'[i] = ends[i]
  BY <1>1, <1>3 DEF PeerSend, TypeOK
<1>5. ASSUME NEW k, k = n + 1
      PROVE  PacketOf(k)' = p
  <2>1. StartOf(k)' = Len(stream)
    <3>1. Boundary(n) = Len(stream)
      BY <1>1 DEF FramesInv
    <3>2. StartOf(k)' = IF n = 0 THEN 0 ELSE ends'[n]
      BY <1>4, <1>5 DEF StartOf, Boundary
    <3> QED BY <1>4, <3>1, <3>2 DEF Boundary
  <2>2. SubSeq(stream', Len(stream) + 1, Len(stream')) = p
    <3>1. SubSeq(stream \o p, Len(stream) + 1, Len(stream) + Len(p)) = SubSeq(p, 1, Len(p))
      BY <1>2, <1>3
    <3>2. SubSeq(p, 1, Len(p)) = p
      BY <1>2
    <3> QED BY <1>3, <3>1, <3>2
  <2>3. ends'[k] = Len(stream')
    BY <1>4, <1>5
  <2> QED BY <2>1, <2>2, <2>3 DEF PacketOf
<1>6. \A i \in 1 .. n : PacketOf(i)' = PacketOf(i)
  BY <1>1, EarlierPackets
<1>7. SentPackets' = Append(SentPackets, p)
  <2>1. SentPackets' = [i \in 1 .. n + 1 |-> PacketOf(i)']
    BY <1>4 DEF SentPackets
  <2>2. Len(SentPackets) = n
    BY <1>4 DEF SentPackets
  <2>3. Append(SentPackets, p)
          = [i \in 1 .. n + 1 |-> IF i = n + 1 THEN p ELSE SentPackets[i]]
    BY <1>4, <2>2 DEF SentPackets
  <2>4. \A i \in 1 .. n + 1 : PacketOf(i)' = IF i = n + 1 THEN p ELSE SentPackets[i]
    BY <1>4, <1>5, <1>6 DEF SentPackets
  <2> QED BY <2>1, <2>3, <2>4
<1>8. delivered' = delivered
  BY DEF PeerSend
<1> QED BY <1>7, <1>8 DEF Channel!Put, SentPackets, p

\* Steps that touch neither the packets nor the blocks leave the channel alone.
LEMMA ChannelIdle ==
  ASSUME RecvChunk \/ WaitForMore \/ LoopEnds \/ UNCHANGED vars
  PROVE  UNCHANGED Channel!channel
<1>1. UNCHANGED <<stream, ends, delivered>>
  BY DEF RecvChunk, Recv, WaitForMore, LoopEnds, vars
<1> QED BY <1>1 DEF Channel!channel, PacketOf, StartOf, Boundary

\* Every step of reassembly is a step of the channel, or leaves it alone.
LEMMA ChannelStep ==
  ASSUME Flags = {HeadFlag}
  PROVE  IInv /\ [Next]_vars => [Channel!ChannelNext]_(Channel!channel)
<1> SUFFICES ASSUME IInv, [Next]_vars PROVE [Channel!ChannelNext]_(Channel!channel)
  OBVIOUS
<1>1. CASE PeerSends
  <2>1. PICK f \in Flags, t \in Types, d \in Payloads : PeerSend(f, t, d)
    BY <1>1 DEF PeerSends
  <2>2. Channel!Put(Packet(f, t, d)) /\ f = HeadFlag
    BY <2>1, ChannelAccepts
  <2> QED BY <2>2 DEF Channel!ChannelNext
<1>2. CASE DeliverPacket
  BY <1>2, ChannelDelivers DEF Channel!ChannelNext
<1>3. CASE DropBuffer
  BY <1>3, NeverDrops
<1>4. CASE RecvChunk \/ WaitForMore \/ LoopEnds \/ UNCHANGED vars
  BY <1>4, ChannelIdle
<1> QED BY <1>1, <1>2, <1>3, <1>4 DEF Next, LoopStep

\* Reassembly implements the channel of FramedChannel: the application gets
\* whole packets, first in first out, none lost, none twice.
THEOREM ReassemblyIsAChannel ==
  ASSUME Flags = {HeadFlag}
  PROVE  Spec => ImplementsChannel
<1>1. Init => Channel!ChannelInit
  <2> SUFFICES ASSUME Init PROVE Channel!ChannelInit
    OBVIOUS
  <2>1. ends = <<>> /\ delivered = <<>>
    BY DEF Init
  <2> QED BY <2>1 DEF Channel!ChannelInit
<1>2. IInv /\ [Next]_vars => [Channel!ChannelNext]_(Channel!channel)
  BY ChannelStep
<1> QED BY <1>1, <1>2, Inductive, PTL DEF Spec, ImplementsChannel, Channel!ChannelSpec

(***************************************************************************)
(* Peers of several flags.                                                 *)
(***************************************************************************)
FromPeers == {Packet(f, t, d) : f \in Flags, t \in Types, d \in Payloads}

\* What lies in the stream are packets of the peers, and where a flag can be read
\* a packet starts.
SentByPeers == \A i \in 1 .. Len(ends) : PacketOf(i) \in FromPeers
FlagsMarkStarts ==
  \A p \in 0 .. Len(stream) - WordLen :
    Decode(SubSeq(stream, p + 1, p + WordLen)) = HeadFlag
      => \E i \in 1 .. Len(ends) : StartOf(i) = p

\* The blocks are these packets, and all of them lie before the buffer.
Chosen(f) ==
  \A k \in 1 .. Len(delivered) :
    /\ flags[f[k]] = HeadFlag /\ delivered[k] = PacketOf(f[k])
    /\ ends[f[k]] <= consumed
    /\ \A j \in 1 .. k - 1 : f[j] < f[k]

ChosenInv == \E f \in [1 .. Len(delivered) -> 1 .. Len(ends)] : Chosen(f)

ForeignInv == StreamInv /\ SentByPeers /\ FlagsMarkStarts /\ ChosenInv

\* Where the packets of the stream lie in it.
LEMMA PacketPlaces ==
  ASSUME StreamInv, NEW i \in 1 .. Len(ends)
  PROVE  /\ StartOf(i) \in Nat /\ ends[i] \in Nat /\ ends[i] <= Len(stream)
         /\ StartOf(i) + HeadLen <= ends[i]
         /\ Len(stream) \in Nat /\ Len(ends) \in Nat
<1>1. TypeOK /\ FramesInv
  BY DEF StreamInv
<1>2. Len(ends) \in Nat /\ Len(stream) \in Nat /\ \A j \in 1 .. Len(ends) : ends[j] \in Nat
  BY <1>1 DEF TypeOK, Blocks
<1>3. Len(ends) \in 1 .. Len(ends) /\ Len(ends) # 0 /\ i <= Len(ends)
  BY <1>2
<1>4. ends[Len(ends)] = Len(stream)
  BY <1>1, <1>3 DEF FramesInv, Boundary
<1>5. ends[i] <= Len(stream)
  BY <1>1, <1>3, <1>4 DEF FramesInv
<1>6. StartOf(i) \in Nat
  <2>1. i - 1 = 0 \/ i - 1 \in 1 .. Len(ends)
    BY <1>2
  <2> QED BY <1>2, <2>1 DEF StartOf, Boundary
<1>7. ends[i] - StartOf(i) \in HeadLen .. WordMod - 1
  BY <1>1 DEF FramesInv
<1> QED BY <1>2, <1>5, <1>6, <1>7, HeadLenType

\* The peer's step adds one packet, behind the others.
LEMMA PeerSendAdds ==
  ASSUME StreamInv, NEW f \in Flags, NEW t \in Types, NEW d \in Payloads,
         PeerSend(f, t, d)
  PROVE  /\ Len(ends) \in Nat /\ Len(ends') = Len(ends) + 1
         /\ \A i \in 1 .. Len(ends) :
              /\ ends'[i] = ends[i] /\ flags'[i] = flags[i]
              /\ StartOf(i)' = StartOf(i) /\ PacketOf(i)' = PacketOf(i)
         /\ \A k \in Nat : k = Len(ends) + 1 =>
              StartOf(k)' = Len(stream) /\ PacketOf(k)' = Packet(f, t, d)
<1> DEFINE p == Packet(f, t, d)
           n == Len(ends)
<1>1. TypeOK /\ FramesInv
  BY DEF StreamInv
<1>2. p \in Seq(Byte) /\ Len(p) \in Nat
  BY PacketLayout, HeadLenType
<1> HIDE DEF p
<1>3. /\ stream' = stream \o p /\ stream \in Seq(Byte) /\ Len(stream) \in Nat
      /\ Len(stream') = Len(stream) + Len(p)
  BY <1>1, <1>2 DEF PeerSend, TypeOK, Blocks, p
<1>4. /\ n \in Nat /\ Len(ends') = n + 1 /\ ends'[n + 1] = Len(stream')
      /\ \A i \in 1 .. n : ends'[i] = ends[i]
  BY <1>1, <1>3 DEF PeerSend, TypeOK
<1>5. \A i \in 1 .. n : flags'[i] = flags[i]
  BY <1>1 DEF PeerSend, TypeOK, FramesInv
<1>6. \A i \in 1 .. n : StartOf(i)' = StartOf(i)
  <2>1. \A i \in 1 .. n : i - 1 = 0 \/ i - 1 \in 1 .. n
    BY <1>4
  <2> QED BY <1>4, <2>1 DEF StartOf, Boundary
<1>7. ASSUME NEW k \in Nat, k = n + 1
      PROVE  StartOf(k)' = Len(stream) /\ PacketOf(k)' = p
  <2>1. StartOf(k)' = Len(stream)
    <3>1. Boundary(n) = Len(stream)
      BY <1>1 DEF FramesInv
    <3>2. StartOf(k)' = IF n = 0 THEN 0 ELSE ends'[n]
      BY <1>4, <1>7 DEF StartOf, Boundary
    <3> QED BY <1>4, <3>1, <3>2 DEF Boundary
  <2>2. SubSeq(stream', Len(stream) + 1, Len(stream')) = p
    <3>1. SubSeq(stream \o p, Len(stream) + 1, Len(stream) + Len(p)) = SubSeq(p, 1, Len(p))
      BY <1>2, <1>3
    <3>2. SubSeq(p, 1, Len(p)) = p
      BY <1>2
    <3> QED BY <1>3, <3>1, <3>2
  <2>3. ends'[k] = Len(stream')
    BY <1>4, <1>7
  <2> QED BY <2>1, <2>2, <2>3 DEF PacketOf
<1>8. \A i \in 1 .. n : PacketOf(i)' = PacketOf(i)
  BY EarlierPackets
<1> QED BY <1>4, <1>5, <1>6, <1>7, <1>8 DEF p

\* Where the flag can be read after the peer has sent a packet, a packet starts.
LEMMA PeerSendMarks ==
  ASSUME FlagOnlyAtStart, StreamInv, SentByPeers, FlagsMarkStarts,
         NEW f \in Flags, NEW t \in Types, NEW d \in Payloads, PeerSend(f, t, d)
  PROVE  (SentByPeers /\ FlagsMarkStarts)'
<1> PICK x \in FromPeers : x = Packet(f, t, d)
  BY DEF FromPeers
<1>1. /\ stream \in Seq(Byte) /\ Len(stream) \in Nat /\ x \in Seq(Byte) /\ Len(x) \in Nat
      /\ stream' = stream \o x /\ Len(stream') = Len(stream) + Len(x)
      /\ Len(x) >= HeadLen
  <2>1. x \in Seq(Byte) /\ Len(x) \in HeadLen .. WordMod - 1
    BY PacketLayout
  <2>2. stream \in Seq(Byte)
    BY DEF StreamInv, TypeOK, Blocks
  <2> QED BY <2>1, <2>2, HeadLenType DEF PeerSend
<1>2. /\ Len(ends) \in Nat /\ Len(ends') = Len(ends) + 1
      /\ \A i \in 1 .. Len(ends) :
           StartOf(i)' = StartOf(i) /\ PacketOf(i)' = PacketOf(i)
      /\ \A k \in Nat : k = Len(ends) + 1 =>
           StartOf(k)' = Len(stream) /\ PacketOf(k)' = x
  BY PeerSendAdds
<1>3. \A i \in 1 .. Len(ends') : i \in 1 .. Len(ends) \/ i = Len(ends) + 1
  BY <1>2
<1>4. SentByPeers'
  BY <1>2, <1>3 DEF SentByPeers, FromPeers
<1>5. ASSUME NEW p \in 0 .. Len(stream') - WordLen,
             Decode(SubSeq(stream', p + 1, p + WordLen)) = HeadFlag
      PROVE  \E i \in 1 .. Len(ends') : StartOf(i)' = p
  <2>0. p \in Nat /\ p + WordLen <= Len(stream) + Len(x) /\ WordLen \in Nat
        /\ WordLen <= HeadLen
    BY <1>1, <1>5, HeadLenType
  <2>1. CASE p + WordLen <= Len(stream)
    <3>1. p + 1 \in Nat /\ p + WordLen \in Nat /\ p + 1 >= 1
          /\ p + 1 <= p + WordLen + 1 /\ p \in 0 .. Len(stream) - WordLen
      BY <1>1, <2>0, <2>1
    <3>2. ASSUME NEW lo \in Nat, NEW hi \in Nat, lo >= 1, lo <= hi + 1, hi <= Len(stream)
          PROVE  SubSeq(stream', lo, hi) = SubSeq(stream, lo, hi)
      BY <1>1, <3>2, SubSeqOfPrefix
    <3>3. SubSeq(stream', p + 1, p + WordLen) = SubSeq(stream, p + 1, p + WordLen)
      BY <2>1, <3>1, <3>2
    <3>4. PICK i \in 1 .. Len(ends) : StartOf(i) = p
      BY <1>5, <3>1, <3>3 DEF FlagsMarkStarts
    <3>5. i \in 1 .. Len(ends') /\ StartOf(i)' = p
      BY <1>2, <3>4
    <3> QED BY <3>5
  <2>2. CASE p = Len(stream)
    <3>1. Len(ends) + 1 \in 1 .. Len(ends') /\ Len(ends) + 1 \in Nat
      BY <1>2
    <3> PICK k \in 1 .. Len(ends') : k = Len(ends) + 1
      BY <3>1
    <3>2. StartOf(k)' = p
      BY <1>2, <2>2, <3>1
    <3> QED BY <3>2
  <2>3. CASE p > Len(stream)
    <3>0. p - Len(stream) \in Nat
      BY <1>1, <2>0, <2>3
    <3>1. PICK q \in Nat : q = p - Len(stream)
      BY <3>0
    <3>2. q \in 1 .. Len(x) - 1 /\ q + WordLen <= Len(x) /\ p = Len(stream) + q
      BY <1>1, <2>0, <2>3, <3>1, HeadLenType
    <3>3. ASSUME NEW lo \in Nat, NEW hi \in Nat, lo >= 1, lo <= hi + 1, hi <= Len(x)
          PROVE  SubSeq(stream', Len(stream) + lo, Len(stream) + hi) = SubSeq(x, lo, hi)
      BY <1>1, <3>3, SubSeqOfSuffix
    <3>4. q + 1 \in Nat /\ q + WordLen \in Nat /\ q + 1 >= 1
          /\ q + 1 <= q + WordLen + 1
          /\ Len(stream) + (q + 1) = p + 1 /\ Len(stream) + (q + WordLen) = p + WordLen
      BY <1>1, <2>0, <3>2
    <3>5. SubSeq(stream', p + 1, p + WordLen) = SubSeq(x, q + 1, q + WordLen)
      BY <3>2, <3>3, <3>4
    <3>6. SubSeq(x \o x, q + 1, q + WordLen) = SubSeq(x, q + 1, q + WordLen)
      BY <1>1, <3>2, <3>4, SubSeqOfPrefix
    <3>7. Decode(SubSeq(x \o x, q + 1, q + WordLen)) # HeadFlag
      BY <3>2 DEF FlagOnlyAtStart, FromPeers
    <3> QED BY <1>5, <3>5, <3>6, <3>7
  <2>4. CASE p < Len(stream) /\ p + WordLen > Len(stream)
    <3>1. Len(ends) # 0
      <4>1. Boundary(Len(ends)) = Len(stream)
        BY DEF StreamInv, FramesInv
      <4> QED BY <1>1, <2>0, <2>4, <4>1 DEF Boundary
    <3>2. PICK n \in 1 .. Len(ends) : n = Len(ends)
      BY <1>2, <3>1
    <3>3. ends[n] = Len(stream)
      BY <3>1, <3>2 DEF StreamInv, FramesInv, Boundary
    <3>4. PICK b \in Nat : b = StartOf(n)
      BY PacketPlaces
    <3>5. b + HeadLen <= Len(stream)
      BY <3>3, <3>4, PacketPlaces
    <3>6. PICK q \in Nat : q = p - b
      BY <1>1, <2>0, <2>4, <3>5, HeadLenType
    <3>7. /\ q >= 1 /\ q < Len(stream) - b /\ p = b + q /\ b <= Len(stream)
          /\ q + WordLen <= Len(stream) - b + Len(x)
      BY <1>1, <2>0, <2>4, <3>5, <3>6, HeadLenType
    <3>8. PICK y \in FromPeers : y = PacketOf(n)
      BY DEF SentByPeers
    <3>9. y = SubSeq(stream, b + 1, Len(stream))
      BY <3>3, <3>4, <3>8 DEF PacketOf
    <3>10. Len(y) = Len(stream) - b
      <4>1. b + 1 \in Nat /\ b + 1 >= 1 /\ b + 1 <= Len(stream) + 1
            /\ Len(stream) <= Len(stream) /\ Len(stream) - (b + 1) + 1 = Len(stream) - b
        BY <1>1, <3>7
      <4>2. ASSUME NEW lo \in Nat, lo >= 1, lo <= Len(stream) + 1
            PROVE  Len(SubSeq(stream, lo, Len(stream))) = Len(stream) - lo + 1
        <5> PICK s \in Seq(Byte), k \in Nat : s = stream /\ k = Len(s)
          BY <1>1
        <5>1. k <= Len(s) /\ lo <= k + 1
          BY <4>2
        <5>2. Len(SubSeq(s, lo, k)) = k - lo + 1
          BY <4>2, <5>1, SubSeqType
        <5> QED BY <5>2
      <4>3. Len(SubSeq(stream, b + 1, Len(stream))) = Len(stream) - (b + 1) + 1
        BY <4>1, <4>2
      <4> QED BY <3>9, <4>1, <4>3
    <3>11. PICK u \in Seq(Byte) : u = stream'
      <4>1. stream \o x \in Seq(Byte)
        BY <1>1
      <4> QED BY <1>1, <4>1
    <3>12. PICK e \in Nat : e = Len(u) /\ e = Len(stream) + Len(x)
      <4>1. Len(stream) + Len(x) \in Nat
        BY <1>1
      <4> QED BY <1>1, <3>11, <4>1
    <3>13. y \o x = SubSeq(u, b + 1, e)
      <4>1. ASSUME NEW lo \in Nat, NEW hi \in Nat, lo >= 1, lo <= hi + 1, hi <= Len(stream)
            PROVE  SubSeq(u, lo, hi) = SubSeq(stream, lo, hi)
        BY <1>1, <3>11, <4>1, SubSeqOfPrefix
      <4>2. SubSeq(u, b + 1, Len(stream)) = y
        <5>1. /\ b + 1 \in Nat /\ b + 1 >= 1 /\ b + 1 <= Len(stream) + 1
              /\ Len(stream) <= Len(stream)
          BY <1>1, <3>7
        <5> QED BY <1>1, <3>9, <4>1, <5>1
      <4>3. ASSUME NEW lo \in Nat, NEW hi \in Nat, lo >= 1, lo <= hi + 1, hi <= Len(x)
            PROVE  SubSeq(u, Len(stream) + lo, Len(stream) + hi) = SubSeq(x, lo, hi)
        BY <1>1, <3>11, <4>3, SubSeqOfSuffix
      <4>4. SubSeq(u, Len(stream) + 1, e) = x
        <5>1. 1 \in Nat /\ 1 >= 1 /\ 1 <= Len(x) + 1 /\ Len(x) <= Len(x)
          BY <1>1
        <5>2. SubSeq(u, Len(stream) + 1, Len(stream) + Len(x)) = SubSeq(x, 1, Len(x))
          BY <1>1, <4>3, <5>1
        <5>3. SubSeq(x, 1, Len(x)) = x
          BY <1>1
        <5> QED BY <3>12, <5>2, <5>3
      <4>5. ASSUME NEW m \in Nat, NEW j \in Nat, NEW k \in Nat,
                   m >= 1, m <= j + 1, j <= k, k <= Len(u)
            PROVE  SubSeq(u, m, j) \o SubSeq(u, j + 1, k) = SubSeq(u, m, k)
        BY <4>5, SubSeqAdjacent
      <4>6. /\ b + 1 \in Nat /\ b + 1 >= 1 /\ b + 1 <= Len(stream) + 1
            /\ Len(stream) <= e /\ e <= Len(u)
        BY <1>1, <3>7, <3>12
      <4>7. SubSeq(u, b + 1, Len(stream)) \o SubSeq(u, Len(stream) + 1, e)
              = SubSeq(u, b + 1, e)
        BY <1>1, <4>5, <4>6
      <4> QED BY <4>2, <4>4, <4>7
    <3>14. PICK z : z = y \o x
      OBVIOUS
    <3>15. SubSeq(z, q + 1, q + WordLen) = SubSeq(u, b + (q + 1), b + (q + WordLen))
      <4>1. b <= e /\ e <= Len(u) /\ z = SubSeq(u, b + 1, e)
        BY <1>1, <3>7, <3>11, <3>12, <3>13, <3>14
      <4>2. ASSUME NEW lo \in Nat, NEW hi \in Nat, lo >= 1, lo <= hi + 1, hi <= e - b
            PROVE  SubSeq(z, lo, hi) = SubSeq(u, b + lo, b + hi)
        BY <4>1, <4>2, SubSeqOfWindow
      <4>3. /\ q + 1 \in Nat /\ q + WordLen \in Nat /\ q + 1 >= 1
            /\ q + 1 <= q + WordLen + 1 /\ q + WordLen <= e - b
        BY <1>1, <2>0, <3>7, <3>12
      <4> QED BY <4>2, <4>3
    <3>16. SubSeq(stream', p + 1, p + WordLen) = SubSeq(y \o x, q + 1, q + WordLen)
      <4>1. b + (q + 1) = p + 1 /\ b + (q + WordLen) = p + WordLen
        BY <2>0, <3>7
      <4> QED BY <3>11, <3>14, <3>15, <4>1
    <3>17. q \in 1 .. Len(y) - 1
      BY <1>1, <3>7, <3>10
    <3>18. Decode(SubSeq(y \o x, q + 1, q + WordLen)) # HeadFlag
      BY <3>17 DEF FlagOnlyAtStart, FromPeers
    <3> QED BY <1>5, <3>16, <3>18
  <2> QED BY <1>1, <2>0, <2>1, <2>2, <2>3, <2>4
<1> QED BY <1>4, <1>5 DEF FlagsMarkStarts

\* Nothing but the peer's step touches the stream.
LEMMA MarksUnchanged ==
  ASSUME SentByPeers, FlagsMarkStarts, UNCHANGED <<stream, ends>>
  PROVE  (SentByPeers /\ FlagsMarkStarts)'
<1>1. SentByPeers'
  BY DEF SentByPeers, PacketOf, StartOf, Boundary
<1>2. FlagsMarkStarts'
  BY DEF FlagsMarkStarts, StartOf, Boundary
<1> QED BY <1>1, <1>2

\* Nor does what was chosen change while nothing is handed over and the buffer
\* does not go back.
LEMMA ChosenUnchanged ==
  ASSUME StreamInv, ChosenInv, UNCHANGED <<stream, ends, flags, delivered>>,
         consumed \in Int, consumed' \in Int, consumed' >= consumed
  PROVE  ChosenInv'
<1>1. PICK f \in [1 .. Len(delivered) -> 1 .. Len(ends)] : Chosen(f)
  BY DEF ChosenInv
<1>2. \A k \in 1 .. Len(delivered) : f[k] \in 1 .. Len(ends) /\ ends[f[k]] \in Nat
  BY <1>1 DEF StreamInv, TypeOK
<1>3. \A k \in 1 .. Len(delivered) : ends[f[k]] <= consumed'
  BY <1>1, <1>2 DEF Chosen
<1>4. Chosen(f)'
  BY <1>1, <1>3 DEF Chosen, PacketOf, StartOf, Boundary
<1> QED BY <1>1, <1>4 DEF ChosenInv

\* The flag at the front says that a packet starts there: it is handed over, and
\* it comes after those that were.
LEMMA DeliverChosen ==
  ASSUME ForeignInv, DeliverPacket
  PROVE  ChosenInv'
<1>1. TypeOK /\ BufferInv /\ FramesInv /\ StreamInv
  BY DEF ForeignInv, StreamInv
<1>2. PICK f \in [1 .. Len(delivered) -> 1 .. Len(ends)] : Chosen(f)
  BY DEF ForeignInv, ChosenInv
<1>3. /\ stream \in Seq(Byte) /\ consumed \in Nat /\ received \in Nat
      /\ Len(stream) \in Nat /\ received <= Len(stream) /\ consumed + HeadLen < received
      /\ read_data = SubSeq(stream, consumed + 1, received)
      /\ LoopTest /\ head_flag = HeadFlag
  BY <1>1, HeadLenType
  DEF TypeOK, Blocks, BufferInv, Window, consumed, real_packet_len, DeliverPacket,
      LoopTest
<1>4. PICK c \in Nat : c = consumed
  BY <1>3
<1>5. SubSeq(read_data, 1, WordLen) = SubSeq(stream, c + 1, c + WordLen)
  <2>1. /\ 1 \in Nat /\ WordLen \in Nat /\ 1 >= 1 /\ 1 <= WordLen + 1
        /\ WordLen <= received - c /\ c <= received
        /\ read_data = SubSeq(stream, c + 1, received)
    BY <1>3, <1>4, HeadLenType
  <2> QED BY <1>3, <2>1, SubSeqOfWindow
<1>6. c \in 0 .. Len(stream) - WordLen
  BY <1>3, <1>4, HeadLenType
<1>7. PICK i \in 1 .. Len(ends) : StartOf(i) = c
  BY <1>3, <1>5, <1>6 DEF head_flag, ForeignInv, FlagsMarkStarts
<1>8. flags[i] = HeadFlag /\ ends[i] \in Nat
  BY <1>1, <1>3, <1>4, <1>7, HeaderRead
<1>9. delivered' = Append(delivered, PacketOf(i)) /\ consumed' = ends[i]
  BY <1>1, <1>4, <1>7, BlockHandedOver
<1>10. UNCHANGED <<stream, ends, flags>>
  BY DEF DeliverPacket
<1>11. PICK n \in Nat : n = Len(delivered)
  BY <1>1 DEF TypeOK
<1>12. /\ Len(delivered') = n + 1 /\ delivered'[n + 1] = PacketOf(i)
       /\ \A k \in 1 .. n : delivered'[k] = delivered[k]
  BY <1>1, <1>9, <1>11 DEF TypeOK
<1>13. c < ends[i]
  BY <1>1, <1>4, <1>7, PacketPlaces, HeadLenType
<1>14. ASSUME NEW k \in 1 .. n
       PROVE  f[k] \in 1 .. Len(ends) /\ f[k] < i /\ ends[f[k]] <= ends[i]
  <2>1. f[k] \in 1 .. Len(ends) /\ ends[f[k]] <= c
    BY <1>2, <1>4, <1>11 DEF Chosen
  <2>2. ends[f[k]] \in Nat
    BY <1>1, <2>1 DEF TypeOK
  <2>3. ends[f[k]] < ends[i]
    BY <1>8, <1>13, <2>1, <2>2
  <2>4. ~(i <= f[k])
    BY <1>1, <1>8, <2>1, <2>2, <2>3 DEF FramesInv
  <2>5. Len(ends) \in Nat
    BY <1>1 DEF TypeOK
  <2> QED BY <1>8, <2>1, <2>2, <2>3, <2>4, <2>5
<1>15. PICK g : g = [k \in 1 .. n + 1 |-> IF k = n + 1 THEN i ELSE f[k]]
  OBVIOUS
<1>16. /\ \A k \in 1 .. n : k \in 1 .. n + 1 /\ k # n + 1 /\ g[k] = f[k]
       /\ n + 1 \in 1 .. n + 1 /\ g[n + 1] = i
  BY <1>11, <1>15
<1>17. g \in [1 .. n + 1 -> 1 .. Len(ends)]
  BY <1>14, <1>15
<1>18. \A k \in 1 .. n + 1 : PacketOf(g[k])' = PacketOf(g[k])
  BY <1>10 DEF PacketOf, StartOf, Boundary
<1>19. ASSUME NEW k \in 1 .. n + 1
       PROVE  /\ flags[g[k]] = HeadFlag /\ delivered'[k] = PacketOf(g[k])
              /\ ends[g[k]] <= ends[i]
              /\ \A j \in 1 .. k - 1 : g[j] < g[k]
  <2>1. CASE k = n + 1
    <3>1. \A j \in 1 .. k - 1 : j \in 1 .. n
      BY <1>11, <2>1
    <3>2. \A j \in 1 .. k - 1 : g[j] < g[k]
      BY <1>14, <1>16, <2>1, <3>1
    <3> QED BY <1>8, <1>12, <1>16, <2>1, <3>2
  <2>2. CASE k # n + 1
    <3>1. k \in 1 .. n /\ \A j \in 1 .. k - 1 : j \in 1 .. n
      BY <1>11, <2>2
    <3>2. /\ flags[f[k]] = HeadFlag /\ delivered[k] = PacketOf(f[k])
          /\ \A j \in 1 .. k - 1 : f[j] < f[k]
      BY <1>2, <1>11, <3>1 DEF Chosen
    <3> QED BY <1>12, <1>14, <1>16, <3>1, <3>2
  <2> QED BY <2>1, <2>2
<1>20. g \in [1 .. Len(delivered') -> 1 .. Len(ends')]
  BY <1>10, <1>12, <1>17
<1>21. Chosen(g)'
  BY <1>9, <1>10, <1>12, <1>18, <1>19 DEF Chosen
<1> QED BY <1>20, <1>21 DEF ChosenInv

\* The peer's step leaves what was chosen where it is.
LEMMA PeerSendChosen ==
  ASSUME ForeignInv, NEW f \in Flags, NEW t \in Types, NEW d \in Payloads,
         PeerSend(f, t, d)
  PROVE  ChosenInv'
<1>1. PICK g \in [1 .. Len(delivered) -> 1 .. Len(ends)] : Chosen(g)
  BY DEF ForeignInv, ChosenInv
<1>2. UNCHANGED <<received, read_data, delivered>> /\ consumed' = consumed
  BY DEF PeerSend, consumed, real_packet_len
<1>3. /\ Len(ends) \in Nat /\ Len(ends') = Len(ends) + 1
      /\ \A i \in 1 .. Len(ends) :
           ends'[i] = ends[i] /\ flags'[i] = flags[i] /\ PacketOf(i)' = PacketOf(i)
  BY PeerSendAdds DEF ForeignInv
<1>4. \A k \in 1 .. Len(delivered) : g[k] \in 1 .. Len(ends)
  BY <1>1
<1>5. \A i \in 1 .. Len(ends) : i \in 1 .. Len(ends')
  BY <1>3
<1>6. g \in [1 .. Len(delivered') -> 1 .. Len(ends')]
  BY <1>1, <1>2, <1>4, <1>5
<1>7. Chosen(g)'
  BY <1>1, <1>2, <1>3, <1>4 DEF Chosen
<1> QED BY <1>6, <1>7 DEF ChosenInv

\* No step breaks the invariant, whatever flags the peers use.
LEMMA NextForeign ==
  ASSUME FlagOnlyAtStart
  PROVE  ForeignInv /\ [Next]_vars => ForeignInv'
<1> SUFFICES ASSUME ForeignInv, [Next]_vars PROVE ForeignInv'
  OBVIOUS
<1>1. StreamInv /\ SentByPeers /\ FlagsMarkStarts /\ ChosenInv /\ TypeOK /\ BufferInv
  BY DEF ForeignInv, StreamInv
<1>2. StreamInv'
  BY <1>1, NextStreamInv
<1>3. received \in Nat /\ Len(read_data) \in Nat /\ consumed = received - Len(read_data)
  BY <1>1 DEF TypeOK, Blocks, consumed, real_packet_len
<1>4. CASE PeerSends
  BY <1>1, <1>2, <1>4, PeerSendMarks, PeerSendChosen DEF PeerSends, ForeignInv
<1>5. CASE RecvChunk
  <2>1. PICK n \in 1 .. ReadBufferLen : Recv(n)
    BY <1>5 DEF RecvChunk
  <2>2. consumed' = consumed /\ UNCHANGED <<stream, ends, flags, delivered>>
    BY <1>1, <2>1, RecvConsumed DEF Recv
  <2>3. ChosenInv'
    BY <1>1, <1>3, <2>2, ChosenUnchanged
  <2> QED BY <1>1, <1>2, <2>2, <2>3, MarksUnchanged DEF ForeignInv
<1>6. CASE DeliverPacket
  <2>1. ChosenInv'
    BY <1>6, DeliverChosen
  <2>2. UNCHANGED <<stream, ends>>
    BY <1>6 DEF DeliverPacket
  <2> QED BY <1>1, <1>2, <2>1, <2>2, MarksUnchanged DEF ForeignInv
<1>7. CASE DropBuffer
  <2>1. received' = received /\ read_data' = <<>>
        /\ UNCHANGED <<stream, ends, flags, delivered>>
    BY <1>7 DEF DropBuffer
  <2>2. consumed' = received
    BY <1>3, <2>1 DEF consumed, real_packet_len
  <2>3. ChosenInv'
    BY <1>1, <1>3, <2>1, <2>2, ChosenUnchanged
  <2> QED BY <1>1, <1>2, <2>1, <2>3, MarksUnchanged DEF ForeignInv
<1>8. CASE WaitForMore \/ LoopEnds \/ UNCHANGED vars
  <2>1. consumed' = consumed /\ UNCHANGED <<stream, ends, flags, delivered>>
    BY <1>8 DEF WaitForMore, LoopEnds, vars, consumed, real_packet_len
  <2>2. ChosenInv'
    BY <1>1, <1>3, <2>1, ChosenUnchanged
  <2> QED BY <1>1, <1>2, <2>1, <2>2, MarksUnchanged DEF ForeignInv
<1> QED BY <1>4, <1>5, <1>6, <1>7, <1>8 DEF Next, LoopStep

\* Whatever flags the peers stamp on their packets and however the stream is cut,
\* the blocks handed over are packets that were sent with this PacketSync's flag,
\* whole, each at most once and in order, provided that the flag can be read only
\* where a packet starts: dropping the buffer at a foreign flag (Packet.h:121-123)
\* may lose packets, and never invents one.
THEOREM OnlyOwnPacketsDelivered ==
  ASSUME FlagOnlyAtStart
  PROVE  Spec => []OnlyOwnPackets
<1>1. Init => ForeignInv
  <2> SUFFICES ASSUME Init PROVE ForeignInv
    OBVIOUS
  <2>1. StreamInv
    BY InitStreamInv
  <2>2. Len(ends) = 0 /\ Len(delivered) = 0 /\ Len(stream) = 0
    BY DEF Init
  <2>3. SentByPeers /\ FlagsMarkStarts
    BY <2>2, HeadLenType DEF SentByPeers, FlagsMarkStarts
  <2>4. PICK f : f = [k \in 1 .. Len(delivered) |-> k]
    OBVIOUS
  <2>5. f \in [1 .. Len(delivered) -> 1 .. Len(ends)] /\ Chosen(f)
    BY <2>2, <2>4 DEF Chosen
  <2> QED BY <2>1, <2>3, <2>5 DEF ForeignInv, ChosenInv
<1>2. ForeignInv /\ [Next]_vars => ForeignInv'
  BY NextForeign
<1>3. ForeignInv => OnlyOwnPackets
  BY DEF ForeignInv, ChosenInv, Chosen, OnlyOwnPackets
<1> QED BY <1>1, <1>2, <1>3, PTL DEF Spec
=============================================================================
