----------------------------- MODULE RingFrame ------------------------------
(***************************************************************************)
(* Layout of one packet in the circular buffer of a connection             *)
(* (LocateInRingBuf and the packet arithmetic of ProcessSendQ).            *)
(*                                                                         *)
(* The unit of every length, edge and offset is MSG_ALIGN = 16 bytes:      *)
(* Send refuses a message whose size is not a multiple of it, a header or  *)
(* footer (MsgEnd) is exactly one unit (static_assert in the source), and  *)
(* the packet and ring sizes are powers of two above it.  An edge is a     *)
(* stream position that only grows; its place in the ring is the edge      *)
(* modulo the ring size (the source masks with bufSize - 1, the same thing *)
(* for a power of two).                                                    *)
(***************************************************************************)
EXTENDS Integers

(* sizeof(MsgEnd), in units. *)
MsgEnd == 1

(* mbuf::IsPower2: every divisor above one is even.                        *)
IsPower2(n) == n > 0 /\ \A d \in 2 .. n : n % d = 0 => d % 2 = 0

Lesser(a, b) == IF a <= b THEN a ELSE b

-----------------------------------------------------------------------------

(* Slip: a footer that falls exactly on the ring's end is not wrapped.     *)
LocateNoWrap(bufSize, startEdge, size) ==
  LET offset == startEdge % bufSize
      len1   == Lesser(size - 2 * MsgEnd, bufSize - (offset + MsgEnd))
      len2   == size - 2 * MsgEnd - len1
  IN  [ start |-> offset, data |-> offset + MsgEnd, len1 |-> len1,
        len2 |-> len2,
        end |-> IF len2 > 0 THEN len2 ELSE offset + MsgEnd + len1 ]

(* The header, the (at most two) data views and the footer of a frame of   *)
(* size units that starts at startEdge: view 1 is the len1 units at data,  *)
(* view 2 the len2 units at offset 0 of the ring.                          *)
LocateInRingBuf(bufSize, startEdge, size) ==
  LET offset   == startEdge % bufSize
      data     == offset + MsgEnd
      blobSize == size - 2 * MsgEnd
      len1     == Lesser(blobSize, bufSize - data)
      len2     == blobSize - len1
  IN  [ start |-> offset,
        data  |-> data,
        len1  |-> len1,
        len2  |-> len2,
        end   |-> IF len2 > 0 THEN len2 ELSE (data + len1) % bufSize ]

(* frame.m_pEnd < frame.m_pStart: the frame is cut by the ring's end.      *)
IsSplit(frame) == frame.end < frame.start

(* Size on the ring of the next packet of a message of which rest units    *)
(* are still to be sent.                                                   *)
PktSize(rest, packetSize) == Lesser(rest, packetSize) + 2 * MsgEnd

(* Slip: rounding down.                                                    *)
NumPcktsDown(units, packetSize) == units \div packetSize

(* Number of packets a message of that many units is divided into.         *)
NumPckts(units, packetSize) == (units + packetSize - 1) \div packetSize

(* Slip: the first packet of a long message is not marked.                 *)
SeqUnmarked(idx, rest, packetSize) == idx

(* MsgEnd::Seq of the packet at index idx of its message: 0 for a message  *)
(* of one packet, otherwise -NumPckts, 1, 2, ... , NumPckts - 1.           *)
SeqOf(idx, rest, packetSize) ==
  IF idx = 0 /\ rest > packetSize THEN 0 - NumPckts(rest, packetSize) ELSE idx

(* The offsets an RDMA write of the frame covers.  A frame in one piece    *)
(* is written at once; of a split frame the half at the start of the ring, *)
(* which ends with the footer, goes first and the half with the header     *)
(* second.                                                                 *)
FirstWrite(frame, size) ==
  IF IsSplit(frame)
    THEN 0 .. (frame.len2 + MsgEnd - 1)
    ELSE frame.start .. (frame.start + size - 1)

(* Slip: the half before the ring's end is written without its header.     *)
SecondWriteNoHeader(frame) ==
  IF IsSplit(frame)
    THEN frame.start + MsgEnd .. (frame.start + MsgEnd + frame.len1 - 1)
    ELSE {}

SecondWrite(frame) ==
  IF IsSplit(frame)
    THEN frame.start .. (frame.start + MsgEnd + frame.len1 - 1)
    ELSE {}

-----------------------------------------------------------------------------

(* Reference definition: unit i of a frame lies at its edge modulo size.   *)
RingPos(bufSize, startEdge, i) == (startEdge + i) % bufSize

(* LocateInRingBuf puts header, data and footer where the ring has them:   *)
(* the footer is the last unit of the frame and view 1 and view 2 together *)
(* are the units between header and footer, in order.                      *)
LayoutCorrect(bufSize, startEdge, size) ==
  LET f == LocateInRingBuf(bufSize, startEdge, size)
  IN  /\ f.start = RingPos(bufSize, startEdge, 0)
      /\ f.end = RingPos(bufSize, startEdge, size - 1)
      /\ f.len1 >= 0 /\ f.len2 >= 0
      /\ f.len1 + f.len2 = size - 2 * MsgEnd
      /\ \A i \in 0 .. f.len1 - 1 :
           f.data + i = RingPos(bufSize, startEdge, MsgEnd + i)
      /\ \A i \in 0 .. f.len2 - 1 :
           i = RingPos(bufSize, startEdge, MsgEnd + f.len1 + i)

(* The RDMA writes ProcessSendQ issues for a frame cover its units and     *)
(* nothing else, whether or not the ring's end cuts it.                    *)
WritesExact(bufSize, startEdge, size) ==
  LET f == LocateInRingBuf(bufSize, startEdge, size)
  IN  FirstWrite(f, size) \cup SecondWrite(f)
        = { RingPos(bufSize, startEdge, i) : i \in 0 .. size - 1 }

(* The count a long message announces in its first packet is the number of *)
(* packets the loop of ProcessSendQ sends: the last of them, and no other, *)
(* starts within a packet's length of the end.                             *)
CountCorrect(units, packetSize) ==
  units > packetSize =>
    units - (NumPckts(units, packetSize) - 1) * packetSize \in 1 .. packetSize

=============================================================================
