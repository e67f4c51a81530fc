------------------------------ MODULE FrameCopy -----------------------------
(***************************************************************************)
(* How ProcessSendQ copies a packet into the send ring, and the two        *)
(* overloads of Utilities::ComputeCRC it and the receiver use.             *)
(*                                                                         *)
(* Memory is a sequence of units of 16 bytes; a cache line is four of      *)
(* them, of which the first is folded into the pair (leftcrc, rightcrc),   *)
(* one half into each.  The pair is kept as the sequence of the units      *)
(* folded into it: what the CRC instruction makes of them is opaque, and   *)
(* equal sequences give equal pairs.                                       *)
(***************************************************************************)
EXTENDS RingFrame, Sequences

Line == 4

(* Slip: an incomplete last line is sampled too.                           *)
ReadLinesUp(buf, crc) ==
  crc \o [line \in 1 .. ((Len(buf) + Line - 1) \div Line) |->
            buf[(line - 1) * Line + 1]]

(* The overload that only reads.                                           *)
ComputeCRC(buf, crc) ==
  crc \o [line \in 1 .. (Len(buf) \div Line) |-> buf[(line - 1) * Line + 1]]

(* Slip: what follows the last whole line is not copied.                   *)
CopiedLines(src) == Line * (Len(src) \div Line)

(* Units the copying overload copies: whole lines, then the remainder.     *)
Copied(src) == Line * (Len(src) \div Line) + (Len(src) % Line)

(* What the copying overload leaves in dst.                                *)
CopyBuf(dst, src) ==
  [i \in 1 .. Len(dst) |-> IF i <= Copied(src) THEN src[i] ELSE dst[i]]

(* The CRC it takes from the source while it copies.                       *)
CopyCRC(src, crc) ==
  crc \o [line \in 1 .. (Len(src) \div Line) |-> src[(line - 1) * Line + 1]]

-----------------------------------------------------------------------------

(* The len units of the ring from offset first, as a sequence.             *)
View(ring, first, len) == [i \in 1 .. len |-> ring[first + i - 1]]

(* The MsgEnd record of a packet: srcBuf is what is left of the message,   *)
(* frame the place of the packet.                                          *)
Header(frame, srcBuf, sequence) ==
  [ crc  |-> CopyCRC(SubSeq(srcBuf, frame.len1 + 1, frame.len1 + frame.len2),
                     CopyCRC(SubSeq(srcBuf, 1, frame.len1), <<>>)),
    size |-> Len(srcBuf),
    seq  |-> sequence,
    type |-> IF sequence = 0 THEN "Single" ELSE "Multi" ]

(* The ring after the packet at startEdge has been copied into it: both    *)
(* data views, then the footer, then the header.                           *)
PutDown(ring, bufSize, startEdge, srcBuf, sequence, packetSize) ==
  LET f     == LocateInRingBuf(bufSize, startEdge,
                               PktSize(Len(srcBuf), packetSize))
      head  == Header(f, srcBuf, sequence)
      view1 == CopyBuf(View(ring, f.data, f.len1), SubSeq(srcBuf, 1, f.len1))
      view2 == CopyBuf(View(ring, 0, f.len2),
                       SubSeq(srcBuf, f.len1 + 1, f.len1 + f.len2))
  IN  [p \in DOMAIN ring |->
         CASE p = f.start \/ p = f.end               -> head
           [] p \in f.data .. (f.data + f.len1 - 1)  -> view1[p - f.data + 1]
           [] p \in 0 .. (f.len2 - 1)                -> view2[p + 1]
           [] OTHER                                  -> ring[p] ]

(* What a receiver finds at startEdge: the frame, located with the size    *)
(* its header gives, and the CRC over its two views.                       *)
ReadCRC(ring, bufSize, startEdge, packetSize) ==
  LET f == LocateInRingBuf(bufSize, startEdge,
             PktSize(ring[startEdge % bufSize].size, packetSize))
  IN  ComputeCRC(View(ring, 0, f.len2),
                 ComputeCRC(View(ring, f.data, f.len1), <<>>))

-----------------------------------------------------------------------------

(* What a ring holds before; units of messages are positive numbers.       *)
Old == 0

(* A packet put down in a ring of old units is there, in order, between    *)
(* two equal MsgEnds, and nothing else of the ring has changed.            *)
CopyCorrect(bufSize, startEdge, srcBuf, sequence, packetSize) ==
  LET old  == [p \in 0 .. bufSize - 1 |-> Old]
      size == PktSize(Len(srcBuf), packetSize)
      ring == PutDown(old, bufSize, startEdge, srcBuf, sequence, packetSize)
      At(i) == ring[RingPos(bufSize, startEdge, i)]
  IN  /\ At(0) = At(size - 1)
      /\ At(0).size = Len(srcBuf) /\ At(0).seq = sequence
      /\ \A i \in 1 .. size - 2 : At(i) = srcBuf[i]
      /\ \A i \in size .. bufSize - 1 : At(i) = Old

(* The receiver computes the CRC the sender wrote, wherever the end of the *)
(* ring cuts the frame.                                                    *)
CrcCorrect(bufSize, startEdge, srcBuf, sequence, packetSize) ==
  LET old  == [p \in 0 .. bufSize - 1 |-> Old]
      ring == PutDown(old, bufSize, startEdge, srcBuf, sequence, packetSize)
  IN  ReadCRC(ring, bufSize, startEdge, packetSize)
        = ring[startEdge % bufSize].crc

=============================================================================
