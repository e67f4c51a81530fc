--------------------------- MODULE SendDataProofs ---------------------------
(***************************************************************************)
(* What is in the two rings: the frames between the peer's write edge and  *)
(* the sender's, the writes that are to bring them over, and what the peer *)
(* makes of them.  SendPath therefore implements the message channel, and  *)
(* no posted write changes before the adapter has executed it.             *)
(***************************************************************************)
EXTENDS SendPathProofs

-----------------------------------------------------------------------------
(* Frames.  A frame is packet idx of the message msg, the n-th accepted,   *)
(* put at the stream position at.                                          *)

FrameRec == [n : Nat, msg : Msgs, idx : Nat, at : Nat]

RestOf(f)   == MsgSize[f.msg] - f.idx * PacketSize
SizeOf(f)   == PktSize(RestOf(f), PacketSize)
FooterAt(f) == f.at + SizeOf(f) - 1
Edges(f)    == f.at .. FooterAt(f)

(* The place of a stream position in a ring.                               *)
Pos(y) == y % BufSize

CellsOf(f) == { Pos(y) : y \in Edges(f) }

(* What the ring holds at position y of the frame.                         *)
FrameEnd(f) == End(f.msg, RestOf(f), SeqOf(f.idx, RestOf(f), PacketSize))
Content(f, y) == IF y \in {f.at, FooterAt(f)} THEN FrameEnd(f)
                 ELSE Unit(f.msg, f.idx * PacketSize + (y - f.at - 1))

(* The packet after it: the next of its message or the first of the next.  *)
Follows(f, n, i) == IF RestOf(f) > PacketSize THEN n = f.n /\ i = f.idx + 1
                                              ELSE n = f.n + 1 /\ i = 0

(* A frame of a packet of its message that fits the ring.                  *)
Proper(f) ==
  /\ f \in FrameRec
  /\ RestOf(f) \in Nat
  /\ f.idx = 0 \/ RestOf(f) > 0
  /\ SizeOf(f) <= BufSize

(* The sizes of a frame.                                                   *)
LEMMA FrameSizes ==
  ASSUME NEW f, Proper(f)
  PROVE  /\ SizeOf(f) \in 2 .. BufSize /\ f.at \in Nat
         /\ SizeOf(f) = 2 + Lesser(RestOf(f), PacketSize)
         /\ f.at \in Edges(f) /\ FooterAt(f) \in Edges(f)
         /\ FooterAt(f) \in Nat /\ FooterAt(f) # f.at
         /\ Fitting(BufSize, f.at, SizeOf(f))
PROOF
<1>1. RestOf(f) \in Nat /\ SizeOf(f) <= BufSize /\ f.at \in Nat
  BY DEF Proper, FrameRec
<1>2. SizeOf(f) \in Nat /\ SizeOf(f) >= 2
      /\ SizeOf(f) = 2 + Lesser(RestOf(f), PacketSize)
  BY <1>1, SendPathAssumption DEF SizeOf, PktSize, Lesser, MsgEnd
<1>3. BufSize \in Nat \ {0}  BY SendPathAssumption
<1>. QED  BY <1>1, <1>2, <1>3 DEF Edges, FooterAt, Fitting, MsgEnd

(* Within one turn of the ring every position has a place of its own.      *)
LEMMA WindowInjective ==
  ASSUME NEW w \in Nat, NEW y \in w .. w + BufSize - 1,
         NEW z \in w .. w + BufSize - 1, Pos(y) = Pos(z)
  PROVE  y = z
PROOF
<1>1. BufSize \in Nat \ {0}  BY SendPathAssumption
<1>2. y - w \in 0 .. BufSize - 1 /\ z - w \in 0 .. BufSize - 1
  BY <1>1
<1>3. y = w + (y - w) /\ z = w + (z - w)  OBVIOUS
<1>4. RingPos(BufSize, w, y - w) = RingPos(BufSize, w, z - w)
  BY <1>3 DEF RingPos, Pos
<1>5. y - w = z - w  BY <1>1, <1>2, <1>4, RingPosInjective
<1>. QED  BY <1>5

(* Every position has a place in the ring.                                 *)
LEMMA PosRange ==
  ASSUME NEW y \in Int
  PROVE  Pos(y) \in Offsets
PROOF BY SendPathAssumption DEF Pos, Offsets

(* A unit of a frame is not zero.                                          *)
LEMMA ContentNotZero ==
  ASSUME NEW f, NEW y
  PROVE  Content(f, y).kind # "zero" /\ Zero.kind = "zero"
PROOF BY DEF Content, FrameEnd, End, Unit, Zero

-----------------------------------------------------------------------------
(* Putting a frame down, and writing it over.                              *)

(* The writes of a frame: one of all its units, or one with its footer and *)
(* one with its header, which have no unit in common.                      *)
LEMMA WritesOf ==
  ASSUME NEW g, Proper(g)
  PROVE  LET f == Locate(g.at, SizeOf(g))
             W1 == FirstWrite(f, SizeOf(g))
             W2 == SecondWrite(f)
         IN  /\ W1 \cup W2 = CellsOf(g)
             /\ W1 \subseteq CellsOf(g) /\ W2 \subseteq CellsOf(g)
             /\ W1 \cap W2 = {}
             /\ Pos(FooterAt(g)) \in W1
             /\ IsSplit(f) => Pos(g.at) \in W2
             /\ ~ IsSplit(f) => W2 = {}
PROOF
<1>. DEFINE b == BufSize
            e == g.at
            size == SizeOf(g)
            f == Locate(e, size)
            W1 == FirstWrite(f, size)
            W2 == SecondWrite(f)
            m == e % b
<1>0. /\ b \in Nat \ {0} /\ e \in Nat /\ size \in 2 .. b
      /\ Fitting(b, e, size)
  BY FrameSizes, SendPathAssumption
<1>m. m \in 0 .. b - 1  BY <1>0
<1>r. \A i \in 0 .. b :
        RingPos(b, e, i) = IF m + i < b THEN m + i ELSE m + i - b
  BY <1>0, RingPosCases
<1>1. m \in 0 .. b - 1
      /\ \A i \in 0 .. b :
           RingPos(b, e, i) = IF m + i < b THEN m + i ELSE m + i - b
  BY <1>m, <1>r
<1>2. W1 \cup W2 = { RingPos(b, e, i) : i \in 0 .. size - 1 }
  BY <1>0, WritesTheorem DEF WritesExact, Locate
<1>3. { RingPos(b, e, i) : i \in 0 .. size - 1 } = CellsOf(g)
  <2>1. \A i \in 0 .. size - 1 : RingPos(b, e, i) = Pos(e + i) /\ e + i \in Edges(g)
    BY <1>0 DEF RingPos, Pos, Edges, FooterAt
  <2>2. \A y \in Edges(g) : y - e \in 0 .. size - 1 /\ e + (y - e) = y
    BY <1>0 DEF Edges, FooterAt
  <2>. QED  BY <2>1, <2>2 DEF CellsOf
<1>4. f.start = m /\ f.end = RingPos(b, e, size - 1)
  <2>1. LayoutCorrect(b, e, size)  BY <1>0, LayoutTheorem
  <2>2. f.start = RingPos(b, e, 0) /\ f.end = RingPos(b, e, size - 1)
    BY <2>1 DEF LayoutCorrect, Locate
  <2>3. RingPos(b, e, 0) = m  BY <1>0 DEF RingPos
  <2>. QED  BY <2>2, <2>3
<1>5. Pos(g.at) = m /\ Pos(FooterAt(g)) = f.end
  <2>1. FooterAt(g) = e + (size - 1)  BY <1>0 DEF FooterAt
  <2>. QED  BY <2>1, <1>4 DEF Pos, RingPos
<1>6. /\ f.len1 = IF size - 2 <= b - (m + 1) THEN size - 2 ELSE b - (m + 1)
      /\ f.len2 = size - 2 - f.len1
  BY DEF Locate, LocateInRingBuf, Lesser, MsgEnd
<1>. HIDE DEF m, f, b, e, size
<1>7. CASE m + size - 1 < b
  <2>1. f.end = m + size - 1  BY <1>0, <1>1, <1>4, <1>7
  <2>2. ~ IsSplit(f)  BY <1>0, <1>1, <1>4, <2>1 DEF IsSplit
  <2>3. W2 = {} /\ W1 = m .. (m + size - 1)
    BY <1>4, <2>2 DEF FirstWrite, SecondWrite
  <2>4. f.end \in W1  BY <1>0, <1>1, <2>1, <2>3
  <2>. HIDE DEF W1, W2
  <2>. QED  BY <1>2, <1>3, <1>5, <2>2, <2>3, <2>4 DEF f, W1, W2, e, size
<1>8. CASE ~ (m + size - 1 < b)
  <2>1. f.end = m + size - 1 - b  BY <1>0, <1>1, <1>4, <1>8
  <2>2. IsSplit(f)  BY <1>0, <1>1, <1>4, <2>1 DEF IsSplit
  <2>3. f.len1 = b - (m + 1) /\ f.len2 = m + size - 1 - b
    BY <1>0, <1>1, <1>6, <1>8
  <2>4. W1 = 0 .. m + size - 1 - b
    BY <1>0, <1>1, <2>2, <2>3 DEF FirstWrite, MsgEnd
  <2>5. W2 = m .. b - 1
    BY <1>0, <1>1, <1>4, <2>2, <2>3 DEF SecondWrite, MsgEnd
  <2>6. W1 \cap W2 = {} /\ f.end \in W1 /\ m \in W2
    BY <1>0, <1>1, <1>8, <2>1, <2>4, <2>5
  <2>. HIDE DEF W1, W2
  <2>. QED  BY <1>2, <1>3, <1>5, <2>2, <2>6 DEF f, W1, W2, e, size
<1>. QED  BY <1>7, <1>8

(* SendTop puts the frame down, and touches nothing else in the ring.      *)
LEMMA PutFrameContent ==
  ASSUME NEW g, Proper(g), EdgeType, sndWriteEdge = g.at, mSndIdx = g.idx
  PROVE  LET ring == PutFrame(g.msg, g.idx, RestOf(g))
         IN  /\ \A y \in Edges(g) : ring[Pos(y)] = Content(g, y)
             /\ \A c \in Offsets \ CellsOf(g) : ring[c] = sndBuf[c]
PROOF
<1>. DEFINE b == BufSize
            e == g.at
            size == SizeOf(g)
            f == Locate(e, size)
            m == e % b
            ring == PutFrame(g.msg, g.idx, RestOf(g))
            first == g.idx * PacketSize
<1>0. /\ b \in Nat \ {0} /\ e \in Nat /\ size \in 2 .. b
      /\ Fitting(b, e, size)
  BY FrameSizes, SendPathAssumption
<1>m. m \in 0 .. b - 1  BY <1>0
<1>r. \A i \in 0 .. b :
        RingPos(b, e, i) = IF m + i < b THEN m + i ELSE m + i - b
  BY <1>0, RingPosCases
<1>1. m \in 0 .. b - 1
      /\ \A i \in 0 .. b :
           RingPos(b, e, i) = IF m + i < b THEN m + i ELSE m + i - b
  BY <1>m, <1>r
<1>2. LayoutCorrect(b, e, size)  BY <1>0, LayoutTheorem
<1>3. /\ f.start = RingPos(b, e, 0) /\ f.end = RingPos(b, e, size - 1)
      /\ \A i \in 0 .. f.len1 - 1 : f.data + i = RingPos(b, e, 1 + i)
      /\ \A i \in 0 .. f.len2 - 1 : i = RingPos(b, e, 1 + f.len1 + i)
  BY <1>2 DEF LayoutCorrect, Locate, MsgEnd
<1>4. /\ f.data = m + 1
      /\ f.len1 = IF size - 2 <= b - (m + 1) THEN size - 2 ELSE b - (m + 1)
      /\ f.len2 = size - 2 - f.len1
  BY DEF Locate, LocateInRingBuf, Lesser, MsgEnd
<1>5. ring = [c \in Offsets |->
          IF c \in {f.start, f.end} THEN FrameEnd(g)
          ELSE IF c \in f.data .. f.data + f.len1 - 1
            THEN Unit(g.msg, first + (c - f.data))
          ELSE IF c < f.len2 THEN Unit(g.msg, first + f.len1 + c)
          ELSE sndBuf[c]]
  BY DEF PutFrame, FrameEnd, SizeOf
<1>6. first \in Nat
  <2>1. g.idx \in Nat  BY DEF Proper, FrameRec
  <2>. QED  BY <2>1, SendPathAssumption
<1>. HIDE DEF m, f, ring, first
<1>7. ASSUME NEW y \in Edges(g)  PROVE ring[Pos(y)] = Content(g, y)
  <2>. DEFINE i == y - e
  <2>1. i \in 0 .. size - 1 /\ y = e + i  BY <1>0 DEF Edges, FooterAt
  <2>2. Pos(y) = RingPos(b, e, i)  BY <2>1 DEF Pos, RingPos
  <2>3. Pos(y) \in Offsets  BY <1>0, <2>1, PosRange
  <2>4. FooterAt(g) = e + (size - 1)  BY <1>0 DEF FooterAt
  <2>. HIDE DEF i
  <2>5. CASE i = 0
    <3>1. y = g.at  BY <1>0, <2>1, <2>5
    <3>2. Content(g, y) = FrameEnd(g)  BY <3>1 DEF Content
    <3>3. Pos(y) = f.start  BY <1>3, <2>2, <2>5
    <3>. QED  BY <1>5, <2>3, <3>2, <3>3
  <2>6. CASE i = size - 1
    BY <1>3, <1>5, <2>1, <2>2, <2>3, <2>4, <2>6 DEF Content
  <2>7. CASE i \in 1 .. size - 2
    <3>. DEFINE c == Pos(y)
    <3>1. Content(g, y) = Unit(g.msg, first + (i - 1))
      <4>1. y # e /\ y # FooterAt(g) /\ y - e - 1 = i - 1
        BY <1>0, <2>1, <2>4, <2>7
      <4>. QED  BY <4>1 DEF Content, first
    <3>2. c # f.start /\ c # f.end
      BY <1>0, <1>3, <2>2, <2>7, RingPosInjective
    <3>3. c = IF m + i < b THEN m + i ELSE m + i - b  BY <1>0, <1>1, <2>1, <2>2
    <3>. HIDE DEF c
    <3>4. CASE m + i < b
      <4>1. c \in f.data .. f.data + f.len1 - 1 /\ c - f.data = i - 1
        BY <1>0, <1>1, <1>4, <2>7, <3>3, <3>4
      <4>2. ring[c] = Unit(g.msg, first + (c - f.data))
        BY <1>5, <2>3, <3>2, <4>1 DEF c
      <4>. QED  BY <3>1, <4>1, <4>2 DEF c
    <3>5. CASE ~ (m + i < b)
      <4>1. /\ ~ (c \in f.data .. f.data + f.len1 - 1) /\ c < f.len2
            /\ f.len1 + c = i - 1 /\ f.len1 \in Nat /\ c \in Nat
        BY <1>0, <1>1, <1>4, <2>7, <3>3, <3>5
      <4>2. ring[c] = Unit(g.msg, first + f.len1 + c)
        BY <1>5, <2>3, <3>2, <4>1 DEF c
      <4>3. first + f.len1 + c = first + (i - 1)  BY <1>6, <4>1
      <4>. QED  BY <3>1, <4>2, <4>3 DEF c
    <3>. QED  BY <3>4, <3>5
  <2>. QED  BY <1>0, <2>1, <2>5, <2>6, <2>7
<1>8. ASSUME NEW c \in Offsets \ CellsOf(g)  PROVE ring[c] = sndBuf[c]
  <2>1. \A i \in 0 .. size - 1 : RingPos(b, e, i) \in CellsOf(g)
    <3>1. \A i \in 0 .. size - 1 : e + i \in Edges(g)
      BY <1>0 DEF Edges, FooterAt
    <3>. QED  BY <3>1 DEF CellsOf, Pos, RingPos
  <2>2. c # f.start /\ c # f.end  BY <1>0, <1>3, <2>1
  <2>3. ~ (c \in f.data .. f.data + f.len1 - 1)
    <3>1. SUFFICES ASSUME c \in f.data .. f.data + f.len1 - 1  PROVE FALSE
      OBVIOUS
    <3>2. /\ c - f.data \in 0 .. f.len1 - 1 /\ f.data + (c - f.data) = c
          /\ 1 + (c - f.data) \in 0 .. size - 1
      BY <1>0, <1>1, <1>4, <3>1
    <3>. QED  BY <1>3, <2>1, <3>2
  <2>4. ~ (c < f.len2)
    <3>1. SUFFICES ASSUME c < f.len2  PROVE FALSE  OBVIOUS
    <3>2. c \in 0 .. f.len2 - 1 /\ 1 + f.len1 + c \in 0 .. size - 1
      BY <1>0, <1>1, <1>4, <3>1 DEF Offsets
    <3>. QED  BY <1>3, <2>1, <3>2
  <2>. QED  BY <1>5, <2>2, <2>3, <2>4
<1>. QED  BY <1>7, <1>8 DEF ring

-----------------------------------------------------------------------------
(* The invariant.  F are the frames posted and not yet received, X the     *)
(* positions at which the adapter has brought one over.                    *)

Before(f, g) == f.at + SizeOf(f) <= g.at

IsLast(F, f) == \A g \in F : g.at <= f.at

(* They lie apart, each at the end of the one before, which is the packet  *)
(* before.                                                                 *)
Chained(F) ==
  /\ \A f, g \in F : f = g \/ Before(f, g) \/ Before(g, f)
  /\ \A f \in F :
       \/ IsLast(F, f)
       \/ \E g \in F : g.at = f.at + SizeOf(f) /\ Follows(f, g.n, g.idx)

(* They are packets of accepted messages, on one turn of the ring from the *)
(* peer's write edge on, and the first is the packet the peer waits for.   *)
FramesOK(F) ==
  /\ \A f \in F :
       /\ Proper(f)
       /\ f.n \in 1 .. Len(accepted) /\ f.msg = accepted[f.n]
       /\ f.n <= Len(completed) + 1
       /\ rmtWriteEdge <= f.at /\ f.at + SizeOf(f) <= rmtWriteEdge + BufSize
  /\ F # {} => \E f \in F : /\ f.at = rmtWriteEdge
                            /\ f.n = Len(delivered) + 1 /\ f.idx = rcvIdx

(* The peer's ring holds what was brought over and is clear elsewhere.  A  *)
(* frame whose header and footer are there is there.                       *)
RmtOK(F, X) ==
  /\ \A y \in X : \E f \in F : y \in Edges(f)
  /\ \A f \in F : \A y \in Edges(f) \cap X : rmtBuf[Pos(y)] = Content(f, y)
  /\ \A y \in rmtWriteEdge .. rmtWriteEdge + BufSize - 1 :
       y \notin X => rmtBuf[Pos(y)] = Zero
  /\ \A f \in F : f.at \in X /\ FooterAt(f) \in X => Edges(f) \subseteq X

(* While the link is up what is not there is still to be written, and each *)
(* write brings the header or the footer of its frame.                     *)
WireOK(F, X) ==
  /\ \A f \in F : \A y \in Edges(f) :
       y \in X <=> \A i \in 1 .. Len(wire) : Pos(y) \notin wire[i].cells
  /\ \A i \in 1 .. Len(wire) :
       \/ wire[i].cells = {}
       \/ /\ wire[i].op = "write"
          /\ \E f \in F :
               /\ wire[i].cells \subseteq CellsOf(f)
               /\ Pos(f.at) \in wire[i].cells \/ Pos(FooterAt(f)) \in wire[i].cells
  /\ \A i, j \in 1 .. Len(wire) : i # j => wire[i].cells \cap wire[j].cells = {}

(* The local ring still holds the frames.                                  *)
SndOK(F) == \A f \in F : \A y \in Edges(f) : sndBuf[Pos(y)] = Content(f, y)

(* The next frame at position e would be packet i of the n-th message.     *)
EndsAt(F, e, n, i) ==
  /\ F = {} => e = rmtWriteEdge /\ n = Len(delivered) + 1 /\ i = rcvIdx
  /\ \A f \in F :
       /\ f.at + SizeOf(f) <= e
       /\ IsLast(F, f) => f.at + SizeOf(f) = e /\ Follows(f, n, i)

(* The frame a sender is at.                                               *)
FrameOf(t) == [n |-> Len(completed) + 1, msg |-> loc[t].req,
               idx |-> mSndIdx, at |-> loc[t].edge]

Placing == {"token", "write"}
Posted  == {"edge", "read", "next"}

(* The sender goes on where the frames end.                                *)
EndOK(F) ==
  /\ \A t \in Workers : pc[t] \in Placing =>
       \A g : g = FrameOf(t) =>
         /\ Proper(g) /\ sndWriteEdge = g.at + SizeOf(g)
         /\ EndsAt(F, g.at, g.n, g.idx)
         /\ \A y \in Edges(g) : sndBuf[Pos(y)] = Content(g, y)
  /\ \A t \in Workers : pc[t] \in Posted =>
       \A g, n, i : g = FrameOf(t) /\ Follows(g, n, i)
                      => EndsAt(F, sndWriteEdge, n, i)
  /\ (\A t \in Workers : pc[t] \notin Placing \cup Posted)
       => EndsAt(F, sndWriteEdge, Len(completed) + 1, mSndIdx)

InFlight(F, X) ==
  /\ Chained(F) /\ FramesOK(F) /\ RmtOK(F, X)
  /\ qpUp => WireOK(F, X) /\ SndOK(F) /\ EndOK(F)

(* What the peer has of the message it is receiving.                       *)
PartialOK ==
  rcvIdx # 0 =>
    /\ rcvIdx \in Nat
    /\ Len(delivered) < Len(accepted)
    /\ \A m : m = accepted[Len(delivered) + 1] =>
         /\ rcvUnits = [i \in 1 .. rcvIdx * PacketSize |-> Unit(m, i - 1)]
         /\ rcvSize = NumPckts(MsgSize[m], PacketSize)

LinkOK ==
  /\ qpUp => open
  /\ ~ qpUp => wire = <<>>

DataInv ==
  /\ LinkOK /\ PartialOK
  /\ \E F : \E X : InFlight(F, X)

-----------------------------------------------------------------------------
(* Steps that leave the rings alone.                                       *)

(* Where a thread is, as far as the rings are concerned.                   *)
SamePlace(t) ==
  \/ pc'[t] = pc[t] /\ loc'[t] = loc[t]
  \/ /\ pc[t] \notin Placing \cup Posted
     /\ pc'[t] \notin Placing \cup Posted
  \/ pc[t] \in Placing /\ pc'[t] \in Placing /\ loc'[t] = loc[t]
  \/ pc[t] \in Posted /\ pc'[t] \in Posted /\ loc'[t] = loc[t]

(* The sender's place, when threads stay in theirs.                        *)
LEMMA EndFrame ==
  ASSUME NEW F, EndOK(F), \A t \in Workers : SamePlace(t),
         UNCHANGED <<sndWriteEdge, sndBuf, mSndIdx, completed, delivered,
                     rmtWriteEdge, rcvIdx>>
  PROVE  EndOK(F)'
PROOF
<1>1. \A t \in Workers :
        /\ pc'[t] \in Placing => pc[t] \in Placing /\ loc'[t] = loc[t]
        /\ pc'[t] \in Posted => pc[t] \in Posted /\ loc'[t] = loc[t]
        /\ pc[t] \in Placing \cup Posted => pc'[t] \in Placing \cup Posted
  BY DEF SamePlace, Placing, Posted
<1>2. \A t \in Workers : pc'[t] \in Placing \cup Posted => FrameOf(t)' = FrameOf(t)
  BY <1>1 DEF FrameOf
<1>3. \A e, n, i : EndsAt(F, e, n, i) => EndsAt(F, e, n, i)'
  BY DEF EndsAt
<1>4. ASSUME NEW t \in Workers, pc'[t] \in Placing, NEW g, g = FrameOf(t)'
      PROVE  /\ Proper(g) /\ sndWriteEdge' = g.at + SizeOf(g)
             /\ EndsAt(F, g.at, g.n, g.idx)'
             /\ \A y \in Edges(g) : sndBuf'[Pos(y)] = Content(g, y)
  <2>1. pc[t] \in Placing /\ g = FrameOf(t)  BY <1>1, <1>2, <1>4
  <2>2. /\ Proper(g) /\ sndWriteEdge = g.at + SizeOf(g)
        /\ EndsAt(F, g.at, g.n, g.idx)
        /\ \A y \in Edges(g) : sndBuf[Pos(y)] = Content(g, y)
    BY <2>1 DEF EndOK
  <2>. QED  BY <1>3, <2>2
<1>5. ASSUME NEW t \in Workers, pc'[t] \in Posted, NEW g, NEW n, NEW i,
             g = FrameOf(t)', Follows(g, n, i)
      PROVE  EndsAt(F, sndWriteEdge, n, i)'
  <2>1. pc[t] \in Posted /\ g = FrameOf(t)  BY <1>1, <1>2, <1>5
  <2>2. EndsAt(F, sndWriteEdge, n, i)  BY <1>5, <2>1 DEF EndOK
  <2>. QED  BY <2>2 DEF EndsAt
<1>6. ASSUME \A t \in Workers : pc'[t] \notin Placing \cup Posted
      PROVE  EndsAt(F, sndWriteEdge, Len(completed) + 1, mSndIdx)'
  <2>1. EndsAt(F, sndWriteEdge, Len(completed) + 1, mSndIdx)
    BY <1>1, <1>6 DEF EndOK
  <2>. QED  BY <2>1 DEF EndsAt
<1>. QED  BY <1>4, <1>5, <1>6 DEF EndOK

(* Reads bring nothing over.                                               *)
WireKept ==
  \/ wire' = wire
  \/ qpUp /\ wire' = Append(wire, ReadReq)
  \/ wire # <<>> /\ Head(wire).op = "read" /\ wire' = Tail(wire)

(* So the writes stay what they were.                                      *)
LEMMA WireReads ==
  ASSUME NicType, NEW F, NEW X, WireOK(F, X), WireKept
  PROVE  WireOK(F, X)'
PROOF
<1>0. wire \in Seq(Request) /\ Len(wire) \in Nat  BY DEF NicType
<1>1. CASE wire' = wire  BY <1>1 DEF WireOK
<1>2. CASE wire' = Append(wire, ReadReq)
  <2>1. ReadReq \in Request /\ ReadReq.cells = {}  BY DEF ReadReq, Request
  <2>2. /\ Len(wire') = Len(wire) + 1
        /\ \A i \in 1 .. Len(wire) : wire'[i] = wire[i]
        /\ wire'[Len(wire) + 1] = ReadReq
    BY <1>0, <1>2, <2>1, AppendProperties
  <2>3. ASSUME NEW i \in 1 .. Len(wire')
        PROVE  \/ i \in 1 .. Len(wire) /\ wire'[i] = wire[i]
               \/ i = Len(wire) + 1 /\ wire'[i].cells = {}
    BY <1>0, <2>1, <2>2
  <2>4. 1 .. Len(wire) \subseteq 1 .. Len(wire')  BY <1>0, <2>2
  <2>5. \A c : (\A i \in 1 .. Len(wire) : c \notin wire[i].cells)
                 <=> (\A i \in 1 .. Len(wire') : c \notin wire'[i].cells)
    <3>. TAKE c
    <3>1. ASSUME \A i \in 1 .. Len(wire) : c \notin wire[i].cells,
                 NEW i \in 1 .. Len(wire')
          PROVE  c \notin wire'[i].cells
      BY <2>3, <3>1
    <3>2. ASSUME \A i \in 1 .. Len(wire') : c \notin wire'[i].cells,
                 NEW i \in 1 .. Len(wire)
          PROVE  c \notin wire[i].cells
      BY <2>2, <2>4, <3>2
    <3>. QED  BY <3>1, <3>2
  <2>6. \A f \in F : \A y \in Edges(f) :
          y \in X <=> \A i \in 1 .. Len(wire') : Pos(y) \notin wire'[i].cells
    BY <2>5 DEF WireOK
  <2>7. \A i \in 1 .. Len(wire') :
          \/ wire'[i].cells = {}
          \/ /\ wire'[i].op = "write"
             /\ \E f \in F :
                  /\ wire'[i].cells \subseteq CellsOf(f)
                  /\ Pos(f.at) \in wire'[i].cells \/ Pos(FooterAt(f)) \in wire'[i].cells
    <3>. TAKE i \in 1 .. Len(wire')
    <3>1. CASE i \in 1 .. Len(wire) /\ wire'[i] = wire[i]  BY <3>1 DEF WireOK
    <3>. QED  BY <2>3, <3>1
  <2>8. \A i, j \in 1 .. Len(wire') :
          i # j => wire'[i].cells \cap wire'[j].cells = {}
    <3>. TAKE i, j \in 1 .. Len(wire')
    <3>1. CASE wire'[i].cells = {} \/ wire'[j].cells = {}  BY <3>1
    <3>2. CASE /\ i \in 1 .. Len(wire) /\ wire'[i] = wire[i]
               /\ j \in 1 .. Len(wire) /\ wire'[j] = wire[j]
      BY <3>2 DEF WireOK
    <3>. QED  BY <2>3, <3>1, <3>2
  <2>. QED  BY <2>6, <2>7, <2>8 DEF WireOK
<1>3. CASE wire # <<>> /\ Head(wire).op = "read" /\ wire' = Tail(wire)
  <2>1. /\ Len(wire) > 0 /\ Head(wire) = wire[1]
        /\ Len(wire') = Len(wire) - 1
        /\ \A i \in 1 .. Len(wire') : wire'[i] = wire[i + 1]
    BY <1>0, <1>3, HeadTailProperties, EmptySeq
  <2>2. wire[1].cells = {}
    <3>1. 1 \in 1 .. Len(wire) /\ wire[1].op = "read"  BY <1>0, <1>3, <2>1
    <3>. QED  BY <3>1 DEF WireOK
  <2>3. /\ \A i \in 1 .. Len(wire') : i + 1 \in 1 .. Len(wire)
        /\ \A i \in 1 .. Len(wire) : i = 1 \/ i - 1 \in 1 .. Len(wire')
        /\ \A i \in 1 .. Len(wire) : (i - 1) + 1 = i
    BY <1>0, <2>1
  <2>4. \A c : (\A i \in 1 .. Len(wire) : c \notin wire[i].cells)
                 <=> (\A i \in 1 .. Len(wire') : c \notin wire'[i].cells)
    BY <2>1, <2>2, <2>3
  <2>5. \A f \in F : \A y \in Edges(f) :
          y \in X <=> \A i \in 1 .. Len(wire') : Pos(y) \notin wire'[i].cells
    BY <2>4 DEF WireOK
  <2>6. \A i \in 1 .. Len(wire') :
          \/ wire'[i].cells = {}
          \/ /\ wire'[i].op = "write"
             /\ \E f \in F :
                  /\ wire'[i].cells \subseteq CellsOf(f)
                  /\ Pos(f.at) \in wire'[i].cells \/ Pos(FooterAt(f)) \in wire'[i].cells
    BY <2>1, <2>3 DEF WireOK
  <2>7. \A i, j \in 1 .. Len(wire') :
          i # j => wire'[i].cells \cap wire'[j].cells = {}
    <3>. TAKE i, j \in 1 .. Len(wire')
    <3>1. HAVE i # j
    <3>2. i + 1 \in 1 .. Len(wire) /\ j + 1 \in 1 .. Len(wire)  BY <2>3
    <3>3. i + 1 # j + 1  BY <1>0, <2>1, <3>1
    <3>4. wire[i + 1].cells \cap wire[j + 1].cells = {}
      BY <3>2, <3>3 DEF WireOK
    <3>. QED  BY <2>1, <3>4
  <2>. QED  BY <2>5, <2>6, <2>7 DEF WireOK
<1>. QED  BY <1>1, <1>2, <1>3 DEF WireKept

(* A message once accepted keeps its number.                               *)
AcceptedKept ==
  /\ Len(accepted) <= Len(accepted')
  /\ \A n \in 1 .. Len(accepted) : accepted'[n] = accepted[n]

(* The peer and the rings are left alone, and no write is posted.          *)
LEMMA DataFrame ==
  ASSUME DataInv, TypeOK, TypeOK',
         UNCHANGED <<sndWriteEdge, sndBuf, mSndIdx, qpUp, peerVars,
                     completed, delivered>>,
         open' = open \/ ~ qpUp, WireKept, AcceptedKept,
         qpUp => \A t \in Workers : SamePlace(t)
  PROVE  DataInv'
PROOF
<1>. USE DEF peerVars
<1>1. Len(accepted) \in Nat /\ Len(accepted') \in Nat /\ Len(delivered) \in Nat
  <2>1. HistType /\ HistType'  BY DEF TypeOK
  <2>2. accepted \in Seq(Msgs) /\ accepted' \in Seq(Msgs)
        /\ delivered \in Seq(Msgs \cup {NoMsg})
    BY <2>1 DEF HistType
  <2>. QED  BY <2>2, LenProperties
<1>2. LinkOK'
  <2>1. CASE qpUp  BY <2>1 DEF DataInv, LinkOK
  <2>2. CASE ~ qpUp
    BY <2>2 DEF DataInv, LinkOK, WireKept
  <2>. QED  BY <2>1, <2>2
<1>3. PartialOK'
  <2>1. Len(delivered) < Len(accepted) =>
          accepted'[Len(delivered) + 1] = accepted[Len(delivered) + 1]
    BY <1>1 DEF AcceptedKept
  <2>. QED  BY <1>1, <2>1 DEF DataInv, PartialOK, AcceptedKept
<1>4. PICK F, X : InFlight(F, X)  BY DEF DataInv
<1>5. Chained(F) /\ RmtOK(F, X)'  BY <1>4 DEF InFlight, RmtOK
<1>6. FramesOK(F)'
  <2>1. \A n \in 1 .. Len(accepted) : /\ n \in 1 .. Len(accepted')
                                      /\ accepted'[n] = accepted[n]
    BY <1>1 DEF AcceptedKept
  <2>. QED  BY <1>4, <2>1 DEF InFlight, FramesOK
<1>7. qpUp' => WireOK(F, X)' /\ SndOK(F)' /\ EndOK(F)'
  <2>. SUFFICES ASSUME qpUp  PROVE WireOK(F, X)' /\ SndOK(F)' /\ EndOK(F)'
    OBVIOUS
  <2>1. WireOK(F, X)'
    <3>1. WireOK(F, X) /\ NicType  BY <1>4 DEF InFlight, TypeOK
    <3>. QED  BY <3>1, WireReads
  <2>2. SndOK(F)'  BY <1>4 DEF InFlight, SndOK
  <2>3. EndOK(F)'  BY <1>4, EndFrame DEF InFlight
  <2>. QED  BY <2>1, <2>2, <2>3
<1>8. InFlight(F, X)'  BY <1>5, <1>6, <1>7 DEF InFlight
<1>. QED  BY <1>2, <1>3, <1>8 DEF DataInv

(* After the link went down only what is over counts.                      *)
LEMMA DownFrame ==
  ASSUME DataInv, TypeOK, TypeOK', ~ qpUp,
         UNCHANGED <<qpUp, wire, peerVars, accepted, delivered>>,
         Len(completed) <= Len(completed')
  PROVE  DataInv'
PROOF
<1>. USE DEF peerVars
<1>1. LinkOK' /\ PartialOK'  BY DEF DataInv, LinkOK, PartialOK
<1>2. PICK F, X : InFlight(F, X)  BY DEF DataInv
<1>3. Chained(F) /\ RmtOK(F, X)'  BY <1>2 DEF InFlight, RmtOK
<1>4. FramesOK(F)'
  <2>1. Len(completed) \in Nat /\ Len(completed') \in Nat
    <3>1. HistType /\ HistType'  BY DEF TypeOK
    <3>2. completed \in Seq(Msgs) /\ completed' \in Seq(Msgs)
      BY <3>1 DEF HistType
    <3>. QED  BY <3>2, LenProperties
  <2>2. \A f \in F : f.n \in Nat
    BY <1>2 DEF InFlight, FramesOK, Proper, FrameRec
  <2>3. \A f \in F : f.n <= Len(completed) + 1 => f.n <= Len(completed') + 1
    BY <2>1, <2>2
  <2>. QED  BY <1>2, <2>3 DEF InFlight, FramesOK
<1>5. InFlight(F, X)'  BY <1>3, <1>4 DEF InFlight
<1>. QED  BY <1>1, <1>5 DEF DataInv

-----------------------------------------------------------------------------
(* Frames and their cells.                                                 *)

(* Frames that lie apart within one turn share no unit of the ring.        *)
LEMMA CellsApart ==
  ASSUME NEW w \in Nat, NEW f, NEW g, Proper(f), Proper(g), Before(f, g),
         w <= f.at, g.at + SizeOf(g) <= w + BufSize
  PROVE  /\ \A y \in Edges(f), z \in Edges(g) : Pos(y) # Pos(z) /\ y # z
         /\ CellsOf(f) \cap CellsOf(g) = {}
PROOF
<1>1. /\ f.at \in Nat /\ g.at \in Nat /\ SizeOf(f) \in 2 .. BufSize
      /\ SizeOf(g) \in 2 .. BufSize /\ BufSize \in Nat
  BY FrameSizes, SendPathAssumption
<1>2. ASSUME NEW y \in Edges(f), NEW z \in Edges(g)
      PROVE  Pos(y) # Pos(z) /\ y # z
  <2>1. /\ y \in w .. w + BufSize - 1 /\ z \in w .. w + BufSize - 1 /\ y < z
    BY <1>1 DEF Edges, FooterAt, Before
  <2>. QED  BY <2>1, WindowInjective
<1>. QED  BY <1>2 DEF CellsOf

(* So do the frames under way, and no position is in two of them.          *)
LEMMA FrameCellsApart ==
  ASSUME TypeOK, NEW F, Chained(F), FramesOK(F),
         NEW f \in F, NEW g \in F, f # g
  PROVE  /\ \A y \in Edges(f), z \in Edges(g) : Pos(y) # Pos(z) /\ y # z
         /\ CellsOf(f) \cap CellsOf(g) = {}
PROOF
<1>1. rmtWriteEdge \in Nat  BY DEF TypeOK, PeerType
<1>2. /\ Proper(f) /\ Proper(g) /\ rmtWriteEdge <= f.at /\ rmtWriteEdge <= g.at
      /\ f.at + SizeOf(f) <= rmtWriteEdge + BufSize
      /\ g.at + SizeOf(g) <= rmtWriteEdge + BufSize
  BY DEF FramesOK
<1>3. CASE Before(f, g)  BY <1>1, <1>2, <1>3, CellsApart
<1>4. CASE Before(g, f)
  <2>1. /\ \A y \in Edges(g), z \in Edges(f) : Pos(y) # Pos(z) /\ y # z
        /\ CellsOf(g) \cap CellsOf(f) = {}
    BY <1>1, <1>2, <1>4, CellsApart
  <2>. QED  BY <2>1
<1>. QED  BY <1>3, <1>4 DEF Chained

(* Positions of frames under way are on the turn from the peer's edge on.  *)
LEMMA EdgesInWindow ==
  ASSUME TypeOK, NEW F, FramesOK(F), NEW f \in F, NEW y \in Edges(f)
  PROVE  y \in rmtWriteEdge .. rmtWriteEdge + BufSize - 1
PROOF
<1>1. rmtWriteEdge \in Nat  BY DEF TypeOK, PeerType
<1>2. /\ Proper(f) /\ rmtWriteEdge <= f.at
      /\ f.at + SizeOf(f) <= rmtWriteEdge + BufSize
  BY DEF FramesOK
<1>3. f.at \in Nat /\ SizeOf(f) \in 2 .. BufSize /\ BufSize \in Nat
  BY <1>2, FrameSizes, SendPathAssumption
<1>. QED  BY <1>1, <1>2, <1>3 DEF Edges, FooterAt

(* The frames do not end before the peer's edge.                           *)
LEMMA EndsAfter ==
  ASSUME TypeOK, NEW F, FramesOK(F), NEW e \in Nat, NEW n, NEW i,
         EndsAt(F, e, n, i)
  PROVE  rmtWriteEdge <= e
PROOF
<1>1. rmtWriteEdge \in Nat  BY DEF TypeOK, PeerType
<1>2. CASE F = {}  BY <1>1, <1>2 DEF EndsAt
<1>3. CASE F # {}
  <2>1. PICK f \in F : f.at = rmtWriteEdge  BY <1>3 DEF FramesOK
  <2>2. Proper(f)  BY DEF FramesOK
  <2>3. SizeOf(f) \in 2 .. BufSize /\ BufSize \in Nat
    BY <2>2, FrameSizes, SendPathAssumption
  <2>. QED  BY <1>1, <2>1, <2>3 DEF EndsAt
<1>. QED  BY <1>2, <1>3

-----------------------------------------------------------------------------
(* The sender's steps.                                                     *)

(* While one thread sends, the others do not.                              *)
LEMMA OthersElsewhere ==
  ASSUME SenderInv, CompletionOrder, NEW t \in Workers, Sending(t)
  PROVE  /\ \A u \in Workers \ {t} :
              pc[u] \notin Placing \cup Posted \cup {"top", "pop"}
         /\ pc[t] # "pop" => accepted = completed \o sndQue
         /\ sndQue # <<>>
PROOF
<1>1. SenderExclusive  BY DEF SenderInv
<1>2. ASSUME NEW u \in Workers \ {t}
      PROVE  pc[u] \notin Placing \cup Posted \cup {"top", "pop"}
  BY <1>1 DEF SenderExclusive, Sending, Placing, Posted
<1>3. pc[t] # "pop" => \A u \in Workers : pc[u] # "pop"
  BY <1>2
<1>4. sndQue # <<>>  BY <1>1 DEF SenderExclusive
<1>. QED  BY <1>2, <1>3, <1>4 DEF CompletionOrder

(* The oldest request is the first one accepted that is not completed.     *)
LEMMA OldestRequest ==
  ASSUME NEW S, NEW c \in Seq(S), NEW q \in Seq(S), q # <<>>
  PROVE  /\ Len(c) + 1 \in 1 .. Len(c \o q)
         /\ (c \o q)[Len(c) + 1] = Head(q)
PROOF
<1>1. /\ Len(c) \in Nat /\ Len(q) \in Nat \ {0}
      /\ Len(c \o q) = Len(c) + Len(q)
  BY LenProperties, EmptySeq, ConcatProperties
<1>2. Len(c) + 1 \in 1 .. Len(c) + Len(q)  BY <1>1
<1>3. (c \o q)[Len(c) + 1] = q[(Len(c) + 1) - Len(c)]
  BY <1>1, <1>2, ConcatProperties
<1>4. (Len(c) + 1) - Len(c) = 1  BY <1>1
<1>. QED  BY <1>1, <1>2, <1>3, <1>4

(* A frame is put down behind the others.                                  *)
LEMMA DataTop ==
  ASSUME ~ TornBack, SenderInv, TypeOK', FlowControl', OrderInv, DataInv,
         NEW t \in Workers, SendTop(t)
  PROVE  DataInv'
PROOF
<1>0. TypeOK  BY DEF SenderInv
<1>p. pc \in [Workers -> Labels]  BY <1>0 DEF TypeOK, ThreadType
<1>l. loc \in [Workers -> [req : Msgs \cup {NoMsg}, rest : Nat, edge : Nat]]
  BY <1>0 DEF TypeOK, ThreadType
<1>1. pc[t] = "top"  BY DEF SendTop
<1>2. PICK m \in BackOutcomes :
        LET rest == MsgSize[m] - mSndIdx * PacketSize
            size == PktSize(rest, PacketSize)
        IN  /\ loc' = [loc EXCEPT ![t] =
                         [req |-> m, rest |-> rest, edge |-> sndWriteEdge]]
            /\ \/ /\ ~ Fits(size)
                  /\ Goto(t, "full")
                  /\ UNCHANGED edgeVars
               \/ /\ Fits(size)
                  /\ sndBuf' = PutFrame(m, mSndIdx, rest)
                  /\ sndWriteEdge' = sndWriteEdge + size
                  /\ Goto(t, "token")
                  /\ UNCHANGED sndTrailingEdge
  BY DEF SendTop
<1>3. UNCHANGED <<queueVars, pendingRead, linkVars, nicVars, peerVars, histVars,
                  failed>>
  BY DEF SendTop
<1>. USE DEF queueVars, linkVars, nicVars, histVars
<1>4. m = Head(sndQue)  BY DEF BackOutcomes, Takeable
<1>5. m \in Msgs /\ MsgSize[m] - mSndIdx * PacketSize \in Nat
  BY <1>1, TopOutcome
<1>. DEFINE rest == MsgSize[m] - mSndIdx * PacketSize
            size == PktSize(rest, PacketSize)
<1>6. CASE Goto(t, "full") /\ UNCHANGED edgeVars
  <2>1. \A u \in Workers : SamePlace(u)
    BY <1>1, <1>2, <1>6, <1>p, <1>l DEF Goto, SamePlace, Placing, Posted
  <2>2. WireKept /\ AcceptedKept  BY <1>3 DEF WireKept, AcceptedKept
  <2>. QED  BY <1>0, <1>3, <1>6, <2>1, <2>2, DataFrame DEF edgeVars
<1>7. CASE /\ sndBuf' = PutFrame(m, mSndIdx, rest)
           /\ sndWriteEdge' = sndWriteEdge + size
           /\ Goto(t, "token")
  <2>1. CASE ~ qpUp
    <3>1. Len(completed) <= Len(completed')
      <4>1. completed \in Seq(Msgs)  BY <1>0 DEF TypeOK, HistType
      <4>2. Len(completed) \in Nat  BY <4>1, LenProperties
      <4>. QED  BY <1>3, <4>2
    <3>. QED  BY <1>0, <1>3, <2>1, <3>1, DownFrame
  <2>2. CASE qpUp
    <3>0. PICK F, X : InFlight(F, X)  BY DEF DataInv
    <3>1. /\ Chained(F) /\ FramesOK(F) /\ RmtOK(F, X)
          /\ WireOK(F, X) /\ SndOK(F) /\ EndOK(F)
      BY <2>2, <3>0 DEF InFlight
    <3>2. PICK g : g = [n |-> Len(completed) + 1, msg |-> m, idx |-> mSndIdx,
                        at |-> sndWriteEdge]
      OBVIOUS
    <3>3. RestOf(g) = rest /\ SizeOf(g) = size  BY <3>2 DEF RestOf, SizeOf
    <3>4. EndsAt(F, g.at, g.n, g.idx)
      <4>1. Sending(t)  BY <1>1 DEF Sending
      <4>2. \A u \in Workers : pc[u] \notin Placing \cup Posted
        BY <1>1, <4>1, OthersElsewhere DEF OrderInv, Placing, Posted
      <4>. QED  BY <3>1, <3>2, <4>2 DEF EndOK
    <3>5. sndWriteEdge \in Nat /\ rmtWriteEdge \in Nat
      BY <1>0 DEF TypeOK, EdgeType, PeerType
    <3>6. rmtWriteEdge <= g.at
      <4>1. g.at \in Nat  BY <3>2, <3>5
      <4>. QED  BY <1>0, <3>1, <3>4, <4>1, EndsAfter
    <3>7. g.at + SizeOf(g) <= rmtWriteEdge + BufSize
      <4>1. /\ sndWriteEdge' <= sndTrailingEdge' /\ sndTrailingEdge' <= rmtTrailingEdge'
            /\ rmtTrailingEdge' = rmtWriteEdge' + BufSize
        BY DEF FlowControl
      <4>2. rmtWriteEdge' = rmtWriteEdge  BY <1>3 DEF peerVars
      <4>3. /\ sndWriteEdge' \in Nat /\ sndTrailingEdge' \in Nat
            /\ rmtTrailingEdge' \in Nat
        BY DEF TypeOK, EdgeType, PeerType
      <4>. QED  BY <1>7, <3>2, <3>3, <3>5, <4>1, <4>2, <4>3, SendPathAssumption
    <3>8. Proper(g)
      <4>1. g \in FrameRec
        <5>1. mSndIdx \in Nat  BY <1>0 DEF TypeOK, QueueType
        <5>2. completed \in Seq(Msgs)  BY <1>0 DEF TypeOK, HistType
        <5>3. Len(completed) + 1 \in Nat  BY <5>2, LenProperties
        <5>. QED  BY <1>5, <3>2, <3>5, <5>1, <5>3 DEF FrameRec
      <4>2. g.idx = 0 \/ RestOf(g) > 0
        <5>1. mSndIdx = 0 \/ mSndIdx * PacketSize < MsgSize[m]
          BY <1>4 DEF OrderInv, IndexOK
        <5>2. mSndIdx * PacketSize \in Int /\ MsgSize[m] \in Int
          <6>1. mSndIdx \in Nat  BY <1>0 DEF TypeOK, QueueType
          <6>. QED  BY <1>5, <6>1, SendPathAssumption
        <5>. QED  BY <3>2, <3>3, <5>1, <5>2
      <4>3. SizeOf(g) <= BufSize
        <5>1. SizeOf(g) \in Nat  BY <1>5, <3>3, PktSizeType
        <5>. QED  BY <3>2, <3>5, <3>6, <3>7, <5>1, SendPathAssumption
      <4>. QED  BY <1>5, <3>3, <4>1, <4>2, <4>3 DEF Proper
    <3>9. /\ \A y \in Edges(g) : sndBuf'[Pos(y)] = Content(g, y)
          /\ \A c \in Offsets \ CellsOf(g) : sndBuf'[c] = sndBuf[c]
      <4>1. EdgeType  BY <1>0 DEF TypeOK
      <4>2. sndWriteEdge = g.at /\ mSndIdx = g.idx  BY <3>2
      <4>3. sndBuf' = PutFrame(g.msg, g.idx, RestOf(g))  BY <1>7, <3>2, <3>3
      <4>. QED  BY <3>8, <4>1, <4>2, <4>3, PutFrameContent
    <3>10. SndOK(F)'
      <4>. SUFFICES ASSUME NEW f \in F, NEW y \in Edges(f)
                    PROVE  sndBuf'[Pos(y)] = Content(f, y)
        BY DEF SndOK
      <4>1. Proper(f) /\ rmtWriteEdge <= f.at  BY <3>1 DEF FramesOK
      <4>2. Before(f, g)  BY <3>4 DEF EndsAt, Before
      <4>3. Pos(y) \notin CellsOf(g)
        <5>1. \A z \in Edges(g) : Pos(y) # Pos(z)
          BY <3>5, <3>7, <3>8, <4>1, <4>2, CellsApart
        <5>. QED  BY <5>1 DEF CellsOf
      <4>4. Pos(y) \in Offsets
        <5>1. y \in Int
          <6>1. f.at \in Nat /\ FooterAt(f) \in Nat  BY <4>1, FrameSizes
          <6>. QED  BY <6>1 DEF Edges
        <5>. QED  BY <5>1, PosRange
      <4>5. sndBuf[Pos(y)] = Content(f, y)  BY <3>1 DEF SndOK
      <4>. QED  BY <3>9, <4>3, <4>4, <4>5
    <3>11. EndOK(F)'
      <4>1. \A u \in Workers \ {t} :
              pc'[u] = pc[u] /\ pc[u] \notin Placing \cup Posted
        <5>1. Sending(t)  BY <1>1 DEF Sending
        <5>2. \A u \in Workers \ {t} : pc'[u] = pc[u]  BY <1>7, <1>p DEF Goto
        <5>. QED  BY <5>1, <5>2, OthersElsewhere DEF OrderInv
      <4>2. pc'[t] = "token" /\ loc'[t] = [req |-> m, rest |-> rest,
                                           edge |-> sndWriteEdge]
        BY <1>2, <1>7, <1>p, <1>l DEF Goto
      <4>3. FrameOf(t)' = g  BY <1>3, <3>2, <4>2 DEF FrameOf
      <4>4. EndsAt(F, g.at, g.n, g.idx)'
        BY <1>3, <3>4 DEF EndsAt, peerVars
      <4>5. sndWriteEdge' = g.at + SizeOf(g)  BY <1>7, <3>2, <3>3
      <4>6. \A u \in Workers : /\ pc'[u] \in Placing => u = t
                               /\ pc'[u] \notin Posted
        BY <4>1, <4>2 DEF Placing, Posted
      <4>7. pc'[t] \in Placing  BY <4>2 DEF Placing
      <4>. QED  BY <3>8, <3>9, <4>3, <4>4, <4>5, <4>6, <4>7 DEF EndOK
    <3>12. WireOK(F, X)'  BY <1>3, <3>1 DEF WireOK
    <3>13. FramesOK(F)' /\ RmtOK(F, X)'
      BY <1>3, <3>1 DEF FramesOK, RmtOK, peerVars
    <3>14. InFlight(F, X)'
      BY <3>1, <3>10, <3>11, <3>12, <3>13 DEF InFlight
    <3>15. LinkOK' /\ PartialOK'
      BY <1>3 DEF DataInv, LinkOK, PartialOK, peerVars
    <3>. QED  BY <3>14, <3>15 DEF DataInv
  <2>. QED  BY <2>1, <2>2
<1>. QED  BY <1>2, <1>6, <1>7

(* Its writes are posted.                                                  *)
LEMMA DataWrite ==
  ASSUME SenderInv, TypeOK', FlowControl, OrderInv, DataInv,
         NEW t \in Workers, SendWrite(t)
  PROVE  DataInv'
PROOF
<1>0. TypeOK  BY DEF SenderInv
<1>p. pc \in [Workers -> Labels]  BY <1>0 DEF TypeOK, ThreadType
<1>1. pc[t] = "write" /\ Goto(t, "edge")  BY DEF SendWrite
<1>3. UNCHANGED <<queueVars, edgeVars, pendingRead, linkVars, resp, cq,
                  peerVars, histVars, loc>>
  BY DEF SendWrite
<1>. USE DEF queueVars, edgeVars, linkVars, histVars
<1>4. CASE ~ qpUp
  <2>1. wire' = wire  BY <1>4 DEF SendWrite
  <2>2. Len(completed) <= Len(completed')
    <3>1. completed \in Seq(Msgs)  BY <1>0 DEF TypeOK, HistType
    <3>2. Len(completed) \in Nat  BY <3>1, LenProperties
    <3>. QED  BY <1>3, <3>2
  <2>. QED  BY <1>0, <1>3, <1>4, <2>1, <2>2, DownFrame
<1>5. CASE qpUp
  <2>0. PICK F, X : InFlight(F, X)  BY DEF DataInv
  <2>1. /\ Chained(F) /\ FramesOK(F) /\ RmtOK(F, X)
        /\ WireOK(F, X) /\ SndOK(F) /\ EndOK(F)
    BY <1>5, <2>0 DEF InFlight
  <2>2. PICK g : g = FrameOf(t)  OBVIOUS
  <2>3. /\ Proper(g) /\ sndWriteEdge = g.at + SizeOf(g)
        /\ EndsAt(F, g.at, g.n, g.idx)
        /\ \A y \in Edges(g) : sndBuf[Pos(y)] = Content(g, y)
    <3>1. pc[t] \in Placing  BY <1>1 DEF Placing
    <3>. QED  BY <2>1, <2>2, <3>1 DEF EndOK
  <2>4. /\ g.at \in Nat /\ SizeOf(g) \in 2 .. BufSize /\ BufSize \in Nat
        /\ g.at \in Edges(g) /\ FooterAt(g) \in Edges(g)
    BY <2>3, FrameSizes, SendPathAssumption
  <2>5. loc[t].edge = g.at /\ PktSize(loc[t].rest, PacketSize) = SizeOf(g)
    <3>1. loc[t].req = Head(sndQue)
          /\ loc[t].rest = MsgSize[Head(sndQue)] - mSndIdx * PacketSize
      BY <1>1 DEF OrderInv, AtHead
    <3>2. RestOf(g) = loc[t].rest  BY <2>2, <3>1 DEF FrameOf, RestOf
    <3>. QED  BY <2>2, <3>2 DEF FrameOf, SizeOf
  <2>6. rmtWriteEdge \in Nat /\ sndWriteEdge \in Nat
    BY <1>0 DEF TypeOK, EdgeType, PeerType
  <2>7. /\ rmtWriteEdge <= g.at
        /\ g.at + SizeOf(g) <= rmtWriteEdge + BufSize
    <3>1. rmtWriteEdge <= g.at  BY <1>0, <2>1, <2>3, <2>4, EndsAfter
    <3>2. /\ sndWriteEdge <= sndTrailingEdge /\ sndTrailingEdge <= rmtTrailingEdge
          /\ rmtTrailingEdge = rmtWriteEdge + BufSize
          /\ sndTrailingEdge \in Nat /\ rmtTrailingEdge \in Nat
      BY <1>0 DEF FlowControl, TypeOK, EdgeType, PeerType
    <3>. QED  BY <2>3, <2>6, <3>1, <3>2, SendPathAssumption
  <2>8. ASSUME NEW f \in F
        PROVE  /\ Before(f, g) /\ f # g /\ Proper(f)
               /\ \A y \in Edges(f), z \in Edges(g) : Pos(y) # Pos(z) /\ y # z
               /\ CellsOf(f) \cap CellsOf(g) = {}
    <3>1. Proper(f) /\ rmtWriteEdge <= f.at  BY <2>1 DEF FramesOK
    <3>2. Before(f, g)  BY <2>3 DEF EndsAt, Before
    <3>3. f.at \in Nat /\ SizeOf(f) \in 2 .. BufSize  BY <3>1, FrameSizes
    <3>4. f # g  BY <2>4, <3>2, <3>3 DEF Before
    <3>. QED  BY <2>3, <2>6, <2>7, <3>1, <3>2, <3>4, CellsApart
  <2>9. PICK G : G = F \cup {g}  OBVIOUS
  <2>10. Chained(G)
    <3>1. \A f, h \in G : f = h \/ Before(f, h) \/ Before(h, f)
      BY <2>1, <2>8, <2>9 DEF Chained
    <3>2. IsLast(G, g)
      <4>1. ASSUME NEW f \in F  PROVE f.at <= g.at
        <5>1. Before(f, g) /\ Proper(f)  BY <2>8
        <5>2. f.at \in Nat /\ SizeOf(f) \in 2 .. BufSize  BY <5>1, FrameSizes
        <5>. QED  BY <2>4, <5>1, <5>2 DEF Before
      <4>. QED  BY <2>4, <2>9, <4>1 DEF IsLast
    <3>3. ASSUME NEW f \in F
          PROVE  \E h \in G : h.at = f.at + SizeOf(f) /\ Follows(f, h.n, h.idx)
      <4>1. CASE IsLast(F, f)
        <5>1. f.at + SizeOf(f) = g.at /\ Follows(f, g.n, g.idx)
          BY <2>3, <4>1 DEF EndsAt
        <5>. QED  BY <2>9, <5>1
      <4>2. CASE ~ IsLast(F, f)  BY <2>1, <2>9, <4>2 DEF Chained
      <4>. QED  BY <4>1, <4>2
    <3>. QED  BY <2>9, <3>1, <3>2, <3>3 DEF Chained
  <2>11. FramesOK(G)'
    <3>1. g.n \in 1 .. Len(accepted) /\ g.msg = accepted[g.n]
          /\ g.n = Len(completed) + 1
      <4>1. accepted = completed \o sndQue /\ sndQue # <<>>
        <5>1. Sending(t) /\ pc[t] # "pop"  BY <1>1 DEF Sending
        <5>. QED  BY <5>1, OthersElsewhere DEF OrderInv
      <4>2. completed \in Seq(Msgs) /\ sndQue \in Seq(Msgs)
        BY <1>0 DEF TypeOK, HistType, QueueType
      <4>3. /\ Len(completed) + 1 \in 1 .. Len(accepted)
            /\ accepted[Len(completed) + 1] = Head(sndQue)
        BY <4>1, <4>2, OldestRequest
      <4>4. loc[t].req = Head(sndQue)  BY <1>1 DEF OrderInv, AtHead
      <4>. QED  BY <2>2, <4>3, <4>4 DEF FrameOf
    <3>2. g.n <= Len(completed) + 1  BY <3>1
    <3>3. G # {} => \E f \in G : /\ f.at = rmtWriteEdge
                                 /\ f.n = Len(delivered) + 1 /\ f.idx = rcvIdx
      <4>1. CASE F = {}  BY <2>3, <2>9, <4>1 DEF EndsAt
      <4>2. CASE F # {}  BY <2>1, <2>9, <4>2 DEF FramesOK
      <4>. QED  BY <4>1, <4>2
    <3>4. FramesOK(G)
      BY <2>1, <2>3, <2>7, <2>9, <3>1, <3>2, <3>3 DEF FramesOK
    <3>. QED  BY <1>3, <3>4 DEF FramesOK, peerVars
  <2>12. X \cap Edges(g) = {}
    <3>1. ASSUME NEW y \in X, y \in Edges(g)  PROVE FALSE
      <4>1. PICK f \in F : y \in Edges(f)  BY <2>1 DEF RmtOK
      <4>. QED  BY <2>8, <3>1, <4>1
    <3>. QED  BY <3>1
  <2>13. RmtOK(G, X)'
    <3>1. RmtOK(G, X)
      <4>1. \A y \in X : \E f \in G : y \in Edges(f)
        BY <2>1, <2>9 DEF RmtOK
      <4>2. \A f \in G : \A y \in Edges(f) \cap X : rmtBuf[Pos(y)] = Content(f, y)
        BY <2>1, <2>9, <2>12 DEF RmtOK
      <4>3. \A f \in G : f.at \in X /\ FooterAt(f) \in X => Edges(f) \subseteq X
        BY <2>1, <2>4, <2>9, <2>12 DEF RmtOK
      <4>. QED  BY <2>1, <4>1, <4>2, <4>3 DEF RmtOK
    <3>. QED  BY <1>3, <3>1 DEF RmtOK, peerVars
  <2>14. WireOK(G, X)'
    <3>. DEFINE fr == Locate(g.at, SizeOf(g))
                W1 == FirstWrite(fr, SizeOf(g))
                W2 == SecondWrite(fr)
                len == Len(wire)
    <3>0. wire \in Seq(Request) /\ len \in Nat
      BY <1>0, LenProperties DEF TypeOK, NicType
    <3>1. /\ W1 \cup W2 = CellsOf(g)
          /\ W1 \subseteq CellsOf(g) /\ W2 \subseteq CellsOf(g)
          /\ W1 \cap W2 = {}
          /\ Pos(FooterAt(g)) \in W1
          /\ IsSplit(fr) => Pos(g.at) \in W2
          /\ ~ IsSplit(fr) => W2 = {}
      BY <2>3, WritesOf
    <3>2. wire' = IF IsSplit(fr) THEN wire \o << WriteReq(W1), WriteReq(W2) >>
                  ELSE Append(wire, WriteReq(W1))
      BY <1>5, <2>5 DEF SendWrite
    <3>. HIDE DEF fr, W1, W2, len
    <3>3. /\ \A i \in 1 .. len : i \in 1 .. Len(wire') /\ wire'[i] = wire[i]
          /\ len + 1 \in 1 .. Len(wire') /\ wire'[len + 1] = WriteReq(W1)
          /\ IsSplit(fr) => /\ len + 2 \in 1 .. Len(wire')
                            /\ wire'[len + 2] = WriteReq(W2)
          /\ \A i \in 1 .. Len(wire') :
               i \in 1 .. len \/ i = len + 1 \/ (IsSplit(fr) /\ i = len + 2)
      <4>1. PICK S : wire \in Seq(S) /\ WriteReq(W1) \in S /\ WriteReq(W2) \in S
        <5>. DEFINE T == Request \cup {WriteReq(W1), WriteReq(W2)}
        <5>1. wire \in Seq(T)  BY <3>0, SeqMonotonic
        <5>. QED  BY <5>1
      <4>2. CASE ~ IsSplit(fr)
        <5>1. wire' = Append(wire, WriteReq(W1))  BY <3>2, <4>2
        <5>2. /\ Len(wire') = len + 1
              /\ \A i \in 1 .. len : wire'[i] = wire[i]
              /\ wire'[len + 1] = WriteReq(W1)
          BY <4>1, <5>1, AppendProperties DEF len
        <5>. QED  BY <3>0, <4>2, <5>2
      <4>3. CASE IsSplit(fr)
        <5>1. PICK p : p = << WriteReq(W1), WriteReq(W2) >>  OBVIOUS
        <5>2. p \in Seq(S) /\ Len(p) = 2 /\ p[1] = WriteReq(W1) /\ p[2] = WriteReq(W2)
          BY <4>1, <5>1
        <5>3. wire' = wire \o p  BY <3>2, <4>3, <5>1
        <5>4. /\ Len(wire') = len + 2
              /\ \A i \in 1 .. len + 2 :
                   wire'[i] = IF i <= len THEN wire[i] ELSE p[i - len]
          <6>1. /\ Len(wire \o p) = Len(wire) + Len(p)
                /\ \A i \in 1 .. Len(wire) + Len(p) : (wire \o p)[i] =
                     IF i <= Len(wire) THEN wire[i] ELSE p[i - Len(wire)]
            BY <4>1, <5>2, ConcatProperties
          <6>. QED  BY <5>2, <5>3, <6>1 DEF len
        <5>5. wire'[len + 1] = p[1] /\ wire'[len + 2] = p[2]
          <6>1. /\ len + 1 \in 1 .. len + 2 /\ len + 2 \in 1 .. len + 2
                /\ ~ (len + 1 <= len) /\ ~ (len + 2 <= len)
                /\ (len + 1) - len = 1 /\ (len + 2) - len = 2
            BY <3>0
          <6>. QED  BY <5>4, <6>1
        <5>6. \A i \in 1 .. len : i \in 1 .. len + 2 /\ i <= len
          BY <3>0
        <5>7. \A i \in 1 .. len + 2 : i \in 1 .. len \/ i = len + 1 \/ i = len + 2
          BY <3>0
        <5>8. len + 1 \in 1 .. len + 2 /\ len + 2 \in 1 .. len + 2  BY <3>0
        <5>. QED  BY <4>3, <5>2, <5>4, <5>5, <5>6, <5>7, <5>8
      <4>. QED  BY <4>2, <4>3
    <3>4. /\ WriteReq(W1).cells = W1 /\ WriteReq(W2).cells = W2
          /\ WriteReq(W1).op = "write" /\ WriteReq(W2).op = "write"
      BY DEF WriteReq
    <3>5. ASSUME NEW i \in 1 .. Len(wire')
          PROVE  \/ i \in 1 .. len /\ wire'[i] = wire[i]
                 \/ /\ i = len + 1 /\ wire'[i].cells = W1
                    /\ wire'[i].op = "write"
                 \/ /\ IsSplit(fr) /\ i = len + 2 /\ wire'[i].cells = W2
                    /\ wire'[i].op = "write"
      BY <3>3, <3>4
    <3>6. ASSUME NEW i \in 1 .. len
          PROVE  wire[i].cells \cap CellsOf(g) = {}
      <4>1. CASE wire[i].cells = {}  BY <4>1
      <4>2. CASE wire[i].cells # {}
        <5>1. PICK f \in F : wire[i].cells \subseteq CellsOf(f)
          BY <2>1, <4>2 DEF WireOK, len
        <5>. QED  BY <2>8, <5>1
      <4>. QED  BY <4>1, <4>2
    <3>7. ASSUME NEW f \in G, NEW y \in Edges(f)
          PROVE  y \in X <=> \A i \in 1 .. Len(wire') : Pos(y) \notin wire'[i].cells
      <4>1. CASE f \in F
        <5>1. Pos(y) \notin CellsOf(g)  BY <2>8, <4>1 DEF CellsOf
        <5>2. Pos(y) \notin W1 /\ Pos(y) \notin W2  BY <3>1, <5>1
        <5>3. y \in X <=> \A i \in 1 .. len : Pos(y) \notin wire[i].cells
          BY <2>1, <4>1 DEF WireOK, len
        <5>4. ASSUME \A i \in 1 .. len : Pos(y) \notin wire[i].cells,
                     NEW i \in 1 .. Len(wire')
              PROVE  Pos(y) \notin wire'[i].cells
          BY <3>5, <5>2, <5>4
        <5>5. ASSUME \A i \in 1 .. Len(wire') : Pos(y) \notin wire'[i].cells,
                     NEW i \in 1 .. len
              PROVE  Pos(y) \notin wire[i].cells
          BY <3>3, <5>5
        <5>. QED  BY <5>3, <5>4, <5>5
      <4>2. CASE f = g
        <5>1. y \notin X  BY <2>12, <4>2
        <5>2. Pos(y) \in W1 \cup W2  BY <3>1, <4>2 DEF CellsOf
        <5>3. CASE Pos(y) \in W1  BY <3>3, <3>4, <5>1, <5>3
        <5>4. CASE Pos(y) \in W2
          <6>1. IsSplit(fr)  BY <3>1, <5>4
          <6>. QED  BY <3>3, <3>4, <5>1, <5>4, <6>1
        <5>. QED  BY <5>2, <5>3, <5>4
      <4>. QED  BY <2>9, <4>1, <4>2
    <3>8. ASSUME NEW i \in 1 .. Len(wire')
          PROVE  \/ wire'[i].cells = {}
                 \/ /\ wire'[i].op = "write"
                    /\ \E f \in G :
                         /\ wire'[i].cells \subseteq CellsOf(f)
                         /\ \/ Pos(f.at) \in wire'[i].cells
                            \/ Pos(FooterAt(f)) \in wire'[i].cells
      <4>1. g \in G /\ F \subseteq G  BY <2>9
      <4>2. CASE i \in 1 .. len /\ wire'[i] = wire[i]
        <5>1. \/ wire[i].cells = {}
              \/ /\ wire[i].op = "write"
                 /\ \E f \in F :
                      /\ wire[i].cells \subseteq CellsOf(f)
                      /\ \/ Pos(f.at) \in wire[i].cells
                         \/ Pos(FooterAt(f)) \in wire[i].cells
          BY <2>1, <4>2 DEF WireOK, len
        <5>. QED  BY <4>1, <4>2, <5>1
      <4>3. CASE wire'[i].cells = W1 /\ wire'[i].op = "write"
        BY <3>1, <4>1, <4>3
      <4>4. CASE IsSplit(fr) /\ wire'[i].cells = W2 /\ wire'[i].op = "write"
        BY <3>1, <4>1, <4>4
      <4>. QED  BY <3>5, <4>2, <4>3, <4>4
    <3>9. ASSUME NEW i \in 1 .. Len(wire'), NEW k \in 1 .. Len(wire'), i # k
          PROVE  wire'[i].cells \cap wire'[k].cells = {}
      <4>1. ASSUME NEW x \in 1 .. Len(wire'), x \notin 1 .. len
            PROVE  wire'[x].cells \subseteq CellsOf(g)
        BY <3>1, <3>5, <4>1
      <4>2. CASE i \in 1 .. len /\ k \in 1 .. len
        BY <2>1, <3>3, <3>9, <4>2 DEF WireOK, len
      <4>3. CASE i \in 1 .. len /\ k \notin 1 .. len
        BY <3>3, <3>6, <4>1, <4>3
      <4>4. CASE i \notin 1 .. len /\ k \in 1 .. len
        BY <3>3, <3>6, <4>1, <4>4
      <4>5. CASE i \notin 1 .. len /\ k \notin 1 .. len
        BY <3>1, <3>5, <3>9, <4>5
      <4>. QED  BY <4>2, <4>3, <4>4, <4>5
    <3>. QED  BY <3>7, <3>8, <3>9 DEF WireOK
  <2>15. SndOK(G)'
    BY <1>3, <2>1, <2>3, <2>9 DEF SndOK
  <2>16. EndOK(G)'
    <3>1. \A u \in Workers \ {t} :
            pc'[u] = pc[u] /\ pc[u] \notin Placing \cup Posted
      <4>1. Sending(t)  BY <1>1 DEF Sending
      <4>2. \A u \in Workers \ {t} : pc'[u] = pc[u]  BY <1>1, <1>p DEF Goto
      <4>. QED  BY <4>1, <4>2, OthersElsewhere DEF OrderInv
    <3>2. pc'[t] = "edge"  BY <1>1, <1>p DEF Goto
    <3>3. FrameOf(t)' = g  BY <1>3, <2>2 DEF FrameOf
    <3>4. ASSUME NEW n, NEW i, Follows(g, n, i)
          PROVE  EndsAt(G, sndWriteEdge, n, i)'
      <4>1. G # {}  BY <2>9
      <4>2. ASSUME NEW f \in F
            PROVE  f.at + SizeOf(f) <= sndWriteEdge /\ ~ IsLast(G, f)
        <5>1. Before(f, g) /\ Proper(f)  BY <2>8
        <5>2. f.at \in Nat /\ SizeOf(f) \in 2 .. BufSize  BY <5>1, FrameSizes
        <5>3. f.at + SizeOf(f) <= g.at  BY <5>1 DEF Before
        <5>4. ~ (g.at <= f.at)  BY <2>4, <5>2, <5>3
        <5>5. f.at + SizeOf(f) <= sndWriteEdge
          BY <2>3, <2>4, <2>6, <5>2, <5>3
        <5>. QED  BY <2>9, <5>4, <5>5 DEF IsLast
      <4>3. g.at + SizeOf(g) <= sndWriteEdge /\ g.at + SizeOf(g) = sndWriteEdge
        BY <2>3, <2>6
      <4>4. EndsAt(G, sndWriteEdge, n, i)
        BY <2>9, <3>4, <4>1, <4>2, <4>3 DEF EndsAt
      <4>. QED  BY <1>3, <4>4 DEF EndsAt, peerVars
    <3>5. \A u \in Workers : /\ pc'[u] \in Posted => u = t
                             /\ pc'[u] \notin Placing
      BY <3>1, <3>2 DEF Placing, Posted
    <3>6. pc'[t] \in Posted  BY <3>2 DEF Posted
    <3>. QED  BY <3>3, <3>4, <3>5, <3>6 DEF EndOK
  <2>17. InFlight(G, X)'
    BY <2>10, <2>11, <2>13, <2>14, <2>15, <2>16 DEF InFlight
  <2>18. LinkOK' /\ PartialOK'
    BY <1>3, <1>5 DEF DataInv, LinkOK, PartialOK, peerVars
  <2>. QED  BY <2>17, <2>18 DEF DataInv
<1>. QED  BY <1>4, <1>5

(* The packet is done with.                                                *)
LEMMA DataNext ==
  ASSUME SenderInv, TypeOK', OrderInv, DataInv,
         NEW t \in Workers, SendNext(t)
  PROVE  DataInv'
PROOF
<1>0. TypeOK  BY DEF SenderInv
<1>p. pc \in [Workers -> Labels]  BY <1>0 DEF TypeOK, ThreadType
<1>1. pc[t] = "next"  BY DEF SendNext
<1>2. UNCHANGED <<sndQue, edgeVars, linkVars, nicVars, peerVars, accepted,
                  delivered, loc>>
  BY DEF SendNext
<1>. USE DEF edgeVars, linkVars, nicVars
<1>3. Len(completed) \in Nat /\ completed \in Seq(Msgs)
  <2>1. completed \in Seq(Msgs)  BY <1>0 DEF TypeOK, HistType
  <2>. QED  BY <2>1, LenProperties
<1>4. loc[t].req \in Msgs
  BY <1>1 DEF SenderInv, LocalsOK, Labels
<1>5. \/ /\ loc[t].rest > PacketSize /\ mSndIdx' = mSndIdx + 1
         /\ completed' = completed /\ pc' = [pc EXCEPT ![t] = "top"]
      \/ /\ ~ (loc[t].rest > PacketSize) /\ mSndIdx' = 0
         /\ Len(completed') = Len(completed) + 1
         /\ pc' = [pc EXCEPT ![t] = "pop"]
  <2>1. CASE loc[t].rest > PacketSize
    <3>1. loc[t].rest \in Nat /\ PacketSize \in Nat
      BY <1>0, SendPathAssumption DEF TypeOK, ThreadType
    <3>. QED  BY <2>1, <3>1 DEF SendNext, NextIdx, Goto
  <2>2. CASE ~ (loc[t].rest > PacketSize)
    <3>1. Len(Append(completed, loc[t].req)) = Len(completed) + 1
      BY <1>3, <1>4, AppendProperties
    <3>. QED  BY <2>2, <3>1 DEF SendNext, NextIdx, Goto
  <2>. QED  BY <2>1, <2>2
<1>6. Len(completed) <= Len(completed')  BY <1>3, <1>5
<1>7. CASE ~ qpUp  BY <1>0, <1>2, <1>6, <1>7, DownFrame
<1>8. CASE qpUp
  <2>0. PICK F, X : InFlight(F, X)  BY DEF DataInv
  <2>1. /\ Chained(F) /\ FramesOK(F) /\ RmtOK(F, X)
        /\ WireOK(F, X) /\ SndOK(F) /\ EndOK(F)
    BY <1>8, <2>0 DEF InFlight
  <2>2. PICK g : g = FrameOf(t)  OBVIOUS
  <2>3. RestOf(g) = loc[t].rest /\ g.n = Len(completed) + 1 /\ g.idx = mSndIdx
    <3>1. loc[t].req = Head(sndQue)
          /\ loc[t].rest = MsgSize[Head(sndQue)] - mSndIdx * PacketSize
      BY <1>1 DEF OrderInv, AtHead
    <3>. QED  BY <2>2, <3>1 DEF FrameOf, RestOf
  <2>4. Follows(g, Len(completed') + 1, mSndIdx')
    BY <1>5, <2>3 DEF Follows
  <2>5. EndsAt(F, sndWriteEdge, Len(completed') + 1, mSndIdx')
    <3>1. pc[t] \in Posted  BY <1>1 DEF Posted
    <3>. QED  BY <2>1, <2>2, <2>4, <3>1 DEF EndOK
  <2>6. EndOK(F)'
    <3>1. \A u \in Workers \ {t} :
            pc'[u] = pc[u] /\ pc[u] \notin Placing \cup Posted
      <4>1. Sending(t)  BY <1>1 DEF Sending
      <4>2. \A u \in Workers \ {t} : pc'[u] = pc[u]  BY <1>5, <1>p
      <4>. QED  BY <4>1, <4>2, OthersElsewhere DEF OrderInv
    <3>2. pc'[t] \in {"top", "pop"}  BY <1>5, <1>p
    <3>3. \A u \in Workers : pc'[u] \notin Placing \cup Posted
      BY <3>1, <3>2 DEF Placing, Posted
    <3>4. EndsAt(F, sndWriteEdge, Len(completed) + 1, mSndIdx)'
      BY <1>2, <2>5 DEF EndsAt, peerVars
    <3>. QED  BY <3>3, <3>4 DEF EndOK
  <2>7. FramesOK(F)'
    <3>1. \A f \in F : f.n \in Nat  BY <2>1 DEF FramesOK, Proper, FrameRec
    <3>2. Len(completed') \in Nat  BY <1>3, <1>5
    <3>3. \A f \in F : f.n <= Len(completed) + 1 => f.n <= Len(completed') + 1
      BY <1>3, <1>6, <3>1, <3>2
    <3>. QED  BY <1>2, <2>1, <3>3 DEF FramesOK, peerVars
  <2>8. RmtOK(F, X)' /\ WireOK(F, X)' /\ SndOK(F)'
    BY <1>2, <2>1 DEF RmtOK, WireOK, SndOK, peerVars
  <2>9. InFlight(F, X)'  BY <2>1, <2>6, <2>7, <2>8 DEF InFlight
  <2>10. LinkOK' /\ PartialOK'
    BY <1>2 DEF DataInv, LinkOK, PartialOK, peerVars
  <2>. QED  BY <2>9, <2>10 DEF DataInv
<1>. QED  BY <1>7, <1>8

-----------------------------------------------------------------------------
(* The adapter's step.                                                     *)

(* A write brings part of a frame over.                                    *)
LEMMA DataNicWrite ==
  ASSUME TypeOK, TypeOK', DataInv, NicWrite
  PROVE  DataInv'
PROOF
<1>1. /\ wire # <<>> /\ Head(wire).op = "write" /\ wire' = Tail(wire)
      /\ rmtBuf' = [c \in Offsets |-> IF c \in Head(wire).cells
                                        THEN sndBuf[c] ELSE rmtBuf[c]]
      /\ UNCHANGED <<queueVars, edgeVars, linkVars, rmtWriteEdge,
                     rmtTrailingEdge, rcvIdx, rcvSize, rcvUnits, histVars,
                     threadVars>>
  BY DEF NicWrite
<1>. USE DEF queueVars, edgeVars, linkVars, histVars, threadVars
<1>2. qpUp  BY <1>1 DEF DataInv, LinkOK
<1>3. PICK F, X : InFlight(F, X)  BY DEF DataInv
<1>4. /\ Chained(F) /\ FramesOK(F) /\ RmtOK(F, X)
      /\ WireOK(F, X) /\ SndOK(F) /\ EndOK(F)
  BY <1>2, <1>3 DEF InFlight
<1>5. PICK W : W = Head(wire).cells  OBVIOUS
<1>6. wire \in Seq(Request)  BY DEF TypeOK, NicType
<1>7. /\ Len(wire) \in Nat \ {0} /\ wire[1].cells = W
      /\ Len(wire') = Len(wire) - 1
      /\ \A i \in 1 .. Len(wire') : wire'[i] = wire[i + 1]
  BY <1>1, <1>5, <1>6, HeadTailProperties, EmptySeq
<1>8. /\ \A i \in 1 .. Len(wire') : i + 1 \in 1 .. Len(wire) /\ i + 1 # 1
      /\ \A i \in 1 .. Len(wire) : i = 1 \/ i - 1 \in 1 .. Len(wire')
      /\ \A i \in 1 .. Len(wire) : (i - 1) + 1 = i
      /\ 1 \in 1 .. Len(wire)
  BY <1>7
<1>9. PICK Y : Y = X \cup { y \in UNION { Edges(f) : f \in F } : Pos(y) \in W }
  OBVIOUS
<1>10. ASSUME NEW f \in F, NEW y \in Edges(f)
       PROVE  y \in Y <=> y \in X \/ Pos(y) \in W
  BY <1>9
<1>11. ASSUME NEW f \in F, NEW y \in Edges(f)
       PROVE  y \in rmtWriteEdge .. rmtWriteEdge + BufSize - 1
              /\ Pos(y) \in Offsets
  <2>1. y \in rmtWriteEdge .. rmtWriteEdge + BufSize - 1
    BY <1>4, EdgesInWindow
  <2>. QED  BY <2>1, PosRange
<1>12. WireOK(F, Y)'
  <2>1. ASSUME NEW f \in F, NEW y \in Edges(f)
        PROVE  y \in Y <=> \A i \in 1 .. Len(wire') : Pos(y) \notin wire'[i].cells
    <3>1. y \in X <=> \A i \in 1 .. Len(wire) : Pos(y) \notin wire[i].cells
      BY <1>4 DEF WireOK
    <3>2. ASSUME Pos(y) \in W, NEW i \in 1 .. Len(wire')
          PROVE  Pos(y) \notin wire'[i].cells
      <4>1. wire[1].cells \cap wire[i + 1].cells = {}
        BY <1>4, <1>8 DEF WireOK
      <4>. QED  BY <1>7, <3>2, <4>1
    <3>3. ASSUME y \in X, NEW i \in 1 .. Len(wire')
          PROVE  Pos(y) \notin wire'[i].cells
      BY <1>7, <1>8, <3>1, <3>3
    <3>4. ASSUME \A i \in 1 .. Len(wire') : Pos(y) \notin wire'[i].cells,
                 Pos(y) \notin W
          PROVE  y \in X
      <4>1. ASSUME NEW i \in 1 .. Len(wire)  PROVE Pos(y) \notin wire[i].cells
        <5>1. CASE i = 1  BY <1>7, <3>4, <5>1
        <5>2. CASE i - 1 \in 1 .. Len(wire')
          <6>1. wire'[i - 1] = wire[i]  BY <1>7, <1>8, <5>2
          <6>. QED  BY <3>4, <5>2, <6>1
        <5>. QED  BY <1>8, <5>1, <5>2
      <4>. QED  BY <3>1, <4>1
    <3>. QED  BY <1>10, <3>2, <3>3, <3>4
  <2>2. ASSUME NEW i \in 1 .. Len(wire')
        PROVE  \/ wire'[i].cells = {}
               \/ /\ wire'[i].op = "write"
                  /\ \E f \in F :
                       /\ wire'[i].cells \subseteq CellsOf(f)
                       /\ \/ Pos(f.at) \in wire'[i].cells
                          \/ Pos(FooterAt(f)) \in wire'[i].cells
    BY <1>4, <1>7, <1>8 DEF WireOK
  <2>3. ASSUME NEW i \in 1 .. Len(wire'), NEW k \in 1 .. Len(wire'), i # k
        PROVE  wire'[i].cells \cap wire'[k].cells = {}
    <3>1. i + 1 \in 1 .. Len(wire) /\ k + 1 \in 1 .. Len(wire) /\ i + 1 # k + 1
      BY <1>7, <1>8, <2>3
    <3>2. wire[i + 1].cells \cap wire[k + 1].cells = {}
      BY <1>4, <3>1 DEF WireOK
    <3>. QED  BY <1>7, <3>2
  <2>. QED  BY <2>1, <2>2, <2>3 DEF WireOK
<1>13. FramesOK(F)'  BY <1>1, <1>4 DEF FramesOK
<1>14. RmtOK(F, Y)'
  <2>1. \A y \in Y : \E f \in F : y \in Edges(f)  BY <1>4, <1>9 DEF RmtOK
  <2>2. ASSUME NEW f \in F, NEW y \in Edges(f) \cap Y
        PROVE  rmtBuf'[Pos(y)] = Content(f, y)
    <3>1. Pos(y) \in Offsets  BY <1>11
    <3>2. CASE Pos(y) \in W
      <4>1. sndBuf[Pos(y)] = Content(f, y)  BY <1>4 DEF SndOK
      <4>. QED  BY <1>1, <1>5, <3>1, <3>2, <4>1
    <3>3. CASE Pos(y) \notin W
      <4>1. y \in X  BY <1>10, <3>3
      <4>2. rmtBuf[Pos(y)] = Content(f, y)  BY <1>4, <4>1 DEF RmtOK
      <4>. QED  BY <1>1, <1>5, <3>1, <3>3, <4>2
    <3>. QED  BY <3>2, <3>3
  <2>3. ASSUME NEW y \in rmtWriteEdge .. rmtWriteEdge + BufSize - 1, y \notin Y
        PROVE  rmtBuf'[Pos(y)] = Zero
    <3>1. rmtWriteEdge \in Nat  BY DEF TypeOK, PeerType
    <3>2. y \notin X  BY <1>9, <2>3
    <3>3. Pos(y) \notin W
      <4>1. SUFFICES ASSUME Pos(y) \in W  PROVE FALSE  OBVIOUS
      <4>2. PICK f \in F : W \subseteq CellsOf(f)
        BY <1>4, <1>7, <1>8, <4>1 DEF WireOK
      <4>3. PICK z \in Edges(f) : Pos(y) = Pos(z)  BY <4>1, <4>2 DEF CellsOf
      <4>4. y = z  BY <1>11, <3>1, <4>3, WindowInjective
      <4>. QED  BY <1>9, <2>3, <4>1, <4>4
    <3>4. rmtBuf[Pos(y)] = Zero  BY <1>4, <3>2 DEF RmtOK
    <3>5. Pos(y) \in Offsets  BY PosRange
    <3>. QED  BY <1>1, <1>5, <3>3, <3>4, <3>5
  <2>4. ASSUME NEW f \in F, f.at \in Y, FooterAt(f) \in Y
        PROVE  Edges(f) \subseteq Y
    <3>1. Chained(F)'  BY <1>4 DEF Chained
    <3>. HIDE DEF queueVars, edgeVars, linkVars, histVars, threadVars
    <3>2. \A y \in Edges(f) : y \in Y
      <4>1. SUFFICES ASSUME NEW y \in Edges(f), NEW i \in 1 .. Len(wire'),
                            Pos(y) \in wire'[i].cells
                     PROVE  FALSE
        BY <1>12 DEF WireOK
      <4>2. PICK h \in F :
              /\ wire'[i].cells \subseteq CellsOf(h)
              /\ \/ Pos(h.at) \in wire'[i].cells
                 \/ Pos(FooterAt(h)) \in wire'[i].cells
        BY <1>12, <4>1 DEF WireOK
      <4>3. Pos(y) \in CellsOf(f) /\ Pos(y) \in CellsOf(h)
        BY <4>1, <4>2 DEF CellsOf
      <4>4. h = f  BY <1>4, <4>3, FrameCellsApart
      <4>5. Proper(f)  BY <1>4 DEF FramesOK
      <4>6. f.at \in Edges(f) /\ FooterAt(f) \in Edges(f)  BY <4>5, FrameSizes
      <4>. QED  BY <1>12, <2>4, <4>1, <4>2, <4>4, <4>6 DEF WireOK
    <3>. QED  BY <3>2
  <2>. QED  BY <1>1, <2>1, <2>2, <2>3, <2>4 DEF RmtOK
<1>15. SndOK(F)'  BY <1>1, <1>4 DEF SndOK
<1>16. EndOK(F)'
  <2>1. \A t \in Workers : SamePlace(t)  BY <1>1 DEF SamePlace
  <2>. QED  BY <1>1, <1>4, <2>1, EndFrame
<1>17. InFlight(F, Y)'
  BY <1>4, <1>12, <1>13, <1>14, <1>15, <1>16 DEF InFlight
<1>18. LinkOK' /\ PartialOK'
  BY <1>1, <1>2 DEF DataInv, LinkOK, PartialOK
<1>. QED  BY <1>17, <1>18 DEF DataInv

-----------------------------------------------------------------------------
(* The peer's step.                                                        *)

(* The last packet of a message is the one with the number announced.      *)
LEMMA LastPacket ==
  ASSUME NEW units \in Nat, NEW p \in Nat \ {0}, NEW i \in Nat,
         units > p, i * p < units
  PROVE  /\ NumPckts(units, p) \in Nat \ {0}
         /\ i + 1 = NumPckts(units, p) <=> units - i * p <= p
PROOF
<1>. DEFINE n == NumPckts(units, p)
            d == n - 1 - i
<1>1. n \in Int
  <2>1. units + p - 1 \in Int  OBVIOUS
  <2>. QED  BY <2>1 DEF NumPckts
<1>2. units - (n - 1) * p \in 1 .. p  BY CountTheorem DEF CountCorrect
<1>. HIDE DEF n
<1>3. i * p \in Int /\ (n - 1) * p \in Int /\ d \in Int  BY <1>1
<1>4. d * p = (n - 1) * p - i * p  BY <1>1
<1>5. d * p > - p /\ (units - i * p <= p => d * p < p)
  <2>1. units - (n - 1) * p <= p /\ units - (n - 1) * p >= 1  BY <1>2, <1>3
  <2>2. units - i * p >= 1  BY <1>3
  <2>. QED  BY <1>3, <1>4, <2>1, <2>2
<1>. HIDE DEF d
<1>6. d > -1
  <2>1. SUFFICES ASSUME d <= -1  PROVE FALSE  BY <1>3
  <2>2. d * p <= - p  BY <1>3, <2>1
  <2>. QED  BY <1>3, <1>5, <2>2
<1>7. units - i * p <= p => d = 0
  <2>1. SUFFICES ASSUME units - i * p <= p, d >= 1  PROVE FALSE
    BY <1>3, <1>6
  <2>2. d * p >= p  BY <1>3, <2>1
  <2>. QED  BY <1>3, <1>5, <2>1, <2>2
<1>8. d = 0 => units - i * p <= p
  <2>1. SUFFICES ASSUME d = 0  PROVE units - i * p <= p  OBVIOUS
  <2>2. n - 1 = i  BY <1>1, <2>1 DEF d
  <2>. QED  BY <1>2, <2>2
<1>9. n = i + 1 + d  BY <1>1 DEF d
<1>. QED  BY <1>1, <1>3, <1>6, <1>7, <1>8, <1>9 DEF n

(* What arrives goes on from what has arrived.                             *)
LEMMA UnitsConcat ==
  ASSUME NEW m \in Msgs, NEW a \in Nat, NEW k \in Nat
  PROVE  [i \in 1 .. a |-> Unit(m, i - 1)] \o [i \in 1 .. k |-> Unit(m, a + i - 1)]
           = [i \in 1 .. a + k |-> Unit(m, i - 1)]
PROOF
<1>. DEFINE u == [i \in 1 .. a |-> Unit(m, i - 1)]
            v == [i \in 1 .. k |-> Unit(m, a + i - 1)]
            w == [i \in 1 .. a + k |-> Unit(m, i - 1)]
<1>1. /\ u \in Seq(Cell) /\ v \in Seq(Cell) /\ w \in Seq(Cell)
      /\ Len(u) = a /\ Len(v) = k /\ Len(w) = a + k
  <2>1. \A x \in Nat : Unit(m, x) \in Cell  BY DEF Unit, Cell
  <2>2. /\ \A i \in 1 .. a : i - 1 \in Nat
        /\ \A i \in 1 .. k : a + i - 1 \in Nat
        /\ \A i \in 1 .. a + k : i - 1 \in Nat
        /\ a + k \in Nat
    OBVIOUS
  <2>3. u \in [1 .. a -> Cell] /\ v \in [1 .. k -> Cell] /\ w \in [1 .. a + k -> Cell]
    BY <2>1, <2>2
  <2>. HIDE DEF u, v, w
  <2>4. \A n \in Nat : \A f \in [1 .. n -> Cell] : f \in Seq(Cell) /\ Len(f) = n
    OBVIOUS
  <2>. QED  BY <2>2, <2>3, <2>4
<1>2. ASSUME NEW i \in 1 .. a + k  PROVE (u \o v)[i] = w[i]
  <2>0. (u \o v)[i] = IF i <= a THEN u[i] ELSE v[i - a]
    <3>. HIDE DEF u, v
    <3>1. \A x \in 1 .. Len(u) + Len(v) :
            (u \o v)[x] = IF x <= Len(u) THEN u[x] ELSE v[x - Len(u)]
      BY <1>1, ConcatProperties
    <3>. QED  BY <1>1, <3>1
  <2>1. CASE i <= a
    <3>1. i \in 1 .. a  BY <2>1
    <3>. QED  BY <2>0, <2>1, <3>1
  <2>2. CASE ~ (i <= a)
    <3>1. i - a \in 1 .. k /\ a + (i - a) - 1 = i - 1  BY <2>2
    <3>. QED  BY <2>0, <2>2, <3>1
  <2>. QED  BY <2>1, <2>2
<1>. HIDE DEF u, v, w
<1>3. u \o v \in Seq(Cell) /\ Len(u \o v) = a + k
  BY <1>1, ConcatProperties
<1>4. u \o v = w  BY <1>1, <1>2, <1>3, SeqEqual
<1>. QED  BY <1>4 DEF u, v, w

(* What the peer finds at its write edge is the frame it waits for, all of *)
(* it.                                                                     *)
LEMMA ReceivedFrame ==
  ASSUME TypeOK, NEW F, NEW X, FramesOK(F), RmtOK(F, X), Receive
  PROVE  \E f \in F :
           /\ f.at = rmtWriteEdge /\ f.n = Len(delivered) + 1 /\ f.idx = rcvIdx
           /\ Edges(f) \subseteq X
           /\ RcvHeader = FrameEnd(f)
           /\ PktSize(RcvHeader.num, PacketSize) = SizeOf(f)
           /\ \A y \in Edges(f) : rmtBuf[Pos(y)] = Content(f, y)
PROOF
<1>1. rmtWriteEdge \in Nat /\ BufSize \in Nat \ {0}
  BY SendPathAssumption DEF TypeOK, PeerType
<1>2. \A i : RcvPos(i) = Pos(rmtWriteEdge + i)  BY DEF RcvPos, RingPos, Pos
<1>3. RcvHeader = rmtBuf[Pos(rmtWriteEdge)] /\ RcvHeader.kind = "end"
  BY <1>1, <1>2 DEF RcvHeader, Receive
<1>4. rmtWriteEdge \in X
  <2>1. rmtWriteEdge \in rmtWriteEdge .. rmtWriteEdge + BufSize - 1  BY <1>1
  <2>2. rmtBuf[Pos(rmtWriteEdge)] # Zero  BY <1>3 DEF Zero
  <2>. QED  BY <2>1, <2>2 DEF RmtOK
<1>5. PICK f \in F : /\ f.at = rmtWriteEdge
                     /\ f.n = Len(delivered) + 1 /\ f.idx = rcvIdx
  BY <1>4 DEF RmtOK, FramesOK
<1>6. Proper(f)  BY DEF FramesOK
<1>7. /\ SizeOf(f) \in 2 .. BufSize /\ f.at \in Edges(f)
      /\ FooterAt(f) \in Edges(f)
  BY <1>6, FrameSizes
<1>8. RcvHeader = FrameEnd(f)
  <2>1. rmtBuf[Pos(f.at)] = Content(f, f.at)
    BY <1>4, <1>5, <1>7 DEF RmtOK
  <2>2. Content(f, f.at) = FrameEnd(f)  BY DEF Content
  <2>. QED  BY <1>3, <1>5, <2>1, <2>2
<1>9. PktSize(RcvHeader.num, PacketSize) = SizeOf(f)
  BY <1>8 DEF FrameEnd, End, SizeOf
<1>10. rmtBuf[RcvPos(SizeOf(f) - 1)] = RcvHeader  BY <1>9 DEF Receive
<1>11. FooterAt(f) \in X
  <2>1. FooterAt(f) = rmtWriteEdge + (SizeOf(f) - 1)
    BY <1>1, <1>5, <1>7 DEF FooterAt
  <2>2. FooterAt(f) \in rmtWriteEdge .. rmtWriteEdge + BufSize - 1
    BY <1>1, <1>7, <2>1
  <2>3. RcvHeader # Zero  BY <1>3 DEF Zero
  <2>4. rmtBuf[Pos(FooterAt(f))] # Zero  BY <1>2, <1>10, <2>1, <2>3
  <2>. QED  BY <2>2, <2>4 DEF RmtOK
<1>12. Edges(f) \subseteq X  BY <1>4, <1>5, <1>11 DEF RmtOK
<1>13. \A y \in Edges(f) : rmtBuf[Pos(y)] = Content(f, y)
  BY <1>12 DEF RmtOK
<1>. QED  BY <1>5, <1>8, <1>9, <1>12, <1>13

(* Receiving takes the frame out of the ring ...                           *)
LEMMA ReceiveClears ==
  ASSUME TypeOK, Receive, NEW f, Proper(f), f.at = rmtWriteEdge,
         PktSize(RcvHeader.num, PacketSize) = SizeOf(f)
  PROVE  /\ rmtBuf' = [c \in Offsets |-> IF c \in CellsOf(f) THEN Zero
                                                             ELSE rmtBuf[c]]
         /\ rmtWriteEdge' = rmtWriteEdge + SizeOf(f)
PROOF
<1>1. rmtWriteEdge \in Nat /\ BufSize \in Nat \ {0}
  BY SendPathAssumption DEF TypeOK, PeerType
<1>2. \A i : RcvPos(i) = Pos(rmtWriteEdge + i)  BY DEF RcvPos, RingPos, Pos
<1>3. SizeOf(f) \in 2 .. BufSize  BY FrameSizes
<1>4. rmtWriteEdge' = rmtWriteEdge + SizeOf(f)  BY DEF Receive
<1>. DEFINE S == {RcvPos(i) : i \in 0 .. SizeOf(f) - 1}
<1>5. rmtBuf' = [c \in Offsets |-> IF c \in S THEN Zero ELSE rmtBuf[c]]
  BY DEF Receive
<1>6. S = CellsOf(f)
  <2>1. \A i \in 0 .. SizeOf(f) - 1 :
          RcvPos(i) = Pos(f.at + i) /\ f.at + i \in Edges(f)
    BY <1>1, <1>2, <1>3 DEF Edges, FooterAt
  <2>2. \A y \in Edges(f) : y - f.at \in 0 .. SizeOf(f) - 1
                            /\ y = f.at + (y - f.at)
    BY <1>1, <1>3 DEF Edges, FooterAt
  <2>3. S \subseteq CellsOf(f)  BY <2>1 DEF CellsOf
  <2>4. ASSUME NEW y \in Edges(f)  PROVE Pos(y) \in S
    BY <2>1, <2>2
  <2>. QED  BY <2>3, <2>4 DEF CellsOf
<1>. HIDE DEF S
<1>. QED  BY <1>4, <1>5, <1>6

(* ... and its data to the message.                                        *)
LEMMA ReceiveMessage ==
  ASSUME TypeOK, PartialOK, NEW F, FramesOK(F), Receive, NEW f \in F,
         f.at = rmtWriteEdge, f.n = Len(delivered) + 1, f.idx = rcvIdx,
         RcvHeader = FrameEnd(f),
         \A y \in Edges(f) : rmtBuf[Pos(y)] = Content(f, y)
  PROVE  IF RestOf(f) > PacketSize
           THEN /\ delivered' = delivered /\ rcvIdx' = f.idx + 1
                /\ rcvSize' = NumPckts(MsgSize[f.msg], PacketSize)
                /\ rcvUnits' = [i \in 1 .. (f.idx + 1) * PacketSize |->
                                  Unit(f.msg, i - 1)]
           ELSE rcvIdx' = 0 /\ delivered' = Append(delivered, f.msg)
PROOF
<1>. DEFINE P     == PacketSize
            rest  == RestOf(f)
            len   == Lesser(rest, P)
            m     == f.msg
            units == MsgSize[m]
            num   == NumPckts(units, P)
            seq   == SeqOf(f.idx, rest, P)
            data  == [i \in 1 .. len |-> Unit(m, f.idx * P + i - 1)]
<1>1. /\ Proper(f) /\ f \in FrameRec /\ rest \in Nat /\ f.idx \in Nat
      /\ f.idx = 0 \/ rest > 0
      /\ f.n \in 1 .. Len(accepted) /\ f.msg = accepted[f.n]
  BY DEF FramesOK, Proper, FrameRec
<1>2. /\ m \in Msgs /\ units \in Nat /\ P \in Nat \ {0} /\ f.idx * P \in Nat
      /\ rest = units - f.idx * P
  BY <1>1, SendPathAssumption DEF FrameRec, RestOf
<1>3. /\ RcvHeader.msg = m /\ RcvHeader.num = rest /\ RcvHeader.seq = seq
  BY DEF FrameEnd, End
<1>4. PktSize(rest, P) - 2 * MsgEnd = len /\ len \in Nat
  BY <1>1, <1>2 DEF PktSize, Lesser, MsgEnd
<1>5. [i \in 1 .. PktSize(rest, P) - 2 * MsgEnd |-> rmtBuf[RcvPos(i)]] = data
  <2>1. ASSUME NEW i \in 1 .. len
        PROVE  rmtBuf[RcvPos(i)] = Unit(m, f.idx * P + i - 1)
    <3>1. SizeOf(f) = 2 + len /\ f.at \in Nat  BY <1>1, FrameSizes
    <3>2. /\ f.at + i \in Edges(f) /\ f.at + i # f.at
          /\ f.at + i # FooterAt(f) /\ (f.at + i) - f.at - 1 = i - 1
      BY <1>4, <3>1 DEF Edges, FooterAt
    <3>3. Content(f, f.at + i) = Unit(m, f.idx * P + (i - 1))
      BY <3>2 DEF Content
    <3>4. f.idx * P + (i - 1) = f.idx * P + i - 1  BY <1>2
    <3>5. RcvPos(i) = Pos(f.at + i)  BY DEF RcvPos, RingPos, Pos
    <3>. QED  BY <3>2, <3>3, <3>4, <3>5
  <2>. HIDE DEF len
  <2>. QED  BY <1>4, <2>1
<1>. DEFINE
       us    == IF seq <= 0 THEN data ELSE rcvUnits \o data
       total == IF seq < 0 THEN 0 - seq ELSE rcvSize
       idx   == IF seq < 0 THEN 1 ELSE rcvIdx + 1
       whole == seq = 0 \/ idx = total
<1>6. /\ rcvIdx' = IF whole THEN 0 ELSE idx
      /\ rcvSize' = IF whole THEN 0 ELSE total
      /\ rcvUnits' = IF whole THEN <<>> ELSE us
      /\ delivered' = IF ~ whole THEN delivered
                      ELSE Append(delivered,
                                  IF seq <= 0 \/ seq = rcvIdx
                                    THEN Reassembled(m, us) ELSE NoMsg)
  <2>. HIDE DEF len, rest, data, seq
  <2>. QED  BY <1>3, <1>5 DEF Receive
<1>7. seq = IF f.idx = 0 /\ rest > P THEN 0 - NumPckts(rest, P) ELSE f.idx
  BY DEF SeqOf
<1>8. us = [i \in 1 .. units |-> Unit(m, i - 1)] => Reassembled(m, us) = m
  BY DEF Reassembled
<1>9. f.idx = 0 => data = [i \in 1 .. len |-> Unit(m, i - 1)]
  <2>1. f.idx = 0 => \A i \in 1 .. len : f.idx * P + i - 1 = i - 1
    BY <1>2, <1>4
  <2>. QED  BY <2>1
<1>. HIDE DEF seq, data, len, rest, m
<1>10. CASE f.idx = 0 /\ rest <= P
  <2>1. seq = 0  BY <1>1, <1>2, <1>7, <1>10
  <2>2. len = units
    <3>1. len = rest  BY <1>10 DEF len, Lesser
    <3>2. f.idx * P = 0  BY <1>2, <1>10
    <3>3. rest = units  BY <1>2, <3>2
    <3>. QED  BY <3>1, <3>3
  <2>3. whole /\ us = data  BY <2>1
  <2>4. us = [i \in 1 .. units |-> Unit(m, i - 1)]
    BY <1>9, <1>10, <2>2, <2>3
  <2>5. rcvIdx' = 0 /\ delivered' = Append(delivered, Reassembled(m, us))
    BY <1>6, <2>1, <2>3
  <2>. QED  BY <1>1, <1>2, <1>8, <1>10, <2>4, <2>5 DEF rest, m
<1>11. CASE f.idx = 0 /\ rest > P
  <2>1. rest = units /\ len = P
    <3>1. len = P  BY <1>1, <1>2, <1>11 DEF len, Lesser
    <3>. QED  BY <1>2, <1>11, <3>1
  <2>2. num \in Nat \ {0} /\ num # 1
    <3>1. 0 * P < units /\ units > P  BY <1>2, <1>11, <2>1
    <3>2. num \in Nat \ {0} /\ (0 + 1 = num <=> units - 0 * P <= P)
      BY <1>2, <3>1, LastPacket
    <3>. QED  BY <1>2, <3>1, <3>2
  <2>3. seq = 0 - num  BY <1>7, <1>11, <2>1
  <2>. HIDE DEF num
  <2>4. seq < 0 /\ seq # 0 /\ seq <= 0 /\ 0 - seq = num  BY <2>2, <2>3
  <2>5. total = num /\ idx = 1 /\ us = data
    <3>1. total = num  BY <2>4
    <3>2. idx = 1  BY <2>4
    <3>3. us = data  BY <2>4
    <3>. QED  BY <3>1, <3>2, <3>3
  <2>6. ~ whole  BY <2>2, <2>4, <2>5
  <2>7. us = [i \in 1 .. (f.idx + 1) * P |-> Unit(m, i - 1)]
    <3>1. (f.idx + 1) * P = len  BY <1>2, <1>11, <2>1
    <3>. QED  BY <1>9, <1>11, <2>5, <3>1
  <2>8. /\ rcvIdx' = f.idx + 1 /\ rcvSize' = num /\ rcvUnits' = us
        /\ delivered' = delivered
    BY <1>6, <1>11, <2>5, <2>6
  <2>. QED  BY <1>1, <1>2, <1>11, <2>7, <2>8 DEF num, rest, m
<1>12. CASE f.idx # 0
  <2>1. rcvIdx = f.idx /\ rcvIdx \in Nat \ {0}  BY <1>1, <1>12
  <2>2. m = accepted[Len(delivered) + 1]  BY <1>1 DEF m
  <2>3. /\ rcvUnits = [i \in 1 .. f.idx * P |-> Unit(m, i - 1)]
        /\ rcvSize = num
    BY <2>1, <2>2 DEF PartialOK
  <2>4. seq = f.idx /\ seq > 0  BY <1>1, <1>7, <1>12
  <2>5. f.idx * P < units /\ units > P
    <3>1. f.idx * P >= P  BY <1>1, <1>2, <1>12
    <3>. QED  BY <1>1, <1>2, <1>12, <3>1
  <2>6. num \in Nat \ {0} /\ (f.idx + 1 = num <=> rest <= P)
    BY <1>1, <1>2, <2>5, LastPacket
  <2>. HIDE DEF num
  <2>7. total = num /\ idx = f.idx + 1  BY <1>1, <2>1, <2>3, <2>4
  <2>8. us = [i \in 1 .. f.idx * P + len |-> Unit(m, i - 1)]
    <3>1. us = rcvUnits \o data  BY <1>1, <2>4
    <3>2. rcvUnits \o [i \in 1 .. len |-> Unit(m, f.idx * P + i - 1)]
            = [i \in 1 .. f.idx * P + len |-> Unit(m, i - 1)]
      BY <1>2, <1>4, <2>3, UnitsConcat
    <3>. QED  BY <3>1, <3>2 DEF data
  <2>9. CASE rest > P
    <3>1. ~ whole  BY <1>1, <1>2, <2>4, <2>6, <2>7, <2>9
    <3>2. f.idx * P + len = (f.idx + 1) * P
      <4>1. len = P  BY <1>1, <1>2, <2>9 DEF len, Lesser
      <4>. QED  BY <1>1, <1>2, <4>1
    <3>3. /\ rcvIdx' = f.idx + 1 /\ rcvSize' = num /\ rcvUnits' = us
          /\ delivered' = delivered
      BY <1>6, <2>7, <3>1
    <3>. QED  BY <2>8, <2>9, <3>2, <3>3 DEF num, rest, m
  <2>10. CASE ~ (rest > P)
    <3>1. whole  BY <1>1, <1>2, <2>6, <2>7, <2>10
    <3>2. len = rest  BY <1>1, <1>2, <2>10 DEF len, Lesser
    <3>3. f.idx * P + len = units  BY <1>1, <1>2, <3>2
    <3>4. us = [i \in 1 .. units |-> Unit(m, i - 1)]  BY <2>8, <3>3
    <3>5. rcvIdx' = 0 /\ delivered' = Append(delivered, Reassembled(m, us))
      BY <1>6, <2>1, <2>4, <3>1
    <3>. QED  BY <1>8, <2>10, <3>4, <3>5 DEF rest, m
  <2>. QED  BY <2>9, <2>10
<1>. QED  BY <1>1, <1>2, <1>10, <1>11, <1>12

(* A turn of the ring comes back to the same place.                        *)
LEMMA OneTurn ==
  ASSUME NEW y \in Int
  PROVE  Pos(y - BufSize) = Pos(y)
PROOF
<1>. DEFINE b == BufSize
            d == y \div b
            r == y % b
            x == y - b
            q == d - 1
<1>1. b \in Nat \ {0}  BY SendPathAssumption
<1>2. d \in Int /\ r \in 0 .. b - 1 /\ y = b * d + r  BY <1>1, SMT
<1>. HIDE DEF b, d, r
<1>3. x \in Int /\ q \in Int /\ x = b * q + r  BY <1>1, <1>2
<1>. HIDE DEF x, q
<1>4. x % b = r  BY <1>1, <1>2, <1>3, ModUnique
<1>. QED  BY <1>4 DEF Pos, x, b, r

(* The frames that are left once the peer has received the first.          *)
LEMMA FramesAfterFirst ==
  ASSUME TypeOK, NEW F, Chained(F), FramesOK(F),
         NEW f \in F, f.at = rmtWriteEdge
  PROVE  /\ Chained(F \ {f})
         /\ \A g \in F \ {f} : Before(f, g)
         /\ \A g \in F : IsLast(F \ {f}, g) /\ g # f => IsLast(F, g)
         /\ F \ {f} = {} => IsLast(F, f)
         /\ F \ {f} # {} => \E g \in F \ {f} : /\ g.at = f.at + SizeOf(f)
                                               /\ Follows(f, g.n, g.idx)
PROOF
<1>1. \A g \in F : /\ g.at \in Nat /\ rmtWriteEdge <= g.at
                   /\ SizeOf(g) \in Nat /\ SizeOf(g) >= 2
  BY FrameSizes DEF FramesOK
<1>2. ASSUME NEW g \in F \ {f}  PROVE Before(f, g) /\ g.at > f.at
  <2>1. ~ Before(g, f)  BY <1>1 DEF Before
  <2>2. Before(f, g)  BY <2>1 DEF Chained
  <2>. QED  BY <1>1, <2>2 DEF Before
<1>3. ASSUME NEW g \in F, IsLast(F \ {f}, g), g # f  PROVE IsLast(F, g)
  <2>1. f.at <= g.at  BY <1>1
  <2>. QED  BY <1>3, <2>1 DEF IsLast
<1>4. ASSUME NEW g \in F, NEW h \in F, h.at = g.at + SizeOf(g)
      PROVE  h \in F \ {f}
  BY <1>1, <1>4
<1>5. Chained(F \ {f})
  <2>1. ASSUME NEW g \in F \ {f}
        PROVE  \/ IsLast(F \ {f}, g)
               \/ \E h \in F \ {f} : /\ h.at = g.at + SizeOf(g)
                                     /\ Follows(g, h.n, h.idx)
    <3>1. CASE IsLast(F, g)  BY <3>1 DEF IsLast
    <3>2. CASE \E h \in F : h.at = g.at + SizeOf(g) /\ Follows(g, h.n, h.idx)
      BY <1>4, <3>2
    <3>. QED  BY <3>1, <3>2 DEF Chained
  <2>2. \A g, h \in F \ {f} : g = h \/ Before(g, h) \/ Before(h, g)
    BY DEF Chained
  <2>. QED  BY <2>1, <2>2 DEF Chained
<1>6. F \ {f} = {} => IsLast(F, f)  BY <1>1 DEF IsLast
<1>7. ASSUME F \ {f} # {}
      PROVE  \E g \in F \ {f} : g.at = f.at + SizeOf(f) /\ Follows(f, g.n, g.idx)
  <2>1. ~ IsLast(F, f)
    <3>1. PICK g \in F \ {f} : TRUE  BY <1>7
    <3>2. g.at > f.at  BY <1>2
    <3>. QED  BY <1>1, <3>2 DEF IsLast
  <2>. QED  BY <1>4, <2>1 DEF Chained
<1>. QED  BY <1>2, <1>3, <1>5, <1>6, <1>7

(* The peer takes the first frame out.                                     *)
LEMMA DataReceive ==
  ASSUME TypeOK, TypeOK', DataInv, Receive
  PROVE  DataInv'
PROOF
<1>1. UNCHANGED <<queueVars, edgeVars, pendingRead, linkVars, nicVars, unsent,
                  accepted, completed, threadVars>>
  BY DEF Receive
<1>. USE DEF queueVars, edgeVars, linkVars, nicVars, threadVars
<1>2. PICK F, X : InFlight(F, X)  BY DEF DataInv
<1>3. Chained(F) /\ FramesOK(F) /\ RmtOK(F, X)  BY <1>2 DEF InFlight
<1>4. PICK f \in F :
           /\ f.at = rmtWriteEdge /\ f.n = Len(delivered) + 1 /\ f.idx = rcvIdx
           /\ Edges(f) \subseteq X
           /\ RcvHeader = FrameEnd(f)
           /\ PktSize(RcvHeader.num, PacketSize) = SizeOf(f)
           /\ \A y \in Edges(f) : rmtBuf[Pos(y)] = Content(f, y)
  BY <1>3, ReceivedFrame
<1>5. /\ Proper(f) /\ f.at \in Nat /\ SizeOf(f) \in 2 .. BufSize
      /\ BufSize \in Nat \ {0}
      /\ f.at \in Edges(f) /\ FooterAt(f) \in Edges(f)
  <2>1. Proper(f)  BY <1>3 DEF FramesOK
  <2>. QED  BY <2>1, FrameSizes, SendPathAssumption
<1>6. /\ rmtBuf' = [c \in Offsets |-> IF c \in CellsOf(f) THEN Zero
                                                          ELSE rmtBuf[c]]
      /\ rmtWriteEdge' = rmtWriteEdge + SizeOf(f)
  BY <1>4, <1>5, ReceiveClears
<1>7. IF RestOf(f) > PacketSize
        THEN /\ delivered' = delivered /\ rcvIdx' = f.idx + 1
             /\ rcvSize' = NumPckts(MsgSize[f.msg], PacketSize)
             /\ rcvUnits' = [i \in 1 .. (f.idx + 1) * PacketSize |->
                               Unit(f.msg, i - 1)]
        ELSE rcvIdx' = 0 /\ delivered' = Append(delivered, f.msg)
  <2>1. PartialOK  BY DEF DataInv
  <2>. QED  BY <1>3, <1>4, <2>1, ReceiveMessage
<1>8. /\ Len(delivered) \in Nat /\ f.n \in 1 .. Len(accepted)
      /\ f.msg = accepted[f.n] /\ f.idx \in Nat /\ f.msg \in Msgs
  <2>1. delivered \in Seq(Msgs \cup {NoMsg})  BY DEF TypeOK, HistType
  <2>2. f.n \in 1 .. Len(accepted) /\ f.msg = accepted[f.n]
    BY <1>3 DEF FramesOK
  <2>. QED  BY <1>5, <2>1, <2>2, LenProperties DEF Proper, FrameRec
<1>9. \A n, i : Follows(f, n, i) => n = Len(delivered') + 1 /\ i = rcvIdx'
  <2>1. delivered \in Seq(Msgs \cup {NoMsg}) /\ f.msg \in Msgs \cup {NoMsg}
    BY <1>8 DEF TypeOK, HistType
  <2>2. Len(Append(delivered, f.msg)) = Len(delivered) + 1
    BY <2>1, AppendProperties
  <2>. QED  BY <1>4, <1>7, <1>8, <2>2 DEF Follows
<1>10. PICK G : G = F \ {f}  OBVIOUS
<1>11. PICK Y : Y = X \ Edges(f)  OBVIOUS
<1>12. /\ Chained(G)
       /\ \A g \in G : g \in F /\ Before(f, g)
       /\ \A g \in G : IsLast(G, g) => IsLast(F, g)
       /\ G = {} => IsLast(F, f)
       /\ G # {} => \E g \in G : /\ g.at = f.at + SizeOf(f)
                                 /\ Follows(f, g.n, g.idx)
  BY <1>3, <1>4, <1>10, FramesAfterFirst
<1>13. \A g \in G : /\ \A y \in Edges(g) : y \notin Edges(f)
                    /\ CellsOf(g) \cap CellsOf(f) = {}
  BY <1>3, <1>10, FrameCellsApart
<1>14. \A g \in G : \A y \in Edges(g) : y \in Y <=> y \in X
  BY <1>11, <1>13
<1>15. rmtWriteEdge \in Nat  BY DEF TypeOK, PeerType
<1>16. FramesOK(G)'
  <2>1. ASSUME NEW g \in G
        PROVE  /\ Proper(g)
               /\ g.n \in 1 .. Len(accepted) /\ g.msg = accepted[g.n]
               /\ g.n <= Len(completed) + 1
               /\ rmtWriteEdge' <= g.at
               /\ g.at + SizeOf(g) <= rmtWriteEdge' + BufSize
    <3>1. /\ Proper(g)
          /\ g.n \in 1 .. Len(accepted) /\ g.msg = accepted[g.n]
          /\ g.n <= Len(completed) + 1
          /\ g.at + SizeOf(g) <= rmtWriteEdge + BufSize
      BY <1>3, <1>12 DEF FramesOK
    <3>2. g.at \in Nat /\ SizeOf(g) \in Nat  BY <3>1, FrameSizes
    <3>3. Before(f, g)  BY <1>12
    <3>. QED  BY <1>4, <1>5, <1>6, <3>1, <3>2, <3>3 DEF Before
  <2>2. G # {} => \E g \in G : /\ g.at = rmtWriteEdge'
                               /\ g.n = Len(delivered') + 1 /\ g.idx = rcvIdx'
    BY <1>4, <1>6, <1>9, <1>12
  <2>. QED  BY <1>1, <2>1, <2>2 DEF FramesOK
<1>17. RmtOK(G, Y)'
  <2>1. ASSUME NEW y \in Y  PROVE \E g \in G : y \in Edges(g)
    <3>1. y \in X /\ y \notin Edges(f)  BY <1>11
    <3>2. PICK g \in F : y \in Edges(g)  BY <1>3, <3>1 DEF RmtOK
    <3>. QED  BY <1>10, <3>1, <3>2
  <2>2. ASSUME NEW g \in G, NEW y \in Edges(g) \cap Y
        PROVE  rmtBuf'[Pos(y)] = Content(g, y)
    <3>1. y \in rmtWriteEdge .. rmtWriteEdge + BufSize - 1
      BY <1>3, <1>12, EdgesInWindow
    <3>2. Pos(y) \in Offsets  BY <1>15, <3>1, PosRange
    <3>3. Pos(y) \notin CellsOf(f)
      <4>1. Pos(y) \in CellsOf(g)  BY DEF CellsOf
      <4>. QED  BY <1>13, <4>1
    <3>4. rmtBuf[Pos(y)] = Content(g, y)  BY <1>3, <1>12, <1>14 DEF RmtOK
    <3>. QED  BY <1>6, <3>2, <3>3, <3>4
  <2>3. ASSUME NEW y \in rmtWriteEdge' .. rmtWriteEdge' + BufSize - 1, y \notin Y
        PROVE  rmtBuf'[Pos(y)] = Zero
    <3>1. y \in Int /\ Pos(y) \in Offsets  BY <1>5, <1>6, <1>15, PosRange
    <3>2. CASE Pos(y) \in CellsOf(f)  BY <1>6, <3>1, <3>2
    <3>3. CASE Pos(y) \notin CellsOf(f)
      <4>1. y \notin Edges(f)  BY <3>3 DEF CellsOf
      <4>2. y \notin X  BY <1>11, <2>3, <4>1
      <4>3. y <= rmtWriteEdge + BufSize - 1
        <5>1. SUFFICES ASSUME y > rmtWriteEdge + BufSize - 1  PROVE FALSE
          BY <1>5, <1>15, <3>1
        <5>2. y - BufSize \in Edges(f)
          BY <1>4, <1>5, <1>6, <1>15, <3>1, <5>1 DEF Edges, FooterAt
        <5>3. Pos(y - BufSize) = Pos(y)  BY <3>1, OneTurn
        <5>. QED  BY <3>3, <5>2, <5>3 DEF CellsOf
      <4>4. y \in rmtWriteEdge .. rmtWriteEdge + BufSize - 1
        BY <1>5, <1>6, <1>15, <3>1, <4>3
      <4>5. rmtBuf[Pos(y)] = Zero  BY <1>3, <4>2, <4>4 DEF RmtOK
      <4>. QED  BY <1>6, <3>1, <3>3, <4>5
    <3>. QED  BY <3>2, <3>3
  <2>4. ASSUME NEW g \in G, g.at \in Y, FooterAt(g) \in Y
        PROVE  Edges(g) \subseteq Y
    <3>1. g.at \in X /\ FooterAt(g) \in X  BY <1>11, <2>4
    <3>2. Edges(g) \subseteq X  BY <1>3, <1>12, <3>1 DEF RmtOK
    <3>. QED  BY <1>14, <3>2
  <2>. QED  BY <2>1, <2>2, <2>3, <2>4 DEF RmtOK
<1>18. ASSUME qpUp  PROVE WireOK(G, Y)' /\ SndOK(G)' /\ EndOK(G)'
  <2>1. WireOK(F, X) /\ SndOK(F) /\ EndOK(F)  BY <1>2, <1>18 DEF InFlight
  <2>2. WireOK(G, Y)'
    <3>1. \A g \in G : \A y \in Edges(g) :
            y \in Y <=> \A i \in 1 .. Len(wire) : Pos(y) \notin wire[i].cells
      BY <1>12, <1>14, <2>1 DEF WireOK
    <3>2. ASSUME NEW i \in 1 .. Len(wire), wire[i].cells # {}
          PROVE  /\ wire[i].op = "write"
                 /\ \E g \in G :
                      /\ wire[i].cells \subseteq CellsOf(g)
                      /\ \/ Pos(g.at) \in wire[i].cells
                         \/ Pos(FooterAt(g)) \in wire[i].cells
      <4>1. PICK g \in F :
               /\ wire[i].op = "write"
               /\ wire[i].cells \subseteq CellsOf(g)
               /\ \/ Pos(g.at) \in wire[i].cells
                  \/ Pos(FooterAt(g)) \in wire[i].cells
        BY <2>1, <3>2 DEF WireOK
      <4>2. /\ Pos(f.at) \notin wire[i].cells
            /\ Pos(FooterAt(f)) \notin wire[i].cells
        BY <1>4, <1>5, <2>1 DEF WireOK
      <4>3. g \in G  BY <1>10, <4>1, <4>2
      <4>. QED  BY <4>1, <4>3
    <3>3. \A i, j \in 1 .. Len(wire) :
            i # j => wire[i].cells \cap wire[j].cells = {}
      BY <2>1 DEF WireOK
    <3>. QED  BY <1>1, <3>1, <3>2, <3>3 DEF WireOK
  <2>3. SndOK(G)'  BY <1>1, <1>12, <2>1 DEF SndOK
  <2>4. ASSUME NEW e, NEW n, NEW i, EndsAt(F, e, n, i)
        PROVE  EndsAt(G, e, n, i)'
    <3>1. G = {} => e = rmtWriteEdge' /\ n = Len(delivered') + 1 /\ i = rcvIdx'
      <4>1. SUFFICES ASSUME G = {}
                     PROVE  e = rmtWriteEdge' /\ n = Len(delivered') + 1
                            /\ i = rcvIdx'
        OBVIOUS
      <4>2. IsLast(F, f)  BY <1>12, <4>1
      <4>3. f.at + SizeOf(f) = e /\ Follows(f, n, i)
        BY <2>4, <4>2 DEF EndsAt
      <4>. QED  BY <1>4, <1>6, <1>9, <4>3
    <3>2. \A g \in G :
            /\ g.at + SizeOf(g) <= e
            /\ IsLast(G, g) => g.at + SizeOf(g) = e /\ Follows(g, n, i)
      BY <1>12, <2>4 DEF EndsAt
    <3>. QED  BY <3>1, <3>2 DEF EndsAt
  <2>5. \A t \in Workers : FrameOf(t)' = FrameOf(t)  BY <1>1 DEF FrameOf
  <2>6. ASSUME NEW t \in Workers, pc'[t] \in Placing, NEW g, g = FrameOf(t)'
        PROVE  /\ Proper(g) /\ sndWriteEdge' = g.at + SizeOf(g)
               /\ EndsAt(G, g.at, g.n, g.idx)'
               /\ \A y \in Edges(g) : sndBuf'[Pos(y)] = Content(g, y)
    <3>1. pc[t] \in Placing /\ g = FrameOf(t)  BY <1>1, <2>5, <2>6
    <3>2. /\ Proper(g) /\ sndWriteEdge = g.at + SizeOf(g)
          /\ EndsAt(F, g.at, g.n, g.idx)
          /\ \A y \in Edges(g) : sndBuf[Pos(y)] = Content(g, y)
      BY <2>1, <3>1 DEF EndOK
    <3>. QED  BY <1>1, <2>4, <3>2
  <2>7. ASSUME NEW t \in Workers, pc'[t] \in Posted, NEW g, NEW n, NEW i,
               g = FrameOf(t)', Follows(g, n, i)
        PROVE  EndsAt(G, sndWriteEdge, n, i)'
    <3>1. pc[t] \in Posted /\ g = FrameOf(t)  BY <1>1, <2>5, <2>7
    <3>2. EndsAt(F, sndWriteEdge, n, i)  BY <2>1, <2>7, <3>1 DEF EndOK
    <3>3. PICK e : e = sndWriteEdge /\ e = sndWriteEdge'  BY <1>1
    <3>4. EndsAt(G, e, n, i)'  BY <2>4, <3>2, <3>3
    <3>. QED  BY <3>3, <3>4 DEF EndsAt
  <2>8. ASSUME \A t \in Workers : pc'[t] \notin Placing \cup Posted
        PROVE  EndsAt(G, sndWriteEdge, Len(completed) + 1, mSndIdx)'
    <3>1. EndsAt(F, sndWriteEdge, Len(completed) + 1, mSndIdx)
      BY <1>1, <2>1, <2>8 DEF EndOK
    <3>2. PICK e, n, i :
             /\ e = sndWriteEdge /\ e = sndWriteEdge'
             /\ n = Len(completed) + 1 /\ n = Len(completed') + 1
             /\ i = mSndIdx /\ i = mSndIdx'
      BY <1>1
    <3>3. EndsAt(G, e, n, i)'  BY <2>4, <3>1, <3>2
    <3>. QED  BY <3>2, <3>3 DEF EndsAt
  <2>9. EndOK(G)'  BY <2>6, <2>7, <2>8 DEF EndOK
  <2>. QED  BY <2>2, <2>3, <2>9
<1>19. InFlight(G, Y)'  BY <1>1, <1>12, <1>16, <1>17, <1>18 DEF InFlight
<1>20. PartialOK'
  <2>1. SUFFICES ASSUME rcvIdx' # 0  PROVE PartialOK'
    BY DEF PartialOK
  <2>2. /\ RestOf(f) > PacketSize
        /\ delivered' = delivered /\ rcvIdx' = f.idx + 1
        /\ rcvSize' = NumPckts(MsgSize[f.msg], PacketSize)
        /\ rcvUnits' = [i \in 1 .. (f.idx + 1) * PacketSize |->
                          Unit(f.msg, i - 1)]
    BY <1>7, <2>1
  <2>3. rcvIdx' \in Nat /\ Len(delivered') < Len(accepted')
    <3>1. accepted \in Seq(Msgs)  BY DEF TypeOK, HistType
    <3>2. Len(accepted) \in Nat  BY <3>1, LenProperties
    <3>. QED  BY <1>1, <1>4, <1>8, <2>2, <3>2
  <2>4. accepted'[Len(delivered') + 1] = f.msg
    BY <1>1, <1>4, <1>8, <2>2
  <2>. QED  BY <2>2, <2>3, <2>4 DEF PartialOK
<1>21. LinkOK'  BY <1>1 DEF DataInv, LinkOK
<1>. QED  BY <1>19, <1>20, <1>21 DEF DataInv

-----------------------------------------------------------------------------
(* The end and the start of a connection.                                  *)

(* When the link goes down the requests are gone and the frames that were  *)
(* brought over stay.                                                      *)
LEMMA DataDisconnect ==
  ASSUME DataInv, Disconnect
  PROVE  DataInv'
PROOF
<1>1. /\ wire' = <<>> /\ qpUp' = FALSE
      /\ UNCHANGED <<peerVars, histVars>>
  BY DEF Disconnect
<1>2. LinkOK'  BY <1>1 DEF LinkOK
<1>3. PartialOK'  BY <1>1 DEF DataInv, PartialOK, peerVars, histVars
<1>4. PICK F, X : InFlight(F, X)  BY DEF DataInv
<1>5. Chained(F) /\ FramesOK(F)' /\ RmtOK(F, X)'
  BY <1>1, <1>4 DEF InFlight, FramesOK, RmtOK, peerVars, histVars
<1>6. InFlight(F, X)'  BY <1>1, <1>5 DEF InFlight
<1>. QED  BY <1>2, <1>3, <1>6 DEF DataInv

(* Both rings of a connection that starts are empty.                       *)
Fresh ==
  /\ open = TRUE /\ qpUp = TRUE /\ wire = <<>>
  /\ sndWriteEdge = 0 /\ mSndIdx = 0
  /\ rmtBuf = [c \in Offsets |-> Zero] /\ rmtWriteEdge = 0 /\ rcvIdx = 0
  /\ completed = <<>> /\ delivered = <<>>
  /\ \A t \in Workers : pc[t] = "idle"

(* They hold no frame.                                                     *)
LEMMA DataFresh == Fresh => DataInv
PROOF
<1>. SUFFICES ASSUME Fresh  PROVE DataInv
  OBVIOUS
<1>. USE DEF Fresh
<1>1. LinkOK /\ PartialOK  BY DEF LinkOK, PartialOK
<1>2. PICK F : F = {}  OBVIOUS
<1>3. Chained(F) /\ FramesOK(F)  BY <1>2 DEF Chained, FramesOK
<1>4. RmtOK(F, F)
  <2>1. ASSUME NEW y \in rmtWriteEdge .. rmtWriteEdge + BufSize - 1
        PROVE  rmtBuf[Pos(y)] = Zero
    <3>1. y \in Int  BY SendPathAssumption
    <3>. QED  BY <3>1, PosRange
  <2>. QED  BY <1>2, <2>1 DEF RmtOK
<1>5. WireOK(F, F)
  <2>1. Len(wire) = 0  OBVIOUS
  <2>2. 1 .. Len(wire) = {}  BY <2>1
  <2>. QED  BY <1>2, <2>2 DEF WireOK
<1>6. SndOK(F)  BY <1>2 DEF SndOK
<1>7. EndOK(F)
  <2>1. Len(completed) + 1 = Len(delivered) + 1  OBVIOUS
  <2>2. EndsAt(F, sndWriteEdge, Len(completed) + 1, mSndIdx)
    BY <1>2, <2>1 DEF EndsAt
  <2>. QED  BY <2>2 DEF EndOK, Placing, Posted
<1>8. InFlight(F, F)  BY <1>3, <1>4, <1>5, <1>6, <1>7 DEF InFlight
<1>. QED  BY <1>1, <1>8 DEF DataInv

(* Likewise after a step.                                                  *)
LEMMA DataFreshNext == Fresh' => DataInv'
PROOF BY DataFresh, PTL

(* The first connection starts like that ...                               *)
LEMMA DataInit == ASSUME Init PROVE DataInv
PROOF
<1>1. Fresh  BY DEF Init, Fresh
<1>. QED  BY <1>1, DataFresh

(* ... and so does every later one (StartTerminal).                        *)
LEMMA DataStart ==
  ASSUME StartTerminal
  PROVE  DataInv'
PROOF
<1>1. Fresh'  BY DEF StartTerminal, Fresh, threadVars
<1>. QED  BY <1>1, DataFreshNext

-----------------------------------------------------------------------------
(* All steps.                                                              *)

(* Steps of a thread that touches neither ring.                            *)
LEMMA DataThread ==
  ASSUME SenderInv, TypeOK', DataInv, NEW t \in Workers,
         \/ SendInsert(t)
         \/ \E m \in Msgs : SendBegin(t, m)
         \/ SendFull(t)
         \/ SendToken(t)
         \/ ReadRmtEdge(t, "edge", "read", "next")
         \/ IssueRead(t, "read", "next")
         \/ ReadRmtEdge(t, "fullEdge", "fullRead", "idle")
         \/ IssueRead(t, "fullRead", "idle")
         \/ SendPop(t)
  PROVE  DataInv'
PROOF
<1>. USE DEF queueVars, edgeVars, linkVars, nicVars, histVars, threadVars
<1>1. TypeOK /\ ThreadType  BY DEF SenderInv, TypeOK
<1>2. accepted \in Seq(Msgs) /\ Len(accepted) \in Nat
  <2>1. accepted \in Seq(Msgs)  BY <1>1 DEF TypeOK, HistType
  <2>. QED  BY <2>1, LenProperties
<1>3. UNCHANGED accepted => AcceptedKept  BY <1>2 DEF AcceptedKept
<1>. USE DEF Goto, Forget, SamePlace, Placing, Posted
<1>4. CASE SendInsert(t)
  <2>1. loc[t].req \in Msgs
    BY <1>4 DEF SendInsert, SenderInv, LocalsOK, Labels
  <2>2. AcceptedKept
    <3>1. accepted' = Append(accepted, loc[t].req)  BY <1>4 DEF SendInsert
    <3>2. /\ Len(accepted') = Len(accepted) + 1
          /\ \A i \in 1 .. Len(accepted) : accepted'[i] = accepted[i]
      BY <1>2, <2>1, <3>1, AppendProperties
    <3>. QED  BY <1>2, <3>2 DEF AcceptedKept
  <2>3. \A u \in Workers : SamePlace(u)
    BY <1>1, <1>4 DEF SendInsert, ThreadType
  <2>4. WireKept  BY <1>4 DEF SendInsert, WireKept
  <2>. QED  BY <1>1, <1>4, <2>2, <2>3, <2>4, DataFrame DEF SendInsert
<1>5. ASSUME NEW m \in Msgs, SendBegin(t, m)  PROVE DataInv'
  <2>1. \A u \in Workers : SamePlace(u)
    BY <1>1, <1>5 DEF SendBegin, ThreadType
  <2>2. WireKept  BY <1>5 DEF SendBegin, WireKept
  <2>. QED  BY <1>1, <1>3, <1>5, <2>1, <2>2, DataFrame DEF SendBegin
<1>6. CASE SendFull(t)
  <2>1. \A u \in Workers : SamePlace(u)
    BY <1>1, <1>6 DEF SendFull, ThreadType
  <2>2. WireKept  BY <1>6 DEF SendFull, WireKept
  <2>. QED  BY <1>1, <1>3, <1>6, <2>1, <2>2, DataFrame DEF SendFull
<1>7. CASE SendToken(t)
  <2>1. qpUp => open  BY DEF DataInv, LinkOK
  <2>2. qpUp => \A u \in Workers : SamePlace(u)
    BY <1>1, <1>7, <2>1 DEF SendToken, ThreadType
  <2>3. WireKept  BY <1>7 DEF SendToken, WireKept
  <2>. QED  BY <1>1, <1>3, <1>7, <2>2, <2>3, DataFrame DEF SendToken
<1>8. ASSUME NEW here, NEW issue, NEW done, ReadRmtEdge(t, here, issue, done),
             \/ here = "edge" /\ issue = "read" /\ done = "next"
             \/ here = "fullEdge" /\ issue = "fullRead" /\ done = "idle"
      PROVE  DataInv'
  <2>1. \A u \in Workers : SamePlace(u)
    BY <1>1, <1>8 DEF ReadRmtEdge, ThreadType
  <2>2. WireKept  BY <1>8 DEF ReadRmtEdge, WireKept
  <2>. QED  BY <1>1, <1>3, <1>8, <2>1, <2>2, DataFrame DEF ReadRmtEdge
<1>9. ASSUME NEW here, NEW done, IssueRead(t, here, done),
             \/ here = "read" /\ done = "next"
             \/ here = "fullRead" /\ done = "idle"
      PROVE  DataInv'
  <2>1. \A u \in Workers : SamePlace(u)
    BY <1>1, <1>9 DEF IssueRead, ThreadType
  <2>2. WireKept  BY <1>9 DEF IssueRead, WireKept
  <2>. QED  BY <1>1, <1>3, <1>9, <2>1, <2>2, DataFrame DEF IssueRead
<1>10. CASE SendPop(t)
  <2>1. \A u \in Workers : SamePlace(u)
    BY <1>1, <1>10 DEF SendPop, ThreadType
  <2>2. WireKept  BY <1>10 DEF SendPop, WireKept
  <2>. QED  BY <1>1, <1>3, <1>10, <2>1, <2>2, DataFrame DEF SendPop
<1>. QED  BY <1>4, <1>5, <1>6, <1>7, <1>8, <1>9, <1>10

(* Steps of the completion queue, the adapter's reads and TerminalCloser.  *)
LEMMA DataElsewhere ==
  ASSUME SenderInv, TypeOK', DataInv,
         \/ VerbCompletion \/ NicRead \/ NicReadLands \/ CloseTerminal
         \/ UNCHANGED vars
  PROVE  DataInv'
PROOF
<1>. USE DEF queueVars, edgeVars, linkVars, nicVars, histVars, threadVars
<1>1. TypeOK /\ ThreadType  BY DEF SenderInv, TypeOK
<1>2. UNCHANGED accepted => AcceptedKept
  <2>1. accepted \in Seq(Msgs)  BY <1>1 DEF TypeOK, HistType
  <2>2. Len(accepted) \in Nat  BY <2>1, LenProperties
  <2>. QED  BY <2>2 DEF AcceptedKept
<1>3. UNCHANGED threadVars => \A u \in Workers : SamePlace(u)
  BY DEF SamePlace
<1>4. CASE CompleteRead \/ ResumeSend
  <2>1. CqThread \in Workers  BY DEF Workers
  <2>2. \A u \in Workers : SamePlace(u)
    BY <1>1, <1>4, <2>1 DEF CompleteRead, ResumeSend, ThreadType, Goto,
                            SamePlace, Placing, Posted
  <2>3. WireKept  BY <1>4 DEF CompleteRead, ResumeSend, WireKept
  <2>. QED  BY <1>1, <1>2, <1>4, <2>2, <2>3, DataFrame
            DEF CompleteRead, ResumeSend
<1>5. CASE NicRead
  <2>1. WireKept  BY <1>5 DEF NicRead, WireKept
  <2>. QED  BY <1>1, <1>2, <1>3, <1>5, <2>1, DataFrame DEF NicRead
<1>6. CASE NicReadLands
  <2>1. WireKept  BY <1>6 DEF NicReadLands, WireKept
  <2>. QED  BY <1>1, <1>2, <1>3, <1>6, <2>1, DataFrame DEF NicReadLands
<1>7. CASE CloseTerminal
  <2>1. WireKept  BY <1>7 DEF CloseTerminal, WireKept
  <2>. QED  BY <1>1, <1>2, <1>3, <1>7, <2>1, DataFrame DEF CloseTerminal
<1>8. CASE UNCHANGED vars
  <2>1. WireKept  BY <1>8 DEF vars, WireKept
  <2>. QED  BY <1>1, <1>2, <1>3, <1>8, <2>1, DataFrame DEF vars
<1>. QED  BY <1>4, <1>5, <1>6, <1>7, <1>8 DEF VerbCompletion

(* Every step preserves what the rings hold.                               *)
LEMMA DataStep ==
  ASSUME ~ TornBack, SenderInv, TypeOK', FlowControl, FlowControl', OrderInv,
         DataInv, [Next]_vars
  PROVE  DataInv'
PROOF
<1>1. TypeOK  BY DEF SenderInv
<1>2. ASSUME NEW t \in Workers, ProcessSendQ(t)  PROVE DataInv'
  <2>1. CASE SendTop(t)  BY <2>1, DataTop
  <2>2. CASE SendWrite(t)  BY <2>2, DataWrite
  <2>3. CASE SendNext(t)  BY <2>3, DataNext
  <2>. QED  BY <1>2, <2>1, <2>2, <2>3, DataThread DEF ProcessSendQ
<1>3. ASSUME NEW t \in Threads,
             SendInsert(t) \/ \E m \in Msgs : SendBegin(t, m)
      PROVE  DataInv'
  <2>1. t \in Workers  BY DEF Workers
  <2>. QED  BY <1>3, <2>1, DataThread
<1>4. CASE VerbCompletion \/ NicRead \/ NicReadLands \/ CloseTerminal
           \/ UNCHANGED vars
  BY <1>4, DataElsewhere
<1>5. CASE NicWrite  BY <1>1, <1>5, DataNicWrite
<1>6. CASE Receive  BY <1>1, <1>6, DataReceive
<1>7. CASE Disconnect  BY <1>7, DataDisconnect
<1>8. CASE StartTerminal  BY <1>8, DataStart
<1>. QED  BY <1>2, <1>3, <1>4, <1>5, <1>6, <1>7, <1>8
          DEF Next, Running, Nic, Rest, Dead

(* The rings hold the frames in flight, in order, on every reachable       *)
(* state: together with the invariants of the sender, of flow control and  *)
(* of the order of completion, DataInv is inductive.                       *)
THEOREM DataInvariant ==
  ASSUME ~ TornBack
  PROVE  Spec => [](SenderInv /\ FlowControl /\ OrderInv /\ DataInv)
PROOF
<1>. DEFINE Inv == SenderInv /\ FlowControl /\ OrderInv /\ DataInv
<1>1. Init => Inv  BY SenderInit, FlowInit, OrderInit, DataInit
<1>2. Inv /\ [Next]_vars => Inv'
  <2>. SUFFICES ASSUME Inv, [Next]_vars  PROVE Inv'
    OBVIOUS
  <2>1. TypeOK' /\ SenderExclusive' /\ LocalsOK'
    BY TypeStep, SenderStep, LocalsStep
  <2>2. FlowControl' /\ OrderInv'  BY FlowStep, OrderStep
  <2>3. DataInv'  BY <2>1, <2>2, DataStep
  <2>. QED  BY <2>1, <2>2, <2>3 DEF SenderInv
<1>. QED  BY <1>1, <1>2, PTL DEF Spec

-----------------------------------------------------------------------------
(* What follows from it.                                                   *)

(* A write belongs to a frame under way, and a frame that is put down lies *)
(* behind all of them and within the room the peer has freed.              *)
LEMMA DataWritesStable ==
  SenderInv /\ FlowControl /\ OrderInv /\ DataInv => PendingWritesStable
PROOF
<1>. SUFFICES ASSUME SenderInv, FlowControl, OrderInv, DataInv
              PROVE  PendingWritesStable
  OBVIOUS
<1>1. CASE ~ qpUp
  <2>1. Len(wire) = 0  BY <1>1 DEF DataInv, LinkOK
  <2>2. 1 .. Len(wire) = {}  BY <2>1
  <2>. QED  BY <2>2 DEF PendingWritesStable
<1>2. CASE qpUp
  <2>1. PICK F, X : InFlight(F, X)  BY DEF DataInv
  <2>2. FramesOK(F) /\ WireOK(F, X) /\ EndOK(F)  BY <1>2, <2>1 DEF InFlight
  <2>3. ASSUME NEW t \in Workers, pc[t] \in {"token", "write"},
               NEW i \in 1 .. Len(wire)
        PROVE  wire[i].cells \cap FrameCells(t) = {}
    <3>1. PICK g : g = FrameOf(t)  OBVIOUS
    <3>2. /\ Proper(g) /\ sndWriteEdge = g.at + SizeOf(g)
          /\ EndsAt(F, g.at, g.n, g.idx)
      BY <2>2, <2>3, <3>1 DEF EndOK, Placing
    <3>3. FrameCells(t) = CellsOf(g)
      <4>1. AtHead(t)  BY DEF OrderInv
      <4>2. /\ loc[t].req = Head(sndQue)
            /\ loc[t].rest = MsgSize[Head(sndQue)] - mSndIdx * PacketSize
        BY <2>3, <4>1 DEF AtHead
      <4>3. PktSize(loc[t].rest, PacketSize) = SizeOf(g) /\ loc[t].edge = g.at
        BY <3>1, <4>2 DEF FrameOf, SizeOf, RestOf
      <4>. QED  BY <3>2, <4>3, WritesOf DEF FrameCells
    <3>4. CASE wire[i].cells = {}  BY <3>4
    <3>5. ASSUME NEW f \in F, wire[i].cells \subseteq CellsOf(f)
          PROVE  wire[i].cells \cap FrameCells(t) = {}
      <4>1. Before(f, g)  BY <3>2 DEF EndsAt, Before
      <4>2. Proper(f) /\ rmtWriteEdge <= f.at  BY <2>2 DEF FramesOK
      <4>3. rmtWriteEdge \in Nat  BY DEF SenderInv, TypeOK, PeerType
      <4>4. g.at + SizeOf(g) <= rmtWriteEdge + BufSize
        <5>1. /\ sndWriteEdge \in Nat /\ sndTrailingEdge \in Nat
              /\ rmtTrailingEdge \in Nat
          BY DEF SenderInv, TypeOK, PeerType, EdgeType
        <5>. QED  BY <3>2, <5>1 DEF FlowControl
      <4>5. CellsOf(f) \cap CellsOf(g) = {}
        BY <3>2, <4>1, <4>2, <4>3, <4>4, CellsApart
      <4>. QED  BY <3>3, <3>5, <4>5
    <3>. QED  BY <2>2, <3>4, <3>5 DEF WireOK
  <2>4. \A i, j \in 1 .. Len(wire) :
          i # j => wire[i].cells \cap wire[j].cells = {}
    BY <2>2 DEF WireOK
  <2>. QED  BY <2>3, <2>4 DEF PendingWritesStable
<1>. QED  BY <1>1, <1>2

(* RDMA writes are fire and forget, and the adapter takes their data when  *)
(* it executes them: for every number of threads, every ring, message and  *)
(* packet size, no frame is put on the cells of a write not yet executed.  *)
THEOREM WritesStable ==
  ASSUME ~ TornBack
  PROVE  Spec => []PendingWritesStable
PROOF
<1>1. Spec => [](SenderInv /\ FlowControl /\ OrderInv /\ DataInv)
  BY DataInvariant
<1>. QED  BY <1>1, DataWritesStable, PTL

-----------------------------------------------------------------------------
(* The message channel.                                                    *)

(* A terminal just started is a channel just opened.                       *)
LEMMA ChannelInit == Init => Channel!Init
PROOF BY DEF Init, Channel!Init

(* A request is completed once its last packet is posted.                  *)
LEMMA ChannelComplete ==
  ASSUME SenderInv, OrderInv, NEW t \in Workers, SendNext(t)
  PROVE  [Channel!Next]_(Channel!vars)
PROOF
<1>1. UNCHANGED <<accepted, delivered, open, qpUp>>
  BY DEF SendNext, linkVars
<1>2. CASE UNCHANGED completed  BY <1>1, <1>2 DEF Channel!vars
<1>3. CASE completed' = Append(completed, loc[t].req)
  <2>1. pc[t] = "next"  BY DEF SendNext
  <2>2. Sending(t) /\ CompletionOrder /\ AtHead(t)
    BY <2>1 DEF Sending, OrderInv
  <2>3. accepted = completed \o sndQue /\ sndQue # <<>>
    BY <2>1, <2>2, OthersElsewhere
  <2>4. completed \in Seq(Msgs) /\ sndQue \in Seq(Msgs)
    BY DEF SenderInv, TypeOK, HistType, QueueType
  <2>5. /\ Len(completed) + 1 \in 1 .. Len(accepted)
        /\ accepted[Len(completed) + 1] = Head(sndQue)
    BY <2>3, <2>4, OldestRequest
  <2>6. Len(completed) < Len(accepted)
    <3>1. Len(completed) \in Nat  BY <2>4, LenProperties
    <3>. QED  BY <2>5, <3>1
  <2>7. loc[t].req = Head(sndQue)  BY <2>1, <2>2 DEF AtHead
  <2>8. Channel!Complete
    BY <1>1, <1>3, <2>5, <2>6, <2>7 DEF Channel!Complete, Channel!AdvanceTo
  <2>. QED  BY <2>8 DEF Channel!Next
<1>. QED  BY <1>2, <1>3 DEF SendNext

(* What the peer hands over is the next message accepted, and no message   *)
(* before it is still to be completed.                                     *)
LEMMA ChannelDeliver ==
  ASSUME TypeOK, DataInv, Receive
  PROVE  [Channel!Next]_(Channel!vars)
PROOF
<1>1. UNCHANGED <<accepted, completed, open, qpUp>>
  BY DEF Receive, linkVars
<1>2. PICK F, X : InFlight(F, X)  BY DEF DataInv
<1>3. PartialOK /\ FramesOK(F) /\ RmtOK(F, X)
  BY <1>2 DEF DataInv, InFlight
<1>4. PICK f \in F :
           /\ f.at = rmtWriteEdge /\ f.n = Len(delivered) + 1 /\ f.idx = rcvIdx
           /\ RcvHeader = FrameEnd(f)
           /\ \A y \in Edges(f) : rmtBuf[Pos(y)] = Content(f, y)
  BY <1>3, ReceivedFrame
<1>5. \/ delivered' = delivered
      \/ delivered' = Append(delivered, f.msg)
  BY <1>3, <1>4, ReceiveMessage
<1>6. CASE delivered' = delivered  BY <1>1, <1>6 DEF Channel!vars
<1>7. CASE delivered' = Append(delivered, f.msg)
  <2>1. /\ f.n \in 1 .. Len(accepted) /\ f.msg = accepted[f.n]
        /\ f.n <= Len(completed) + 1
    BY <1>3 DEF FramesOK
  <2>2. /\ accepted \in Seq(Msgs) /\ completed \in Seq(Msgs)
        /\ delivered \in Seq(Msgs \cup {NoMsg})
    BY DEF TypeOK, HistType
  <2>3. /\ Len(accepted) \in Nat /\ Len(completed) \in Nat
        /\ Len(delivered) \in Nat
    BY <2>2, LenProperties
  <2>4. Len(delivered) < Len(accepted) /\ Len(delivered) <= Len(completed)
    BY <1>4, <2>1, <2>3
  <2>5. Channel!Deliver
    BY <1>1, <1>4, <1>7, <2>1, <2>4 DEF Channel!Deliver, Channel!AdvanceTo
  <2>. QED  BY <2>5 DEF Channel!Next
<1>. QED  BY <1>5, <1>6, <1>7

(* A request is accepted when Send queues it.                              *)
LEMMA ChannelAccept ==
  ASSUME SenderInv, NEW t \in Workers, SendInsert(t)
  PROVE  [Channel!Next]_(Channel!vars)
PROOF
<1>1. loc[t].req \in Msgs
  BY DEF SendInsert, SenderInv, LocalsOK, Labels
<1>2. Channel!Accept(loc[t].req)
  BY DEF SendInsert, linkVars, Channel!Accept
<1>. QED  BY <1>1, <1>2 DEF Channel!Next

(* All other steps of the send path are steps of no message.               *)
LEMMA ChannelStep ==
  SenderInv /\ OrderInv /\ DataInv /\ [Next]_vars
    => [Channel!Next]_(Channel!vars)
PROOF
<1>. SUFFICES ASSUME SenderInv, OrderInv, DataInv, [Next]_vars
              PROVE  [Channel!Next]_(Channel!vars)
  OBVIOUS
<1>. USE DEF linkVars, histVars
<1>1. TypeOK  BY DEF SenderInv
<1>2. UNCHANGED <<accepted, completed, delivered, open, qpUp>>
        => [Channel!Next]_(Channel!vars)
  BY DEF Channel!vars
<1>3. ASSUME NEW t \in Workers, ProcessSendQ(t)
      PROVE  [Channel!Next]_(Channel!vars)
  <2>1. CASE SendTop(t)  BY <1>2, <2>1 DEF SendTop
  <2>2. CASE SendFull(t)  BY <1>2, <2>2 DEF SendFull
  <2>3. CASE SendToken(t)  BY <1>2, <2>3 DEF SendToken
  <2>4. CASE SendWrite(t)  BY <1>2, <2>4 DEF SendWrite
  <2>5. CASE ReadRmtEdge(t, "edge", "read", "next")
    BY <1>2, <2>5 DEF ReadRmtEdge
  <2>6. CASE IssueRead(t, "read", "next")  BY <1>2, <2>6 DEF IssueRead
  <2>7. CASE ReadRmtEdge(t, "fullEdge", "fullRead", "idle")
    BY <1>2, <2>7 DEF ReadRmtEdge
  <2>8. CASE IssueRead(t, "fullRead", "idle")  BY <1>2, <2>8 DEF IssueRead
  <2>9. CASE SendNext(t)  BY <2>9, ChannelComplete
  <2>10. CASE SendPop(t)  BY <1>2, <2>10 DEF SendPop
  <2>. QED  BY <1>3, <2>1, <2>2, <2>3, <2>4, <2>5, <2>6, <2>7, <2>8, <2>9,
               <2>10 DEF ProcessSendQ
<1>4. ASSUME NEW t \in Threads, SendInsert(t)
      PROVE  [Channel!Next]_(Channel!vars)
  BY <1>4, ChannelAccept DEF Workers
<1>5. ASSUME NEW t \in Threads, NEW m \in Msgs, SendBegin(t, m)
      PROVE  [Channel!Next]_(Channel!vars)
  BY <1>2, <1>5 DEF SendBegin
<1>6. CASE CompleteRead  BY <1>2, <1>6 DEF CompleteRead
<1>7. CASE ResumeSend  BY <1>2, <1>7 DEF ResumeSend
<1>8. CASE NicWrite  BY <1>2, <1>8 DEF NicWrite
<1>9. CASE NicRead  BY <1>2, <1>9 DEF NicRead
<1>10. CASE NicReadLands  BY <1>2, <1>10 DEF NicReadLands
<1>11. CASE Receive  BY <1>1, <1>11, ChannelDeliver
<1>12. CASE Disconnect
  <2>1. qpUp /\ open  BY <1>12 DEF Disconnect, DataInv, LinkOK
  <2>2. Channel!GoDown  BY <1>12, <2>1 DEF Disconnect, Channel!GoDown
  <2>. QED  BY <2>2 DEF Channel!Next
<1>13. CASE CloseTerminal
  BY <1>13 DEF CloseTerminal, Channel!vars
<1>14. CASE StartTerminal
  <2>1. Channel!Restart  BY <1>14 DEF StartTerminal, Channel!Restart
  <2>. QED  BY <2>1 DEF Channel!Next
<1>15. CASE UNCHANGED vars  BY <1>2, <1>15 DEF vars
<1>. QED  BY <1>3, <1>4, <1>5, <1>6, <1>7, <1>8, <1>9, <1>10, <1>11, <1>12,
             <1>13, <1>14, <1>15
          DEF Next, Running, VerbCompletion, Nic, Rest, Dead

(* The terminal, the adapter and the peer implement what hermes.hpp        *)
(* promises of one direction: what is delivered is what was accepted, each *)
(* message once, whole and in order, and not before its predecessors were  *)
(* completed, whatever the interleaving, the sizes and the connections     *)
(* that end and start again.                                               *)
THEOREM ChannelImplemented ==
  ASSUME ~ TornBack
  PROVE  Spec => ChannelSafety
PROOF
<1>1. Spec => [](SenderInv /\ FlowControl /\ OrderInv /\ DataInv)
  BY DataInvariant
<1>. QED  BY <1>1, ChannelInit, ChannelStep, PTL
          DEF Spec, ChannelSafety, Channel!Safety

=============================================================================
