------------------------- MODULE MCRingFrameProofs --------------------------
(***************************************************************************)
(* Proofs about a connection's memory and what is put into its ring: how   *)
(* the page is sliced, how a packet is copied and checked, and the machine *)
(* that runs from the factory's arguments to the last packet of a message, *)
(* for all sizes, numbers of connections, messages and edges.              *)
(***************************************************************************)
EXTENDS MCRingFrame, RingFrameProofs, SequenceTheorems

-----------------------------------------------------------------------------
(* Slices                                                                  *)

(* A power of two above one is even.                                       *)
LEMMA PowerEven ==
  ASSUME NEW n \in Nat, IsPower2(n), n >= 2
  PROVE  2 * (n \div 2) = n
PROOF
<1>1. n % n = 0  OBVIOUS
<1>2. n % 2 = 0  BY <1>1 DEF IsPower2
<1>. QED  BY <1>2

(* A number below the modulus is its own remainder.                        *)
LEMMA ModSmall ==
  ASSUME NEW b \in Nat \ {0}, NEW x \in 0 .. b - 1
  PROVE  x % b = x
PROOF
<1>1. x = b * 0 + x  OBVIOUS
<1>. QED  BY <1>1, ModUnique

(* Products of the number of connections with a size.                      *)
LEMMA Products ==
  ASSUME NEW x \in Nat
  PROVE  /\ \A n \in Nat : n * x \in Nat
         /\ \A m, n \in Nat : m <= n => m * x <= n * x
         /\ \A c \in Nat \ {0} : /\ (c - 1) * x \in Nat
                                 /\ (c - 1) * x + x = c * x
PROOF
<1>1. \A n \in Nat : n * x \in Nat  OBVIOUS
<1>2. ASSUME NEW m \in Nat, NEW n \in Nat, m <= n  PROVE m * x <= n * x
  <2>1. n - m \in Nat  BY <1>2
  <2>2. (n - m) * x \in Nat  BY <2>1
  <2>3. (n - m) * x = n * x - m * x  OBVIOUS
  <2>4. n * x \in Int /\ m * x \in Int  OBVIOUS
  <2>. QED  BY <2>2, <2>3, <2>4
<1>3. ASSUME NEW c \in Nat \ {0}
      PROVE  (c - 1) * x \in Nat /\ (c - 1) * x + x = c * x
  <2>1. c - 1 \in Nat  OBVIOUS
  <2>2. (c - 1) * x \in Nat  BY <2>1
  <2>3. (c - 1) * x = c * x - x  OBVIOUS
  <2>4. c * x \in Int  OBVIOUS
  <2>. QED  BY <2>2, <2>3, <2>4
<1>. QED  BY <1>1, <1>2, <1>3

(* A length whose quotient by s is at least n has room for n pieces of s.  *)
LEMMA DivBound ==
  ASSUME NEW a \in Int, NEW s \in Nat \ {0}, NEW n \in Nat
  PROVE  a \div s >= n => n * s <= a
PROOF
<1>. DEFINE d == a \div s
            m == a % s
<1>1. d \in Int /\ m \in 0 .. s - 1 /\ a = s * d + m  BY SMT
<1>. HIDE DEF d, m
<1>2. ASSUME d >= n  PROVE n * s <= a
  <2>1. d \in Nat  BY <1>1, <1>2
  <2>2. n * s <= d * s  BY <1>2, <2>1, Products
  <2>3. s * d = d * s /\ d * s \in Int /\ n * s \in Int  BY <1>1
  <2>. QED  BY <1>1, <2>2, <2>3
<1>. QED  BY <1>2 DEF d

(* A library object as the factory makes it.                               *)
Object(h) ==
  /\ h.bufSize \in Nat \ {0} /\ h.maxConnection \in Nat \ {0}
  /\ h.page.base = 0 /\ h.page.len \in Nat

(* The constructor's checks rule out that the size of all the buffers      *)
(* overflows 32 bits: the first pair whose end would lie beyond the word   *)
(* has an offset that has not wrapped yet, and GetBufPair refuses it.      *)
LEMMA NoWrap ==
  ASSUME NEW h, Object(h), SliceNregister(h)
  PROVE  h.maxConnection * (2 * h.bufSize) < Word
PROOF
<1>. DEFINE N == h.maxConnection
            X == 2 * h.bufSize
            T == TotalBufSize(h)
<1>0. /\ N \in Nat \ {0} /\ X \in Nat \ {0} /\ h.bufSize \in Nat
      /\ Word \in Nat \ {0}
  BY SlicingAssumption DEF Object
<1>1. T \in 0 .. Word - 1
  <2>1. N * h.bufSize * 2 \in Int  BY <1>0
  <2>. QED  BY <1>0, <2>1 DEF TotalBufSize
<1>2. \A c \in 1 .. N : (((c - 1) * h.bufSize * 2) % Word) + X <= T
  BY DEF SliceNregister, InSpan, PairOffset, Buffers, Subspan, Span
<1>3. \A c \in Int : (c - 1) * h.bufSize * 2 = (c - 1) * X  BY <1>0
<1>4. SUFFICES ASSUME N * X >= Word  PROVE FALSE
  <2>1. N * X \in Int  BY <1>0
  <2>. QED  BY <1>0, <1>4, <2>1
<1>. HIDE DEF N, X, T
<1>. DEFINE d == (Word - 1) \div X
            m == (Word - 1) % X
<1>5. d \in Int /\ m \in 0 .. X - 1 /\ Word - 1 = X * d + m  BY <1>0, SMT
<1>. HIDE DEF d, m
<1>6. d \in Nat
  <2>1. SUFFICES ASSUME d <= -1  PROVE FALSE  BY <1>5
  <2>2. X * d <= - X  BY <1>0, <1>5, <2>1
  <2>3. X * d \in Int  BY <1>0, <1>5
  <2>. QED  BY <1>0, <1>5, <2>2, <2>3
<1>7. /\ d * X \in 0 .. Word - 1 /\ d * X + X >= Word
  <2>1. X * d = d * X /\ d * X \in Nat  BY <1>0, <1>6
  <2>. QED  BY <1>0, <1>5, <2>1
<1>8. d + 1 \in 1 .. N
  <2>1. SUFFICES ASSUME N <= d  PROVE FALSE  BY <1>0, <1>6
  <2>2. N * X <= d * X  BY <1>0, <1>6, <2>1, Products
  <2>3. N * X \in Int  BY <1>0
  <2>. QED  BY <1>0, <1>4, <1>7, <2>2, <2>3
<1>9. ((d * X) % Word) + X <= T
  <2>1. d = (d + 1) - 1 /\ d + 1 \in Int  BY <1>6
  <2>2. ((d + 1) - 1) * h.bufSize * 2 = d * X  BY <1>3, <2>1
  <2>. QED  BY <1>2, <1>8, <2>2
<1>10. (d * X) % Word = d * X  BY <1>0, <1>7, ModSmall
<1>. QED  BY <1>0, <1>1, <1>7, <1>9, <1>10

(* Hence every offset is what it would be with unbounded integers.         *)
LEMMA Offsets ==
  ASSUME NEW h, Object(h), SliceNregister(h)
  PROVE  /\ TotalBufSize(h) = h.maxConnection * (2 * h.bufSize)
         /\ \A c \in 1 .. h.maxConnection :
              LET at == (c - 1) * (2 * h.bufSize)
              IN  /\ at \in Nat
                  /\ at + 2 * h.bufSize <= TotalBufSize(h)
                  /\ GetBufPair(h, c) = Span(at, 2 * h.bufSize)
                  /\ GetRcvBuf(h, c) = Span(at, h.bufSize)
                  /\ GetSndBuf(h, c) = Span(at + h.bufSize, h.bufSize)
PROOF
<1>. DEFINE N == h.maxConnection
            B == h.bufSize
            X == 2 * B
<1>0. N \in Nat \ {0} /\ B \in Nat \ {0} /\ Word \in Nat \ {0} /\ h.page.base = 0
  BY SlicingAssumption DEF Object
<1>1. N * X < Word /\ N * X \in Nat  BY <1>0, NoWrap
<1>2. TotalBufSize(h) = N * X
  <2>1. N * B * 2 = N * X  BY <1>0
  <2>2. (N * X) % Word = N * X  BY <1>0, <1>1, ModSmall
  <2>. QED  BY <2>1, <2>2 DEF TotalBufSize
<1>3. ASSUME NEW c \in 1 .. N
      PROVE  /\ (c - 1) * X \in Nat
             /\ (c - 1) * X + X <= N * X
             /\ GetBufPair(h, c) = Span((c - 1) * X, X)
             /\ GetRcvBuf(h, c) = Span((c - 1) * X, B)
             /\ GetSndBuf(h, c) = Span((c - 1) * X + B, B)
  <2>. DEFINE at == (c - 1) * X
  <2>1. at \in Nat /\ at + X <= N * X
    <3>1. c \in Nat \ {0} /\ c <= N /\ X \in Nat  BY <1>0
    <3>2. at \in Nat /\ at + X = c * X  BY <3>1, Products
    <3>3. c * X <= N * X  BY <1>0, <3>1, Products
    <3>. QED  BY <3>2, <3>3
  <2>2. (c - 1) * B * 2 = at  BY <1>0
  <2>. HIDE DEF at
  <2>3. X \in Nat /\ at \in 0 .. Word - 1 /\ at + B \in 0 .. Word - 1
    BY <1>0, <1>1, <2>1
  <2>4. PairOffset(h, c) = at
    <3>1. at % Word = at  BY <1>0, <2>3, ModSmall
    <3>. QED  BY <2>2, <3>1 DEF PairOffset
  <2>5. (at + B) % Word = at + B  BY <1>0, <2>3, ModSmall
  <2>6. Buffers(h).base = 0  BY <1>0 DEF Buffers, Subspan, Span
  <2>7. GetBufPair(h, c) = Span(at, X) /\ GetRcvBuf(h, c) = Span(at, B)
        /\ GetSndBuf(h, c) = Span(at + B, B)
    BY <1>0, <2>3, <2>4, <2>5, <2>6 DEF GetBufPair, GetRcvBuf, GetSndBuf, Subspan
  <2>. QED  BY <2>1, <2>7 DEF at
<1>. QED  BY <1>2, <1>3

(* An object that passed the constructor's checks shares no memory.        *)
THEOREM SlicingTheorem ==
  ASSUME NEW h, Object(h), SliceNregister(h)
  PROVE  SlicesDisjoint(h) /\ h.maxConnection * h.bufSize * 2 < Word
PROOF
<1>. DEFINE N == h.maxConnection
            B == h.bufSize
            X == 2 * B
            T == TotalBufSize(h)
            terms == N * TermSize
            socks == 2 * N * SockSize
<1>0. N \in Nat \ {0} /\ B \in Nat \ {0} /\ h.page.base = 0 /\ h.page.len \in Nat
      /\ TermSize \in Nat \ {0} /\ SockSize \in Nat \ {0}
  BY SlicingAssumption DEF Object
<1>1. T = N * X /\ T \in Nat  BY <1>0, Offsets
<1>2. terms \in Nat /\ socks \in Nat
  <2>1. 2 * N \in Nat  BY <1>0
  <2>. QED  BY <1>0, <2>1
<1>3. /\ T <= h.page.len
      /\ (h.page.len - T) \div TermSize > N
      /\ (h.page.len - T - terms) \div SockSize >= 2 * N
  <2>1. ConnectionRegion(h).len = h.page.len - T
    BY DEF ConnectionRegion, Subspan, Span
  <2>2. SockRegion(h).len = h.page.len - T - terms
    BY <2>1 DEF SockRegion, Subspan, Span
  <2>3. T <= h.page.len
    BY <1>0, <1>1 DEF SliceNregister, InSpan
  <2>. QED  BY <2>1, <2>2, <2>3 DEF SliceNregister
<1>4. terms <= h.page.len - T
  <2>1. h.page.len - T \in Int  BY <1>0, <1>1
  <2>2. (h.page.len - T) \div TermSize \in Int  BY <1>0, <2>1
  <2>3. (h.page.len - T) \div TermSize >= N  BY <1>0, <1>3, <2>2
  <2>. QED  BY <1>0, <2>1, <2>3, DivBound
<1>5. socks <= h.page.len - T - terms
  <2>1. h.page.len - T - terms \in Int /\ 2 * N \in Nat  BY <1>0, <1>1, <1>2
  <2>. QED  BY <1>0, <1>3, <2>1, DivBound
<1>6. /\ Connections(h) = Span(T, terms)
      /\ SockTbl(h) = Span(T + terms, socks)
  BY <1>0, <1>1, <1>2
  DEF Connections, SockTbl, ConnectionRegion, SockRegion, Subspan, Span
<1>. HIDE DEF N, B, T, terms, socks
<1>7. /\ Disjoint(Connections(h), SockTbl(h))
      /\ Within(Connections(h), h.page) /\ Within(SockTbl(h), h.page)
  BY <1>0, <1>1, <1>2, <1>4, <1>5, <1>6 DEF Disjoint, Within, Span
<1>8. ASSUME NEW c \in 1 .. N
      PROVE  /\ Disjoint(GetRcvBuf(h, c), GetSndBuf(h, c))
             /\ \A s \in {GetRcvBuf(h, c), GetSndBuf(h, c)} :
                  /\ Within(s, GetBufPair(h, c))
                  /\ Disjoint(s, Connections(h)) /\ Disjoint(s, SockTbl(h))
             /\ \A d \in 1 .. N \ {c} :
                  Disjoint(GetBufPair(h, c), GetBufPair(h, d))
  <2>. DEFINE at(e) == (e - 1) * X
  <2>1. \A e \in 1 .. N : /\ at(e) \in Nat /\ at(e) + X <= T
                          /\ GetBufPair(h, e) = Span(at(e), X)
                          /\ GetRcvBuf(h, e) = Span(at(e), B)
                          /\ GetSndBuf(h, e) = Span(at(e) + B, B)
    BY Offsets DEF N, B, T
  <2>2. ASSUME NEW e \in 1 .. N, NEW d \in 1 .. N, e < d
        PROVE  at(e) + X <= at(d)
    <3>1. e \in Nat \ {0} /\ d - 1 \in Nat /\ e <= d - 1 /\ X \in Nat
      BY <1>0, <2>2
    <3>2. at(e) + X = e * X  BY <3>1, Products
    <3>3. e * X <= (d - 1) * X  BY <3>1, Products
    <3>. QED  BY <3>2, <3>3
  <2>. HIDE DEF at
  <2>3. Disjoint(GetRcvBuf(h, c), GetSndBuf(h, c))
    BY <1>0, <2>1 DEF Disjoint, Span
  <2>4. \A s \in {GetRcvBuf(h, c), GetSndBuf(h, c)} :
          /\ Within(s, GetBufPair(h, c))
          /\ Disjoint(s, Connections(h)) /\ Disjoint(s, SockTbl(h))
    BY <1>0, <1>1, <1>2, <1>6, <2>1 DEF Disjoint, Within, Span
  <2>5. ASSUME NEW d \in 1 .. N \ {c}
        PROVE  Disjoint(GetBufPair(h, c), GetBufPair(h, d))
    <3>1. d \in 1 .. N /\ (c < d \/ d < c)  BY <1>0
    <3>2. at(c) + X <= at(d) \/ at(d) + X <= at(c)  BY <2>2, <3>1
    <3>. QED  BY <1>0, <2>1, <3>1, <3>2 DEF Disjoint, Span
  <2>. QED  BY <2>3, <2>4, <2>5
<1>9. N * B * 2 < Word
  <2>1. N * B * 2 = N * X  BY <1>0
  <2>2. N * X < Word  BY NoWrap DEF N, B
  <2>. QED  BY <2>1, <2>2
<1>. QED  BY <1>7, <1>8, <1>9 DEF SlicesDisjoint, N, B
-----------------------------------------------------------------------------
(* Copies                                                                  *)

(* The copying overload leaves nothing of its source behind.               *)
LEMMA CopiesAll ==
  ASSUME NEW src, Len(src) \in Nat
  PROVE  Copied(src) = Len(src)
PROOF BY DEF Copied, Line

(* A source buffer and the packet taken from its front.                    *)
Packet(b, e, src, p) ==
  /\ \E S : src \in Seq(S)
  /\ p \in Nat \ {0}
  /\ Fitting(b, e, PktSize(Len(src), p))

(* Where the frame of such a packet lies, and what its two views are to    *)
(* hold of the message.                                                    *)
LEMMA PacketFrame ==
  ASSUME NEW b, NEW e, NEW src, NEW p, Packet(b, e, src, p)
  PROVE  LET size == PktSize(Len(src), p)
             f    == LocateInRingBuf(b, e, size)
             sub1 == SubSeq(src, 1, f.len1)
             sub2 == SubSeq(src, f.len1 + 1, f.len1 + f.len2)
         IN  /\ b \in Nat \ {0} /\ e \in Nat /\ Len(src) \in Nat
             /\ size \in Int /\ size >= 2 /\ size <= b
             /\ f.start = RingPos(b, e, 0) /\ f.end = RingPos(b, e, size - 1)
             /\ f.len1 \in Int /\ f.len2 \in Int /\ f.data \in Int
             /\ f.len1 >= 0 /\ f.len2 >= 0 /\ f.len1 + f.len2 = size - 2
             /\ \A i \in 0 .. f.len1 - 1 : f.data + i = RingPos(b, e, 1 + i)
             /\ \A i \in 0 .. f.len2 - 1 : i = RingPos(b, e, 1 + f.len1 + i)
             /\ Len(sub1) = f.len1 /\ sub1 = [i \in 1 .. f.len1 |-> src[i]]
             /\ Len(sub2) = f.len2
             /\ sub2 = [i \in 1 .. f.len2 |-> src[f.len1 + i]]
PROOF
<1>. DEFINE size == PktSize(Len(src), p)
            f    == LocateInRingBuf(b, e, size)
            sub1 == SubSeq(src, 1, f.len1)
            sub2 == SubSeq(src, f.len1 + 1, f.len1 + f.len2)
            At(i) == RingPos(b, e, i)
<1>1. /\ b \in Nat \ {0} /\ e \in Nat /\ size \in 2 .. b
      /\ Len(src) \in Nat /\ size - 2 <= Len(src)
  <2>1. Len(src) \in Nat  BY DEF Packet
  <2>2. size - 2 <= Len(src)
    BY <2>1 DEF Packet, PktSize, Lesser, MsgEnd
  <2>. QED  BY <2>1, <2>2 DEF Packet, Fitting, MsgEnd
<1>2. LayoutCorrect(b, e, size)  BY LayoutTheorem DEF Packet
<1>3. /\ f.start = At(0) /\ f.end = At(size - 1)
      /\ f.len1 \in Int /\ f.len2 \in Int /\ f.data \in Int
      /\ f.len1 >= 0 /\ f.len2 >= 0 /\ f.len1 + f.len2 = size - 2
      /\ \A i \in 0 .. f.len1 - 1 : f.data + i = At(1 + i)
      /\ \A i \in 0 .. f.len2 - 1 : i = At(1 + f.len1 + i)
  <2>1. e % b \in 0 .. b - 1  BY <1>1, RingPosCases
  <2>2. f.len1 \in Int /\ f.len2 \in Int /\ f.data \in Int
    BY <1>1, <2>1 DEF LocateInRingBuf, Lesser, MsgEnd
  <2>. QED  BY <1>2, <2>2 DEF LayoutCorrect, MsgEnd
<1>4. /\ size \in Int /\ size >= 2 /\ size <= b /\ b \in Int
      /\ f.len1 \in Int /\ f.len2 \in Int /\ f.data \in Int
      /\ f.len1 >= 0 /\ f.len2 >= 0 /\ f.len1 + f.len2 = size - 2
  BY <1>1, <1>3
<1>5. /\ Len(sub1) = f.len1 /\ sub1 = [i \in 1 .. f.len1 |-> src[i]]
      /\ Len(sub2) = f.len2 /\ sub2 = [i \in 1 .. f.len2 |-> src[f.len1 + i]]
  <2>. PICK S : src \in Seq(S)  BY DEF Packet
  <2>0. DOMAIN src = 1 .. Len(src) /\ \A i \in 1 .. Len(src) : src[i] \in S
    OBVIOUS
  <2>. HIDE DEF f, size
  <2>1. Len(sub1) = f.len1 /\ sub1 = [i \in 1 .. f.len1 |-> src[i]]
    <3>1. \A i \in 1 .. f.len1 : src[i] \in S  BY <1>1, <1>4, <2>0
    <3>2. /\ sub1 \in Seq(S)
          /\ Len(sub1) = IF 1 <= f.len1 THEN f.len1 - 1 + 1 ELSE 0
          /\ \A i \in 1 .. f.len1 - 1 + 1 : sub1[i] = src[1 + i - 1]
      BY <1>4, <3>1, SubSeqProperties
    <3>3. f.len1 - 1 + 1 = f.len1 /\ \A i \in 1 .. f.len1 : 1 + i - 1 = i
      BY <1>4
    <3>. HIDE DEF sub1
    <3>4. Len(sub1) = f.len1 /\ \A i \in 1 .. f.len1 : sub1[i] = src[i]
      BY <1>4, <3>2, <3>3
    <3>. QED  BY <3>2, <3>4
  <2>2. Len(sub2) = f.len2 /\ sub2 = [i \in 1 .. f.len2 |-> src[f.len1 + i]]
    <3>. DEFINE x == f.len1 + 1
                y == f.len1 + f.len2
    <3>1. x \in Int /\ y \in Int  BY <1>4
    <3>2. \A i \in x .. y : src[i] \in S  BY <1>1, <1>4, <2>0
    <3>. HIDE DEF x, y
    <3>3. /\ SubSeq(src, x, y) \in Seq(S)
          /\ Len(SubSeq(src, x, y)) = IF x <= y THEN y - x + 1 ELSE 0
          /\ \A i \in 1 .. y - x + 1 : SubSeq(src, x, y)[i] = src[x + i - 1]
      BY <3>1, <3>2, SubSeqProperties
    <3>4. y - x + 1 = f.len2 /\ (IF x <= y THEN y - x + 1 ELSE 0) = f.len2
      BY <1>4 DEF x, y
    <3>5. \A i \in 1 .. f.len2 : x + i - 1 = f.len1 + i  BY <1>4 DEF x
    <3>6. sub2 = SubSeq(src, x, y)  BY DEF x, y
    <3>. HIDE DEF sub2
    <3>7. Len(sub2) = f.len2 /\ \A i \in 1 .. f.len2 : sub2[i] = src[f.len1 + i]
      BY <3>3, <3>4, <3>5, <3>6
    <3>. QED  BY <3>3, <3>6, <3>7
  <2>. QED  BY <2>1, <2>2
<1>. HIDE DEF size, f, sub1, sub2
<1>. QED  BY <1>1, <1>3, <1>4, <1>5 DEF size, f, sub1, sub2, At

(* What PutDown leaves at each place of the ring.                          *)
LEMMA PutDownAt ==
  ASSUME NEW b, NEW e, NEW src, NEW q, NEW p, Packet(b, e, src, p)
  PROVE  LET old  == [x \in 0 .. b - 1 |-> Old]
             size == PktSize(Len(src), p)
             ring == PutDown(old, b, e, src, q, p)
             f    == LocateInRingBuf(b, e, size)
         IN  /\ ring[RingPos(b, e, 0)] = Header(f, src, q)
             /\ ring[RingPos(b, e, size - 1)] = Header(f, src, q)
             /\ \A i \in 1 .. size - 2 : ring[RingPos(b, e, i)] = src[i]
             /\ \A i \in size .. b - 1 : ring[RingPos(b, e, i)] = Old
PROOF
<1>. DEFINE old  == [x \in 0 .. b - 1 |-> Old]
            size == PktSize(Len(src), p)
            ring == PutDown(old, b, e, src, q, p)
            f    == LocateInRingBuf(b, e, size)
            sub1 == SubSeq(src, 1, f.len1)
            sub2 == SubSeq(src, f.len1 + 1, f.len1 + f.len2)
            view1 == CopyBuf(View(old, f.data, f.len1), sub1)
            view2 == CopyBuf(View(old, 0, f.len2), sub2)
            At(i) == RingPos(b, e, i)
<1>1. /\ b \in Nat \ {0} /\ e \in Nat
      /\ size \in Int /\ size >= 2 /\ size <= b /\ b \in Int
      /\ f.len1 \in Int /\ f.len2 \in Int /\ f.data \in Int
      /\ f.len1 >= 0 /\ f.len2 >= 0 /\ f.len1 + f.len2 = size - 2
  BY PacketFrame
<1>2. /\ f.start = At(0) /\ f.end = At(size - 1)
      /\ \A i \in 0 .. f.len1 - 1 : f.data + i = At(1 + i)
      /\ \A i \in 0 .. f.len2 - 1 : i = At(1 + f.len1 + i)
  BY PacketFrame
<1>3. /\ Len(sub1) = f.len1 /\ \A i \in 1 .. f.len1 : sub1[i] = src[i]
      /\ Len(sub2) = f.len2 /\ \A i \in 1 .. f.len2 : sub2[i] = src[f.len1 + i]
  <2>1. /\ Len(sub1) = f.len1 /\ sub1 = [i \in 1 .. f.len1 |-> src[i]]
        /\ Len(sub2) = f.len2 /\ sub2 = [i \in 1 .. f.len2 |-> src[f.len1 + i]]
    BY PacketFrame
  <2>. HIDE DEF sub1, sub2, f
  <2>. QED  BY <2>1
<1>4. /\ \A i \in 1 .. f.len1 : view1[i] = src[i]
      /\ \A i \in 1 .. f.len2 : view2[i] = src[f.len1 + i]
  <2>. HIDE DEF f, size, old, sub1, sub2
  <2>1. /\ Len(View(old, f.data, f.len1)) = f.len1
        /\ Len(View(old, 0, f.len2)) = f.len2
    BY <1>1 DEF View
  <2>2. Copied(sub1) = f.len1 /\ Copied(sub2) = f.len2
    BY <1>1, <1>3, CopiesAll
  <2>. QED  BY <1>1, <1>3, <2>1, <2>2 DEF CopyBuf
<1>5. ring = [x \in 0 .. b - 1 |->
                CASE x = f.start \/ x = f.end          -> Header(f, src, q)
                  [] x \in f.data .. (f.data + f.len1 - 1) -> view1[x - f.data + 1]
                  [] x \in 0 .. (f.len2 - 1)            -> view2[x + 1]
                  [] OTHER                              -> old[x]]
  BY DEF PutDown
<1>. HIDE DEF ring, f, size, view1, view2, sub1, sub2, old
<1>6. \A i \in 0 .. b - 1 : At(i) \in 0 .. b - 1  BY <1>1, RingPosRange
<1>7. \A i, j \in 0 .. b - 1 : At(i) = At(j) => i = j
  BY <1>1, RingPosInjective
<1>. HIDE DEF At
<1>8. 0 \in 0 .. b - 1 /\ size - 1 \in 0 .. b - 1  BY <1>1
<1>9. /\ \A i \in 0 .. f.len1 - 1 : 1 + i \in 0 .. b - 1
      /\ \A i \in 0 .. f.len2 - 1 : 1 + f.len1 + i \in 0 .. b - 1
  BY <1>1
<1>10. \A x \in f.data .. (f.data + f.len1 - 1) :
         \E k \in 0 .. f.len1 - 1 : x = f.data + k
  <2>1. ASSUME NEW x \in f.data .. (f.data + f.len1 - 1)
        PROVE  x - f.data \in 0 .. f.len1 - 1 /\ x = f.data + (x - f.data)
    BY <1>1
  <2>. QED  BY <2>1
<1>11. ASSUME NEW x \in 0 .. b - 1
       PROVE  /\ x = f.start \/ x = f.end => ring[x] = Header(f, src, q)
              /\ x # f.start /\ x # f.end =>
                   /\ x \in f.data .. (f.data + f.len1 - 1) =>
                        ring[x] = view1[x - f.data + 1]
                   /\ x \notin f.data .. (f.data + f.len1 - 1) =>
                        /\ x \in 0 .. (f.len2 - 1) => ring[x] = view2[x + 1]
                        /\ x \notin 0 .. (f.len2 - 1) => ring[x] = old[x]
  <2>. DEFINE V == f.data .. (f.data + f.len1 - 1)
              W == 0 .. (f.len2 - 1)
              H == x = f.start \/ x = f.end
              h == Header(f, src, q)
              v == view1[x - f.data + 1]
              w == view2[x + 1]
              o == old[x]
  <2>1. ring[x] = CASE H -> h [] x \in V -> v [] x \in W -> w [] OTHER -> o
    BY <1>5
  <2>2. x \in V => ~ H
    <3>1. \A k \in 0 .. f.len1 - 1 : 1 + k # 0 /\ 1 + k # size - 1
      BY <1>1
    <3>. QED  BY <1>2, <1>6, <1>7, <1>8, <1>9, <1>10, <3>1
  <2>3. x \in W => ~ H
    <3>1. \A k \in 0 .. f.len2 - 1 : 1 + f.len1 + k # 0 /\ 1 + f.len1 + k # size - 1
      BY <1>1
    <3>2. ASSUME NEW y \in W  PROVE y # f.start /\ y # f.end
      <4>. DEFINE j == 1 + f.len1 + y
      <4>1. y = At(j) /\ j \in 0 .. b - 1 /\ j # 0 /\ j # size - 1
        BY <1>1, <1>2, <1>9, <3>1
      <4>. HIDE DEF j
      <4>. QED  BY <1>2, <1>7, <1>8, <4>1
    <3>. QED  BY <3>2
  <2>4. x \in V => x \notin W
    <3>1. \A k \in 0 .. f.len1 - 1, j \in 0 .. f.len2 - 1 : 1 + k # 1 + f.len1 + j
      BY <1>1
    <3>. QED  BY <1>2, <1>7, <1>9, <1>10, <3>1
  <2>. HIDE DEF V, W, H, h, v, w, o
  <2>5. CASE H  BY <2>1, <2>2, <2>3, <2>5 DEF H, h
  <2>6. CASE x \in V  BY <2>1, <2>2, <2>4, <2>6 DEF H, V, v
  <2>7. CASE x \in W  BY <2>1, <2>3, <2>4, <2>7 DEF H, V, W, w
  <2>8. CASE ~ H /\ x \notin V /\ x \notin W
    BY <2>1, <2>8 DEF H, V, W, o
  <2>. QED  BY <2>5, <2>6, <2>7, <2>8
<1>12. ring[At(0)] = Header(f, src, q) /\ ring[At(size - 1)] = Header(f, src, q)
  BY <1>2, <1>11, <1>6, <1>8
<1>13. ASSUME NEW i \in 1 .. size - 2  PROVE ring[At(i)] = src[i]
  <2>1. i \in 0 .. b - 1 /\ i # 0 /\ i # size - 1  BY <1>1
  <2>2. At(i) \in 0 .. b - 1 /\ At(i) # f.start /\ At(i) # f.end
    BY <1>2, <1>6, <1>7, <1>8, <2>1
  <2>3. CASE i <= f.len1
    <3>. DEFINE k == i - 1
    <3>1. k \in 0 .. f.len1 - 1 /\ 1 + k = i /\ i \in 1 .. f.len1
      BY <1>1, <2>3
    <3>. HIDE DEF k
    <3>2. At(i) = f.data + k  BY <1>2, <3>1
    <3>3. At(i) \in f.data .. (f.data + f.len1 - 1) /\ At(i) - f.data + 1 = i
      <4>1. PICK x, d, n : x = At(i) /\ d = f.data /\ n = f.len1  OBVIOUS
      <4>2. x = d + k /\ d \in Int /\ n \in Int /\ k \in 0 .. n - 1 /\ i = 1 + k
        BY <1>1, <3>1, <3>2, <4>1
      <4>3. x \in d .. (d + n - 1) /\ x - d + 1 = i  BY <4>2
      <4>. QED  BY <4>1, <4>3
    <3>4. ring[At(i)] = view1[i]  BY <1>11, <2>2, <3>3
    <3>. QED  BY <1>4, <3>1, <3>4
  <2>4. CASE i > f.len1
    <3>. DEFINE j == i - 1 - f.len1
    <3>1. /\ j \in 0 .. f.len2 - 1 /\ 1 + f.len1 + j = i
          /\ j + 1 \in 1 .. f.len2 /\ f.len1 + (j + 1) = i
      BY <1>1, <2>4
    <3>. HIDE DEF j
    <3>2. At(i) = j  BY <1>2, <3>1
    <3>3. \A k \in 0 .. f.len1 - 1 : 1 + k # i  BY <1>1, <2>4
    <3>4. \A k \in 0 .. f.len1 - 1 : At(i) # f.data + k
      BY <1>2, <1>7, <1>9, <2>1, <3>3
    <3>5. ring[At(i)] = view2[At(i) + 1]
      BY <1>11, <1>10, <2>2, <3>1, <3>2, <3>4
    <3>. QED  BY <1>4, <3>1, <3>2, <3>5
  <2>. QED  BY <1>1, <2>3, <2>4
<1>14. ASSUME NEW i \in size .. b - 1  PROVE ring[At(i)] = Old
  <2>1. i \in 0 .. b - 1 /\ i # 0 /\ i # size - 1  BY <1>1
  <2>2. At(i) \in 0 .. b - 1 /\ At(i) # f.start /\ At(i) # f.end
    BY <1>2, <1>6, <1>7, <1>8, <2>1
  <2>3. /\ \A k \in 0 .. f.len1 - 1 : 1 + k # i
        /\ \A k \in 0 .. f.len2 - 1 : 1 + f.len1 + k # i
    BY <1>1
  <2>4. \A k \in 0 .. f.len1 - 1 : At(i) # f.data + k
    BY <1>2, <1>7, <1>9, <2>1, <2>3
  <2>5. ASSUME NEW k \in 0 .. f.len2 - 1  PROVE At(i) # k
    <3>. DEFINE j == 1 + f.len1 + k
    <3>1. k = At(j) /\ j \in 0 .. b - 1 /\ j # i  BY <1>1, <1>2, <1>9, <2>3
    <3>. HIDE DEF j
    <3>. QED  BY <1>7, <2>1, <3>1
  <2>6. ring[At(i)] = old[At(i)]  BY <1>11, <1>10, <2>2, <2>4, <2>5
  <2>. QED  BY <2>2, <2>6 DEF old
<1>. QED  BY <1>12, <1>13, <1>14 DEF ring, f, size, old, At

(* ProcessSendQ leaves the packet, between two equal MsgEnds, and nothing  *)
(* else in the ring, for every ring, edge, packet size and message.        *)
THEOREM CopyTheorem ==
  ASSUME NEW b, NEW e, NEW src, NEW q, NEW p, Packet(b, e, src, p)
  PROVE  CopyCorrect(b, e, src, q, p)
PROOF
<1>. DEFINE size == PktSize(Len(src), p)
            old  == [x \in 0 .. b - 1 |-> Old]
            ring == PutDown(old, b, e, src, q, p)
            head == Header(LocateInRingBuf(b, e, size), src, q)
<1>1. /\ ring[RingPos(b, e, 0)] = head
      /\ ring[RingPos(b, e, size - 1)] = head
      /\ \A i \in 1 .. size - 2 : ring[RingPos(b, e, i)] = src[i]
      /\ \A i \in size .. b - 1 : ring[RingPos(b, e, i)] = Old
  BY PutDownAt
<1>2. head.size = Len(src) /\ head.seq = q  BY DEF Header
<1>. HIDE DEF head, ring, size
<1>. QED  BY <1>1, <1>2 DEF CopyCorrect, ring, old, size

(* Both overloads of ComputeCRC give the same pair for such a packet: the  *)
(* receiver's views hold the parts of the message the sender's CRC is of.  *)
THEOREM CrcTheorem ==
  ASSUME NEW b, NEW e, NEW src, NEW q, NEW p, Packet(b, e, src, p)
  PROVE  CrcCorrect(b, e, src, q, p)
PROOF
<1>. DEFINE size == PktSize(Len(src), p)
            old  == [x \in 0 .. b - 1 |-> Old]
            ring == PutDown(old, b, e, src, q, p)
            f    == LocateInRingBuf(b, e, size)
            sub1 == SubSeq(src, 1, f.len1)
            sub2 == SubSeq(src, f.len1 + 1, f.len1 + f.len2)
<1>1. /\ ring[RingPos(b, e, 0)] = Header(f, src, q)
      /\ \A i \in 1 .. size - 2 : ring[RingPos(b, e, i)] = src[i]
  BY PutDownAt
<1>2. /\ b \in Nat \ {0} /\ e \in Nat /\ size \in Int
  BY DEF Packet, Fitting, MsgEnd
<1>3. RingPos(b, e, 0) = e % b  BY <1>2 DEF RingPos
<1>4. ring[e % b].size = Len(src) /\ ring[e % b].crc = CopyCRC(sub2, CopyCRC(sub1, <<>>))
  BY <1>1, <1>3 DEF Header
<1>5. /\ View(ring, f.data, f.len1) = sub1
      /\ View(ring, 0, f.len2) = sub2
  <2>1. /\ f.len1 \in Int /\ f.len2 \in Int /\ f.data \in Int
        /\ f.len1 >= 0 /\ f.len2 >= 0 /\ f.len1 + f.len2 = size - 2
        /\ \A i \in 0 .. f.len1 - 1 : f.data + i = RingPos(b, e, 1 + i)
        /\ \A i \in 0 .. f.len2 - 1 : i = RingPos(b, e, 1 + f.len1 + i)
    BY PacketFrame
  <2>2. /\ sub1 = [i \in 1 .. f.len1 |-> src[i]]
        /\ sub2 = [i \in 1 .. f.len2 |-> src[f.len1 + i]]
    BY PacketFrame
  <2>. HIDE DEF f, ring, sub1, sub2, size
  <2>3. ASSUME NEW i \in 1 .. f.len1  PROVE ring[f.data + i - 1] = src[i]
    <3>1. i - 1 \in 0 .. f.len1 - 1 /\ 1 + (i - 1) = i /\ i \in 1 .. size - 2
          /\ f.data + i - 1 = f.data + (i - 1)
      BY <2>1
    <3>. QED  BY <1>1, <2>1, <3>1
  <2>4. ASSUME NEW i \in 1 .. f.len2  PROVE ring[0 + i - 1] = src[f.len1 + i]
    <3>1. /\ i - 1 \in 0 .. f.len2 - 1 /\ 1 + f.len1 + (i - 1) = f.len1 + i
          /\ f.len1 + i \in 1 .. size - 2 /\ 0 + i - 1 = i - 1
      BY <1>2, <2>1
    <3>. QED  BY <1>1, <2>1, <3>1
  <2>. QED  BY <2>2, <2>3, <2>4 DEF View
<1>6. ReadCRC(ring, b, e, p) = ComputeCRC(sub2, ComputeCRC(sub1, <<>>))
  BY <1>4, <1>5 DEF ReadCRC
<1>7. \A buf, crc : ComputeCRC(buf, crc) = CopyCRC(buf, crc)
  BY DEF ComputeCRC, CopyCRC
<1>. QED  BY <1>4, <1>6, <1>7 DEF CrcCorrect

-----------------------------------------------------------------------------
(* The machine                                                             *)

(* What holds from the factory's arguments on: a running object passed     *)
(* every check of factory and constructor, and half the memory of a        *)
(* connection has room for a packet.                                       *)
RingInv ==
  /\ args.conBufSize \in Nat /\ args.maxConnections \in Nat
  /\ packetSize \in Nat \ {0}
  /\ \/ 2 * (packetSize + 2 * MsgEnd) <= args.conBufSize
     \/ args.conBufSize <= MinConBuf
  /\ edge \in Nat /\ units \in Nat /\ rest \in 0 .. units
  /\ phase \in {"factory", "running", "terminated"}
  /\ phase = "running" =>
       /\ Admitted(args.conBufSize, args.maxConnections)
       /\ SliceNregister(hermes)

(* The invariant is inductive.                                             *)
LEMMA RingInvariant == Spec => []RingInv
PROOF
<1>1. Init => RingInv
  <2>. SUFFICES ASSUME Init  PROVE RingInv
    OBVIOUS
  <2>1. args.conBufSize \in Nat /\ args.maxConnections \in Nat
    BY RingAssumption DEF Init
  <2>2. packetSize \in Nat \ {0}  BY RingAssumption DEF Init
  <2>3. \/ 2 * (packetSize + 2 * MsgEnd) <= args.conBufSize
        \/ args.conBufSize <= MinConBuf
    BY DEF Init
  <2>4. edge = 0 /\ units = 0 /\ rest = 0 /\ phase = "factory"  BY DEF Init
  <2>. QED  BY <2>1, <2>2, <2>3, <2>4 DEF RingInv
<1>2. RingInv /\ [Next]_vars => RingInv'
  <2>. SUFFICES ASSUME RingInv, [Next]_vars  PROVE RingInv'
    OBVIOUS
  <2>. USE DEF RingInv
  <2>1. CASE Construct
    BY <2>1, RingAssumption DEF Construct, hermes
  <2>2. CASE Terminate  BY <2>2 DEF Terminate
  <2>3. PktSize(rest, packetSize) \in Nat
    BY DEF PktSize, Lesser, MsgEnd
  <2>4. CASE NextPacket
    BY <2>3, <2>4 DEF NextPacket, hermes
  <2>5. CASE NextMessage
    BY <2>3, <2>5, RingAssumption DEF NextMessage, hermes
  <2>6. CASE UNCHANGED vars  BY <2>6 DEF vars, hermes
  <2>. QED  BY <2>1, <2>2, <2>4, <2>5, <2>6 DEF Next
<1>. QED  BY <1>1, <1>2, PTL DEF Spec

(* A running object is one, and the next packet fits its ring.             *)
LEMMA Running ==
  ASSUME RingInv, phase = "running"
  PROVE  /\ Object(hermes) /\ SliceNregister(hermes)
         /\ bufSize = hermes.bufSize
         /\ Fitting(bufSize, edge, PktSize(rest, packetSize))
PROOF
<1>. DEFINE c == args.conBufSize
            n == args.maxConnections
<1>1. c \in Nat /\ n \in Nat /\ Admitted(c, n) /\ SliceNregister(hermes)
  BY DEF RingInv
<1>2. c > MinConBuf /\ IsPower2(c) /\ IsPower2(n)  BY <1>1 DEF Admitted
<1>3. 2 * (packetSize + 2) <= c /\ packetSize \in Nat \ {0}
  BY <1>1, <1>2, SlicingAssumption DEF RingInv, MsgEnd
<1>4. 2 * (c \div 2) = c  BY <1>1, <1>2, <1>3, PowerEven
<1>5. c \div 2 \in Int  BY <1>1
<1>6. c \div 2 \in Nat \ {0} /\ packetSize + 2 <= c \div 2
  BY <1>1, <1>3, <1>4, <1>5
<1>7. n \in Nat \ {0}  BY <1>1, <1>2 DEF IsPower2
<1>8. AllocatedSize(c, n) \in Nat
  <2>. DEFINE g == Granularity
              x == TSize(c) * n + g - 1
  <2>1. TSize(c) \in Nat  BY <1>1, SlicingAssumption DEF TSize
  <2>2. TSize(c) * n \in Nat  BY <1>1, <2>1
  <2>3. x \in Nat /\ g \in Nat \ {0}  BY <2>2, SlicingAssumption
  <2>4. AllocatedSize(c, n) = (x \div g) * g  BY DEF AllocatedSize
  <2>. HIDE DEF x, g
  <2>5. x \div g \in Nat
    <3>1. x \div g \in Int /\ x % g \in 0 .. g - 1 /\ x = g * (x \div g) + (x % g)
      BY <2>3
    <3>2. SUFFICES ASSUME x \div g <= -1  PROVE FALSE  BY <3>1
    <3>3. g * (x \div g) <= - g  BY <2>3, <3>1, <3>2
    <3>4. g * (x \div g) \in Int  BY <2>3, <3>1
    <3>. QED  BY <2>3, <3>1, <3>3, <3>4
  <2>. QED  BY <2>3, <2>4, <2>5
<1>9. hermes = [bufSize |-> c \div 2, maxConnection |-> n,
                page |-> Span(0, AllocatedSize(c, n))]
  BY DEF hermes, MakeHermes
<1>10. Object(hermes) /\ bufSize = hermes.bufSize /\ bufSize = c \div 2
  BY <1>6, <1>7, <1>8, <1>9 DEF Object, Span, bufSize
<1>11. edge \in Nat /\ rest \in Nat  BY DEF RingInv
<1>12. Fitting(bufSize, edge, PktSize(rest, packetSize))
  BY <1>3, <1>6, <1>10, <1>11 DEF Fitting, PktSize, Lesser, MsgEnd
<1>. QED  BY <1>1, <1>10, <1>12

(* LocateInRingBuf places every packet of every message right.             *)
THEOREM FramesLaidOut == Spec => []FrameLayout
PROOF
<1>1. RingInv => FrameLayout  BY Running, LayoutTheorem DEF FrameLayout
<1>. QED  BY <1>1, RingInvariant, PTL

(* The RDMA writes of every packet cover its units and nothing else.       *)
THEOREM FramesWritten == Spec => []FrameWrites
PROOF
<1>1. RingInv => FrameWrites  BY Running, WritesTheorem DEF FrameWrites
<1>. QED  BY <1>1, RingInvariant, PTL

(* The first packet of every message announces the packets to come.        *)
THEOREM MessagesCounted == Spec => []MessageCount
PROOF
<1>1. RingInv => MessageCount  BY CountTheorem DEF RingInv, MessageCount
<1>. QED  BY <1>1, RingInvariant, PTL

(* What is left of a message and its next packet.                          *)
LEMMA RunningPacket ==
  ASSUME RingInv, phase = "running"
  PROVE  Packet(bufSize, edge, SrcBuf, packetSize)
PROOF
<1>1. packetSize \in Nat \ {0} /\ rest \in Nat /\ units \in Nat  BY DEF RingInv
<1>2. SrcBuf \in Seq(Int) /\ Len(SrcBuf) = rest  BY <1>1 DEF SrcBuf
<1>. QED  BY <1>1, <1>2, Running DEF Packet

(* Every packet is copied whole, and nothing else in the ring changes.     *)
THEOREM FramesCopied == Spec => []FrameCopied
PROOF
<1>1. RingInv => FrameCopied
  BY RunningPacket, CopyTheorem DEF FrameCopied
<1>. QED  BY <1>1, RingInvariant, PTL

(* The receiver finds the CRC the sender wrote.                            *)
THEOREM CrcsAgree == Spec => []CrcAgrees
PROOF
<1>1. RingInv => CrcAgrees
  BY RunningPacket, CrcTheorem DEF CrcAgrees
<1>. QED  BY <1>1, RingInvariant, PTL

(* The buffers and tables of an object that was constructed are disjoint,  *)
(* and sizes whose product does not fit 32 bits never get that far.        *)
THEOREM SlicesAreSound == Spec => []SlicesSound
PROOF
<1>1. RingInv => SlicesSound
  BY Running, SlicingTheorem DEF SlicesSound
<1>. QED  BY <1>1, RingInvariant, PTL

(* No RDMA write of a packet leaves the receive buffer of the terminal it  *)
(* is for.                                                                 *)
THEOREM WritesStayInside == Spec => []RemoteWritesInside
PROOF
<1>1. ASSUME RingInv, phase = "running", NEW peer \in 1 .. hermes.maxConnection,
             NEW x \in 0 .. bufSize - 1
      PROVE  /\ Within(Span(GetRcvBuf(hermes, peer).base + x, 1),
                       GetRcvBuf(hermes, peer))
             /\ Disjoint(Span(GetRcvBuf(hermes, peer).base + x, 1),
                         GetSndBuf(hermes, peer))
  <2>. DEFINE at == (peer - 1) * (2 * hermes.bufSize)
  <2>1. /\ at \in Nat /\ bufSize \in Nat
        /\ GetRcvBuf(hermes, peer) = Span(at, bufSize)
        /\ GetSndBuf(hermes, peer) = Span(at + bufSize, bufSize)
    BY <1>1, Running, Offsets DEF Object
  <2>. HIDE DEF at
  <2>. QED  BY <2>1 DEF Within, Disjoint, Span
<1>2. ASSUME RingInv, phase = "running"
      PROVE  LET size == PktSize(rest, packetSize)
                 f    == LocateInRingBuf(bufSize, edge, size)
             IN  FirstWrite(f, size) \cup SecondWrite(f) \subseteq 0 .. bufSize - 1
  <2>. DEFINE size == PktSize(rest, packetSize)
              f    == LocateInRingBuf(bufSize, edge, size)
  <2>1. Fitting(bufSize, edge, size)  BY <1>2, Running
  <2>2. FirstWrite(f, size) \cup SecondWrite(f)
          = { RingPos(bufSize, edge, i) : i \in 0 .. size - 1 }
    BY <2>1, WritesTheorem DEF WritesExact
  <2>3. /\ bufSize \in Nat \ {0} /\ edge \in Nat
        /\ \A i \in 0 .. size - 1 : i \in 0 .. bufSize - 1
    BY <2>1 DEF Fitting, MsgEnd
  <2>. HIDE DEF f, size
  <2>. QED  BY <2>2, <2>3, RingPosRange DEF f, size
<1>3. RingInv => RemoteWritesInside
  BY <1>1, <1>2 DEF RemoteWritesInside
<1>. QED  BY <1>3, RingInvariant, PTL

=============================================================================
