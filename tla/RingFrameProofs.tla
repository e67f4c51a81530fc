-------------------------- MODULE RingFrameProofs ---------------------------
(***************************************************************************)
(* The frame layout is right for every ring, edge and frame that fits.     *)
(***************************************************************************)
EXTENDS RingFrame, TLAPS

(* The remainder is the only number below the modulus that differs from    *)
(* the dividend by a multiple of it.                                       *)
LEMMA ModUnique ==
  ASSUME NEW b \in Nat \ {0}, NEW x \in Int, NEW q \in Int,
         NEW r \in 0 .. b - 1, x = b * q + r
  PROVE  x % b = r
PROOF
<1>. DEFINE d == x \div b
            m == x % b
<1>1. d \in Int /\ m \in 0 .. b - 1 /\ x = b * d + m  BY SMT
<1>. HIDE DEF d, m
<1>2. b * (q - d) = m - r  BY <1>1
<1>3. CASE q = d  BY <1>1, <1>3 DEF m
<1>4. CASE q > d
  <2>1. b * (q - d) >= b  BY <1>1, <1>4
  <2>. QED  BY <1>1, <1>2, <2>1
<1>5. CASE q < d
  <2>1. b * (d - q) >= b  BY <1>1, <1>5
  <2>2. b * (d - q) = r - m  BY <1>1
  <2>. QED  BY <1>1, <2>1, <2>2
<1>. QED  BY <1>1, <1>3, <1>4, <1>5

(* Position i of a frame no longer than the ring is its offset plus i,     *)
(* less one turn of the ring if that runs past the end.                    *)
LEMMA RingPosCases ==
  ASSUME NEW b \in Nat \ {0}, NEW e \in Nat, NEW i \in 0 .. b
  PROVE  /\ e % b \in 0 .. b - 1
         /\ RingPos(b, e, i) = IF (e % b) + i < b THEN (e % b) + i
                               ELSE (e % b) + i - b
PROOF
<1>. DEFINE d == e \div b
            m == e % b
<1>1. d \in Int /\ m \in 0 .. b - 1 /\ e = b * d + m  BY SMT
<1>. HIDE DEF d, m
<1>2. CASE m + i < b
  <2>1. e + i = b * d + (m + i)  BY <1>1
  <2>2. (e + i) % b = m + i  BY <1>1, <1>2, <2>1, ModUnique
  <2>. QED  BY <1>1, <1>2, <2>2 DEF RingPos, m
<1>3. CASE ~ (m + i < b)
  <2>. DEFINE q == d + 1
              r == m + i - b
              x == e + i
  <2>1. x \in Int /\ q \in Int /\ r \in 0 .. b - 1 /\ x = b * q + r
    BY <1>1, <1>3
  <2>. HIDE DEF q, r, x
  <2>2. x % b = r  BY <2>1, ModUnique
  <2>. QED  BY <1>1, <1>3, <2>2 DEF RingPos, m, r, x
<1>. QED  BY <1>2, <1>3

(* No two units of a frame, nor of the rest of the ring, have the same     *)
(* place.                                                                  *)
LEMMA RingPosInjective ==
  ASSUME NEW b \in Nat \ {0}, NEW e \in Nat,
         NEW i \in 0 .. b - 1, NEW j \in 0 .. b - 1,
         RingPos(b, e, i) = RingPos(b, e, j)
  PROVE  i = j
PROOF
<1>1. e % b \in 0 .. b - 1 /\ i \in 0 .. b /\ j \in 0 .. b  BY RingPosCases
<1>2. RingPos(b, e, i) = IF (e % b) + i < b THEN (e % b) + i
                         ELSE (e % b) + i - b
  BY <1>1, RingPosCases
<1>3. RingPos(b, e, j) = IF (e % b) + j < b THEN (e % b) + j
                         ELSE (e % b) + j - b
  BY <1>1, RingPosCases
<1>. DEFINE m == e % b
<1>. HIDE DEF m
<1>4. m \in 0 .. b - 1  BY <1>1 DEF m
<1>5. IF m + i < b THEN IF m + j < b THEN m + i = m + j ELSE m + i = m + j - b
                   ELSE IF m + j < b THEN m + i - b = m + j
                                     ELSE m + i - b = m + j - b
  BY <1>2, <1>3 DEF m
<1>. QED  BY <1>4, <1>5

(* Every place is in the ring.                                             *)
LEMMA RingPosRange ==
  ASSUME NEW b \in Nat \ {0}, NEW e \in Nat, NEW i \in 0 .. b - 1
  PROVE  RingPos(b, e, i) \in 0 .. b - 1
PROOF
<1>1. e + i \in Int  OBVIOUS
<1>. QED  BY <1>1 DEF RingPos

(* A frame of at least a header and a footer that fits in the ring.        *)
Fitting(b, e, size) ==
  b \in Nat \ {0} /\ e \in Nat /\ size \in 2 * MsgEnd .. b

(* LocateInRingBuf computes the layout the ring really has, for every ring *)
(* size (not only powers of two), every edge and every frame that fits.    *)
THEOREM LayoutTheorem ==
  ASSUME NEW b, NEW e, NEW size, Fitting(b, e, size)
  PROVE  LayoutCorrect(b, e, size)
PROOF
<1>. DEFINE f == LocateInRingBuf(b, e, size)
            m == e % b
<1>0. b \in Nat \ {0} /\ e \in Nat /\ size \in 2 .. b  BY DEF Fitting, MsgEnd
<1>1. m \in 0 .. b - 1  BY <1>0, RingPosCases
<1>2. \A i \in 0 .. b :
        RingPos(b, e, i) = IF m + i < b THEN m + i ELSE m + i - b
  BY <1>0, RingPosCases
<1>. HIDE DEF m
<1>3. /\ f.start = m
      /\ f.data = m + 1
      /\ f.len1 = IF size - 2 <= b - (m + 1) THEN size - 2 ELSE b - (m + 1)
      /\ f.len2 = size - 2 - f.len1
      /\ f.end = IF f.len2 > 0 THEN f.len2 ELSE (f.data + f.len1) % b
  BY DEF LocateInRingBuf, Lesser, MsgEnd, m
<1>. HIDE DEF f
<1>4. f.end = RingPos(b, e, size - 1)
  <2>1. CASE f.len2 > 0  BY <1>0, <1>1, <1>2, <1>3, <2>1
  <2>2. CASE ~ (f.len2 > 0)
    <3>1. f.data + f.len1 = m + size - 1  BY <1>0, <1>1, <1>3, <2>2
    <3>2. CASE m + size - 1 < b
      <4>1. (m + size - 1) % b = m + size - 1  BY <1>0, <1>1, <3>2
      <4>. QED  BY <1>0, <1>1, <1>2, <1>3, <2>2, <3>1, <3>2, <4>1
    <3>3. CASE ~ (m + size - 1 < b)
      <4>1. m + size - 1 = b  BY <1>0, <1>1, <1>3, <2>2, <3>3
      <4>2. b % b = 0  BY <1>0
      <4>. QED  BY <1>0, <1>1, <1>2, <1>3, <2>2, <3>1, <4>1, <4>2
    <3>. QED  BY <3>2, <3>3
  <2>. QED  BY <2>1, <2>2
<1>5. f.start = RingPos(b, e, 0)  BY <1>0, <1>1, <1>2, <1>3
<1>6. f.len1 >= 0 /\ f.len2 >= 0 /\ f.len1 + f.len2 = size - 2
  BY <1>0, <1>1, <1>3
<1>7. ASSUME NEW i \in 0 .. f.len1 - 1
      PROVE  f.data + i = RingPos(b, e, MsgEnd + i)
  BY <1>0, <1>1, <1>2, <1>3 DEF MsgEnd
<1>8. ASSUME NEW i \in 0 .. f.len2 - 1
      PROVE  i = RingPos(b, e, MsgEnd + f.len1 + i)
  BY <1>0, <1>1, <1>2, <1>3 DEF MsgEnd
<1>. QED  BY <1>4, <1>5, <1>6, <1>7, <1>8 DEF LayoutCorrect, f, MsgEnd

(* The RDMA writes of a frame that fits cover its units and nothing else.  *)
THEOREM WritesTheorem ==
  ASSUME NEW b, NEW e, NEW size, Fitting(b, e, size)
  PROVE  WritesExact(b, e, size)
PROOF
<1>. DEFINE f == LocateInRingBuf(b, e, size)
            m == e % b
            W == FirstWrite(f, size) \cup SecondWrite(f)
            C == { RingPos(b, e, i) : i \in 0 .. size - 1 }
<1>0. b \in Nat \ {0} /\ e \in Nat /\ size \in 2 .. b  BY DEF Fitting, MsgEnd
<1>1. m \in 0 .. b - 1  BY <1>0, RingPosCases
<1>2. \A i \in 0 .. b :
        RingPos(b, e, i) = IF m + i < b THEN m + i ELSE m + i - b
  BY <1>0, RingPosCases
<1>. HIDE DEF m
<1>3. /\ f.start = m
      /\ f.len1 = IF size - 2 <= b - (m + 1) THEN size - 2 ELSE b - (m + 1)
      /\ f.len2 = size - 2 - f.len1
  BY DEF LocateInRingBuf, Lesser, MsgEnd, m
<1>4. f.end = RingPos(b, e, size - 1)  BY LayoutTheorem DEF LayoutCorrect
<1>. HIDE DEF f
<1>5. CASE m + size - 1 < b
  <2>1. ~ IsSplit(f)  BY <1>0, <1>1, <1>2, <1>3, <1>4, <1>5 DEF IsSplit
  <2>2. W = m .. (m + size - 1)
    BY <1>3, <2>1 DEF FirstWrite, SecondWrite
  <2>3. ASSUME NEW c \in W  PROVE c \in C
    <3>1. c \in Int /\ c - m \in 0 .. size - 1  BY <1>0, <1>1, <2>2
    <3>2. RingPos(b, e, c - m) = c  BY <1>0, <1>1, <1>2, <1>5, <3>1
    <3>. QED  BY <3>1, <3>2
  <2>4. ASSUME NEW i \in 0 .. size - 1  PROVE RingPos(b, e, i) \in W
    BY <1>0, <1>1, <1>2, <1>5, <2>2
  <2>. QED  BY <2>3, <2>4 DEF WritesExact, f
<1>6. CASE ~ (m + size - 1 < b)
  <2>1. IsSplit(f)  BY <1>0, <1>1, <1>2, <1>3, <1>4, <1>6 DEF IsSplit
  <2>2. W = (0 .. m + size - 1 - b) \cup (m .. b - 1)
    <3>1. f.len1 = b - (m + 1) /\ f.len2 = m + size - 1 - b
      BY <1>0, <1>1, <1>3, <1>6
    <3>2. FirstWrite(f, size) = 0 .. m + size - 1 - b
      BY <1>0, <1>1, <2>1, <3>1 DEF FirstWrite, MsgEnd
    <3>3. SecondWrite(f) = m .. b - 1
      BY <1>0, <1>1, <1>3, <2>1, <3>1 DEF SecondWrite, MsgEnd
    <3>. QED  BY <3>2, <3>3
  <2>3. ASSUME NEW c \in W  PROVE c \in C
    <3>1. CASE c \in m .. b - 1
      <4>1. c - m \in 0 .. size - 1 /\ RingPos(b, e, c - m) = c
        BY <1>0, <1>1, <1>2, <1>6, <3>1
      <4>. QED  BY <4>1
    <3>2. CASE c \in 0 .. m + size - 1 - b
      <4>1. c + b - m \in 0 .. size - 1 /\ RingPos(b, e, c + b - m) = c
        BY <1>0, <1>1, <1>2, <1>6, <3>2
      <4>. QED  BY <4>1
    <3>. QED  BY <2>2, <3>1, <3>2
  <2>4. ASSUME NEW i \in 0 .. size - 1  PROVE RingPos(b, e, i) \in W
    BY <1>0, <1>1, <1>2, <1>6, <2>2
  <2>. QED  BY <2>3, <2>4 DEF WritesExact, f
<1>. QED  BY <1>5, <1>6

(* The number of packets a long message announces is the number the loop   *)
(* of ProcessSendQ sends, for every message and packet size.               *)
THEOREM CountTheorem ==
  ASSUME NEW units \in Nat, NEW p \in Nat \ {0}
  PROVE  CountCorrect(units, p)
PROOF
<1>. DEFINE x == units + p - 1
            d == x \div p
            m == x % p
<1>1. x \in Nat  OBVIOUS
<1>. HIDE DEF x
<1>2. d \in Int /\ m \in 0 .. p - 1 /\ x = p * d + m  BY <1>1
<1>. HIDE DEF d, m
<1>3. units - (d - 1) * p = m + 1
  <2>1. (d - 1) * p = p * d - p  BY <1>2
  <2>2. p * d \in Int  BY <1>2
  <2>. QED  BY <1>2, <2>1, <2>2 DEF x
<1>. QED  BY <1>2, <1>3 DEF CountCorrect, NumPckts, d, x

(* A message of at most k full packets announces at most k of them.        *)
(* m_mSndIdx and Seq are int16_t: MAX_MSG_SIZE is 32736 packets, which is  *)
(* below INT16_MAX, so the assertion "Message size too big!" cannot fail   *)
(* and Seq is exact for every message Send accepts.                        *)
THEOREM SeqBound ==
  ASSUME NEW p \in Nat \ {0}, NEW k \in Nat, NEW units \in 0 .. k * p
  PROVE  NumPckts(units, p) \in 0 .. k
PROOF
<1>. DEFINE x == units + p - 1
            d == x \div p
            m == x % p
<1>1. x \in Nat  OBVIOUS
<1>. HIDE DEF x
<1>2. d \in Int /\ m \in 0 .. p - 1 /\ x = p * d + m  BY <1>1
<1>. HIDE DEF d, m
<1>3. d >= 0
  <2>1. SUFFICES ASSUME d <= -1  PROVE FALSE  BY <1>2
  <2>2. p * d <= - p  BY <1>2, <2>1
  <2>. QED  BY <1>1, <1>2, <2>2
<1>4. d <= k
  <2>1. SUFFICES ASSUME d >= k + 1  PROVE FALSE  BY <1>2
  <2>2. p * d >= p * (k + 1)  BY <1>2, <2>1
  <2>3. p * (k + 1) = k * p + p  OBVIOUS
  <2>4. k * p \in Int /\ p * d \in Int  BY <1>2
  <2>. QED  BY <1>2, <2>2, <2>3, <2>4 DEF x
<1>. QED  BY <1>2, <1>3, <1>4 DEF NumPckts, d, x

=============================================================================
