--------------------------- MODULE SendPathProofs ---------------------------
(***************************************************************************)
(* Proofs about a terminal's send path, apart from what is in the rings    *)
(* (SendDataProofs): types and the one sender at a time, flow control, the *)
(* order of completion, and the account of the reads of the remote edge.   *)
(***************************************************************************)
EXTENDS SendPath, RingFrameProofs, FiniteSetTheorems, FunctionTheorems,
        SequenceTheorems

(* What the locals of a thread and the holder of m_sndLock are between     *)
(* steps.                                                                  *)
LocalsOK ==
  /\ \A t \in Workers :
       pc[t] \in Labels \ {"idle", "top", "fullEdge", "fullRead", "resume"}
         => loc[t].req \in Msgs
  /\ sndLock # NoThread => pc[sndLock] = "insert"

(* Inductive: types alone are not, since pop_back on an empty queue has no *)
(* type, and that the queue is not empty follows from exclusivity.         *)
SenderInv == TypeOK /\ SenderExclusive /\ LocalsOK

-----------------------------------------------------------------------------
(* Types of the operators.                                                 *)

(* The operators on sequences stay within Seq(S).                          *)
LEMMA SeqTypes ==
  ASSUME NEW S, NEW q \in Seq(S)
  PROVE  /\ Len(q) \in Nat
         /\ \A i \in 1 .. Len(q) : q[i] \in S
         /\ \A x \in S : Append(q, x) \in Seq(S)
         /\ \A r \in Seq(S) : q \o r \in Seq(S)
         /\ q # <<>> => Len(q) > 0 /\ Head(q) \in S /\ Tail(q) \in Seq(S)
PROOF OBVIOUS

(* Popping one of several requests leaves one.                             *)
LEMMA TailNonEmpty ==
  ASSUME NEW S, NEW q \in Seq(S), Len(q) > 1
  PROVE  Tail(q) # <<>>
PROOF
<1>. DEFINE n == Len(q)
<1>1. n \in Nat /\ n > 1  OBVIOUS
<1>2. Len(Tail(q)) = n - 1  OBVIOUS
<1>. HIDE DEF n
<1>3. n - 1 # 0  BY <1>1
<1>4. Len(<<>>) = 0  OBVIOUS
<1>. QED  BY <1>2, <1>3, <1>4, Zenon

(* A packet is at least a header and a footer.                             *)
LEMMA PktSizeType ==
  ASSUME NEW rest \in Nat
  PROVE  /\ PktSize(rest, PacketSize) \in Nat
         /\ PktSize(rest, PacketSize) >= 2
         /\ PktSize(rest, PacketSize) - 2 * MsgEnd \in Nat
PROOF BY SendPathAssumption DEF PktSize, Lesser, MsgEnd

(* The offsets and lengths of a frame are natural numbers.                 *)
LEMMA LocateType ==
  ASSUME NEW e \in Nat, NEW size \in Nat, size >= 2
  PROVE  Locate(e, size) \in [start : Nat, data : Nat, len1 : Nat,
                              len2 : Nat, end : Nat]
PROOF
<1>. DEFINE m == e % BufSize
<1>1. m \in 0 .. BufSize - 1  BY SendPathAssumption
<1>. HIDE DEF m
<1>. DEFINE data == m + 1
            len1 == Lesser(size - 2, BufSize - data)
            len2 == size - 2 - len1
            end  == IF len2 > 0 THEN len2 ELSE (data + len1) % BufSize
<1>2. data \in Nat /\ len1 \in Nat /\ len2 \in Nat
  BY <1>1, SendPathAssumption DEF Lesser
<1>3. end \in Nat
  <2>1. (data + len1) % BufSize \in Nat
    <3>. DEFINE x == data + len1
    <3>1. x \in Nat  BY <1>2
    <3>. HIDE DEF x
    <3>2. x % BufSize \in Nat  BY <3>1, SendPathAssumption
    <3>. QED  BY <3>2 DEF x
  <2>. QED  BY <1>2, <2>1
<1>4. Locate(e, size) = [start |-> m, data |-> data, len1 |-> len1,
                         len2 |-> len2, end |-> end]
  BY DEF Locate, LocateInRingBuf, MsgEnd, m
<1>. HIDE DEF data, len1, len2, end
<1>. QED  BY <1>1, <1>2, <1>3, <1>4

(* Seq is an integer.                                                      *)
LEMMA SeqOfType ==
  ASSUME NEW idx \in Nat, NEW rest \in Nat
  PROVE  SeqOf(idx, rest, PacketSize) \in Int
PROOF
<1>. DEFINE x == rest + PacketSize - 1
<1>1. x \in Int  BY SendPathAssumption
<1>. HIDE DEF x
<1>2. x \div PacketSize \in Int  BY <1>1, SendPathAssumption
<1>3. NumPckts(rest, PacketSize) \in Int  BY <1>2 DEF NumPckts, x
<1>. QED  BY <1>3 DEF SeqOf

(* What ProcessSendQ and ReadRmtEdge post are requests.                    *)
LEMMA RequestType ==
  /\ ReadReq \in Request
  /\ \A cells \in SUBSET Int : WriteReq(cells) \in Request
PROOF BY DEF Request, ReadReq, WriteReq

(* The two writes of a frame cover sets of offsets.                        *)
LEMMA WritesType ==
  ASSUME NEW f \in [start : Nat, data : Nat, len1 : Nat, len2 : Nat, end : Nat],
         NEW size \in Nat
  PROVE  FirstWrite(f, size) \in SUBSET Int /\ SecondWrite(f) \in SUBSET Int
PROOF BY DEF FirstWrite, SecondWrite, MsgEnd

(* The local ring holds cells after a frame was put down.                  *)
LEMMA PutFrameType ==
  ASSUME TypeOK, NEW m \in Msgs, NEW rest \in Nat
  PROVE  PutFrame(m, mSndIdx, rest) \in [Offsets -> Cell]
PROOF
<1>. DEFINE size == PktSize(rest, PacketSize)
            f == Locate(sndWriteEdge, size)
            first == mSndIdx * PacketSize
            seq == SeqOf(mSndIdx, rest, PacketSize)
<1>1. size \in Nat /\ size >= 2  BY PktSizeType
<1>2. f \in [start : Nat, data : Nat, len1 : Nat, len2 : Nat, end : Nat]
  BY <1>1, LocateType DEF TypeOK, EdgeType, QueueType
<1>3. first \in Nat
  <2>1. mSndIdx \in Nat  BY DEF TypeOK, EdgeType, QueueType
  <2>. QED  BY <2>1, SendPathAssumption
<1>4. seq \in Int  BY SeqOfType DEF TypeOK, EdgeType, QueueType
<1>5. sndBuf \in [Offsets -> Cell] /\ Offsets \subseteq Nat
  <2>1. sndBuf \in [Offsets -> Cell]  BY DEF TypeOK, EdgeType, QueueType
  <2>2. Offsets \subseteq Nat  BY SendPathAssumption DEF Offsets
  <2>. QED  BY <2>1, <2>2
<1>. HIDE DEF f, first, seq, size
<1>6. End(m, rest, seq) \in Cell  BY <1>4 DEF End, Cell
<1>7. ASSUME NEW k \in Nat  PROVE Unit(m, k) \in Cell  BY DEF Unit, Cell
<1>8. PutFrame(m, mSndIdx, rest) =
        [ c \in Offsets |->
          IF c \in {f.start, f.end} THEN End(m, rest, seq)
          ELSE IF c \in f.data .. f.data + f.len1 - 1
            THEN Unit(m, first + (c - f.data))
          ELSE IF c < f.len2 THEN Unit(m, first + f.len1 + c)
          ELSE sndBuf[c] ]
  BY DEF PutFrame, f, first, seq, size
<1>9. ASSUME NEW c \in Offsets
      PROVE  (IF c \in {f.start, f.end} THEN End(m, rest, seq)
              ELSE IF c \in f.data .. f.data + f.len1 - 1
                THEN Unit(m, first + (c - f.data))
              ELSE IF c < f.len2 THEN Unit(m, first + f.len1 + c)
              ELSE sndBuf[c]) \in Cell
  <2>1. CASE c \in {f.start, f.end}  BY <2>1, <1>6
  <2>2. CASE c \notin {f.start, f.end} /\ c \in f.data .. f.data + f.len1 - 1
    <3>1. first + (c - f.data) \in Nat  BY <1>2, <1>3, <1>5, <2>2
    <3>. QED  BY <2>2, <3>1, <1>7
  <2>3. CASE c \notin {f.start, f.end} /\ c \notin f.data .. f.data + f.len1 - 1
    <3>1. first + f.len1 + c \in Nat  BY <1>2, <1>3, <1>5
    <3>. QED  BY <2>3, <3>1, <1>5, <1>7
  <2>. QED  BY <2>1, <2>2, <2>3
<1>. QED  BY <1>8, <1>9

(* The peer reads within its ring.                                         *)
LEMMA RcvPosType ==
  ASSUME PeerType, NEW i \in Int
  PROVE  RcvPos(i) \in Offsets
PROOF
<1>. DEFINE x == rmtWriteEdge + i
<1>1. x \in Int  BY DEF PeerType
<1>. HIDE DEF x
<1>2. x % BufSize \in 0 .. BufSize - 1  BY <1>1, SendPathAssumption
<1>. QED  BY <1>2 DEF RcvPos, RingPos, Offsets, x

(* The number of posted reads is a natural number.                         *)
LEMMA ReadsPostedType ==
  ASSUME NicType
  PROVE  ReadsPosted \in Nat
PROOF
<1>1. Len(wire) \in Nat  BY DEF NicType
<1>2. IsFiniteSet(1 .. Len(wire))  BY <1>1, FS_Interval
<1>3. IsFiniteSet({i \in 1 .. Len(wire) : wire[i].op = "read"})
  BY <1>2, FS_Subset
<1>. QED  BY <1>3, FS_CardinalityType DEF ReadsPosted

(* A cleared unit is a ring unit.                                          *)
LEMMA ZeroType == Zero \in Cell
PROOF BY DEF Zero, Cell

(* What SendTop takes is a message, and what is left of it is not negative. *)
LEMMA TopOutcome ==
  ASSUME SenderInv, NEW t \in Workers, pc[t] = "top", NEW m \in BackOutcomes
  PROVE  m \in Msgs /\ MsgSize[m] - mSndIdx * PacketSize \in Nat
PROOF
<1>1. sndQue # <<>>  BY DEF SenderInv, SenderExclusive, Sending
<1>2. sndQue \in Seq(Msgs)  BY DEF SenderInv, TypeOK, QueueType
<1>3. Head(sndQue) \in Msgs /\ \A i \in 1 .. Len(sndQue) : sndQue[i] \in Msgs
  BY <1>1, <1>2, SeqTypes
<1>4. sndLock # NoThread => loc[sndLock].req \in Msgs
  BY DEF SenderInv, TypeOK, QueueType, LocalsOK, Labels
<1>5. m \in Msgs /\ mSndIdx * PacketSize <= MsgSize[m]
  BY <1>3, <1>4 DEF BackOutcomes, Takeable
<1>6. mSndIdx * PacketSize \in Nat
  <2>1. mSndIdx \in Nat  BY DEF SenderInv, TypeOK, QueueType
  <2>. QED  BY <2>1, SendPathAssumption
<1>7. MsgSize[m] \in Nat  BY <1>5, SendPathAssumption
<1>. QED  BY <1>5, <1>6, <1>7

(* What a step leaves alone keeps its type.                                *)
LEMMA TypeFrame ==
  /\ QueueType /\ UNCHANGED queueVars => QueueType'
  /\ EdgeType /\ UNCHANGED edgeVars => EdgeType'
  /\ LinkType /\ UNCHANGED linkVars => LinkType'
  /\ NicType /\ UNCHANGED nicVars => NicType'
  /\ PeerType /\ UNCHANGED peerVars => PeerType'
  /\ HistType /\ UNCHANGED histVars => HistType'
  /\ ThreadType /\ UNCHANGED threadVars => ThreadType'
PROOF
  BY DEF QueueType, EdgeType, LinkType, NicType, PeerType, HistType, ThreadType,
         queueVars, edgeVars, linkVars, nicVars, peerVars, histVars, threadVars

(* Every step preserves the types.                                         *)
LEMMA TypeStep ==
  ASSUME SenderInv, [Next]_vars
  PROVE  TypeOK'
PROOF
<1>q. QueueType  BY DEF SenderInv, TypeOK
<1>e. EdgeType  BY DEF SenderInv, TypeOK
<1>l. LinkType  BY DEF SenderInv, TypeOK
<1>n. NicType  BY DEF SenderInv, TypeOK
<1>p. PeerType  BY DEF SenderInv, TypeOK
<1>h. HistType  BY DEF SenderInv, TypeOK
<1>t. ThreadType  BY DEF SenderInv, TypeOK
<1>a. TypeOK  BY DEF SenderInv
<1>r. pendingRead \in Int  BY <1>a DEF TypeOK
<1>b. BufSize \in Nat  BY SendPathAssumption
<1>x. SenderExclusive /\ LocalsOK  BY DEF SenderInv
<1>. USE DEF Workers
<1>1. ASSUME NEW t \in Threads, NEW m \in Msgs, SendBegin(t, m)
      PROVE  TypeOK'
  <2>1. QueueType'  BY <1>1, <1>q DEF QueueType, SendBegin, queueVars
  <2>2. HistType'  BY <1>1, <1>h DEF HistType, SendBegin, histVars
  <2>3. ThreadType'
    BY <1>1, <1>t DEF ThreadType, SendBegin, threadVars, Goto, Forget, Labels,
       NoLocals
  <2>. QED  BY <1>1, <2>1, <2>2, <2>3, TypeFrame, <1>a DEF TypeOK, SendBegin
<1>2. ASSUME NEW t \in Threads, SendInsert(t)
      PROVE  TypeOK'
  <2>1. QueueType'
    <3>1. loc[t].req \in Msgs  BY <1>2, <1>x DEF LocalsOK, Labels, SendInsert
    <3>2. Append(sndQue, loc[t].req) \in Seq(Msgs)
      BY <3>1, SeqTypes, <1>q DEF QueueType
    <3>. QED  BY <1>2, <3>2, <1>q DEF QueueType, SendInsert
  <2>2. HistType'
    <3>1. loc[t].req \in Msgs  BY <1>2, <1>x DEF LocalsOK, Labels, SendInsert
    <3>2. Append(accepted, loc[t].req) \in Seq(Msgs)
      BY <3>1, SeqTypes, <1>h DEF HistType
    <3>. QED  BY <1>2, <3>2, <1>h DEF HistType, SendInsert
  <2>3. ThreadType'
    BY <1>2, <1>t DEF ThreadType, SendInsert, threadVars, Goto, Forget,
       Labels, NoLocals
  <2>. QED  BY <1>2, <2>1, <2>2, <2>3, TypeFrame, <1>a DEF TypeOK, SendInsert
<1>3. ASSUME NEW t \in Workers, SendTop(t)
      PROVE  TypeOK'
  <2>0. PICK m \in BackOutcomes :
          LET rest == MsgSize[m] - mSndIdx * PacketSize
              size == PktSize(rest, PacketSize)
          IN  /\ loc' = [loc EXCEPT ![t] =
                           [req |-> m, rest |-> rest, edge |-> sndWriteEdge]]
              /\ \/ UNCHANGED edgeVars /\ Goto(t, "full")
                 \/ /\ sndBuf' = PutFrame(m, mSndIdx, rest)
                    /\ sndWriteEdge' = sndWriteEdge + size
                    /\ UNCHANGED sndTrailingEdge
                    /\ Goto(t, "token")
    BY <1>3 DEF SendTop
  <2>. DEFINE rest == MsgSize[m] - mSndIdx * PacketSize
  <2>m. m \in Msgs /\ rest \in Nat
    BY <1>3, TopOutcome DEF SendTop, SenderInv
  <2>. HIDE DEF rest
  <2>1. EdgeType'
    <3>1. PktSize(rest, PacketSize) \in Nat  BY <2>m, PktSizeType
    <3>2. PutFrame(m, mSndIdx, rest) \in [Offsets -> Cell]
      BY <2>m, <1>a, PutFrameType
    <3>. QED  BY <2>0, <3>1, <3>2, <1>e DEF EdgeType, edgeVars, rest
  <2>2. ThreadType'
    <3>1. [req |-> m, rest |-> rest, edge |-> sndWriteEdge]
            \in [req : Msgs \cup {NoMsg}, rest : Nat, edge : Nat]
      BY <2>m, <1>e DEF EdgeType
    <3>2. loc' = [loc EXCEPT ![t] =
                   [req |-> m, rest |-> rest, edge |-> sndWriteEdge]]
      BY <2>0 DEF rest
    <3>3. loc' \in [Workers ->
                    [req : Msgs \cup {NoMsg}, rest : Nat, edge : Nat]]
      BY <3>1, <3>2, <1>t DEF ThreadType
    <3>4. pc' \in [Workers -> Labels]
      BY <2>0, <1>t DEF ThreadType, Goto, Labels
    <3>. QED  BY <3>3, <3>4, <1>t DEF ThreadType
  <2>. QED  BY <1>3, <2>1, <2>2, TypeFrame, <1>a DEF TypeOK, SendTop
<1>4. ASSUME NEW t \in Workers, SendFull(t)
      PROVE  TypeOK'
  <2>1. QueueType'  BY <1>4, <1>q DEF QueueType, SendFull, queueVars
  <2>2. ThreadType'
    BY <1>4, <1>t DEF ThreadType, SendFull, threadVars, Goto, Forget, Labels,
       NoLocals
  <2>. QED  BY <1>4, <2>1, <2>2, TypeFrame, <1>a DEF TypeOK, SendFull
<1>5. ASSUME NEW t \in Workers, SendToken(t)
      PROVE  TypeOK'
  <2>1. QueueType'  BY <1>5, <1>q DEF QueueType, SendToken, queueVars
  <2>2. ThreadType'
    <3>1. CASE open
      BY <1>5, <3>1, <1>t DEF ThreadType, SendToken, Goto, Labels
    <3>2. CASE ~ open
      BY <1>5, <3>2, <1>t DEF ThreadType, SendToken, Goto, Forget, Labels,
         NoLocals
    <3>. QED  BY <3>1, <3>2
  <2>. QED  BY <1>5, <2>1, <2>2, TypeFrame, <1>a DEF TypeOK, SendToken
<1>6. ASSUME NEW t \in Workers, SendWrite(t)
      PROVE  TypeOK'
  <2>1. NicType'
    <3>. DEFINE size == PktSize(loc[t].rest, PacketSize)
                f == Locate(loc[t].edge, size)
                one == WriteReq(FirstWrite(f, size))
                two == WriteReq(SecondWrite(f))
    <3>1. loc[t].rest \in Nat /\ loc[t].edge \in Nat  BY <1>t DEF ThreadType
    <3>2. size \in Nat /\ size >= 2  BY <3>1, PktSizeType
    <3>3. f \in [start : Nat, data : Nat, len1 : Nat, len2 : Nat, end : Nat]
      BY <3>1, <3>2, LocateType
    <3>4. one \in Request /\ two \in Request
      BY <3>2, <3>3, WritesType, RequestType
    <3>5. wire' = IF ~ qpUp THEN wire
                  ELSE IF IsSplit(f) THEN wire \o <<one, two>>
                  ELSE Append(wire, one)
      BY <1>6 DEF SendWrite
    <3>. HIDE DEF size, f, one, two
    <3>6. <<one, two>> \in Seq(Request)  BY <3>4
    <3>7. wire' \in Seq(Request)
      BY <3>4, <3>5, <3>6, SeqTypes, <1>n DEF NicType
    <3>. QED  BY <1>6, <3>7, <1>n DEF NicType, SendWrite
  <2>2. ThreadType'
    BY <1>6, <1>t DEF ThreadType, SendWrite, threadVars, Goto, Forget, Labels,
       NoLocals
  <2>. QED  BY <1>6, <2>1, <2>2, TypeFrame, <1>a DEF TypeOK, SendWrite
<1>7. ASSUME NEW t \in Workers, ReadRmtEdge(t, "edge", "read", "next")
      PROVE  TypeOK'
  <2>1. ThreadType'
    BY <1>7, <1>t DEF ThreadType, ReadRmtEdge, threadVars, Goto, Forget,
       Labels, NoLocals
  <2>. QED  BY <1>7, <2>1, TypeFrame, <1>a DEF TypeOK, ReadRmtEdge
<1>8. ASSUME NEW t \in Workers, IssueRead(t, "read", "next")
      PROVE  TypeOK'
  <2>1. NicType'
    <3>1. Append(wire, ReadReq) \in Seq(Request)
      BY RequestType, SeqTypes, <1>n DEF NicType
    <3>. QED  BY <1>8, <3>1, <1>n DEF NicType, IssueRead
  <2>2. ThreadType'
    BY <1>8, <1>t DEF ThreadType, IssueRead, threadVars, Goto, Forget, Labels,
       NoLocals
  <2>9. pendingRead' \in Int  BY <1>8, <1>r DEF IssueRead
  <2>. QED  BY <1>8, <2>9, <2>1, <2>2, TypeFrame, <1>a DEF TypeOK, IssueRead
<1>9. ASSUME NEW t \in Workers, ReadRmtEdge(t, "fullEdge", "fullRead", "idle")
      PROVE  TypeOK'
  <2>1. ThreadType'
    BY <1>9, <1>t DEF ThreadType, ReadRmtEdge, threadVars, Goto, Forget,
       Labels, NoLocals
  <2>. QED  BY <1>9, <2>1, TypeFrame, <1>a DEF TypeOK, ReadRmtEdge
<1>10. ASSUME NEW t \in Workers, IssueRead(t, "fullRead", "idle")
      PROVE  TypeOK'
  <2>1. NicType'
    <3>1. Append(wire, ReadReq) \in Seq(Request)
      BY RequestType, SeqTypes, <1>n DEF NicType
    <3>. QED  BY <1>10, <3>1, <1>n DEF NicType, IssueRead
  <2>2. ThreadType'
    BY <1>10, <1>t DEF ThreadType, IssueRead, threadVars, Goto, Forget,
       Labels, NoLocals
  <2>9. pendingRead' \in Int  BY <1>10, <1>r DEF IssueRead
  <2>. QED  BY <1>10, <2>9, <2>1, <2>2, TypeFrame, <1>a DEF TypeOK, IssueRead
<1>11. ASSUME NEW t \in Workers, SendNext(t)
      PROVE  TypeOK'
  <2>1. QueueType'
    <3>1. mSndIdx' \in Nat  BY <1>11, <1>q DEF SendNext, NextIdx, QueueType
    <3>. QED  BY <1>11, <3>1, <1>q DEF QueueType, SendNext
  <2>2. HistType'
    <3>1. loc[t].req \in Msgs  BY <1>11, <1>x DEF LocalsOK, Labels, SendNext
    <3>2. Append(completed, loc[t].req) \in Seq(Msgs)
      BY <3>1, SeqTypes, <1>h DEF HistType
    <3>. QED  BY <1>11, <3>2, <1>h DEF HistType, SendNext
  <2>3. ThreadType'
    BY <1>11, <1>t DEF ThreadType, SendNext, threadVars, Goto, Forget, Labels,
       NoLocals
  <2>. QED  BY <1>11, <2>1, <2>2, <2>3, TypeFrame, <1>a DEF TypeOK, SendNext
<1>12. ASSUME NEW t \in Workers, SendPop(t)
      PROVE  TypeOK'
  <2>1. QueueType'
    <3>1. sndQue # <<>>  BY <1>12, <1>x DEF SendPop, SenderExclusive, Sending
    <3>2. Tail(sndQue) \in Seq(Msgs) /\ Len(sndQue) \in Nat
      BY <3>1, SeqTypes, <1>q DEF QueueType
    <3>3. (Len(sndQue) > 1) \in BOOLEAN  OBVIOUS
    <3>. QED  BY <1>12, <3>2, <3>3, <1>q DEF QueueType, SendPop
  <2>2. ThreadType'
    BY <1>12, <1>t DEF ThreadType, SendPop, threadVars, Goto, Forget, Labels,
       NoLocals
  <2>. QED
    BY <1>12, <2>1, <2>2, TypeFrame, <1>a DEF TypeOK, SendPop, RaceDetected
<1>13. ASSUME CompleteRead  PROVE TypeOK'
  <2>1. NicType'
    <3>1. cq - 1 \in Nat  BY <1>13, <1>n DEF NicType, CompleteRead
    <3>. QED  BY <1>13, <3>1, <1>n DEF NicType, CompleteRead
  <2>2. ThreadType'
    BY <1>13, <1>t DEF ThreadType, CompleteRead, threadVars, Goto, Forget,
       Labels, NoLocals
  <2>9. pendingRead' \in Int  BY <1>13, <1>r DEF CompleteRead
  <2>. QED
    BY <1>13, <2>9, <2>1, <2>2, TypeFrame, <1>a DEF TypeOK, CompleteRead
<1>14. ASSUME ResumeSend  PROVE TypeOK'
  <2>1. QueueType'  BY <1>14, <1>q DEF QueueType, ResumeSend, queueVars
  <2>2. ThreadType'
    BY <1>14, <1>t DEF ThreadType, ResumeSend, threadVars, Goto, Forget,
       Labels, NoLocals
  <2>. QED  BY <1>14, <2>1, <2>2, TypeFrame, <1>a DEF TypeOK, ResumeSend
<1>15. ASSUME NicWrite  PROVE TypeOK'
  <2>1. NicType'
    <3>1. Tail(wire) \in Seq(Request)
      BY <1>15, SeqTypes, <1>n DEF NicType, NicWrite
    <3>. QED  BY <1>15, <3>1, <1>n DEF NicType, NicWrite
  <2>2. PeerType'
    <3>1. rmtBuf' \in [Offsets -> Cell]
      BY <1>15, <1>p, <1>e DEF PeerType, EdgeType, NicWrite
    <3>. QED  BY <1>15, <3>1, <1>p DEF PeerType, NicWrite
  <2>. QED  BY <1>15, <2>1, <2>2, TypeFrame, <1>a DEF TypeOK, NicWrite
<1>16. ASSUME NicRead  PROVE TypeOK'
  <2>1. NicType'
    <3>1. Tail(wire) \in Seq(Request)
      BY <1>16, SeqTypes, <1>n DEF NicType, NicRead
    <3>2. Append(resp, rmtTrailingEdge) \in Seq(Nat)
      BY SeqTypes, <1>n, <1>p DEF NicType, PeerType
    <3>. QED  BY <1>16, <3>1, <3>2, <1>n DEF NicType, NicRead
  <2>. QED  BY <1>16, <2>1, TypeFrame, <1>a DEF TypeOK, NicRead
<1>17. ASSUME NicReadLands  PROVE TypeOK'
  <2>1. EdgeType'
    <3>1. Head(resp) \in Nat
      BY <1>17, SeqTypes, <1>n DEF NicType, NicReadLands
    <3>. QED  BY <1>17, <3>1, <1>e DEF EdgeType, NicReadLands
  <2>2. NicType'
    <3>1. Tail(resp) \in Seq(Nat)
      BY <1>17, SeqTypes, <1>n DEF NicType, NicReadLands
    <3>. QED  BY <1>17, <3>1, <1>n DEF NicType, NicReadLands
  <2>. QED  BY <1>17, <2>1, <2>2, TypeFrame, <1>a DEF TypeOK, NicReadLands
<1>18. ASSUME Receive  PROVE TypeOK'
  <2>. DEFINE m     == RcvHeader.msg
              seq   == RcvHeader.seq
              size  == PktSize(RcvHeader.num, PacketSize)
              data  == [i \in 1 .. size - 2 * MsgEnd |-> rmtBuf[RcvPos(i)]]
              units == IF seq <= 0 THEN data ELSE rcvUnits \o data
              total == IF seq < 0 THEN 0 - seq ELSE rcvSize
              idx   == IF seq < 0 THEN 1 ELSE rcvIdx + 1
              whole == seq = 0 \/ idx = total
  <2>1. PeerType'
    <3>1. RcvHeader \in Cell  BY RcvPosType, <1>p DEF RcvHeader, PeerType
    <3>2. seq \in Int /\ RcvHeader.num \in Nat  BY <3>1 DEF Cell
    <3>3. size \in Nat /\ size - 2 * MsgEnd \in Nat  BY <3>2, PktSizeType
    <3>4. data \in Seq(Cell)
      <4>1. \A i \in 1 .. size - 2 * MsgEnd : rmtBuf[RcvPos(i)] \in Cell
        BY RcvPosType, <1>p DEF PeerType
      <4>. HIDE DEF size
      <4>. QED  BY <3>3, <4>1
    <3>5. /\ rmtBuf' = [c \in Offsets |->
                          IF c \in {RcvPos(i) : i \in 0 .. size - 1}
                            THEN Zero ELSE rmtBuf[c]]
          /\ rmtWriteEdge' = rmtWriteEdge + size
          /\ rmtTrailingEdge' = rmtTrailingEdge + size
          /\ rcvIdx' = IF whole THEN 0 ELSE idx
          /\ rcvSize' = IF whole THEN 0 ELSE total
          /\ rcvUnits' = IF whole THEN <<>> ELSE units
      BY <1>18 DEF Receive
    <3>. HIDE DEF data, size, seq, whole
    <3>6. rmtBuf' \in [Offsets -> Cell]  BY <3>5, ZeroType, <1>p DEF PeerType
    <3>7. units \in Seq(Cell)  BY <3>4, SeqTypes, <1>p DEF PeerType
    <3>8. idx \in Int /\ total \in Int  BY <3>2, <1>p DEF PeerType
    <3>. HIDE DEF units, idx, total
    <3>9. rcvUnits' \in Seq(Cell) /\ rcvIdx' \in Int /\ rcvSize' \in Int
      BY <3>5, <3>7, <3>8
    <3>10. rmtWriteEdge' \in Nat /\ rmtTrailingEdge' \in Nat
      BY <3>3, <3>5, <1>p DEF PeerType
    <3>. QED  BY <3>6, <3>9, <3>10, <1>p DEF PeerType
  <2>2. HistType'
    <3>1. RcvHeader \in Cell  BY RcvPosType, <1>p DEF RcvHeader, PeerType
    <3>2. m \in Msgs \cup {NoMsg}  BY <3>1 DEF Cell
    <3>3. Reassembled(m, units) \in Msgs \cup {NoMsg}  BY <3>2 DEF Reassembled
    <3>4. delivered' = IF ~ whole THEN delivered
                       ELSE Append(delivered,
                                   IF seq <= 0 \/ seq = rcvIdx
                                     THEN Reassembled(m, units) ELSE NoMsg)
      BY <1>18 DEF Receive
    <3>. HIDE DEF m, units, whole, seq
    <3>5. delivered' \in Seq(Msgs \cup {NoMsg})
      BY <3>3, <3>4, SeqTypes, <1>h DEF HistType
    <3>. QED  BY <1>18, <3>5, <1>h DEF HistType, Receive
  <2>. QED  BY <1>18, <2>1, <2>2, TypeFrame, <1>a DEF TypeOK, Receive
<1>19. ASSUME Disconnect  PROVE TypeOK'
  <2>1. LinkType'  BY <1>19, <1>l DEF LinkType, Disconnect, linkVars
  <2>2. NicType'
    <3>1. cq + Len(resp) + ReadsPosted \in Nat
      BY ReadsPostedType, SeqTypes, <1>n DEF NicType
    <3>2. wire' \in Seq(Request) /\ resp' \in Seq(Nat)  BY <1>19 DEF Disconnect
    <3>. QED  BY <1>19, <3>1, <3>2, <1>n DEF NicType, Disconnect
  <2>. QED  BY <1>19, <2>1, <2>2, TypeFrame, <1>a DEF TypeOK, Disconnect
<1>20. ASSUME CloseTerminal  PROVE TypeOK'
  <2>1. LinkType'  BY <1>20, <1>l DEF LinkType, CloseTerminal, linkVars
  <2>. QED  BY <1>20, <2>1, TypeFrame, <1>a DEF TypeOK, CloseTerminal
<1>21. ASSUME StartTerminal  PROVE TypeOK'
  <2>1. QueueType'
    <3>1. sndQue' \in Seq(Msgs)  BY <1>21 DEF StartTerminal
    <3>. QED  BY <1>21, <3>1, <1>q DEF QueueType, StartTerminal
  <2>2. EdgeType'
    <3>1. sndTrailingEdge' \in Nat  BY <1>21, <1>b DEF StartTerminal
    <3>. QED  BY <1>21, <3>1, <1>e DEF EdgeType, StartTerminal
  <2>3. LinkType'
    <3>1. conns' \in Nat  BY <1>21, <1>l DEF StartTerminal, LinkType
    <3>. QED  BY <1>21, <3>1, <1>l DEF LinkType, StartTerminal
  <2>4. NicType'
    <3>1. <<>> \in Seq(Request) /\ <<>> \in Seq(Nat)  OBVIOUS
    <3>. QED  BY <1>21, <3>1, <1>n DEF NicType, StartTerminal
  <2>5. PeerType'
    <3>1. rmtBuf' \in [Offsets -> Cell]  BY <1>21, ZeroType DEF StartTerminal
    <3>2. rcvUnits' \in Seq(Cell)  BY <1>21 DEF StartTerminal
    <3>3. rmtTrailingEdge' \in Nat  BY <1>21, <1>b DEF StartTerminal
    <3>. QED  BY <1>21, <3>1, <3>2, <3>3, <1>p DEF PeerType, StartTerminal
  <2>6. HistType'
    <3>1. <<>> \in Seq(Msgs) /\ <<>> \in Seq(Msgs \cup {NoMsg})  OBVIOUS
    <3>. QED  BY <1>21, <3>1, <1>h DEF HistType, StartTerminal
  <2>. QED
    BY <1>21, <2>1, <2>2, <2>3, <2>4, <2>5, <2>6, TypeFrame, <1>a DEF TypeOK,
       StartTerminal
<1>22. ASSUME UNCHANGED vars  PROVE TypeOK'
  <2>. QED  BY <1>22, TypeFrame, <1>a DEF TypeOK, vars
<1>. QED
  BY <1>1, <1>2, <1>3, <1>4, <1>5, <1>6, <1>7, <1>8, <1>9, <1>10,
     <1>11, <1>12, <1>13, <1>14, <1>15, <1>16, <1>17, <1>18, <1>19, <1>20,
     <1>21, <1>22
     DEF Next, Running, ProcessSendQ, VerbCompletion, Nic, Rest, Dead

(* Every step preserves the exclusivity of the sender.                     *)
LEMMA SenderStep ==
  ASSUME SenderInv, [Next]_vars
  PROVE  SenderExclusive'
PROOF
<1>. USE DEF Workers
<1>p. pc \in [Workers -> Labels]  BY DEF SenderInv, TypeOK, ThreadType
<1>l. loc \in [Workers -> [req : Msgs \cup {NoMsg}, rest : Nat, edge : Nat]]
  BY DEF SenderInv, TypeOK, ThreadType
<1>r. sndRunning \in BOOLEAN /\ sndLock \in Workers \cup {NoThread}
  BY DEF SenderInv, TypeOK, QueueType
<1>q. sndQue \in Seq(Msgs)  BY DEF SenderInv, TypeOK, QueueType
<1>x. SenderExclusive  BY DEF SenderInv
<1>y. LocalsOK  BY DEF SenderInv
<1>1. ASSUME NEW t \in Threads, NEW m \in Msgs, SendBegin(t, m)
      PROVE  SenderExclusive'
  BY <1>1, <1>x, <1>p DEF SenderExclusive, Sending, SendBegin, Goto, queueVars,
     threadVars
<1>2. ASSUME NEW t \in Threads, SendInsert(t)
      PROVE  SenderExclusive'
  BY <1>2, <1>x, <1>p, <1>q DEF SenderExclusive, Sending, SendInsert, Goto,
     BecomesSender
<1>3. ASSUME NEW t \in Workers, SendTop(t)
      PROVE  SenderExclusive'
  BY <1>3, <1>x, <1>p DEF SenderExclusive, Sending, SendTop, Goto, queueVars,
     threadVars
<1>4. ASSUME NEW t \in Workers, SendFull(t)
      PROVE  SenderExclusive'
  BY <1>4, <1>x, <1>p, <1>q DEF SenderExclusive, Sending, SendFull, Goto,
     BecomesSender
<1>5. ASSUME NEW t \in Workers, SendToken(t)
      PROVE  SenderExclusive'
  BY <1>5, <1>x, <1>p DEF SenderExclusive, Sending, SendToken, Goto, queueVars,
     threadVars
<1>6. ASSUME NEW t \in Workers, SendWrite(t)
      PROVE  SenderExclusive'
  BY <1>6, <1>x, <1>p DEF SenderExclusive, Sending, SendWrite, Goto, queueVars,
     threadVars
<1>7. ASSUME NEW t \in Workers, ReadRmtEdge(t, "edge", "read", "next")
      PROVE  SenderExclusive'
  BY <1>7, <1>x, <1>p DEF SenderExclusive, Sending, ReadRmtEdge, Goto,
     queueVars, threadVars
<1>8. ASSUME NEW t \in Workers, IssueRead(t, "read", "next")
      PROVE  SenderExclusive'
  BY <1>8, <1>x, <1>p DEF SenderExclusive, Sending, IssueRead, Goto, queueVars,
     threadVars
<1>9. ASSUME NEW t \in Workers, ReadRmtEdge(t, "fullEdge", "fullRead", "idle")
      PROVE  SenderExclusive'
  BY <1>9, <1>x, <1>p DEF SenderExclusive, Sending, ReadRmtEdge, Goto,
     queueVars, threadVars
<1>10. ASSUME NEW t \in Workers, IssueRead(t, "fullRead", "idle")
      PROVE  SenderExclusive'
  BY <1>10, <1>x, <1>p DEF SenderExclusive, Sending, IssueRead, Goto,
     queueVars, threadVars
<1>11. ASSUME NEW t \in Workers, SendNext(t)
      PROVE  SenderExclusive'
  BY <1>11, <1>x, <1>p DEF SenderExclusive, Sending, SendNext, Goto, queueVars,
     threadVars
<1>12. ASSUME NEW t \in Workers, SendPop(t)
      PROVE  SenderExclusive'
  <2>1. sndQue # <<>> /\ Sending(t)
    BY <1>12, <1>x DEF SenderExclusive, Sending, SendPop
  <2>2. CASE Len(sndQue) > 1
    <3>1. Tail(sndQue) # <<>>  BY <1>q, <2>2, TailNonEmpty
    <3>2. sndRunning' /\ sndQue' # <<>> /\ Goto(t, "top")
      BY <1>12, <2>2, <3>1 DEF SendPop
    <3>. QED
      BY <1>12, <1>x, <1>p, <2>1, <3>2 DEF SenderExclusive, Sending, Goto
  <2>3. CASE ~ (Len(sndQue) > 1)
    <3>1. ~ sndRunning' /\ Goto(t, "idle")  BY <1>12, <2>3 DEF SendPop
    <3>. QED
      BY <1>12, <1>x, <1>p, <2>1, <3>1 DEF SenderExclusive, Sending, Goto
  <2>. QED  BY <2>2, <2>3
<1>13. ASSUME CompleteRead  PROVE SenderExclusive'
  BY <1>13, <1>x, <1>p DEF SenderExclusive, Sending, CompleteRead, Goto,
     queueVars, threadVars
<1>14. ASSUME ResumeSend  PROVE SenderExclusive'
  BY <1>14, <1>x, <1>p, <1>q DEF SenderExclusive, Sending, ResumeSend, Goto,
     BecomesSender
<1>15. ASSUME NicWrite  PROVE SenderExclusive'
  BY <1>15, <1>x DEF SenderExclusive, Sending, NicWrite, queueVars, threadVars
<1>16. ASSUME NicRead  PROVE SenderExclusive'
  BY <1>16, <1>x DEF SenderExclusive, Sending, NicRead, queueVars, threadVars
<1>17. ASSUME NicReadLands  PROVE SenderExclusive'
  BY <1>17, <1>x DEF SenderExclusive, Sending, NicReadLands, queueVars,
     threadVars
<1>18. ASSUME Receive  PROVE SenderExclusive'
  BY <1>18, <1>x DEF SenderExclusive, Sending, Receive, queueVars, threadVars
<1>19. ASSUME Disconnect  PROVE SenderExclusive'
  BY <1>19, <1>x DEF SenderExclusive, Sending, Disconnect, queueVars, threadVars
<1>20. ASSUME CloseTerminal  PROVE SenderExclusive'
  BY <1>20, <1>x DEF SenderExclusive, Sending, CloseTerminal, queueVars,
     threadVars
<1>21. ASSUME StartTerminal  PROVE SenderExclusive'
  BY <1>21, <1>x DEF SenderExclusive, Sending, StartTerminal, threadVars
<1>22. ASSUME UNCHANGED vars  PROVE SenderExclusive'
  BY <1>22, <1>x DEF SenderExclusive, Sending, vars, queueVars, threadVars
<1>. QED
  BY <1>1, <1>2, <1>3, <1>4, <1>5, <1>6, <1>7, <1>8, <1>9, <1>10,
     <1>11, <1>12, <1>13, <1>14, <1>15, <1>16, <1>17, <1>18, <1>19, <1>20,
     <1>21, <1>22
     DEF Next, Running, ProcessSendQ, VerbCompletion, Nic, Rest, Dead

(* Every step preserves what is known of locals and lock holder.           *)
LEMMA LocalsStep ==
  ASSUME SenderInv, [Next]_vars
  PROVE  LocalsOK'
PROOF
<1>. USE DEF Workers
<1>p. pc \in [Workers -> Labels]  BY DEF SenderInv, TypeOK, ThreadType
<1>l. loc \in [Workers -> [req : Msgs \cup {NoMsg}, rest : Nat, edge : Nat]]
  BY DEF SenderInv, TypeOK, ThreadType
<1>r. sndRunning \in BOOLEAN /\ sndLock \in Workers \cup {NoThread}
  BY DEF SenderInv, TypeOK, QueueType
<1>q. sndQue \in Seq(Msgs)  BY DEF SenderInv, TypeOK, QueueType
<1>x. SenderExclusive  BY DEF SenderInv
<1>y. LocalsOK  BY DEF SenderInv
<1>1. ASSUME NEW t \in Threads, NEW m \in Msgs, SendBegin(t, m)
      PROVE  LocalsOK'
  BY <1>1, <1>y, <1>p, <1>l, <1>r, SendPathAssumption DEF LocalsOK, SendBegin,
     Goto, Forget, queueVars
<1>2. ASSUME NEW t \in Threads, SendInsert(t)
      PROVE  LocalsOK'
  BY <1>2, <1>y, <1>p, <1>l, <1>r, SendPathAssumption DEF LocalsOK, SendInsert,
     Goto, Forget, queueVars
<1>3. ASSUME NEW t \in Workers, SendTop(t)
      PROVE  LocalsOK'
  <2>1. PICK m \in BackOutcomes :
          loc' = [loc EXCEPT ![t] = [req |-> m,
                    rest |-> MsgSize[m] - mSndIdx * PacketSize,
                    edge |-> sndWriteEdge]]
    BY <1>3 DEF SendTop
  <2>2. m \in Msgs  BY <1>3, TopOutcome DEF SendTop
  <2>3. \A u \in Workers \ {t} : pc'[u] = pc[u] /\ loc'[u] = loc[u]
    BY <1>3, <2>1, <1>p, <1>l DEF SendTop, Goto
  <2>4. loc'[t].req \in Msgs  BY <2>1, <2>2, <1>l
  <2>5. pc[t] = "top" /\ sndLock' = sndLock  BY <1>3 DEF SendTop, queueVars
  <2>. QED  BY <1>y, <1>r, <2>3, <2>4, <2>5, SendPathAssumption DEF LocalsOK
<1>4. ASSUME NEW t \in Workers, SendFull(t)
      PROVE  LocalsOK'
  BY <1>4, <1>y, <1>p, <1>l, <1>r, SendPathAssumption DEF LocalsOK, SendFull,
     Goto, Forget, queueVars
<1>5. ASSUME NEW t \in Workers, SendToken(t)
      PROVE  LocalsOK'
  BY <1>5, <1>y, <1>p, <1>l, <1>r, SendPathAssumption DEF LocalsOK, SendToken,
     Goto, Forget, queueVars
<1>6. ASSUME NEW t \in Workers, SendWrite(t)
      PROVE  LocalsOK'
  BY <1>6, <1>y, <1>p, <1>l, <1>r, SendPathAssumption DEF LocalsOK, SendWrite,
     Goto, Forget, queueVars
<1>7. ASSUME NEW t \in Workers, ReadRmtEdge(t, "edge", "read", "next")
      PROVE  LocalsOK'
  BY <1>7, <1>y, <1>p, <1>l, <1>r, SendPathAssumption DEF LocalsOK,
     ReadRmtEdge, Goto, Forget, queueVars
<1>8. ASSUME NEW t \in Workers, IssueRead(t, "read", "next")
      PROVE  LocalsOK'
  BY <1>8, <1>y, <1>p, <1>l, <1>r, SendPathAssumption DEF LocalsOK, IssueRead,
     Goto, Forget, queueVars
<1>9. ASSUME NEW t \in Workers, ReadRmtEdge(t, "fullEdge", "fullRead", "idle")
      PROVE  LocalsOK'
  BY <1>9, <1>y, <1>p, <1>l, <1>r, SendPathAssumption DEF LocalsOK,
     ReadRmtEdge, Goto, Forget, queueVars
<1>10. ASSUME NEW t \in Workers, IssueRead(t, "fullRead", "idle")
      PROVE  LocalsOK'
  BY <1>10, <1>y, <1>p, <1>l, <1>r, SendPathAssumption DEF LocalsOK, IssueRead,
     Goto, Forget, queueVars
<1>11. ASSUME NEW t \in Workers, SendNext(t)
      PROVE  LocalsOK'
  BY <1>11, <1>y, <1>p, <1>l, <1>r, SendPathAssumption DEF LocalsOK, SendNext,
     Goto, Forget, queueVars
<1>12. ASSUME NEW t \in Workers, SendPop(t)
      PROVE  LocalsOK'
  BY <1>12, <1>y, <1>p, <1>l, <1>r, SendPathAssumption DEF LocalsOK, SendPop,
     Goto, Forget, queueVars
<1>13. ASSUME CompleteRead  PROVE LocalsOK'
  BY <1>13, <1>y, <1>p, <1>l, <1>r, SendPathAssumption DEF LocalsOK,
     CompleteRead, Goto, Forget, queueVars
<1>14. ASSUME ResumeSend  PROVE LocalsOK'
  BY <1>14, <1>y, <1>p, <1>l, <1>r, SendPathAssumption DEF LocalsOK,
     ResumeSend, Goto, Forget, queueVars
<1>15. ASSUME NicWrite  PROVE LocalsOK'
  BY <1>15, <1>y DEF LocalsOK, NicWrite, queueVars, threadVars
<1>16. ASSUME NicRead  PROVE LocalsOK'
  BY <1>16, <1>y DEF LocalsOK, NicRead, queueVars, threadVars
<1>17. ASSUME NicReadLands  PROVE LocalsOK'
  BY <1>17, <1>y DEF LocalsOK, NicReadLands, queueVars, threadVars
<1>18. ASSUME Receive  PROVE LocalsOK'
  BY <1>18, <1>y DEF LocalsOK, Receive, queueVars, threadVars
<1>19. ASSUME Disconnect  PROVE LocalsOK'
  BY <1>19, <1>y DEF LocalsOK, Disconnect, queueVars, threadVars
<1>20. ASSUME CloseTerminal  PROVE LocalsOK'
  BY <1>20, <1>y DEF LocalsOK, CloseTerminal, queueVars, threadVars
<1>21. ASSUME StartTerminal  PROVE LocalsOK'
  BY <1>21, <1>y DEF LocalsOK, StartTerminal, threadVars
<1>22. ASSUME UNCHANGED vars  PROVE LocalsOK'
  BY <1>22, <1>y DEF LocalsOK, vars, queueVars, threadVars
<1>. QED
  BY <1>1, <1>2, <1>3, <1>4, <1>5, <1>6, <1>7, <1>8, <1>9, <1>10,
     <1>11, <1>12, <1>13, <1>14, <1>15, <1>16, <1>17, <1>18, <1>19, <1>20,
     <1>21, <1>22
     DEF Next, Running, ProcessSendQ, VerbCompletion, Nic, Rest, Dead


-----------------------------------------------------------------------------
(* The main invariance theorems.                                           *)

(* The invariant holds of a freshly started terminal.                      *)
LEMMA SenderInit == ASSUME Init PROVE SenderInv
PROOF
<1>1. pendingRead \in Int /\ failed = "no"  BY DEF Init
<1>q. QueueType
  <2>1. sndQue \in Seq(Msgs)  BY DEF Init
  <2>. QED  BY <2>1 DEF Init, QueueType
<1>l. LinkType  BY DEF Init, LinkType
<1>h. HistType
  <2>1. <<>> \in Seq(Msgs) /\ <<>> \in Seq(Msgs \cup {NoMsg})  OBVIOUS
  <2>. QED  BY <2>1 DEF Init, HistType
<1>2. EdgeType
  BY ZeroType, SendPathAssumption DEF Init, EdgeType
<1>3. PeerType
  <2>1. rmtBuf \in [Offsets -> Cell] /\ rcvUnits \in Seq(Cell)
    BY ZeroType DEF Init
  <2>2. rmtTrailingEdge \in Nat  BY SendPathAssumption DEF Init
  <2>. QED  BY <2>1, <2>2 DEF Init, PeerType
<1>4. NicType  BY DEF Init, NicType
<1>5. ThreadType  BY DEF Init, ThreadType, NoLocals, Labels
<1>6. TypeOK  BY <1>1, <1>q, <1>l, <1>h, <1>2, <1>3, <1>4, <1>5 DEF TypeOK
<1>7. \A t \in Workers : pc[t] = "idle"  BY DEF Init
<1>8. SenderExclusive /\ LocalsOK
  BY <1>7 DEF Init, SenderExclusive, Sending, LocalsOK
<1>. QED  BY <1>6, <1>8 DEF SenderInv

(* The invariant holds in every state of every behaviour.                  *)
THEOREM SenderInvariant == Spec => []SenderInv
PROOF
<1>1. SenderInv /\ [Next]_vars => SenderInv'
  BY TypeStep, SenderStep, LocalsStep DEF SenderInv
<1>. QED  BY <1>1, SenderInit, PTL DEF Spec

(* Every variable keeps its type, for every value of the constants.        *)
THEOREM TypeCorrect == Spec => []TypeOK
PROOF
<1>1. SenderInv => TypeOK  BY DEF SenderInv
<1>. QED  BY <1>1, SenderInvariant, PTL

(* However many threads call Send and whenever completions come in, at     *)
(* most one thread processes the queue, the flag tells exactly whether one *)
(* does, and it never finds the queue empty.                               *)
THEOREM SenderIsExclusive == Spec => []SenderExclusive
PROOF
<1>1. SenderInv => SenderExclusive  BY DEF SenderInv
<1>. QED  BY <1>1, SenderInvariant, PTL

-----------------------------------------------------------------------------
(* Flow control.                                                           *)

(* A step that leaves the edges and the responses alone.                   *)
LEMMA FlowFrame ==
  FlowControl /\ UNCHANGED <<sndWriteEdge, sndTrailingEdge, resp,
                             rmtWriteEdge, rmtTrailingEdge>> => FlowControl'
PROOF BY DEF FlowControl

(* Every step preserves flow control.                                      *)
LEMMA FlowStep ==
  ASSUME SenderInv, FlowControl, [Next]_vars
  PROVE  FlowControl'
PROOF
<1>e. sndWriteEdge \in Nat /\ sndTrailingEdge \in Nat
  BY DEF SenderInv, TypeOK, EdgeType
<1>p. rmtWriteEdge \in Nat /\ rmtTrailingEdge \in Nat /\ PeerType
  BY DEF SenderInv, TypeOK, PeerType
<1>n. resp \in Seq(Nat)  BY DEF SenderInv, TypeOK, NicType
<1>b. BufSize \in Nat  BY SendPathAssumption
<1>1. ASSUME NEW t \in Threads, NEW m \in Msgs, SendBegin(t, m)
      PROVE  FlowControl'
  BY <1>1, FlowFrame DEF SendBegin, edgeVars, nicVars, peerVars
<1>2. ASSUME NEW t \in Threads, SendInsert(t)
      PROVE  FlowControl'
  BY <1>2, FlowFrame DEF SendInsert, edgeVars, nicVars, peerVars
<1>3. ASSUME NEW t \in Workers, SendTop(t)
      PROVE  FlowControl'
  <2>1. PICK m \in BackOutcomes :
          LET size == PktSize(MsgSize[m] - mSndIdx * PacketSize, PacketSize)
          IN  \/ UNCHANGED edgeVars
              \/ /\ Fits(size)
                 /\ sndWriteEdge' = sndWriteEdge + size
                 /\ UNCHANGED sndTrailingEdge
    BY <1>3 DEF SendTop
  <2>2. UNCHANGED <<resp, rmtWriteEdge, rmtTrailingEdge>>
    BY <1>3 DEF SendTop, nicVars, peerVars
  <2>3. CASE UNCHANGED edgeVars  BY <2>2, <2>3, FlowFrame DEF edgeVars
  <2>4. CASE ~ UNCHANGED edgeVars
    <3>. DEFINE size == PktSize(MsgSize[m] - mSndIdx * PacketSize, PacketSize)
    <3>1. size \in Nat  BY <1>3, TopOutcome, PktSizeType DEF SendTop
    <3>2. Fits(size) /\ sndWriteEdge' = sndWriteEdge + size
          /\ sndTrailingEdge' = sndTrailingEdge
      BY <2>1, <2>4
    <3>. HIDE DEF size
    <3>3. sndWriteEdge <= sndTrailingEdge  BY DEF FlowControl
    <3>4. sndWriteEdge' <= sndTrailingEdge'  BY <1>e, <3>1, <3>2, <3>3 DEF Fits
    <3>. QED  BY <2>2, <3>2, <3>4 DEF FlowControl
  <2>. QED  BY <2>3, <2>4
<1>4. ASSUME NEW t \in Workers, SendFull(t)
      PROVE  FlowControl'
  BY <1>4, FlowFrame DEF SendFull, edgeVars, nicVars, peerVars
<1>5. ASSUME NEW t \in Workers, SendToken(t)
      PROVE  FlowControl'
  BY <1>5, FlowFrame DEF SendToken, edgeVars, nicVars, peerVars
<1>6. ASSUME NEW t \in Workers, SendWrite(t)
      PROVE  FlowControl'
  BY <1>6, FlowFrame DEF SendWrite, edgeVars, nicVars, peerVars
<1>7. ASSUME NEW t \in Workers, ReadRmtEdge(t, "edge", "read", "next")
      PROVE  FlowControl'
  BY <1>7, FlowFrame DEF ReadRmtEdge, edgeVars, nicVars, peerVars
<1>8. ASSUME NEW t \in Workers, IssueRead(t, "read", "next")
      PROVE  FlowControl'
  BY <1>8, FlowFrame DEF IssueRead, edgeVars, nicVars, peerVars
<1>9. ASSUME NEW t \in Workers, ReadRmtEdge(t, "fullEdge", "fullRead", "idle")
      PROVE  FlowControl'
  BY <1>9, FlowFrame DEF ReadRmtEdge, edgeVars, nicVars, peerVars
<1>10. ASSUME NEW t \in Workers, IssueRead(t, "fullRead", "idle")
      PROVE  FlowControl'
  BY <1>10, FlowFrame DEF IssueRead, edgeVars, nicVars, peerVars
<1>11. ASSUME NEW t \in Workers, SendNext(t)
      PROVE  FlowControl'
  BY <1>11, FlowFrame DEF SendNext, edgeVars, nicVars, peerVars
<1>12. ASSUME NEW t \in Workers, SendPop(t)
      PROVE  FlowControl'
  BY <1>12, FlowFrame DEF SendPop, edgeVars, nicVars, peerVars
<1>13. ASSUME CompleteRead  PROVE FlowControl'
  BY <1>13, FlowFrame DEF CompleteRead, edgeVars, nicVars, peerVars
<1>14. ASSUME ResumeSend  PROVE FlowControl'
  BY <1>14, FlowFrame DEF ResumeSend, edgeVars, nicVars, peerVars
<1>15. ASSUME NicWrite  PROVE FlowControl'
  BY <1>15, FlowFrame DEF NicWrite, edgeVars, nicVars, peerVars
<1>16. ASSUME NicRead  PROVE FlowControl'
  <2>1. resp' = Append(resp, rmtTrailingEdge)  BY <1>16 DEF NicRead
  <2>2. UNCHANGED <<sndWriteEdge, sndTrailingEdge, rmtWriteEdge,
                   rmtTrailingEdge>>
    BY <1>16 DEF NicRead, edgeVars, peerVars
  <2>. QED  BY <1>e, <1>p, <1>n, <2>1, <2>2 DEF FlowControl
<1>17. ASSUME NicReadLands  PROVE FlowControl'
  <2>1. resp # <<>> /\ resp' = Tail(resp) /\ sndTrailingEdge' = Head(resp)
    BY <1>17 DEF NicReadLands
  <2>2. UNCHANGED <<sndWriteEdge, rmtWriteEdge, rmtTrailingEdge>>
    BY <1>17 DEF NicReadLands, peerVars
  <2>3. /\ Len(resp) \in Nat /\ Len(resp) >= 1
        /\ Head(resp) = resp[1] /\ Head(resp) \in Nat
        /\ Len(resp') = Len(resp) - 1
        /\ \A i \in 1 .. Len(resp') : resp'[i] = resp[i + 1]
    BY <1>n, <2>1
  <2>4. \A i \in 1 .. Len(resp') : i + 1 \in 1 .. Len(resp)
    BY <2>3
  <2>5. sndTrailingEdge' \in Nat /\ sndTrailingEdge <= sndTrailingEdge'
        /\ sndTrailingEdge' <= rmtTrailingEdge
    BY <2>1, <2>3 DEF FlowControl
  <2>6. sndWriteEdge' <= sndTrailingEdge'
    BY <1>e, <2>2, <2>5 DEF FlowControl
  <2>7. \A i \in 1 .. Len(resp') :
          sndTrailingEdge' <= resp'[i] /\ resp'[i] <= rmtTrailingEdge'
    <3>. SUFFICES ASSUME NEW i \in 1 .. Len(resp')
                  PROVE  /\ sndTrailingEdge' <= resp'[i]
                         /\ resp'[i] <= rmtTrailingEdge'
      OBVIOUS
    <3>1. resp[1] <= resp[i + 1] /\ resp[i + 1] <= rmtTrailingEdge
      BY <2>3, <2>4 DEF FlowControl
    <3>. QED  BY <2>1, <2>2, <2>3, <3>1
  <2>8. \A i, j \in 1 .. Len(resp') : i < j => resp'[i] <= resp'[j]
    BY <2>3, <2>4 DEF FlowControl
  <2>. QED  BY <2>2, <2>5, <2>6, <2>7, <2>8 DEF FlowControl
<1>18. ASSUME Receive  PROVE FlowControl'
  <2>. DEFINE size == PktSize(RcvHeader.num, PacketSize)
  <2>1. RcvHeader.num \in Nat
    <3>1. RcvHeader \in Cell  BY <1>p, RcvPosType DEF RcvHeader, PeerType
    <3>. QED  BY <3>1 DEF Cell
  <2>2. size \in Nat  BY <2>1, PktSizeType
  <2>3. /\ rmtWriteEdge' = rmtWriteEdge + size
        /\ rmtTrailingEdge' = rmtTrailingEdge + size
    BY <1>18 DEF Receive
  <2>4. UNCHANGED <<sndWriteEdge, sndTrailingEdge, resp>>
    BY <1>18 DEF Receive, edgeVars, nicVars
  <2>. HIDE DEF size
  <2>5. sndTrailingEdge' <= rmtTrailingEdge'
    BY <1>e, <1>p, <2>2, <2>3, <2>4 DEF FlowControl
  <2>6. \A i \in 1 .. Len(resp) : resp[i] \in Nat  BY <1>n
  <2>7. \A i \in 1 .. Len(resp') :
          sndTrailingEdge' <= resp'[i] /\ resp'[i] <= rmtTrailingEdge'
    BY <1>e, <1>p, <2>2, <2>3, <2>4, <2>6 DEF FlowControl
  <2>8. rmtTrailingEdge' = rmtWriteEdge' + BufSize
    BY <1>p, <1>b, <2>2, <2>3 DEF FlowControl
  <2>. QED  BY <2>4, <2>5, <2>7, <2>8 DEF FlowControl
<1>19. ASSUME Disconnect  PROVE FlowControl'
  <2>1. resp' = <<>> /\ Len(resp') = 0  BY <1>19 DEF Disconnect
  <2>2. UNCHANGED <<sndWriteEdge, sndTrailingEdge, rmtWriteEdge,
                   rmtTrailingEdge>>
    BY <1>19 DEF Disconnect, edgeVars, peerVars
  <2>. QED  BY <2>1, <2>2 DEF FlowControl
<1>20. ASSUME CloseTerminal  PROVE FlowControl'
  BY <1>20, FlowFrame DEF CloseTerminal, edgeVars, nicVars, peerVars
<1>21. ASSUME StartTerminal  PROVE FlowControl'
  <2>1. /\ sndWriteEdge' = 0 /\ sndTrailingEdge' = BufSize
        /\ rmtWriteEdge' = 0 /\ rmtTrailingEdge' = BufSize
    BY <1>21 DEF StartTerminal
  <2>3. resp' = <<>> /\ Len(resp') = 0  BY <1>21 DEF StartTerminal
  <2>. QED  BY <1>b, <2>1, <2>3 DEF FlowControl
<1>22. ASSUME UNCHANGED vars  PROVE FlowControl'
  BY <1>22, FlowFrame DEF vars, edgeVars, nicVars, peerVars
<1>. QED
  BY <1>1, <1>2, <1>3, <1>4, <1>5, <1>6, <1>7, <1>8, <1>9, <1>10,
     <1>11, <1>12, <1>13, <1>14, <1>15, <1>16, <1>17, <1>18, <1>19, <1>20,
     <1>21, <1>22
     DEF Next, Running, ProcessSendQ, VerbCompletion, Nic, Rest, Dead


(* Flow control holds of a freshly started terminal.                       *)
LEMMA FlowInit == ASSUME Init PROVE FlowControl
PROOF
<1>1. Len(resp) = 0  BY DEF Init
<1>. QED  BY <1>1, SendPathAssumption DEF Init, FlowControl

(* For every ring, message and packet size and whatever the adapter and    *)
(* the peer do, a frame is only put down where the peer has freed the      *)
(* ring: the unsigned difference of the edges never wraps around.          *)
THEOREM FlowControlled == Spec => []FlowControl
PROOF
<1>1. SenderInv /\ FlowControl /\ [Next]_vars => FlowControl'  BY FlowStep
<1>. QED  BY <1>1, FlowInit, SenderInvariant, PTL DEF Spec

-----------------------------------------------------------------------------
(* Order of completion.  These theorems assume that back() is not torn.    *)

(* Send queues a request behind everything accepted so far.                *)
LEMMA AppendAfter ==
  ASSUME NEW S, NEW c \in Seq(S), NEW q \in Seq(S), NEW m \in S
  PROVE  c \o Append(q, m) = Append(c \o q, m)
PROOF OBVIOUS

(* Queueing a request does not change the oldest one.                      *)
LEMMA AppendHeadTail ==
  ASSUME NEW S, NEW q \in Seq(S), q # <<>>, NEW m \in S
  PROVE  Head(Append(q, m)) = Head(q) /\ Tail(Append(q, m)) = Append(Tail(q), m)
PROOF OBVIOUS

(* Completing the oldest request moves it to the completed ones.           *)
LEMMA ShiftHead ==
  ASSUME NEW S, NEW c \in Seq(S), NEW q \in Seq(S), q # <<>>
  PROVE  c \o q = Append(c, Head(q)) \o Tail(q)
PROOF OBVIOUS

(* A sender past the top of the loop works on the request at the end of    *)
(* m_sndQue, on the packet m_mSndIdx names; between messages the index is  *)
(* zero.                                                                   *)
AtHead(t) ==
  /\ pc[t] \in {"full", "token", "write", "edge", "read", "next", "pop"}
       => loc[t].req = Head(sndQue)
  /\ pc[t] \in {"full", "token", "write", "edge", "read", "next"}
       => loc[t].rest = MsgSize[Head(sndQue)] - mSndIdx * PacketSize
  /\ pc[t] = "pop" => mSndIdx = 0

IndexOK ==
  \/ mSndIdx = 0
  \/ sndQue # <<>> /\ mSndIdx * PacketSize < MsgSize[Head(sndQue)]

Popping == \E t \in Workers : pc[t] = "pop"

OrderInv ==
  /\ CompletionOrder
  /\ IndexOK
  /\ \A t \in Workers : AtHead(t)

(* A step that leaves the queue, its index and the history alone, and no   *)
(* thread's locals while it sends.                                         *)
LEMMA OrderFrame ==
  ASSUME OrderInv,
         UNCHANGED <<sndQue, mSndIdx, accepted, completed>>, NoRaceDetected',
         \A t \in Workers :
           \/ pc'[t] = pc[t] /\ loc'[t] = loc[t]
           \/ pc'[t] \in {"idle", "insert", "top", "fullEdge", "fullRead",
                         "resume"}
              /\ pc[t] # "pop"
           \/ pc[t] \in {"token", "write", "edge", "read"}
              /\ pc'[t] \in {"write", "edge", "read", "next"}
              /\ loc'[t] = loc[t]
  PROVE  OrderInv'
PROOF
<1>1. Popping' <=> Popping  BY DEF Popping
<1>2. CompletionOrder'
  BY <1>1 DEF OrderInv, CompletionOrder, Popping
<1>3. IndexOK'  BY DEF OrderInv, IndexOK
<1>4. \A t \in Workers : AtHead(t)'  BY DEF OrderInv, AtHead
<1>. QED  BY <1>2, <1>3, <1>4 DEF OrderInv

(* Every step preserves the order of completion.                           *)
LEMMA OrderStep ==
  ASSUME ~ TornBack, SenderInv, OrderInv, [Next]_vars
  PROVE  OrderInv'
PROOF
<1>. USE DEF Workers
<1>p. pc \in [Workers -> Labels]  BY DEF SenderInv, TypeOK, ThreadType
<1>l. loc \in [Workers -> [req : Msgs \cup {NoMsg}, rest : Nat, edge : Nat]]
  BY DEF SenderInv, TypeOK, ThreadType
<1>q. sndQue \in Seq(Msgs) /\ mSndIdx \in Nat
  BY DEF SenderInv, TypeOK, QueueType
<1>h. accepted \in Seq(Msgs) /\ completed \in Seq(Msgs)
  BY DEF SenderInv, TypeOK, HistType
<1>x. SenderExclusive  BY DEF SenderInv
<1>r. NoRaceDetected  BY DEF OrderInv, CompletionOrder
<1>i. IndexOK  BY DEF OrderInv
<1>a. \A t \in Workers : AtHead(t)  BY DEF OrderInv
<1>c. accepted = completed \o (IF Popping THEN Tail(sndQue) ELSE sndQue)
  BY DEF OrderInv, CompletionOrder, Popping
<1>m. PacketSize \in Nat /\ MsgSize \in [Msgs -> Nat]  BY SendPathAssumption
<1>1. ASSUME NEW t \in Threads, NEW m \in Msgs, SendBegin(t, m)
      PROVE  OrderInv'
  BY <1>1, <1>r, <1>p, <1>l, OrderFrame
     DEF SendBegin, Goto, Forget, NoRaceDetected, RaceDetected,
         queueVars, histVars, threadVars
<1>2. ASSUME NEW t \in Threads, SendInsert(t)
      PROVE  OrderInv'
  <2>. DEFINE m == loc[t].req
  <2>1. m \in Msgs  BY <1>2 DEF SenderInv, LocalsOK, Labels, SendInsert
  <2>2. /\ sndQue' = Append(sndQue, m) /\ accepted' = Append(accepted, m)
        /\ completed' = completed /\ mSndIdx' = mSndIdx /\ failed' = failed
        /\ pc[t] = "insert"
    BY <1>2 DEF SendInsert
  <2>3. \A u \in Workers \ {t} : pc'[u] = pc[u] /\ loc'[u] = loc[u]
    BY <1>2, <1>p, <1>l DEF SendInsert, Goto, Forget
  <2>4. pc'[t] \in {"top", "idle"}  BY <1>2, <1>p DEF SendInsert, Goto
  <2>5. Popping' <=> Popping  BY <2>2, <2>3, <2>4 DEF Popping
  <2>. HIDE DEF m
  <2>6. Append(sndQue, m) # <<>>  BY <1>q, <2>1, AppendProperties
  <2>7. sndQue # <<>> => /\ Head(sndQue') = Head(sndQue)
                        /\ Tail(sndQue') = Append(Tail(sndQue), m)
    BY <1>q, <2>1, <2>2, AppendHeadTail
  <2>8. Popping => sndQue # <<>>  BY <1>x DEF Popping, SenderExclusive, Sending
  <2>9. accepted' = completed' \o (IF Popping' THEN Tail(sndQue') ELSE sndQue')
    <3>1. CASE Popping
      <4>1. Tail(sndQue) \in Seq(Msgs)  BY <1>q, <2>8, <3>1, SeqTypes
      <4>2. completed \o Append(Tail(sndQue), m)
              = Append(completed \o Tail(sndQue), m)
        BY <1>h, <2>1, <4>1, AppendAfter
      <4>. QED  BY <1>c, <2>2, <2>5, <2>7, <2>8, <3>1, <4>2
    <3>2. CASE ~ Popping
      <4>1. completed \o Append(sndQue, m) = Append(completed \o sndQue, m)
        BY <1>h, <1>q, <2>1, AppendAfter
      <4>. QED  BY <1>c, <2>2, <2>5, <3>2, <4>1
    <3>. QED  BY <3>1, <3>2
  <2>10. CompletionOrder'
    BY <1>r, <2>2, <2>9 DEF CompletionOrder, Popping, NoRaceDetected
  <2>11. IndexOK'  BY <1>i, <2>2, <2>6, <2>7 DEF IndexOK
  <2>12. \A u \in Workers : AtHead(u)'
    <3>1. AtHead(t)'  BY <2>4 DEF AtHead
    <3>2. ASSUME NEW u \in Workers \ {t}  PROVE AtHead(u)'
      <4>1. Sending(u) => sndQue # <<>>  BY <1>x DEF SenderExclusive
      <4>. QED  BY <1>a, <2>2, <2>3, <2>7, <4>1 DEF AtHead, Sending
    <3>. QED  BY <3>1, <3>2
  <2>. QED  BY <2>10, <2>11, <2>12 DEF OrderInv
<1>3. ASSUME NEW t \in Workers, SendTop(t)
      PROVE  OrderInv'
  <2>1. PICK m \in BackOutcomes :
          /\ loc' = [loc EXCEPT ![t] = [req |-> m,
                       rest |-> MsgSize[m] - mSndIdx * PacketSize,
                       edge |-> sndWriteEdge]]
          /\ Goto(t, "full") \/ Goto(t, "token")
    BY <1>3 DEF SendTop
  <2>2. m = Head(sndQue)  BY DEF BackOutcomes, Takeable
  <2>3. /\ UNCHANGED <<sndQue, mSndIdx, accepted, completed, failed>>
        /\ pc[t] = "top"
    BY <1>3 DEF SendTop, queueVars, histVars
  <2>4. \A u \in Workers \ {t} : pc'[u] = pc[u] /\ loc'[u] = loc[u]
    BY <2>1, <1>p, <1>l DEF Goto
  <2>5. /\ pc'[t] \in {"full", "token"}
        /\ loc'[t].req = m
        /\ loc'[t].rest = MsgSize[m] - mSndIdx * PacketSize
    BY <2>1, <1>p, <1>l DEF Goto
  <2>6. Popping' <=> Popping  BY <2>3, <2>4, <2>5 DEF Popping
  <2>7. CompletionOrder'
    BY <1>c, <1>r, <2>3, <2>6 DEF CompletionOrder, Popping, NoRaceDetected
  <2>8. IndexOK'  BY <1>i, <2>3 DEF IndexOK
  <2>9. \A u \in Workers : AtHead(u)'
    <3>1. AtHead(t)'  BY <2>2, <2>3, <2>5 DEF AtHead
    <3>2. ASSUME NEW u \in Workers \ {t}  PROVE AtHead(u)'
      BY <1>a, <2>3, <2>4 DEF AtHead
    <3>. QED  BY <3>1, <3>2
  <2>. QED  BY <2>7, <2>8, <2>9 DEF OrderInv
<1>4. ASSUME NEW t \in Workers, SendFull(t)
      PROVE  OrderInv'
  BY <1>4, <1>r, <1>p, <1>l, OrderFrame
     DEF SendFull, Goto, Forget, NoRaceDetected, RaceDetected,
         queueVars, histVars, threadVars
<1>5. ASSUME NEW t \in Workers, SendToken(t)
      PROVE  OrderInv'
  BY <1>5, <1>r, <1>p, <1>l, OrderFrame
     DEF SendToken, Goto, Forget, NoRaceDetected, RaceDetected,
         queueVars, histVars, threadVars
<1>6. ASSUME NEW t \in Workers, SendWrite(t)
      PROVE  OrderInv'
  BY <1>6, <1>r, <1>p, <1>l, OrderFrame
     DEF SendWrite, Goto, Forget, NoRaceDetected, RaceDetected,
         queueVars, histVars, threadVars
<1>7. ASSUME NEW t \in Workers, ReadRmtEdge(t, "edge", "read", "next")
      PROVE  OrderInv'
  BY <1>7, <1>r, <1>p, <1>l, OrderFrame
     DEF ReadRmtEdge, Goto, Forget, NoRaceDetected, RaceDetected,
         queueVars, histVars, threadVars
<1>8. ASSUME NEW t \in Workers, IssueRead(t, "read", "next")
      PROVE  OrderInv'
  BY <1>8, <1>r, <1>p, <1>l, OrderFrame
     DEF IssueRead, Goto, Forget, NoRaceDetected, RaceDetected,
         queueVars, histVars, threadVars
<1>9. ASSUME NEW t \in Workers, ReadRmtEdge(t, "fullEdge", "fullRead", "idle")
      PROVE  OrderInv'
  BY <1>9, <1>r, <1>p, <1>l, OrderFrame
     DEF ReadRmtEdge, Goto, Forget, NoRaceDetected, RaceDetected,
         queueVars, histVars, threadVars
<1>10. ASSUME NEW t \in Workers, IssueRead(t, "fullRead", "idle")
      PROVE  OrderInv'
  BY <1>10, <1>r, <1>p, <1>l, OrderFrame
     DEF IssueRead, Goto, Forget, NoRaceDetected, RaceDetected,
         queueVars, histVars, threadVars
<1>11. ASSUME NEW t \in Workers, SendNext(t)
      PROVE  OrderInv'
  <2>1. /\ UNCHANGED <<sndQue, accepted, failed, loc>>
        /\ pc[t] = "next" /\ mSndIdx' = NextIdx(loc[t].rest)
    BY <1>11 DEF SendNext
  <2>2. /\ loc[t].req = Head(sndQue)
        /\ loc[t].rest = MsgSize[Head(sndQue)] - mSndIdx * PacketSize
    BY <1>a, <2>1 DEF AtHead
  <2>3. sndQue # <<>> /\ ~ Popping
    BY <1>x, <2>1 DEF SenderExclusive, Sending, Popping
  <2>4. \A u \in Workers \ {t} : ~ Sending(u)
    BY <1>x, <2>1 DEF SenderExclusive, Sending
  <2>5. CASE loc[t].rest > PacketSize
    <3>1. completed' = completed /\ Goto(t, "top")
      BY <1>11, <1>l, <1>m, <2>5 DEF SendNext
    <3>2. ~ Popping'  BY <1>p, <2>3, <3>1 DEF Popping, Goto
    <3>3. CompletionOrder'
      BY <1>c, <1>r, <2>1, <2>3, <3>1, <3>2 DEF CompletionOrder, Popping,
         NoRaceDetected
    <3>4. IndexOK'
      <4>1. mSndIdx' = mSndIdx + 1  BY <2>1, <2>5 DEF NextIdx
      <4>2. Head(sndQue) \in Msgs  BY <1>q, <2>3, SeqTypes
      <4>3. MsgSize[Head(sndQue)] \in Nat  BY <1>m, <4>2
      <4>4. (mSndIdx + 1) * PacketSize = mSndIdx * PacketSize + PacketSize
            /\ mSndIdx * PacketSize \in Nat
        BY <1>q, <1>m
      <4>5. (mSndIdx + 1) * PacketSize < MsgSize[Head(sndQue)]
        BY <1>m, <2>2, <2>5, <4>3, <4>4
      <4>. QED  BY <2>1, <2>3, <4>1, <4>5 DEF IndexOK
    <3>5. \A u \in Workers : AtHead(u)'
      BY <1>p, <2>4, <3>1 DEF AtHead, Goto, Sending
    <3>. QED  BY <3>3, <3>4, <3>5 DEF OrderInv
  <2>6. CASE ~ (loc[t].rest > PacketSize)
    <3>1. /\ completed' = Append(completed, loc[t].req)
          /\ Goto(t, "pop")
          /\ mSndIdx' = 0
      BY <1>11, <2>1, <2>6 DEF SendNext, NextIdx
    <3>2. Popping'  BY <1>p, <3>1 DEF Popping, Goto
    <3>3. completed \o sndQue = Append(completed, Head(sndQue)) \o Tail(sndQue)
      BY <1>h, <1>q, <2>3, ShiftHead
    <3>4. CompletionOrder'
      BY <1>c, <1>r, <2>1, <2>2, <2>3, <3>1, <3>2, <3>3
         DEF CompletionOrder, Popping, NoRaceDetected
    <3>5. IndexOK'  BY <3>1 DEF IndexOK
    <3>6. \A u \in Workers : AtHead(u)'
      BY <1>p, <2>1, <2>2, <2>4, <3>1 DEF AtHead, Goto, Sending
    <3>. QED  BY <3>4, <3>5, <3>6 DEF OrderInv
  <2>. QED  BY <2>5, <2>6
<1>12. ASSUME NEW t \in Workers, SendPop(t)
      PROVE  OrderInv'
  <2>1. /\ sndQue' = Tail(sndQue) /\ pc[t] = "pop"
        /\ UNCHANGED <<accepted, completed, mSndIdx>>
        /\ pc' = [pc EXCEPT ![t] = IF Len(sndQue) > 1 THEN "top" ELSE "idle"]
    BY <1>12 DEF SendPop, Goto, histVars
  <2>2. loc[t].req = Head(sndQue) /\ mSndIdx = 0  BY <1>a, <2>1 DEF AtHead
  <2>3. failed' = failed  BY <1>12, <2>2 DEF SendPop
  <2>4. \A u \in Workers \ {t} : ~ Sending(u)
    BY <1>x, <2>1 DEF SenderExclusive, Sending
  <2>5. Popping  BY <2>1 DEF Popping
  <2>6. \A u \in Workers :
          pc'[u] \notin {"full", "token", "write", "edge", "read", "next",
                         "pop"}
    BY <1>p, <2>1, <2>4 DEF Sending
  <2>7. ~ Popping'  BY <2>6 DEF Popping
  <2>8. CompletionOrder'
    BY <1>c, <1>r, <2>1, <2>3, <2>5, <2>7 DEF CompletionOrder, Popping,
       NoRaceDetected
  <2>9. IndexOK'  BY <2>1, <2>2 DEF IndexOK
  <2>10. \A u \in Workers : AtHead(u)'  BY <2>6 DEF AtHead
  <2>. QED  BY <2>8, <2>9, <2>10 DEF OrderInv
<1>13. ASSUME CompleteRead  PROVE OrderInv'
  BY <1>13, <1>r, <1>p, <1>l, OrderFrame
     DEF CompleteRead, Goto, Forget, NoRaceDetected, RaceDetected,
         queueVars, histVars, threadVars
<1>14. ASSUME ResumeSend  PROVE OrderInv'
  BY <1>14, <1>r, <1>p, <1>l, OrderFrame
     DEF ResumeSend, Goto, Forget, NoRaceDetected, RaceDetected,
         queueVars, histVars, threadVars
<1>15. ASSUME NicWrite  PROVE OrderInv'
  BY <1>15, <1>r, <1>p, <1>l, OrderFrame
     DEF NicWrite, Goto, Forget, NoRaceDetected, RaceDetected,
         queueVars, histVars, threadVars
<1>16. ASSUME NicRead  PROVE OrderInv'
  BY <1>16, <1>r, <1>p, <1>l, OrderFrame
     DEF NicRead, Goto, Forget, NoRaceDetected, RaceDetected,
         queueVars, histVars, threadVars
<1>17. ASSUME NicReadLands  PROVE OrderInv'
  BY <1>17, <1>r, <1>p, <1>l, OrderFrame
     DEF NicReadLands, Goto, Forget, NoRaceDetected, RaceDetected,
         queueVars, histVars, threadVars
<1>18. ASSUME Receive  PROVE OrderInv'
  BY <1>18, <1>r, <1>p, <1>l, OrderFrame
     DEF Receive, Goto, Forget, NoRaceDetected, RaceDetected,
         queueVars, histVars, threadVars
<1>19. ASSUME Disconnect  PROVE OrderInv'
  BY <1>19, <1>r, <1>p, <1>l, OrderFrame
     DEF Disconnect, Goto, Forget, NoRaceDetected, RaceDetected,
         queueVars, histVars, threadVars
<1>20. ASSUME CloseTerminal  PROVE OrderInv'
  BY <1>20, <1>r, <1>p, <1>l, OrderFrame
     DEF CloseTerminal, Goto, Forget, NoRaceDetected, RaceDetected,
         queueVars, histVars, threadVars
<1>21. ASSUME StartTerminal  PROVE OrderInv'
  <2>1. /\ sndQue' = <<>> /\ accepted' = <<>> /\ completed' = <<>>
        /\ mSndIdx' = 0
        /\ failed' = failed
        /\ \A u \in Workers : pc'[u] = "idle"
    BY <1>21 DEF StartTerminal, threadVars
  <2>2. ~ Popping'  BY <2>1 DEF Popping
  <2>3. <<>> = <<>> \o <<>>  OBVIOUS
  <2>4. CompletionOrder'
    BY <1>r, <2>1, <2>2, <2>3 DEF CompletionOrder, Popping, NoRaceDetected
  <2>5. IndexOK' /\ \A u \in Workers : AtHead(u)'  BY <2>1 DEF IndexOK, AtHead
  <2>. QED  BY <2>4, <2>5 DEF OrderInv
<1>22. ASSUME UNCHANGED vars  PROVE OrderInv'
  BY <1>22, <1>r, OrderFrame
     DEF vars, NoRaceDetected, queueVars, histVars, threadVars
<1>. QED
  BY <1>1, <1>2, <1>3, <1>4, <1>5, <1>6, <1>7, <1>8, <1>9, <1>10,
     <1>11, <1>12, <1>13, <1>14, <1>15, <1>16, <1>17, <1>18, <1>19, <1>20,
     <1>21, <1>22
     DEF Next, Running, ProcessSendQ, VerbCompletion, Nic, Rest, Dead

(* The order of completion holds of a freshly started terminal.            *)
LEMMA OrderInit == ASSUME Init PROVE OrderInv
PROOF
<1>1. \A t \in Workers : pc[t] = "idle"  BY DEF Init
<1>2. <<>> = <<>> \o <<>>  OBVIOUS
<1>3. CompletionOrder
  BY <1>1, <1>2 DEF Init, CompletionOrder, NoRaceDetected, RaceDetected
<1>4. IndexOK /\ \A t \in Workers : AtHead(t)
  BY <1>1 DEF Init, IndexOK, AtHead
<1>. QED  BY <1>3, <1>4 DEF OrderInv

(* If reading back() without the lock is not torn by a concurrent insert,  *)
(* every request is completed once and in the order Send accepted it, and  *)
(* the assertion of ProcessSendQ's last critical section never fails.      *)
THEOREM CompletionInOrder ==
  ASSUME ~ TornBack
  PROVE  Spec => []CompletionOrder
PROOF
<1>1. SenderInv /\ OrderInv /\ [Next]_vars => OrderInv'
  BY OrderStep
<1>2. OrderInv => CompletionOrder  BY DEF OrderInv
<1>. QED  BY <1>1, <1>2, OrderInit, SenderInvariant, PTL DEF Spec

(* ... and m_mSndIdx always lies within the message at the queue's end.    *)
THEOREM PacketsInBounds ==
  ASSUME ~ TornBack
  PROVE  Spec => []PacketInBounds
PROOF
<1>1. SenderInv /\ OrderInv /\ [Next]_vars => OrderInv'
  BY OrderStep
<1>2. OrderInv => PacketInBounds  BY DEF OrderInv, IndexOK, PacketInBounds
<1>. QED  BY <1>1, <1>2, OrderInit, SenderInvariant, PTL DEF Spec

-----------------------------------------------------------------------------
(* Counting the reads among the posted requests.                           *)

PostedReads(w) == { i \in 1 .. Len(w) : w[i].op = "read" }

(* They are finitely many.                                                 *)
LEMMA PostedFinite ==
  ASSUME NEW w \in Seq(Request)
  PROVE  IsFiniteSet(PostedReads(w)) /\ Cardinality(PostedReads(w)) \in Nat
PROOF
<1>1. Len(w) \in Nat  OBVIOUS
<1>2. IsFiniteSet(1 .. Len(w))  BY <1>1, FS_Interval
<1>3. IsFiniteSet(PostedReads(w))  BY <1>2, FS_Subset DEF PostedReads
<1>. QED  BY <1>3, FS_CardinalityType

(* Posting a request counts it if it is a read.                            *)
LEMMA PostedAppend ==
  ASSUME NEW w \in Seq(Request), NEW r \in Request
  PROVE  Cardinality(PostedReads(Append(w, r)))
           = Cardinality(PostedReads(w)) + (IF r.op = "read" THEN 1 ELSE 0)
PROOF
<1>. DEFINE n == Len(w)
<1>1. n \in Nat /\ n + 1 \notin 1 .. n  BY LenProperties
<1>2. /\ Len(Append(w, r)) = n + 1
      /\ \A i \in 1 .. n : Append(w, r)[i] = w[i]
      /\ Append(w, r)[n + 1] = r
  BY AppendProperties
<1>. HIDE DEF n
<1>3. 1 .. n + 1 = (1 .. n) \cup {n + 1}  BY <1>1
<1>4. PostedReads(Append(w, r))
        = IF r.op = "read" THEN PostedReads(w) \cup {n + 1} ELSE PostedReads(w)
  <2>1. PostedReads(w) = { i \in 1 .. n : w[i].op = "read" }
    BY DEF PostedReads, n
  <2>. QED  BY <1>2, <1>3, <2>1 DEF PostedReads
<1>5. n + 1 \notin PostedReads(w)  BY <1>1 DEF PostedReads, n
<1>6. IsFiniteSet(PostedReads(w)) /\ Cardinality(PostedReads(w)) \in Nat
  BY PostedFinite
<1>7. Cardinality(PostedReads(w) \cup {n + 1})
        = Cardinality(PostedReads(w)) + 1
  BY <1>5, <1>6, FS_AddElement
<1>. QED  BY <1>4, <1>6, <1>7

(* Executing the oldest request uncounts it if it is a read.               *)
LEMMA PostedTail ==
  ASSUME NEW w \in Seq(Request), w # <<>>
  PROVE  Cardinality(PostedReads(w))
           = Cardinality(PostedReads(Tail(w)))
               + (IF Head(w).op = "read" THEN 1 ELSE 0)
PROOF
<1>. DEFINE n == Len(w)
            S == PostedReads(Tail(w))
            T == { i \in 2 .. n : w[i].op = "read" }
            f == [i \in S |-> i + 1]
<1>1. n \in Nat \ {0}  BY EmptySeq
<1>2. /\ Tail(w) \in Seq(Request)
      /\ Len(Tail(w)) = n - 1
      /\ \A i \in 1 .. n - 1 : Tail(w)[i] = w[i + 1]
      /\ Head(w) = w[1]
  BY HeadTailProperties
<1>3. S = { i \in 1 .. n - 1 : w[i + 1].op = "read" }
  BY <1>2 DEF PostedReads
<1>4. IsFiniteSet(S) /\ Cardinality(S) \in Nat  BY <1>2, PostedFinite
<1>5. PostedReads(w) = IF Head(w).op = "read" THEN T \cup {1} ELSE T
  <2>1. 1 .. n = (2 .. n) \cup {1}  BY <1>1
  <2>. QED  BY <1>2, <2>1 DEF PostedReads
<1>. HIDE DEF n
<1>6. f \in Bijection(S, T)
  <2>1. f \in [S -> T]  BY <1>1, <1>3
  <2>2. \A i, j \in S : f[i] = f[j] => i = j  BY <1>1, <1>3
  <2>3. \A k \in T : \E i \in S : f[i] = k
    <3>. SUFFICES ASSUME NEW k \in T  PROVE \E i \in S : f[i] = k
      OBVIOUS
    <3>1. k - 1 \in S /\ (k - 1) + 1 = k  BY <1>1, <1>3
    <3>. QED  BY <3>1
  <2>. HIDE DEF f, S, T
  <2>. QED  BY <2>1, <2>2, <2>3, Fun_IsBij
<1>7. IsFiniteSet(T) /\ Cardinality(T) = Cardinality(S)
  <2>1. ExistsBijection(S, T)  BY <1>6 DEF ExistsBijection
  <2>. HIDE DEF S, T
  <2>. QED  BY <1>4, <2>1, FS_Bijection
<1>8. 1 \notin T  BY <1>1
<1>. HIDE DEF T, S
<1>9. Cardinality(T \cup {1}) = Cardinality(T) + 1
  BY <1>7, <1>8, FS_AddElement
<1>10. Cardinality(PostedReads(w)) =
         IF Head(w).op = "read" THEN Cardinality(S) + 1 ELSE Cardinality(S)
  BY <1>5, <1>7, <1>9
<1>. QED  BY <1>4, <1>10 DEF S

-----------------------------------------------------------------------------
(* The account of the reads under way.  ReadAccounting speaks of the first *)
(* connection: the number of connections never goes back.                  *)

ReadInv == ReadAccounting /\ conns >= 1

(* A step that leaves the counter, the adapter and the link alone.         *)
LEMMA ReadFrame ==
  ReadInv /\ UNCHANGED <<pendingRead, wire, resp, cq, qpUp, conns>> => ReadInv'
PROOF BY DEF ReadInv, ReadAccounting, ReadsUnderWay, ReadsPosted

(* The account in terms of PostedReads.                                    *)
LEMMA AccountReads ==
  /\ ReadsUnderWay = Cardinality(PostedReads(wire)) + Len(resp) + cq
  /\ ReadsUnderWay' = Cardinality(PostedReads(wire')) + Len(resp') + cq'
PROOF BY DEF ReadsUnderWay, ReadsPosted, PostedReads

(* A read that is issued is counted, posted or not.                        *)
LEMMA IssueCounted ==
  ASSUME SenderInv, ReadInv, pendingRead' = pendingRead + 1,
         wire' = IF qpUp THEN Append(wire, ReadReq) ELSE wire,
         UNCHANGED <<resp, cq, qpUp, conns>>
  PROVE  ReadInv'
PROOF
<1>1. wire \in Seq(Request) /\ resp \in Seq(Nat) /\ cq \in Nat
  BY DEF SenderInv, TypeOK, NicType
<1>2. pendingRead \in Int /\ conns \in Nat
  BY DEF SenderInv, TypeOK, LinkType
<1>3. Cardinality(PostedReads(wire)) \in Nat /\ Len(resp) \in Nat
  BY <1>1, PostedFinite
<1>4. Cardinality(PostedReads(Append(wire, ReadReq)))
        = Cardinality(PostedReads(wire)) + 1
  BY <1>1, <1>3, PostedAppend, RequestType DEF ReadReq
<1>5. ReadsUnderWay' = IF qpUp THEN ReadsUnderWay + 1 ELSE ReadsUnderWay
  BY <1>1, <1>3, <1>4, AccountReads
<1>6. ReadsUnderWay \in Nat  BY <1>1, <1>3, AccountReads
<1>. QED  BY <1>2, <1>5, <1>6 DEF ReadInv, ReadAccounting

(* Every step preserves the account.                                       *)
LEMMA ReadStep ==
  ASSUME SenderInv, ReadInv, [Next]_vars
  PROVE  ReadInv'
PROOF
<1>w. wire \in Seq(Request) /\ resp \in Seq(Nat) /\ cq \in Nat
  BY DEF SenderInv, TypeOK, NicType
<1>c. Cardinality(PostedReads(wire)) \in Nat /\ Len(resp) \in Nat
  BY <1>w, PostedFinite
<1>p. pendingRead \in Int /\ conns \in Nat
  BY DEF SenderInv, TypeOK, LinkType
<1>a. /\ ReadsUnderWay = Cardinality(PostedReads(wire)) + Len(resp) + cq
      /\ ReadsUnderWay \in Nat
      /\ ReadsUnderWay' = Cardinality(PostedReads(wire')) + Len(resp') + cq'
  BY <1>w, <1>c, AccountReads
<1>i. /\ ReadsUnderWay <= pendingRead /\ conns >= 1
      /\ qpUp /\ conns = 1 => pendingRead = ReadsUnderWay
  BY DEF ReadInv, ReadAccounting
<1>1. ASSUME NEW t \in Threads, NEW m \in Msgs, SendBegin(t, m)
      PROVE  ReadInv'
  BY <1>1, ReadFrame DEF SendBegin, nicVars, linkVars
<1>2. ASSUME NEW t \in Threads, SendInsert(t)  PROVE ReadInv'
  BY <1>2, ReadFrame DEF SendInsert, nicVars, linkVars
<1>3. ASSUME NEW t \in Workers, SendTop(t)  PROVE ReadInv'
  BY <1>3, ReadFrame DEF SendTop, nicVars, linkVars
<1>4. ASSUME NEW t \in Workers, SendFull(t)  PROVE ReadInv'
  BY <1>4, ReadFrame DEF SendFull, nicVars, linkVars
<1>5. ASSUME NEW t \in Workers, SendToken(t)  PROVE ReadInv'
  BY <1>5, ReadFrame DEF SendToken, nicVars, linkVars
<1>6. ASSUME NEW t \in Workers, SendWrite(t)  PROVE ReadInv'
  <2>. DEFINE size == PktSize(loc[t].rest, PacketSize)
              f == Locate(loc[t].edge, size)
              one == WriteReq(FirstWrite(f, size))
              two == WriteReq(SecondWrite(f))
  <2>1. one \in Request /\ two \in Request
    <3>1. loc[t].rest \in Nat /\ loc[t].edge \in Nat
      BY DEF SenderInv, TypeOK, ThreadType
    <3>2. size \in Nat /\ size >= 2  BY <3>1, PktSizeType
    <3>3. f \in [start : Nat, data : Nat, len1 : Nat, len2 : Nat, end : Nat]
      BY <3>1, <3>2, LocateType
    <3>. QED  BY <3>2, <3>3, WritesType, RequestType
  <2>2. one.op = "write" /\ two.op = "write"  BY DEF WriteReq
  <2>3. wire' = IF ~ qpUp THEN wire
                ELSE IF IsSplit(f) THEN wire \o <<one, two>>
                ELSE Append(wire, one)
    BY <1>6 DEF SendWrite
  <2>4. UNCHANGED <<pendingRead, resp, cq, qpUp, conns>>
    BY <1>6 DEF SendWrite, linkVars
  <2>. HIDE DEF one, two, f, size
  <2>5. wire \o <<one, two>> = Append(Append(wire, one), two)
    BY <1>w, <2>1
  <2>6. Append(wire, one) \in Seq(Request)  BY <1>w, <2>1, AppendProperties
  <2>7. /\ Cardinality(PostedReads(Append(wire, one)))
             = Cardinality(PostedReads(wire))
        /\ Cardinality(PostedReads(Append(Append(wire, one), two)))
             = Cardinality(PostedReads(wire))
    <3>1. Cardinality(PostedReads(Append(wire, one)))
            = Cardinality(PostedReads(wire)) + 0
      BY <1>w, <2>1, <2>2, PostedAppend
    <3>2. Cardinality(PostedReads(Append(Append(wire, one), two)))
            = Cardinality(PostedReads(Append(wire, one))) + 0
      BY <2>1, <2>2, <2>6, PostedAppend
    <3>. QED  BY <1>c, <3>1, <3>2
  <2>8. Cardinality(PostedReads(wire')) = Cardinality(PostedReads(wire))
    BY <2>3, <2>5, <2>7
  <2>9. ReadsUnderWay' = ReadsUnderWay  BY <1>a, <2>4, <2>8
  <2>. QED  BY <1>i, <2>4, <2>9 DEF ReadInv, ReadAccounting
<1>7. ASSUME NEW t \in Workers, ReadRmtEdge(t, "edge", "read", "next")
      PROVE  ReadInv'
  BY <1>7, ReadFrame DEF ReadRmtEdge, nicVars, linkVars
<1>8. ASSUME NEW t \in Workers, IssueRead(t, "read", "next")  PROVE ReadInv'
  BY <1>8, IssueCounted DEF IssueRead, linkVars
<1>9. ASSUME NEW t \in Workers, ReadRmtEdge(t, "fullEdge", "fullRead", "idle")
      PROVE  ReadInv'
  BY <1>9, ReadFrame DEF ReadRmtEdge, nicVars, linkVars
<1>10. ASSUME NEW t \in Workers, IssueRead(t, "fullRead", "idle")
      PROVE  ReadInv'
  BY <1>10, IssueCounted DEF IssueRead, linkVars
<1>11. ASSUME NEW t \in Workers, SendNext(t)  PROVE ReadInv'
  BY <1>11, ReadFrame DEF SendNext, nicVars, linkVars
<1>12. ASSUME NEW t \in Workers, SendPop(t)  PROVE ReadInv'
  BY <1>12, ReadFrame DEF SendPop, nicVars, linkVars
<1>13. ASSUME CompleteRead  PROVE ReadInv'
  <2>1. /\ pendingRead' = pendingRead - 1 /\ cq' = cq - 1
        /\ UNCHANGED <<wire, resp, qpUp, conns>>
    BY <1>13 DEF CompleteRead, linkVars
  <2>2. ReadsUnderWay' = ReadsUnderWay - 1  BY <1>w, <1>c, <1>a, <2>1
  <2>. QED  BY <1>p, <1>a, <1>i, <2>1, <2>2 DEF ReadInv, ReadAccounting
<1>14. ASSUME ResumeSend  PROVE ReadInv'
  BY <1>14, ReadFrame DEF ResumeSend, nicVars, linkVars
<1>15. ASSUME NicWrite  PROVE ReadInv'
  <2>1. /\ wire # <<>> /\ Head(wire).op = "write" /\ wire' = Tail(wire)
        /\ UNCHANGED <<pendingRead, resp, cq, qpUp, conns>>
    BY <1>15 DEF NicWrite, linkVars
  <2>2. Tail(wire) \in Seq(Request)  BY <1>w, <2>1, HeadTailProperties
  <2>3. Cardinality(PostedReads(wire')) = Cardinality(PostedReads(wire))
    <3>1. Cardinality(PostedReads(wire)) = Cardinality(PostedReads(wire')) + 0
      BY <1>w, <2>1, PostedTail
    <3>2. Cardinality(PostedReads(wire')) \in Nat
      BY <2>1, <2>2, PostedFinite
    <3>. QED  BY <3>1, <3>2
  <2>4. ReadsUnderWay' = ReadsUnderWay  BY <1>a, <2>1, <2>3
  <2>. QED  BY <1>i, <2>1, <2>4 DEF ReadInv, ReadAccounting
<1>16. ASSUME NicRead  PROVE ReadInv'
  <2>1. /\ wire # <<>> /\ Head(wire).op = "read" /\ wire' = Tail(wire)
        /\ resp' = Append(resp, rmtTrailingEdge)
        /\ UNCHANGED <<pendingRead, cq, qpUp, conns>>
    BY <1>16 DEF NicRead, linkVars
  <2>2. Tail(wire) \in Seq(Request)  BY <1>w, <2>1, HeadTailProperties
  <2>3. /\ Cardinality(PostedReads(wire)) = Cardinality(PostedReads(wire')) + 1
        /\ Cardinality(PostedReads(wire')) \in Nat
    BY <1>w, <1>c, <2>1, <2>2, PostedTail, PostedFinite
  <2>4. rmtTrailingEdge \in Nat  BY DEF SenderInv, TypeOK, PeerType
  <2>5. Len(resp') = Len(resp) + 1  BY <1>w, <2>1, <2>4, AppendProperties
  <2>6. ReadsUnderWay' = ReadsUnderWay  BY <1>w, <1>c, <1>a, <2>1, <2>3, <2>5
  <2>. QED  BY <1>i, <2>1, <2>6 DEF ReadInv, ReadAccounting
<1>17. ASSUME NicReadLands  PROVE ReadInv'
  <2>1. /\ resp # <<>> /\ resp' = Tail(resp) /\ cq' = cq + 1
        /\ UNCHANGED <<pendingRead, wire, qpUp, conns>>
    BY <1>17 DEF NicReadLands, linkVars
  <2>2. Len(resp') = Len(resp) - 1  BY <1>w, <2>1, HeadTailProperties
  <2>3. ReadsUnderWay' = ReadsUnderWay  BY <1>w, <1>c, <1>a, <2>1, <2>2
  <2>. QED  BY <1>i, <2>1, <2>3 DEF ReadInv, ReadAccounting
<1>18. ASSUME Receive  PROVE ReadInv'
  BY <1>18, ReadFrame DEF Receive, nicVars, linkVars
<1>19. ASSUME Disconnect  PROVE ReadInv'
  <2>1. /\ cq' = cq + Len(resp) + ReadsPosted
        /\ wire' = <<>> /\ resp' = <<>> /\ ~ qpUp'
        /\ UNCHANGED <<pendingRead, conns>>
    BY <1>19 DEF Disconnect
  <2>2. ReadsPosted = Cardinality(PostedReads(wire))
    BY DEF ReadsPosted, PostedReads
  <2>3. Cardinality(PostedReads(wire')) = 0 /\ Len(resp') = 0
    BY <2>1, FS_EmptySet DEF PostedReads
  <2>4. ReadsUnderWay' = ReadsUnderWay  BY <1>w, <1>c, <1>a, <2>1, <2>2, <2>3
  <2>. QED  BY <1>i, <2>1, <2>4 DEF ReadInv, ReadAccounting
<1>20. ASSUME CloseTerminal  PROVE ReadInv'
  BY <1>20, ReadFrame DEF CloseTerminal, nicVars
<1>21. ASSUME StartTerminal  PROVE ReadInv'
  <2>1. /\ cq = 0 /\ cq' = cq /\ wire' = <<>> /\ resp' = <<>>
        /\ conns' = conns + 1 /\ UNCHANGED pendingRead
    BY <1>21 DEF StartTerminal
  <2>2. Cardinality(PostedReads(wire')) = 0 /\ Len(resp') = 0
    BY <2>1, FS_EmptySet DEF PostedReads
  <2>3. ReadsUnderWay' = 0  BY <1>a, <2>1, <2>2
  <2>. QED  BY <1>p, <1>a, <1>i, <2>1, <2>3 DEF ReadInv, ReadAccounting
<1>22. ASSUME UNCHANGED vars  PROVE ReadInv'
  BY <1>22, ReadFrame DEF vars, nicVars, linkVars
<1>. QED
  BY <1>1, <1>2, <1>3, <1>4, <1>5, <1>6, <1>7, <1>8, <1>9, <1>10,
     <1>11, <1>12, <1>13, <1>14, <1>15, <1>16, <1>17, <1>18, <1>19, <1>20,
     <1>21, <1>22
     DEF Next, Running, ProcessSendQ, VerbCompletion, Nic, Rest, Dead

(* A fresh terminal has no read under way.                                 *)
LEMMA ReadInit == ASSUME Init PROVE ReadInv
PROOF
<1>1. /\ pendingRead = 0 /\ wire = <<>> /\ resp = <<>> /\ cq = 0 /\ conns = 1
  BY DEF Init
<1>2. Cardinality(PostedReads(wire)) = 0 /\ Len(resp) = 0
  BY <1>1, FS_EmptySet DEF PostedReads
<1>3. ReadsUnderWay = 0  BY <1>1, <1>2, AccountReads
<1>. QED  BY <1>1, <1>3 DEF ReadInv, ReadAccounting

(* m_pendingRead never says less than what is under way, whatever the      *)
(* adapter answers and however the connection ends, and on a terminal's    *)
(* first connection it says exactly that.                                  *)
THEOREM ReadsAccounted == Spec => []ReadAccounting
PROOF
<1>1. SenderInv /\ ReadInv /\ [Next]_vars => ReadInv'  BY ReadStep
<1>2. ReadInv => ReadAccounting  BY DEF ReadInv
<1>. QED  BY <1>1, <1>2, ReadInit, SenderInvariant, PTL DEF Spec

-----------------------------------------------------------------------------
(* The bound on the reads under way.                                       *)

(* The threads between the test of m_pendingRead and its increment.        *)
Readers == { t \in Workers : pc[t] \in {"read", "fullRead"} }

(* There are never more of them than threads.                              *)
LEMMA ReadersFinite ==
  /\ IsFiniteSet(Workers) /\ Cardinality(Workers) \in Nat
  /\ \A S \in SUBSET Workers :
       /\ IsFiniteSet(S) /\ Cardinality(S) \in Nat
       /\ Cardinality(S) <= Cardinality(Workers)
PROOF
<1>1. IsFiniteSet(Workers)
  BY FS_AddElement, SendPathAssumption DEF Workers
<1>. QED  BY <1>1, FS_Subset, FS_CardinalityType

(* A step that leaves the counter alone and lets no thread in.             *)
LEMMA BoundFrame ==
  ASSUME SenderInv, PendingReadBound, UNCHANGED pendingRead,
         \A u \in Workers :
           pc'[u] \in {"read", "fullRead"} => pc[u] \in {"read", "fullRead"}
  PROVE  PendingReadBound'
PROOF
<1>1. Readers' \subseteq Readers  BY DEF Readers
<1>2. Readers \in SUBSET Workers /\ Readers' \in SUBSET Workers
  BY DEF Readers
<1>3. Cardinality(Readers') <= Cardinality(Readers)
  BY <1>1, <1>2, ReadersFinite, FS_Subset
<1>4. /\ Cardinality(Readers) \in Nat /\ Cardinality(Readers') \in Nat
      /\ Cardinality(Workers) \in Nat
  BY <1>2, ReadersFinite
<1>5. pendingRead \in Int /\ MaxPendingRead \in Nat
  BY SendPathAssumption DEF SenderInv, TypeOK
<1>6. /\ PendingReadBound
          <=> pendingRead + Cardinality(Readers)
                <= MaxPendingRead + Cardinality(Workers) - 1
      /\ PendingReadBound'
          <=> pendingRead' + Cardinality(Readers')
                <= MaxPendingRead + Cardinality(Workers) - 1
  BY DEF PendingReadBound, Readers
<1>. QED  BY <1>3, <1>4, <1>5, <1>6

(* Passing the test needs room for one more read, and every other thread   *)
(* can be past its test as well.                                           *)
LEMMA BoundEnter ==
  ASSUME SenderInv, PendingReadBound, UNCHANGED pendingRead,
         pendingRead < MaxPendingRead
  PROVE  PendingReadBound'
PROOF
<1>1. Readers' \in SUBSET Workers  BY DEF Readers
<1>2. /\ Cardinality(Readers') \in Nat /\ Cardinality(Workers) \in Nat
      /\ Cardinality(Readers') <= Cardinality(Workers)
  BY <1>1, ReadersFinite
<1>3. pendingRead \in Int /\ MaxPendingRead \in Nat
  BY SendPathAssumption DEF SenderInv, TypeOK
<1>4. pendingRead' + Cardinality(Readers')
        <= MaxPendingRead + Cardinality(Workers) - 1
  BY <1>2, <1>3
<1>. QED  BY <1>4 DEF PendingReadBound, Readers

(* Incrementing takes the thread out of the readers.                       *)
LEMMA BoundIssue ==
  ASSUME SenderInv, PendingReadBound, NEW t \in Workers,
         pc[t] \in {"read", "fullRead"}, pendingRead' = pendingRead + 1,
         pc'[t] \in {"next", "idle"},
         \A u \in Workers \ {t} : pc'[u] = pc[u]
  PROVE  PendingReadBound'
PROOF
<1>1. Readers' = Readers \ {t} /\ t \in Readers  BY DEF Readers
<1>2. Readers \in SUBSET Workers  BY DEF Readers
<1>3. IsFiniteSet(Readers) /\ Cardinality(Readers) \in Nat
  BY <1>2, ReadersFinite
<1>4. Cardinality(Readers') = Cardinality(Readers) - 1
  BY <1>1, <1>3, FS_RemoveElement
<1>5. pendingRead \in Int /\ MaxPendingRead \in Nat
  BY SendPathAssumption DEF SenderInv, TypeOK
<1>6. pendingRead + Cardinality(Readers)
        <= MaxPendingRead + Cardinality(Workers) - 1
  BY DEF PendingReadBound, Readers
<1>7. Cardinality(Workers) \in Nat  BY ReadersFinite
<1>8. pendingRead' + Cardinality(Readers')
        <= MaxPendingRead + Cardinality(Workers) - 1
  BY <1>3, <1>4, <1>5, <1>6, <1>7
<1>. QED  BY <1>8 DEF PendingReadBound, Readers

(* Every step preserves the bound.                                         *)
LEMMA BoundStep ==
  ASSUME SenderInv, PendingReadBound, [Next]_vars
  PROVE  PendingReadBound'
PROOF
<1>. USE DEF Workers
<1>p. pc \in [Workers -> Labels]  BY DEF SenderInv, TypeOK, ThreadType
<1>1. ASSUME NEW t \in Threads, NEW m \in Msgs, SendBegin(t, m)
      PROVE  PendingReadBound'
  BY <1>1, <1>p, BoundFrame DEF SendBegin, Goto
<1>2. ASSUME NEW t \in Threads, SendInsert(t)  PROVE PendingReadBound'
  BY <1>2, <1>p, BoundFrame DEF SendInsert, Goto
<1>3. ASSUME NEW t \in Workers, SendTop(t)  PROVE PendingReadBound'
  BY <1>3, <1>p, BoundFrame DEF SendTop, Goto
<1>4. ASSUME NEW t \in Workers, SendFull(t)  PROVE PendingReadBound'
  BY <1>4, <1>p, BoundFrame DEF SendFull, Goto
<1>5. ASSUME NEW t \in Workers, SendToken(t)  PROVE PendingReadBound'
  BY <1>5, <1>p, BoundFrame DEF SendToken, Goto
<1>6. ASSUME NEW t \in Workers, SendWrite(t)  PROVE PendingReadBound'
  BY <1>6, <1>p, BoundFrame DEF SendWrite, Goto
<1>7. ASSUME NEW t \in Workers, ReadRmtEdge(t, "edge", "read", "next")
      PROVE  PendingReadBound'
  <2>1. /\ UNCHANGED pendingRead
        /\ Goto(t, IF open /\ pendingRead < MaxPendingRead
                     THEN "read" ELSE "next")
    BY <1>7 DEF ReadRmtEdge
  <2>2. CASE open /\ pendingRead < MaxPendingRead
    BY <2>1, <2>2, BoundEnter
  <2>3. CASE ~ (open /\ pendingRead < MaxPendingRead)
    BY <1>p, <2>1, <2>3, BoundFrame DEF Goto
  <2>. QED  BY <2>2, <2>3
<1>8. ASSUME NEW t \in Workers, IssueRead(t, "read", "next")
      PROVE  PendingReadBound'
  BY <1>8, <1>p, BoundIssue DEF IssueRead, Goto
<1>9. ASSUME NEW t \in Workers, ReadRmtEdge(t, "fullEdge", "fullRead", "idle")
      PROVE  PendingReadBound'
  <2>1. /\ UNCHANGED pendingRead
        /\ Goto(t, IF open /\ pendingRead < MaxPendingRead
                     THEN "fullRead" ELSE "idle")
    BY <1>9 DEF ReadRmtEdge
  <2>2. CASE open /\ pendingRead < MaxPendingRead
    BY <2>1, <2>2, BoundEnter
  <2>3. CASE ~ (open /\ pendingRead < MaxPendingRead)
    BY <1>p, <2>1, <2>3, BoundFrame DEF Goto
  <2>. QED  BY <2>2, <2>3
<1>10. ASSUME NEW t \in Workers, IssueRead(t, "fullRead", "idle")
      PROVE  PendingReadBound'
  BY <1>10, <1>p, BoundIssue DEF IssueRead, Goto
<1>11. ASSUME NEW t \in Workers, SendNext(t)  PROVE PendingReadBound'
  BY <1>11, <1>p, BoundFrame DEF SendNext, Goto
<1>12. ASSUME NEW t \in Workers, SendPop(t)  PROVE PendingReadBound'
  BY <1>12, <1>p, BoundFrame DEF SendPop, Goto
<1>13. ASSUME CompleteRead  PROVE PendingReadBound'
  <2>1. pendingRead' = pendingRead - 1  BY <1>13 DEF CompleteRead
  <2>2. Readers' \subseteq Readers
    BY <1>13, <1>p DEF CompleteRead, Goto, Readers
  <2>3. Readers \in SUBSET Workers /\ Readers' \in SUBSET Workers
    BY DEF Readers
  <2>4. Cardinality(Readers') <= Cardinality(Readers)
    BY <2>2, <2>3, ReadersFinite, FS_Subset
  <2>5. /\ Cardinality(Readers) \in Nat /\ Cardinality(Readers') \in Nat
        /\ Cardinality(Workers) \in Nat
    BY <2>3, ReadersFinite
  <2>6. pendingRead \in Int /\ MaxPendingRead \in Nat
    BY SendPathAssumption DEF SenderInv, TypeOK
  <2>7. pendingRead + Cardinality(Readers)
          <= MaxPendingRead + Cardinality(Workers) - 1
    BY DEF PendingReadBound, Readers
  <2>8. pendingRead' + Cardinality(Readers')
          <= MaxPendingRead + Cardinality(Workers) - 1
    BY <2>1, <2>4, <2>5, <2>6, <2>7
  <2>. QED  BY <2>8 DEF PendingReadBound, Readers
<1>14. ASSUME ResumeSend  PROVE PendingReadBound'
  BY <1>14, <1>p, BoundFrame DEF ResumeSend, Goto
<1>15. ASSUME NicWrite  PROVE PendingReadBound'
  BY <1>15, <1>p, BoundFrame DEF NicWrite, threadVars
<1>16. ASSUME NicRead  PROVE PendingReadBound'
  BY <1>16, <1>p, BoundFrame DEF NicRead, threadVars
<1>17. ASSUME NicReadLands  PROVE PendingReadBound'
  BY <1>17, <1>p, BoundFrame DEF NicReadLands, threadVars
<1>18. ASSUME Receive  PROVE PendingReadBound'
  BY <1>18, <1>p, BoundFrame DEF Receive, threadVars
<1>19. ASSUME Disconnect  PROVE PendingReadBound'
  BY <1>19, <1>p, BoundFrame DEF Disconnect, threadVars
<1>20. ASSUME CloseTerminal  PROVE PendingReadBound'
  BY <1>20, <1>p, BoundFrame DEF CloseTerminal, threadVars
<1>21. ASSUME StartTerminal  PROVE PendingReadBound'
  BY <1>21, <1>p, BoundFrame DEF StartTerminal, threadVars
<1>22. ASSUME UNCHANGED vars  PROVE PendingReadBound'
  BY <1>22, BoundFrame DEF vars, threadVars
<1>. QED
  BY <1>1, <1>2, <1>3, <1>4, <1>5, <1>6, <1>7, <1>8, <1>9, <1>10,
     <1>11, <1>12, <1>13, <1>14, <1>15, <1>16, <1>17, <1>18, <1>19, <1>20,
     <1>21, <1>22
     DEF Next, Running, ProcessSendQ, VerbCompletion, Nic, Rest, Dead

(* The bound holds before any read is issued.                              *)
LEMMA BoundInit == ASSUME Init PROVE PendingReadBound
PROOF
<1>1. Readers = {} /\ pendingRead = 0  BY DEF Init, Readers
<1>2. Cardinality(Readers) = 0  BY <1>1, FS_EmptySet
<1>3. Cardinality(Workers) \in Nat \ {0}
  <2>1. Workers # {}  BY DEF Workers
  <2>. QED  BY <2>1, ReadersFinite, FS_EmptySet
<1>4. pendingRead + Cardinality(Readers)
        <= MaxPendingRead + Cardinality(Workers) - 1
  BY <1>1, <1>2, <1>3, SendPathAssumption
<1>. QED  BY <1>4 DEF PendingReadBound, Readers

(* However many threads are in ReadRmtEdge at once, m_pendingRead exceeds  *)
(* MAX_PENDING_READ by less than their number, on every connection.        *)
THEOREM ReadsBounded == Spec => []PendingReadBound
PROOF
<1>1. SenderInv /\ PendingReadBound /\ [Next]_vars => PendingReadBound'
  BY BoundStep
<1>. QED  BY <1>1, BoundInit, SenderInvariant, PTL DEF Spec

=============================================================================
