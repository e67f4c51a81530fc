------------------------------ MODULE SendPath ------------------------------
(***************************************************************************)
(* The send direction of one Terminal: Send, ProcessSendQ, ReadRmtEdge and *)
(* StartTerminal, run by concurrent threads, over a queue pair whose       *)
(* remote end consumes the peer's receive ring.                            *)
(*                                                                         *)
(* Every thread has a program counter.  A step is what lies between two    *)
(* accesses to state that another thread, the adapter or the peer also     *)
(* uses, so that every interleaving the source allows is a behaviour.      *)
(*                                                                         *)
(* Lengths and edges are in units of 16 bytes (RingFrame).  m_sndQue is    *)
(* kept in reverse: the source inserts at begin() and takes back(), here   *)
(* Append and Head.                                                        *)
(*                                                                         *)
(* External, modelled from how the source uses them: the adapter (RDMA     *)
(* writes and reads of one queue pair are executed in order; a read lands  *)
(* in m_sndEnd.TrailingEdge; calls on a disconnected queue pair return     *)
(* ND_CANCELED), the peer's Poller and Conveyor, and the bodies of         *)
(* VerbCompletion and TerminalCloser, which the repository declares but    *)
(* does not contain.                                                       *)
(***************************************************************************)
EXTENDS Integers, Sequences, FiniteSets, RingFrame

CONSTANTS
  Threads,         (* user threads that call Send                          *)
  CqThread,        (* the IOCP thread on which VerbCompletion runs         *)
  NoThread,        (* m_sndLock is free                                    *)
  Msgs,            (* the messages; each is sent at most once              *)
  NoMsg,
  MsgSize,         (* size of each message, in units                       *)
  BufSize,         (* m_bufSize, in units                                  *)
  PacketSize,      (* Terminal::PACKET_SIZE, in units                      *)
  MaxPendingRead,  (* Terminal::MAX_PENDING_READ                           *)
  MaxConns,        (* bound: connections the terminal serves in turn       *)
  TornBack         (* the unlocked m_sndQue.back() of ProcessSendQ may     *)
                   (* observe a concurrent insert half way (a data race)   *)

Workers == Threads \cup {CqThread}

ASSUME SendPathAssumption ==
  /\ IsFiniteSet(Threads)
  /\ CqThread \notin Threads
  /\ NoThread \notin Workers
  /\ NoMsg \notin Msgs
  /\ MsgSize \in [Msgs -> Nat]
  /\ BufSize \in Nat \ {0}
  /\ PacketSize \in Nat \ {0}
  /\ MaxPendingRead \in Nat \ {0}
  /\ MaxConns \in Nat \ {0}
  /\ TornBack \in BOOLEAN

(* LocateInRingBuf asserts it of the ring.                                 *)
ASSUME RingPower2 == IsPower2(BufSize)

VARIABLES
  (* Terminal                                                              *)
  sndQue,           (* m_sndQue, oldest request first                      *)
  sndLock,          (* holder of m_sndLock                                 *)
  sndRunning,       (* m_sndRunning                                        *)
  mSndIdx,          (* m_mSndIdx                                           *)
  sndWriteEdge,     (* m_sndEnd.WriteEdge                                  *)
  sndTrailingEdge,  (* m_sndEnd.TrailingEdge                               *)
  pendingRead,      (* m_pendingRead                                       *)
  open,             (* socket Connected, remote tokens not zero            *)
  sndBuf,           (* the local send ring                                 *)
  (* threads                                                               *)
  pc,               (* where each thread is                                *)
  loc,              (* locals of Send and ProcessSendQ                     *)
  (* queue pair and completion queue                                       *)
  qpUp,             (* the connection is established                       *)
  wire,             (* posted requests not yet executed                    *)
  resp,             (* read responses on their way back                    *)
  cq,               (* read completions VerbCompletion has not seen        *)
  (* peer                                                                  *)
  rmtBuf,           (* the peer's receive ring                             *)
  rmtWriteEdge,     (* the peer's m_rcvEnd.WriteEdge                       *)
  rmtTrailingEdge,  (* the peer's m_rcvEnd.TrailingEdge                    *)
  rcvIdx,           (* m_mRcvIdx                                           *)
  rcvSize,          (* m_mRcvSize                                          *)
  rcvUnits,         (* m_rcvBuf: what of a long message has arrived        *)
  (* history                                                               *)
  unsent, accepted, completed, delivered,
  conns,            (* connections served so far, this one included        *)
  failed            (* the Audit failure that ended the process            *)

queueVars == <<sndQue, sndLock, sndRunning, mSndIdx>>
edgeVars  == <<sndWriteEdge, sndTrailingEdge, sndBuf>>
linkVars  == <<open, qpUp, conns>>
nicVars   == <<wire, resp, cq>>
peerVars  == <<rmtBuf, rmtWriteEdge, rmtTrailingEdge, rcvIdx, rcvSize,
               rcvUnits>>
histVars  == <<unsent, accepted, completed, delivered>>
threadVars == <<pc, loc>>

vars == <<queueVars, edgeVars, pendingRead, linkVars, nicVars, peerVars,
          histVars, threadVars, failed>>

Offsets == 0 .. BufSize - 1

(* Contents of one ring unit: nothing, a header or footer with its Size    *)
(* and Seq (its Crc stands for the content, here the message), or unit num *)
(* of a message.                                                           *)
Cell == [kind : {"zero", "end", "unit"}, msg : Msgs \cup {NoMsg},
         num : Nat, seq : Int]

Zero              == [kind |-> "zero", msg |-> NoMsg, num |-> 0, seq |-> 0]
End(m, size, seq) == [kind |-> "end", msg |-> m, num |-> size, seq |-> seq]
Unit(m, k)        == [kind |-> "unit", msg |-> m, num |-> k, seq |-> 0]

Locate(edge, size) == LocateInRingBuf(BufSize, edge, size)

Labels == {"idle", "insert", "top", "full", "fullEdge", "fullRead", "token",
           "write", "edge", "read", "next", "pop", "resume"}

(* The message of the assertion in the last critical section.              *)
RaceDetected == "Race condition detected in process send queue"

NoLocals == [req |-> NoMsg, rest |-> 0, edge |-> 0]

Goto(t, label) == pc' = [pc EXCEPT ![t] = label]

(* Locals die when the function returns or the loop starts over.           *)
Forget(t) == loc' = [loc EXCEPT ![t] = NoLocals]

-----------------------------------------------------------------------------
(* Send                                                                    *)

(* The checks of Send (the handle is valid, the socket is Connected) and   *)
(* the acquisition of m_sndLock.  A call that fails them changes nothing.  *)
SendBegin(t, m) ==
  /\ pc[t] = "idle"
  /\ m \in unsent
  /\ open
  /\ sndLock = NoThread
  /\ sndLock' = t
  /\ unsent' = unsent \ {m}
  /\ loc' = [loc EXCEPT ![t].req = m]
  /\ Goto(t, "insert")
  /\ UNCHANGED <<sndQue, sndRunning, mSndIdx, edgeVars, pendingRead, linkVars,
                 nicVars, peerVars, accepted, completed, delivered, failed>>

(* Slip: the flag is not tested.                                           *)
EverybodySends == TRUE

(* if (m_sndRunning) return: only one thread at a time is the sender.      *)
BecomesSender == ~ sndRunning

(* The rest of the critical section: queue the request and become the      *)
(* sender of this terminal unless some thread already is.                  *)
SendInsert(t) ==
  /\ pc[t] = "insert"
  /\ sndQue' = Append(sndQue, loc[t].req)
  /\ accepted' = Append(accepted, loc[t].req)
  /\ sndRunning' = TRUE
  /\ sndLock' = NoThread
  /\ Goto(t, IF BecomesSender THEN "top" ELSE "idle")
  /\ Forget(t)
  /\ UNCHANGED <<mSndIdx, edgeVars, pendingRead, linkVars, nicVars, peerVars,
                 unsent, completed, delivered, failed>>

-----------------------------------------------------------------------------
(* ProcessSendQ                                                            *)

(* Requests subspan accepts at m_mSndIdx: for a shorter message its bounds *)
(* check ends the thread.                                                  *)
Takeable(reqs) == { m \in reqs : mSndIdx * PacketSize <= MsgSize[m] }

(* Slip: the newest request instead of the oldest.                         *)
FrontOutcomes == Takeable({sndQue[Len(sndQue)]})

(* What the unlocked m_sndQue.back() may return.  While another thread     *)
(* shifts or reallocates the vector inside insert, the element read can be *)
(* any request that is being moved, the new one included.                  *)
BackOutcomes ==
  Takeable(IF TornBack /\ sndLock # NoThread
             THEN {sndQue[i] : i \in 1 .. Len(sndQue)} \cup {loc[sndLock].req}
             ELSE {Head(sndQue)})

(* Slip: header and footer are not counted.                                *)
FitsPayload(size) == size - 2 * MsgEnd <= sndTrailingEdge - sndWriteEdge

(* pktSize <= available, where available is an unsigned difference: it is  *)
(* huge when the trailing edge is behind the write edge.                   *)
Fits(size) ==
  \/ sndTrailingEdge < sndWriteEdge
  \/ size <= sndTrailingEdge - sndWriteEdge

(* The local send ring with the packet at index idx of message m put down. *)
PutFrame(m, idx, rest) ==
  LET size   == PktSize(rest, PacketSize)
      f      == Locate(sndWriteEdge, size)
      msgEnd == End(m, rest, SeqOf(idx, rest, PacketSize))
      first  == idx * PacketSize
  IN  [ c \in Offsets |->
          IF c \in {f.start, f.end} THEN msgEnd
          ELSE IF c \in f.data .. f.data + f.len1 - 1
            THEN Unit(m, first + (c - f.data))
          ELSE IF c < f.len2 THEN Unit(m, first + f.len1 + c)
          ELSE sndBuf[c] ]

(* Top of the loop, up to the reading of the remote token.                 *)
SendTop(t) ==
  /\ pc[t] = "top"
  /\ \E m \in BackOutcomes :
       LET rest == MsgSize[m] - mSndIdx * PacketSize
           size == PktSize(rest, PacketSize)
       IN  /\ loc' = [loc EXCEPT ![t] =
                        [req |-> m, rest |-> rest, edge |-> sndWriteEdge]]
           /\ \/ /\ ~ Fits(size)
                 /\ Goto(t, "full")
                 /\ UNCHANGED edgeVars
              \/ /\ Fits(size)
                 /\ sndBuf' = PutFrame(m, mSndIdx, rest)
                 /\ sndWriteEdge' = sndWriteEdge + size
                 /\ Goto(t, "token")
                 /\ UNCHANGED sndTrailingEdge
  /\ UNCHANGED <<queueVars, pendingRead, linkVars, nicVars, peerVars, histVars,
                 failed>>

(* Slip: the full branch returns without asking for the remote edge.       *)
SendFullSilent(t) ==
  /\ pc[t] = "full"
  /\ sndRunning' = FALSE
  /\ Goto(t, "idle")
  /\ Forget(t)
  /\ UNCHANGED <<sndQue, sndLock, mSndIdx, edgeVars, pendingRead, linkVars,
                 nicVars, peerVars, histVars, failed>>

(* No room: give up being the sender (without the lock), then ask for the  *)
(* remote trailing edge.                                                   *)
SendFull(t) ==
  /\ pc[t] = "full"
  /\ sndRunning' = FALSE
  /\ Goto(t, "fullEdge")
  /\ Forget(t)
  /\ UNCHANGED <<sndQue, sndLock, mSndIdx, edgeVars, pendingRead, linkVars,
                 nicVars, peerVars, histVars, failed>>

(* rmtToken == 0: the connection is closing, drop everything.              *)
SendToken(t) ==
  /\ pc[t] = "token"
  /\ \/ open /\ Goto(t, "write") /\ UNCHANGED <<sndRunning, loc>>
     \/ ~ open /\ Goto(t, "idle") /\ sndRunning' = FALSE /\ Forget(t)
  /\ UNCHANGED <<sndQue, sndLock, mSndIdx, edgeVars, pendingRead, linkVars,
                 nicVars, peerVars, histVars, failed>>

(* A request posted on the queue pair, with the cells a write covers.      *)
Request == [op : {"write", "read"}, cells : SUBSET Int]

WriteReq(cells) == [op |-> "write", cells |-> cells]
ReadReq         == [op |-> "read", cells |-> {}]

ReadsPosted == Cardinality({i \in 1 .. Len(wire) : wire[i].op = "read"})

(* Issue the RDMA write, or the two of a split frame.  On a disconnected   *)
(* queue pair Write returns ND_CANCELED, which the source tolerates for    *)
(* the part with the header and not for the part at the ring's start.      *)
SendWrite(t) ==
  LET size == PktSize(loc[t].rest, PacketSize)
      f    == Locate(loc[t].edge, size)
  IN  /\ pc[t] = "write"
      /\ wire' = IF ~ qpUp THEN wire
                 ELSE IF IsSplit(f)
                   THEN wire \o << WriteReq(FirstWrite(f, size)),
                                   WriteReq(SecondWrite(f)) >>
                   ELSE Append(wire, WriteReq(FirstWrite(f, size)))
      /\ failed' = IF ~ qpUp /\ IsSplit(f) THEN "RDMA write failure" ELSE failed
      /\ Goto(t, "edge")
      /\ UNCHANGED <<queueVars, edgeVars, pendingRead, linkVars, resp, cq,
                     peerVars, histVars, loc>>

(* Slip: reads are not limited.                                            *)
ReadUnlimited(t, here, issue, done) ==
  /\ pc[t] = here
  /\ Goto(t, IF open THEN issue ELSE done)
  /\ UNCHANGED <<queueVars, edgeVars, pendingRead, linkVars, nicVars, peerVars,
                 histVars, loc, failed>>

(* ReadRmtEdge, the two tests: the token, and the number of reads under    *)
(* way.  It is called from two places, here and there name them.           *)
ReadRmtEdge(t, here, issue, done) ==
  /\ pc[t] = here
  /\ Goto(t, IF open /\ pendingRead < MaxPendingRead THEN issue ELSE done)
  /\ UNCHANGED <<queueVars, edgeVars, pendingRead, linkVars, nicVars, peerVars,
                 histVars, loc, failed>>

(* Slip: m_pendingRead is not incremented.                                 *)
IssueReadUncounted(t, here, done) ==
  /\ pc[t] = here
  /\ wire' = IF qpUp THEN Append(wire, ReadReq) ELSE wire
  /\ Goto(t, done)
  /\ UNCHANGED <<queueVars, edgeVars, pendingRead, linkVars, resp, cq, peerVars,
                 histVars, loc, failed>>

(* ReadRmtEdge, the increment and the RDMA read.  ND_CANCELED is ignored.  *)
IssueRead(t, here, done) ==
  /\ pc[t] = here
  /\ pendingRead' = pendingRead + 1
  /\ wire' = IF qpUp THEN Append(wire, ReadReq) ELSE wire
  /\ Goto(t, done)
  /\ UNCHANGED <<queueVars, edgeVars, linkVars, resp, cq, peerVars, histVars,
                 loc, failed>>

(* Slips: not reset after the last packet; counting the wrong way.         *)
IdxNoReset(rest)   == mSndIdx + 1
IdxCountdown(rest) == IF rest > PacketSize THEN mSndIdx - 1 ELSE 0

(* m_mSndIdx after the packet: the next one, or the first of the next      *)
(* message.                                                                *)
NextIdx(rest) == IF rest > PacketSize THEN mSndIdx + 1 ELSE 0

(* Go on with the next packet of the message, or tell the caller it is     *)
(* finished (a Send made from within the callback is a Send of another     *)
(* thread: it finds m_sndRunning set).                                     *)
SendNext(t) ==
  /\ pc[t] = "next"
  /\ mSndIdx' = NextIdx(loc[t].rest)
  /\ \/ /\ loc[t].rest > PacketSize
        /\ Goto(t, "top")
        /\ UNCHANGED completed
     \/ /\ loc[t].rest <= PacketSize
        /\ completed' = Append(completed, loc[t].req)
        /\ Goto(t, "pop")
  /\ UNCHANGED <<sndQue, sndLock, sndRunning, edgeVars, pendingRead, linkVars,
                 nicVars, peerVars, unsent, accepted, delivered, loc, failed>>

(* The critical section at the end of the loop, with its assertion.        *)
SendPop(t) ==
  /\ pc[t] = "pop"
  /\ sndLock = NoThread
  /\ failed' = IF loc[t].req = Head(sndQue) THEN failed
               ELSE RaceDetected
  /\ sndQue' = Tail(sndQue)
  /\ sndRunning' = (Len(sndQue) > 1)
  /\ Goto(t, IF Len(sndQue) > 1 THEN "top" ELSE "idle")
  /\ Forget(t)
  /\ UNCHANGED <<sndLock, mSndIdx, edgeVars, pendingRead, linkVars, nicVars,
                 peerVars, histVars>>

-----------------------------------------------------------------------------
(* VerbCompletion (external): a completed read frees its slot, and the     *)
(* handler resumes the queue if nobody is sending.                         *)

CompleteRead ==
  /\ pc[CqThread] = "idle"
  /\ cq > 0
  /\ cq' = cq - 1
  /\ pendingRead' = pendingRead - 1
  /\ Goto(CqThread, "resume")
  /\ UNCHANGED <<queueVars, edgeVars, linkVars, wire, resp, peerVars, histVars,
                 loc, failed>>

ResumeSend ==
  LET resume == sndQue # <<>> /\ BecomesSender
  IN  /\ pc[CqThread] = "resume"
      /\ sndLock = NoThread
      /\ sndRunning' = (sndRunning \/ resume)
      /\ Goto(CqThread, IF resume THEN "top" ELSE "idle")
      /\ UNCHANGED <<sndQue, sndLock, mSndIdx, edgeVars, pendingRead, linkVars,
                     nicVars, peerVars, histVars, loc, failed>>

-----------------------------------------------------------------------------
(* The adapter (external).                                                 *)

(* A write takes its data from the local ring when it is executed.         *)
NicWrite ==
  /\ wire # <<>>
  /\ Head(wire).op = "write"
  /\ rmtBuf' = [c \in Offsets |-> IF c \in Head(wire).cells
                                    THEN sndBuf[c] ELSE rmtBuf[c]]
  /\ wire' = Tail(wire)
  /\ UNCHANGED <<queueVars, edgeVars, pendingRead, linkVars, resp, cq,
                 rmtWriteEdge, rmtTrailingEdge, rcvIdx, rcvSize, rcvUnits,
                 histVars, threadVars, failed>>

(* A read samples the peer's trailing edge when it is executed ...         *)
NicRead ==
  /\ wire # <<>>
  /\ Head(wire).op = "read"
  /\ resp' = Append(resp, rmtTrailingEdge)
  /\ wire' = Tail(wire)
  /\ UNCHANGED <<queueVars, edgeVars, pendingRead, linkVars, cq, peerVars,
                 histVars, threadVars, failed>>

(* ... and lands in m_sndEnd.TrailingEdge some time later.                 *)
NicReadLands ==
  /\ resp # <<>>
  /\ sndTrailingEdge' = Head(resp)
  /\ resp' = Tail(resp)
  /\ cq' = cq + 1
  /\ UNCHANGED <<queueVars, sndWriteEdge, sndBuf, pendingRead, linkVars, wire,
                 peerVars, histVars, threadVars, failed>>

-----------------------------------------------------------------------------
(* The peer's Poller and Conveyor (external): once header and footer of    *)
(* the frame at its write edge are there, take the data, clear the frame   *)
(* and move both edges.                                                    *)

RcvPos(i) == RingPos(BufSize, rmtWriteEdge, i)

RcvHeader == rmtBuf[RcvPos(0)]

(* A message whose units all arrived, in order, is that message.           *)
Reassembled(m, units) ==
  IF units = [i \in 1 .. MsgSize[m] |-> Unit(m, i - 1)] THEN m ELSE NoMsg

Receive ==
  LET m     == RcvHeader.msg
      seq   == RcvHeader.seq
      size  == PktSize(RcvHeader.num, PacketSize)
      data  == [i \in 1 .. size - 2 * MsgEnd |-> rmtBuf[RcvPos(i)]]
      units == IF seq <= 0 THEN data ELSE rcvUnits \o data
      total == IF seq < 0 THEN 0 - seq ELSE rcvSize
      idx   == IF seq < 0 THEN 1 ELSE rcvIdx + 1
      whole == seq = 0 \/ idx = total
  IN  /\ RcvHeader.kind = "end"
      /\ rmtBuf[RcvPos(size - 1)] = RcvHeader
      /\ rmtBuf' = [c \in Offsets |->
                      IF c \in {RcvPos(i) : i \in 0 .. size - 1}
                        THEN Zero ELSE rmtBuf[c]]
      /\ rmtWriteEdge' = rmtWriteEdge + size
      /\ rmtTrailingEdge' = rmtTrailingEdge + size
      /\ rcvIdx' = IF whole THEN 0 ELSE idx
      /\ rcvSize' = IF whole THEN 0 ELSE total
      /\ rcvUnits' = IF whole THEN <<>> ELSE units
      /\ delivered' = IF ~ whole THEN delivered
                      ELSE Append(delivered,
                                  IF seq <= 0 \/ seq = rcvIdx
                                    THEN Reassembled(m, units) ELSE NoMsg)
      /\ UNCHANGED <<queueVars, edgeVars, pendingRead, linkVars, nicVars,
                     unsent, accepted, completed, threadVars, failed>>

-----------------------------------------------------------------------------
(* End and reuse of a connection.                                          *)

(* The link goes down (external): requests under way are flushed, reads    *)
(* with a completion; from now on the adapter answers ND_CANCELED.         *)
Disconnect ==
  /\ qpUp
  /\ qpUp' = FALSE
  /\ wire' = <<>>
  /\ resp' = <<>>
  /\ cq' = cq + Len(resp) + ReadsPosted
  /\ UNCHANGED <<queueVars, edgeVars, pendingRead, open, conns, peerVars,
                 histVars, threadVars, failed>>

(* TerminalCloser (external) zeroes the remote tokens.                     *)
CloseTerminal ==
  /\ ~ qpUp
  /\ open
  /\ open' = FALSE
  /\ UNCHANGED <<queueVars, edgeVars, pendingRead, qpUp, conns, nicVars,
                 peerVars, histVars, threadVars, failed>>

(* The terminal, drained and back from the pool (Cleanup, VoidFlds), is    *)
(* prepared (a new queue pair) and started.  m_pendingRead is a field      *)
(* that none of Cleanup, VoidFlds, Prepare and StartTerminal touches.      *)
StartTerminal ==
  /\ ~ open
  /\ cq = 0
  /\ \A t \in Workers : pc[t] = "idle"
  /\ conns < MaxConns
  /\ conns' = conns + 1
  /\ open' = TRUE
  /\ qpUp' = TRUE
  /\ wire' = <<>>
  /\ resp' = <<>>
  /\ sndQue' = <<>>
  /\ sndRunning' = FALSE
  /\ mSndIdx' = 0
  /\ sndWriteEdge' = 0
  /\ sndTrailingEdge' = BufSize
  /\ rmtBuf' = [c \in Offsets |-> Zero]
  /\ rmtWriteEdge' = 0
  /\ rmtTrailingEdge' = BufSize
  /\ rcvIdx' = 0
  /\ rcvSize' = 0
  /\ rcvUnits' = <<>>
  /\ accepted' = <<>>
  /\ completed' = <<>>
  /\ delivered' = <<>>
  /\ UNCHANGED <<sndLock, sndBuf, pendingRead, cq, unsent, threadVars, failed>>

-----------------------------------------------------------------------------

Init ==
  /\ sndQue = <<>>
  /\ sndLock = NoThread
  /\ sndRunning = FALSE
  /\ mSndIdx = 0
  /\ sndWriteEdge = 0
  /\ sndTrailingEdge = BufSize
  /\ sndBuf = [c \in Offsets |-> Zero]
  /\ pendingRead = 0
  /\ open = TRUE
  /\ qpUp = TRUE
  /\ conns = 1
  /\ wire = <<>>
  /\ resp = <<>>
  /\ cq = 0
  /\ rmtBuf = [c \in Offsets |-> Zero]
  /\ rmtWriteEdge = 0
  /\ rmtTrailingEdge = BufSize
  /\ rcvIdx = 0
  /\ rcvSize = 0
  /\ rcvUnits = <<>>
  /\ unsent = Msgs
  /\ accepted = <<>>
  /\ completed = <<>>
  /\ delivered = <<>>
  /\ pc = [t \in Workers |-> "idle"]
  /\ loc = [t \in Workers |-> NoLocals]
  /\ failed = "no"

(* One pass of the loop of ProcessSendQ, by whichever thread runs it.      *)
ProcessSendQ(t) ==
  \/ SendTop(t)
  \/ SendFull(t)
  \/ SendToken(t)
  \/ SendWrite(t)
  \/ ReadRmtEdge(t, "edge", "read", "next")
  \/ IssueRead(t, "read", "next")
  \/ ReadRmtEdge(t, "fullEdge", "fullRead", "idle")
  \/ IssueRead(t, "fullRead", "idle")
  \/ SendNext(t)
  \/ SendPop(t)

VerbCompletion == CompleteRead \/ ResumeSend

Nic == NicWrite \/ NicRead \/ NicReadLands

Running ==
  \/ \E t \in Threads : SendInsert(t) \/ \E m \in Msgs : SendBegin(t, m)
  \/ \E t \in Workers : ProcessSendQ(t)
  \/ VerbCompletion
  \/ Nic
  \/ Receive
  \/ Disconnect
  \/ CloseTerminal
  \/ StartTerminal

(* The bound is reached: the last connection is closed and drained.        *)
Rest ==
  /\ ~ open
  /\ conns = MaxConns
  /\ \A t \in Workers : pc[t] = "idle"
  /\ UNCHANGED vars

(* An Audit failure ended the process.                                     *)
Dead == failed # "no" /\ UNCHANGED vars

Next ==
  \/ failed = "no" /\ Running
  \/ Rest
  \/ Dead

Spec == Init /\ [][Next]_vars

(* The threads inside the library, the adapter and the peer do not stop.   *)
(* Nothing obliges a user to call Send or a connection to end.             *)
Fairness ==
  /\ \A t \in Threads : WF_vars(failed = "no" /\ SendInsert(t))
  /\ \A t \in Workers : WF_vars(failed = "no" /\ ProcessSendQ(t))
  /\ WF_vars(failed = "no" /\ VerbCompletion)
  /\ WF_vars(failed = "no" /\ Nic)
  /\ WF_vars(failed = "no" /\ NicReadLands)
  /\ WF_vars(failed = "no" /\ Receive)

FairSpec == Spec /\ Fairness

-----------------------------------------------------------------------------
(* Properties                                                              *)

QueueType ==
  /\ sndQue \in Seq(Msgs)
  /\ sndLock \in Workers \cup {NoThread}
  /\ sndRunning \in BOOLEAN
  /\ mSndIdx \in Nat

EdgeType ==
  /\ sndWriteEdge \in Nat
  /\ sndTrailingEdge \in Nat
  /\ sndBuf \in [Offsets -> Cell]

LinkType ==
  /\ open \in BOOLEAN
  /\ qpUp \in BOOLEAN
  /\ conns \in Nat

NicType ==
  /\ wire \in Seq(Request)
  /\ resp \in Seq(Nat)
  /\ cq \in Nat

PeerType ==
  /\ rmtBuf \in [Offsets -> Cell]
  /\ rmtWriteEdge \in Nat
  /\ rmtTrailingEdge \in Nat
  /\ rcvIdx \in Int
  /\ rcvSize \in Int
  /\ rcvUnits \in Seq(Cell)

HistType ==
  /\ unsent \subseteq Msgs
  /\ accepted \in Seq(Msgs)
  /\ completed \in Seq(Msgs)
  /\ delivered \in Seq(Msgs \cup {NoMsg})

ThreadType ==
  /\ pc \in [Workers -> Labels]
  /\ loc \in [Workers -> [req : Msgs \cup {NoMsg}, rest : Nat, edge : Nat]]

(* Every variable of the terminal, the adapter, the peer and the threads   *)
(* keeps its type.  Edges and sequence numbers are unbounded here: no      *)
(* message Send accepts exceeds the source's widths (uint64, int16).       *)
TypeOK ==
  /\ QueueType
  /\ EdgeType
  /\ LinkType
  /\ NicType
  /\ PeerType
  /\ HistType
  /\ ThreadType
  /\ pendingRead \in Int
  /\ failed \in {"no", "RDMA write failure", RaceDetected}

(* The part of ProcessSendQ that touches the queue, the write edge and the *)
(* local ring.  In the full branch m_sndRunning is already given up.       *)
Sending(t) == pc[t] \in {"top", "full", "token", "write", "edge", "read",
                         "next", "pop"}

(* "No two threads should process the sending of a connection at the same  *)
(* time": at most one thread is between the acquisition and the release of *)
(* m_sndRunning, the flag tells exactly whether one is, and it always      *)
(* finds a request in m_sndQue (the assertion at ProcessSendQ's start).    *)
SenderExclusive ==
  /\ \A t, u \in Workers : Sending(t) /\ Sending(u) => t = u
  /\ sndRunning <=> \E t \in Workers : Sending(t)
  /\ sndRunning => sndQue # <<>>

(* The assertion in the critical section of ProcessSendQ never fails.      *)
NoRaceDetected == failed # RaceDetected

(* Requests are completed once each and in the order Send accepted them:   *)
(* what was accepted is what was completed followed by what m_sndQue still *)
(* holds, and the request that leaves the queue is always the one whose    *)
(* callback was just called.                                               *)
CompletionOrder ==
  /\ accepted = completed \o (IF \E t \in Workers : pc[t] = "pop"
                                THEN Tail(sndQue) ELSE sndQue)
  /\ NoRaceDetected

(* m_mSndIdx always belongs to the request at the end of m_sndQue, across  *)
(* waits for room in the middle of a message: taking the rest of the       *)
(* message at it (subspan) stays within the message.                       *)
PacketInBounds ==
  sndQue # <<>> => \/ mSndIdx = 0
                   \/ mSndIdx * PacketSize < MsgSize[Head(sndQue)]

(* Flow control: the trailing edge the sender works with, and every one on *)
(* its way back, never exceeds what the peer has really freed, the values  *)
(* arrive in order, and the write edge never passes the trailing edge.     *)
(* So bytes the peer has not consumed are never overwritten.               *)
FlowControl ==
  /\ sndWriteEdge <= sndTrailingEdge
  /\ sndTrailingEdge <= rmtTrailingEdge
  /\ \A i \in 1 .. Len(resp) :
       sndTrailingEdge <= resp[i] /\ resp[i] <= rmtTrailingEdge
  /\ \A i, j \in 1 .. Len(resp) : i < j => resp[i] <= resp[j]
  /\ rmtTrailingEdge = rmtWriteEdge + BufSize

(* The cells of the frame a sender is about to post.                       *)
FrameCells(t) ==
  LET size == PktSize(loc[t].rest, PacketSize)
      f    == Locate(loc[t].edge, size)
  IN  FirstWrite(f, size) \cup SecondWrite(f)

(* RDMA writes are fire and forget: the adapter reads the local ring when  *)
(* it executes them.  Until then nobody puts another frame on the cells.   *)
PendingWritesStable ==
  /\ \A i, j \in 1 .. Len(wire) :
       i # j => wire[i].cells \cap wire[j].cells = {}
  /\ \A t \in Workers : pc[t] \in {"token", "write"} =>
       \A i \in 1 .. Len(wire) : wire[i].cells \cap FrameCells(t) = {}

(* Reads of the remote edge that were posted and not yet completed.        *)
ReadsUnderWay ==
  ReadsPosted + Len(resp) + cq

(* m_pendingRead counts the reads under way, and never fewer: otherwise    *)
(* reads would exceed the bound or, counted too high, stop altogether.     *)
(* Only a read refused on a closed connection may leave it too high.       *)
ReadAccounting ==
  /\ ReadsUnderWay <= pendingRead
  /\ qpUp /\ conns = 1 => pendingRead = ReadsUnderWay

(* MAX_PENDING_READ bounds the reads under way, up to the threads that     *)
(* overlap in ReadRmtEdge: its test and its increment are two steps, and a *)
(* thread in the full branch has already let the next sender in.           *)
PendingReadBound ==
  pendingRead + Cardinality({t \in Workers : pc[t] \in {"read", "fullRead"}})
    <= MaxPendingRead + Cardinality(Workers) - 1

Channel == INSTANCE MsgChannel WITH up <- qpUp /\ open

(* The send path and the peer implement the message channel: every message *)
(* completed and delivered once and in order.                              *)
ChannelSafety == Channel!Safety

(* ... and, while the connection lasts, everything accepted is completed   *)
(* and delivered.                                                          *)
ChannelProgress == Channel!Progress

(* "Notification of completion will be carried by sendCallback": a request *)
(* that was accepted is completed unless its connection ends.              *)
AcceptedCompletes ==
  \A m \in Msgs :
    (\E i \in 1 .. Len(accepted) : accepted[i] = m)
      ~> \/ \E i \in 1 .. Len(completed) : completed[i] = m
         \/ ~ qpUp

=============================================================================
