------------------------------ MODULE Slicing -------------------------------
(***************************************************************************)
(* How the factory and the constructor of HermesFixedRIO cut one large     *)
(* page into the buffer pairs, the Terminal table and the socket table.    *)
(*                                                                         *)
(* The unit is the one of RingFrame (16 bytes).  Word is the number of     *)
(* units a uint32_t can count (2^28): the offsets of the constructor are   *)
(* computed in 32 bits, the size of the page in 64.  h stands for the      *)
(* object: h.bufSize = m_bufSize, h.maxConnection = m_maxConnection and    *)
(* h.page, the span m_pMemory->GetData().                                  *)
(***************************************************************************)
EXTENDS RingFrame

CONSTANTS Word,           \* 2^32 bytes
          MinConBuf,      \* 4 Ki bytes, exclusive
          MaxConBuf,      \* 16 Mi bytes, exclusive
          ConnLimit,      \* 100 Ki, exclusive
          TermSize,       \* sizeof(Terminal)
          SockSize,       \* sizeof(HSocket)
          Granularity     \* GetLargePageMinimum()

ASSUME SlicingAssumption ==
  /\ Word \in Nat \ {0} /\ MinConBuf \in Nat /\ MaxConBuf \in Nat
  /\ ConnLimit \in Nat /\ TermSize \in Nat \ {0} /\ SockSize \in Nat \ {0}
  /\ Granularity \in Nat \ {0}

(* gsl::span: its first unit and its length; subspan stops the program     *)
(* when the part is not inside.                                            *)
Span(base, len) == [base |-> base, len |-> len]
Subspan(s, offset, count) == Span(s.base + offset, count)
InSpan(s, offset, count) == offset + count <= s.len

-----------------------------------------------------------------------------

(* What HermesFixedRIOFactory demands of its arguments.                    *)
Admitted(conBufSize, maxConnections) ==
  /\ conBufSize < MaxConBuf /\ conBufSize > MinConBuf
  /\ IsPower2(conBufSize)
  /\ maxConnections < ConnLimit
  /\ IsPower2(maxConnections)

(* Buffers, connection block and two sockets of one connection.            *)
TSize(conBufSize) == conBufSize + TermSize + 2 * SockSize

(* LargePageBuffer: the size is rounded up to whole large pages.           *)
AllocatedSize(conBufSize, maxConnections) ==
  ((TSize(conBufSize) * maxConnections + Granularity - 1) \div Granularity)
    * Granularity

AllocatedBuffers(conBufSize, maxConnections) ==
  AllocatedSize(conBufSize, maxConnections) \div TSize(conBufSize)

(* The members the factory hands to the constructor.                       *)
MakeHermes(conBufSize, maxConnections) ==
  [ bufSize       |-> conBufSize \div 2,
    maxConnection |-> maxConnections,
    page          |-> Span(0, AllocatedSize(conBufSize, maxConnections)) ]

-----------------------------------------------------------------------------

TotalBufSize(h) == (h.maxConnection * h.bufSize * 2) % Word

Buffers(h) == Subspan(h.page, 0, TotalBufSize(h))

ConnectionRegion(h) ==
  Subspan(h.page, TotalBufSize(h), h.page.len - TotalBufSize(h))

Connections(h) == Span(ConnectionRegion(h).base, h.maxConnection * TermSize)

SockRegion(h) ==
  LET used == h.maxConnection * TermSize
  IN  Subspan(ConnectionRegion(h), used, ConnectionRegion(h).len - used)

SockTbl(h) == Span(SockRegion(h).base, 2 * h.maxConnection * SockSize)

PairOffset(h, conId) == ((conId - 1) * h.bufSize * 2) % Word

GetBufPair(h, conId) ==
  Subspan(Buffers(h), PairOffset(h, conId), 2 * h.bufSize)

(* Slip: the second buffer of the pair is taken.                           *)
RcvBufSecond(h, conId) ==
  Subspan(Buffers(h), (PairOffset(h, conId) + h.bufSize) % Word, h.bufSize)

GetRcvBuf(h, conId) == Subspan(Buffers(h), PairOffset(h, conId), h.bufSize)

(* Slip: the first buffer of the pair is taken.                            *)
SndBufFirst(h, conId) == Subspan(Buffers(h), PairOffset(h, conId), h.bufSize)

GetSndBuf(h, conId) ==
  Subspan(Buffers(h), (PairOffset(h, conId) + h.bufSize) % Word, h.bufSize)

GetTerminal(h, conId) ==
  Span(Connections(h).base + (conId - 1) * TermSize, TermSize)

GetSocket(h, id) == Span(SockTbl(h).base + (id - 1) * SockSize, SockSize)

(* The checks SliceNregister passes or dies of: the spans it cuts lie in   *)
(* the spans it cuts them from, both tables have room, and GetBufPair      *)
(* succeeds for every connection.                                          *)
SliceNregister(h) ==
  /\ InSpan(h.page, 0, TotalBufSize(h))
  /\ ConnectionRegion(h).len \div TermSize > h.maxConnection
  /\ SockRegion(h).len \div SockSize >= 2 * h.maxConnection
  /\ \A conId \in 1 .. h.maxConnection :
       InSpan(Buffers(h), PairOffset(h, conId), 2 * h.bufSize)

-----------------------------------------------------------------------------

Disjoint(s, t) == s.base + s.len <= t.base \/ t.base + t.len <= s.base
Within(s, t) == t.base <= s.base /\ s.base + s.len <= t.base + t.len

(* No two connections share memory, the two buffers of a pair do not       *)
(* overlap, and neither table overlaps a buffer or leaves the page.        *)
SlicesDisjoint(h) ==
  /\ \A c \in 1 .. h.maxConnection :
       /\ Disjoint(GetRcvBuf(h, c), GetSndBuf(h, c))
       /\ \A s \in {GetRcvBuf(h, c), GetSndBuf(h, c)} :
            /\ Within(s, GetBufPair(h, c))
            /\ Disjoint(s, Connections(h)) /\ Disjoint(s, SockTbl(h))
       /\ \A d \in 1 .. h.maxConnection \ {c} :
            Disjoint(GetBufPair(h, c), GetBufPair(h, d))
  /\ Disjoint(Connections(h), SockTbl(h))
  /\ Within(Connections(h), h.page) /\ Within(SockTbl(h), h.page)

=============================================================================
