---------------------------- MODULE MCRingFrame -----------------------------
(***************************************************************************)
(* A library object is built from any arguments; a connection of it then   *)
(* lays messages of any length one after the other on its send ring, which *)
(* the peer empties at once: every start edge, every packet length and     *)
(* every position relative to the end of the ring comes up.  Both ends use *)
(* rings of one size: the handshake carries the trailing edge, and a       *)
(* different m_bufSize is a "Rmote protocol mismatch!".                    *)
(***************************************************************************)
EXTENDS Slicing, FrameCopy

CONSTANTS ConBufSizes, MaxConnections, PacketSizes, MaxUnits, MaxEdge

ASSUME RingAssumption ==
  /\ ConBufSizes \subseteq Nat /\ MaxConnections \subseteq Nat
  /\ PacketSizes \subseteq Nat \ {0}
  /\ MaxUnits \in Nat /\ MaxEdge \in Nat

(* MAX_MSG_SIZE in units, PACKET_SIZE in units, INT16_MAX.                 *)
ASSUME LongestMessage == NumPckts(1023 * 1024 * 64, 2048) < 32767

VARIABLES
  phase,          \* "factory", then "running" or "terminated"
  args,           \* the factory's arguments
  packetSize,     \* PACKET_SIZE
  edge,           \* m_sndEnd.WriteEdge
  units,          \* length of the message being sent
  rest            \* what is left of it

vars == <<phase, args, packetSize, edge, units, rest>>

hermes == MakeHermes(args.conBufSize, args.maxConnections)
bufSize == hermes.bufSize

Init ==
  /\ phase = "factory"
  /\ args \in [conBufSize : ConBufSizes, maxConnections : MaxConnections]
  /\ packetSize \in {p \in PacketSizes :
                       \/ 2 * (p + 2 * MsgEnd) <= args.conBufSize
                       \/ args.conBufSize <= MinConBuf}
  /\ edge = 0
  /\ units = 0
  /\ rest = 0

(* HermesFixedRIOFactory and the constructor: an assertion that fails, or  *)
(* a span that does not fit, ends the process.                             *)
Construct ==
  /\ phase = "factory"
  /\ Admitted(args.conBufSize, args.maxConnections)
  /\ AllocatedBuffers(args.conBufSize, args.maxConnections)
       >= args.maxConnections
  /\ SliceNregister(hermes)
  /\ phase' = "running"
  /\ units' \in 0 .. MaxUnits
  /\ rest' = units'
  /\ UNCHANGED <<args, packetSize, edge>>

Terminate ==
  /\ phase = "factory"
  /\ ~ (/\ Admitted(args.conBufSize, args.maxConnections)
        /\ AllocatedBuffers(args.conBufSize, args.maxConnections)
             >= args.maxConnections
        /\ SliceNregister(hermes))
  /\ phase' = "terminated"
  /\ UNCHANGED <<args, packetSize, edge, units, rest>>

NextPacket ==
  /\ phase = "running"
  /\ edge < MaxEdge
  /\ rest > packetSize
  /\ edge' = edge + PktSize(rest, packetSize)
  /\ rest' = rest - packetSize
  /\ UNCHANGED <<phase, args, packetSize, units>>

NextMessage ==
  /\ phase = "running"
  /\ edge < MaxEdge
  /\ rest <= packetSize
  /\ edge' = edge + PktSize(rest, packetSize)
  /\ units' \in 0 .. MaxUnits
  /\ rest' = units'
  /\ UNCHANGED <<phase, args, packetSize>>

Next == Construct \/ Terminate \/ NextPacket \/ NextMessage

Spec == Init /\ [][Next]_vars

-----------------------------------------------------------------------------

(* What is left of the message: unit i of it is the number i.              *)
SrcBuf == [i \in 1 .. rest |-> units - rest + i]

Sequence == SeqOf((units - rest) \div packetSize, rest, packetSize)

(* LayoutCorrect of the frame about to be put down.                        *)
FrameLayout ==
  phase = "running" =>
    LayoutCorrect(bufSize, edge, PktSize(rest, packetSize))

(* WritesExact of the frame about to be put down.                          *)
FrameWrites ==
  phase = "running" =>
    WritesExact(bufSize, edge, PktSize(rest, packetSize))

(* CountCorrect of the message.                                            *)
MessageCount == CountCorrect(units, packetSize)

(* ProcessSendQ copies the whole packet, and only the packet, into the     *)
(* ring, whatever its length leaves over after whole cache lines and       *)
(* wherever the ring's end cuts it.                                        *)
FrameCopied ==
  phase = "running" =>
    CopyCorrect(bufSize, edge, SrcBuf, Sequence, packetSize)

(* The two overloads of ComputeCRC agree on a packet, although each view   *)
(* is sampled from its own start and the end of the ring moves the views.  *)
CrcAgrees ==
  phase = "running" =>
    CrcCorrect(bufSize, edge, SrcBuf, Sequence, packetSize)

(* A library object that comes out of the factory has disjoint buffers and *)
(* tables for all its connections, although the offsets are computed in    *)
(* 32 bits: sizes whose product does not fit stop in the constructor.      *)
SlicesSound ==
  phase = "running" =>
    /\ SlicesDisjoint(hermes)
    /\ hermes.maxConnection * hermes.bufSize * 2 < Word

(* What the RDMA writes of a packet touch at the peer, whichever terminal  *)
(* serves the connection there, lies in that terminal's receive buffer:    *)
(* m_rmtBufAddr is the address of the receive buffer, offsets are relative *)
(* to the local send buffer.                                               *)
RemoteWritesInside ==
  phase = "running" =>
    LET size == PktSize(rest, packetSize)
        f    == LocateInRingBuf(bufSize, edge, size)
    IN  \A peer \in 1 .. hermes.maxConnection :
          LET rmtBufAddr == GetRcvBuf(hermes, peer).base
          IN  \A p \in FirstWrite(f, size) \cup SecondWrite(f) :
                /\ Within(Span(rmtBufAddr + p, 1), GetRcvBuf(hermes, peer))
                /\ Disjoint(Span(rmtBufAddr + p, 1), GetSndBuf(hermes, peer))

=============================================================================
