------------------------------ MODULE Pingpong -------------------------------
(***************************************************************************)
(* The sample program: a client that sends a message and sends the next    *)
(* one when the echo is there, and a server that echoes what it receives   *)
(* in the buffer it was received in.  The library is represented by what   *)
(* it promises, one MsgChannel for each direction (SendPath implements     *)
(* it), and by the buffer manager of each process.                         *)
(*                                                                         *)
(* Receiving allocates a buffer and calls the RcvNotifier, one message at  *)
(* a time (external: Conveyor).  The SendCompletionNotifier of an echo     *)
(* returns before the next echo is sent (the loop of ProcessSendQ).        *)
(***************************************************************************)
EXTENDS Integers, Sequences, FiniteSets

CONSTANTS
  MaxTests,     (* bound: <num_tests>                                      *)
  MsgSizes,     (* <message_size_in_K>                                     *)
  MaxMsgSize,   (* x_MaxMsgSize                                            *)
  Alignment,    (* alignment the library asks of its buffer manager        *)
  NumBufs, SmallLimit, MidLimit, BigLimit

ASSUME PingpongAssumption ==
  /\ MaxTests \in Nat \ {0} /\ MaxMsgSize \in Nat
  /\ MsgSizes \subseteq Nat /\ Alignment \in Nat
  /\ NumBufs \in Nat \ {0}
  /\ {SmallLimit, MidLimit, BigLimit} \subseteq Nat

VARIABLES
  args,       (* what the client was started with                          *)
  up,         (* the connection is up                                      *)
  reqSent, reqDone, reqRcvd,     (* client to server                       *)
  echoSent, echoDone, echoRcvd,  (* server to client                       *)
  tests,      (* g_numTests of the client                                  *)
  served,     (* g_numTests of the server                                  *)
  srvFree, srvSize,   (* buffer manager of the server                      *)
  cltFree, cltSize,   (* buffer manager of the client                      *)
  rcv,        (* the server's RcvNotifier: the message it is called with   *)
  finish,     (* the server's OnEchoFinish: buffer being disposed of       *)
  crcv,       (* the client's RcvNotifier                                  *)
  client,     (* the client's main thread                                  *)
  server,     (* the server's process                                      *)
  failed      (* the assertion of FixMem that failed, or "no"              *)

chan    == <<reqSent, reqDone, reqRcvd, echoSent, echoDone, echoRcvd, up>>
reqVars == <<reqSent, reqDone, reqRcvd>>
echoVars == <<echoSent, echoDone, echoRcvd>>
srvPool == <<srvFree, srvSize>>
cltPool == <<cltFree, cltSize>>
vars == <<args, chan, tests, served, srvPool, cltPool, rcv, finish, crcv,
          client, server, failed>>

Rounds  == 1 .. MaxTests
SrvBuf  == INSTANCE BufferPool WITH free <- srvFree, size <- srvSize
CltBuf  == INSTANCE BufferPool WITH free <- cltFree, size <- cltSize
Echoes  == [round : Rounds, buf : SrvBuf!Buffers]

Req  == INSTANCE MsgChannel WITH Msgs <- Rounds, accepted <- reqSent,
          completed <- reqDone, delivered <- reqRcvd
Echo == INSTANCE MsgChannel WITH Msgs <- Echoes, accepted <- echoSent,
          completed <- echoDone, delivered <- echoRcvd

None == <<>>
Idle == [step |-> 0, buf |-> None]

Require(holds, what) == failed' = IF holds THEN failed ELSE what

-----------------------------------------------------------------------------
(* Client                                                                  *)

(* The command lines _tmain accepts for a client.                          *)
Accepted(a) == a.size # 0 /\ a.size <= MaxMsgSize

(* Slip: a second call of the notifier sends once more.                    *)
ClientConnectedAgain ==
  /\ Len(reqSent) < 2
  /\ up
  /\ Req!Accept(1)
  /\ UNCHANGED <<args, echoVars, tests, served, srvPool, cltPool, rcv, finish,
                 crcv, client, server, failed>>

(* ClientConnected with H_ok: the first message.                           *)
ClientConnected ==
  /\ reqSent = <<>>
  /\ up
  /\ Req!Accept(1)
  /\ UNCHANGED <<args, echoVars, tests, served, srvPool, cltPool, rcv, finish,
                 crcv, client, server, failed>>

(* OnSent has nothing to do.                                               *)
OnSent ==
  /\ client # "gone"
  /\ Req!Complete
  /\ UNCHANGED <<args, echoVars, tests, served, srvPool, cltPool, rcv, finish,
                 crcv, client, server, failed>>

(* A message arrives in a new buffer, which the client's RcvNotifier gets  *)
(* (external: Conveyor).                                                   *)
ClientReceives ==
  /\ client # "gone" /\ crcv = Idle
  /\ Echo!Deliver
  /\ IF CltBuf!CanAllocate(args.size, Alignment)
       THEN \E b \in CltBuf!Buffers :
              /\ CltBuf!Allocate(b, args.size, Alignment)
              /\ crcv' = [step |-> 1, buf |-> b]
              /\ UNCHANGED failed
       ELSE /\ failed' = "Small Buffer Pool empty."
            /\ UNCHANGED <<cltPool, crcv>>
  /\ UNCHANGED <<args, reqVars, tests, served, srvPool, rcv, finish, client,
                 server>>

(* Slips: one message too many, one too few.                               *)
MoreByOne == tests - 1 >= 0
LessByOne == tests - 1 > 1

(* The decremented g_numTests is above 0.                                  *)
More == tests - 1 > 0

(* OnClientReceive: count, send the next one (a refused Send goes          *)
(* unnoticed) ...                                                          *)
OnClientReceive ==
  /\ crcv.step = 1
  /\ tests' = tests - 1
  /\ crcv' = [crcv EXCEPT !.step = 2]
  /\ \/ More /\ up /\ Req!Accept(Len(reqSent) + 1)
     \/ ~ (More /\ up) /\ UNCHANGED <<reqVars, up>>
  /\ UNCHANGED <<args, echoVars, served, srvPool, cltPool, rcv, finish, client,
                 server, failed>>

(* ... and Dispose, in two steps.                                          *)
ClientDispose ==
  /\ crcv.step \in {2, 3}
  /\ Require(crcv.step = 2 => CltBuf!InUse(crcv.buf),
             "Double buffer release detected!")
  /\ CltBuf!Release(crcv.buf, crcv.step - 1)
  /\ crcv' = IF crcv.step = 2 THEN [crcv EXCEPT !.step = 3] ELSE Idle
  /\ UNCHANGED <<args, chan, tests, served, srvPool, rcv, finish, client,
                 server>>

(* Client returns when the counter is 0, which it reads without a lock,    *)
(* and _tmain with it: the library is destroyed, which closes the          *)
(* connection.                                                             *)
ClientReturns ==
  /\ client = "running"
  /\ tests = 0
  /\ client' = "closing"
  /\ up' = FALSE
  /\ UNCHANGED <<args, reqVars, echoVars, tests, served, srvPool, cltPool, rcv,
                 finish, crcv, server, failed>>

(* ClientConnected with another status: exit.  TerminalCloser calls it on  *)
(* the activity that calls the RcvNotifier, so never during that call, and *)
(* when the socket is free again: exit destroys the library, and that      *)
(* waits for all sockets (external).                                       *)
ClientDisconnected ==
  /\ ~ up
  /\ client # "gone" /\ crcv = Idle
  /\ client' = "gone"
  /\ UNCHANGED <<args, chan, tests, served, srvPool, cltPool, rcv, finish,
                 crcv, server, failed>>

-----------------------------------------------------------------------------
(* Server                                                                  *)

(* As ClientReceives.                                                      *)
ServerReceives ==
  /\ server = "running" /\ rcv = None
  /\ Req!Deliver
  /\ IF SrvBuf!CanAllocate(args.size, Alignment)
       THEN \E b \in SrvBuf!Buffers :
              /\ SrvBuf!Allocate(b, args.size, Alignment)
              /\ rcv' = [round |-> reqSent[Len(reqRcvd) + 1], buf |-> b]
              /\ UNCHANGED failed
       ELSE /\ failed' = "Small Buffer Pool empty."
            /\ UNCHANGED <<srvPool, rcv>>
  /\ UNCHANGED <<args, echoVars, tests, served, cltPool, finish, crcv, client,
                 server>>

(* OnServerReceive: Send the buffer back.  A refused Send goes unnoticed,  *)
(* and nobody disposes of the buffer.                                      *)
OnServerReceive ==
  /\ rcv # None
  /\ Require(SrvBuf!InUse(rcv.buf), "Access Released Buffer!")
  /\ \/ up /\ Echo!Accept(rcv)
     \/ ~ up /\ UNCHANGED <<echoVars, up>>
  /\ served' = served + 1
  /\ rcv' = None
  /\ UNCHANGED <<args, reqVars, tests, srvPool, cltPool, finish, crcv, client,
                 server>>

(* OnEchoFinish: the buffer in the context is disposed of, in two steps.   *)
OnEchoFinish ==
  /\ server = "running" /\ finish = Idle
  /\ Len(echoDone) < Len(echoSent)
  /\ LET b == echoSent[Len(echoDone) + 1].buf
     IN  /\ Require(SrvBuf!InUse(b), "Access Released Buffer!")
         /\ SrvBuf!Release(b, 1)
         /\ finish' = [step |-> 2, buf |-> b]
  /\ UNCHANGED <<args, chan, tests, served, cltPool, rcv, crcv, client, server>>

(* Slip: Dispose does not reach the pool.                                  *)
FinishLost ==
  /\ finish.step = 2
  /\ finish' = Idle
  /\ Echo!Complete
  /\ UNCHANGED <<args, reqVars, tests, served, srvPool, cltPool, rcv, crcv,
                 client, server, failed>>

(* The end of Dispose, and the return to ProcessSendQ.                     *)
FinishEnd ==
  /\ finish.step = 2
  /\ SrvBuf!Release(finish.buf, 2)
  /\ finish' = Idle
  /\ Echo!Complete
  /\ UNCHANGED <<args, reqVars, tests, served, cltPool, rcv, crcv, client,
                 server, failed>>

(* OnConnect with another status than H_ok: exit, as the client does.      *)
OnConnect ==
  /\ ~ up
  /\ server = "running" /\ rcv = None
  /\ server' = "gone"
  /\ finish' = Idle
  /\ UNCHANGED <<args, chan, tests, served, srvPool, cltPool, rcv, crcv, client,
                 failed>>

-----------------------------------------------------------------------------

(* The connection ends at any moment (external).                           *)
Disconnect ==
  /\ up
  /\ up' = FALSE
  /\ UNCHANGED <<args, reqVars, echoVars, tests, served, srvPool, cltPool, rcv,
                 finish, crcv, client, server, failed>>

(* _tmain, Server and Client up to the connection.                         *)
Init ==
  /\ args \in [size : MsgSizes, tests : Rounds]
  /\ Accepted(args)
  /\ Req!Init /\ Echo!Init
  /\ tests = args.tests
  /\ served = 0
  /\ SrvBuf!PoolInit /\ CltBuf!PoolInit
  /\ rcv = None
  /\ finish = Idle
  /\ crcv = Idle
  /\ client = "running"
  /\ server = "running"
  /\ failed = "no"

(* Steps of the two programs and of the library's threads.                 *)
Work ==
  \/ ClientConnected \/ ClientReceives \/ OnClientReceive \/ ClientDispose
  \/ ClientReturns \/ ClientDisconnected
  \/ OnSent
  \/ ServerReceives \/ OnServerReceive \/ OnEchoFinish \/ FinishEnd
  \/ OnConnect

Next == failed = "no" /\ (Work \/ Disconnect)

Spec == Init /\ [][Next]_vars

(* Both programs run on, and a closed connection is reported; the channels *)
(* keep what SendPath shows of them while the connection is up.            *)
FairSpec ==
  /\ Spec
  /\ WF_vars(ClientConnected)
  /\ WF_vars(up /\ OnSent)
  /\ WF_vars(up /\ ClientReceives) /\ WF_vars(up /\ ServerReceives)
  /\ WF_vars(OnClientReceive) /\ WF_vars(ClientDispose)
  /\ WF_vars(OnServerReceive)
  /\ WF_vars(up /\ OnEchoFinish) /\ WF_vars(FinishEnd)
  /\ WF_vars(ClientReturns) /\ WF_vars(ClientDisconnected) /\ WF_vars(OnConnect)

-----------------------------------------------------------------------------
(* Properties                                                              *)

(* Every variable keeps its type; the counter of the client does not wrap. *)
TypeOK ==
  /\ args \in [size : MsgSizes, tests : Rounds]
  /\ up \in BOOLEAN
  /\ reqSent \in Seq(Rounds) /\ reqDone \in Seq(Rounds) /\ reqRcvd \in Seq(Rounds)
  /\ echoSent \in Seq(Echoes) /\ echoDone \in Seq(Echoes)
  /\ echoRcvd \in Seq(Echoes)
  /\ tests \in 0 .. MaxTests
  /\ served \in 0 .. MaxTests
  /\ rcv \in Echoes \cup {None}
  /\ \A f \in {finish, crcv} :
       f.step \in 0 .. 3 /\ f.buf \in SrvBuf!Buffers \cup {None}
  /\ client \in {"running", "closing", "gone"}
  /\ server \in {"running", "gone"}

(* Strict ping-pong: a request is on its way, or its echo, or the client   *)
(* holds the echo, and never two of them; the counter of the client and    *)
(* the two directions agree at every moment.                               *)
Lockstep ==
  /\ Len(reqSent) <= Len(echoRcvd) + 1
  /\ Len(echoSent) + (IF rcv = None THEN 0 ELSE 1)
       <= Len(reqRcvd)
  /\ tests + Len(echoRcvd) = args.tests + (IF crcv.step = 1 THEN 1 ELSE 0)
  /\ \A i \in DOMAIN echoRcvd : echoRcvd[i].round = reqSent[i]

(* Buffers of the server a message is in: being handled, or being sent.    *)
Sending == {echoSent[i].buf : i \in Len(echoDone) + 1 .. Len(echoSent)}
Handled == IF rcv = None THEN {} ELSE {rcv.buf}

(* The buffers are conserved while receiving and sending threads use them  *)
(* at once: each one of the server is in the pool, or holds the message    *)
(* being handled, or an echo not completed, and is not handed out again    *)
(* before that; the client has at most the one its notifier was called     *)
(* with.  The end of the connection is the only way for the server to lose *)
(* a buffer, and then its process exits.                                   *)
BuffersConserved ==
  /\ up => SrvBuf!Conserved((Handled \cup Sending) \ {finish.buf},
                            {finish.buf} \ {None})
  /\ CltBuf!Conserved(IF crcv.step \in {1, 2} THEN {crcv.buf} ELSE {},
                      IF crcv.step = 3 THEN {crcv.buf} ELSE {})

(* Two buffers are enough for the server however the completion of an echo *)
(* is delayed, and for the client: no pool ever runs empty and no buffer   *)
(* is used or released after its release.                                  *)
PoolsSuffice == failed = "no"

(* Both programs end, and they end after all the round trips, each served  *)
(* once, unless the connection is lost before.                             *)
TestsFinish ==
  <> /\ client = "gone" /\ server = "gone"
     /\ tests = 0 => served = args.tests

=============================================================================
