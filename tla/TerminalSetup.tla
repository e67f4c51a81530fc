--------------------------- MODULE TerminalSetup ----------------------------
(***************************************************************************)
(* What it takes to set up a Terminal: AllocTerminal with its ND objects,  *)
(* CreateMemRegions with its two asynchronous registrations, the handshake *)
(* that waits for them, and the asynchronous calls of Accept, Connect and  *)
(* their completion handlers, as far as they need overlapped objects, IOCP *)
(* threads and memory regions.  Socket states are SocketTable's business.  *)
(*                                                                         *)
(* Every asynchronous call holds one HOverlap until its handler returns    *)
(* (Run, or the caller when the call returned at once).  A thread is the   *)
(* stack of the calls it is in: a handler that runs inline sits above its  *)
(* caller.  A handler is one step, with FreeObj, up to where it waits or   *)
(* makes a call that returns at once.  IOCP threads have no identity, only *)
(* their number matters.                                                   *)
(*                                                                         *)
(* att numbers the calls of AllocTerminal; it names regions and ND objects *)
(* and distinguishes calls left over from an earlier use of the terminal.  *)
(*                                                                         *)
(* External: the adapter (calls fail, complete inline, or later, in any    *)
(* order), the remote end, and TerminalCloser and VerbCompletion, whose    *)
(* bodies the repository does not contain: the closer cancels what is      *)
(* under way, waits for it, and gives up regions and terminal.             *)
(***************************************************************************)
EXTENDS Integers, Sequences, FiniteSets, PoolQueue

CONSTANTS
  Terms,      (* terminals                                                 *)
  NumUsers,   (* threads that call the library                             *)
  NumIocp,    (* IOCP threads (8 in the source)                            *)
  PoolSize,   (* overlapped objects (1Ki in the source)                    *)
  QueuePool,  (* the adapter offers a pool of queue pairs                  *)
  MaxAtt      (* bound: how often AllocTerminal is called                  *)

ASSUME TerminalSetupAssumption ==
  /\ IsFiniteSet(Terms)
  /\ NumUsers \in Nat /\ NumIocp \in Nat /\ PoolSize \in Nat /\ MaxAtt \in Nat
  /\ QueuePool \in BOOLEAN

VARIABLES
  connPool,  (* m_connPool                                                 *)
  term,      (* m_connections                                              *)
  ops,       (* overlapped objects in use, by what they were taken for     *)
  threads,   (* stacks of the threads inside the library                   *)
  allocs,    (* number of calls of AllocTerminal                           *)
  live,      (* ND objects created and not released: <<t, att, object>>,   *)
             (* att = 0 for those of an InitQues that failed               *)
  handed,    (* tokens sent to remote ends                                 *)
  failed     (* the Audit failure that ended the process                   *)

vars == <<connPool, term, allocs, ops, threads, live, handed, failed>>

Kinds == {"tag", "mem", "connReq", "connect", "agree", "notify", "disc"}
Ops   == [kind : Kinds, t : Terms, att : 1 .. MaxAtt]
Calls == [kind : {"accept", "Connect"}, t : Terms, att : 1 .. MaxAtt]

Op(kind, o) == [o EXCEPT !.kind = kind]

(* VoidFlds leaves the two region pointers alone.  edges: the trailing     *)
(* edges are not 0; nd: the ND pointers that are not null; tag, mem: the   *)
(* allocation whose region it is, 0 for null.                              *)
VoidFlds(rec) == [rec EXCEPT !.edges = FALSE, !.nd = {}, !.started = FALSE,
                             !.closer = "none"]

(* Where a call or a handler is.                                           *)
Labels == {"regions", "regMem", "issue", "shake", "return", "run", "wait",
           "free"}

Frame(pc, op) == [pc |-> pc, op |-> op]
Top(st) == st[Len(st)]
Pop(st) == SubSeq(st, 1, Len(st) - 1)
To(st, pc) == [st EXCEPT ![Len(st)].pc = pc]

(* The thread st goes on as st2; <<>> is a thread outside the library.  A  *)
(* frame at "return" has nothing more to do.                               *)
Go(st, st2) ==
  LET rest == IF st2 # <<>> /\ Top(st2).pc = "return" THEN Pop(st2) ELSE st2
  IN  threads' = (threads \ {st}) \cup ({rest} \ {<<>>})

OnStack(op) == \E st \in threads : \E i \in DOMAIN st : st[i].op = op
IsUser(st)  == st[1].op.kind \in {"accept", "Connect"}

(* The messages of the Audit failures.                                     *)
Failures ==
  {"Resource pool empty!", "Invalid connection state or ND resources leaking",
   "Memory region state mismatch!", "Duplicate init of tag mem region.",
   "Duplicate init of buffer mem region.", "Query Connection req failed!"}

Require(holds, what) == failed' = IF holds THEN failed ELSE what

(* HOverlapPool::GetObj for n calls at once.                               *)
GetObj(n) ==
  Require(Cardinality(ops) + n <= PoolSize, "Resource pool empty!")

-----------------------------------------------------------------------------
(* Terminals                                                               *)

NdObjects == {"cq", "qp", "conn"}

(* What InitQues has created when it fails.                                *)
HalfDone == IF QueuePool THEN {{}, {"cq", "qp"}} ELSE {{}, {"cq"}, {"cq", "qp"}}

Objects(t, att, nd) == {<<t, att, x>> : x \in nd}

(* Slip: the connector is released and the rest is forgotten.              *)
CleanupConnector(t) ==
  live \ Objects(t, term[t].att, term[t].nd \cap {"conn"})

(* Cleanup releases nothing unless there is a connector.                   *)
Cleanup(t) ==
  IF "conn" \in term[t].nd
    THEN live \ Objects(t, term[t].att, term[t].nd)
    ELSE live

FreeTerminal(t) ==
  /\ live' = Cleanup(t)
  /\ term' = [term EXCEPT ![t] = VoidFlds(@)]
  /\ connPool' = Append(connPool, t)

(* AllocTerminal up to CreateMemRegions, called by Accept or Connect.  On  *)
(* a failure of InitQues the terminal goes straight back, and Cleanup does *)
(* not find a connector.  (SocketTable shows what an empty pool does.)     *)
AllocTerminal(call) ==
  LET t   == Head(connPool)
      att == allocs + 1
  IN  /\ Cardinality({st \in threads : IsUser(st)}) < NumUsers
      /\ connPool # <<>>
      /\ att <= MaxAtt
      /\ allocs' = att
      /\ Require(~ term[t].edges /\ term[t].nd = {},
                 "Invalid connection state or ND resources leaking")
      /\ \/ /\ term' = [term EXCEPT ![t].att = att, ![t].edges = TRUE,
                                    ![t].nd = NdObjects]
            /\ live' = live \cup Objects(t, att, NdObjects)
            /\ connPool' = Tail(connPool)
            /\ threads' = threads \cup
                 {<<Frame("regions", [kind |-> call, t |-> t, att |-> att])>>}
         \/ \E nd \in HalfDone :
              /\ live' = live \cup Objects(t, 0, nd)
              /\ connPool' = Append(Tail(connPool), t)
              /\ UNCHANGED <<term, threads>>
      /\ UNCHANGED <<ops, handed>>

-----------------------------------------------------------------------------
(* Asynchronous calls                                                      *)

(* The thread st, at st2 afterwards, makes the call op: it completes later *)
(* or at once, and then the thread runs the handler itself.                *)
Issue(st, st2, op) ==
  \/ Go(st, st2)
  \/ Go(st, Append(st2, Frame("run", op)))

(* CreateMemRegions: regions of a failed attempt are inherited.            *)
Inherit(st) ==
  LET c == Top(st).op
  IN  /\ Top(st).pc = "regions"
      /\ term[c.t].mem # 0
      /\ Require(term[c.t].tag # 0, "Memory region state mismatch!")
      /\ Go(st, To(st, "issue"))
      /\ UNCHANGED <<connPool, term, ops, live, handed>>

RegisterTag(st) ==
  LET c == Top(st).op
  IN  /\ Top(st).pc = "regions"
      /\ term[c.t].mem = 0
      /\ GetObj(1)
      /\ ops' = ops \cup {Op("tag", c)}
      /\ Issue(st, To(st, "regMem"), Op("tag", c))
      /\ UNCHANGED <<connPool, term, live, handed>>

RegisterMem(st) ==
  LET c == Top(st).op
  IN  /\ Top(st).pc = "regMem"
      /\ GetObj(1)
      /\ ops' = ops \cup {Op("mem", c)}
      /\ Issue(st, To(st, "issue"), Op("mem", c))
      /\ UNCHANGED <<connPool, term, live, handed>>

(* The rest of Accept: GetConnectionRequest.                               *)
GetConnectionRequest(st) ==
  LET c == Top(st).op
  IN  /\ Top(st).pc = "issue" /\ c.kind = "accept"
      /\ GetObj(1)
      /\ ops' = ops \cup {Op("connReq", c)}
      /\ Issue(st, To(st, "return"), Op("connReq", c))
      /\ UNCHANGED <<connPool, term, live, handed>>

(* The rest of Connect: Bind fails and the scope guard frees the terminal, *)
(* whatever the registrations are at; or the handshake data are awaited.   *)
Bind(st) ==
  LET c == Top(st).op
  IN  /\ Top(st).pc = "issue" /\ c.kind = "Connect"
      /\ \/ /\ FreeTerminal(c.t)
            /\ Go(st, To(st, "return"))
            /\ UNCHANGED <<ops, failed>>
         \/ /\ GetObj(1)
            /\ ops' = ops \cup {Op("connect", c)}
            /\ Go(st, To(st, "shake"))
            /\ UNCHANGED <<connPool, term, live>>
      /\ UNCHANGED handed

(* Slip: no waiting for the regions.                                       *)
RegionsNotAwaited(t) == TRUE

(* PrepareHandShakeData: busy waiting for both regions.                    *)
RegionsReady(t) == term[t].mem # 0 /\ term[t].tag # 0

Token(c) == [t |-> c.t, tag |-> term[c.t].tag, mem |-> term[c.t].mem,
             att |-> c.att]

Connect(st) ==
  LET c == Top(st).op
  IN  /\ Top(st).pc = "shake" /\ c.kind = "Connect"
      /\ RegionsReady(c.t)
      /\ handed' = handed \cup {Token(c)}
      /\ Issue(st, To(st, "return"), Op("connect", c))
      /\ UNCHANGED <<connPool, term, ops, live, failed>>

-----------------------------------------------------------------------------
(* Completion handlers                                                     *)

(* Calls the adapter may complete now.  CQ->Notify completes when the      *)
(* closer cancels it (external).                                           *)
Completable(op) ==
  /\ ~ OnStack(op)
  /\ op.kind = "connect" => ~ OnStack(Op("Connect", op))
  /\ op.kind = "notify" => term[op.t].closer = "cancelled"

(* Who runs the handler of op: an IOCP thread that is free                 *)
(* (HermesFixedRIO::Run), or the thread whose call returned at once.       *)
Runs(st, op) ==
  \/ /\ st = <<>>
     /\ Completable(op)
     /\ Cardinality({x \in threads : ~ IsUser(x)}) < NumIocp
  \/ st # <<>> /\ Top(st) = Frame("run", op)

Below(st) == IF st = <<>> THEN <<>> ELSE Pop(st)

(* The handler goes on at pc.                                              *)
Wait(st, op, pc) == Append(Below(st), Frame(pc, op))

(* Slip: the object is not given back.                                     *)
FreeNothing(op) == ops

FreeObj(op) == ops \ {op}

(* The handler returns and the object goes back to the pool.               *)
Done(st, op) == ops' = FreeObj(op) /\ Go(st, Below(st))

(* The handler of op makes the call next as the last thing it does.        *)
HandOver(st, op, next) ==
  \/ /\ ops' = FreeObj(op) \cup next
     /\ Go(st, Below(st))
  \/ \E n \in {x \in next : x.kind # "notify"} :
       /\ ops' = ops \cup next
       /\ Go(st, Append(Wait(st, op, "free"), Frame("run", n)))

(* ... and returns from it after the other handler.                        *)
RunEnd(st) ==
  /\ Top(st).pc = "free"
  /\ ops' = FreeObj(Top(st).op)
  /\ Go(st, Pop(st))
  /\ UNCHANGED <<connPool, term, live, handed, failed>>

(* Slip: m_pTagRegion is not set.                                          *)
TagForgotten(st, op) ==
  /\ op.kind = "tag" /\ Runs(st, op)
  /\ Done(st, op)
  /\ UNCHANGED <<connPool, term, live, handed, failed>>

OnTagRegistered(st, op) ==
  /\ op.kind = "tag" /\ Runs(st, op)
  /\ Require(term[op.t].tag = 0, "Duplicate init of tag mem region.")
  /\ term' = [term EXCEPT ![op.t].tag = op.att]
  /\ Done(st, op)
  /\ UNCHANGED <<connPool, live, handed>>

(* Slip: no waiting for the tag region.                                    *)
TagNotAwaited(t) == TRUE

(* "busy wait for tag region init, crappy but simple".                     *)
TagReady(t) == term[t].tag # 0

(* The thread waits ...                                                    *)
MemWait(st, op) ==
  /\ op.kind = "mem" /\ Runs(st, op)
  /\ ~ TagReady(op.t)
  /\ Go(st, Wait(st, op, "wait"))
  /\ UNCHANGED <<connPool, term, ops, live, handed, failed>>

(* ... or need not, or no more.                                            *)
OnMemRegistered(st, op) ==
  /\ op.kind = "mem"
  /\ Runs(st, op) \/ (st # <<>> /\ Top(st) = Frame("wait", op))
  /\ TagReady(op.t)
  /\ Require(term[op.t].mem = 0, "Duplicate init of buffer mem region.")
  /\ term' = [term EXCEPT ![op.t].mem = op.att]
  /\ Done(st, op)
  /\ UNCHANGED <<connPool, live, handed>>

(* ProcessConnReq: the request failed, or StartTerminal asks the           *)
(* completion queue for notification and the handshake begins.             *)
ProcessConnReq(st, op) ==
  /\ op.kind = "connReq" /\ Runs(st, op)
  /\ \/ /\ FreeTerminal(op.t)
        /\ Done(st, op)
        /\ UNCHANGED failed
     \/ /\ GetObj(1)
        /\ ops' = ops \cup {Op("notify", op)}
        /\ term' = [term EXCEPT ![op.t].started = TRUE]
        /\ Go(st, Wait(st, op, "shake"))
        /\ UNCHANGED <<connPool, live>>
  /\ UNCHANGED handed

(* ... PrepareHandShakeData and the asynchronous Accept.                   *)
ConnectorAccept(st, op) ==
  /\ op.kind = "connReq"
  /\ st # <<>> /\ Top(st) = Frame("shake", op)
  /\ RegionsReady(op.t)
  /\ GetObj(1)
  /\ handed' = handed \cup {Token(op)}
  /\ HandOver(st, op, {Op("agree", op)})
  /\ UNCHANGED <<connPool, term, live>>

(* OnConnAck: StartTerminal and CompleteConnect; a failed Connect ends the *)
(* process.                                                                *)
OnConnAck(st, op) ==
  /\ op.kind = "connect" /\ Runs(st, op)
  /\ \/ /\ failed' = "Query Connection req failed!"
        /\ UNCHANGED <<ops, term, threads>>
     \/ /\ GetObj(2)
        /\ term' = [term EXCEPT ![op.t].started = TRUE]
        /\ HandOver(st, op, {Op("notify", op), Op("agree", op)})
  /\ UNCHANGED <<connPool, live, handed>>

(* Post to m_pDisconnectCont: of several posts one counts.                 *)
Post(t) == [term EXCEPT ![t].closer = IF @ = "none" THEN "posted" ELSE @]

(* Slip: a failed connection frees its terminal, but keeps the regions.    *)
FailFree(t) == FreeTerminal(t)

(* A started terminal is left to its closer, which destroys the regions.   *)
FailStarted(t) == term' = Post(t) /\ UNCHANGED <<connPool, live>>

(* OnConnAccepted: failed, or the disconnection is awaited.                *)
OnConnAccepted(st, op) ==
  /\ op.kind = "agree" /\ Runs(st, op)
  /\ \/ /\ FailStarted(op.t)
        /\ Done(st, op)
        /\ UNCHANGED failed
     \/ /\ GetObj(1)
        /\ HandOver(st, op, {Op("disc", op)})
        /\ UNCHANGED <<connPool, term, live>>
  /\ UNCHANGED handed

OnDisconnect(st, op) ==
  /\ op.kind = "disc" /\ Runs(st, op)
  /\ term' = Post(op.t)
  /\ Done(st, op)
  /\ UNCHANGED <<connPool, live, handed, failed>>

(* VerbCompletion when the queue is cancelled (external).                  *)
OnVerbCancelled(st, op) ==
  /\ op.kind = "notify" /\ Runs(st, op)
  /\ Done(st, op)
  /\ UNCHANGED <<connPool, term, live, handed, failed>>

Handler(st, op) ==
  \/ OnTagRegistered(st, op) \/ MemWait(st, op) \/ OnMemRegistered(st, op)
  \/ ProcessConnReq(st, op) \/ ConnectorAccept(st, op)
  \/ OnConnAck(st, op) \/ OnConnAccepted(st, op)
  \/ OnDisconnect(st, op) \/ OnVerbCancelled(st, op)

-----------------------------------------------------------------------------
(* TerminalCloser (external)                                               *)

CloserCancel(t) ==
  /\ term[t].closer = "posted"
  /\ term' = [term EXCEPT ![t].closer = "cancelled"]
  /\ UNCHANGED <<connPool, ops, threads, live, handed, failed>>

CloserEnd(t) ==
  /\ term[t].closer = "cancelled"
  /\ \A op \in ops : op.t = t => op.att # term[t].att
  /\ live' = Cleanup(t)
  /\ term' = [term EXCEPT ![t] = [VoidFlds(@) EXCEPT !.tag = 0, !.mem = 0]]
  /\ connPool' = Append(connPool, t)
  /\ UNCHANGED <<ops, threads, handed, failed>>

-----------------------------------------------------------------------------

Init ==
  /\ connPool \in {q \in [1 .. Cardinality(Terms) -> Terms] :
                     \A t \in Terms : \E i \in DOMAIN q : q[i] = t}
  /\ term = [t \in Terms |-> [edges |-> FALSE, nd |-> {}, tag |-> 0, mem |-> 0,
                              started |-> FALSE, closer |-> "none", att |-> 0]]
  /\ ops = {}
  /\ threads = {}
  /\ allocs = 0
  /\ live = {}
  /\ handed = {}
  /\ failed = "no"

(* A thread inside the library takes its next step.                        *)
Step(st) ==
  \/ Inherit(st) \/ RegisterTag(st) \/ RegisterMem(st)
  \/ GetConnectionRequest(st) \/ Bind(st) \/ Connect(st)
  \/ RunEnd(st)
  \/ Handler(st, Top(st).op)

Closer == \E t \in Terms : CloserCancel(t) \/ CloserEnd(t)

(* Completions that do not depend on a remote end.                         *)
Prompt(op) ==
  \/ op.kind \in {"tag", "mem", "notify"}
  \/ op.kind = "disc" /\ term[op.t].closer = "cancelled"

Advance ==
  /\ \/ \E st \in threads : Step(st)
     \/ \E op \in ops : Prompt(op) /\ Handler(<<>>, op)
     \/ Closer
  /\ UNCHANGED allocs

Next ==
  /\ failed = "no"
  /\ \/ Advance
     \/ UNCHANGED allocs /\ \E op \in ops : ~ Prompt(op) /\ Handler(<<>>, op)
     \/ \E call \in {"accept", "Connect"} : AllocTerminal(call)

Spec == Init /\ [][Next]_vars

(* Threads are scheduled, registrations and cancelled calls complete.      *)
(* Nothing makes users call, or remote ends answer or disconnect.          *)
FairSpec == Spec /\ WF_vars(failed = "no" /\ Advance)

-----------------------------------------------------------------------------
(* Properties                                                              *)

(* Every variable keeps its type.                                          *)
TypeOK ==
  /\ connPool \in Seq(Terms)
  /\ term \in [Terms -> [edges : BOOLEAN, nd : SUBSET NdObjects,
                         tag : 0 .. MaxAtt, mem : 0 .. MaxAtt,
                         started : BOOLEAN, att : 0 .. MaxAtt,
                         closer : {"none", "posted", "cancelled"}]]
  /\ ops \subseteq Ops
  /\ \A st \in threads :
       st # <<>> /\ st \in Seq([pc : Labels, op : Ops \cup Calls])
  /\ allocs \in 0 .. MaxAtt
  /\ live \subseteq Terms \X (0 .. MaxAtt) \X NdObjects
  /\ handed \subseteq [t : Terms, tag : 1 .. MaxAtt, mem : 1 .. MaxAtt,
                       att : 1 .. MaxAtt]
  /\ failed \in Failures \cup {"no"}

Pooled == Members(connPool)

(* Registrations left over from an attempt whose Bind failed.              *)
Abandoned(t) ==
  {op \in ops : op.t = t /\ op.kind \in {"tag", "mem"}
                  /\ (op.att # term[t].att \/ t \in Pooled)}

(* A terminal in the pool is left alone by everything but registrations    *)
(* nobody waits for: no other handler, caller or closer touches it.        *)
PooledQuiet ==
  \A t \in Pooled :
    /\ ~ term[t].edges /\ term[t].nd = {} /\ term[t].closer = "none"
    /\ \A op \in ops : op.t = t => op \in Abandoned(t)

(* "We don't want tokens to be shared by any two remote servers": a region *)
(* is inherited only by an attempt that is the first to send its token.    *)
TokensNotShared ==
  \A x, y \in handed :
    x.t = y.t /\ (x.tag = y.tag \/ x.mem = y.mem) => x.att = y.att

(* "Memory region state mismatch!" never fails: the buffer region is only  *)
(* there when the tag region is, for whichever attempts they were made.    *)
RegionsMatch == \A t \in Terms : term[t].mem # 0 => term[t].tag # 0

(* ND objects outlive the use of their terminal only when InitQues failed  *)
(* half way: every other way to fail or to end a connection releases them. *)
NdReleased ==
  \A x \in live :
    x[2] # 0 => x[3] \in term[x[1]].nd /\ x[2] = term[x[1]].att

Busy(t) == \E st \in threads : \E i \in DOMAIN st : st[i].op.t = t

(* No overlapped object is left behind: besides registrations, a terminal  *)
(* no thread is at work on holds at most two once it is started, and at    *)
(* most one before.                                                        *)
OverlapBound ==
  \A t \in Terms :
    ~ Busy(t) =>
      Cardinality({op \in ops : op.t = t /\ op.kind \notin {"tag", "mem"}})
        <= IF term[t].started THEN 2 ELSE 1

(* The busy waits end: no thread stays in the set-up of a terminal for     *)
(* ever, since there are IOCP threads left to run the registrations.       *)
SetupEnds == \A t \in Terms : Busy(t) ~> ~ Busy(t) \/ failed # "no"

(* "we may inherite memory region from previous failed connection          *)
(* attempts": an attempt finds the tag region inherited or absent, and its *)
(* own registration is not a duplicate.                                    *)
NoDuplicateInit == failed # "Duplicate init of tag mem region."

=============================================================================
