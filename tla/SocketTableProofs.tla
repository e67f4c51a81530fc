------------------------- MODULE SocketTableProofs --------------------------
(***************************************************************************)
(* Proofs about the socket table, for every number of slots, terminals,    *)
(* listeners, users and generations, under two assumptions: callers keep   *)
(* the rules of MayCall (Contract), and TerminalCloser does not come       *)
(* between the last assertion of OnConnAccepted and the assignment that    *)
(* follows (~ Torn).  Without either TLC shows the properties failing.     *)
(*                                                                         *)
(* The properties are not inductive: that the slot a handler comes back to *)
(* is still its own depends on what every thread in the middle of a call   *)
(* and every other handler may do to it.  SlotInv therefore says what each *)
(* thread, slot, terminal and asynchronous call looks like, and that a     *)
(* slot a thread works on is no other thread's.  CountInv adds the         *)
(* reference counts of the listeners.                                      *)
(***************************************************************************)
EXTENDS SocketTable

(* A slot, a terminal and what a thread is doing; a reference count that   *)
(* may yet be negative.                                                    *)
SockRec == [state : States, gen : Gens, term : Terms \cup {NoTerm},
            listen : Listeners \cup {NoListener}]
TermRec == [handle : Handles \cup {NoHandle}, started : BOOLEAN,
            func : BOOLEAN, notify : BOOLEAN,
            closer : {"none", "posted", "running"}]
CallRec == [op : Calls, pc : Labels, h : Handles \cup {NoHandle},
            s : Socks \cup {NoHandle}, t : Terms \cup {NoTerm},
            l : Listeners \cup {NoListener}]
RefRec  == [count : Int, lost : Nat]

(* TypeOK but for the sign of the reference counts, which needs more.      *)
Types ==
  /\ sock \in [Socks -> SockRec]
  /\ sockPool \in Seq(Socks)
  /\ term \in [Terms -> TermRec]
  /\ connPool \in Seq(Terms)
  /\ refs \in [Listeners -> RefRec]
  /\ ops \subseteq Op
  /\ call \in [Callers -> CallRec]
  /\ known \subseteq Handles
  /\ closing \in BOOLEAN
  /\ failed \in Failures \cup {"no"}

-----------------------------------------------------------------------------
(* The threads                                                             *)

(* The destructor runs after the last call of a user; calls that overlap   *)
(* are those the contract lets overlap.                                    *)
Phases ==
  /\ closing => \A u \in Users : call[u].op = "none"
  /\ ~ closing => call[Dtor].op = "none"
  /\ \A c, d \in Callers :
       c # d /\ call[c].op # "none" /\ call[d].op # "none"
         => MayOverlap(call[c].op, call[c].h, call[d])

(* Where a thread may be in each call.                                     *)
ListenLabels  == {"listenCheck", "listenSet", "listenAgain", "createListener",
                  "bindListener", "listenEnd", "undoListen", "undoListener",
                  "clearListener"}
AcceptLabels  == {"acceptCheck", "acceptSock", "publish", "accept1",
                  "acceptListen", "acceptRef", "takeTerm", "prepare",
                  "giveBack"}
ConnectLabels == {"connectCheck", "connectSet", "connectAgain", "takeTerm",
                  "prepare", "bind", "undoConnect", "undoTerm", "clearTerm"}
CloseLabels   == {"stopIdle", "readListener", "unlisten", "stopListening",
                  "release", "giveBack"}

Place(c) ==
  LET op == call[c].op
      pc == call[c].pc
  IN  /\ op = "none"    <=> pc = "idle"
      /\ op = "create"  => pc = "publish"
      /\ op = "listen"  => pc \in ListenLabels
      /\ op = "accept"  => pc \in AcceptLabels
      /\ op = "connect" => pc \in ConnectLabels
      /\ op = "close"   => pc \in CloseLabels \cup
                             IF c = Dtor THEN {"readTerm", "post"} ELSE {"close"}
      /\ op = "hangup"  => pc \in {"close", "readTerm", "post"}
      /\ c = Dtor       => op \in {"none", "close"}

(* The handle a thread was given is good for the whole call; only that of  *)
(* a connection may become invalid, while its slot waits in the pool.      *)
Given(c) ==
  LET h == call[c].h
      s == call[c].s
  IN  /\ call[c].op \in {"listen", "connect", "close"} =>
           s \in Socks /\ (c # Dtor => h = HandleOf(s))
      /\ call[c].op = "hangup" =>
           /\ s \in Socks
           /\ h \in Handles
           /\ HandleToId(h) = s
           /\ sock[s].state \notin {"Disconnected", "StartToListen", "Listening"}
           /\ h # HandleOf(s) => sock[s].state = "Inpool"
      /\ call[c].op = "accept" =>
           /\ h \in Handles
           /\ Valid(h)
           /\ sock[HandleToId(h)].state \in {"Disconnected", "Listening"}
           /\ call[c].pc # "acceptCheck" =>
                sock[HandleToId(h)].state = "Listening"

(* The thread has slot call[c].s to itself.                                *)
Mine(c) ==
  /\ call[c].op # "hangup"
  /\ call[c].pc \notin {"idle", "acceptCheck", "acceptSock", "readTerm", "post"}

(* The accesses of Listen while the socket is in StartToListen.            *)
Starting == {"listenAgain", "createListener", "bindListener", "listenEnd",
             "undoListen"}

(* The state of that slot, by where the thread stands ...                  *)
StageState(c) ==
  LET op == call[c].op
      pc == call[c].pc
      state == sock[call[c].s].state
  IN  /\ pc = "publish" => state = "Inpool"
      /\ pc \in {"listenCheck", "connectCheck", "close"} =>
           state \in {"Disconnected", "Listening"}
      /\ pc \in {"listenSet", "connectSet", "stopIdle", "accept1",
                 "undoListener", "clearListener", "undoTerm", "clearTerm"} =>
           state = "Disconnected"
      /\ pc \in Starting => state = "StartToListen"
      /\ pc \in {"acceptListen", "acceptRef"} => state = "Accept1"
      /\ pc \in {"takeTerm", "prepare"} =>
           state = IF op = "accept" THEN "Accept1" ELSE "Connecting"
      /\ pc \in {"connectAgain", "bind", "undoConnect"} => state = "Connecting"
      /\ pc \in {"readListener", "unlisten", "stopListening"} =>
           state = "Listening"
      /\ pc = "release" => state = "Stopping"
      /\ pc = "giveBack" => state = IF op = "accept" THEN "Accept1"
                                                     ELSE "Stopping"

(* ... its listener ...                                                    *)
StageListen(c) ==
  LET pc == call[c].pc
      r  == sock[call[c].s]
  IN  /\ pc \in {"listenCheck", "connectCheck", "close"} =>
           (r.listen = NoListener <=> r.state = "Disconnected")
      /\ pc \in {"bindListener", "listenEnd", "clearListener", "readListener",
                 "unlisten"} => r.listen # NoListener
      /\ pc \notin {"listenCheck", "connectCheck", "close", "bindListener",
                    "listenEnd", "undoListen", "undoListener", "clearListener",
                    "readListener", "unlisten"} => r.listen = NoListener
      /\ pc = "unlisten" => call[c].l = r.listen
      /\ pc = "acceptRef" => call[c].l = sock[HandleToId(call[c].h)].listen
                             /\ call[c].l \in Listeners
      /\ pc \in {"takeTerm", "prepare"} /\ call[c].op = "accept" =>
           call[c].l \in Listeners
      /\ pc \in {"stopListening", "release"} => call[c].l \in Listeners

(* ... and its terminal.                                                   *)
StageTerm(c) ==
  LET pc == call[c].pc
      r  == sock[call[c].s]
  IN  /\ pc \notin {"bind", "undoConnect", "undoTerm", "clearTerm"} =>
           r.term = NoTerm
      /\ pc = "bind" => r.term = call[c].t
      /\ pc \in {"bind", "clearTerm"} => r.term # NoTerm
      /\ pc = "prepare" => call[c].t \in Terms
      /\ pc # "clearTerm" /\ r.term # NoTerm => ~ term[r.term].started

Owned(c) ==
  Mine(c) => /\ call[c].s \in Socks
             /\ call[c].s \notin Members(sockPool)
             /\ sock[call[c].s].gen <= MaxGen
             /\ StageState(c)
             /\ StageListen(c)
             /\ StageTerm(c)
             /\ call[c].op = "accept" => HandleOf(call[c].s) \notin known

(* ... which no other thread works on, waits for or accepts with.          *)
Apart ==
  \A c, d \in Callers : c # d /\ Mine(c) =>
    /\ Mine(d) \/ call[d].op = "hangup" => call[c].s # call[d].s
    /\ call[d].op = "accept" => call[c].s # HandleToId(call[d].h)

(* Before OnConnAccepted has asked to be told of a disconnection.          *)
Early(op) == op.kind \in {"connReq", "connect", "agree"}

(* The connection a thread is about to end is set up.                      *)
HandsOff(c) ==
  /\ call[c].pc = "readTerm" =>
       \A op \in ops : Early(op) => op.s # call[c].s
  /\ call[c].pc = "post" => \A op \in ops : Early(op) => op.t # call[c].t
  /\ call[c].pc = "post" /\ failed = "no" => call[c].t \in Terms

-----------------------------------------------------------------------------
(* The slots, the terminals and the asynchronous calls                     *)

(* What a slot has, by its state; a scope guard clears it after the state. *)
SlotOK(s) ==
  LET r == sock[s]
  IN  /\ s \in Members(sockPool) => r.state = "Inpool"
      /\ r.state = "Inpool" =>
           /\ s \in Members(sockPool) \/ Amid({"publish"}, s)
           /\ r.term = NoTerm
           /\ r.listen = NoListener
           /\ HandleOf(s) \notin known
      /\ r.state # "Inpool" => r.gen <= MaxGen
      /\ r.state = "StartToListen" => Amid(Starting, s)
      /\ r.listen # NoListener =>
           r.state \in {"StartToListen", "Listening", "Disconnected"}
      /\ r.state = "Disconnected" /\ r.listen # NoListener =>
           Amid({"undoListener", "clearListener"}, s)
      /\ r.state = "Listening" /\ r.listen = NoListener =>
           Amid({"stopListening"}, s)
      /\ r.term # NoTerm => r.state \notin {"StartToListen", "Listening"}
      /\ r.state = "Disconnected" /\ r.term # NoTerm =>
           Amid({"undoTerm", "clearTerm"}, s)
      /\ r.state \in {"ConnAck", "ConnAgreed", "Connected"} =>
           r.term # NoTerm /\ term[r.term].started

(* The terminal t that slot s has.                                         *)
TermOf(s, t) ==
  LET m == term[t]
      state == sock[s].state
  IN  /\ m.handle = HandleOf(s)
      /\ m.func
      /\ m.started => state \in {"Accept1", "ConnAck", "ConnAgreed",
                                 "Connected", "Stopping"}
      /\ m.notify => m.started /\ state \in {"ConnAgreed", "Connected", "Stopping"}
      /\ m.closer # "none" => m.started
      /\ m.closer = "running" <=> state = "Stopping"
      /\ t \notin Members(connPool)

(* The others: in the pool, or in the hands of the one that prepares it.   *)
Terminals ==
  /\ \A s \in Socks, t \in Terms : Has(s, t) => TermOf(s, t)
  /\ \A c \in Callers, t \in Terms : Prepares(c, t) =>
       /\ term[t] = VoidTerm
       /\ t \notin Members(connPool)
       /\ \A d \in Callers : Prepares(d, t) => c = d
       /\ \A s \in Socks : ~ Has(s, t)
  /\ \A t \in Terms : t \in Members(connPool) => term[t] = VoidTerm
  /\ \A t \in Terms : t \notin Members(connPool) =>
       (\E s \in Socks : Has(s, t)) \/ (\E c \in Callers : Prepares(c, t))

(* What an asynchronous call under way can rely upon.                      *)
OpOK(op) ==
  LET state == sock[op.s].state
  IN  /\ Early(op) => sock[op.s].term = op.t /\ term[op.t].closer = "none"
      /\ op.kind = "connReq" => /\ state = "Accept1"
                                /\ op.listener \in Listeners
                                /\ ~ term[op.t].started
      /\ op.kind = "connect" =>
           /\ state = "Connecting"
           /\ \A c \in Callers : Mine(c) => call[c].s # op.s
      /\ op.kind = "agree" =>
           state \in {"Accept1", "ConnAck"} /\ term[op.t].started
      /\ op.kind = "connected" => state \in {"ConnAgreed", "Connected"}

OneOp == \A o, p \in ops : Early(o) /\ Early(p) /\ o.s = p.s => o = p

(* No handle is known of a generation to come.                             *)
KnownOK == \A h \in known : h[2] <= sock[HandleToId(h)].gen

ThreadOK(c) == Place(c) /\ Given(c) /\ Owned(c) /\ HandsOff(c)

(* The inductive invariant of threads, slots, terminals and handlers.      *)
SlotInv ==
  /\ Types /\ Phases /\ Apart
  /\ \A c \in Callers : ThreadOK(c)
  /\ Distinct(sockPool) /\ Distinct(connPool)
  /\ \A s \in Socks : SlotOK(s)
  /\ Terminals
  /\ \A op \in ops : OpOK(op)
  /\ OneOp
  /\ KnownOK

-----------------------------------------------------------------------------
(* What the parts of a step change                                         *)

(* The types of the fields.                                                *)
LEMMA Fields ==
  ASSUME Types
  PROVE  /\ \A s \in Socks : /\ sock[s].state \in States
                             /\ sock[s].gen \in Gens
                             /\ sock[s].gen \in Nat
                             /\ sock[s].term \in Terms \cup {NoTerm}
                             /\ sock[s].listen \in Listeners \cup {NoListener}
                             /\ HandleOf(s) \in Handles
         /\ \A t \in Terms : /\ term[t].handle \in Handles \cup {NoHandle}
                             /\ term[t].started \in BOOLEAN
                             /\ term[t].func \in BOOLEAN
                             /\ term[t].notify \in BOOLEAN
                             /\ term[t].closer \in {"none", "posted", "running"}
         /\ \A c \in Callers : /\ call[c].op \in Calls
                               /\ call[c].pc \in Labels
                               /\ call[c].h \in Handles \cup {NoHandle}
                               /\ call[c].s \in Socks \cup {NoHandle}
                               /\ call[c].t \in Terms \cup {NoTerm}
                               /\ call[c].l \in Listeners \cup {NoListener}
         /\ \A op \in ops : /\ op.s \in Socks /\ op.t \in Terms
                            /\ op.listener \in Listeners \cup {NoListener}
PROOF
<1>1. \A g \in Gens : g \in Nat  BY SocketTableAssumption DEF Gens
<1>. QED  BY <1>1 DEF Types, SockRec, TermRec, CallRec, Op, HandleOf, Handles

(* A slot, with the generation of a handle.                                *)
LEMMA HandleIs ==
  /\ \A s : HandleToId(HandleOf(s)) = s /\ HandleOf(s)[2] = sock[s].gen
            /\ HandleOf(s) # NoHandle
  /\ \A h \in Handles : /\ HandleToId(h) \in Socks
                        /\ h = <<HandleToId(h), h[2]>>
                        /\ h # NoHandle
PROOF BY DEF HandleOf, HandleToId, Handles, NoHandle

(* Steps of a thread.                                                      *)
Others(c)    == \A d \in Callers \ {c} : call'[d] = call[d]
SameCall(c)  == /\ call'[c].op = call[c].op
                /\ call'[c].h = call[c].h
                /\ call'[c].s = call[c].s
Elsewhere(s) == \A x \in Socks \ {s} : sock'[x] = sock[x]

LEMMA GotoIs ==
  ASSUME Types, NEW c \in Callers, NEW l \in Labels, Goto(c, l)
  PROVE  /\ call' \in [Callers -> CallRec] /\ Others(c) /\ SameCall(c)
         /\ call'[c].pc = l /\ call'[c].t = call[c].t /\ call'[c].l = call[c].l
PROOF BY DEF Types, CallRec, Goto, Others, SameCall

LEMMA ReturnIs ==
  ASSUME Types, NEW c \in Callers, Return(c)
  PROVE  /\ call' \in [Callers -> CallRec] /\ Others(c)
         /\ call'[c].op = "none" /\ call'[c].pc = "idle"
PROOF
<1>1. IdleCall \in CallRec
  BY DEF IdleCall, CallRec, NoHandle, Labels, Calls
<1>. QED  BY <1>1 DEF Types, Return, Others, IdleCall

LEMMA SetStateIs ==
  ASSUME Types, NEW s \in Socks, NEW v \in States, SetState(s, v)
  PROVE  /\ sock' \in [Socks -> SockRec] /\ Elsewhere(s)
         /\ sock'[s].state = v /\ sock'[s].gen = sock[s].gen
         /\ sock'[s].term = sock[s].term /\ sock'[s].listen = sock[s].listen
PROOF BY DEF Types, SockRec, SetState, Elsewhere

LEMMA SetListenIs ==
  ASSUME Types, NEW s \in Socks, NEW v \in Listeners \cup {NoListener},
         sock' = [sock EXCEPT ![s].listen = v]
  PROVE  /\ sock' \in [Socks -> SockRec] /\ Elsewhere(s)
         /\ sock'[s].listen = v /\ sock'[s].gen = sock[s].gen
         /\ sock'[s].term = sock[s].term /\ sock'[s].state = sock[s].state
PROOF BY DEF Types, SockRec, Elsewhere

LEMMA SetTermIs ==
  ASSUME Types, NEW s \in Socks, NEW v \in Terms \cup {NoTerm},
         sock' = [sock EXCEPT ![s].term = v]
  PROVE  /\ sock' \in [Socks -> SockRec] /\ Elsewhere(s)
         /\ sock'[s].term = v /\ sock'[s].gen = sock[s].gen
         /\ sock'[s].listen = sock[s].listen /\ sock'[s].state = sock[s].state
PROOF BY DEF Types, SockRec, Elsewhere

(* FreeSocket, alone and after m_term was cleared.                         *)
LEMMA FreeSocketIs ==
  ASSUME Types, NEW s \in Socks, sock[s].gen <= MaxGen,
         sock' = FreeSocket(sock, s)
  PROVE  /\ sock' \in [Socks -> SockRec] /\ Elsewhere(s)
         /\ sock'[s].state = "Inpool" /\ sock'[s].gen = sock[s].gen + 1
         /\ sock'[s].listen = sock[s].listen /\ sock'[s].term = sock[s].term
PROOF
<1>1. sock[s].gen + 1 \in Gens /\ "Inpool" \in States
  BY Fields, SocketTableAssumption DEF Gens, States
<1>. QED  BY <1>1 DEF Types, SockRec, FreeSocket, Elsewhere

LEMMA FreeConnIs ==
  ASSUME Types, NEW s \in Socks, sock[s].gen <= MaxGen,
         sock' = FreeSocket([sock EXCEPT ![s].term = NoTerm], s)
  PROVE  /\ sock' \in [Socks -> SockRec] /\ Elsewhere(s)
         /\ sock'[s].state = "Inpool" /\ sock'[s].gen = sock[s].gen + 1
         /\ sock'[s].listen = sock[s].listen /\ sock'[s].term = NoTerm
PROOF
<1>1. sock[s].gen + 1 \in Gens /\ "Inpool" \in States
  BY Fields, SocketTableAssumption DEF Gens, States
<1>2. PICK tbl : tbl = [sock EXCEPT ![s].term = NoTerm]  OBVIOUS
<1>3. /\ tbl \in [Socks -> SockRec]
      /\ \A x \in Socks \ {s} : tbl[x] = sock[x]
      /\ tbl[s].term = NoTerm /\ tbl[s].gen = sock[s].gen
      /\ tbl[s].listen = sock[s].listen
  BY <1>2 DEF Types, SockRec
<1>4. sock' = [tbl EXCEPT ![s].state = "Inpool", ![s].gen = @ + 1]
  BY <1>2 DEF FreeSocket
<1>5. /\ sock' \in [Socks -> SockRec]
      /\ sock'[s].state = "Inpool" /\ sock'[s].gen = sock[s].gen + 1
      /\ sock'[s].listen = sock[s].listen /\ sock'[s].term = NoTerm
  <2>1. PICK g \in Gens : g = sock[s].gen + 1  BY <1>1
  <2>2. sock' = [tbl EXCEPT ![s].state = "Inpool", ![s].gen = g]
    BY <1>3, <1>4, <2>1
  <2>3. PICK r : r = [tbl[s] EXCEPT !.state = "Inpool", !.gen = g]  OBVIOUS
  <2>4. /\ r \in SockRec /\ r.state = "Inpool" /\ r.gen = g
        /\ r.listen = tbl[s].listen /\ r.term = tbl[s].term
    BY <1>1, <1>3, <2>3 DEF SockRec
  <2>5. sock' = [tbl EXCEPT ![s] = r]
    BY <1>3, <2>2, <2>3
  <2>. QED  BY <1>3, <2>1, <2>4, <2>5
<1>6. \A x \in Socks \ {s} : sock'[x] = sock[x]
  BY <1>3, <1>4
<1>. QED  BY <1>5, <1>6 DEF Elsewhere

(* A terminal put back.                                                    *)
LEMMA VoidTermIs ==
  ASSUME Types, NEW t \in Terms, term' = [term EXCEPT ![t] = VoidTerm]
  PROVE  /\ term' \in [Terms -> TermRec]
         /\ term'[t] = VoidTerm
         /\ \A x \in Terms \ {t} : term'[x] = term[x]
PROOF
<1>1. VoidTerm \in TermRec  BY DEF VoidTerm, TermRec, NoHandle
<1>. QED  BY <1>1 DEF Types

(* A fresh call.                                                           *)
LEMMA BeginIs ==
  ASSUME Types, NEW c \in Callers, NEW op \in Calls,
         NEW h \in Handles \cup {NoHandle}, NEW s \in Socks, NEW l \in Labels,
         Begin(c, op, h, s, l)
  PROVE  /\ call' \in [Callers -> CallRec] /\ Others(c)
         /\ call'[c].op = op /\ call'[c].h = h /\ call'[c].s = s
         /\ call'[c].pc = l /\ call'[c].t = NoTerm /\ call'[c].l = NoListener
PROOF
<1>1. PICK r : r = [IdleCall EXCEPT !.op = op, !.pc = l, !.h = h, !.s = s]
  OBVIOUS
<1>2. r = [op |-> op, pc |-> l, h |-> h, s |-> s, t |-> NoTerm,
           l |-> NoListener]
  BY <1>1 DEF IdleCall
<1>3. r \in CallRec  BY <1>2 DEF CallRec
<1>4. call' = [call EXCEPT ![c] = r]  BY <1>1 DEF Begin
<1>. QED  BY <1>2, <1>3, <1>4 DEF Types, Others

(* Failures other than those of the model do not occur.                    *)
LEMMA FailedIs ==
  /\ \A p, what : failed \in Failures \cup {"no"} /\ what \in Failures
                    /\ Require(p, what) => failed' \in Failures \cup {"no"}
  /\ Audits \subseteq Failures
PROOF BY DEF Require, Failures

-----------------------------------------------------------------------------
(* What a step leaves alone                                                *)

(* A step at slot s0 spares a thread that has another slot.                *)
Spared(d, s0) ==
  /\ Mine(d) => call[d].s # s0
  /\ call[d].op = "accept" => HandleToId(call[d].h) # s0

(* A connection that is being closed goes on or ends in the pool.          *)
Ongoing(s) ==
  /\ sock'[s].state \notin {"Disconnected", "StartToListen", "Listening"}
  /\ \/ sock'[s].state = "Inpool"
     \/ sock'[s].gen = sock[s].gen /\ sock[s].state # "Inpool"

(* No early call but those there were.                                     *)
NoNewOp == \A op \in ops' : Early(op) =>
             \E o \in ops : Early(o) /\ o.s = op.s /\ o.t = op.t

(* What a thread relies upon apart from its own slots.                     *)
Undisturbed(d) ==
  /\ Mine(d) => call[d].s \notin Members(sockPool')
  /\ Mine(d) /\ call[d].op = "accept" => HandleOf(call[d].s) \notin known'
  /\ LET t == sock[call[d].s].term
     IN  Mine(d) /\ call[d].pc # "clearTerm" /\ t # NoTerm => ~ term'[t].started
  /\ call[d].pc \in {"readTerm", "post"} => NoNewOp

(* A thread that listens, connects or closes has the slot to itself.       *)
LEMMA CallIsMine ==
  ASSUME NEW d, Place(d), d # Dtor, call[d].op \in {"listen", "connect", "close"}
  PROVE  Mine(d)
PROOF
<1>1. CASE call[d].op = "listen"  BY <1>1 DEF Place, Mine, ListenLabels
<1>2. CASE call[d].op = "connect"  BY <1>2 DEF Place, Mine, ConnectLabels
<1>3. CASE call[d].op = "close"
  <2>1. call[d].pc \in CloseLabels \cup {"close"}  BY <1>3 DEF Place
  <2>. QED  BY <1>3, <2>1 DEF Mine, CloseLabels
<1>. QED  BY <1>1, <1>2, <1>3

(* Where a thread is tells which call it is in.                            *)
LEMMA CallAt ==
  ASSUME NEW d, Place(d), call[d].op \in Calls
  PROVE  /\ call[d].pc \in ListenLabels => call[d].op = "listen"
         /\ call[d].pc \in {"acceptCheck", "acceptSock", "accept1",
                            "acceptListen", "acceptRef"} => call[d].op = "accept"
         /\ call[d].pc \in {"connectCheck", "connectSet", "connectAgain", "bind",
                            "undoConnect", "undoTerm", "clearTerm"} =>
              call[d].op = "connect"
         /\ call[d].pc \in {"stopIdle", "readListener", "unlisten",
                            "stopListening", "release"} => call[d].op = "close"
         /\ call[d].pc = "publish" => call[d].op \in {"create", "accept"}
         /\ call[d].pc \in {"takeTerm", "prepare"} =>
              call[d].op \in {"accept", "connect"}
         /\ call[d].pc = "giveBack" => call[d].op \in {"accept", "close"}
         /\ call[d].pc = "close" => call[d].op \in {"close", "hangup"} /\ d # Dtor
         /\ call[d].pc \in {"readTerm", "post"} =>
              call[d].op = "hangup" \/ (call[d].op = "close" /\ d = Dtor)
PROOF
<1>1. CASE call[d].op = "none"  BY <1>1 DEF Place, ListenLabels
<1>2. CASE call[d].op = "create"  BY <1>2 DEF Place, ListenLabels
<1>3. CASE call[d].op = "listen"  BY <1>3 DEF Place, ListenLabels
<1>4. CASE call[d].op = "accept"  BY <1>4 DEF Place, ListenLabels, AcceptLabels
<1>5. CASE call[d].op = "connect"  BY <1>5 DEF Place, ListenLabels, ConnectLabels
<1>6. CASE call[d].op = "close"
  <2>1. CASE d = Dtor
    <3>1. call[d].pc \in CloseLabels \cup {"readTerm", "post"}
      BY <1>6, <2>1 DEF Place
    <3>. QED  BY <1>6, <2>1, <3>1 DEF ListenLabels, CloseLabels
  <2>2. CASE d # Dtor
    <3>1. call[d].pc \in CloseLabels \cup {"close"}  BY <1>6, <2>2 DEF Place
    <3>. QED  BY <1>6, <2>2, <3>1 DEF ListenLabels, CloseLabels
  <2>. QED  BY <2>1, <2>2
<1>7. CASE call[d].op = "hangup"  BY <1>7 DEF Place, ListenLabels
<1>. QED  BY <1>1, <1>2, <1>3, <1>4, <1>5, <1>6, <1>7 DEF Calls

LEMMA ThreadKept ==
  ASSUME Types, NEW d \in Callers, NEW s0, ThreadOK(d), call'[d] = call[d],
         failed = "no", Elsewhere(s0), Spared(d, s0), Undisturbed(d),
         call[d].op = "hangup" => (call[d].s = s0 => Ongoing(s0))
  PROVE  ThreadOK(d)'
PROOF
<1>. DEFINE s == call[d].s
            x == HandleToId(call[d].h)
<1>1. Place(d)'  BY DEF ThreadOK, Place
<1>m. Mine(d)' <=> Mine(d)  BY DEF Mine
<1>o. \A y : sock'[y] = sock[y] => HandleOf(y)' = HandleOf(y)  BY DEF HandleOf
<1>2. Given(d)'
  <2>1. CASE call[d].op \in {"listen", "connect", "close"}
    <3>2. d # Dtor => Mine(d)  BY <2>1, CallIsMine DEF ThreadOK
    <3>3. s \in Socks  BY <2>1 DEF ThreadOK, Given
    <3>4. d # Dtor => sock'[s] = sock[s]
      BY <3>2, <3>3 DEF Spared, Elsewhere
    <3>. QED  BY <2>1, <3>3, <3>4, <1>o DEF ThreadOK, Given
  <2>2. CASE call[d].op = "hangup"
    <3>1. s \in Socks  BY <2>2 DEF ThreadOK, Given
    <3>2. CASE s # s0
      <4>1. sock'[s] = sock[s]  BY <3>1, <3>2 DEF Elsewhere
      <4>. QED  BY <2>2, <4>1, <1>o DEF ThreadOK, Given
    <3>3. CASE s = s0
      <4>1. Ongoing(s)  BY <2>2, <3>3
      <4>2. sock'[s].gen = sock[s].gen => HandleOf(s)' = HandleOf(s)
        BY DEF HandleOf
      <4>. QED  BY <2>2, <4>1, <4>2 DEF ThreadOK, Given, Ongoing
    <3>. QED  BY <3>2, <3>3
  <2>3. CASE call[d].op = "accept"
    <3>1. x \in Socks  BY <2>3, HandleIs DEF ThreadOK, Given
    <3>2. sock'[x] = sock[x]  BY <2>3, <3>1 DEF Spared, Elsewhere
    <3>. QED  BY <2>3, <3>2, <1>o DEF ThreadOK, Given, Valid
  <2>4. CASE call[d].op \notin {"listen", "connect", "close", "hangup", "accept"}
    BY <2>4 DEF Given
  <2>. QED  BY <2>1, <2>2, <2>3, <2>4
<1>3. Owned(d)'
  <2>. SUFFICES ASSUME Mine(d)  PROVE Owned(d)'
    BY <1>m DEF Owned
  <2>1. /\ s \in Socks /\ sock'[s] = sock[s]
        /\ s \notin Members(sockPool') /\ sock'[s].gen <= MaxGen
    BY DEF ThreadOK, Owned, Spared, Elsewhere, Undisturbed
  <2>2. StageState(d) /\ StageListen(d) /\ StageTerm(d)
    BY DEF ThreadOK, Owned
  <2>3. StageState(d)'  BY <2>1, <2>2 DEF StageState, Starting
  <2>4. StageListen(d)'
    <3>1. call[d].op = "accept" => sock'[x] = sock[x]
      BY HandleIs DEF ThreadOK, Given, Spared, Elsewhere
    <3>2. call[d].pc = "acceptRef" => call[d].op = "accept"
      BY Fields, CallAt DEF ThreadOK
    <3>. QED  BY <2>1, <2>2, <3>1, <3>2 DEF StageListen
  <2>5. StageTerm(d)'
    BY <2>1, <2>2 DEF StageTerm, Undisturbed
  <2>6. call[d].op = "accept" => HandleOf(s)' \notin known'
    BY <2>1, <1>o DEF Undisturbed
  <2>. QED  BY <2>1, <2>3, <2>4, <2>5, <2>6 DEF Owned
<1>4. HandsOff(d)'
  <2>1. call[d].pc \in {"readTerm", "post"} => NoNewOp  BY DEF Undisturbed
  <2>2. HandsOff(d)  BY DEF ThreadOK
  <2>. QED  BY <2>1, <2>2 DEF HandsOff, NoNewOp, Early
<1>. QED  BY <1>1, <1>2, <1>3, <1>4 DEF ThreadOK

-----------------------------------------------------------------------------
(* A slot a thread has to itself                                           *)

(* The parts of the invariant, and the types of the fields.                *)
LEMMA Parts ==
  ASSUME SlotInv
  PROVE  /\ \A c \in Callers : Place(c) /\ Given(c) /\ Owned(c) /\ HandsOff(c)
         /\ Users \subseteq Callers /\ Dtor \in Callers
         /\ \A op \in ops : op.s \in Socks /\ op.t \in Terms /\ OpOK(op)
PROOF BY Fields DEF SlotInv, ThreadOK, Callers

LEMMA MineState ==
  ASSUME Types, NEW c \in Callers, Mine(c), Owned(c)
  PROVE  sock[call[c].s].state \in {"Inpool", "Disconnected", "StartToListen",
           "Listening", "Accept1", "Connecting", "Stopping"}
PROOF
<1>1. call[c].pc \in Labels /\ StageState(c)  BY Fields DEF Owned
<1>. QED  BY <1>1 DEF StageState, Starting, Mine, Labels

(* ... none of the calls under way that count on their slot has it.        *)
LEMMA MineNotOp ==
  ASSUME SlotInv, NEW c \in Callers, Mine(c), NEW op \in ops,
         Early(op) \/ op.kind = "connected"
  PROVE  op.s # call[c].s
PROOF
<1>. SUFFICES ASSUME op.s = call[c].s  PROVE FALSE
  OBVIOUS
<1>. DEFINE s == call[c].s
<1>1. /\ OpOK(op) /\ op.t \in Terms /\ op.t # NoTerm
      /\ StageState(c) /\ StageTerm(c) /\ Types
      /\ sock[s].state \in {"Inpool", "Disconnected", "StartToListen",
           "Listening", "Accept1", "Connecting", "Stopping"}
  BY Parts, MineState, SocketTableAssumption DEF Owned, SlotInv
<1>2. CASE op.kind = "connected"  BY <1>1, <1>2 DEF OpOK
<1>3. CASE op.kind = "connect"  BY <1>1, <1>3 DEF OpOK
<1>4. CASE op.kind = "agree"
  <2>1. /\ sock[s].term = op.t /\ term[op.t].started
        /\ sock[s].state \in {"Accept1", "ConnAck"}
    BY <1>1, <1>4 DEF OpOK, Early
  <2>. QED  BY <1>1, <2>1 DEF StageTerm, StageState, Starting
<1>5. CASE op.kind = "connReq"
  <2>1. sock[s].term = op.t /\ sock[s].state = "Accept1"
    BY <1>1, <1>5 DEF OpOK, Early
  <2>. QED  BY <1>1, <2>1 DEF StageTerm, StageState, Starting
<1>. QED  BY <1>2, <1>3, <1>4, <1>5 DEF Early

(* ... nor has another thread.                                             *)
LEMMA MineSpares ==
  ASSUME SlotInv, NEW c \in Callers, Mine(c), NEW d \in Callers \ {c}
  PROVE  /\ Spared(d, call[c].s)
         /\ call[d].op = "hangup" => call[d].s # call[c].s
PROOF BY DEF SlotInv, Apart, Spared

(* A thread that is between two accesses to slot x still is.               *)
Between == {"publish", "undoListener", "clearListener", "stopListening",
            "undoTerm", "clearTerm"} \cup Starting

StillAmid(x) ==
  \A d \in Callers : call[d].pc \in Between /\ call[d].s = x =>
    call'[d].pc = call[d].pc /\ call'[d].s = x

LEMMA SlotKept ==
  ASSUME NEW x \in Socks, SlotOK(x), sock'[x] = sock[x], StillAmid(x),
         x \in Members(sockPool') <=> x \in Members(sockPool),
         HandleOf(x) \in known' => HandleOf(x) \in known,
         LET t == sock[x].term
         IN  sock[x].state \in {"ConnAck", "ConnAgreed", "Connected"}
               /\ t # NoTerm /\ term[t].started => term'[t].started
  PROVE  SlotOK(x)'
PROOF
<1>1. HandleOf(x)' = HandleOf(x)  BY DEF HandleOf
<1>2. ASSUME NEW labels, Amid(labels, x),
             labels \in {{"publish"}, {"undoListener", "clearListener"},
                         {"stopListening"}, {"undoTerm", "clearTerm"}, Starting}
      PROVE  Amid(labels, x)'
  <2>1. PICK d \in Callers : call[d].pc \in labels /\ call[d].s = x
    BY <1>2 DEF Amid
  <2>2. call[d].pc \in Between  BY <1>2, <2>1 DEF Between, Starting
  <2>. QED  BY <2>1, <2>2 DEF Amid, StillAmid
<1>. QED  BY <1>1, <1>2 DEF SlotOK

(* A step of thread c leaves alone what others and itself do elsewhere.    *)
LEMMA OthersAmid ==
  ASSUME SlotInv, NEW c \in Callers, Others(c), NEW x,
         Mine(c) => call[c].s # x
  PROVE  /\ StillAmid(x)
         /\ \A d \in Callers : Mine(d) /\ d # c => call'[d] = call[d]
PROOF
<1>1. call[c].pc \in Between => Mine(c)
  BY Parts DEF Between, Starting, Mine, Place
<1>. QED  BY <1>1 DEF StillAmid, Others

(* Who has a terminal, or prepares one, stays the same.                    *)
SameHas == \A s \in Socks, t \in Terms : Has(s, t)' <=> Has(s, t)
SamePrepares == \A c \in Callers, t \in Terms : Prepares(c, t)' <=> Prepares(c, t)

LEMMA TerminalsKept ==
  ASSUME Terminals, SameHas, SamePrepares,
         Members(connPool') = Members(connPool),
         \A t \in Terms : (\A s \in Socks : ~ Has(s, t)) => term'[t] = term[t],
         \A s \in Socks, t \in Terms : Has(s, t) /\ TermOf(s, t) => TermOf(s, t)'
  PROVE  Terminals'
PROOF
<1>1. \A t \in Terms : t \in Members(connPool') <=> t \in Members(connPool)
  OBVIOUS
<1>2. \A s \in Socks, t \in Terms : Has(s, t)' => TermOf(s, t)'
  BY DEF SameHas, Terminals
<1>3. \A c \in Callers, t \in Terms : Prepares(c, t)' =>
        /\ term'[t] = VoidTerm
        /\ t \notin Members(connPool')
        /\ \A d \in Callers : Prepares(d, t)' => c = d
        /\ \A s \in Socks : ~ Has(s, t)'
  BY <1>1 DEF SameHas, SamePrepares, Terminals
<1>4. \A t \in Terms : t \in Members(connPool') => term'[t] = VoidTerm
  <2>1. \A t \in Terms : t \in Members(connPool) => \A s \in Socks : ~ Has(s, t)
    BY DEF Terminals, TermOf
  <2>. QED  BY <1>1, <2>1 DEF Terminals
<1>5. \A t \in Terms : t \notin Members(connPool') =>
        (\E s \in Socks : Has(s, t)') \/ (\E c \in Callers : Prepares(c, t)')
  BY <1>1 DEF SameHas, SamePrepares, Terminals
<1>. QED  BY <1>2, <1>3, <1>4, <1>5 DEF Terminals
-----------------------------------------------------------------------------
(* Steps of one thread, at its own slot                                    *)

(* A step of thread c that begins no call and takes no slot.               *)
NoNewSlot(c) ==
  \/ call'[c].op = "none" /\ ~ Mine(c)'
  \/ SameCall(c) /\ (Mine(c)' => Mine(c))

LEMMA CallsKept ==
  ASSUME SlotInv, NEW c \in Callers, Others(c), NoNewSlot(c), UNCHANGED closing
  PROVE  /\ Phases' /\ Apart'
         /\ \A d \in Callers : Mine(d)' => Mine(d) /\ call'[d].s = call[d].s
PROOF
<1>m. \A d \in Callers : Mine(d)' => Mine(d) /\ call'[d].s = call[d].s
  BY DEF NoNewSlot, Others, SameCall, Mine
<1>c. \A d \in Callers : call'[d].op = "none"
                         \/ (call'[d].op = call[d].op /\ call'[d].h = call[d].h
                             /\ call'[d].s = call[d].s)
  BY DEF NoNewSlot, Others, SameCall
<1>1. Phases'
  <2>1. \A d \in Callers : call[d].op = "none" => call'[d].op = "none"
    BY <1>c
  <2>3. \A a, b \in Callers :
          a # b /\ call'[a].op # "none" /\ call'[b].op # "none"
             => MayOverlap(call[a].op, call[a].h, call[b])
    BY <1>c DEF SlotInv, Phases
  <2>4. \A a, b \in Callers :
          a # b /\ call'[a].op # "none" /\ call'[b].op # "none"
             => MayOverlap(call'[a].op, call'[a].h, call'[b])
    BY <1>c, <2>3 DEF MayOverlap
  <2>. QED  BY <2>1, <2>4, Parts DEF Phases, SlotInv
<1>2. Apart'
  <2>1. \A d \in Callers : call'[d].op # "none" => call'[d].h = call[d].h
                             /\ call'[d].op = call[d].op /\ call'[d].s = call[d].s
    BY <1>c
  <2>. QED  BY <1>m, <2>1 DEF Apart, SlotInv
<1>. QED  BY <1>1, <1>2, <1>m

(* ... at its own slot s: the other threads, slots and handlers.           *)
LEMMA OthersKept ==
  ASSUME SlotInv, failed = "no", NEW c \in Callers, Mine(c), NEW s, s = call[c].s,
         Others(c), Elsewhere(s), \A d \in Callers \ {c} : Undisturbed(d)
  PROVE  \A d \in Callers \ {c} : ThreadOK(d)'
PROOF
<1>1. ASSUME NEW d \in Callers \ {c}  PROVE ThreadOK(d)'
  <2>1. call'[d] = call[d] /\ Undisturbed(d) /\ ThreadOK(d) /\ Types
    BY DEF Others, SlotInv
  <2>2. Spared(d, s) /\ (call[d].op = "hangup" => call[d].s # s)
    BY MineSpares
  <2>. QED  BY <2>1, <2>2, ThreadKept
<1>. QED  BY <1>1

LEMMA OtherSlotsKept ==
  ASSUME SlotInv, NEW c \in Callers, Mine(c), NEW s, s = call[c].s,
         Others(c), Elsewhere(s),
         \A x \in Socks \ {s} :
           /\ x \in Members(sockPool') <=> x \in Members(sockPool)
           /\ HandleOf(x)' \in known' => HandleOf(x) \in known,
         \A t \in Terms : term[t].started => term'[t].started
  PROVE  \A x \in Socks \ {s} : SlotOK(x)'
PROOF
<1>1. ASSUME NEW x \in Socks \ {s}  PROVE SlotOK(x)'
  <2>1. sock'[x] = sock[x] /\ SlotOK(x) /\ StillAmid(x)
    BY OthersAmid DEF Elsewhere, SlotInv
  <2>2. HandleOf(x)' = HandleOf(x)  BY <2>1 DEF HandleOf
  <2>3. sock[x].term \in Terms \cup {NoTerm}  BY Fields DEF SlotInv
  <2>. QED  BY <2>1, <2>2, <2>3, SlotKept
<1>. QED  BY <1>1

LEMMA OpsKept ==
  ASSUME SlotInv, NEW c \in Callers, Mine(c), NEW s, s = call[c].s, Elsewhere(s),
         \A op \in ops : Early(op) => term'[op.t] = term[op.t],
         \A d \in Callers : Mine(d)' => Mine(d) /\ call'[d].s = call[d].s
  PROVE  \A op \in ops : OpOK(op)'
PROOF
<1>1. ASSUME NEW op \in ops  PROVE OpOK(op)'
  <2>1. OpOK(op) /\ op.s \in Socks  BY Parts
  <2>2. Early(op) \/ op.kind = "connected" => sock'[op.s] = sock[op.s]
    BY <2>1, MineNotOp DEF Elsewhere
  <2>. QED  BY <2>1, <2>2 DEF OpOK, Early
<1>. QED  BY <1>1

(* Thread c goes on with its call or returns, and changes at most the      *)
(* state and the listener of the slot it has to itself.                    *)
Advance(c) ==
  /\ failed = "no"
  /\ call[c].op # "none"
  /\ Others(c)
  /\ NoNewSlot(c)
  /\ {call[c].pc, call'[c].pc} \cap {"prepare", "clearTerm"} = {}
  /\ UNCHANGED <<sockPool, term, connPool, ops, known, closing>>

AtOwn(c, s) ==
  /\ Mine(c)
  /\ call[c].s = s
  /\ Elsewhere(s)
  /\ sock'[s].gen = sock[s].gen
  /\ sock'[s].term = sock[s].term
  /\ sock'[s].state = "Stopping" => sock[s].term = NoTerm

LEMMA AdvanceKeeps ==
  ASSUME SlotInv, NEW c \in Callers, Advance(c), Types', ThreadOK(c)', NEW s0,
         \/ AtOwn(c, s0) /\ SlotOK(s0)'
         \/ UNCHANGED sock /\ ~ (call[c].pc \in Between)
  PROVE  SlotInv'
PROOF
<1>p. /\ \A d \in Callers : ThreadOK(d) /\ Place(d) /\ Owned(d)
      /\ Types /\ Terminals
  BY Parts DEF SlotInv
<1>h. \A x : sock'[x].gen = sock[x].gen => HandleOf(x)' = HandleOf(x)
  BY DEF HandleOf
<1>s. \A x \in Socks : sock'[x].gen = sock[x].gen /\ sock'[x].term = sock[x].term
  BY DEF AtOwn, Elsewhere
<1>1. /\ Phases' /\ Apart'
      /\ \A d \in Callers : Mine(d)' => Mine(d) /\ call'[d].s = call[d].s
  BY CallsKept DEF Advance
<1>3. ASSUME NEW d \in Callers \ {c}  PROVE ThreadOK(d)'
  <2>1. call'[d] = call[d] /\ failed = "no"  BY DEF Advance, Others
  <2>2. Undisturbed(d)
    <3>1. NoNewOp  BY DEF NoNewOp, Advance
    <3>2. UNCHANGED <<sockPool, known, term>>  BY DEF Advance
    <3>. QED  BY <1>p, <3>1, <3>2 DEF Undisturbed, Owned, StageTerm
  <2>3. CASE AtOwn(c, s0)
    <3>1. Spared(d, s0) /\ (call[d].op = "hangup" => call[d].s # s0)
      BY <2>3, MineSpares DEF AtOwn
    <3>. QED  BY <1>p, <2>1, <2>2, <2>3, <3>1, ThreadKept DEF AtOwn
  <2>4. CASE UNCHANGED sock
    <3>1. PICK x : x \notin Socks \cup {NoHandle}
                     /\ (call[d].op = "accept" => HandleToId(call[d].h) # x)
      <4>1. PICK x : x \notin Socks \cup {NoHandle, HandleToId(call[d].h)}
        BY NoSetContainsEverything
      <4>. QED  BY <4>1
    <3>2. Spared(d, x) /\ Elsewhere(x) /\ call[d].s # x
      BY <2>4, <3>1, <1>p, Fields DEF Spared, Elsewhere
    <3>. QED  BY <1>p, <2>1, <2>2, <3>2, ThreadKept
  <2>. QED  BY <2>3, <2>4
<1>4. ASSUME NEW x \in Socks  PROVE SlotOK(x)'
  <2>1. CASE SlotOK(s0)' /\ x = s0  BY <2>1
  <2>2. CASE ~ (SlotOK(s0)' /\ x = s0)
    <3>1. sock'[x] = sock[x]  BY <2>2 DEF AtOwn, Elsewhere
    <3>2. StillAmid(x)
      <4>1. CASE AtOwn(c, s0) /\ x # s0
        BY <4>1, OthersAmid DEF AtOwn, Advance
      <4>2. CASE ~ (call[c].pc \in Between)
        BY <4>2 DEF StillAmid, Advance, Others
      <4>. QED  BY <2>2, <4>1, <4>2
    <3>3. SlotOK(x) /\ UNCHANGED <<sockPool, known, term>>
      BY DEF SlotInv, Advance
    <3>. QED  BY <3>1, <3>2, <3>3, SlotKept
  <2>. QED  BY <2>1, <2>2
<1>5. Terminals'
  <2>1. SamePrepares
    BY DEF SamePrepares, Prepares, Advance, Others
  <2>2. SameHas
    <3>1. \A x \in Socks : Amid({"clearTerm"}, x)' <=> Amid({"clearTerm"}, x)
      BY DEF Amid, Advance, Others
    <3>. QED  BY <1>s, <3>1 DEF SameHas, Has
  <2>3. ASSUME NEW x \in Socks, NEW t \in Terms, Has(x, t), TermOf(x, t)
        PROVE  TermOf(x, t)'
    <3>1. term' = term /\ connPool' = connPool /\ HandleOf(x)' = HandleOf(x)
      BY <1>s, <1>h DEF Advance
    <3>2. CASE sock'[x] = sock[x]  BY <2>3, <3>1, <3>2 DEF TermOf
    <3>3. CASE AtOwn(c, s0) /\ x = s0
      <4>1. Mine(c) /\ call[c].s = x /\ sock[x].term = t /\ t # NoTerm /\ call[c].pc # "clearTerm"
        BY <2>3, <3>3, SocketTableAssumption DEF AtOwn, Has, Advance
      <4>2. ~ term[t].started /\ term[t].closer \in {"none", "posted", "running"}
        BY <1>p, <4>1, Fields DEF Owned, StageTerm
      <4>3. ~ term[t].notify /\ term[t].closer = "none"
        BY <2>3, <4>2 DEF TermOf
      <4>4. sock'[x].state # "Stopping"  BY <3>3, <4>1 DEF AtOwn
      <4>. QED  BY <2>3, <3>1, <4>2, <4>3, <4>4 DEF TermOf
    <3>. QED  BY <3>2, <3>3 DEF AtOwn, Elsewhere
  <2>4. term' = term /\ connPool' = connPool  BY DEF Advance
  <2>. QED  BY <1>p, <2>1, <2>2, <2>3, <2>4, TerminalsKept
<1>6. ASSUME NEW op \in ops  PROVE OpOK(op)'
  <2>1. OpOK(op) /\ op.s \in Socks /\ UNCHANGED term  BY Parts DEF Advance
  <2>2. sock'[op.s].term = sock[op.s].term  BY <1>s, <2>1
  <2>3. Early(op) \/ op.kind = "connected" => sock'[op.s] = sock[op.s]
    <3>1. CASE AtOwn(c, s0)
      BY <2>1, <3>1, MineNotOp DEF AtOwn, Elsewhere
    <3>. QED  BY <3>1
  <2>. QED  BY <1>1, <2>1, <2>2, <2>3 DEF OpOK, Early
<1>7. KnownOK'
  <2>1. UNCHANGED known /\ \A h \in known : HandleToId(h) \in Socks
    BY HandleIs DEF Advance, SlotInv, Types
  <2>. QED  BY <1>s, <2>1 DEF KnownOK, SlotInv
<1>8. UNCHANGED <<ops, sockPool, connPool>>  BY DEF Advance
<1>. QED
  BY <1>1, <1>3, <1>4, <1>5, <1>6, <1>7, <1>8 DEF SlotInv, OneOp, Early

(* What the owner of a slot knows is what the table must look like there.  *)
LEMMA OwnSlotKept ==
  ASSUME Types', NEW c \in Callers, NEW s, s = call'[c].s,
         Mine(c)', Owned(c)', call'[c].pc # "publish"
  PROVE  SlotOK(s)'
PROOF
<1>1. /\ call'[c].pc \in Labels /\ sock'[s].term \in Terms \cup {NoTerm}
      /\ s \in Socks /\ s \notin Members(sockPool') /\ sock'[s].gen <= MaxGen
      /\ StageState(c)' /\ StageListen(c)' /\ StageTerm(c)'
  BY DEF Owned, Types, SockRec, CallRec
<1>2. sock'[s].state \in {"Disconnected", "StartToListen", "Listening",
                          "Accept1", "Connecting", "Stopping"}
  BY <1>1 DEF StageState, Starting, Labels, Mine
<1>3. sock'[s].listen # NoListener =>
        \/ sock'[s].state \in {"StartToListen", "Listening"}
        \/ sock'[s].state = "Disconnected"
             /\ call'[c].pc \in {"undoListener", "clearListener"}
  BY <1>1 DEF StageState, Starting, StageListen
<1>4. sock'[s].state = "Listening" /\ sock'[s].listen = NoListener =>
        call'[c].pc = "stopListening"
  BY <1>1 DEF StageState, Starting, StageListen, Labels, Mine
<1>5. sock'[s].term # NoTerm =>
        \/ sock'[s].state = "Connecting"
        \/ sock'[s].state = "Disconnected"
             /\ call'[c].pc \in {"undoTerm", "clearTerm"}
  BY <1>1 DEF StageState, Starting, StageTerm
<1>s. sock'[s].state = "StartToListen" => call'[c].pc \in Starting
  BY <1>1 DEF StageState, Starting, Labels, Mine
<1>6. \A labels : call'[c].pc \in labels => Amid(labels, s)'
  BY DEF Amid
<1>. QED
  BY <1>1, <1>2, <1>3, <1>4, <1>5, <1>6, <1>s DEF SlotOK

LEMMA IdleOK ==
  ASSUME NEW c \in Callers, call'[c].op = "none", call'[c].pc = "idle"
  PROVE  ThreadOK(c)' /\ ~ Mine(c)'
PROOF BY DEF ThreadOK, Place, Given, Owned, Mine, HandsOff

(* The step leads to another access of the slot.                           *)
LEMMA OwnMove ==
  ASSUME SlotInv, failed = "no", NEW c \in Callers, NEW s \in Socks,
         s = call[c].s, Mine(c), call[c].pc \notin {"prepare", "clearTerm"},
         call' \in [Callers -> CallRec], Others(c), SameCall(c),
         call'[c].pc \notin {"idle", "publish", "acceptCheck", "acceptSock",
                             "readTerm", "post", "prepare", "clearTerm"},
         sock' \in [Socks -> SockRec], Elsewhere(s),
         sock'[s].gen = sock[s].gen, sock'[s].term = sock[s].term,
         sock'[s].state = "Stopping" => sock[s].term = NoTerm,
         UNCHANGED <<sockPool, term, connPool, ops, known, closing>>,
         refs' \in [Listeners -> RefRec], failed' \in Failures \cup {"no"},
         Place(c)', StageState(c)', StageListen(c)', StageTerm(c)'
  PROVE  SlotInv'
PROOF
<1>1. Types'  BY DEF SlotInv, Types
<1>2. /\ call[c].op \notin {"none", "hangup"} /\ call'[c].s = s
      /\ call'[c].op = call[c].op /\ call'[c].h = call[c].h
      /\ Mine(c)'
  BY Parts DEF Mine, SameCall, Place
<1>3. /\ s \notin Members(sockPool) /\ sock[s].gen <= MaxGen
      /\ call[c].op = "accept" => HandleOf(s) \notin known
  BY Parts DEF Owned
<1>h. HandleOf(s)' = HandleOf(s)  BY DEF HandleOf
<1>4. Owned(c)'  BY <1>2, <1>3, <1>h DEF Owned
<1>5. SlotOK(s)'  BY <1>1, <1>2, <1>4, OwnSlotKept
<1>6. Given(c)'
  <2>1. CASE call[c].op = "accept"
    <3>1. PICK x : x = HandleToId(call[c].h)  OBVIOUS
    <3>2. /\ x \in Socks /\ sock[x].state = "Listening" /\ Valid(call[c].h)
          /\ call[c].h \in Handles
      BY <2>1, <3>1, Parts, HandleIs DEF Given, Mine
    <3>3. call[c].pc \in {"publish", "accept1", "acceptListen", "acceptRef",
                          "takeTerm", "giveBack"}
      BY <2>1, Parts DEF Place, AcceptLabels, Mine
    <3>4. sock[s].state # "Listening"
      BY <2>1, <3>3, Parts DEF Owned, StageState, Starting
    <3>5. sock'[x] = sock[x] /\ HandleOf(x)' = HandleOf(x)
      BY <3>2, <3>4 DEF Elsewhere, HandleOf
    <3>. QED  BY <2>1, <1>2, <3>1, <3>2, <3>5 DEF Given, Valid
  <2>2. CASE call[c].op # "accept"
    BY <2>2, <1>2, <1>h, Parts DEF Given
  <2>. QED  BY <2>1, <2>2
<1>7. HandsOff(c)'  BY DEF HandsOff
<1>8. ThreadOK(c)'  BY <1>4, <1>6, <1>7 DEF ThreadOK
<1>9. Advance(c) /\ AtOwn(c, s)  BY <1>2 DEF Advance, NoNewSlot, AtOwn
<1>. QED  BY <1>1, <1>5, <1>8, <1>9, AdvanceKeeps

(* ... or the thread returns, and the slot is anybody's again.             *)
LEMMA OwnReturn ==
  ASSUME SlotInv, failed = "no", NEW c \in Callers, NEW s \in Socks,
         s = call[c].s, Mine(c), call[c].pc \notin {"prepare", "clearTerm"},
         Return(c), sock' \in [Socks -> SockRec], Elsewhere(s),
         sock'[s].gen = sock[s].gen, sock'[s].term = sock[s].term,
         sock'[s].term = NoTerm,
         \/ sock'[s].state = "Disconnected" /\ sock'[s].listen = NoListener
         \/ sock'[s].state = "Listening" /\ sock'[s].listen # NoListener,
         UNCHANGED <<sockPool, term, connPool, ops, known, closing>>,
         refs' \in [Listeners -> RefRec], failed' \in Failures \cup {"no"}
  PROVE  SlotInv'
PROOF
<1>1. /\ call' \in [Callers -> CallRec] /\ Others(c)
      /\ call'[c].op = "none" /\ call'[c].pc = "idle"
  BY ReturnIs DEF SlotInv
<1>2. Types'  BY <1>1 DEF SlotInv, Types
<1>3. ThreadOK(c)' /\ ~ Mine(c)'  BY <1>1, IdleOK
<1>4. s \notin Members(sockPool) /\ sock[s].gen <= MaxGen  BY Parts DEF Owned
<1>5. SlotOK(s)'  BY <1>4 DEF SlotOK
<1>6. call[c].op # "none"  BY Parts DEF Mine, Place
<1>7. Advance(c) /\ AtOwn(c, s)  BY <1>1, <1>3, <1>6 DEF Advance, NoNewSlot, AtOwn
<1>. QED  BY <1>2, <1>3, <1>5, <1>7, AdvanceKeeps

(* What a thread that has a slot to itself knows of it.                    *)
LEMMA Own ==
  ASSUME SlotInv, NEW c \in Callers, Mine(c)
  PROVE  /\ call[c].s \in Socks /\ call[c].s \notin Members(sockPool)
         /\ sock[call[c].s].gen \in Nat /\ sock[call[c].s].gen <= MaxGen
         /\ StageState(c) /\ StageListen(c) /\ StageTerm(c)
         /\ Place(c) /\ Given(c) /\ call[c].op \in Calls /\ call[c].pc \in Labels
PROOF BY Parts, Fields DEF Owned, SlotInv

LEMMA LabelsAre ==
  /\ ListenLabels \cup AcceptLabels \cup ConnectLabels \cup CloseLabels
       \cup {"idle", "close", "readTerm", "post"} \subseteq Labels
  /\ {"Inpool", "StartToListen", "Listening", "Accept1", "Connecting",
      "ConnAgreed", "ConnAck", "Connected", "Stopping", "Disconnected"}
       \subseteq States
PROOF BY DEF Labels, ListenLabels, AcceptLabels, ConnectLabels, CloseLabels, States

-----------------------------------------------------------------------------
(* Listen                                                                  *)

LEMMA ListenSteps ==
  ASSUME SlotInv, failed = "no", NEW u \in Users,
         \/ ListenCheck(u) \/ ListenSet(u) \/ ListenAgain(u) \/ CreateListener(u)
         \/ BindListener(u) \/ ListenEnd(u) \/ UndoListen(u) \/ UndoListener(u)
         \/ ClearListener(u)
  PROVE  SlotInv'
PROOF
<1>t. /\ Types /\ u \in Callers /\ sock \in [Socks -> SockRec]
      /\ refs \in [Listeners -> RefRec] /\ failed \in Failures \cup {"no"}
      /\ u # Dtor
  BY Parts, SocketTableAssumption DEF SlotInv, Types
<1>p. call[u].pc \in ListenLabels
  BY DEF ListenCheck, CheckState, ListenSet, ListenAgain, CreateListener,
         BindListener, ListenEnd, UndoListen, UndoListener, ClearListener,
         ListenLabels
<1>o. call[u].op = "listen"  BY <1>t, <1>p, CallAt, Parts, Fields
<1>m. Mine(u) /\ call[u].pc \notin {"prepare", "clearTerm"}
  BY <1>o, <1>p DEF Mine, ListenLabels
<1>s. PICK s \in Socks : s = call[u].s  BY <1>t, <1>m, Own
<1>1. /\ s \notin Members(sockPool) /\ sock[s].gen <= MaxGen
      /\ StageState(u) /\ StageListen(u) /\ StageTerm(u)
      /\ call[u].h = HandleOf(s)
      /\ HandleToId(call[u].h) = s
  BY <1>t, <1>m, <1>o, <1>s, Own, HandleIs DEF Given
<1>z. sock[s].term = NoTerm
  BY <1>1, <1>p, <1>s DEF StageTerm, ListenLabels
<1>l. ListenLabels \subseteq Labels /\ "StartToListen" \in States
      /\ "Disconnected" \in States /\ "Listening" \in States
  BY LabelsAre
<1>e. UNCHANGED sock => sock' \in [Socks -> SockRec] /\ Elsewhere(s)
  BY <1>t DEF Elsewhere
(* It suffices to look at the slot.                                        *)
<1>2. ASSUME NEW l \in ListenLabels, Goto(u, l),
             sock' \in [Socks -> SockRec], Elsewhere(s),
             sock'[s].gen = sock[s].gen, sock'[s].term = NoTerm,
             sock'[s].state # "Stopping",
             UNCHANGED <<sockPool, term, connPool, ops, known, closing>>,
             refs' \in [Listeners -> RefRec], failed' \in Failures \cup {"no"},
             l = "listenCheck" \/ l = "listenSet"
               => sock'[s].state = "Disconnected" /\ sock'[s].listen = NoListener,
             l = "listenAgain" \/ l = "createListener"
               => sock'[s].state = "StartToListen" /\ sock'[s].listen = NoListener,
             l = "bindListener" \/ l = "listenEnd"
               => sock'[s].state = "StartToListen" /\ sock'[s].listen # NoListener,
             l = "undoListen" => sock'[s].state = "StartToListen",
             l = "undoListener" => sock'[s].state = "Disconnected",
             l = "clearListener"
               => sock'[s].state = "Disconnected" /\ sock'[s].listen # NoListener
      PROVE  SlotInv'
  <2>1. /\ call' \in [Callers -> CallRec] /\ Others(u) /\ SameCall(u)
        /\ call'[u].pc = l
    BY <1>2, <1>l, <1>t, GotoIs
  <2>2. call'[u].s = s /\ call'[u].op = "listen"
    BY <2>1, <1>s, <1>o DEF SameCall
  <2>3. l \in {"listenCheck", "listenSet", "listenAgain", "createListener",
               "bindListener", "listenEnd", "undoListen", "undoListener",
               "clearListener"}
    BY <1>2 DEF ListenLabels
  <2>4. Place(u)'  BY <1>t, <2>1, <2>2, <2>3 DEF Place, ListenLabels
  <2>5. StageState(u)'  BY <1>2, <2>1, <2>2, <2>3 DEF StageState, Starting
  <2>6. StageListen(u)'  BY <1>2, <2>1, <2>2, <2>3 DEF StageListen
  <2>7. StageTerm(u)'  BY <1>2, <2>1, <2>2, <2>3 DEF StageTerm
  <2>. QED
    BY <1>2, <1>m, <1>s, <1>t, <1>z, <2>1, <2>3, <2>4, <2>5, <2>6, <2>7, OwnMove
<1>u. \A v \in States : SetState(s, v) =>
        /\ sock' \in [Socks -> SockRec] /\ Elsewhere(s)
        /\ sock'[s].state = v /\ sock'[s].gen = sock[s].gen
        /\ sock'[s].term = NoTerm /\ sock'[s].listen = sock[s].listen
  BY <1>t, <1>z, SetStateIs
<1>q. \A p, what : what \in Failures /\ Require(p, what)
                     => failed' \in Failures \cup {"no"}
  BY <1>t, FailedIs
<1>r. \A n \in Listeners :
        /\ [refs EXCEPT ![n].count = 1] \in [Listeners -> RefRec]
        /\ Release(n) \in [Listeners -> RefRec]
  <2>1. \A n \in Listeners : refs[n].count - 1 \in Int  BY <1>t DEF RefRec
  <2>. QED  BY <1>t, <2>1 DEF RefRec, Release
<1>3. CASE ListenCheck(u)
  <2>1. /\ call[u].pc = "listenCheck"
        /\ UNCHANGED <<sock, sockPool, term, connPool, refs, ops, known, closing,
                       failed>>
        /\ sock[s].state \in {"Disconnected", "Listening"}
        /\ sock[s].listen = NoListener <=> sock[s].state = "Disconnected"
    BY <1>1, <1>3, <1>s DEF ListenCheck, CheckState, StageState, Starting, StageListen
  <2>2. CASE sock[s].state = "Disconnected"
    <3>1. Goto(u, "listenSet")
      BY <1>1, <1>3, <2>2 DEF ListenCheck, CheckState
    <3>. QED  BY <1>2, <1>e, <1>t, <1>z, <2>1, <2>2, <3>1 DEF ListenLabels
  <2>3. CASE sock[s].state # "Disconnected"
    <3>1. Return(u)
      BY <1>1, <1>3, <2>3 DEF ListenCheck, CheckState
    <3>. QED
      BY <1>e, <1>m, <1>s, <1>t, <1>z, <2>1, <2>3, <3>1, OwnReturn
  <2>. QED  BY <2>2, <2>3
<1>4. CASE ListenSet(u)
  <2>1. /\ call[u].pc = "listenSet" /\ SetState(s, "StartToListen")
        /\ Goto(u, "listenAgain")
        /\ UNCHANGED <<sockPool, term, connPool, refs, ops, known, closing,
                       failed>>
        /\ sock[s].listen = NoListener
    BY <1>1, <1>4, <1>s DEF ListenSet, StageListen
  <2>. QED  BY <1>2, <1>l, <1>t, <1>u, <2>1 DEF ListenLabels
<1>5. CASE ListenAgain(u)
  <2>1. /\ call[u].pc = "listenAgain" /\ sock[s].state = "StartToListen"
        /\ sock[s].listen = NoListener
        /\ UNCHANGED <<sock, sockPool, term, connPool, refs, ops, known, closing,
                       failed>>
    BY <1>1, <1>5, <1>s DEF ListenAgain, StageState, Starting, StageListen
  <2>2. Goto(u, "createListener")
    BY <1>5, <1>s, <2>1 DEF ListenAgain
  <2>. QED  BY <1>2, <1>e, <1>t, <1>z, <2>1, <2>2 DEF ListenLabels
<1>6. CASE CreateListener(u)
  <2>1. /\ call[u].pc = "createListener" /\ sock[s].state = "StartToListen"
        /\ UNCHANGED <<sockPool, term, connPool, ops, known, closing, failed>>
    BY <1>1, <1>6, <1>s DEF CreateListener, StageState, Starting
  <2>2. CASE Goto(u, "undoListen") /\ UNCHANGED <<sock, refs>>
    BY <1>2, <1>e, <1>t, <1>z, <2>1, <2>2 DEF ListenLabels
  <2>3. CASE ~ (Goto(u, "undoListen") /\ UNCHANGED <<sock, refs>>)
    <3>1. PICK n \in Listeners :
            /\ refs' = [refs EXCEPT ![n].count = 1]
            /\ sock' = [sock EXCEPT ![s].listen = n]
            /\ Goto(u, "bindListener")
      BY <1>6, <1>s, <2>3 DEF CreateListener
    <3>2. /\ sock' \in [Socks -> SockRec] /\ Elsewhere(s)
          /\ sock'[s].listen = n /\ sock'[s].gen = sock[s].gen
          /\ sock'[s].term = NoTerm /\ sock'[s].state = "StartToListen"
      BY <1>t, <1>z, <2>1, <3>1, SetListenIs
    <3>3. n # NoListener /\ refs' \in [Listeners -> RefRec]
      BY <1>r, <3>1, SocketTableAssumption
    <3>. QED  BY <1>2, <1>t, <2>1, <3>1, <3>2, <3>3 DEF ListenLabels
  <2>. QED  BY <2>2, <2>3
<1>7. CASE BindListener(u)
  <2>1. /\ call[u].pc = "bindListener" /\ sock[s].state = "StartToListen"
        /\ sock[s].listen # NoListener
        /\ UNCHANGED <<sock, sockPool, term, connPool, refs, ops, known, closing>>
        /\ Goto(u, "undoListen") \/ Goto(u, "listenEnd")
    BY <1>1, <1>7, <1>s DEF BindListener, StageState, Starting, StageListen
  <2>2. failed' \in Failures \cup {"no"}
    BY <1>7, <1>q DEF BindListener, Failures, Audits
  <2>3. CASE Goto(u, "undoListen")
    BY <1>2, <1>e, <1>t, <1>z, <2>1, <2>2, <2>3 DEF ListenLabels
  <2>4. CASE Goto(u, "listenEnd")
    BY <1>2, <1>e, <1>t, <1>z, <2>1, <2>2, <2>4 DEF ListenLabels
  <2>. QED  BY <2>1, <2>3, <2>4
<1>8. CASE ListenEnd(u)
  <2>1. /\ call[u].pc = "listenEnd" /\ SetState(s, "Listening") /\ Return(u)
        /\ sock[s].listen # NoListener
        /\ UNCHANGED <<sockPool, term, connPool, refs, ops, known, closing>>
    BY <1>1, <1>8, <1>s DEF ListenEnd, StageListen
  <2>2. failed' \in Failures \cup {"no"}
    BY <1>8, <1>q DEF ListenEnd, Failures, Audits
  <2>3. /\ sock' \in [Socks -> SockRec] /\ Elsewhere(s)
        /\ sock'[s].state = "Listening" /\ sock'[s].gen = sock[s].gen
        /\ sock'[s].term = NoTerm /\ sock'[s].listen # NoListener
    BY <1>l, <1>u, <2>1
  <2>. QED  BY <1>m, <1>s, <1>t, <1>z, <2>1, <2>2, <2>3, OwnReturn
<1>9. CASE UndoListen(u)
  <2>1. /\ call[u].pc = "undoListen" /\ SetState(s, "Disconnected")
        /\ Goto(u, "undoListener")
        /\ UNCHANGED <<sockPool, term, connPool, refs, ops, known, closing,
                       failed>>
    BY <1>9, <1>s DEF UndoListen
  <2>. QED  BY <1>2, <1>l, <1>t, <1>u, <2>1 DEF ListenLabels
<1>10. CASE UndoListener(u)
  <2>1. /\ call[u].pc = "undoListener" /\ sock[s].state = "Disconnected"
        /\ UNCHANGED <<sock, sockPool, term, connPool, ops, known, closing>>
    BY <1>1, <1>10, <1>s DEF UndoListener, StageState, Starting
  <2>2. CASE sock[s].listen = NoListener
    <3>1. Return(u) /\ UNCHANGED <<refs, failed>>
      BY <1>10, <1>s, <2>2 DEF UndoListener
    <3>. QED
      BY <1>e, <1>m, <1>s, <1>t, <1>z, <2>1, <2>2, <3>1, OwnReturn
  <2>3. CASE sock[s].listen # NoListener
    <3>1. /\ Require(Alive(sock[s].listen), "Listener used after its last release")
          /\ refs' = Release(sock[s].listen) /\ Goto(u, "clearListener")
      BY <1>10, <1>s, <2>3 DEF UndoListener
    <3>2. refs' \in [Listeners -> RefRec]
      BY <1>r, <1>t, <2>3, <3>1, Fields
    <3>3. failed' \in Failures \cup {"no"}
      BY <1>q, <3>1 DEF Failures, Audits
    <3>. QED
      BY <1>2, <1>e, <1>t, <1>z, <2>1, <2>3, <3>1, <3>2, <3>3 DEF ListenLabels
  <2>. QED  BY <2>2, <2>3
<1>11. CASE ClearListener(u)
  <2>1. /\ call[u].pc = "clearListener" /\ sock[s].state = "Disconnected"
        /\ sock' = [sock EXCEPT ![s].listen = NoListener] /\ Return(u)
        /\ UNCHANGED <<sockPool, term, connPool, refs, ops, known, closing,
                       failed>>
    BY <1>1, <1>11, <1>s DEF ClearListener, StageState, Starting
  <2>2. /\ sock' \in [Socks -> SockRec] /\ Elsewhere(s)
        /\ sock'[s].state = "Disconnected" /\ sock'[s].gen = sock[s].gen
        /\ sock'[s].term = NoTerm /\ sock'[s].listen = NoListener
    BY <1>t, <1>z, <2>1, SetListenIs
  <2>. QED  BY <1>m, <1>s, <1>t, <1>z, <2>1, <2>2, OwnReturn
<1>. QED
  BY <1>3, <1>4, <1>5, <1>6, <1>7, <1>8, <1>9, <1>10, <1>11

-----------------------------------------------------------------------------
(* Accept and Connect, where neither pool is touched                       *)

LEMMA AcceptSteps ==
  ASSUME SlotInv, failed = "no", NEW u \in Users,
         \/ AcceptCheck(u) \/ (AcceptSock(u) /\ ~ CanAllocate)
         \/ Accept1(u) \/ AcceptListen(u) \/ AcceptRef(u)
  PROVE  SlotInv'
PROOF
<1>t. /\ Types /\ u \in Callers /\ sock \in [Socks -> SockRec]
      /\ refs \in [Listeners -> RefRec] /\ failed \in Failures \cup {"no"}
      /\ call \in [Callers -> CallRec] /\ u # Dtor
  BY Parts, SocketTableAssumption DEF SlotInv, Types
<1>p. call[u].pc \in {"acceptCheck", "acceptSock", "accept1", "acceptListen",
                      "acceptRef"}
  BY DEF AcceptCheck, CheckState, AcceptSock, Accept1, AcceptListen, AcceptRef
<1>o. call[u].op = "accept"  BY <1>t, <1>p, CallAt, Parts, Fields
<1>x. PICK x : x = HandleToId(call[u].h)  OBVIOUS
<1>y. /\ x \in Socks /\ Valid(call[u].h) /\ call[u].h \in Handles
      /\ call[u].pc # "acceptCheck" => sock[x].state = "Listening"
  BY <1>o, <1>t, <1>x, Parts, HandleIs DEF Given
<1>l. "Accept1" \in States  BY LabelsAre
<1>m. call[u].pc \in {"accept1", "acceptListen", "acceptRef"} => Mine(u)
  BY <1>o DEF Mine
<1>n. ~ Mine(u) => ~ (call[u].pc \in Between)
  BY <1>p, <1>m DEF Between, Starting
<1>1. CASE AcceptCheck(u)
  <2>1. /\ call[u].pc = "acceptCheck"
        /\ UNCHANGED <<sock, sockPool, term, connPool, refs, ops, known, closing,
                       failed>>
    BY <1>1 DEF AcceptCheck, CheckState
  <2>2. CASE sock[x].state = "Listening"
    <3>1. Goto(u, "acceptSock")
      BY <1>1, <1>x, <2>2 DEF AcceptCheck, CheckState
    <3>2. "acceptSock" \in Labels  BY DEF Labels
    <3>3. /\ call' \in [Callers -> CallRec] /\ Others(u) /\ SameCall(u)
          /\ call'[u].pc = "acceptSock"
      BY <1>t, <3>1, <3>2, GotoIs
    <3>4. Place(u)'  BY <1>o, <1>t, <3>3 DEF Place, SameCall, AcceptLabels
    <3>5. Given(u)'
      BY <1>o, <1>x, <1>y, <2>1, <2>2, <3>3
      DEF Given, SameCall, Valid, HandleOf
    <3>6. ~ Mine(u)' /\ Owned(u)' /\ HandsOff(u)'
      BY <3>3 DEF Mine, Owned, HandsOff
    <3>7. Types'  BY <2>1, <3>3 DEF SlotInv, Types
    <3>8. Advance(u) /\ ~ (call[u].pc \in Between)
      BY <1>o, <2>1, <3>3, <3>6 DEF Advance, NoNewSlot, Between, Starting
    <3>. QED
      BY <1>t, <2>1, <3>4, <3>5, <3>6, <3>7, <3>8, AdvanceKeeps DEF ThreadOK
  <2>3. CASE sock[x].state # "Listening"
    <3>1. Return(u)  BY <1>1, <1>x, <2>3 DEF AcceptCheck, CheckState
    <3>2. /\ call' \in [Callers -> CallRec] /\ Others(u)
          /\ call'[u].op = "none" /\ call'[u].pc = "idle"
      BY <1>t, <3>1, ReturnIs
    <3>3. ThreadOK(u)' /\ ~ Mine(u)'  BY <1>t, <3>2, IdleOK
    <3>4. Types'  BY <2>1, <3>2 DEF SlotInv, Types
    <3>5. Advance(u) /\ ~ (call[u].pc \in Between)
      BY <1>o, <2>1, <3>2, <3>3 DEF Advance, NoNewSlot, Between, Starting
    <3>. QED  BY <1>t, <2>1, <3>3, <3>4, <3>5, AdvanceKeeps
  <2>. QED  BY <2>2, <2>3
<1>2. CASE AcceptSock(u) /\ ~ CanAllocate
  <2>1. /\ call[u].pc = "acceptSock" /\ Return(u)
        /\ UNCHANGED <<sock, sockPool, term, connPool, refs, ops, known, closing,
                       failed>>
    BY <1>2 DEF AcceptSock, TakeSlot
  <2>2. /\ call' \in [Callers -> CallRec] /\ Others(u)
        /\ call'[u].op = "none" /\ call'[u].pc = "idle"
    BY <1>t, <2>1, ReturnIs
  <2>3. ThreadOK(u)' /\ ~ Mine(u)'  BY <1>t, <2>2, IdleOK
  <2>4. Types'  BY <2>1, <2>2 DEF SlotInv, Types
  <2>5. Advance(u) /\ ~ (call[u].pc \in Between)
    BY <1>o, <2>1, <2>2, <2>3 DEF Advance, NoNewSlot, Between, Starting
  <2>. QED  BY <1>t, <2>1, <2>3, <2>4, <2>5, AdvanceKeeps
<1>3. CASE Accept1(u) \/ AcceptListen(u) \/ AcceptRef(u)
  <2>m. Mine(u) /\ call[u].pc \notin {"prepare", "clearTerm"}
    BY <1>3, <1>m DEF Accept1, AcceptListen, AcceptRef
  <2>s. PICK s \in Socks : s = call[u].s  BY <1>t, <2>m, Own
  <2>1. /\ StageState(u) /\ StageListen(u) /\ StageTerm(u)
    BY <1>t, <2>m, Own
  <2>2. sock[s].term = NoTerm /\ sock[s].listen = NoListener
    BY <1>p, <2>1, <2>m, <2>s DEF StageTerm, StageListen, Mine
  <2>e. UNCHANGED sock => sock' \in [Socks -> SockRec] /\ Elsewhere(s)
    BY <1>t DEF Elsewhere
  <2>3. sock[x].listen \in Listeners
    <3>1. sock[x].state = "Listening" /\ SlotOK(x)
      BY <1>3, <1>y DEF Accept1, AcceptListen, AcceptRef, SlotInv
    <3>2. ~ Amid({"stopListening"}, x)
      <4>1. ASSUME NEW d \in Callers, call[d].pc = "stopListening", call[d].s = x
            PROVE  FALSE
        <5>1. call[d].op = "close"  BY <4>1, <1>t, CallAt, Parts, Fields
        <5>2. Mine(d) /\ d # u  BY <1>p, <4>1, <5>1 DEF Mine
        <5>. QED  BY <1>o, <1>t, <1>x, <4>1, <5>2 DEF SlotInv, Apart
      <4>. QED  BY <4>1 DEF Amid
    <3>. QED  BY <1>t, <1>y, <3>1, <3>2, Fields DEF SlotOK
  <2>4. CASE Accept1(u)
    <3>1. /\ SetState(s, "Accept1") /\ Goto(u, "acceptListen")
          /\ UNCHANGED <<sockPool, term, connPool, refs, ops, known, closing,
                         failed>>
      BY <2>4, <2>s DEF Accept1
    <3>2. /\ sock' \in [Socks -> SockRec] /\ Elsewhere(s)
          /\ sock'[s].state = "Accept1" /\ sock'[s].gen = sock[s].gen
          /\ sock'[s].term = NoTerm /\ sock'[s].listen = NoListener
      BY <1>l, <1>t, <2>2, <3>1, SetStateIs
    <3>3. "acceptListen" \in Labels  BY DEF Labels
    <3>4. /\ call' \in [Callers -> CallRec] /\ Others(u) /\ SameCall(u)
          /\ call'[u].pc = "acceptListen"
      BY <1>t, <3>1, <3>3, GotoIs
    <3>5. call'[u].s = s /\ call'[u].op = "accept"
      BY <1>o, <2>s, <3>4 DEF SameCall
    <3>6. Place(u)'  BY <1>t, <3>4, <3>5 DEF Place, AcceptLabels
    <3>7. StageState(u)' /\ StageListen(u)' /\ StageTerm(u)'
      BY <3>2, <3>4, <3>5 DEF StageState, Starting, StageListen, StageTerm
    <3>. QED  BY <1>t, <2>2, <2>m, <2>s, <3>1, <3>2, <3>4, <3>6, <3>7, OwnMove
  <2>5. CASE AcceptListen(u)
    <3>1. /\ call[u].pc = "acceptListen" /\ sock[x].listen # NoListener
          /\ UNCHANGED <<sock, sockPool, term, connPool, refs, ops, known, closing,
                         failed>>
          /\ sock[s].state = "Accept1"
      BY <2>1, <2>3, <2>5, <2>s, SocketTableAssumption
      DEF AcceptListen, StageState, Starting
    <3>2. call' = [call EXCEPT ![u].l = sock[x].listen, ![u].pc = "acceptRef"]
      BY <1>x, <2>5, <3>1 DEF AcceptListen
    <3>3. "acceptRef" \in Labels  BY DEF Labels
    <3>4. /\ call' \in [Callers -> CallRec] /\ Others(u) /\ SameCall(u)
          /\ call'[u].pc = "acceptRef" /\ call'[u].l = sock[x].listen
      BY <1>t, <2>3, <3>2, <3>3 DEF CallRec, Others, SameCall
    <3>5. call'[u].s = s /\ call'[u].op = "accept" /\ HandleToId(call'[u].h) = x
      BY <1>o, <1>x, <2>s, <3>4 DEF SameCall
    <3>6. Place(u)'  BY <1>t, <3>4, <3>5 DEF Place, AcceptLabels
    <3>7. StageState(u)' /\ StageTerm(u)'
      BY <2>2, <3>1, <3>4, <3>5 DEF StageState, Starting, StageTerm
    <3>8. StageListen(u)'
      BY <2>2, <2>3, <3>1, <3>4, <3>5 DEF StageListen
    <3>. QED
      BY <1>t, <2>2, <2>e, <2>m, <2>s, <3>1, <3>4, <3>6, <3>7, <3>8, OwnMove
  <2>6. CASE AcceptRef(u)
    <3>1. /\ call[u].pc = "acceptRef" /\ call[u].l \in Listeners
          /\ UNCHANGED <<sock, sockPool, term, connPool, ops, known, closing>>
          /\ sock[s].state = "Accept1" /\ Goto(u, "takeTerm")
          /\ refs' = AddRef(call[u].l)
          /\ Require(Alive(call[u].l), "Listener used after its last release")
      BY <2>1, <2>6, <2>s DEF AcceptRef, StageState, Starting, StageListen
    <3>2. failed' \in Failures \cup {"no"}
      BY <1>t, <3>1, FailedIs DEF Failures, Audits
    <3>3. refs' \in [Listeners -> RefRec]
      <4>1. \A n \in Listeners : refs[n].count + 1 \in Int
        BY <1>t DEF RefRec
      <4>2. \A n \in Listeners : AddRef(n) \in [Listeners -> RefRec]
        BY <1>t, <4>1 DEF RefRec, AddRef
      <4>. QED  BY <3>1, <4>2
    <3>4. "takeTerm" \in Labels  BY DEF Labels
    <3>5. /\ call' \in [Callers -> CallRec] /\ Others(u) /\ SameCall(u)
          /\ call'[u].pc = "takeTerm" /\ call'[u].l = call[u].l
      BY <1>t, <3>1, <3>4, GotoIs
    <3>6. call'[u].s = s /\ call'[u].op = "accept"
      BY <1>o, <2>s, <3>5 DEF SameCall
    <3>7. Place(u)'  BY <1>t, <3>5, <3>6 DEF Place, AcceptLabels
    <3>8. StageState(u)' /\ StageListen(u)' /\ StageTerm(u)'
      BY <2>2, <3>1, <3>5, <3>6 DEF StageState, Starting, StageListen, StageTerm
    <3>. QED
      BY <1>t, <2>2, <2>e, <2>m, <2>s, <3>1, <3>2, <3>3, <3>5, <3>7, <3>8, OwnMove
  <2>. QED  BY <1>3, <2>4, <2>5, <2>6
<1>. QED  BY <1>1, <1>2, <1>3

LEMMA ConnectSteps ==
  ASSUME SlotInv, failed = "no", NEW u \in Users,
         \/ ConnectCheck(u) \/ ConnectSet(u) \/ ConnectAgain(u)
         \/ (Bind(u) /\ UNCHANGED ops) \/ UndoConnect(u)
         \/ (UndoTerm(u) /\ sock[call[u].s].term = NoTerm)
  PROVE  SlotInv'
PROOF
<1>t. /\ Types /\ u \in Callers /\ sock \in [Socks -> SockRec]
      /\ refs \in [Listeners -> RefRec] /\ failed \in Failures \cup {"no"}
      /\ u # Dtor
  BY Parts, SocketTableAssumption DEF SlotInv, Types
<1>p. call[u].pc \in {"connectCheck", "connectSet", "connectAgain", "bind",
                      "undoConnect", "undoTerm"}
  BY DEF ConnectCheck, CheckState, ConnectSet, ConnectAgain, Bind, UndoConnect,
         UndoTerm
<1>o. call[u].op = "connect"  BY <1>t, <1>p, CallAt, Parts, Fields
<1>m. Mine(u) /\ call[u].pc \notin {"prepare", "clearTerm"}
  BY <1>o, <1>p DEF Mine
<1>s. PICK s \in Socks : s = call[u].s  BY <1>t, <1>m, Own
<1>1. /\ StageState(u) /\ StageListen(u) /\ StageTerm(u)
      /\ HandleToId(call[u].h) = s
  BY <1>t, <1>m, <1>o, <1>s, Own, HandleIs DEF Given
<1>z. sock[s].term # NoTerm => ~ term[sock[s].term].started
  BY <1>1, <1>m, <1>s DEF StageTerm
<1>e. UNCHANGED sock => sock' \in [Socks -> SockRec] /\ Elsewhere(s)
  BY <1>t DEF Elsewhere
<1>l. "Connecting" \in States /\ "Disconnected" \in States  BY DEF States
(* It suffices to look at the slot.                                        *)
<1>2. ASSUME NEW l \in {"connectSet", "connectAgain", "takeTerm", "undoConnect",
                        "undoTerm"},
             Goto(u, l), sock' \in [Socks -> SockRec], Elsewhere(s),
             sock'[s].gen = sock[s].gen, sock'[s].term = sock[s].term,
             sock'[s].listen = NoListener,
             UNCHANGED <<sockPool, term, connPool, refs, ops, known, closing,
                         failed>>,
             sock'[s].state = IF l \in {"connectSet", "undoTerm"}
                              THEN "Disconnected" ELSE "Connecting",
             l \in {"connectSet", "connectAgain", "takeTerm"} =>
               sock[s].term = NoTerm
      PROVE  SlotInv'
  <2>0. l \in Labels  BY <1>2 DEF Labels
  <2>1. /\ call' \in [Callers -> CallRec] /\ Others(u) /\ SameCall(u)
        /\ call'[u].pc = l
    BY <1>2, <1>t, <2>0, GotoIs
  <2>2. call'[u].s = s /\ call'[u].op = "connect"
    BY <2>1, <1>s, <1>o DEF SameCall
  <2>4. Place(u)'  BY <1>2, <1>t, <2>1, <2>2 DEF Place, ConnectLabels
  <2>5. StageState(u)'  BY <1>2, <2>1, <2>2 DEF StageState, Starting
  <2>6. StageListen(u)'  BY <1>2, <2>1, <2>2 DEF StageListen
  <2>7. StageTerm(u)'  BY <1>2, <1>z, <2>1, <2>2 DEF StageTerm
  <2>. QED  BY <1>2, <1>m, <1>s, <1>t, <2>1, <2>4, <2>5, <2>6, <2>7, OwnMove
<1>u. \A v \in States : SetState(s, v) =>
        /\ sock' \in [Socks -> SockRec] /\ Elsewhere(s)
        /\ sock'[s].state = v /\ sock'[s].gen = sock[s].gen
        /\ sock'[s].term = sock[s].term /\ sock'[s].listen = sock[s].listen
  BY <1>t, SetStateIs
<1>3. CASE ConnectCheck(u)
  <2>1. /\ call[u].pc = "connectCheck"
        /\ UNCHANGED <<sock, sockPool, term, connPool, refs, ops, known, closing,
                       failed>>
        /\ sock[s].state \in {"Disconnected", "Listening"}
        /\ sock[s].listen = NoListener <=> sock[s].state = "Disconnected"
        /\ sock[s].term = NoTerm
    BY <1>1, <1>3, <1>s
    DEF ConnectCheck, CheckState, StageState, Starting, StageListen, StageTerm
  <2>2. CASE sock[s].state = "Disconnected"
    <3>1. Goto(u, "connectSet")
      BY <1>1, <1>3, <2>2 DEF ConnectCheck, CheckState
    <3>. QED  BY <1>2, <1>e, <1>t, <2>1, <2>2, <3>1
  <2>3. CASE sock[s].state # "Disconnected"
    <3>1. Return(u)
      BY <1>1, <1>3, <2>3 DEF ConnectCheck, CheckState
    <3>. QED  BY <1>e, <1>m, <1>s, <1>t, <2>1, <2>3, <3>1, OwnReturn
  <2>. QED  BY <2>2, <2>3
<1>4. CASE ConnectSet(u)
  <2>1. /\ call[u].pc = "connectSet" /\ SetState(s, "Connecting")
        /\ Goto(u, "connectAgain")
        /\ UNCHANGED <<sockPool, term, connPool, refs, ops, known, closing,
                       failed>>
        /\ sock[s].listen = NoListener /\ sock[s].term = NoTerm
    BY <1>1, <1>4, <1>s DEF ConnectSet, StageListen, StageTerm
  <2>. QED  BY <1>2, <1>l, <1>u, <2>1
<1>5. CASE ConnectAgain(u)
  <2>1. /\ call[u].pc = "connectAgain" /\ sock[s].state = "Connecting"
        /\ sock[s].listen = NoListener /\ sock[s].term = NoTerm
        /\ UNCHANGED <<sock, sockPool, term, connPool, refs, ops, known, closing,
                       failed>>
    BY <1>1, <1>5, <1>s DEF ConnectAgain, StageState, Starting, StageListen, StageTerm
  <2>2. Goto(u, "takeTerm")
    BY <1>5, <1>s, <2>1 DEF ConnectAgain
  <2>. QED  BY <1>2, <1>e, <2>1, <2>2
<1>6. CASE Bind(u) /\ UNCHANGED ops
  <2>1. /\ call[u].pc = "bind" /\ sock[s].state = "Connecting"
        /\ sock[s].listen = NoListener
        /\ UNCHANGED <<sock, sockPool, term, connPool, refs, known, closing, failed>>
    BY <1>1, <1>6, <1>s DEF Bind, StageState, Starting, StageListen
  <2>2. Goto(u, "undoConnect")
    <3>1. CASE Goto(u, "undoConnect")  BY <3>1
    <3>2. CASE Issue("connect", s, call[u].t, NoListener)
      <4>1. PICK o : o = [kind |-> "connect", s |-> s, t |-> call[u].t,
                          listener |-> NoListener]
        OBVIOUS
      <4>2. o \in ops /\ Early(o) /\ o.s = s
        BY <1>6, <3>2, <4>1 DEF Issue, Early
      <4>. QED  BY <1>m, <1>s, <1>t, <4>2, MineNotOp
    <3>. QED  BY <1>6, <1>s, <3>1, <3>2 DEF Bind
  <2>. QED  BY <1>2, <1>6, <1>e, <2>1, <2>2
<1>7. CASE UndoConnect(u)
  <2>1. /\ call[u].pc = "undoConnect" /\ SetState(s, "Disconnected")
        /\ Goto(u, "undoTerm") /\ sock[s].listen = NoListener
        /\ UNCHANGED <<sockPool, term, connPool, refs, ops, known, closing,
                       failed>>
    BY <1>1, <1>7, <1>s DEF UndoConnect, StageListen
  <2>. QED  BY <1>2, <1>l, <1>u, <2>1
<1>8. CASE UndoTerm(u) /\ sock[s].term = NoTerm
  <2>1. /\ call[u].pc = "undoTerm" /\ sock[s].state = "Disconnected"
        /\ sock[s].listen = NoListener /\ Return(u)
        /\ UNCHANGED <<sock, sockPool, term, connPool, refs, ops, known, closing,
                       failed>>
    BY <1>1, <1>8, <1>s DEF UndoTerm, StageState, Starting, StageListen
  <2>. QED  BY <1>8, <1>e, <1>m, <1>s, <1>t, <2>1, OwnReturn
<1>. QED
  BY <1>3, <1>4, <1>5, <1>6, <1>7, <1>8, <1>s


-----------------------------------------------------------------------------
(* CloseSocket and the destructor, where neither pool is touched           *)

(* The call of a thread that waits for a connection to end.                *)
LEMMA HangupMoves ==
  ASSUME SlotInv, failed = "no", NEW c \in Callers,
         call[c].pc \in {"close", "readTerm"},
         call[c].op = "hangup" \/ (call[c].op = "close" /\ c = Dtor),
         call' \in [Callers -> CallRec], Others(c),
         \/ call'[c].op = "none" /\ call'[c].pc = "idle"
         \/ SameCall(c) /\ call'[c].pc \in {"readTerm", "post"} /\ HandsOff(c)',
         failed' \in Failures \cup {"no"},
         UNCHANGED <<sock, sockPool, term, connPool, refs, ops, known, closing>>
  PROVE  SlotInv'
PROOF
<1>t. Types /\ Place(c) /\ Given(c) /\ Dtor \in Callers
  BY Parts DEF SlotInv
<1>1. Types'  BY <1>t DEF Types
<1>2. ThreadOK(c)' /\ ~ Mine(c)'
  <2>1. CASE call'[c].op = "none" /\ call'[c].pc = "idle"  BY <2>1, IdleOK
  <2>2. CASE SameCall(c) /\ call'[c].pc \in {"readTerm", "post"} /\ HandsOff(c)'
    <3>1. ~ Mine(c)' /\ Owned(c)'  BY <2>2 DEF Mine, Owned
    <3>2. Place(c)'  BY <1>t, <2>2 DEF Place, SameCall
    <3>3. Given(c)'  BY <1>t, <2>2 DEF Given, SameCall, HandleOf
    <3>. QED  BY <2>2, <3>1, <3>2, <3>3 DEF ThreadOK
  <2>. QED  BY <2>1, <2>2
<1>3. Advance(c) /\ ~ (call[c].pc \in Between)
  BY <1>2 DEF Advance, NoNewSlot, Between, Starting
<1>. QED  BY <1>1, <1>2, <1>3, AdvanceKeeps

LEMMA ReadTermStep ==
  ASSUME SlotInv, failed = "no", NEW c \in Callers, ReadTerm(c)
  PROVE  SlotInv'
PROOF
<1>t. /\ Types /\ Terminals /\ call[c].pc = "readTerm"
      /\ Dtor \in Callers /\ Users \subseteq Callers
      /\ sock' = sock /\ ops' = ops
      /\ UNCHANGED <<sock, sockPool, term, connPool, refs, ops, known, closing>>
  BY Parts DEF SlotInv, ReadTerm
<1>o. call[c].op = "hangup" \/ (call[c].op = "close" /\ c = Dtor)
  BY <1>t, CallAt, Parts, Fields
<1>s. PICK s \in Socks : s = call[c].s  BY <1>o, Parts DEF Given
<1>x. PICK t \in Terms \cup {NoTerm} : t = sock[s].term  BY <1>t, Fields
<1>1. /\ call' = [call EXCEPT ![c].pc = "post", ![c].t = t]
      /\ Require(t # NoTerm, "Connected socket should have a terminal.")
  BY <1>s, <1>x DEF ReadTerm
<1>2. failed' \in Failures \cup {"no"}
  BY <1>1 DEF Require, Failures
<1>3. failed' = "no" => t \in Terms  BY <1>1 DEF Require
<1>4. "post" \in Labels  BY DEF Labels
<1>5. /\ call' \in [Callers -> CallRec] /\ Others(c) /\ SameCall(c)
      /\ call'[c].pc = "post" /\ call'[c].t = t
  BY <1>1, <1>4, <1>t DEF Types, CallRec, Others, SameCall
<1>6. ASSUME NEW op \in ops, Early(op), op.t = t  PROVE FALSE
  <2>1. /\ op.s \in Socks /\ op.t \in Terms /\ sock[op.s].term = t
        /\ op.s # s
    BY <1>6, <1>t, <1>s, Parts DEF OpOK, HandsOff
  <2>2. Has(op.s, t)
    <3>1. ASSUME NEW d \in Callers, call[d].pc = "clearTerm", call[d].s = op.s
          PROVE  FALSE
      <4>1. call[d].op = "connect"  BY <1>t, <3>1, CallAt, Parts, Fields
      <4>2. Mine(d)  BY <3>1, <4>1 DEF Mine
      <4>. QED  BY <1>6, <3>1, <4>2, MineNotOp
    <3>. QED  BY <2>1, <3>1 DEF Has, Amid
  <2>3. Has(s, t)
    <3>1. ASSUME NEW d \in Callers, call[d].pc = "clearTerm", call[d].s = s
          PROVE  FALSE
      <4>1. call[d].op = "connect"  BY <1>t, <3>1, CallAt, Parts, Fields
      <4>2. Mine(d) /\ d # c  BY <1>o, <3>1, <4>1 DEF Mine
      <4>3. CASE call[c].op = "hangup"
        BY <1>s, <3>1, <4>2, <4>3 DEF SlotInv, Apart
      <4>4. CASE call[c].op = "close" /\ c = Dtor
        <5>1. d \in Users  BY <4>2, <4>4 DEF Callers
        <5>. QED  BY <4>1, <4>4, <5>1 DEF SlotInv, Phases
      <4>. QED  BY <1>o, <4>3, <4>4
    <3>. QED  BY <1>x, <3>1 DEF Has, Amid
  <2>4. term[t].handle = HandleOf(s) /\ term[t].handle = HandleOf(op.s)
    BY <1>t, <1>6, <2>1, <2>2, <2>3 DEF Terminals, TermOf
  <2>. QED  BY <2>1, <2>4 DEF HandleOf
<1>7. HandsOff(c)'  BY <1>3, <1>5, <1>6, <1>t DEF HandsOff, Early
<1>. QED  BY <1>2, <1>5, <1>7, <1>o, <1>t, HangupMoves

LEMMA HangupRead ==
  ASSUME SlotInv, failed = "no", NEW u \in Users, CloseRead(u),
         call[u].op = "hangup"
  PROVE  SlotInv'
PROOF
<1>t. /\ Types /\ call[u].pc = "close" /\ u \in Callers
      /\ failed \in Failures \cup {"no"}
      /\ UNCHANGED <<sock, sockPool, term, connPool, refs, ops, known, closing,
                     failed>>
  BY Parts DEF SlotInv, CloseRead, Types
<1>s. PICK s \in Socks : s = call[u].s  BY <1>t, Parts DEF Given
<1>1. sock[s].state \notin {"Disconnected", "StartToListen", "Listening"}
  BY <1>s, <1>t, Parts DEF Given
<1>2. CASE Return(u)
  <2>1. /\ call' \in [Callers -> CallRec] /\ Others(u)
        /\ call'[u].op = "none" /\ call'[u].pc = "idle"
    BY <1>2, <1>t, ReturnIs
  <2>. QED  BY <1>t, <2>1, HangupMoves
<1>3. CASE ~ Return(u)
  <2>1. sock[s].state = "Connected" /\ Goto(u, "readTerm")
    BY <1>1, <1>3, <1>s DEF CloseRead, Steady, Branch
  <2>2. "readTerm" \in Labels  BY DEF Labels
  <2>3. /\ call' \in [Callers -> CallRec] /\ Others(u) /\ SameCall(u)
        /\ call'[u].pc = "readTerm"
    BY <1>t, <2>1, <2>2, GotoIs
  <2>4. \A op \in ops : Early(op) => op.s # s
    BY <2>1, Parts DEF OpOK, Early
  <2>5. HandsOff(u)'
    BY <1>s, <1>t, <2>3, <2>4 DEF HandsOff, SameCall, Early
  <2>. QED  BY <1>t, <2>3, <2>5, HangupMoves
<1>. QED  BY <1>2, <1>3

LEMMA CloseSteps ==
  ASSUME SlotInv, failed = "no", NEW c \in Callers,
         \/ (c \in Users /\ CloseRead(c) /\ call[c].op # "hangup")
         \/ StopIdle(c) \/ ReadListener(c) \/ Unlisten(c) \/ StopListening(c)
         \/ ReleaseListener(c)
  PROVE  SlotInv'
PROOF
<1>t. /\ Types /\ sock \in [Socks -> SockRec] /\ call \in [Callers -> CallRec]
      /\ refs \in [Listeners -> RefRec] /\ failed \in Failures \cup {"no"}
  BY DEF SlotInv, Types
<1>p. call[c].pc \in {"close", "stopIdle", "readListener", "unlisten",
                      "stopListening", "release"}
  BY DEF CloseRead, StopIdle, ReadListener, Unlisten, StopListening,
         ReleaseListener
<1>o. call[c].op = "close" /\ (call[c].pc = "close" => c # Dtor)
  <2>1. call[c].pc = "close" => call[c].op # "hangup"
    BY DEF CloseRead, StopIdle, ReadListener, Unlisten, StopListening,
           ReleaseListener
  <2>. QED  BY <1>p, <1>t, <2>1, CallAt, Parts, Fields
<1>m. Mine(c) /\ call[c].pc \notin {"prepare", "clearTerm"}
  BY <1>o, <1>p DEF Mine
<1>s. PICK s \in Socks : s = call[c].s  BY <1>t, <1>m, Own
<1>1. StageState(c) /\ StageListen(c) /\ StageTerm(c)
  BY <1>m, Own
<1>z. sock[s].term = NoTerm  BY <1>1, <1>p, <1>s DEF StageTerm
<1>e. UNCHANGED sock => sock' \in [Socks -> SockRec] /\ Elsewhere(s)
  BY <1>t DEF Elsewhere
<1>l. "Stopping" \in States /\ CloseLabels \subseteq Labels
  BY LabelsAre
(* It suffices to look at the slot.                                        *)
<1>2. ASSUME NEW l \in CloseLabels,
             call' \in [Callers -> CallRec], Others(c), SameCall(c),
             call'[c].pc = l,
             sock' \in [Socks -> SockRec], Elsewhere(s),
             sock'[s].gen = sock[s].gen, sock'[s].term = NoTerm,
             UNCHANGED <<sockPool, term, connPool, ops, known, closing>>,
             refs' \in [Listeners -> RefRec], failed' \in Failures \cup {"no"},
             l = "stopIdle"
               => sock'[s].state = "Disconnected" /\ sock'[s].listen = NoListener,
             l = "readListener" \/ l = "unlisten"
               => sock'[s].state = "Listening" /\ sock'[s].listen # NoListener,
             l = "unlisten" => call'[c].l = sock'[s].listen,
             l = "stopListening"
               => sock'[s].state = "Listening" /\ sock'[s].listen = NoListener,
             l = "release" \/ l = "giveBack"
               => sock'[s].state = "Stopping" /\ sock'[s].listen = NoListener,
             l = "stopListening" \/ l = "release" => call'[c].l \in Listeners
      PROVE  SlotInv'
  <2>1. call'[c].s = s /\ call'[c].op = "close"
    BY <1>2, <1>s, <1>o DEF SameCall
  <2>2. l \in {"stopIdle", "readListener", "unlisten", "stopListening",
               "release", "giveBack"}
    BY <1>2 DEF CloseLabels
  <2>3. Place(c)'
    <3>1. (c = Dtor => call'[c].op \in {"none", "close"})  BY <2>1
    <3>. QED  BY <1>2, <2>1, <2>2, <3>1 DEF Place
  <2>4. StageState(c)'  BY <1>2, <2>1, <2>2 DEF StageState, Starting
  <2>5. StageListen(c)'  BY <1>2, <2>1, <2>2 DEF StageListen
  <2>6. StageTerm(c)'  BY <1>2, <2>1, <2>2 DEF StageTerm
  <2>. QED
    BY <1>2, <1>m, <1>s, <1>t, <1>z, <2>2, <2>3, <2>4, <2>5, <2>6, OwnMove
<1>g. \A l \in Labels : Goto(c, l) =>
        /\ call' \in [Callers -> CallRec] /\ Others(c) /\ SameCall(c)
        /\ call'[c].pc = l /\ call'[c].l = call[c].l
  BY <1>t, GotoIs
<1>3. CASE CloseRead(c)
  <2>1. /\ call[c].pc = "close"
        /\ UNCHANGED <<sock, sockPool, term, connPool, refs, ops, known, closing,
                       failed>>
        /\ sock[s].state \in {"Disconnected", "Listening"}
        /\ sock[s].listen = NoListener <=> sock[s].state = "Disconnected"
    BY <1>1, <1>3, <1>s DEF CloseRead, StageState, Starting, StageListen
  <2>2. CASE sock[s].state = "Disconnected"
    <3>1. Goto(c, "stopIdle")
      BY <1>3, <1>s, <2>2 DEF CloseRead, Branch
    <3>2. "stopIdle" \in CloseLabels  BY DEF CloseLabels
    <3>. QED  BY <1>2, <1>e, <1>g, <1>l, <1>t, <1>z, <2>1, <2>2, <3>1, <3>2
  <2>3. CASE sock[s].state = "Listening"
    <3>1. Goto(c, "readListener")
      BY <1>3, <1>s, <2>3 DEF CloseRead, Branch
    <3>2. "readListener" \in CloseLabels  BY DEF CloseLabels
    <3>. QED  BY <1>2, <1>e, <1>g, <1>l, <1>t, <1>z, <2>1, <2>3, <3>1, <3>2
  <2>. QED  BY <2>1, <2>2, <2>3
<1>4. CASE StopIdle(c)
  <2>1. /\ call[c].pc = "stopIdle" /\ SetState(s, "Stopping")
        /\ Goto(c, "giveBack") /\ sock[s].listen = NoListener
        /\ UNCHANGED <<sockPool, term, connPool, refs, ops, known, closing,
                       failed>>
    BY <1>1, <1>4, <1>s DEF StopIdle, StageListen
  <2>2. /\ sock' \in [Socks -> SockRec] /\ Elsewhere(s)
        /\ sock'[s].state = "Stopping" /\ sock'[s].gen = sock[s].gen
        /\ sock'[s].term = NoTerm /\ sock'[s].listen = NoListener
    BY <1>l, <1>t, <1>z, <2>1, SetStateIs
  <2>3. "giveBack" \in CloseLabels  BY DEF CloseLabels
  <2>. QED  BY <1>2, <1>g, <1>l, <1>t, <2>1, <2>2, <2>3
<1>5. CASE ReadListener(c)
  <2>1. /\ call[c].pc = "readListener" /\ sock[s].state = "Listening"
        /\ sock[s].listen # NoListener
        /\ UNCHANGED <<sock, sockPool, term, connPool, refs, ops, known, closing>>
    BY <1>1, <1>5, <1>s DEF ReadListener, StageState, Starting, StageListen
  <2>2. call' = [call EXCEPT ![c].pc = "unlisten", ![c].l = sock[s].listen]
    BY <1>5, <1>s DEF ReadListener
  <2>3. failed' \in Failures \cup {"no"}
    BY <1>5, <1>t, FailedIs DEF ReadListener, Failures, Audits
  <2>4. "unlisten" \in CloseLabels  BY DEF CloseLabels
  <2>l. sock[s].listen \in Listeners \cup {NoListener} /\ "unlisten" \in Labels
    BY <1>l, <1>t, <2>4, Fields
  <2>5. /\ call' \in [Callers -> CallRec] /\ Others(c) /\ SameCall(c)
        /\ call'[c].pc = "unlisten" /\ call'[c].l = sock[s].listen
    BY <1>t, <2>2, <2>l DEF CallRec, Others, SameCall
  <2>. QED  BY <1>2, <1>e, <1>t, <1>z, <2>1, <2>3, <2>4, <2>5
<1>6. CASE Unlisten(c)
  <2>1. /\ call[c].pc = "unlisten" /\ sock[s].state = "Listening"
        /\ call[c].l \in Listeners
        /\ UNCHANGED <<sockPool, term, connPool, refs, ops, known, closing,
                       failed>>
        /\ sock' = [sock EXCEPT ![s].listen = NoListener]
        /\ Goto(c, "stopListening")
    BY <1>1, <1>6, <1>s, <1>t, Fields DEF Unlisten, StageState, Starting, StageListen
  <2>2. /\ sock' \in [Socks -> SockRec] /\ Elsewhere(s)
        /\ sock'[s].state = "Listening" /\ sock'[s].gen = sock[s].gen
        /\ sock'[s].term = NoTerm /\ sock'[s].listen = NoListener
    BY <1>t, <1>z, <2>1, SetListenIs
  <2>3. "stopListening" \in CloseLabels  BY DEF CloseLabels
  <2>. QED  BY <1>2, <1>g, <1>l, <1>t, <2>1, <2>2, <2>3
<1>7. CASE StopListening(c)
  <2>1. /\ call[c].pc = "stopListening" /\ SetState(s, "Stopping")
        /\ call[c].l \in Listeners /\ sock[s].listen = NoListener
        /\ UNCHANGED <<sockPool, term, connPool, refs, ops, known, closing,
                       failed>>
        /\ Goto(c, "release")
    BY <1>1, <1>7, <1>s DEF StopListening, StageListen
  <2>2. /\ sock' \in [Socks -> SockRec] /\ Elsewhere(s)
        /\ sock'[s].state = "Stopping" /\ sock'[s].gen = sock[s].gen
        /\ sock'[s].term = NoTerm /\ sock'[s].listen = NoListener
    BY <1>l, <1>t, <1>z, <2>1, SetStateIs
  <2>3. "release" \in CloseLabels  BY DEF CloseLabels
  <2>. QED  BY <1>2, <1>g, <1>l, <1>t, <2>1, <2>2, <2>3
<1>8. CASE ReleaseListener(c)
  <2>1. /\ call[c].pc = "release" /\ sock[s].state = "Stopping"
        /\ call[c].l \in Listeners /\ sock[s].listen = NoListener
        /\ UNCHANGED <<sock, sockPool, term, connPool, ops, known, closing>>
        /\ Goto(c, "giveBack") /\ refs' = Release(call[c].l)
    BY <1>1, <1>8, <1>s DEF ReleaseListener, StageState, Starting, StageListen
  <2>2. failed' \in Failures \cup {"no"}
    BY <1>8, <1>t, FailedIs DEF ReleaseListener, Failures, Audits
  <2>3. refs' \in [Listeners -> RefRec]
    <3>1. \A n \in Listeners : refs[n].count - 1 \in Int  BY <1>t DEF RefRec
    <3>2. \A n \in Listeners : Release(n) \in [Listeners -> RefRec]
      BY <1>t, <3>1 DEF RefRec, Release
    <3>. QED  BY <2>1, <3>2
  <2>4. "giveBack" \in CloseLabels  BY DEF CloseLabels
  <2>. QED  BY <1>2, <1>e, <1>g, <1>l, <1>t, <1>z, <2>1, <2>2, <2>3, <2>4
<1>. QED  BY <1>3, <1>4, <1>5, <1>6, <1>7, <1>8

(* The steps that only end it all, and that which begins the shutdown.     *)
LEMMA SameKeeps ==
  ASSUME SlotInv, Phases',
         UNCHANGED <<sock, sockPool, term, connPool, refs, ops, call, known>>,
         closing' \in BOOLEAN, failed' \in Failures \cup {"no"},
         failed' = "no" => failed = "no"
  PROVE  SlotInv'
PROOF
<1>2. Types'  BY DEF SlotInv, Types
<1>3. ASSUME NEW c \in Callers  PROVE ThreadOK(c)'
  <2>1. Mine(c)' <=> Mine(c)  BY DEF Mine
  <2>2. Place(c)' /\ Given(c)' /\ Owned(c)'
    BY <2>1, Parts DEF Place, Given, Owned, Valid, HandleOf, StageState, Starting,
                       StageListen, StageTerm
  <2>3. HandsOff(c)'  BY Parts DEF HandsOff, Early
  <2>. QED  BY <2>2, <2>3 DEF ThreadOK
<1>4. Apart'  BY DEF SlotInv, Apart, Mine
<1>5. /\ (\A s \in Socks : SlotOK(s))' /\ (\A op \in ops : OpOK(op))'
      /\ OneOp' /\ KnownOK'
  BY DEF SlotInv, SlotOK, Amid, HandleOf, OpOK, Early, Mine, OneOp, KnownOK
<1>6. Terminals'
  BY DEF SlotInv, Terminals, Has, Amid, Prepares, TermOf, HandleOf
<1>. QED  BY <1>2, <1>3, <1>4, <1>5, <1>6 DEF SlotInv

LEMMA EndSteps ==
  ASSUME SlotInv, NEW u \in Users, CloseGiveUp(u) \/ (TakeTerm(u) /\ Exhausted)
  PROVE  SlotInv'
PROOF
<1>1. /\ UNCHANGED <<sock, sockPool, term, connPool, refs, ops, call, known,
                     closing>>
      /\ failed' \in Failures /\ failed' # "no"
  BY DEF CloseGiveUp, TakeTerm, Fail, Failures, Exhausted
<1>2. Phases' /\ closing' \in BOOLEAN
  BY <1>1 DEF SlotInv, Types, Phases, MayOverlap
<1>. QED  BY <1>1, <1>2, SameKeeps

LEMMA ShutdownStep ==
  ASSUME SlotInv, Shutdown
  PROVE  SlotInv'
PROOF
<1>1. /\ UNCHANGED <<sock, sockPool, term, connPool, refs, ops, call, known,
                     failed>>
      /\ closing' = TRUE /\ failed \in Failures \cup {"no"}
  BY DEF Shutdown, SlotInv, Types
<1>2. \A u \in Users : call[u].op = "none"
  BY Parts DEF Shutdown, Place
<1>3. Phases'  BY <1>1, <1>2 DEF SlotInv, Phases, MayOverlap
<1>. QED  BY <1>1, <1>3, SameKeeps

-----------------------------------------------------------------------------
(* Calls begin                                                             *)

(* A new call changes nothing but the thread, and the handles known.       *)
LEMMA BeginKeeps ==
  ASSUME SlotInv, failed = "no", NEW u \in Callers, call[u].op = "none",
         Others(u), Types', Phases', Apart', ThreadOK(u)',
         call'[u].pc \notin {"prepare", "clearTerm"},
         Mine(u)' => \A op \in ops : op.kind = "connect" => op.s # call'[u].s,
         UNCHANGED <<sock, sockPool, term, connPool, ops>>, known' \subseteq known
  PROVE  SlotInv'
PROOF
<1>i. call[u].pc = "idle"  BY Parts DEF Place
<1>h. \A x : HandleOf(x)' = HandleOf(x)  BY DEF HandleOf
<1>1. ASSUME NEW d \in Callers \ {u}  PROVE ThreadOK(d)'
  <2>1. ThreadOK(d) /\ Owned(d) /\ Types /\ call'[d] = call[d]
    BY Parts DEF SlotInv, Others
  <2>2. Undisturbed(d)
    <3>1. NoNewOp  BY DEF NoNewOp
    <3>. QED  BY <2>1, <3>1 DEF Undisturbed, Owned, StageTerm
  <2>3. PICK x : x \notin Socks \cup {NoHandle, HandleToId(call[d].h)}
    BY NoSetContainsEverything
  <2>4. Spared(d, x) /\ Elsewhere(x) /\ call[d].s # x
    BY <2>1, <2>3, Fields DEF Spared, Elsewhere
  <2>. QED  BY <2>1, <2>2, <2>4, ThreadKept
<1>2. ASSUME NEW x \in Socks  PROVE SlotOK(x)'
  <2>1. StillAmid(x)
    BY <1>i DEF StillAmid, Others, Between, Starting
  <2>. QED  BY <1>h, <2>1, SlotKept DEF SlotInv
<1>3. Terminals'
  <2>1. SamePrepares  BY <1>i DEF SamePrepares, Prepares, Others
  <2>2. SameHas
    <3>1. \A x : Amid({"clearTerm"}, x)' <=> Amid({"clearTerm"}, x)
      BY <1>i DEF Amid, Others
    <3>. QED  BY <3>1 DEF SameHas, Has
  <2>3. \A x, t : TermOf(x, t) => TermOf(x, t)'  BY <1>h DEF TermOf
  <2>. QED  BY <2>1, <2>2, <2>3, TerminalsKept DEF SlotInv
<1>4. ASSUME NEW op \in ops  PROVE OpOK(op)'
  <2>1. OpOK(op)  BY Parts
  <2>2. \A c \in Callers : Mine(c)' => (Mine(c) /\ call'[c] = call[c]) \/ c = u
    BY DEF Others, Mine
  <2>. QED  BY <2>1, <2>2 DEF OpOK, Early
<1>5. KnownOK' /\ OneOp'  BY DEF KnownOK, OneOp, Early, SlotInv
<1>6. UNCHANGED <<ops, sockPool, connPool>>  OBVIOUS
<1>. QED  BY <1>1, <1>2, <1>3, <1>4, <1>5, <1>6 DEF SlotInv

(* Whose slot a known handle names: that of a thread called with it.       *)
LEMMA KnownSlot ==
  ASSUME SlotInv, NEW h \in known, Valid(h), NEW s, s = HandleToId(h)
  PROVE  /\ s \in Socks /\ h \in Handles /\ h = HandleOf(s)
         /\ sock[s].state # "Inpool"
         /\ \A d \in Callers : Mine(d) /\ call[d].s = s =>
              (d # Dtor => /\ call[d].h = h
                           /\ call[d].op \in {"listen", "connect", "close"})
         /\ \A d \in Callers : call[d].op = "hangup" /\ call[d].s = s =>
              call[d].h = h
         /\ \A d \in Callers : call[d].op = "accept" /\ HandleToId(call[d].h) = s =>
              call[d].h = h
PROOF
<1>1. h \in Handles /\ s \in Socks /\ h = HandleOf(s)
  BY HandleIs DEF SlotInv, Types, Valid
<1>2. sock[s].state # "Inpool"  BY <1>1 DEF SlotInv, SlotOK
<1>3. ASSUME NEW d \in Callers, Mine(d), call[d].s = s, d # Dtor
      PROVE  call[d].h = h /\ call[d].op \in {"listen", "connect", "close"}
  <2>1. call[d].op # "create"
    BY <1>2, <1>3, Parts DEF Place, Owned, StageState
  <2>2. call[d].op # "accept"  BY <1>1, <1>3, Parts DEF Owned
  <2>3. call[d].op \notin {"none", "hangup"}  BY <1>3, Parts DEF Place, Mine
  <2>4. call[d].op \in Calls  BY Fields DEF SlotInv
  <2>5. call[d].op \in {"listen", "connect", "close"}
    BY <2>1, <2>2, <2>3, <2>4 DEF Calls
  <2>. QED  BY <1>1, <1>3, <2>5, Parts DEF Given
<1>4. ASSUME NEW d \in Callers, call[d].op = "hangup", call[d].s = s
      PROVE  call[d].h = h
  BY <1>1, <1>2, <1>4, Parts DEF Given
<1>5. ASSUME NEW d \in Callers, call[d].op = "accept", HandleToId(call[d].h) = s
      PROVE  call[d].h = h
  BY <1>1, <1>5, Parts DEF Given, Valid
<1>. QED  BY <1>1, <1>2, <1>3, <1>4, <1>5

(* A socket nobody else works on, when its owner comes to it.              *)
LEMMA RestingSlot ==
  ASSUME SlotInv, NEW s \in Socks, sock[s].state \in {"Disconnected", "Listening"},
         \A d \in Callers : Mine(d) => call[d].s # s
  PROVE  /\ sock[s].listen = NoListener <=> sock[s].state = "Disconnected"
         /\ sock[s].term = NoTerm
         /\ s \notin Members(sockPool) /\ sock[s].gen <= MaxGen
PROOF
<1>1. ASSUME NEW labels, labels \in {{"undoListener", "clearListener"},
               {"stopListening"}, {"undoTerm", "clearTerm"}}
      PROVE  ~ Amid(labels, s)
  <2>. SUFFICES ASSUME NEW d \in Callers, call[d].pc \in labels, call[d].s = s
                PROVE  Mine(d)
    BY DEF Amid
  <2>1. call[d].op \in {"listen", "connect", "close"}
    BY <1>1, CallAt, Parts, Fields DEF SlotInv, ListenLabels
  <2>. QED  BY <1>1, <2>1 DEF Mine
<1>. QED  BY <1>1 DEF SlotInv, SlotOK

(* What the contract grants a caller that enters with handle h.            *)
LEMMA Entered ==
  ASSUME SlotInv, Contract, NEW u \in Users, NEW op, NEW h \in known, Valid(h),
         call[u].op = "none", ~ closing, MayCall(u, op, h), op \in Calls,
         Others(u), call'[u].op = op, call'[u].h = h, UNCHANGED closing,
         call'[u].s = HandleToId(h),
         Mine(u)' => op \in {"listen", "connect", "close"}
  PROVE  /\ Phases' /\ Apart'
         /\ op # "accept" =>
              \A d \in Callers : Mine(d) => call[d].s # HandleToId(h)
PROOF
<1>s. PICK s : s = HandleToId(h)  OBVIOUS
<1>k. /\ \A d \in Callers : Mine(d) /\ call[d].s = s =>
           (d # Dtor => /\ call[d].h = h
                        /\ call[d].op \in {"listen", "connect", "close"})
      /\ \A d \in Callers : call[d].op = "hangup" /\ call[d].s = s =>
           call[d].h = h
      /\ \A d \in Callers : call[d].op = "accept" /\ HandleToId(call[d].h) = s =>
           call[d].h = h
  BY <1>s, KnownSlot
<1>d. call[Dtor].op = "none" /\ u # Dtor /\ Dtor \in Callers
  BY Parts, SocketTableAssumption DEF SlotInv, Phases
<1>1. \A d \in Callers \ {u} : call[d].op = "none" \/ MayOverlap(op, h, call[d])
  BY <1>d DEF MayCall, Callers
<1>2. \A d \in Callers \ {u} : Mine(d) => call[d].s # s
  <2>1. ASSUME NEW d \in Callers \ {u}, Mine(d), call[d].s = s  PROVE FALSE
    <3>1. d # Dtor  BY <1>d, <2>1, Parts DEF Mine, Place
    <3>2. call[d].h = h /\ call[d].op \in {"listen", "connect", "close"}
      BY <1>k, <2>1, <3>1
    <3>. QED  BY <1>1, <3>2 DEF MayOverlap
  <2>. QED  BY <2>1
<1>3. ASSUME NEW d \in Callers \ {u}, op \in {"listen", "connect", "close"}
      PROVE  /\ call[d].op = "hangup" => call[d].s # s
             /\ call[d].op = "accept" => HandleToId(call[d].h) # s
  BY <1>1, <1>3, <1>k DEF MayOverlap
<1>4. Phases'
  <2>1. \A c, d \in Callers :
          c # d /\ call'[c].op # "none" /\ call'[d].op # "none"
             => MayOverlap(call'[c].op, call'[c].h, call'[d])
    <3>1. \A d \in Callers \ {u} : call'[d].op # "none" =>
            /\ MayOverlap(call'[u].op, call'[u].h, call'[d])
            /\ MayOverlap(call'[d].op, call'[d].h, call'[u])
      BY <1>1 DEF Others, MayOverlap
    <3>2. \A c, d \in Callers \ {u} :
            c # d /\ call'[c].op # "none" /\ call'[d].op # "none"
             => MayOverlap(call'[c].op, call'[c].h, call'[d])
      BY DEF Others, SlotInv, Phases
    <3>. QED  BY <3>1, <3>2
  <2>2. call'[Dtor].op = "none"  BY <1>d DEF Others
  <2>. QED  BY <2>1, <2>2 DEF Phases
<1>m. \A d \in Callers \ {u} : Mine(d)' <=> Mine(d)  BY DEF Mine, Others
<1>5. Apart'
  <2>1. ASSUME NEW d \in Callers \ {u}, Mine(u)'
        PROVE  /\ Mine(d)' \/ call'[d].op = "hangup" => call'[u].s # call'[d].s
               /\ call'[d].op = "accept" => call'[u].s # HandleToId(call'[d].h)
    <3>1. call'[d] = call[d]  BY DEF Others
    <3>. QED  BY <1>2, <1>3, <1>m, <1>s, <2>1, <3>1
  <2>2. ASSUME NEW c \in Callers \ {u}, Mine(c)'
        PROVE  /\ call'[c].s # call'[u].s
               /\ call'[u].op = "accept" => call'[c].s # HandleToId(call'[u].h)
    <3>1. call'[c] = call[c]  BY DEF Others
    <3>. QED  BY <1>2, <1>m, <1>s, <2>2, <3>1
  <2>3. ASSUME NEW c \in Callers \ {u}, NEW d \in Callers \ {u}, c # d, Mine(c)'
        PROVE  /\ Mine(d)' \/ call'[d].op = "hangup" => call'[c].s # call'[d].s
               /\ call'[d].op = "accept" => call'[c].s # HandleToId(call'[d].h)
    <3>1. call'[c] = call[c] /\ call'[d] = call[d]  BY DEF Others
    <3>. QED  BY <1>m, <2>3, <3>1 DEF SlotInv, Apart
  <2>. QED  BY <2>1, <2>2, <2>3 DEF Apart
<1>6. op # "accept" => \A d \in Callers : Mine(d) => call[d].s # s
  BY <1>2, Parts DEF Mine, Place
<1>. QED  BY <1>4, <1>5, <1>6, <1>s

LEMMA EnterSteps ==
  ASSUME SlotInv, Contract, failed = "no", NEW u \in Users, NEW h \in known,
         ListenBegin(u, h) \/ AcceptBegin(u, h) \/ ConnectBegin(u, h)
  PROVE  SlotInv'
PROOF
<1>l. PICK op \in {"listen", "accept", "connect"}, l \in {"listenCheck",
           "acceptCheck", "connectCheck"} :
        /\ Enter(u, op, h, l)
        /\ op = "listen" => l = "listenCheck"
        /\ op = "accept" => l = "acceptCheck"
        /\ op = "connect" => l = "connectCheck"
  BY DEF ListenBegin, AcceptBegin, ConnectBegin
<1>s. PICK s : s = HandleToId(h)  OBVIOUS
<1>1. /\ call[u].pc = "idle" /\ ~ closing /\ Valid(h) /\ MayCall(u, op, h)
      /\ Begin(u, op, h, s, l)
      /\ UNCHANGED <<sock, sockPool, term, connPool, refs, ops, known, closing,
                     failed>>
  BY <1>l, <1>s DEF Enter
<1>2. /\ s \in Socks /\ h \in Handles /\ h = HandleOf(s) /\ Types
      /\ u \in Callers /\ op \in Calls /\ l \in Labels /\ u # Dtor
      /\ call[u].op = "none"
  BY <1>1, <1>s, KnownSlot, Parts, SocketTableAssumption
  DEF SlotInv, Calls, Labels, Place
<1>3. /\ call' \in [Callers -> CallRec] /\ Others(u)
      /\ call'[u].op = op /\ call'[u].h = h /\ call'[u].s = s
      /\ call'[u].pc = l
  BY <1>1, <1>2, BeginIs
<1>4. Types'  BY <1>1, <1>2, <1>3 DEF Types
<1>5. sock[s].state \in {"Disconnected", "Listening"}
  <2>1. ~ IsConnection(s)  BY <1>1, <1>s DEF MayCall
  <2>. QED  BY <2>1 DEF IsConnection
<1>m. Mine(u)' <=> op # "accept"
  BY <1>l, <1>3 DEF Mine
<1>6. /\ Phases' /\ Apart'
      /\ op # "accept" => \A d \in Callers : Mine(d) => call[d].s # s
  BY <1>1, <1>2, <1>3, <1>m, <1>s, Entered
<1>7. ThreadOK(u)'
  <2>1. Place(u)'
    BY <1>l, <1>2, <1>3 DEF Place, ListenLabels, AcceptLabels, ConnectLabels
  <2>2. Given(u)'
    BY <1>l, <1>1, <1>2, <1>3, <1>5, <1>s DEF Given, HandleOf, Valid
  <2>3. Owned(u)'
    <3>. SUFFICES ASSUME op # "accept"  PROVE Owned(u)'
      BY <1>m DEF Owned
    <3>1. /\ sock[s].listen = NoListener <=> sock[s].state = "Disconnected"
          /\ sock[s].term = NoTerm
          /\ s \notin Members(sockPool) /\ sock[s].gen <= MaxGen
      BY <1>2, <1>5, <1>6, RestingSlot
    <3>2. call'[u].pc \in {"listenCheck", "connectCheck"}  BY <1>l, <1>3
    <3>3. StageState(u)'  BY <1>1, <1>3, <1>5, <3>2 DEF StageState, Starting
    <3>4. StageListen(u)'  BY <1>1, <1>3, <3>1, <3>2 DEF StageListen
    <3>5. StageTerm(u)'  BY <1>1, <1>3, <3>1, <3>2 DEF StageTerm
    <3>. QED  BY <1>1, <1>2, <1>3, <3>1, <3>3, <3>4, <3>5 DEF Owned
  <2>4. HandsOff(u)'  BY <1>l, <1>3 DEF HandsOff
  <2>. QED  BY <2>1, <2>2, <2>3, <2>4 DEF ThreadOK
<1>8. \A o \in ops : o.kind = "connect" => o.s # s
  BY <1>5, Parts DEF OpOK
<1>9. call'[u].pc \notin {"prepare", "clearTerm"}  BY <1>l, <1>3
<1>. QED
  BY <1>1, <1>2, <1>3, <1>4, <1>6, <1>7, <1>8, <1>9, BeginKeeps

LEMMA CloseBeginStep ==
  ASSUME SlotInv, Contract, failed = "no", NEW u \in Users, NEW h \in known,
         CloseBegin(u, h)
  PROVE  SlotInv'
PROOF
<1>s. PICK s : s = HandleToId(h)  OBVIOUS
<1>o. PICK op \in {"close", "hangup"} :
        op = IF IsConnection(s) THEN "hangup" ELSE "close"
  OBVIOUS
<1>1. /\ call[u].pc = "idle" /\ ~ closing /\ known' = known \ {h}
      /\ UNCHANGED <<sock, sockPool, term, connPool, refs, ops, closing, failed>>
  BY DEF CloseBegin
<1>2. Types /\ u \in Callers /\ u # Dtor /\ call[u].op = "none"
  BY <1>1, Parts, SocketTableAssumption DEF SlotInv, Place
<1>k. known' \subseteq known  BY <1>1
<1>3. CASE ~ Valid(h)
  <2>1. UNCHANGED call  BY <1>3 DEF CloseBegin
  <2>2. Types'  BY <1>1, <1>2, <2>1 DEF Types
  <2>3. Phases' /\ Apart'
    BY <1>1, <2>1 DEF SlotInv, Phases, MayOverlap, Apart, Mine
  <2>4. Others(u) /\ call'[u].op = "none" /\ call'[u].pc = "idle"
    BY <1>1, <1>2, <2>1 DEF Others
  <2>5. ThreadOK(u)' /\ ~ Mine(u)'  BY <1>2, <2>4, IdleOK
  <2>. QED  BY <1>1, <1>2, <1>k, <2>2, <2>3, <2>4, <2>5, BeginKeeps
<1>4. CASE Valid(h)
  <2>1. MayCall(u, op, h) /\ Begin(u, op, h, s, "close")
    BY <1>4, <1>o, <1>s DEF CloseBegin
  <2>2. /\ s \in Socks /\ h \in Handles /\ h = HandleOf(s)
        /\ sock[s].state # "Inpool"
    BY <1>4, <1>s, KnownSlot
  <2>3. /\ call' \in [Callers -> CallRec] /\ Others(u)
        /\ call'[u].op = op /\ call'[u].h = h /\ call'[u].s = s
        /\ call'[u].pc = "close"
    <3>1. op \in Calls /\ "close" \in Labels  BY <1>o DEF Calls, Labels
    <3>. QED  BY <1>2, <2>1, <2>2, <3>1, BeginIs
  <2>4. Types'  BY <1>1, <1>2, <2>3 DEF Types
  <2>m. Mine(u)' <=> op = "close"
    BY <1>o, <2>3 DEF Mine
  <2>5. /\ Phases' /\ Apart'
        /\ \A d \in Callers : Mine(d) => call[d].s # s
    <3>1. op \in Calls /\ op # "accept"  BY <1>o DEF Calls
    <3>. QED
      BY <1>1, <1>2, <1>4, <1>s, <2>1, <2>3, <2>m, <3>1, Entered
  <2>6. op = "close" => sock[s].state \in {"Disconnected", "Listening"}
    BY <1>o DEF IsConnection
  <2>7. op = "hangup" =>
          sock[s].state \notin {"Disconnected", "StartToListen", "Listening"}
    <3>1. sock[s].state = "StartToListen" => Amid(Starting, s)
      BY <2>2 DEF SlotInv, SlotOK
    <3>2. ASSUME NEW d \in Callers, call[d].pc \in Starting  PROVE Mine(d)
      <4>1. call[d].op = "listen"
        BY <1>2, <3>2, CallAt, Parts, Fields DEF Starting, ListenLabels
      <4>. QED  BY <3>2, <4>1 DEF Starting, Mine
    <3>. QED  BY <1>o, <2>5, <3>1, <3>2 DEF IsConnection, Amid
  <2>8. ThreadOK(u)'
    <3>1. Place(u)'  BY <1>2, <1>o, <2>3 DEF Place
    <3>2. Given(u)'
      BY <1>1, <1>2, <1>o, <1>s, <2>2, <2>3, <2>7 DEF Given, HandleOf
    <3>3. Owned(u)'
      <4>. SUFFICES ASSUME op = "close"  PROVE Owned(u)'
        BY <2>m DEF Owned
      <4>1. /\ sock[s].listen = NoListener <=> sock[s].state = "Disconnected"
            /\ sock[s].term = NoTerm
            /\ s \notin Members(sockPool) /\ sock[s].gen <= MaxGen
        BY <2>2, <2>5, <2>6, RestingSlot
      <4>3. StageState(u)'  BY <1>1, <2>3, <2>6 DEF StageState, Starting
      <4>4. StageListen(u)'  BY <1>1, <2>3, <4>1 DEF StageListen
      <4>5. StageTerm(u)'  BY <1>1, <2>3, <4>1 DEF StageTerm
      <4>. QED  BY <1>1, <2>2, <2>3, <4>1, <4>3, <4>4, <4>5 DEF Owned
    <3>4. HandsOff(u)'  BY <2>3 DEF HandsOff
    <3>. QED  BY <3>1, <3>2, <3>3, <3>4 DEF ThreadOK
  <2>9. Mine(u)' => \A o \in ops : o.kind = "connect" => o.s # s
    BY <1>o, <2>6, <2>m, Parts DEF OpOK
  <2>. QED
    BY <1>1, <1>2, <1>k, <2>3, <2>4, <2>5, <2>8, <2>9, BeginKeeps
<1>. QED  BY <1>3, <1>4

(* The destructor turns to a socket.                                       *)
LEMMA ShutdownReadStep ==
  ASSUME SlotInv, failed = "no", NEW s \in Socks, ShutdownRead(s)
  PROVE  SlotInv'
PROOF
<1>1. /\ closing /\ call[Dtor].pc = "idle" /\ sock[s].state \in Steady
      /\ UNCHANGED <<sock, sockPool, term, connPool, refs, ops, known, closing,
                     failed>>
  BY DEF ShutdownRead
<1>2. Types /\ Dtor \in Callers /\ call[Dtor].op = "none"
  BY <1>1, Parts DEF SlotInv, Place
<1>i. \A c \in Callers : call[c].op = "none" /\ call[c].pc = "idle" /\ ~ Mine(c)
  BY <1>1, <1>2, Parts DEF SlotInv, Phases, Callers, Place, Mine
<1>l. PICK l \in {"stopIdle", "readTerm", "readListener"} :
        /\ l = Branch(sock[s].state)
        /\ l = "stopIdle" <=> sock[s].state = "Disconnected"
        /\ l = "readTerm" <=> sock[s].state = "Connected"
        /\ l = "readListener" <=> sock[s].state = "Listening"
  BY <1>1 DEF Steady, Branch
<1>3. /\ call' \in [Callers -> CallRec] /\ Others(Dtor)
      /\ call'[Dtor].op = "close" /\ call'[Dtor].h = NoHandle
      /\ call'[Dtor].s = s /\ call'[Dtor].pc = l
  <2>1. "close" \in Calls /\ l \in Labels /\ NoHandle \in Handles \cup {NoHandle}
    BY DEF Calls, Labels
  <2>2. Begin(Dtor, "close", NoHandle, s, l)  BY <1>l DEF ShutdownRead
  <2>. QED  BY <1>2, <2>1, <2>2, BeginIs
<1>4. Types'  BY <1>1, <1>2, <1>3 DEF Types
<1>5. \A c \in Callers \ {Dtor} : call'[c].op = "none" /\ ~ Mine(c)'
  BY <1>3, <1>i DEF Others, Mine
<1>6. Phases'
  <2>1. \A u \in Users : u \in Callers \ {Dtor}
    BY SocketTableAssumption DEF Callers
  <2>. QED  BY <1>1, <1>5, <2>1 DEF Phases
<1>7. Apart'
  <2>1. \A c, d \in Callers : c # d /\ Mine(c)' => d \in Callers \ {Dtor}
    BY <1>5
  <2>2. \A d \in Callers \ {Dtor} : ~ Mine(d)' /\ call'[d].op = "none"
    BY <1>5
  <2>. QED  BY <2>1, <2>2 DEF Apart
<1>8. ThreadOK(Dtor)'
  <2>1. Place(Dtor)'
    BY <1>3, <1>l DEF Place, CloseLabels
  <2>2. Given(Dtor)'  BY <1>3 DEF Given
  <2>3. Owned(Dtor)'
    <3>. SUFFICES ASSUME sock[s].state # "Connected"  PROVE Owned(Dtor)'
      BY <1>3, <1>l DEF Owned, Mine
    <3>0. sock[s].state \in {"Disconnected", "Listening"}
      BY <1>1 DEF Steady
    <3>1. /\ sock[s].listen = NoListener <=> sock[s].state = "Disconnected"
          /\ sock[s].term = NoTerm
          /\ s \notin Members(sockPool) /\ sock[s].gen <= MaxGen
      BY <1>i, <3>0, RestingSlot
    <3>2. StageState(Dtor)'  BY <1>1, <1>3, <1>l, <3>0 DEF StageState, Starting
    <3>3. StageListen(Dtor)'
      BY <1>1, <1>3, <1>l, <3>0, <3>1 DEF StageListen
    <3>4. StageTerm(Dtor)'  BY <1>1, <1>3, <1>l, <3>0, <3>1 DEF StageTerm
    <3>. QED  BY <1>1, <1>3, <3>1, <3>2, <3>3, <3>4 DEF Owned
  <2>4. HandsOff(Dtor)'
    <3>1. sock[s].state = "Connected" => \A op \in ops : Early(op) => op.s # s
      BY Parts DEF OpOK, Early
    <3>. QED  BY <1>1, <1>3, <1>l, <3>1 DEF HandsOff, Early
  <2>. QED  BY <2>1, <2>2, <2>3, <2>4 DEF ThreadOK
<1>9. Mine(Dtor)' => \A op \in ops : op.kind = "connect" => op.s # s
  BY <1>1, Parts DEF OpOK, Steady
<1>. QED
  BY <1>1, <1>2, <1>3, <1>4, <1>6, <1>7, <1>8, <1>9, <1>l, BeginKeeps

-----------------------------------------------------------------------------
(* A slot leaves the pool, or comes back to it                             *)

(* A step of the owner of slot s, which has no terminal.                   *)
LEMMA OwnStep ==
  ASSUME SlotInv, failed = "no", NEW c \in Callers, Mine(c), NEW s \in Socks,
         s = call[c].s, Others(c), NoNewSlot(c), Elsewhere(s), Types',
         ThreadOK(c)', SlotOK(s)', Distinct(sockPool'),
         UNCHANGED <<term, connPool, ops, closing>>,
         sock[s].term = NoTerm, sock'[s].term = NoTerm,
         {call[c].pc, call'[c].pc} \cap {"prepare", "clearTerm"} = {},
         \A x \in Socks \ {s} :
           x \in Members(sockPool') <=> x \in Members(sockPool),
         sock[s].gen <= sock'[s].gen,
         \A h \in known' : h \in known \/ h = HandleOf(s)
  PROVE  SlotInv'
PROOF
<1>t. Types /\ Terminals /\ \A d \in Callers : Owned(d)
  BY Parts DEF SlotInv, Owned
<1>1. /\ Phases' /\ Apart'
      /\ \A d \in Callers : Mine(d)' => Mine(d) /\ call'[d].s = call[d].s
  BY CallsKept
<1>h. /\ \A x \in Socks \ {s} : HandleOf(x)' = HandleOf(x)
      /\ \A x : x # s => HandleOf(x) # HandleOf(s)
  BY DEF HandleOf, Elsewhere
<1>2. \A d \in Callers \ {c} : ThreadOK(d)'
  <2>1. ASSUME NEW d \in Callers \ {c}  PROVE Undisturbed(d)
    <3>1. Mine(d) => call[d].s # s /\ call[d].s \in Socks
      BY <1>t, MineSpares DEF Spared, Owned
    <3>2. NoNewOp  BY DEF NoNewOp
    <3>3. Mine(d) => call[d].s \notin Members(sockPool')
      BY <1>t, <3>1 DEF Owned
    <3>4. Mine(d) /\ call[d].op = "accept" => HandleOf(call[d].s) \notin known'
      BY <1>h, <1>t, <3>1 DEF Owned
    <3>5. Mine(d) => StageTerm(d)  BY <1>t DEF Owned
    <3>. QED  BY <3>2, <3>3, <3>4, <3>5 DEF Undisturbed, StageTerm
  <2>. QED  BY <2>1, OthersKept
<1>3. \A x \in Socks : SlotOK(x)'
  <2>1. \A x \in Socks \ {s} : HandleOf(x)' \in known' => HandleOf(x) \in known
    BY <1>h
  <2>. QED  BY <2>1, OtherSlotsKept
<1>4. Terminals'
  <2>1. SamePrepares  BY DEF SamePrepares, Prepares, Others
  <2>2. SameHas
    <3>1. \A x : Amid({"clearTerm"}, x)' <=> Amid({"clearTerm"}, x)
      BY DEF Amid, Others
    <3>2. \A x \in Socks : sock'[x].term = sock[x].term
      BY DEF Elsewhere
    <3>. QED  BY <3>1, <3>2 DEF SameHas, Has
  <2>3. ASSUME NEW x \in Socks, NEW t \in Terms, Has(x, t), TermOf(x, t)
        PROVE  TermOf(x, t)'
    <3>1. x # s  BY <2>3, SocketTableAssumption DEF Has
    <3>. QED  BY <1>h, <2>3, <3>1 DEF TermOf, Elsewhere
  <2>. QED  BY <1>t, <2>1, <2>2, <2>3, TerminalsKept
<1>5. \A op \in ops : OpOK(op)'  BY <1>1, OpsKept
<1>6. KnownOK'
  <2>1. \A x \in Socks : sock[x].gen \in Nat /\ sock'[x].gen \in Nat
    <3>1. \A x \in Socks : sock'[x].gen \in Gens  BY DEF Types, SockRec
    <3>. QED  BY <1>t, <3>1, Fields, SocketTableAssumption DEF Gens
  <2>2. ASSUME NEW h \in known'  PROVE h[2] <= sock'[HandleToId(h)].gen
    <3>1. h \in Handles  BY DEF Types
    <3>2. HandleToId(h) \in Socks /\ h[2] \in Nat
      BY <3>1, HandleIs, SocketTableAssumption DEF Handles, Gens
    <3>3. h[2] <= sock[HandleToId(h)].gen
      <4>1. CASE h \in known  BY <4>1 DEF KnownOK, SlotInv
      <4>2. CASE h = HandleOf(s)  BY <2>1, <4>2, HandleIs
      <4>. QED  BY <4>1, <4>2
    <3>4. sock[HandleToId(h)].gen <= sock'[HandleToId(h)].gen
      BY <2>1, <3>2 DEF Elsewhere
    <3>. QED  BY <2>1, <3>2, <3>3, <3>4
  <2>. QED  BY <2>2 DEF KnownOK
<1>7. ThreadOK(c)' /\ OneOp' /\ Distinct(connPool)'
  BY DEF SlotInv, OneOp, Early
<1>8. UNCHANGED <<ops, connPool>>  OBVIOUS
<1>. QED  BY <1>1, <1>2, <1>3, <1>4, <1>5, <1>6, <1>7, <1>8 DEF SlotInv

LEMMA PublishStep ==
  ASSUME SlotInv, failed = "no", NEW u \in Users, Publish(u)
  PROVE  SlotInv'
PROOF
<1>t. /\ Types /\ u \in Callers /\ u # Dtor /\ call[u].pc = "publish"
      /\ UNCHANGED <<sockPool, term, connPool, refs, ops, closing>>
  BY Parts, SocketTableAssumption DEF SlotInv, Publish
<1>o. call[u].op \in {"create", "accept"}
  BY <1>t, CallAt, Parts, Fields
<1>m. Mine(u)  BY <1>o, <1>t DEF Mine
<1>s. PICK s \in Socks : s = call[u].s  BY <1>m, <1>t, Own
<1>1. /\ sock[s].state = "Inpool" /\ sock[s].term = NoTerm
      /\ sock[s].listen = NoListener
      /\ s \notin Members(sockPool) /\ sock[s].gen <= MaxGen /\ sock[s].gen \in Nat
  BY <1>m, <1>s, <1>t, Own DEF StageState, StageListen, StageTerm
<1>2. SetState(s, "Disconnected") /\ "Disconnected" \in States
  BY <1>s DEF Publish, States
<1>3. /\ sock' \in [Socks -> SockRec] /\ Elsewhere(s)
      /\ sock'[s].state = "Disconnected" /\ sock'[s].gen = sock[s].gen
      /\ sock'[s].term = NoTerm /\ sock'[s].listen = NoListener
  BY <1>1, <1>2, <1>t, SetStateIs
<1>4. failed' \in Failures \cup {"no"}
  BY <1>t, FailedIs DEF Publish, Failures, Audits, Types
<1>h. HandleOf(s)' = HandleOf(s) /\ HandleOf(s) \in Handles
  BY <1>3, <1>t, Fields DEF HandleOf
<1>5. Distinct(sockPool') /\ \A x : x \in Members(sockPool') <=> x \in Members(sockPool)
  BY <1>t DEF SlotInv
<1>6. SlotOK(s)'
  BY <1>1, <1>3, <1>5 DEF SlotOK
<1>g. sock[s].gen <= sock'[s].gen  BY <1>1, <1>3
<1>7. CASE call[u].op = "create"
  <2>1. known' = known \cup {HandleOf(s)} /\ Return(u)
    BY <1>7, <1>s DEF Publish
  <2>2. /\ call' \in [Callers -> CallRec] /\ Others(u)
        /\ call'[u].op = "none" /\ call'[u].pc = "idle"
    BY <1>t, <2>1, ReturnIs
  <2>3. ThreadOK(u)' /\ ~ Mine(u)'  BY <1>t, <2>2, IdleOK
  <2>4. Types'  BY <1>3, <1>4, <1>h, <1>t, <2>1, <2>2 DEF Types
  <2>5. NoNewSlot(u)  BY <2>2, <2>3 DEF NoNewSlot
  <2>6. \A h \in known' : h \in known \/ h = HandleOf(s)  BY <2>1
  <2>. QED
    BY <1>1, <1>3, <1>5, <1>6, <1>g, <1>m, <1>s, <1>t, <2>2, <2>3, <2>4, <2>5,
       <2>6, OwnStep
<1>8. CASE call[u].op = "accept"
  <2>1. UNCHANGED known /\ Goto(u, "accept1")  BY <1>8 DEF Publish
  <2>2. /\ call' \in [Callers -> CallRec] /\ Others(u) /\ SameCall(u)
        /\ call'[u].pc = "accept1"
    <3>1. "accept1" \in Labels  BY DEF Labels
    <3>. QED  BY <1>t, <2>1, <3>1, GotoIs
  <2>3. call'[u].op = "accept" /\ call'[u].s = s /\ call'[u].h = call[u].h
    BY <1>8, <1>s, <2>2 DEF SameCall
  <2>4. Types'  BY <1>3, <1>4, <1>t, <2>1, <2>2 DEF Types
  <2>5. Place(u)'  BY <1>t, <2>2, <2>3 DEF Place, AcceptLabels
  <2>6. Given(u)'
    <3>1. PICK x : x = HandleToId(call[u].h)  OBVIOUS
    <3>2. /\ x \in Socks /\ sock[x].state = "Listening" /\ Valid(call[u].h)
          /\ call[u].h \in Handles
      BY <1>8, <1>t, <3>1, Parts, HandleIs DEF Given
    <3>3. sock'[x] = sock[x] /\ HandleOf(x)' = HandleOf(x)
      BY <1>1, <1>3, <3>2 DEF Elsewhere, HandleOf
    <3>. QED  BY <2>3, <3>1, <3>2, <3>3 DEF Given, Valid
  <2>7. Owned(u)'
    <3>1. HandleOf(s) \notin known  BY <1>8, <1>m, <1>s, <1>t, Parts DEF Owned
    <3>2. StageState(u)' /\ StageListen(u)' /\ StageTerm(u)'
      BY <1>3, <2>2, <2>3 DEF StageState, Starting, StageListen, StageTerm
    <3>. QED  BY <1>1, <1>3, <1>h, <1>t, <2>1, <2>3, <3>1, <3>2 DEF Owned
  <2>8. HandsOff(u)'  BY <2>2 DEF HandsOff
  <2>9. ThreadOK(u)'  BY <2>5, <2>6, <2>7, <2>8 DEF ThreadOK
  <2>10. NoNewSlot(u)  BY <1>m, <2>2 DEF NoNewSlot
  <2>. QED
    BY <1>1, <1>3, <1>5, <1>6, <1>g, <1>m, <1>s, <1>t, <2>1, <2>2, <2>4, <2>9,
       <2>10, OwnStep
<1>. QED  BY <1>7, <1>8, <1>o

LEMMA GiveBackStep ==
  ASSUME SlotInv, failed = "no", NEW c \in Callers, GiveBack(c)
  PROVE  SlotInv'
PROOF
<1>t. /\ Types /\ call[c].pc = "giveBack" /\ Return(c)
      /\ UNCHANGED <<term, connPool, refs, ops, known, closing>>
  BY DEF SlotInv, GiveBack
<1>o. call[c].op \in {"close", "accept"}
  BY <1>t, CallAt, Parts, Fields
<1>m. Mine(c)  BY <1>o, <1>t DEF Mine
<1>s. PICK s \in Socks : s = call[c].s  BY <1>m, <1>t, Own
<1>1. /\ sock[s].term = NoTerm /\ sock[s].listen = NoListener
      /\ s \notin Members(sockPool) /\ sock[s].gen <= MaxGen /\ sock[s].gen \in Nat
  BY <1>m, <1>s, <1>t, Own DEF StageListen, StageTerm
<1>2. /\ sock' = FreeSocket(sock, s) /\ sockPool' = Append(sockPool, s)
      /\ Require(sock[s].state # "Inpool", "Double free of socket")
  BY <1>s DEF GiveBack
<1>3. /\ sock' \in [Socks -> SockRec] /\ Elsewhere(s)
      /\ sock'[s].state = "Inpool" /\ sock'[s].gen = sock[s].gen + 1
      /\ sock'[s].listen = NoListener /\ sock'[s].term = NoTerm
  BY <1>1, <1>2, <1>t, FreeSocketIs
<1>4. failed' \in Failures \cup {"no"}
  BY <1>2, <1>t, FailedIs DEF Failures, Audits, Types
<1>5. /\ sockPool' \in Seq(Socks)
      /\ Members(sockPool') = Members(sockPool) \cup {s} /\ Distinct(sockPool')
  <2>1. sockPool \in Seq(Socks) /\ Distinct(sockPool)  BY DEF SlotInv, Types
  <2>2. /\ Append(sockPool, s) \in Seq(Socks)
        /\ Members(Append(sockPool, s)) = Members(sockPool) \cup {s}
        /\ Distinct(Append(sockPool, s))
    BY <1>1, <2>1, PoolAppend
  <2>. QED  BY <1>2, <2>2
<1>6. /\ call' \in [Callers -> CallRec] /\ Others(c)
      /\ call'[c].op = "none" /\ call'[c].pc = "idle"
  BY <1>t, ReturnIs
<1>7. ThreadOK(c)' /\ ~ Mine(c)'  BY <1>6, IdleOK
<1>8. Types'  BY <1>3, <1>4, <1>5, <1>6, <1>t DEF Types
<1>9. NoNewSlot(c)  BY <1>6, <1>7 DEF NoNewSlot
<1>10. HandleOf(s)' \notin known
  <2>1. \A h \in known : HandleToId(h) = s => h[2] <= sock[s].gen
    BY DEF SlotInv, KnownOK
  <2>2. HandleOf(s)' = <<s, sock[s].gen + 1>>  BY <1>3 DEF HandleOf
  <2>3. HandleToId(HandleOf(s)') = s /\ HandleOf(s)'[2] = sock[s].gen + 1
    BY <2>2 DEF HandleToId
  <2>. QED  BY <1>1, <2>1, <2>3
<1>11. SlotOK(s)'
  <2>1. s \in Members(sockPool')  BY <1>5
  <2>. QED  BY <1>3, <1>10, <1>t, <2>1 DEF SlotOK
<1>12. sock[s].gen <= sock'[s].gen  BY <1>1, <1>3
<1>13. \A x \in Socks \ {s} : x \in Members(sockPool') <=> x \in Members(sockPool)
  BY <1>5
<1>. QED
  BY <1>1, <1>3, <1>5, <1>6, <1>7, <1>8, <1>9, <1>11, <1>12, <1>13, <1>m, <1>s,
     <1>t, OwnStep

(* The slot at the front of the pool.                                      *)
LEMMA FrontSlot ==
  ASSUME SlotInv, CanAllocate
  PROVE  \E s \in Socks :
           /\ s = NextSock /\ s \in Members(sockPool)
           /\ Tail(sockPool) \in Seq(Socks) /\ Distinct(Tail(sockPool))
           /\ Members(Tail(sockPool)) = Members(sockPool) \ {s}
           /\ sock[s].state = "Inpool" /\ sock[s].term = NoTerm
           /\ sock[s].listen = NoListener /\ sock[s].gen <= MaxGen
           /\ HandleOf(s) \notin known
           /\ \A d \in Callers : Mine(d) => call[d].s # s
PROOF
<1>1. sockPool \in Seq(Socks) /\ sockPool # <<>> /\ Distinct(sockPool)
  BY DEF SlotInv, Types, CanAllocate
<1>2. /\ Tail(sockPool) \in Seq(Socks) /\ Head(sockPool) \in Socks
      /\ Head(sockPool) \in Members(sockPool)
      /\ Members(Tail(sockPool)) = Members(sockPool) \ {Head(sockPool)}
      /\ Distinct(Tail(sockPool))
  BY <1>1, PoolTail
<1>3. PICK s \in Socks : s = Head(sockPool)  BY <1>2
<1>4. SlotOK(s) /\ s \in Members(sockPool)  BY <1>2, <1>3 DEF SlotInv
<1>5. \A d \in Callers : Mine(d) => call[d].s # s
  BY <1>4, Parts DEF Owned
<1>6. sock[s].gen <= MaxGen  BY <1>3 DEF CanAllocate
<1>. QED  BY <1>2, <1>3, <1>4, <1>5, <1>6 DEF SlotOK, NextSock

LEMMA TakeSlotStep ==
  ASSUME SlotInv, failed = "no", NEW u \in Users, NEW op, NEW h,
         TakeSlot(u, op, h),
         UNCHANGED <<sock, term, connPool, refs, ops, known, closing, failed>>,
         \/ op = "create" /\ h = NoHandle /\ call[u].pc = "idle"
         \/ op = "accept" /\ h = call[u].h /\ call[u].pc = "acceptSock",
         ~ closing,
         \A d \in Callers \ {u} : call[d].op = "none" \/ MayOverlap(op, h, call[d])
  PROVE  SlotInv'
PROOF
<1>t. /\ Types /\ u \in Callers /\ u # Dtor /\ Dtor \in Callers
      /\ \A d \in Callers : ThreadOK(d) /\ Place(d) /\ Given(d) /\ Owned(d)
  BY Parts, SocketTableAssumption DEF SlotInv
<1>o. /\ op \in {"create", "accept"} /\ op \in Calls
      /\ op = "accept" => call[u].op = "accept" /\ call[u].pc = "acceptSock"
                          /\ h = call[u].h
  BY <1>t, CallAt, Fields DEF Calls
<1>h. h \in Handles \cup {NoHandle}  BY <1>o, <1>t DEF Given
<1>s. PICK s \in Socks :
        /\ s = NextSock /\ s \in Members(sockPool)
        /\ Tail(sockPool) \in Seq(Socks) /\ Distinct(Tail(sockPool))
        /\ Members(Tail(sockPool)) = Members(sockPool) \ {s}
        /\ sock[s].state = "Inpool" /\ sock[s].term = NoTerm
        /\ sock[s].listen = NoListener /\ sock[s].gen <= MaxGen
        /\ HandleOf(s) \notin known
        /\ \A d \in Callers : Mine(d) => call[d].s # s
  BY FrontSlot DEF TakeSlot
<1>1. sockPool' = Tail(sockPool) /\ Begin(u, op, h, s, "publish")
  BY <1>s DEF TakeSlot
<1>2. /\ call' \in [Callers -> CallRec] /\ Others(u)
      /\ call'[u].op = op /\ call'[u].h = h /\ call'[u].s = s
      /\ call'[u].pc = "publish"
  <2>1. "publish" \in Labels  BY DEF Labels
  <2>2. Begin(u, op, h, s, "publish") /\ u \in Callers /\ op \in Calls /\ Types
    BY <1>1, <1>o, <1>t
  <2>3. /\ call' \in [Callers -> CallRec] /\ Others(u)
        /\ call'[u].op = op /\ call'[u].h = h /\ call'[u].s = s
        /\ call'[u].pc = "publish" /\ call'[u].t = NoTerm
        /\ call'[u].l = NoListener
    BY ONLY <1>h, <2>1, <2>2, BeginIs, s \in Socks
  <2>. QED  BY <2>3
<1>3. Types'  BY <1>1, <1>2, <1>s, <1>t DEF Types
<1>n. \A d \in Callers \ {u} : call[d].op # "hangup"
  BY <1>o DEF MayOverlap, Takes
<1>m. Mine(u)' /\ (\A d \in Callers \ {u} : Mine(d)' <=> Mine(d))
  BY <1>2, <1>o DEF Mine, Others
<1>4. Phases'
  <2>1. \A c, d \in Callers :
          c # d /\ call'[c].op # "none" /\ call'[d].op # "none"
             => MayOverlap(call'[c].op, call'[c].h, call'[d])
    <3>1. \A d \in Callers \ {u} : call'[d].op # "none" =>
            /\ MayOverlap(call'[u].op, call'[u].h, call'[d])
            /\ MayOverlap(call'[d].op, call'[d].h, call'[u])
      BY <1>2 DEF Others, MayOverlap
    <3>2. \A c, d \in Callers \ {u} :
            c # d /\ call'[c].op # "none" /\ call'[d].op # "none"
             => MayOverlap(call'[c].op, call'[c].h, call'[d])
      BY <1>2 DEF Others, SlotInv, Phases
    <3>. QED  BY <3>1, <3>2
  <2>2. call'[Dtor].op = "none"  BY <1>2, <1>t DEF Others, SlotInv, Phases
  <2>. QED  BY <2>1, <2>2 DEF Phases
<1>5. Apart'
  <2>1. ASSUME NEW d \in Callers \ {u}
        PROVE  /\ Mine(d)' \/ call'[d].op = "hangup" => s # call'[d].s
               /\ call'[d].op = "accept" => s # HandleToId(call'[d].h)
    <3>1. call'[d] = call[d]  BY <1>2 DEF Others
    <3>2. call[d].op = "accept" => sock[HandleToId(call[d].h)].state # "Inpool"
      BY <1>t DEF Given
    <3>. QED  BY <1>m, <1>n, <1>s, <3>1, <3>2
  <2>2. ASSUME NEW c \in Callers \ {u}, Mine(c)'
        PROVE  /\ call'[c].s # s
               /\ op = "accept" => call'[c].s # HandleToId(h)
    <3>1. call'[c] = call[c] /\ Mine(c)  BY <1>2, <1>m, <2>2 DEF Others
    <3>2. op = "accept" => call[c].s # HandleToId(h)
      BY <1>o, <1>t, <3>1 DEF SlotInv, Apart
    <3>. QED  BY <1>s, <3>1, <3>2
  <2>3. ASSUME NEW c \in Callers \ {u}, NEW d \in Callers \ {u}, c # d, Mine(c)'
        PROVE  /\ Mine(d)' \/ call'[d].op = "hangup" => call'[c].s # call'[d].s
               /\ call'[d].op = "accept" => call'[c].s # HandleToId(call'[d].h)
    <3>1. call'[c] = call[c] /\ call'[d] = call[d]  BY <1>2 DEF Others
    <3>. QED  BY <1>m, <2>3, <3>1 DEF SlotInv, Apart
  <2>. QED  BY <1>2, <2>1, <2>2, <2>3 DEF Apart
<1>k. \A x : HandleOf(x)' = HandleOf(x)  BY DEF HandleOf
<1>6. ThreadOK(u)'
  <2>1. Place(u)'  BY <1>2, <1>o, <1>t DEF Place, AcceptLabels
  <2>2. Given(u)'
    <3>1. CASE op = "create"  BY <1>2, <3>1 DEF Given
    <3>2. CASE op = "accept"
      <4>1. /\ h \in Handles /\ Valid(h) /\ sock[HandleToId(h)].state = "Listening"
        BY <1>o, <1>t, <3>2 DEF Given
      <4>. QED  BY <1>2, <1>k, <3>2, <4>1 DEF Given, Valid
    <3>. QED  BY <1>o, <3>1, <3>2
  <2>3. Owned(u)'
    <3>1. StageState(u)' /\ StageListen(u)' /\ StageTerm(u)'
      BY <1>2, <1>s DEF StageState, Starting, StageListen, StageTerm
    <3>. QED  BY <1>1, <1>2, <1>k, <1>s, <3>1 DEF Owned
  <2>4. HandsOff(u)'  BY <1>2 DEF HandsOff
  <2>. QED  BY <2>1, <2>2, <2>3, <2>4 DEF ThreadOK
<1>7. ASSUME NEW d \in Callers \ {u}  PROVE ThreadOK(d)'
  <2>1. Undisturbed(d)
    <3>1. NoNewOp  BY DEF NoNewOp
    <3>2. \A x : x \in Members(sockPool') => x \in Members(sockPool)
      BY <1>1, <1>s
    <3>. QED  BY <1>t, <3>1, <3>2 DEF Undisturbed, Owned, StageTerm
  <2>2. PICK x : x \notin Socks \cup {NoHandle, HandleToId(call[d].h)}
    BY NoSetContainsEverything
  <2>3. Spared(d, x) /\ Elsewhere(x) /\ call[d].s # x
    BY <1>t, <2>2, Fields DEF Spared, Elsewhere
  <2>. QED  BY <1>2, <1>t, <2>1, <2>3, ThreadKept DEF Others
<1>i. call[u].pc \in {"idle", "acceptSock"}  BY <1>o
<1>8. ASSUME NEW x \in Socks  PROVE SlotOK(x)'
  <2>1. CASE x = s
    <3>1. Amid({"publish"}, s)'  BY <1>2, <1>t DEF Amid
    <3>. QED  BY <1>1, <1>k, <1>s, <2>1, <3>1 DEF SlotOK
  <2>2. CASE x # s
    <3>1. StillAmid(x)
      BY <1>2, <1>i DEF StillAmid, Others, Between, Starting
    <3>2. x \in Members(sockPool') <=> x \in Members(sockPool)
      BY <1>1, <1>s, <2>2
    <3>. QED  BY <1>k, <3>1, <3>2, SlotKept DEF SlotInv
  <2>. QED  BY <2>1, <2>2
<1>9. Terminals'
  <2>1. SamePrepares  BY <1>2, <1>i DEF SamePrepares, Prepares, Others
  <2>2. SameHas
    <3>1. \A x : Amid({"clearTerm"}, x)' <=> Amid({"clearTerm"}, x)
      BY <1>2, <1>i DEF Amid, Others
    <3>. QED  BY <3>1 DEF SameHas, Has
  <2>3. \A x, t : TermOf(x, t) => TermOf(x, t)'  BY <1>k DEF TermOf
  <2>. QED  BY <2>1, <2>2, <2>3, TerminalsKept DEF SlotInv
<1>10. ASSUME NEW o \in ops  PROVE OpOK(o)'
  <2>1. OpOK(o)  BY Parts
  <2>2. \A c \in Callers \ {u} : Mine(c)' => Mine(c) /\ call'[c] = call[c]
    BY <1>2, <1>m DEF Others
  <2>3. o.kind = "connect" => o.s # s  BY <1>s, <2>1 DEF OpOK
  <2>. QED  BY <1>2, <2>1, <2>2, <2>3 DEF OpOK, Early
<1>11. KnownOK' /\ OneOp' /\ Distinct(sockPool')
  BY <1>1, <1>s DEF KnownOK, OneOp, Early, SlotInv
<1>12. UNCHANGED <<ops, connPool>>  OBVIOUS
<1>. QED
  BY <1>3, <1>4, <1>5, <1>6, <1>7, <1>8, <1>9, <1>10, <1>11, <1>12 DEF SlotInv

LEMMA TakeSlotSteps ==
  ASSUME SlotInv, Contract, failed = "no", NEW u \in Users,
         CreateSocket(u) \/ (AcceptSock(u) /\ CanAllocate)
  PROVE  SlotInv'
PROOF
<1>t. u \in Callers /\ u # Dtor /\ Dtor \in Callers /\ Types
  BY Parts, SocketTableAssumption DEF SlotInv
<1>1. CASE CreateSocket(u)
  <2>1. /\ ~ closing /\ MayCall(u, "create", NoHandle) /\ call[u].pc = "idle"
        /\ TakeSlot(u, "create", NoHandle)
        /\ UNCHANGED <<sock, term, connPool, refs, ops, known, closing, failed>>
    BY <1>1 DEF CreateSocket
  <2>2. call[Dtor].op = "none"  BY <2>1 DEF SlotInv, Phases
  <2>3. \A d \in Callers \ {u} :
          call[d].op = "none" \/ MayOverlap("create", NoHandle, call[d])
    BY <2>1, <2>2 DEF MayCall, Callers
  <2>. QED  BY <2>1, <2>3, TakeSlotStep
<1>2. CASE AcceptSock(u) /\ CanAllocate
  <2>1. /\ call[u].pc = "acceptSock" /\ TakeSlot(u, "accept", call[u].h)
        /\ UNCHANGED <<sock, term, connPool, refs, ops, known, closing, failed>>
    BY <1>2 DEF AcceptSock
  <2>2. call[u].op = "accept"  BY <1>t, <2>1, CallAt, Parts, Fields
  <2>3. ~ closing  BY <2>2 DEF SlotInv, Phases
  <2>4. \A d \in Callers \ {u} :
          call[d].op = "none" \/ MayOverlap("accept", call[u].h, call[d])
    BY <1>t, <2>2 DEF SlotInv, Phases
  <2>. QED  BY <2>1, <2>3, <2>4, TakeSlotStep
<1>. QED  BY <1>1, <1>2

-----------------------------------------------------------------------------
(* A terminal leaves the pool, finds its slot, or comes back               *)

(* The slot of an early asynchronous call has the terminal of the call.    *)
LEMMA EarlyHas ==
  ASSUME SlotInv, NEW op \in ops, Early(op)
  PROVE  op.s \in Socks /\ op.t \in Terms /\ Has(op.s, op.t)
PROOF
<1>1. op.s \in Socks /\ op.t \in Terms /\ sock[op.s].term = op.t
  BY Parts DEF OpOK
<1>2. ASSUME NEW d \in Callers, call[d].pc = "clearTerm", call[d].s = op.s
      PROVE  FALSE
  <2>1. call[d].op = "connect"  BY <1>2, CallAt, Parts, Fields DEF SlotInv
  <2>2. Mine(d)  BY <1>2, <2>1 DEF Mine
  <2>. QED  BY <1>2, <2>2, MineNotOp
<1>. QED  BY <1>1, <1>2 DEF Has, Amid

(* A terminal belongs to one slot.                                         *)
LEMMA HasOne ==
  ASSUME Terminals, NEW x \in Socks, NEW y \in Socks, NEW t \in Terms,
         Has(x, t), Has(y, t)
  PROVE  x = y
PROOF BY DEF Terminals, TermOf, HandleOf

(* The slot of a thread that does not clear it has its terminal.           *)
LEMMA OwnHas ==
  ASSUME SlotInv, NEW c \in Callers, Mine(c), call[c].pc # "clearTerm",
         NEW t \in Terms, sock[call[c].s].term = t
  PROVE  Has(call[c].s, t)
PROOF
<1>1. ASSUME NEW d \in Callers, call[d].pc = "clearTerm", call[d].s = call[c].s
      PROVE  FALSE
  <2>1. call[d].op = "connect"  BY <1>1, CallAt, Parts, Fields DEF SlotInv
  <2>2. Mine(d) /\ d # c  BY <1>1, <2>1 DEF Mine
  <2>. QED  BY <1>1, <2>2 DEF SlotInv, Apart
<1>. QED  BY <1>1 DEF Has, Amid

(* A step of the owner of slot s, with terminal t.                         *)
LEMMA TermStep ==
  ASSUME SlotInv, failed = "no", NEW c \in Callers, Mine(c), NEW s \in Socks,
         s = call[c].s, NEW t \in Terms,
         Others(c), NoNewSlot(c), Elsewhere(s), sock'[s].gen = sock[s].gen,
         Types', ThreadOK(c)', SlotOK(s)', Distinct(connPool'), Terminals',
         UNCHANGED <<sockPool, known, closing>>,
         \A x \in Terms \ {t} : term'[x] = term[x],
         \/ term'[t] = term[t]
         \/ /\ ~ term[t].started
            /\ ~ term'[t].started
            /\ \A op \in ops : Early(op) => op.t # t,
         ops \subseteq ops',
         \A op \in ops' \ ops : op.s = s /\ OpOK(op)',
         \A o, p \in ops' \ ops : o = p,
         ops' # ops => call[c].op \in Takes
  PROVE  SlotInv'
PROOF
<1>t. /\ Types /\ Terminals
      /\ \A d \in Callers : Owned(d) /\ Place(d) /\ call[d].op \in Calls
  BY Parts, Fields DEF SlotInv
<1>1. /\ Phases' /\ Apart'
      /\ \A d \in Callers : Mine(d)' => Mine(d) /\ call'[d].s = call[d].s
  BY CallsKept
<1>n. \A x \in Terms : \/ term'[x] = term[x]
                       \/ ~ term[x].started /\ ~ term'[x].started
  OBVIOUS
<1>2. \A d \in Callers \ {c} : ThreadOK(d)'
  <2>1. ASSUME NEW d \in Callers \ {c}  PROVE Undisturbed(d)
    <3>1. CASE ops' = ops
      <4>1. NoNewOp  BY <3>1 DEF NoNewOp
      <4>2. Mine(d) => sock[call[d].s].term \in Terms \cup {NoTerm}
        BY <1>t, Fields DEF Owned
      <4>. QED  BY <1>t, <1>n, <4>1, <4>2 DEF Undisturbed, Owned, StageTerm
    <3>2. CASE ops' # ops
      <4>1. call[c].op \in Takes /\ c # Dtor
        BY <1>t, <3>2 DEF Place, Takes
      <4>2. call[d].pc \notin {"readTerm", "post"}
        <5>1. SUFFICES ASSUME call[d].pc \in {"readTerm", "post"}  PROVE FALSE
          OBVIOUS
        <5>2. call[d].op = "hangup" \/ (call[d].op = "close" /\ d = Dtor)
          BY <1>t, <5>1, CallAt
        <5>3. CASE call[d].op = "hangup"
          <6>1. MayOverlap(call[d].op, call[d].h, call[c])
            BY <4>1, <5>3 DEF SlotInv, Phases, Takes
          <6>. QED  BY <4>1, <5>3, <6>1 DEF MayOverlap
        <5>4. CASE call[d].op = "close" /\ d = Dtor
          <6>1. closing /\ c \in Users
            BY <4>1, <5>4 DEF SlotInv, Phases, Callers
          <6>. QED  BY <4>1, <6>1 DEF SlotInv, Phases, Takes
        <5>. QED  BY <5>2, <5>3, <5>4
      <4>3. Mine(d) => sock[call[d].s].term \in Terms \cup {NoTerm}
        BY <1>t, Fields DEF Owned
      <4>. QED  BY <1>t, <1>n, <4>2, <4>3 DEF Undisturbed, Owned, StageTerm
    <3>. QED  BY <3>1, <3>2
  <2>. QED  BY <2>1, OthersKept
<1>h. \A x \in Socks : HandleOf(x)' = HandleOf(x)  BY DEF HandleOf, Elsewhere
<1>3. \A x \in Socks : SlotOK(x)'
  <2>1. \A x \in Terms : term[x].started => term'[x].started  BY <1>n
  <2>2. \A x \in Socks \ {s} :
           /\ x \in Members(sockPool') <=> x \in Members(sockPool)
           /\ HandleOf(x)' \in known' => HandleOf(x) \in known
    BY <1>h
  <2>. QED  BY <2>1, <2>2, OtherSlotsKept
<1>4. \A op \in ops' : OpOK(op)'
  <2>1. \A op \in ops : Early(op) => term'[op.t] = term[op.t]
    BY EarlyHas
  <2>2. \A op \in ops : OpOK(op)'  BY <1>1, <2>1, OpsKept
  <2>. QED  BY <2>2
<1>5. OneOp'
  <2>1. \A op \in ops : Early(op) => op.s # s  BY MineNotOp
  <2>2. ASSUME NEW o \in ops', NEW p \in ops', Early(o), Early(p), o.s = p.s
        PROVE  o = p
    <3>1. CASE o \in ops /\ p \in ops  BY <2>2, <3>1 DEF SlotInv, OneOp
    <3>2. CASE o \notin ops /\ p \notin ops  BY <3>2
    <3>. QED  BY <2>1, <2>2, <3>1, <3>2
  <2>. QED  BY <2>2 DEF OneOp, Early
<1>6. KnownOK'
  <2>1. \A h \in known : HandleToId(h) \in Socks  BY <1>t, HandleIs DEF Types
  <2>2. \A x \in Socks : sock'[x].gen = sock[x].gen  BY DEF Elsewhere
  <2>. QED  BY <2>1, <2>2 DEF SlotInv, KnownOK
<1>7. ThreadOK(c)' /\ Distinct(sockPool)'  BY DEF SlotInv
<1>. QED
  BY <1>1, <1>2, <1>3, <1>4, <1>5, <1>6, <1>7 DEF SlotInv
(* A thread goes on, and the slots stay as they are.                       *)
LEMMA StaysGiven ==
  ASSUME NEW c \in Callers, Given(c), SameCall(c), sock' = sock,
         call[c].pc # "acceptCheck"
  PROVE  Given(c)'
PROOF BY DEF Given, SameCall, Valid, HandleOf

(* What a thread that has a terminal in its hands may count on.            *)
LEMMA AtTerm ==
  ASSUME SlotInv, NEW u \in Users, call[u].pc \in {"takeTerm", "prepare"}
  PROVE  /\ Types /\ Terminals /\ u \in Callers /\ u # Dtor /\ Mine(u)
         /\ call[u].op \in {"accept", "connect"} /\ Owned(u) /\ Given(u)
         /\ connPool \in Seq(Terms) /\ Distinct(connPool)
         /\ sock \in [Socks -> SockRec] /\ term \in [Terms -> TermRec]
         /\ call \in [Callers -> CallRec]
         /\ \E s \in Socks : s = call[u].s
         /\ StageState(u) /\ StageListen(u) /\ StageTerm(u)
         /\ sock[call[u].s].term = NoTerm /\ SlotOK(call[u].s)
PROOF
<1>1. /\ Types /\ Terminals /\ u \in Callers /\ u # Dtor /\ Owned(u)
      /\ Place(u) /\ Given(u)
  BY Parts, SocketTableAssumption DEF SlotInv
<1>2. call[u].op \in {"accept", "connect"}  BY <1>1, CallAt, Fields
<1>3. Mine(u)  BY <1>2 DEF Mine
<1>4. StageState(u) /\ StageListen(u) /\ StageTerm(u) /\ call[u].s \in Socks
  BY <1>1, <1>3, Own
<1>5. sock[call[u].s].term = NoTerm  BY <1>4 DEF StageTerm
<1>. QED  BY <1>1, <1>2, <1>3, <1>4, <1>5 DEF SlotInv, Types

LEMMA TakeTermStep ==
  ASSUME SlotInv, failed = "no", NEW u \in Users, TakeTerm(u), ~ Exhausted
  PROVE  SlotInv'
PROOF
<1>p. call[u].pc = "takeTerm"  BY DEF TakeTerm
<1>a. /\ Types /\ Terminals /\ u \in Callers /\ u # Dtor /\ Mine(u)
      /\ call[u].op \in {"accept", "connect"} /\ Owned(u) /\ Given(u)
      /\ connPool \in Seq(Terms) /\ Distinct(connPool)
      /\ call \in [Callers -> CallRec] /\ failed \in Failures \cup {"no"}
      /\ StageState(u) /\ StageListen(u) /\ StageTerm(u)
  BY <1>p, AtTerm DEF Types
<1>s. PICK s \in Socks : s = call[u].s /\ sock[s].term = NoTerm /\ SlotOK(s)
  BY <1>p, AtTerm
<1>q. connPool # <<>>  BY DEF Exhausted
<1>x. PICK t \in Terms :
        /\ t = NextTerm /\ t \in Members(connPool)
        /\ Tail(connPool) \in Seq(Terms) /\ Distinct(Tail(connPool))
        /\ Members(Tail(connPool)) = Members(connPool) \ {t}
  BY <1>a, <1>q, PoolTail DEF NextTerm
<1>1. /\ connPool' = Tail(connPool)
      /\ call' = [call EXCEPT ![u].pc = "prepare", ![u].t = t]
      /\ UNCHANGED <<sock, sockPool, term, refs, ops, known, closing>>
  BY <1>x DEF TakeTerm
<1>f. failed' \in Failures \cup {"no"}
  <2>1. Require(sock[call[u].s].term = NoTerm,
                   "Double allocation of connection block.")
    BY DEF TakeTerm
  <2>. QED  BY <1>a, <2>1, FailedIs DEF Failures, Audits
<1>l. "prepare" \in Labels  BY DEF Labels
<1>2. /\ call' \in [Callers -> CallRec] /\ Others(u) /\ SameCall(u)
      /\ call'[u].pc = "prepare" /\ call'[u].t = t /\ call'[u].l = call[u].l
  BY <1>1, <1>a, <1>l DEF CallRec, Others, SameCall
<1>3. /\ connPool' \in Seq(Terms) /\ Distinct(connPool')
      /\ Members(connPool') = Members(connPool) \ {t}
  BY <1>1, <1>x
<1>4. Types'
  BY <1>1, <1>2, <1>3, <1>a, <1>f DEF Types
<1>5. /\ call'[u].s = s /\ call'[u].op = call[u].op /\ call'[u].h = call[u].h
      /\ Mine(u)'
  BY <1>2, <1>a, <1>s DEF SameCall, Mine
<1>6. ThreadOK(u)'
  <2>1. Place(u)'
    BY <1>2, <1>5, <1>a DEF Place, AcceptLabels, ConnectLabels
  <2>2. Given(u)'  BY <1>1, <1>2, <1>a, <1>p, StaysGiven
  <2>3. sock' = sock /\ sockPool' = sockPool /\ known' = known /\ term' = term
    BY <1>1
  <2>4. StageState(u)' /\ StageListen(u)' /\ StageTerm(u)'
    BY <1>2, <1>5, <1>a, <1>p, <1>s, <2>3
       DEF StageState, Starting, StageListen, StageTerm
  <2>5. /\ s \in Socks /\ s \notin Members(sockPool) /\ sock[s].gen <= MaxGen
        /\ call[u].op = "accept" => HandleOf(s) \notin known
    BY <1>a, <1>s DEF Owned
  <2>6. HandleOf(s)' = HandleOf(s)  BY <2>3 DEF HandleOf
  <2>7. Owned(u)'  BY <1>5, <2>3, <2>4, <2>5, <2>6 DEF Owned
  <2>8. HandsOff(u)'  BY <1>2 DEF HandsOff
  <2>. QED  BY <2>1, <2>2, <2>7, <2>8 DEF ThreadOK
<1>7. SlotOK(s)'
  <2>1. Owned(u)' /\ s = call'[u].s /\ call'[u].pc # "publish"
    BY <1>2, <1>5, <1>6 DEF ThreadOK
  <2>. QED  BY <1>4, <1>5, <1>a, <2>1, OwnSlotKept
<1>8. Terminals'
  <2>1. \A x \in Socks, y \in Terms : Has(x, y)' <=> Has(x, y)
    BY <1>1, <1>2, <1>p DEF Has, Amid, Others
  <2>2. \A x \in Socks, y \in Terms : TermOf(x, y) => TermOf(x, y)'
    BY <1>1, <1>3 DEF TermOf, HandleOf
  <2>3. \A d \in Callers, y \in Terms :
          Prepares(d, y)' <=> Prepares(d, y) \/ (d = u /\ y = t)
    BY <1>2, <1>p DEF Prepares, Others
  <2>4. \A d \in Callers : ~ Prepares(d, t)
    BY <1>a, <1>x DEF Terminals
  <2>5. term[t] = VoidTerm /\ \A x \in Socks : ~ Has(x, t)
    BY <1>a, <1>x DEF Terminals, TermOf
  <2>6. ASSUME NEW d \in Callers, NEW y \in Terms, Prepares(d, y)'
        PROVE  /\ term'[y] = VoidTerm
               /\ y \notin Members(connPool')
               /\ \A e \in Callers : Prepares(e, y)' => d = e
               /\ \A x \in Socks : ~ Has(x, y)'
    <3>1. CASE y = t  BY <1>1, <1>3, <2>1, <2>3, <2>4, <2>5, <2>6, <3>1
    <3>2. CASE y # t
      BY <1>1, <1>3, <1>a, <2>1, <2>3, <2>6, <3>2 DEF Terminals
    <3>. QED  BY <3>1, <3>2
  <2>7. \A y \in Terms : y \in Members(connPool') => term'[y] = VoidTerm
    BY <1>1, <1>3, <1>a DEF Terminals
  <2>8. \A y \in Terms : y \notin Members(connPool') =>
          (\E x \in Socks : Has(x, y)') \/ (\E d \in Callers : Prepares(d, y)')
    BY <1>3, <1>a, <2>1, <2>3 DEF Terminals
  <2>9. \A x \in Socks, y \in Terms : Has(x, y)' => TermOf(x, y)'
    BY <1>a, <2>1, <2>2 DEF Terminals
  <2>. QED  BY <2>6, <2>7, <2>8, <2>9 DEF Terminals
<1>9. NoNewSlot(u) /\ Elsewhere(s) /\ ops' = ops /\ sock'[s].gen = sock[s].gen
      /\ term' = term
  BY <1>1, <1>2, <1>a DEF NoNewSlot, Elsewhere
<1>. QED
  BY <1>1, <1>2, <1>3, <1>4, <1>6, <1>7, <1>8, <1>9, <1>a, <1>s, TermStep

LEMMA PrepareFailsStep ==
  ASSUME SlotInv, failed = "no", NEW u \in Users, PrepareFails(u)
  PROVE  SlotInv'
PROOF
<1>p. call[u].pc = "prepare"  BY DEF PrepareFails
<1>a. /\ Types /\ Terminals /\ u \in Callers /\ u # Dtor /\ Mine(u)
      /\ call[u].op \in {"accept", "connect"} /\ Owned(u) /\ Given(u)
      /\ connPool \in Seq(Terms) /\ Distinct(connPool)
      /\ refs \in [Listeners -> RefRec]
      /\ StageState(u) /\ StageListen(u) /\ StageTerm(u)
  BY <1>p, AtTerm DEF Types
<1>s. PICK s \in Socks : s = call[u].s /\ sock[s].term = NoTerm /\ SlotOK(s)
  BY <1>p, AtTerm
<1>x. PICK t \in Terms : t = call[u].t  BY <1>a, <1>p DEF StageTerm
<1>y. /\ Prepares(u, t) /\ t \notin Members(connPool) /\ term[t] = VoidTerm
      /\ \A d \in Callers : Prepares(d, t) => d = u
      /\ \A x \in Socks : ~ Has(x, t)
  BY <1>a, <1>p, <1>x DEF Prepares, Terminals
<1>1. /\ connPool' = Append(connPool, t)
      /\ UNCHANGED <<sock, sockPool, term, ops, known, closing, failed>>
  BY <1>x DEF PrepareFails
<1>2. \E pc \in {"giveBack", "undoConnect"} :
        /\ Goto(u, pc)
        /\ call[u].op = IF pc = "giveBack" THEN "accept" ELSE "connect"
  BY DEF PrepareFails
<1>3. PICK pc \in {"giveBack", "undoConnect"} :
        /\ Goto(u, pc)
        /\ call[u].op = IF pc = "giveBack" THEN "accept" ELSE "connect"
  BY <1>2
<1>4. pc \in Labels  BY DEF Labels
<1>5. /\ call' \in [Callers -> CallRec] /\ Others(u) /\ SameCall(u)
      /\ call'[u].pc = pc /\ call'[u].t = t /\ call'[u].l = call[u].l
  BY <1>3, <1>4, <1>a, <1>x, GotoIs
<1>6. refs' \in [Listeners -> RefRec]
  <2>1. CASE refs' = refs  BY <1>a, <2>1
  <2>2. CASE refs' # refs
    <3>1. refs' = [refs EXCEPT ![call[u].l].lost = @ + 1] /\ call[u].op = "accept"
      BY <2>2 DEF PrepareFails
    <3>2. PICK l \in Listeners : l = call[u].l
      BY <1>a, <1>p, <3>1 DEF StageListen
    <3>3. refs[l].lost + 1 \in Nat /\ refs[l].lost \in Nat
      BY <1>a DEF RefRec
    <3>4. refs' = [refs EXCEPT ![l].lost = @ + 1]  BY <3>1, <3>2
    <3>. QED  BY <1>a, <3>3, <3>4 DEF RefRec
  <2>. QED  BY <2>1, <2>2
<1>7. /\ connPool' \in Seq(Terms) /\ Distinct(connPool')
      /\ Members(connPool') = Members(connPool) \cup {t}
  <2>1. /\ Append(connPool, t) \in Seq(Terms)
        /\ Members(Append(connPool, t)) = Members(connPool) \cup {t}
        /\ Distinct(Append(connPool, t))
    BY <1>a, <1>y, PoolAppend
  <2>. QED  BY <1>1, <2>1
<1>8. Types'
  BY <1>1, <1>5, <1>6, <1>7, <1>a DEF Types
<1>9. /\ call'[u].s = s /\ call'[u].op = call[u].op /\ call'[u].h = call[u].h
      /\ Mine(u)'
  BY <1>5, <1>a, <1>s DEF SameCall, Mine
<1>10. ThreadOK(u)'
  <2>1. Place(u)'
    BY <1>3, <1>5, <1>9, <1>a DEF Place, AcceptLabels, ConnectLabels
  <2>2. Given(u)'  BY <1>1, <1>5, <1>a, <1>p, StaysGiven
  <2>3. sock' = sock /\ sockPool' = sockPool /\ known' = known /\ term' = term
    BY <1>1
  <2>4. StageState(u)' /\ StageListen(u)' /\ StageTerm(u)'
    BY <1>3, <1>5, <1>9, <1>a, <1>p, <1>s, <2>3
       DEF StageState, Starting, StageListen, StageTerm
  <2>5. /\ s \in Socks /\ s \notin Members(sockPool) /\ sock[s].gen <= MaxGen
        /\ call[u].op = "accept" => HandleOf(s) \notin known
    BY <1>a, <1>s DEF Owned
  <2>6. HandleOf(s)' = HandleOf(s)  BY <2>3 DEF HandleOf
  <2>7. Owned(u)'  BY <1>9, <2>3, <2>4, <2>5, <2>6 DEF Owned
  <2>8. HandsOff(u)'  BY <1>5 DEF HandsOff
  <2>. QED  BY <2>1, <2>2, <2>7, <2>8 DEF ThreadOK
<1>11. SlotOK(s)'
  <2>1. Owned(u)' /\ s = call'[u].s /\ call'[u].pc # "publish"
    BY <1>5, <1>9, <1>10 DEF ThreadOK
  <2>. QED  BY <1>8, <1>9, <1>a, <2>1, OwnSlotKept
<1>12. Terminals'
  <2>1. \A x \in Socks, y \in Terms : Has(x, y)' <=> Has(x, y)
    BY <1>1, <1>5, <1>p DEF Has, Amid, Others
  <2>2. \A x \in Socks, y \in Terms : y # t /\ TermOf(x, y) => TermOf(x, y)'
    BY <1>1, <1>7 DEF TermOf, HandleOf
  <2>3. \A d \in Callers, y \in Terms :
          Prepares(d, y)' <=> Prepares(d, y) /\ d # u
    BY <1>5, <1>p DEF Prepares, Others
  <2>4. \A d \in Callers, y \in Terms : Prepares(d, y)' => y # t
    BY <1>y, <2>3
  <2>5. Prepares(u, t) /\ \A y \in Terms : Prepares(u, y) => y = t
    BY <1>x, <1>y DEF Prepares
  <2>6. \A d \in Callers, y \in Terms : Prepares(d, y)' =>
           /\ term'[y] = VoidTerm
           /\ y \notin Members(connPool')
           /\ \A e \in Callers : Prepares(e, y)' => d = e
           /\ \A x \in Socks : ~ Has(x, y)'
    BY <1>1, <1>7, <1>a, <2>1, <2>3, <2>4 DEF Terminals
  <2>7. \A y \in Terms : y \in Members(connPool') => term'[y] = VoidTerm
    BY <1>1, <1>7, <1>a, <1>y DEF Terminals
  <2>8. \A y \in Terms : y \notin Members(connPool') =>
          (\E x \in Socks : Has(x, y)') \/ (\E d \in Callers : Prepares(d, y)')
    BY <1>7, <1>a, <2>1, <2>3, <2>5 DEF Terminals
  <2>9. \A x \in Socks, y \in Terms : Has(x, y)' => TermOf(x, y)'
    BY <1>a, <1>y, <2>1, <2>2 DEF Terminals
  <2>. QED  BY <2>6, <2>7, <2>8, <2>9 DEF Terminals
<1>13. NoNewSlot(u) /\ Elsewhere(s) /\ ops' = ops /\ sock'[s].gen = sock[s].gen
      /\ term' = term
  BY <1>1, <1>5, <1>a DEF NoNewSlot, Elsewhere
<1>. QED
  BY <1>1, <1>5, <1>7, <1>8, <1>10, <1>11, <1>12, <1>13, <1>a, <1>s, TermStep
(* The terminal becomes the slot's.                                        *)
LEMMA PreparedStep ==
  ASSUME SlotInv, failed = "no", NEW u \in Users, Prepared(u)
  PROVE  SlotInv'
PROOF
<1>p. call[u].pc = "prepare"  BY DEF Prepared
<1>a. /\ Types /\ Terminals /\ u \in Callers /\ u # Dtor /\ Mine(u)
      /\ call[u].op \in {"accept", "connect"} /\ Owned(u) /\ Given(u)
      /\ Distinct(connPool)
      /\ sock \in [Socks -> SockRec] /\ term \in [Terms -> TermRec]
      /\ StageState(u) /\ StageListen(u) /\ StageTerm(u)
  BY <1>p, AtTerm
<1>s. PICK s \in Socks : s = call[u].s /\ sock[s].term = NoTerm /\ SlotOK(s)
  BY <1>p, AtTerm
<1>x. PICK t \in Terms : t = call[u].t  BY <1>a, <1>p DEF StageTerm
<1>y. /\ Prepares(u, t) /\ t \notin Members(connPool) /\ term[t] = VoidTerm
      /\ \A d \in Callers : Prepares(d, t) => d = u
      /\ \A x \in Socks : ~ Has(x, t)
  BY <1>a, <1>p, <1>x DEF Prepares, Terminals
<1>1. /\ OwnTerm(t, HandleOf(s)) /\ sock' = [sock EXCEPT ![s].term = t]
      /\ UNCHANGED <<sockPool, connPool, refs, known, closing, failed>>
  BY <1>s, <1>x DEF Prepared
<1>2. /\ sock' \in [Socks -> SockRec] /\ Elsewhere(s)
      /\ sock'[s].term = t /\ sock'[s].gen = sock[s].gen
      /\ sock'[s].listen = sock[s].listen /\ sock'[s].state = sock[s].state
  BY <1>1, <1>a, SetTermIs
<1>3. PICK r : r = [VoidTerm EXCEPT !.handle = HandleOf(s), !.func = TRUE]
  OBVIOUS
<1>4. r = [handle |-> HandleOf(s), started |-> FALSE, func |-> TRUE,
           notify |-> FALSE, closer |-> "none"]
  BY <1>3 DEF VoidTerm
<1>5. r \in TermRec  BY <1>4, <1>a, Fields DEF TermRec
<1>6. /\ term' \in [Terms -> TermRec] /\ term'[t] = r
      /\ \A x \in Terms \ {t} : term'[x] = term[x]
  BY <1>1, <1>3, <1>5, <1>a DEF OwnTerm
<1>7. ~ term[t].started /\ ~ term'[t].started
  BY <1>4, <1>6, <1>y DEF VoidTerm
<1>e. \A op \in ops : Early(op) => op.t # t  BY <1>y, EarlyHas
<1>h. \A x \in Socks : HandleOf(x)' = HandleOf(x)
  BY <1>2 DEF HandleOf, Elsewhere
<1>8. /\ sock[s].listen = NoListener /\ sock[s].gen <= MaxGen
      /\ s \notin Members(sockPool)
      /\ sock[s].state = IF call[u].op = "accept" THEN "Accept1" ELSE "Connecting"
  BY <1>a, <1>p, <1>s DEF StageState, StageListen, Owned
<1>9. ASSUME call' \in [Callers -> CallRec], Others(u),
             call'[u].pc \in {"idle", "bind"}
      PROVE  Terminals'
  <2>1. ASSUME NEW d \in Callers, call'[d].pc = "clearTerm", call'[d].s = s
        PROVE  FALSE
    <3>1. d # u /\ call[d].pc = "clearTerm" /\ call[d].s = s
      BY <1>9, <2>1 DEF Others
    <3>2. call[d].op = "connect"  BY <1>a, <3>1, CallAt, Parts, Fields
    <3>3. Mine(d)  BY <3>1, <3>2 DEF Mine
    <3>. QED  BY <1>a, <1>s, <3>1, <3>3 DEF SlotInv, Apart
  <2>2. \A y \in Terms : Has(s, y)' <=> y = t
    BY <1>2, <2>1 DEF Has, Amid
  <2>3. \A x \in Socks \ {s}, y \in Terms : Has(x, y)' <=> Has(x, y)
    BY <1>2, <1>9, <1>p DEF Has, Amid, Others, Elsewhere
  <2>4. \A y \in Terms : ~ Has(s, y)
    BY <1>s, SocketTableAssumption DEF Has
  <2>5. TermOf(s, t)'
    BY <1>1, <1>2, <1>4, <1>6, <1>8, <1>a, <1>h, <1>y DEF TermOf
  <2>6. \A x \in Socks \ {s}, y \in Terms \ {t} : TermOf(x, y) => TermOf(x, y)'
    BY <1>1, <1>2, <1>6, <1>h DEF TermOf, Elsewhere
  <2>7. \A x \in Socks, y \in Terms : Has(x, y)' => TermOf(x, y)'
    BY <1>a, <1>y, <2>2, <2>3, <2>5, <2>6 DEF Terminals
  <2>8. \A d \in Callers, y \in Terms :
          Prepares(d, y)' <=> Prepares(d, y) /\ d # u
    BY <1>9, <1>p DEF Prepares, Others
  <2>9. \A d \in Callers, y \in Terms : Prepares(d, y)' => y # t
    BY <1>y, <2>8
  <2>10. \A y \in Terms : Prepares(u, y) => y = t  BY <1>x DEF Prepares
  <2>11. connPool' = connPool  BY <1>1
  <2>12. \A d \in Callers, y \in Terms : Prepares(d, y)' =>
           /\ term'[y] = VoidTerm
           /\ y \notin Members(connPool')
           /\ \A e \in Callers : Prepares(e, y)' => d = e
           /\ \A x \in Socks : ~ Has(x, y)'
    <3>1. ASSUME NEW d \in Callers, NEW y \in Terms, Prepares(d, y)'
          PROVE  /\ term'[y] = VoidTerm
                 /\ y \notin Members(connPool')
                 /\ \A e \in Callers : Prepares(e, y)' => d = e
                 /\ \A x \in Socks : ~ Has(x, y)'
      <4>1. Prepares(d, y) /\ y # t /\ d # u  BY <2>8, <2>9, <3>1
      <4>2. \A x \in Socks : ~ Has(x, y)
        BY <1>a, <4>1 DEF Terminals
      <4>3. \A x \in Socks : ~ Has(x, y)'  BY <2>2, <2>3, <4>1, <4>2
      <4>. QED  BY <1>6, <1>a, <2>8, <2>11, <4>1, <4>3 DEF Terminals
    <3>. QED  BY <3>1
  <2>13. \A y \in Terms : y \in Members(connPool') => term'[y] = VoidTerm
    BY <1>6, <1>a, <1>y, <2>11 DEF Terminals
  <2>14. \A y \in Terms : y \notin Members(connPool') =>
          (\E x \in Socks : Has(x, y)') \/ (\E d \in Callers : Prepares(d, y)')
    BY <1>a, <2>2, <2>3, <2>4, <2>8, <2>10, <2>11 DEF Terminals
  <2>. QED  BY <2>7, <2>12, <2>13, <2>14 DEF Terminals
<1>10. CASE call[u].op = "accept"
  <2>1. /\ Return(u)
        /\ ops' = ops \cup {[kind |-> "connReq", s |-> s, t |-> t,
                             listener |-> call[u].l]}
    BY <1>10, <1>s, <1>x DEF Prepared, Issue
  <2>2. PICK o : o = [kind |-> "connReq", s |-> s, t |-> t,
                      listener |-> call[u].l]
    OBVIOUS
  <2>3. call[u].l \in Listeners  BY <1>10, <1>a, <1>p DEF StageListen
  <2>4. o \in Op  BY <2>2, <2>3 DEF Op
  <2>5. /\ call' \in [Callers -> CallRec] /\ Others(u)
        /\ call'[u].op = "none" /\ call'[u].pc = "idle"
    BY <1>a, <2>1, ReturnIs
  <2>6. ThreadOK(u)' /\ ~ Mine(u)'  BY <1>a, <2>5, IdleOK
  <2>7. Types'
    BY <1>1, <1>2, <1>6, <1>a, <2>1, <2>2, <2>4, <2>5 DEF Types
  <2>8. OpOK(o)'
    BY <1>2, <1>4, <1>6, <1>8, <1>10, <2>2, <2>3 DEF OpOK, Early
  <2>9. o.s = s /\ ops' = ops \cup {o}  BY <2>1, <2>2
  <2>10. SlotOK(s)'
    BY <1>1, <1>2, <1>8, <1>10 DEF SlotOK
  <2>11. NoNewSlot(u) /\ Terminals' /\ call[u].op \in Takes
    BY <1>9, <1>10, <2>5, <2>6 DEF NoNewSlot, Takes
  <2>. QED
    BY <1>1, <1>2, <1>6, <1>7, <1>a, <1>e, <1>s, <2>5, <2>6, <2>7, <2>8, <2>9,
       <2>10, <2>11, TermStep
<1>11. CASE call[u].op = "connect"
  <2>1. Goto(u, "bind") /\ UNCHANGED ops
    BY <1>11 DEF Prepared
  <2>2. "bind" \in Labels  BY DEF Labels
  <2>3. /\ call' \in [Callers -> CallRec] /\ Others(u) /\ SameCall(u)
        /\ call'[u].pc = "bind" /\ call'[u].t = t
    BY <1>a, <1>x, <2>1, <2>2, GotoIs
  <2>4. /\ call'[u].s = s /\ call'[u].op = "connect" /\ call'[u].h = call[u].h
        /\ Mine(u)'
    BY <1>11, <1>s, <2>3 DEF SameCall, Mine
  <2>5. Types'
    BY <1>1, <1>2, <1>6, <1>a, <2>1, <2>3 DEF Types
  <2>6. ThreadOK(u)'
    <3>1. Place(u)'  BY <1>a, <2>3, <2>4 DEF Place, ConnectLabels
    <3>2. Given(u)'
      BY <1>11, <1>a, <1>h, <1>s, <2>4 DEF Given
    <3>3. StageState(u)' /\ StageListen(u)'
      BY <1>2, <1>8, <1>11, <2>3, <2>4 DEF StageState, Starting, StageListen
    <3>4. StageTerm(u)'
      BY <1>2, <1>7, <2>3, <2>4, SocketTableAssumption DEF StageTerm
    <3>5. Owned(u)'  BY <1>1, <1>2, <1>8, <2>4, <3>3, <3>4 DEF Owned
    <3>6. HandsOff(u)'  BY <2>3 DEF HandsOff
    <3>. QED  BY <3>1, <3>2, <3>5, <3>6 DEF ThreadOK
  <2>7. SlotOK(s)'
    <3>1. Owned(u)' /\ s = call'[u].s /\ call'[u].pc # "publish"
      BY <2>3, <2>4, <2>6 DEF ThreadOK
    <3>. QED  BY <1>a, <2>4, <2>5, <3>1, OwnSlotKept
  <2>8. NoNewSlot(u) /\ Terminals' /\ ops' = ops
    BY <1>9, <1>a, <2>1, <2>3 DEF NoNewSlot
  <2>. QED
    BY <1>1, <1>2, <1>6, <1>7, <1>a, <1>e, <1>s, <2>3, <2>5, <2>6, <2>7, <2>8,
       TermStep
<1>. QED  BY <1>10, <1>11, <1>a
(* The asynchronous connect.                                               *)
LEMMA BindStep ==
  ASSUME SlotInv, failed = "no", NEW u \in Users, Bind(u), ops' # ops
  PROVE  SlotInv'
PROOF
<1>t. /\ Types /\ Terminals /\ u \in Callers /\ u # Dtor /\ Distinct(connPool)
      /\ call[u].pc = "bind" /\ term \in [Terms -> TermRec]
      /\ sock \in [Socks -> SockRec]
  BY Parts, SocketTableAssumption DEF SlotInv, Bind, Types
<1>o. call[u].op = "connect"  BY <1>t, CallAt, Parts, Fields
<1>m. Mine(u)  BY <1>o, <1>t DEF Mine
<1>s. PICK s \in Socks : s = call[u].s  BY <1>m, <1>t, Own
<1>1. /\ s \notin Members(sockPool) /\ sock[s].gen <= MaxGen
      /\ StageState(u) /\ StageListen(u) /\ StageTerm(u) /\ SlotOK(s)
  BY <1>m, <1>s, <1>t, Own DEF SlotInv
<1>x. PICK t \in Terms : t = call[u].t /\ t = sock[s].term
  <2>1. sock[s].term = call[u].t /\ sock[s].term # NoTerm
    BY <1>1, <1>s, <1>t DEF StageTerm
  <2>2. sock[s].term \in Terms \cup {NoTerm}  BY <1>t, Fields
  <2>. QED  BY <2>1, <2>2
<1>2. /\ ops' = ops \cup {[kind |-> "connect", s |-> s, t |-> t,
                           listener |-> NoListener]}
      /\ Return(u)
      /\ UNCHANGED <<sock, sockPool, term, connPool, refs, known, closing, failed>>
  BY <1>s, <1>x DEF Bind, Issue
<1>3. PICK o : o = [kind |-> "connect", s |-> s, t |-> t,
                    listener |-> NoListener]
  OBVIOUS
<1>4. o \in Op  BY <1>3 DEF Op
<1>5. /\ call' \in [Callers -> CallRec] /\ Others(u)
      /\ call'[u].op = "none" /\ call'[u].pc = "idle"
  BY <1>2, <1>t, ReturnIs
<1>6. ThreadOK(u)' /\ ~ Mine(u)'  BY <1>5, <1>t, IdleOK
<1>7. Types'  BY <1>2, <1>3, <1>4, <1>5, <1>t DEF Types
<1>8. /\ sock[s].state = "Connecting" /\ sock[s].listen = NoListener
      /\ ~ term[t].started
  BY <1>1, <1>s, <1>t, <1>x, SocketTableAssumption
     DEF StageState, Starting, StageListen, StageTerm
<1>9. term[t].closer = "none"
  <2>1. Has(s, t)  BY <1>m, <1>s, <1>t, <1>x, OwnHas
  <2>2. TermOf(s, t) /\ term[t].closer \in {"none", "posted", "running"}
    BY <1>t, <2>1, Fields DEF Terminals
  <2>. QED  BY <1>8, <2>2 DEF TermOf
<1>10. OpOK(o)'
  <2>1. \A d \in Callers \ {u} : Mine(d) => call[d].s # s
    BY <1>m, <1>s, <1>t DEF SlotInv, Apart
  <2>2. \A d \in Callers : Mine(d)' => call'[d].s # s
    BY <1>5, <1>6, <2>1 DEF Others, Mine
  <2>3. sock' = sock /\ term' = term  BY <1>2
  <2>. QED  BY <1>3, <1>8, <1>9, <1>x, <2>2, <2>3 DEF OpOK, Early
<1>11. SlotOK(s)'
  <2>1. sock' = sock /\ sockPool' = sockPool /\ known' = known  BY <1>2
  <2>. QED  BY <1>1, <1>8, <2>1 DEF SlotOK
<1>12. Terminals'
  <2>1. sock' = sock /\ connPool' = connPool /\ term' = term  BY <1>2
  <2>2. SameHas /\ SamePrepares
    BY <1>5, <1>t, <2>1 DEF SameHas, SamePrepares, Has, Prepares, Amid, Others
  <2>3. \A x, y : TermOf(x, y) => TermOf(x, y)'
    BY <2>1 DEF TermOf, HandleOf
  <2>. QED  BY <1>t, <2>1, <2>2, <2>3, TerminalsKept
<1>13. /\ NoNewSlot(u) /\ call[u].op \in Takes /\ o.s = s /\ ops' = ops \cup {o}
       /\ Elsewhere(s) /\ term' = term /\ sock'[s].gen = sock[s].gen
  BY <1>2, <1>3, <1>5, <1>6, <1>o DEF NoNewSlot, Takes, Elsewhere
<1>. QED
  BY <1>2, <1>5, <1>6, <1>7, <1>10, <1>11, <1>12, <1>13, <1>m, <1>s, <1>t, TermStep

(* The scope guard of Connect frees the terminal, then clears m_term.      *)
LEMMA UndoTermStep ==
  ASSUME SlotInv, failed = "no", NEW u \in Users, UndoTerm(u),
         sock[call[u].s].term # NoTerm
  PROVE  SlotInv'
PROOF
<1>t. /\ Types /\ Terminals /\ u \in Callers /\ u # Dtor /\ Distinct(connPool)
      /\ call[u].pc = "undoTerm" /\ connPool \in Seq(Terms)
      /\ failed \in Failures \cup {"no"}
  BY Parts, SocketTableAssumption DEF SlotInv, UndoTerm, Types
<1>o. call[u].op = "connect"  BY <1>t, CallAt, Parts, Fields
<1>m. Mine(u)  BY <1>o, <1>t DEF Mine
<1>s. PICK s \in Socks : s = call[u].s  BY <1>m, <1>t, Own
<1>1. /\ s \notin Members(sockPool) /\ sock[s].gen <= MaxGen
      /\ StageState(u) /\ StageListen(u) /\ StageTerm(u)
      /\ call[u].h = HandleOf(s)
  BY <1>m, <1>o, <1>s, <1>t, Own DEF Given
<1>x. PICK t \in Terms : t = sock[s].term
  BY <1>s, <1>t, Fields
<1>2. /\ Require(term[t] # VoidTerm, "Double free to connection pool")
      /\ term' = [term EXCEPT ![t] = VoidTerm]
      /\ connPool' = Append(connPool, t)
      /\ Goto(u, "clearTerm")
      /\ UNCHANGED <<sock, sockPool, refs, ops, known, closing>>
  BY <1>s, <1>x, SocketTableAssumption DEF UndoTerm
<1>3. /\ term' \in [Terms -> TermRec] /\ term'[t] = VoidTerm
      /\ \A x \in Terms \ {t} : term'[x] = term[x]
  BY <1>2, <1>t, VoidTermIs
<1>h. Has(s, t) /\ TermOf(s, t)
  <2>1. Has(s, t)  BY <1>m, <1>s, <1>t, <1>x, OwnHas
  <2>. QED  BY <1>t, <2>1 DEF Terminals
<1>4. ~ term[t].started /\ ~ term'[t].started /\ t \notin Members(connPool)
  <2>1. ~ term[t].started
    BY <1>1, <1>s, <1>t, <1>x, SocketTableAssumption DEF StageTerm
  <2>2. ~ VoidTerm.started  BY DEF VoidTerm
  <2>. QED  BY <1>3, <1>h, <2>1, <2>2 DEF TermOf
<1>5. \A op \in ops : Early(op) => op.t # t
  <2>1. ASSUME NEW op \in ops, Early(op), op.t = t  PROVE FALSE
    <3>1. op.s \in Socks /\ Has(op.s, t)  BY <2>1, EarlyHas
    <3>2. op.s = s  BY <1>h, <1>t, <3>1, HasOne
    <3>. QED  BY <1>m, <1>s, <1>t, <2>1, <3>2, MineNotOp
  <2>. QED  BY <2>1
<1>6. /\ connPool' \in Seq(Terms) /\ Distinct(connPool')
      /\ Members(connPool') = Members(connPool) \cup {t}
  <2>1. /\ Append(connPool, t) \in Seq(Terms)
        /\ Members(Append(connPool, t)) = Members(connPool) \cup {t}
        /\ Distinct(Append(connPool, t))
    BY <1>4, <1>t, PoolAppend
  <2>. QED  BY <1>2, <2>1
<1>l. "clearTerm" \in Labels  BY DEF Labels
<1>7. /\ call' \in [Callers -> CallRec] /\ Others(u) /\ SameCall(u)
      /\ call'[u].pc = "clearTerm"
  BY <1>2, <1>l, <1>t, GotoIs
<1>8. /\ call'[u].s = s /\ call'[u].op = "connect" /\ call'[u].h = call[u].h
      /\ Mine(u)'
  BY <1>7, <1>o, <1>s DEF SameCall, Mine
<1>f. failed' \in Failures \cup {"no"}
  BY <1>2, <1>t, FailedIs DEF Failures, Audits
<1>9. Types'
  BY <1>2, <1>3, <1>6, <1>7, <1>f, <1>t DEF Types
<1>e. sock' = sock /\ sockPool' = sockPool /\ HandleOf(s)' = HandleOf(s)
  BY <1>2 DEF HandleOf
<1>10. ThreadOK(u)'
  <2>1. Place(u)'  BY <1>7, <1>8, <1>t DEF Place, ConnectLabels
  <2>2. Given(u)'  BY <1>1, <1>8, <1>e DEF Given
  <2>3. StageState(u)' /\ StageListen(u)' /\ StageTerm(u)'
    BY <1>1, <1>7, <1>8, <1>e, <1>s, <1>t, <1>x, SocketTableAssumption
       DEF StageState, Starting, StageListen, StageTerm
  <2>4. Owned(u)'  BY <1>1, <1>8, <1>e, <2>3 DEF Owned
  <2>5. HandsOff(u)'  BY <1>7 DEF HandsOff
  <2>. QED  BY <2>1, <2>2, <2>4, <2>5 DEF ThreadOK
<1>11. SlotOK(s)'
  <2>1. Owned(u)' /\ s = call'[u].s /\ call'[u].pc # "publish"
    BY <1>7, <1>8, <1>10 DEF ThreadOK
  <2>. QED  BY <1>8, <1>9, <1>t, <2>1, OwnSlotKept
<1>12. Terminals'
  <2>1. \A y \in Terms : ~ Has(s, y)'
    <3>1. Amid({"clearTerm"}, s)'  BY <1>7, <1>8, <1>t DEF Amid
    <3>. QED  BY <3>1 DEF Has
  <2>2. \A x \in Socks \ {s}, y \in Terms : Has(x, y)' <=> Has(x, y)
    BY <1>7, <1>8, <1>e, <1>t DEF Has, Amid, Others
  <2>3. \A x \in Socks \ {s} : ~ Has(x, t)
    BY <1>h, <1>t, HasOne
  <2>4. \A y \in Terms : Has(s, y) => y = t  BY <1>x DEF Has
  <2>5. \A x \in Socks, y \in Terms \ {t} : TermOf(x, y) => TermOf(x, y)'
    BY <1>3, <1>6, <1>e DEF TermOf, HandleOf
  <2>6. \A x \in Socks, y \in Terms : Has(x, y)' => TermOf(x, y)'
    BY <1>t, <2>1, <2>2, <2>3, <2>5 DEF Terminals
  <2>7. \A d \in Callers, y \in Terms : Prepares(d, y)' <=> Prepares(d, y)
    BY <1>7, <1>t DEF Prepares, Others
  <2>8. \A d \in Callers : ~ Prepares(d, t)
    BY <1>h, <1>t DEF Terminals
  <2>9. ASSUME NEW d \in Callers, NEW y \in Terms, Prepares(d, y)'
        PROVE  /\ term'[y] = VoidTerm
               /\ y \notin Members(connPool')
               /\ \A e \in Callers : Prepares(e, y)' => d = e
               /\ \A x \in Socks : ~ Has(x, y)'
    <3>1. Prepares(d, y) /\ y # t  BY <2>7, <2>8, <2>9
    <3>2. \A x \in Socks : ~ Has(x, y)  BY <1>t, <3>1 DEF Terminals
    <3>3. \A x \in Socks : ~ Has(x, y)'  BY <2>1, <2>2, <3>2
    <3>. QED  BY <1>3, <1>6, <1>t, <2>7, <3>1, <3>3 DEF Terminals
  <2>10. \A y \in Terms : y \in Members(connPool') => term'[y] = VoidTerm
    BY <1>3, <1>6, <1>t DEF Terminals
  <2>11. \A y \in Terms : y \notin Members(connPool') =>
          (\E x \in Socks : Has(x, y)') \/ (\E d \in Callers : Prepares(d, y)')
    BY <1>6, <1>t, <2>2, <2>4, <2>7 DEF Terminals
  <2>. QED  BY <2>6, <2>9, <2>10, <2>11 DEF Terminals
<1>13. NoNewSlot(u) /\ Elsewhere(s) /\ ops' = ops /\ sock'[s].gen = sock[s].gen
  BY <1>2, <1>7, <1>m DEF NoNewSlot, Elsewhere
<1>. QED
  BY <1>2, <1>3, <1>4, <1>5, <1>6, <1>7, <1>9, <1>10, <1>11, <1>12, <1>13, <1>m,
     <1>s, <1>t, TermStep

LEMMA ClearTermStep ==
  ASSUME SlotInv, failed = "no", NEW u \in Users, ClearTerm(u)
  PROVE  SlotInv'
PROOF
<1>t. /\ Types /\ Terminals /\ u \in Callers /\ u # Dtor /\ Distinct(connPool)
      /\ call[u].pc = "clearTerm"
  BY Parts, SocketTableAssumption DEF SlotInv, ClearTerm
<1>o. call[u].op = "connect"  BY <1>t, CallAt, Parts, Fields
<1>m. Mine(u)  BY <1>o, <1>t DEF Mine
<1>s. PICK s \in Socks : s = call[u].s  BY <1>m, <1>t, Own
<1>1. /\ s \notin Members(sockPool) /\ sock[s].gen <= MaxGen
      /\ StageState(u) /\ StageListen(u) /\ StageTerm(u)
  BY <1>m, <1>s, <1>t, Own
<1>2. /\ sock[s].state = "Disconnected" /\ sock[s].listen = NoListener
      /\ sock[s].term # NoTerm
  BY <1>1, <1>s, <1>t DEF StageState, Starting, StageListen, StageTerm
<1>x. PICK t \in Terms : t = sock[s].term  BY <1>2, <1>t, Fields
<1>3. /\ sock' = [sock EXCEPT ![s].term = NoTerm] /\ Return(u)
      /\ UNCHANGED <<sockPool, term, connPool, refs, ops, known, closing, failed>>
  BY <1>s DEF ClearTerm
<1>4. /\ sock' \in [Socks -> SockRec] /\ Elsewhere(s)
      /\ sock'[s].term = NoTerm /\ sock'[s].gen = sock[s].gen
      /\ sock'[s].listen = NoListener /\ sock'[s].state = "Disconnected"
  BY <1>2, <1>3, <1>t, SetTermIs
<1>5. /\ call' \in [Callers -> CallRec] /\ Others(u)
      /\ call'[u].op = "none" /\ call'[u].pc = "idle"
  BY <1>3, <1>t, ReturnIs
<1>6. ThreadOK(u)' /\ ~ Mine(u)'  BY <1>5, <1>t, IdleOK
<1>7. Types'  BY <1>3, <1>4, <1>5, <1>t DEF Types
<1>8. SlotOK(s)'  BY <1>1, <1>3, <1>4 DEF SlotOK
<1>9. Terminals'
  <2>1. \A y \in Terms : ~ Has(s, y)  BY <1>s, <1>t DEF Has, Amid
  <2>2. \A y \in Terms : ~ Has(s, y)'
    BY <1>4, SocketTableAssumption DEF Has
  <2>3. \A x \in Socks \ {s}, y \in Terms : Has(x, y)' <=> Has(x, y)
    BY <1>4, <1>5, <1>s, <1>t DEF Has, Amid, Others, Elsewhere
  <2>4. SameHas  BY <2>1, <2>2, <2>3 DEF SameHas
  <2>5. SamePrepares  BY <1>5, <1>t DEF SamePrepares, Prepares, Others
  <2>6. term' = term /\ connPool' = connPool  BY <1>3
  <2>7. ASSUME NEW x \in Socks, NEW y \in Terms, Has(x, y), TermOf(x, y)
        PROVE  TermOf(x, y)'
    BY <1>4, <2>1, <2>6, <2>7 DEF TermOf, HandleOf, Elsewhere
  <2>. QED  BY <1>t, <2>4, <2>5, <2>6, <2>7, TerminalsKept
<1>10. NoNewSlot(u) /\ ops' = ops /\ term' = term /\ connPool' = connPool
  BY <1>3, <1>5, <1>6 DEF NoNewSlot
<1>. QED
  BY <1>3, <1>4, <1>5, <1>6, <1>7, <1>8, <1>9, <1>10, <1>m, <1>s, <1>t, TermStep
-----------------------------------------------------------------------------
(* Completion handlers and closers, at a slot that has its terminal        *)

LEMMA SameCalls ==
  ASSUME SlotInv, UNCHANGED <<call, closing>>
  PROVE  /\ Phases' /\ Apart'
         /\ \A d \in Callers : Mine(d)' <=> Mine(d)
PROOF BY DEF SlotInv, Phases, MayOverlap, Apart, Mine

(* A terminal that is not void and not being prepared belongs to a slot.   *)
LEMMA HadTerm ==
  ASSUME SlotInv, NEW t \in Terms, term[t] # VoidTerm
  PROVE  \E s \in Socks : Has(s, t) /\ TermOf(s, t)
PROOF BY DEF SlotInv, Terminals

(* No thread works on a slot whose terminal was started.                   *)
LEMMA StartedFree ==
  ASSUME SlotInv, NEW s \in Socks, NEW t \in Terms, Has(s, t), term[t].started,
         NEW d \in Callers, Mine(d)
  PROVE  call[d].s # s
PROOF
<1>1. StageTerm(d) /\ t # NoTerm  BY Own, SocketTableAssumption
<1>. QED  BY <1>1 DEF StageTerm, Has, Amid

(* A connection has a terminal that was started.                           *)
LEMMA ConnHas ==
  ASSUME SlotInv, NEW s \in Socks,
         sock[s].state \in {"ConnAck", "ConnAgreed", "Connected"}
  PROVE  /\ sock[s].term \in Terms /\ term[sock[s].term].started
         /\ Has(s, sock[s].term)
PROOF
<1>1. sock[s].term # NoTerm /\ term[sock[s].term].started /\ Types
  BY DEF SlotInv, SlotOK
<1>2. sock[s].term \in Terms  BY <1>1, Fields
<1>3. ASSUME NEW d \in Callers, call[d].pc = "clearTerm", call[d].s = s
      PROVE  FALSE
  <2>1. call[d].op = "connect"  BY <1>1, <1>3, CallAt, Parts, Fields
  <2>2. Mine(d)  BY <1>3, <2>1 DEF Mine
  <2>3. sock[s].state = "Disconnected"
    BY <1>3, <2>2, Own DEF StageState, Starting
  <2>. QED  BY <2>3
<1>. QED  BY <1>1, <1>2, <1>3 DEF Has, Amid

(* The others' early calls are of other terminals.                         *)
LEMMA OtherTerm ==
  ASSUME SlotInv, NEW s \in Socks, NEW t \in Terms, Has(s, t),
         NEW op \in ops, Early(op), op.s # s
  PROVE  op.t # t
PROOF
<1>1. op.s \in Socks /\ Has(op.s, op.t)  BY EarlyHas
<1>. QED  BY <1>1, HasOne DEF SlotInv

(* States in which a slot is a connection on its way.                      *)
Underway == States \ {"Disconnected", "StartToListen", "Listening", "Inpool"}

(* A handler or closer at slot s with terminal t, both still in use.       *)
LEMMA HandlerStep ==
  ASSUME SlotInv, failed = "no", NEW s \in Socks, NEW t \in Terms, Has(s, t),
         \A d \in Callers : Mine(d) => call[d].s # s,
         sock[s].state \in Underway, sock'[s].state \in Underway, Elsewhere(s),
         sock'[s].gen = sock[s].gen, sock'[s].term = sock[s].term,
         sock'[s].listen = sock[s].listen, Types',
         UNCHANGED <<sockPool, connPool, call, known, closing>>,
         \A x \in Terms \ {t} : term'[x] = term[x], TermOf(s, t)',
         term[t].started => term'[t].started,
         sock'[s].state \in {"ConnAck", "ConnAgreed", "Connected"} =>
           term'[t].started,
         NoNewOp, OneOp',
         \A op \in ops' : \/ op \in ops /\ op.s # s
                          \/ op.s = s /\ OpOK(op)'
  PROVE  SlotInv'
PROOF
<1>t. /\ Types /\ Terminals
      /\ \A d \in Callers : ThreadOK(d) /\ Owned(d) /\ Given(d)
  BY Parts DEF SlotInv
<1>1. /\ Phases' /\ Apart'
      /\ \A d \in Callers : Mine(d)' <=> Mine(d)
  BY SameCalls
<1>h. \A x \in Socks : HandleOf(x)' = HandleOf(x)  BY DEF HandleOf, Elsewhere
<1>u. sock[s].state \notin {"Disconnected", "StartToListen", "Listening", "Inpool"}
      /\ sock'[s].state \notin {"Disconnected", "StartToListen", "Listening",
                                "Inpool"}
  BY DEF Underway
<1>2. ASSUME NEW d \in Callers  PROVE ThreadOK(d)'
  <2>1. Spared(d, s)  BY <1>t, <1>u DEF Spared, Given
  <2>2. Ongoing(s)  BY <1>u DEF Ongoing
  <2>3. Undisturbed(d)
    <3>1. ASSUME Mine(d), call[d].pc # "clearTerm", sock[call[d].s].term # NoTerm
          PROVE  ~ term'[sock[call[d].s].term].started
      <4>1. /\ sock[call[d].s].term \in Terms /\ call[d].s \in Socks
            /\ ~ term[sock[call[d].s].term].started
        BY <1>t, <3>1, Own, Fields DEF StageTerm
      <4>2. Has(call[d].s, sock[call[d].s].term)
        BY <3>1, <4>1, OwnHas
      <4>3. sock[call[d].s].term # t
        BY <1>t, <3>1, <4>1, <4>2, HasOne
      <4>. QED  BY <4>1, <4>3
    <3>. QED  BY <1>t, <3>1 DEF Undisturbed, Owned
  <2>. QED  BY <1>t, <2>1, <2>2, <2>3, ThreadKept
<1>a. \A x : StillAmid(x)  BY DEF StillAmid
<1>3. ASSUME NEW x \in Socks  PROVE SlotOK(x)'
  <2>1. CASE x = s
    <3>1. /\ s \notin Members(sockPool) /\ sock[s].gen <= MaxGen
          /\ sock[s].listen = NoListener
      BY <1>u DEF SlotInv, SlotOK
    <3>2. sock[s].term = t  BY DEF Has
    <3>3. SlotOK(s)'
      BY <1>u, <3>1, <3>2, SocketTableAssumption DEF SlotOK
    <3>. QED  BY <2>1, <3>3
  <2>2. CASE x # s
    <3>1. sock'[x] = sock[x] /\ SlotOK(x)  BY <2>2 DEF Elsewhere, SlotInv
    <3>2. sock[x].term \in Terms \cup {NoTerm}  BY <1>t, Fields
    <3>3. sock[x].term # NoTerm /\ term[sock[x].term].started
             => term'[sock[x].term].started
      BY <3>2
    <3>. QED  BY <1>a, <1>h, <3>1, <3>3, SlotKept
  <2>. QED  BY <2>1, <2>2
<1>4. Terminals'
  <2>1. SameHas /\ SamePrepares
    BY DEF SameHas, SamePrepares, Has, Prepares, Amid, Elsewhere
  <2>2. \A y \in Terms : (\A x \in Socks : ~ Has(x, y)) => term'[y] = term[y]
    OBVIOUS
  <2>3. ASSUME NEW x \in Socks, NEW y \in Terms, Has(x, y), TermOf(x, y)
        PROVE  TermOf(x, y)'
    <3>1. CASE x = s /\ y = t  BY <3>1
    <3>2. CASE x # s
      <4>1. y # t  BY <1>t, <2>3, <3>2, HasOne
      <4>2. term'[y] = term[y] /\ sock'[x] = sock[x]
        BY <3>2, <4>1 DEF Elsewhere
      <4>. QED  BY <1>h, <2>3, <4>2 DEF TermOf
    <3>3. CASE x = s /\ y # t  BY <2>3, <3>3 DEF Has
    <3>. QED  BY <3>1, <3>2, <3>3
  <2>. QED  BY <1>t, <2>1, <2>2, <2>3, TerminalsKept
<1>5. ASSUME NEW op \in ops'  PROVE OpOK(op)'
  <2>1. CASE op \in ops /\ op.s # s
    <3>1. OpOK(op) /\ op.s \in Socks /\ op.t \in Terms  BY <2>1, Parts
    <3>2. sock'[op.s] = sock[op.s]  BY <2>1, <3>1 DEF Elsewhere
    <3>3. Early(op) => term'[op.t] = term[op.t]
      BY <2>1, <3>1, OtherTerm
    <3>. QED  BY <1>1, <3>1, <3>2, <3>3 DEF OpOK, Early
  <2>. QED  BY <2>1
<1>6. KnownOK'
  <2>1. \A h \in known : HandleToId(h) \in Socks  BY <1>t, HandleIs DEF Types
  <2>2. \A x \in Socks : sock'[x].gen = sock[x].gen  BY DEF Elsewhere
  <2>. QED  BY <2>1, <2>2 DEF SlotInv, KnownOK
<1>7. Distinct(sockPool)' /\ Distinct(connPool)'  BY DEF SlotInv
<1>. QED
  BY <1>1, <1>2, <1>3, <1>4, <1>5, <1>6, <1>7 DEF SlotInv
(* Steps of a completion handler: the slot of the call it handles.         *)
LEMMA OpFacts ==
  ASSUME SlotInv, NEW op \in ops
  PROVE  /\ op.s \in Socks /\ op.t \in Terms /\ OpOK(op)
         /\ term \in [Terms -> TermRec] /\ sock \in [Socks -> SockRec]
         /\ failed \in Failures \cup {"no"}
         /\ term[op.t].started \in BOOLEAN
         /\ term[op.t].closer \in {"none", "posted", "running"}
         /\ Early(op) =>
              /\ Has(op.s, op.t) /\ TermOf(op.s, op.t)
              /\ sock[op.s].term = op.t /\ term[op.t].closer = "none"
              /\ ~ term[op.t].notify
              /\ sock[op.s].state \in {"Accept1", "Connecting", "ConnAck"}
              /\ \A d \in Callers : Mine(d) => call[d].s # op.s
              /\ \A o \in ops : o # op => ~ (Early(o) /\ o.s = op.s)
              /\ \A o \in ops : o.kind = "connected" => o.s # op.s
PROOF
<1>1. /\ op.s \in Socks /\ op.t \in Terms /\ OpOK(op) /\ Types /\ Terminals
      /\ term[op.t].closer \in {"none", "posted", "running"}
      /\ term[op.t].started \in BOOLEAN
  BY Parts, Fields DEF SlotInv
<1>2. ASSUME Early(op)
      PROVE  /\ Has(op.s, op.t) /\ TermOf(op.s, op.t)
             /\ sock[op.s].term = op.t /\ term[op.t].closer = "none"
             /\ ~ term[op.t].notify
             /\ sock[op.s].state \in {"Accept1", "Connecting", "ConnAck"}
             /\ \A d \in Callers : Mine(d) => call[d].s # op.s
             /\ \A o \in ops : o # op => ~ (Early(o) /\ o.s = op.s)
             /\ \A o \in ops : o.kind = "connected" => o.s # op.s
  <2>1. Has(op.s, op.t) /\ TermOf(op.s, op.t)
    BY <1>1, <1>2, EarlyHas DEF Terminals
  <2>2. /\ sock[op.s].term = op.t /\ term[op.t].closer = "none"
        /\ sock[op.s].state \in {"Accept1", "Connecting", "ConnAck"}
    BY <1>1, <1>2 DEF OpOK, Early
  <2>3. ~ term[op.t].notify  BY <2>1, <2>2 DEF TermOf
  <2>4. \A d \in Callers : Mine(d) => call[d].s # op.s
    BY <1>2, MineNotOp
  <2>5. \A o \in ops : o # op => ~ (Early(o) /\ o.s = op.s)
    BY <1>2 DEF SlotInv, OneOp
  <2>6. \A o \in ops : o.kind = "connected" => o.s # op.s
    BY <2>2, Parts DEF OpOK
  <2>. QED  BY <2>1, <2>2, <2>3, <2>4, <2>5, <2>6
<1>3. /\ term \in [Terms -> TermRec] /\ sock \in [Socks -> SockRec]
      /\ failed \in Failures \cup {"no"}
  BY <1>1 DEF Types
<1>. QED  BY <1>1, <1>2, <1>3

(* The call goes on as the next kind, or is finished.                      *)
LEMMA OpsAre ==
  ASSUME SlotInv, NEW op \in ops, NEW kind \in {"agree", "settle", "connected", "tell"},
         Becomes(op, kind) \/ Finished(op)
  PROVE  /\ ops' \subseteq Op
         /\ \A o \in ops' : \/ o \in ops /\ o # op
                            \/ /\ Becomes(op, kind)
                               /\ o.kind = kind /\ o.s = op.s /\ o.t = op.t
                               /\ o.listener = op.listener
         /\ \A o, p \in ops' : o \notin ops \ {op} /\ p \notin ops \ {op} => o = p
         /\ kind = "agree" => (Early(op) => NoNewOp /\ OneOp')
         /\ (kind # "agree" \/ Finished(op)) => NoNewOp /\ OneOp'
PROOF
<1>t. ops \subseteq Op /\ op \in Op  BY DEF SlotInv, Types
<1>1. CASE Finished(op)
  <2>1. ops' = ops \ {op}  BY <1>1 DEF Finished
  <2>2. NoNewOp /\ OneOp'
    BY <2>1 DEF NoNewOp, SlotInv, OneOp, Early
  <2>. QED  BY <1>t, <2>1, <2>2
<1>2. CASE Becomes(op, kind) /\ ~ Finished(op)
  <2>1. PICK o : o = [op EXCEPT !.kind = kind]  OBVIOUS
  <2>2. ops' = (ops \ {op}) \cup {o}  BY <1>2, <2>1 DEF Becomes
  <2>3. /\ o \in Op /\ o.kind = kind /\ o.s = op.s /\ o.t = op.t
        /\ o.listener = op.listener
    BY <1>t, <2>1 DEF Op
  <2>4. ASSUME kind = "agree" => Early(op)  PROVE NoNewOp /\ OneOp'
    <3>1. Early(o) => Early(op)  BY <2>3, <2>4 DEF Early
    <3>2. NoNewOp  BY <2>2, <2>3, <3>1 DEF NoNewOp
    <3>3. \A p, q \in ops' : Early(p) /\ Early(q) /\ p.s = q.s => p = q
      BY <2>2, <2>3, <3>1 DEF SlotInv, OneOp
    <3>4. OneOp'  BY <3>3 DEF OneOp, Early
    <3>. QED  BY <3>2, <3>4
  <2>. QED  BY <1>2, <1>t, <2>2, <2>3, <2>4
<1>. QED  BY <1>1, <1>2
(* A handler at the slot of an early call.                                 *)
LEMMA EarlyStep ==
  ASSUME SlotInv, failed = "no", NEW op \in ops, Early(op), NEW s, NEW t,
         s = op.s, t = op.t,
         NEW kind \in {"agree", "settle", "connected", "tell"},
         Becomes(op, kind) \/ Finished(op),
         sock' \in [Socks -> SockRec], Elsewhere(s),
         sock'[s].state \in Underway \ {"Stopping"},
         sock'[s].gen = sock[s].gen, sock'[s].term = sock[s].term,
         sock'[s].listen = sock[s].listen,
         term' \in [Terms -> TermRec],
         \A x \in Terms \ {t} : term'[x] = term[x],
         term'[t].handle = term[t].handle, term'[t].func = term[t].func,
         term'[t].started,
         sock'[s].state \in {"Accept1", "ConnAck", "ConnAgreed"},
         term'[t].notify => sock'[s].state = "ConnAgreed",
         term'[t].closer \in {"none", "posted"},
         Becomes(op, kind) /\ kind = "agree" =>
           sock'[s].state \in {"Accept1", "ConnAck"} /\ term'[t].closer = "none",
         kind = "agree" \/ kind = "settle",
         refs' \in [Listeners -> RefRec], failed' \in Failures \cup {"no"},
         UNCHANGED <<sockPool, connPool, call, known, closing>>
  PROVE  SlotInv'
PROOF
<1>a. /\ s \in Socks /\ t \in Terms /\ Has(s, t) /\ TermOf(s, t) /\ Types
      /\ sock[s].term = t /\ term[t].closer = "none"
      /\ sock[s].state \in {"Accept1", "Connecting", "ConnAck"}
      /\ \A d \in Callers : Mine(d) => call[d].s # s
      /\ \A o \in ops : o # op => ~ (Early(o) /\ o.s = s)
      /\ \A o \in ops : o.kind = "connected" => o.s # s
  BY OpFacts DEF SlotInv
<1>b. /\ ops' \subseteq Op
      /\ \A o \in ops' : \/ o \in ops /\ o # op
                         \/ /\ Becomes(op, kind)
                            /\ o.kind = kind /\ o.s = s /\ o.t = t
                            /\ o.listener = op.listener
      /\ NoNewOp /\ OneOp'
  BY OpsAre
<1>1. Types'  BY <1>a, <1>b DEF Types
<1>2. sock[s].state \in Underway  BY <1>a DEF Underway, States
<1>h. HandleOf(s)' = HandleOf(s)  BY DEF HandleOf
<1>3. TermOf(s, t)'
  BY <1>a, <1>h DEF TermOf
<1>4. \A o \in ops' : \/ o \in ops /\ o.s # s
                      \/ o.s = s /\ OpOK(o)'
  <2>1. ASSUME NEW o \in ops', o.s = s  PROVE OpOK(o)'
    <3>1. CASE o \in ops /\ o # op
      <4>1. ~ Early(o) /\ o.kind # "connected"  BY <1>a, <2>1, <3>1
      <4>. QED  BY <4>1 DEF OpOK, Early
    <3>2. CASE /\ Becomes(op, kind)
               /\ o.kind = kind /\ o.s = s /\ o.t = t
      <4>1. kind = "agree" => OpOK(o)'
        BY <1>a, <3>2 DEF OpOK, Early
      <4>2. kind = "settle" => OpOK(o)'
        BY <3>2 DEF OpOK, Early
      <4>. QED  BY <4>1, <4>2
    <3>. QED  BY <1>b, <3>1, <3>2
  <2>2. \A o \in ops' : o \in ops \/ o.s = s  BY <1>b
  <2>. QED  BY <2>1, <2>2
<1>5. NoNewOp /\ OneOp' /\ sock'[s].state \in Underway  BY <1>b
<1>. QED
  BY <1>1, <1>2, <1>3, <1>4, <1>5, <1>a, HandlerStep

LEMMA ConnReqStep ==
  ASSUME SlotInv, failed = "no", NEW op \in ops, ProcessConnReq(op),
         ~ FreeBoth(op.s, op.t) \/ ~ Finished(op)
  PROVE  SlotInv'
PROOF
<1>. PICK s : s = op.s  OBVIOUS
<1>. PICK t : t = op.t  OBVIOUS
<1>1. /\ op.kind = "connReq" /\ refs' = Release(op.listener)
      /\ Require(Finds(op, {"Accept1"}), "Unexpected state found")
      /\ term' = [term EXCEPT ![t].started = TRUE]
      /\ Becomes(op, "agree")
      /\ UNCHANGED <<sock, sockPool, connPool, call, known, closing>>
  BY DEF ProcessConnReq
<1>2. Early(op)  BY <1>1 DEF Early
<1>a. /\ s \in Socks /\ t \in Terms /\ OpOK(op)
      /\ term \in [Terms -> TermRec] /\ sock \in [Socks -> SockRec]
      /\ failed \in Failures \cup {"no"} /\ refs \in [Listeners -> RefRec]
      /\ term[t].closer = "none" /\ ~ term[t].notify
  BY <1>2, OpFacts DEF SlotInv, Types
<1>3. /\ term' \in [Terms -> TermRec] /\ term'[t].started
      /\ term'[t].handle = term[t].handle /\ term'[t].func = term[t].func
      /\ ~ term'[t].notify /\ term'[t].closer = "none"
      /\ \A x \in Terms \ {t} : term'[x] = term[x]
  BY <1>1, <1>a DEF TermRec
<1>4. op.listener \in Listeners /\ sock[s].state = "Accept1"
  BY <1>1, <1>a DEF OpOK
<1>5. refs' \in [Listeners -> RefRec]
  <2>1. PICK l \in Listeners : l = op.listener  BY <1>4
  <2>2. refs[l].count - 1 \in Int  BY <1>a DEF RefRec
  <2>3. refs' = [refs EXCEPT ![l].count = @ - 1]  BY <1>1, <2>1 DEF Release
  <2>. QED  BY <1>a, <2>2, <2>3 DEF RefRec
<1>6. failed' \in Failures \cup {"no"}
  BY <1>1, <1>a, FailedIs DEF Failures, Audits
<1>7. Elsewhere(s) /\ sock' = sock /\ sock'[s].state \in Underway \ {"Stopping"}
  BY <1>1, <1>4 DEF Elsewhere, Underway, States
<1>. QED
  BY <1>1, <1>2, <1>3, <1>4, <1>5, <1>6, <1>7, <1>a, EarlyStep

LEMMA ConnAckStep ==
  ASSUME SlotInv, failed = "no", NEW op \in ops, OnConnAck(op)
  PROVE  SlotInv'
PROOF
<1>. PICK s : s = op.s  OBVIOUS
<1>. PICK t : t = op.t  OBVIOUS
<1>k. op.kind = "connect"  BY DEF OnConnAck
<1>2. Early(op)  BY <1>k DEF Early
<1>a. /\ s \in Socks /\ t \in Terms /\ OpOK(op) /\ Types
      /\ term \in [Terms -> TermRec] /\ sock \in [Socks -> SockRec]
      /\ failed \in Failures \cup {"no"} /\ refs \in [Listeners -> RefRec]
      /\ term[t].closer = "none" /\ ~ term[t].notify
  BY <1>2, OpFacts DEF SlotInv, Types
<1>b. CASE /\ Fail("Connect failed and so did CloseSocket")
           /\ UNCHANGED <<sock, term, ops, sockPool, connPool, refs, call, known,
                          closing>>
  <2>1. failed' \in Failures /\ failed' # "no"  BY <1>b DEF Fail, Failures
  <2>2. Phases' /\ closing' \in BOOLEAN  BY <1>a, <1>b, SameCalls DEF Types
  <2>. QED  BY <1>b, <2>1, <2>2, SameKeeps
<1>c. CASE ~ (/\ Fail("Connect failed and so did CloseSocket")
              /\ UNCHANGED <<sock, term, ops>>)
  <2>1. /\ Require(Finds(op, {"Connecting"}), "Unexpected state found")
        /\ sock' = [sock EXCEPT ![s].state = "ConnAck"]
        /\ term' = [term EXCEPT ![t].started = TRUE]
        /\ Becomes(op, "agree")
        /\ UNCHANGED <<sockPool, connPool, refs, call, known, closing>>
    BY <1>c DEF OnConnAck
  <2>3. /\ term' \in [Terms -> TermRec] /\ term'[t].started
        /\ term'[t].handle = term[t].handle /\ term'[t].func = term[t].func
        /\ ~ term'[t].notify /\ term'[t].closer = "none"
        /\ \A x \in Terms \ {t} : term'[x] = term[x]
    BY <1>a, <2>1 DEF TermRec
  <2>4. "ConnAck" \in States /\ SetState(s, "ConnAck")
    BY <2>1 DEF States, SetState
  <2>5. /\ sock' \in [Socks -> SockRec] /\ Elsewhere(s)
        /\ sock'[s].state = "ConnAck" /\ sock'[s].gen = sock[s].gen
        /\ sock'[s].term = sock[s].term /\ sock'[s].listen = sock[s].listen
    BY <1>a, <2>4, SetStateIs
  <2>6. failed' \in Failures \cup {"no"}
    BY <1>a, <2>1, FailedIs DEF Failures, Audits
  <2>7. sock'[s].state \in Underway \ {"Stopping"} /\ refs' \in [Listeners -> RefRec]
    BY <1>a, <2>1, <2>5 DEF Underway, States
  <2>. QED
    BY <1>2, <1>a, <2>1, <2>3, <2>5, <2>6, <2>7, EarlyStep
<1>. QED  BY <1>b, <1>c DEF OnConnAck

LEMMA ConnAcceptedStep ==
  ASSUME SlotInv, failed = "no", NEW op \in ops, OnConnAccepted(op)
  PROVE  SlotInv'
PROOF
<1>. PICK s : s = op.s  OBVIOUS
<1>. PICK t : t = op.t  OBVIOUS
<1>k. op.kind = "agree"  BY DEF OnConnAccepted
<1>2. Early(op)  BY <1>k DEF Early
<1>a. /\ s \in Socks /\ t \in Terms /\ OpOK(op) /\ Types
      /\ term \in [Terms -> TermRec] /\ sock \in [Socks -> SockRec]
      /\ failed \in Failures \cup {"no"} /\ refs \in [Listeners -> RefRec]
      /\ term[t].closer = "none" /\ ~ term[t].notify
  BY <1>2, OpFacts DEF SlotInv, Types
<1>1. term[t].started /\ sock[s].state \in {"Accept1", "ConnAck"}
  BY <1>a, <1>k DEF OpOK
<1>u. UNCHANGED <<sockPool, connPool, refs, call, known, closing>>
  BY DEF OnConnAccepted
<1>f. failed' \in Failures \cup {"no"}
  BY <1>a, FailedIs DEF OnConnAccepted, Failures, Audits
<1>p. term' = Post(term, t) =>
        /\ term' \in [Terms -> TermRec] /\ term'[t].started
        /\ term'[t].handle = term[t].handle /\ term'[t].func = term[t].func
        /\ ~ term'[t].notify /\ term'[t].closer = "posted"
        /\ \A x \in Terms \ {t} : term'[x] = term[x]
  BY <1>1, <1>a DEF TermRec, Post
<1>s. SetState(s, "ConnAgreed") =>
        /\ sock' \in [Socks -> SockRec] /\ Elsewhere(s)
        /\ sock'[s].state = "ConnAgreed" /\ sock'[s].gen = sock[s].gen
        /\ sock'[s].term = sock[s].term /\ sock'[s].listen = sock[s].listen
  <2>1. "ConnAgreed" \in States  BY DEF States
  <2>. QED  BY <1>a, <2>1, SetStateIs
<1>w. {"Accept1", "ConnAck", "ConnAgreed"} \subseteq Underway \ {"Stopping"}
  BY DEF Underway, States
<1>3. CASE term' = Post(term, t) /\ Finished(op) /\ UNCHANGED sock
  <2>1. Elsewhere(s) /\ sock' = sock  BY <1>3 DEF Elsewhere
  <2>. QED
    BY <1>1, <1>2, <1>3, <1>a, <1>f, <1>p, <1>u, <1>w, <2>1, EarlyStep
<1>4. CASE SetState(s, "ConnAgreed") /\ term' = Post(term, t) /\ Finished(op)
  BY <1>2, <1>4, <1>a, <1>f, <1>p, <1>s, <1>u, <1>w, EarlyStep
<1>5. CASE SetState(s, "ConnAgreed") /\ term' = [term EXCEPT ![t].notify = TRUE]
           /\ Becomes(op, "settle")
  <2>1. /\ term' \in [Terms -> TermRec] /\ term'[t].started
        /\ term'[t].handle = term[t].handle /\ term'[t].func = term[t].func
        /\ term'[t].closer = "none"
        /\ \A x \in Terms \ {t} : term'[x] = term[x]
    BY <1>1, <1>5, <1>a DEF TermRec
  <2>. QED
    BY <1>2, <1>5, <1>a, <1>f, <1>s, <1>u, <1>w, <2>1, EarlyStep
<1>. QED  BY <1>3, <1>4, <1>5 DEF OnConnAccepted, SetState
(* A step that ends it all and changes nothing else.                       *)
LEMMA FailStep ==
  ASSUME SlotInv, NEW what \in Failures, Fail(what),
         UNCHANGED <<sock, sockPool, term, connPool, refs, ops, call, known, closing>>
  PROVE  SlotInv'
PROOF
<1>1. failed' \in Failures /\ failed' # "no"  BY DEF Fail, Failures, Audits
<1>2. Phases' /\ closing' \in BOOLEAN  BY SameCalls DEF SlotInv, Types
<1>. QED  BY <1>1, <1>2, SameKeeps

LEMMA SettleStep ==
  ASSUME SlotInv, failed = "no", NEW op \in ops, Settle(op)
  PROVE  SlotInv'
PROOF
<1>. PICK s : s = op.s  OBVIOUS
<1>1. CASE Becomes(op, "connected") /\ sock[s].state = "ConnAgreed"
           /\ UNCHANGED <<sock, sockPool, term, connPool, refs, call, known,
                          closing, failed>>
  <2>1. s \in Socks /\ Types /\ Terminals  BY OpFacts DEF SlotInv
  <2>2. PICK t \in Terms : t = sock[s].term /\ term[t].started /\ Has(s, t)
    BY <1>1, <2>1, ConnHas
  <2>3. /\ ops' \subseteq Op
        /\ \A o \in ops' : \/ o \in ops /\ o # op
                           \/ o.kind = "connected" /\ o.s = s
        /\ NoNewOp /\ OneOp'
    BY <1>1, OpsAre
  <2>4. Types'  BY <1>1, <2>1, <2>3 DEF Types
  <2>5. \A d \in Callers : Mine(d) => call[d].s # s
    BY <2>1, <2>2, StartedFree
  <2>6. sock[s].state \in Underway  BY <1>1 DEF Underway, States
  <2>7. sock' = sock /\ term' = term /\ connPool' = connPool  BY <1>1
  <2>8. TermOf(s, t)'
    <3>1. TermOf(s, t)  BY <2>1, <2>2 DEF Terminals
    <3>. QED  BY <2>7, <3>1 DEF TermOf, HandleOf
  <2>9. \A o \in ops' : \/ o \in ops /\ o.s # s
                        \/ o.s = s /\ OpOK(o)'
    <3>1. ASSUME NEW o \in ops', o.s = s  PROVE OpOK(o)'
      <4>1. o.kind = "connected" => OpOK(o)'
        BY <1>1, <2>7, <3>1 DEF OpOK, Early
      <4>2. o \in ops => ~ Early(o)
        BY <1>1, <3>1, OpFacts
      <4>3. o \in ops /\ o.kind # "connected" => OpOK(o)'
        BY <4>2 DEF OpOK, Early
      <4>. QED  BY <2>3, <4>1, <4>3
    <3>2. \A o \in ops' : o \in ops \/ o.s = s  BY <2>3
    <3>. QED  BY <3>1, <3>2
  <2>10. Elsewhere(s)  BY <1>1 DEF Elsewhere
  <2>. QED
    BY <1>1, <2>1, <2>2, <2>3, <2>4, <2>5, <2>6, <2>7, <2>8, <2>9, <2>10,
       HandlerStep
<1>2. CASE Fail("Race condition in OnConnAccepted")
           /\ UNCHANGED <<sock, sockPool, term, connPool, refs, ops, call, known,
                          closing>>
  <2>1. "Race condition in OnConnAccepted" \in Failures  BY DEF Failures
  <2>. QED  BY <1>2, <2>1, FailStep
<1>. QED  BY <1>1, <1>2 DEF Settle

LEMMA ConnectedStep ==
  ASSUME SlotInv, failed = "no", NEW op \in ops, Connected(op)
  PROVE  SlotInv'
PROOF
<1>. PICK s : s = op.s  OBVIOUS
<1>1. /\ op.kind = "connected" /\ SetState(s, "Connected") /\ Becomes(op, "tell")
      /\ UNCHANGED <<sockPool, term, connPool, refs, call, known, closing, failed>>
  BY DEF Connected
<1>2. /\ s \in Socks /\ Types /\ Terminals
      /\ sock[s].state \in {"ConnAgreed", "Connected"}
  BY <1>1, OpFacts DEF SlotInv, OpOK
<1>3. PICK t \in Terms : t = sock[s].term /\ term[t].started /\ Has(s, t)
  BY <1>2, ConnHas
<1>4. /\ ops' \subseteq Op
      /\ \A o \in ops' : \/ o \in ops /\ o # op
                         \/ o.kind = "tell" /\ o.s = s
      /\ NoNewOp /\ OneOp'
  BY <1>1, OpsAre
<1>5. /\ sock' \in [Socks -> SockRec] /\ Elsewhere(s)
      /\ sock'[s].state = "Connected" /\ sock'[s].gen = sock[s].gen
      /\ sock'[s].term = sock[s].term /\ sock'[s].listen = sock[s].listen
  <2>1. "Connected" \in States  BY DEF States
  <2>. QED  BY <1>1, <1>2, <2>1, SetStateIs
<1>6. Types'  BY <1>1, <1>2, <1>4, <1>5 DEF Types
<1>7. \A d \in Callers : Mine(d) => call[d].s # s
  BY <1>2, <1>3, StartedFree
<1>8. sock[s].state \in Underway /\ sock'[s].state \in Underway
  BY <1>2, <1>5 DEF Underway, States
<1>9. TermOf(s, t)'
  <2>1. TermOf(s, t)  BY <1>2, <1>3 DEF Terminals
  <2>2. /\ term' = term /\ connPool' = connPool /\ HandleOf(s)' = HandleOf(s)
    BY <1>1, <1>5 DEF HandleOf
  <2>. QED  BY <1>2, <1>5, <2>1, <2>2 DEF TermOf
<1>10. \A o \in ops' : \/ o \in ops /\ o.s # s
                       \/ o.s = s /\ OpOK(o)'
  <2>1. ASSUME NEW o \in ops', o.s = s  PROVE OpOK(o)'
    <3>1. o \in ops => ~ Early(o)
      BY <1>2, <2>1, OpFacts
    <3>2. ~ Early(o)  BY <1>4, <3>1 DEF Early
    <3>. QED  BY <1>5, <2>1, <3>2 DEF OpOK, Early
  <2>2. \A o \in ops' : o \in ops \/ o.s = s  BY <1>4
  <2>. QED  BY <2>1, <2>2
<1>11. term' = term  BY <1>1
<1>. QED
  BY <1>1, <1>2, <1>3, <1>4, <1>5, <1>6, <1>7, <1>8, <1>9, <1>10, <1>11,
     HandlerStep

(* What happens to a terminal in use, whoever does it.                     *)
LEMMA UsedTerm ==
  ASSUME SlotInv, NEW t \in Terms,
         term[t].notify \/ term[t].closer # "none" \/ term[t].started
  PROVE  \E s \in Socks :
           /\ Has(s, t) /\ TermOf(s, t) /\ HandleToId(term[t].handle) = s
           /\ term[t].started /\ sock[s].term = t
           /\ sock[s].state \in {"Accept1", "ConnAck", "ConnAgreed", "Connected",
                                 "Stopping"}
           /\ \A d \in Callers : Mine(d) => call[d].s # s
PROOF
<1>1. term[t] # VoidTerm  BY DEF VoidTerm
<1>2. PICK s \in Socks : Has(s, t) /\ TermOf(s, t)  BY <1>1, HadTerm
<1>3. /\ term[t].started /\ HandleToId(term[t].handle) = s
      /\ sock[s].state \in {"Accept1", "ConnAck", "ConnAgreed", "Connected",
                            "Stopping"}
  BY <1>2, HandleIs DEF TermOf
<1>4. \A d \in Callers : Mine(d) => call[d].s # s
  BY <1>2, <1>3, StartedFree
<1>. QED  BY <1>2, <1>3, <1>4 DEF Has

LEMMA PeerStep ==
  ASSUME SlotInv, failed = "no", NEW t \in Terms, PeerDisconnect(t)
  PROVE  SlotInv'
PROOF
<1>1. /\ term[t].notify /\ term' = [Post(term, t) EXCEPT ![t].notify = FALSE]
      /\ UNCHANGED <<sock, sockPool, connPool, refs, ops, call, known, closing,
                     failed>>
  BY DEF PeerDisconnect
<1>2. PICK s \in Socks :
        /\ Has(s, t) /\ TermOf(s, t) /\ HandleToId(term[t].handle) = s
        /\ term[t].started /\ sock[s].term = t
        /\ \A d \in Callers : Mine(d) => call[d].s # s
  BY <1>1, UsedTerm
<1>3. /\ sock[s].state \in {"ConnAgreed", "Connected", "Stopping"}
      /\ Types /\ term \in [Terms -> TermRec]
      /\ term[t].closer \in {"none", "posted", "running"}
  BY <1>1, <1>2, Fields DEF TermOf, SlotInv, Types
<1>4. /\ term' \in [Terms -> TermRec]
      /\ term'[t].handle = term[t].handle /\ term'[t].func = term[t].func
      /\ term'[t].started /\ ~ term'[t].notify
      /\ term'[t].closer = IF term[t].closer = "none" THEN "posted"
                                                      ELSE term[t].closer
      /\ \A x \in Terms \ {t} : term'[x] = term[x]
  <2>1. PICK m : m = Post(term, t)  OBVIOUS
  <2>2. /\ m \in [Terms -> TermRec] /\ m[t].started
        /\ m[t].handle = term[t].handle /\ m[t].func = term[t].func
        /\ m[t].closer = IF term[t].closer = "none" THEN "posted"
                                                    ELSE term[t].closer
        /\ \A x \in Terms \ {t} : m[x] = term[x]
    BY <1>2, <1>3, <2>1 DEF Post, TermRec
  <2>3. term' = [m EXCEPT ![t].notify = FALSE]  BY <1>1, <2>1
  <2>. QED  BY <2>2, <2>3 DEF TermRec
<1>5. Types'  BY <1>1, <1>3, <1>4 DEF Types
<1>e. sock' = sock /\ connPool' = connPool /\ HandleOf(s)' = HandleOf(s)
      /\ ops' = ops
  BY <1>1 DEF HandleOf
<1>6. TermOf(s, t)'
  BY <1>2, <1>3, <1>4, <1>e DEF TermOf
<1>7. NoNewOp /\ OneOp' /\ Elsewhere(s)
  BY <1>e DEF NoNewOp, SlotInv, OneOp, Early, Elsewhere
<1>8. sock[s].state \in Underway  BY <1>3 DEF Underway, States
<1>9. \A o \in ops' : \/ o \in ops /\ o.s # s
                      \/ o.s = s /\ OpOK(o)'
  <2>1. ASSUME NEW o \in ops, o.s = s  PROVE OpOK(o)'
    <3>1. OpOK(o) /\ ~ Early(o)
      <4>1. OpOK(o)  BY Parts
      <4>2. Early(o) => o.t = t /\ ~ term[o.t].notify
        BY <1>2, <2>1, OpFacts
      <4>. QED  BY <1>1, <4>1, <4>2
    <3>. QED  BY <1>e, <3>1 DEF OpOK, Early
  <2>. QED  BY <1>e, <2>1
<1>. QED
  BY <1>1, <1>2, <1>4, <1>5, <1>6, <1>7, <1>8, <1>9, <1>e, HandlerStep

LEMMA CloserBeginStep ==
  ASSUME SlotInv, ~ Torn, failed = "no", NEW t \in Terms, CloserBegin(t)
  PROVE  SlotInv'
PROOF
<1>p. term[t].closer = "posted"  BY DEF CloserBegin
<1>2. PICK s \in Socks :
        /\ Has(s, t) /\ TermOf(s, t) /\ HandleToId(term[t].handle) = s
        /\ term[t].started /\ sock[s].term = t
        /\ sock[s].state \in {"Accept1", "ConnAck", "ConnAgreed", "Connected",
                              "Stopping"}
        /\ \A d \in Callers : Mine(d) => call[d].s # s
  BY <1>p, UsedTerm
<1>1. /\ SetState(s, "Stopping")
      /\ term' = [term EXCEPT ![t].closer = "running"]
      /\ \A op \in ops : ~ (op.kind = "connected" /\ op.s = s)
      /\ UNCHANGED <<sockPool, connPool, refs, ops, call, known, closing, failed>>
  BY <1>2 DEF CloserBegin
<1>3. Types /\ term \in [Terms -> TermRec]  BY DEF SlotInv, Types
<1>4. /\ term' \in [Terms -> TermRec]
      /\ term'[t].handle = term[t].handle /\ term'[t].func = term[t].func
      /\ term'[t].started /\ term'[t].closer = "running"
      /\ \A x \in Terms \ {t} : term'[x] = term[x]
  BY <1>1, <1>2, <1>3 DEF TermRec
<1>5. /\ sock' \in [Socks -> SockRec] /\ Elsewhere(s)
      /\ sock'[s].state = "Stopping" /\ sock'[s].gen = sock[s].gen
      /\ sock'[s].term = sock[s].term /\ sock'[s].listen = sock[s].listen
  <2>1. "Stopping" \in States  BY DEF States
  <2>. QED  BY <1>1, <1>3, <2>1, SetStateIs
<1>6. Types'  BY <1>1, <1>3, <1>4, <1>5 DEF Types
<1>7. TermOf(s, t)'
  <2>1. connPool' = connPool /\ HandleOf(s)' = HandleOf(s)
    BY <1>1, <1>5 DEF HandleOf
  <2>. QED  BY <1>2, <1>4, <1>5, <2>1 DEF TermOf
<1>8. ops' = ops /\ NoNewOp /\ OneOp'
  BY <1>1 DEF NoNewOp, SlotInv, OneOp, Early
<1>9. sock[s].state \in Underway /\ sock'[s].state \in Underway
  BY <1>2, <1>5 DEF Underway, States
<1>10. \A o \in ops' : \/ o \in ops /\ o.s # s
                       \/ o.s = s /\ OpOK(o)'
  <2>1. ASSUME NEW o \in ops, o.s = s  PROVE OpOK(o)'
    <3>1. ~ Early(o)  BY <1>2, <1>p, <2>1, OpFacts
    <3>2. o.kind # "connected"  BY <1>1, <2>1
    <3>. QED  BY <3>1, <3>2 DEF OpOK, Early
  <2>. QED  BY <1>8, <2>1
<1>. QED
  BY <1>1, <1>2, <1>4, <1>5, <1>6, <1>7, <1>8, <1>9, <1>10, HandlerStep
-----------------------------------------------------------------------------
(* The end of a connection                                                 *)

LEMMA PostCloseStep ==
  ASSUME SlotInv, failed = "no", NEW c \in Callers, PostClose(c)
  PROVE  SlotInv'
PROOF
<1>t. /\ Types /\ Terminals /\ call[c].pc = "post" /\ HandsOff(c)
      /\ UNCHANGED <<sock, sockPool, connPool, refs, ops, known, closing>>
      /\ \A d \in Callers : ThreadOK(d) /\ Owned(d) /\ Place(d)
      /\ term \in [Terms -> TermRec]
  BY Parts DEF SlotInv, PostClose, Types
<1>x. PICK t \in Terms : t = call[c].t  BY <1>t DEF HandsOff
<1>1. CASE ~ term[t].started
  <2>1. Fail("Post to a terminal that has no TerminalCloser")
        /\ UNCHANGED <<term, call>>
    BY <1>1, <1>x DEF PostClose
  <2>2. "Post to a terminal that has no TerminalCloser" \in Failures
    BY DEF Failures
  <2>. QED  BY <1>t, <2>1, <2>2, FailStep
<1>2. CASE term[t].started
  <2>1. term' = Post(term, t) /\ Return(c) /\ UNCHANGED failed
    BY <1>2, <1>x DEF PostClose
  <2>2. PICK s \in Socks : Has(s, t) /\ TermOf(s, t) /\ sock[s].term = t
    BY <1>2, UsedTerm
  <2>3. /\ term' \in [Terms -> TermRec]
        /\ term'[t].handle = term[t].handle /\ term'[t].func = term[t].func
        /\ term'[t].notify = term[t].notify /\ term'[t].started = term[t].started
        /\ term'[t].closer = IF term[t].closer = "none" THEN "posted"
                                                        ELSE term[t].closer
        /\ \A x \in Terms \ {t} : term'[x] = term[x]
    BY <1>t, <2>1 DEF TermRec, Post
  <2>4. /\ call' \in [Callers -> CallRec] /\ Others(c)
        /\ call'[c].op = "none" /\ call'[c].pc = "idle"
    BY <1>t, <2>1, ReturnIs
  <2>5. ThreadOK(c)' /\ ~ Mine(c)'  BY <2>4, IdleOK
  <2>6. Types'  BY <1>t, <2>1, <2>3, <2>4 DEF Types
  <2>7. NoNewSlot(c)  BY <2>4, <2>5 DEF NoNewSlot
  <2>8. /\ Phases' /\ Apart'
        /\ \A d \in Callers : Mine(d)' => Mine(d) /\ call'[d].s = call[d].s
    BY <1>t, <2>4, <2>7, CallsKept
  <2>s. \A y \in Terms : term'[y].started = term[y].started  BY <2>3
  <2>9. ASSUME NEW d \in Callers \ {c}  PROVE ThreadOK(d)'
    <3>1. Undisturbed(d)
      <4>1. NoNewOp  BY <1>t DEF NoNewOp
      <4>2. ASSUME Mine(d), call[d].pc # "clearTerm",
                   sock[call[d].s].term # NoTerm
            PROVE  ~ term'[sock[call[d].s].term].started
        <5>1. /\ sock[call[d].s].term \in Terms
              /\ ~ term[sock[call[d].s].term].started
          BY <1>t, <4>2, Own, Fields DEF StageTerm
        <5>. QED  BY <2>s, <5>1
      <4>. QED  BY <1>t, <4>1, <4>2 DEF Undisturbed, Owned
    <3>2. PICK x : x \notin Socks \cup {NoHandle, HandleToId(call[d].h)}
      BY NoSetContainsEverything
    <3>3. Spared(d, x) /\ Elsewhere(x) /\ call[d].s # x
      BY <1>t, <3>2, Fields DEF Spared, Elsewhere
    <3>. QED  BY <1>t, <2>4, <3>1, <3>3, ThreadKept DEF Others
  <2>e. sock' = sock /\ connPool' = connPool /\ sockPool' = sockPool
        /\ ops' = ops /\ known' = known /\ \A x : HandleOf(x)' = HandleOf(x)
    BY <1>t DEF HandleOf
  <2>10. ASSUME NEW x \in Socks  PROVE SlotOK(x)'
    <3>1. StillAmid(x)
      BY <1>t, <2>4 DEF StillAmid, Others, Between, Starting
    <3>2. sock[x].term \in Terms \cup {NoTerm}  BY <1>t, Fields
    <3>. QED  BY <2>e, <2>s, <3>1, <3>2, SlotKept DEF SlotInv
  <2>11. Terminals'
    <3>1. SameHas /\ SamePrepares
      BY <1>t, <2>4, <2>e DEF SameHas, SamePrepares, Has, Prepares, Amid, Others
    <3>2. \A y \in Terms : (\A x \in Socks : ~ Has(x, y)) => term'[y] = term[y]
      BY <2>2, <2>3
    <3>3. ASSUME NEW x \in Socks, NEW y \in Terms, Has(x, y), TermOf(x, y)
          PROVE  TermOf(x, y)'
      <4>1. CASE y = t
        <5>1. /\ term[t].closer \in {"none", "posted", "running"}
              /\ term'[t].closer # "none" /\ term'[t].started
          BY <1>2, <1>t, <2>3, Fields
        <5>2. term'[t].closer = "running" <=> term[t].closer = "running"
          BY <2>3
        <5>3. term'[t].notify <=> term[t].notify  BY <2>3
        <5>4. term'[t].func  BY <2>3, <3>3, <4>1 DEF TermOf
        <5>. QED
          BY <1>2, <2>3, <2>e, <3>3, <4>1, <5>1, <5>2, <5>3, <5>4 DEF TermOf
      <4>2. CASE y # t  BY <2>3, <2>e, <3>3, <4>2 DEF TermOf
      <4>. QED  BY <4>1, <4>2
    <3>. QED  BY <1>t, <2>e, <3>1, <3>2, <3>3, TerminalsKept
  <2>12. ASSUME NEW op \in ops  PROVE OpOK(op)'
    <3>1. OpOK(op) /\ op.t \in Terms  BY Parts
    <3>2. Early(op) => op.t # t  BY <1>t, <1>x DEF HandsOff
    <3>3. Early(op) => term'[op.t] = term[op.t]  BY <2>3, <3>1, <3>2
    <3>. QED  BY <2>8, <2>e, <3>1, <3>3 DEF OpOK, Early
  <2>13. KnownOK' /\ OneOp' /\ Distinct(sockPool') /\ Distinct(connPool')
    BY <2>e DEF KnownOK, OneOp, Early, SlotInv
  <2>. QED
    BY <2>5, <2>6, <2>8, <2>9, <2>10, <2>11, <2>12, <2>13, <2>e DEF SlotInv
<1>. QED  BY <1>1, <1>2

(* FreeTerminal and FreeSocket together.                                   *)
LEMMA FreeBothStep ==
  ASSUME SlotInv, failed = "no", NEW s \in Socks, NEW t \in Terms,
         Has(s, t), FreeBoth(s, t),
         \A d \in Callers : Mine(d) => call[d].s # s,
         sock[s].state \in Underway,
         UNCHANGED <<call, known, closing>>,
         refs' \in [Listeners -> RefRec], failed' \in Failures \cup {"no"},
         ops' \subseteq ops,
         \A op \in ops' : op.s = s => ~ Early(op) /\ op.kind # "connected"
  PROVE  SlotInv'
PROOF
<1>t. /\ Types /\ Terminals
      /\ \A d \in Callers : ThreadOK(d) /\ Owned(d) /\ Given(d)
      /\ sockPool \in Seq(Socks) /\ connPool \in Seq(Terms)
      /\ Distinct(sockPool) /\ Distinct(connPool)
      /\ sock[s].gen \in Nat /\ sock[s].term = t /\ t # NoTerm
  BY Parts, Fields, SocketTableAssumption DEF SlotInv, Types, Has
<1>u. sock[s].state \notin {"Disconnected", "StartToListen", "Listening", "Inpool"}
  BY DEF Underway
<1>o. /\ s \notin Members(sockPool) /\ sock[s].gen <= MaxGen
      /\ sock[s].listen = NoListener /\ t \notin Members(connPool)
  BY <1>t, <1>u DEF SlotInv, SlotOK, Terminals, TermOf
<1>1. /\ term' = [term EXCEPT ![t] = VoidTerm]
      /\ connPool' = Append(connPool, t)
      /\ sock' = FreeSocket([sock EXCEPT ![s].term = NoTerm], s)
      /\ sockPool' = Append(sockPool, s)
  BY DEF FreeBoth
<1>2. /\ sock' \in [Socks -> SockRec] /\ Elsewhere(s)
      /\ sock'[s].state = "Inpool" /\ sock'[s].gen = sock[s].gen + 1
      /\ sock'[s].listen = NoListener /\ sock'[s].term = NoTerm
  BY <1>1, <1>o, <1>t, FreeConnIs
<1>3. /\ term' \in [Terms -> TermRec] /\ term'[t] = VoidTerm
      /\ \A x \in Terms \ {t} : term'[x] = term[x]
  BY <1>1, <1>t, VoidTermIs
<1>v. ~ VoidTerm.started  BY DEF VoidTerm
<1>4. /\ sockPool' \in Seq(Socks)
      /\ Members(sockPool') = Members(sockPool) \cup {s} /\ Distinct(sockPool')
  <2>1. /\ Append(sockPool, s) \in Seq(Socks)
        /\ Members(Append(sockPool, s)) = Members(sockPool) \cup {s}
        /\ Distinct(Append(sockPool, s))
    BY <1>o, <1>t, PoolAppend
  <2>. QED  BY <1>1, <2>1
<1>5. /\ connPool' \in Seq(Terms)
      /\ Members(connPool') = Members(connPool) \cup {t} /\ Distinct(connPool')
  <2>1. /\ Append(connPool, t) \in Seq(Terms)
        /\ Members(Append(connPool, t)) = Members(connPool) \cup {t}
        /\ Distinct(Append(connPool, t))
    BY <1>o, <1>t, PoolAppend
  <2>. QED  BY <1>1, <2>1
<1>6. Types'
  BY <1>2, <1>3, <1>4, <1>5, <1>t DEF Types
<1>7. /\ Phases' /\ Apart'
      /\ \A d \in Callers : Mine(d)' <=> Mine(d)
  BY SameCalls
<1>h. \A x \in Socks \ {s} : HandleOf(x)' = HandleOf(x)
  BY <1>2 DEF HandleOf, Elsewhere
<1>8. ASSUME NEW d \in Callers  PROVE ThreadOK(d)'
  <2>1. Spared(d, s)  BY <1>t, <1>u DEF Spared, Given
  <2>2. Ongoing(s)  BY <1>2 DEF Ongoing
  <2>3. Undisturbed(d)
    <3>1. NoNewOp  BY DEF NoNewOp
    <3>2. Mine(d) => call[d].s \notin Members(sockPool')
      BY <1>4, <1>t DEF Owned
    <3>3. ASSUME Mine(d), call[d].pc # "clearTerm", sock[call[d].s].term # NoTerm
          PROVE  ~ term'[sock[call[d].s].term].started
      <4>1. /\ sock[call[d].s].term \in Terms
            /\ ~ term[sock[call[d].s].term].started
        BY <1>t, <3>3, Own, Fields DEF StageTerm
      <4>. QED  BY <1>3, <1>v, <4>1
    <3>. QED  BY <1>t, <3>1, <3>2, <3>3 DEF Undisturbed, Owned
  <2>. QED  BY <1>2, <1>t, <2>1, <2>2, <2>3, ThreadKept
<1>9. ASSUME NEW x \in Socks  PROVE SlotOK(x)'
  <2>1. CASE x = s
    <3>1. HandleOf(s)' \notin known
      <4>1. \A h \in known : HandleToId(h) = s => h[2] <= sock[s].gen
        BY DEF SlotInv, KnownOK
      <4>2. HandleOf(s)' = <<s, sock[s].gen + 1>>  BY <1>2 DEF HandleOf
      <4>3. HandleToId(HandleOf(s)') = s /\ HandleOf(s)'[2] = sock[s].gen + 1
        BY <4>2 DEF HandleToId
      <4>. QED  BY <1>t, <4>1, <4>3
    <3>2. s \in Members(sockPool') /\ known' = known  BY <1>4
    <3>3. SlotOK(s)'  BY <1>2, <3>1, <3>2, SocketTableAssumption DEF SlotOK
    <3>. QED  BY <2>1, <3>3
  <2>2. CASE x # s
    <3>1. sock'[x] = sock[x] /\ SlotOK(x) /\ StillAmid(x)
      BY <1>2, <2>2 DEF Elsewhere, SlotInv, StillAmid
    <3>2. x \in Members(sockPool') <=> x \in Members(sockPool)
      BY <1>4, <2>2
    <3>3. ASSUME sock[x].state \in {"ConnAck", "ConnAgreed", "Connected"}
          PROVE  term'[sock[x].term] = term[sock[x].term]
      <4>1. sock[x].term \in Terms /\ Has(x, sock[x].term)
        BY <3>3, ConnHas
      <4>2. sock[x].term # t  BY <1>t, <2>2, <4>1, HasOne
      <4>. QED  BY <1>3, <4>1, <4>2
    <3>. QED  BY <1>h, <2>2, <3>1, <3>2, <3>3, SlotKept
  <2>. QED  BY <2>1, <2>2
<1>10. Terminals'
  <2>1. \A y \in Terms : ~ Has(s, y)'
    BY <1>2, SocketTableAssumption DEF Has
  <2>2. \A x \in Socks \ {s}, y \in Terms : Has(x, y)' <=> Has(x, y)
    BY <1>2 DEF Has, Amid, Elsewhere
  <2>3. \A x \in Socks \ {s} : ~ Has(x, t)  BY <1>t, HasOne
  <2>4. \A y \in Terms : Has(s, y) => y = t  BY <1>t DEF Has
  <2>5. \A x \in Socks \ {s}, y \in Terms \ {t} : TermOf(x, y) => TermOf(x, y)'
    BY <1>2, <1>3, <1>5, <1>h DEF TermOf, Elsewhere
  <2>6. \A x \in Socks, y \in Terms : Has(x, y)' => TermOf(x, y)'
    BY <1>t, <2>1, <2>2, <2>3, <2>5 DEF Terminals
  <2>7. \A d \in Callers, y \in Terms : Prepares(d, y)' <=> Prepares(d, y)
    BY DEF Prepares
  <2>8. \A d \in Callers : ~ Prepares(d, t)  BY <1>t DEF Terminals
  <2>9. ASSUME NEW d \in Callers, NEW y \in Terms, Prepares(d, y)'
        PROVE  /\ term'[y] = VoidTerm
               /\ y \notin Members(connPool')
               /\ \A e \in Callers : Prepares(e, y)' => d = e
               /\ \A x \in Socks : ~ Has(x, y)'
    <3>1. Prepares(d, y) /\ y # t  BY <2>7, <2>8, <2>9
    <3>2. \A x \in Socks : ~ Has(x, y)  BY <1>t, <3>1 DEF Terminals
    <3>3. \A x \in Socks : ~ Has(x, y)'  BY <2>1, <2>2, <3>2
    <3>. QED  BY <1>3, <1>5, <1>t, <2>7, <3>1, <3>3 DEF Terminals
  <2>10. \A y \in Terms : y \in Members(connPool') => term'[y] = VoidTerm
    BY <1>3, <1>5, <1>t DEF Terminals
  <2>11. \A y \in Terms : y \notin Members(connPool') =>
          (\E x \in Socks : Has(x, y)') \/ (\E d \in Callers : Prepares(d, y)')
    BY <1>5, <1>t, <2>2, <2>4, <2>7 DEF Terminals
  <2>. QED  BY <2>6, <2>9, <2>10, <2>11 DEF Terminals
<1>11. ASSUME NEW op \in ops'  PROVE OpOK(op)'
  <2>1. CASE op.s = s
    <3>1. ~ Early(op) /\ op.kind # "connected"  BY <2>1
    <3>. QED  BY <3>1 DEF OpOK, Early
  <2>2. CASE op.s # s
    <3>1. op \in ops /\ OpOK(op) /\ op.s \in Socks /\ op.t \in Terms
      BY Parts
    <3>2. sock'[op.s] = sock[op.s]  BY <1>2, <2>2, <3>1 DEF Elsewhere
    <3>3. Early(op) => term'[op.t] = term[op.t]
      BY <1>3, <2>2, <3>1, OtherTerm
    <3>. QED  BY <1>7, <3>1, <3>2, <3>3 DEF OpOK, Early
  <2>. QED  BY <2>1, <2>2
<1>12. OneOp'  BY DEF SlotInv, OneOp, Early
<1>13. KnownOK'
  <2>1. ASSUME NEW h \in known  PROVE h[2] <= sock'[HandleToId(h)].gen
    <3>1. h \in Handles  BY <1>t DEF Types
    <3>2. HandleToId(h) \in Socks /\ h[2] \in Nat
      BY <3>1, HandleIs, SocketTableAssumption DEF Handles, Gens
    <3>3. h[2] <= sock[HandleToId(h)].gen  BY DEF KnownOK, SlotInv
    <3>4. CASE HandleToId(h) = s  BY <1>2, <1>t, <3>2, <3>3, <3>4
    <3>5. CASE HandleToId(h) # s  BY <1>2, <3>2, <3>3, <3>5 DEF Elsewhere
    <3>. QED  BY <3>4, <3>5
  <2>. QED  BY <2>1 DEF KnownOK
<1>. QED
  BY <1>4, <1>5, <1>6, <1>7, <1>8, <1>9, <1>10, <1>11, <1>12, <1>13 DEF SlotInv
LEMMA ConnReqFails ==
  ASSUME SlotInv, failed = "no", NEW op \in ops, ProcessConnReq(op),
         FreeBoth(op.s, op.t), Finished(op)
  PROVE  SlotInv'
PROOF
<1>. PICK s : s = op.s  OBVIOUS
<1>. PICK t : t = op.t  OBVIOUS
<1>1. /\ op.kind = "connReq" /\ refs' = Release(op.listener)
      /\ UNCHANGED <<call, known, closing>> /\ ops' = ops \ {op}
  BY DEF ProcessConnReq, Finished
<1>2. Early(op)  BY <1>1 DEF Early
<1>a. /\ s \in Socks /\ t \in Terms /\ OpOK(op) /\ Has(s, t)
      /\ failed \in Failures \cup {"no"} /\ refs \in [Listeners -> RefRec]
      /\ \A d \in Callers : Mine(d) => call[d].s # s
      /\ \A o \in ops : o # op => ~ (Early(o) /\ o.s = s)
      /\ \A o \in ops : o.kind = "connected" => o.s # s
  BY <1>2, OpFacts DEF SlotInv, Types
<1>4. op.listener \in Listeners /\ sock[s].state = "Accept1"
  BY <1>1, <1>a DEF OpOK
<1>5. refs' \in [Listeners -> RefRec]
  <2>1. PICK l \in Listeners : l = op.listener  BY <1>4
  <2>2. refs[l].count - 1 \in Int  BY <1>a DEF RefRec
  <2>3. refs' = [refs EXCEPT ![l].count = @ - 1]  BY <1>1, <2>1 DEF Release
  <2>. QED  BY <1>a, <2>2, <2>3 DEF RefRec
<1>6. failed' \in Failures \cup {"no"}
  <2>1. failed' \in {failed, "Double free of socket", "Unexpected state found"}
    BY DEF ProcessConnReq, Require
  <2>. QED  BY <1>a, <2>1 DEF Failures, Audits
<1>7. sock[s].state \in Underway  BY <1>4 DEF Underway, States
<1>8. /\ ops' \subseteq ops
      /\ \A o \in ops' : o.s = s => ~ Early(o) /\ o.kind # "connected"
  BY <1>1, <1>a
<1>9. FreeBoth(s, t)  OBVIOUS
<1>. QED
  BY <1>1, <1>5, <1>6, <1>7, <1>8, <1>9, <1>a, FreeBothStep

LEMMA CloserEndStep ==
  ASSUME SlotInv, failed = "no", NEW t \in Terms, CloserEnd(t)
  PROVE  SlotInv'
PROOF
<1>p. term[t].closer = "running"  BY DEF CloserEnd
<1>1. PICK s \in Socks :
        /\ Has(s, t) /\ TermOf(s, t) /\ HandleToId(term[t].handle) = s
        /\ term[t].started /\ sock[s].term = t
        /\ \A d \in Callers : Mine(d) => call[d].s # s
  BY <1>p, UsedTerm
<1>2. sock[s].state = "Stopping"  BY <1>1, <1>p DEF TermOf
<1>3. /\ FreeBoth(s, t)
      /\ UNCHANGED <<refs, ops, call, known, closing, failed>>
  BY <1>1 DEF CloserEnd
<1>4. sock[s].state \in Underway  BY <1>2 DEF Underway, States
<1>5. \A op \in ops : op.s = s => ~ Early(op) /\ op.kind # "connected"
  BY <1>2, OpFacts DEF OpOK
<1>6. refs' \in [Listeners -> RefRec] /\ failed' \in Failures \cup {"no"}
      /\ ops' = ops
  BY <1>3 DEF SlotInv, Types
<1>. QED  BY <1>1, <1>3, <1>4, <1>5, <1>6, FreeBothStep

(* The user learns of a handle.                                            *)
LEMMA TellStep ==
  ASSUME SlotInv, failed = "no", NEW op \in ops, Tell(op)
  PROVE  SlotInv'
PROOF
<1>. PICK t : t = op.t  OBVIOUS
<1>t. /\ t \in Terms /\ Types /\ Terminals
      /\ UNCHANGED <<sock, sockPool, term, connPool, refs, call, closing>>
      /\ \A d \in Callers : ThreadOK(d) /\ Owned(d)
  BY OpFacts, Parts DEF SlotInv, Tell
<1>1. CASE ~ term[t].func
  <2>1. Fail("Call of a null ConnectionNotifier") /\ UNCHANGED <<known, ops>>
    BY <1>1 DEF Tell
  <2>2. "Call of a null ConnectionNotifier" \in Failures  BY DEF Failures
  <2>. QED  BY <1>t, <2>1, <2>2, FailStep
<1>2. CASE term[t].func
  <2>1. known' = known \cup {term[t].handle} /\ ops' = ops \ {op} /\ UNCHANGED failed
    BY <1>2 DEF Tell, Finished
  <2>2. term[t] # VoidTerm  BY <1>2 DEF VoidTerm
  <2>3. PICK s \in Socks : Has(s, t) /\ TermOf(s, t)
    BY <1>t, <2>2, HadTerm
  <2>4. known' = known \cup {HandleOf(s)}  BY <2>1, <2>3 DEF TermOf
  <2>e. /\ sock' = sock /\ term' = term /\ sockPool' = sockPool
        /\ connPool' = connPool /\ call' = call
        /\ \A x : HandleOf(x)' = HandleOf(x)
    BY <1>t DEF HandleOf
  <2>5. Types'
    <3>1. HandleOf(s) \in Handles  BY <1>t, Fields
    <3>. QED  BY <1>t, <2>1, <2>4, <3>1 DEF Types
  <2>6. Phases' /\ Apart' /\ \A d \in Callers : Mine(d)' <=> Mine(d)
    BY <1>t, SameCalls
  <2>d. \A x : HandleOf(x) = HandleOf(s) => x = s
    BY DEF HandleOf
  <2>7. ASSUME NEW d \in Callers  PROVE ThreadOK(d)'
    <3>1. ASSUME Mine(d), call[d].op = "accept"
          PROVE  HandleOf(call[d].s) \notin known'
      <4>1. /\ sock[call[d].s].term = NoTerm
            /\ HandleOf(call[d].s) \notin known
        <5>1. call[d].pc \in AcceptLabels  BY <3>1, Own DEF Place
        <5>2. StageTerm(d)  BY <3>1, Own
        <5>3. HandleOf(call[d].s) \notin known
          BY <1>t, <3>1 DEF Owned
        <5>. QED  BY <5>1, <5>2, <5>3 DEF StageTerm, AcceptLabels
      <4>2. call[d].s # s
        BY <1>t, <2>3, <4>1, SocketTableAssumption DEF Has
      <4>. QED  BY <2>4, <2>d, <4>1, <4>2
    <3>2. Undisturbed(d)
      <4>1. NoNewOp  BY <2>1 DEF NoNewOp
      <4>2. Mine(d) => StageTerm(d)  BY Own
      <4>. QED  BY <1>t, <2>e, <3>1, <4>1, <4>2 DEF Undisturbed, Owned, StageTerm
    <3>3. PICK x : x \notin Socks \cup {NoHandle, HandleToId(call[d].h)}
      BY NoSetContainsEverything
    <3>4. Spared(d, x) /\ Elsewhere(x) /\ call[d].s # x
      BY <1>t, <3>3, Fields DEF Spared, Elsewhere
    <3>. QED  BY <1>t, <2>e, <3>2, <3>4, ThreadKept
  <2>8. ASSUME NEW x \in Socks  PROVE SlotOK(x)'
    <3>1. SlotOK(x)  BY DEF SlotInv
    <3>2. sock[x].state = "Inpool" => HandleOf(x) \notin known'
      <4>1. sock[x].state = "Inpool" => x # s
        BY <1>t, <2>3, <3>1, SocketTableAssumption DEF SlotOK, Has
      <4>. QED  BY <2>4, <2>d, <3>1, <4>1 DEF SlotOK
    <3>3. \A labels : Amid(labels, x)' <=> Amid(labels, x)
      BY <2>e DEF Amid
    <3>. QED  BY <2>e, <3>1, <3>2, <3>3 DEF SlotOK
  <2>9. Terminals'
    <3>1. SameHas /\ SamePrepares
      BY <2>e DEF SameHas, SamePrepares, Has, Prepares, Amid
    <3>2. \A x, y : TermOf(x, y) => TermOf(x, y)'  BY <2>e DEF TermOf
    <3>. QED  BY <1>t, <2>e, <3>1, <3>2, TerminalsKept
  <2>10. ASSUME NEW o \in ops'  PROVE OpOK(o)'
    <3>1. OpOK(o)  BY <2>1, Parts
    <3>. QED  BY <2>6, <2>e, <3>1 DEF OpOK, Early
  <2>11. OneOp'  BY <2>1 DEF SlotInv, OneOp, Early
  <2>12. KnownOK'
    <3>1. sock[s].gen <= sock[s].gen  BY <1>t, Fields
    <3>2. \A h \in known' : h[2] <= sock[HandleToId(h)].gen
      BY <2>4, <3>1, HandleIs DEF SlotInv, KnownOK
    <3>. QED  BY <2>e, <3>2 DEF KnownOK
  <2>13. Distinct(sockPool)' /\ Distinct(connPool)'
    BY <2>e DEF SlotInv
  <2>. QED
    BY <2>5, <2>6, <2>7, <2>8, <2>9, <2>10, <2>11, <2>12, <2>13 DEF SlotInv
<1>. QED  BY <1>1, <1>2

-----------------------------------------------------------------------------
(* The invariant of the slots                                              *)

(* The steps of a user's thread ...                                        *)
LEMMA UserStep ==
  ASSUME SlotInv, Contract, failed = "no", NEW u \in Users,
         User(u) \/ InCall(u) \/ CloseGiveUp(u)
  PROVE  SlotInv'
PROOF
<1>c. u \in Callers  BY DEF Callers
<1>1. CASE User(u)
  <2>1. CASE CreateSocket(u)  BY <2>1, TakeSlotSteps
  <2>2. ASSUME NEW h \in known,
               ListenBegin(u, h) \/ AcceptBegin(u, h) \/ ConnectBegin(u, h)
        PROVE  SlotInv'
    BY <2>2, EnterSteps
  <2>3. ASSUME NEW h \in known, CloseBegin(u, h)  PROVE SlotInv'
    BY <2>3, CloseBeginStep
  <2>. QED  BY <1>1, <2>1, <2>2, <2>3 DEF User
<1>2. CASE Publish(u)  BY <1>2, PublishStep
<1>3. CASE TakeTerm(u)
  <2>1. CASE Exhausted  BY <1>3, <2>1, EndSteps
  <2>2. CASE ~ Exhausted  BY <1>3, <2>2, TakeTermStep
  <2>. QED  BY <2>1, <2>2
<1>4. CASE PrepareFails(u) \/ Prepared(u)
  BY <1>4, PrepareFailsStep, PreparedStep
<1>5. CASE \/ ListenCheck(u) \/ ListenSet(u) \/ ListenAgain(u)
           \/ CreateListener(u) \/ BindListener(u) \/ ListenEnd(u)
           \/ UndoListen(u) \/ UndoListener(u) \/ ClearListener(u)
  BY <1>5, ListenSteps
<1>6. CASE AcceptSock(u)
  <2>1. CASE CanAllocate  BY <1>6, <2>1, TakeSlotSteps
  <2>2. CASE ~ CanAllocate  BY <1>6, <2>2, AcceptSteps
  <2>. QED  BY <2>1, <2>2
<1>7. CASE AcceptCheck(u) \/ Accept1(u) \/ AcceptListen(u) \/ AcceptRef(u)
  BY <1>7, AcceptSteps
<1>8. CASE Bind(u)
  <2>1. CASE ops' = ops  BY <1>8, <2>1, ConnectSteps
  <2>2. CASE ops' # ops  BY <1>8, <2>2, BindStep
  <2>. QED  BY <2>1, <2>2
<1>9. CASE UndoTerm(u)
  <2>1. CASE sock[call[u].s].term = NoTerm  BY <1>9, <2>1, ConnectSteps
  <2>2. CASE sock[call[u].s].term # NoTerm  BY <1>9, <2>2, UndoTermStep
  <2>. QED  BY <2>1, <2>2
<1>10. CASE ConnectCheck(u) \/ ConnectSet(u) \/ ConnectAgain(u) \/ UndoConnect(u)
  BY <1>10, ConnectSteps
<1>11. CASE ClearTerm(u)  BY <1>11, ClearTermStep
<1>12. CASE CloseRead(u)
  <2>1. CASE call[u].op = "hangup"  BY <1>12, <2>1, HangupRead
  <2>2. CASE call[u].op # "hangup"  BY <1>c, <1>12, <2>2, CloseSteps
  <2>. QED  BY <2>1, <2>2
<1>13. CASE CloseGiveUp(u)  BY <1>13, EndSteps
<1>. QED
  BY <1>1, <1>2, <1>3, <1>4, <1>5, <1>6, <1>7, <1>8, <1>9, <1>10, <1>11, <1>12,
     <1>13 DEF InCall

(* ... and those of whoever ends a socket preserve it.                     *)
LEMMA TryCloseStep ==
  ASSUME SlotInv, failed = "no", NEW c \in Callers, TryCloseSocket(c)
  PROVE  SlotInv'
PROOF
<1>1. CASE \/ StopIdle(c) \/ ReadListener(c) \/ Unlisten(c)
           \/ StopListening(c) \/ ReleaseListener(c)
  BY <1>1, CloseSteps
<1>2. CASE ReadTerm(c)  BY <1>2, ReadTermStep
<1>3. CASE PostClose(c)  BY <1>3, PostCloseStep
<1>4. CASE GiveBack(c)  BY <1>4, GiveBackStep
<1>. QED  BY <1>1, <1>2, <1>3, <1>4 DEF TryCloseSocket

(* So do those of handlers and closers ...                                 *)
LEMMA ConnectionStep ==
  ASSUME SlotInv, ~ Torn, failed = "no",
         \/ \E op \in ops : ProcessConnReq(op)
         \/ \E t \in Terms : Handler(t) \/ Closer(t) \/ PeerDisconnect(t)
  PROVE  SlotInv'
PROOF
<1>1. ASSUME NEW op \in ops, ProcessConnReq(op)  PROVE SlotInv'
  BY <1>1, ConnReqStep, ConnReqFails
<1>2. ASSUME NEW op \in ops,
             \/ OnConnAck(op) \/ OnConnAccepted(op) \/ Settle(op)
             \/ Connected(op) \/ Tell(op)
      PROVE  SlotInv'
  BY <1>2, ConnAckStep, ConnAcceptedStep, SettleStep, ConnectedStep, TellStep
<1>3. ASSUME NEW t \in Terms, Closer(t)  PROVE SlotInv'
  BY <1>3, CloserBeginStep, CloserEndStep DEF Closer
<1>4. ASSUME NEW t \in Terms, PeerDisconnect(t)  PROVE SlotInv'
  BY <1>4, PeerStep
<1>. QED  BY <1>1, <1>2, <1>3, <1>4 DEF Handler

(* ... and all others.                                                     *)
LEMMA SlotInvStep ==
  ASSUME SlotInv, Contract, ~ Torn, [Next]_vars
  PROVE  SlotInv'
PROOF
<1>1. CASE UNCHANGED vars
  <2>1. /\ UNCHANGED <<sock, sockPool, term, connPool, refs, ops, call, known>>
        /\ closing' = closing /\ failed' = failed
        /\ closing' \in BOOLEAN /\ failed' \in Failures \cup {"no"}
    BY <1>1 DEF vars, SlotInv, Types
  <2>2. Phases'  BY <2>1 DEF SlotInv, Phases, MayOverlap
  <2>. QED  BY <2>1, <2>2, SameKeeps
<1>2. CASE failed = "no" /\ Running
  <2>1. ASSUME NEW u \in Users, User(u) \/ InCall(u) \/ CloseGiveUp(u)
        PROVE  SlotInv'
    BY <1>2, <2>1, UserStep
  <2>2. ASSUME NEW c \in Callers, TryCloseSocket(c)  PROVE SlotInv'
    BY <1>2, <2>2, TryCloseStep
  <2>3. CASE \/ \E op \in ops : ProcessConnReq(op)
             \/ \E t \in Terms : Handler(t) \/ Closer(t) \/ PeerDisconnect(t)
    BY <1>2, <2>3, ConnectionStep
  <2>4. CASE Shutdown  BY <2>4, ShutdownStep
  <2>5. ASSUME NEW s \in Socks, ShutdownRead(s)  PROVE SlotInv'
    BY <1>2, <2>5, ShutdownReadStep
  <2>. QED  BY <1>2, <2>1, <2>2, <2>3, <2>4, <2>5 DEF Running
<1>. QED  BY <1>1, <1>2 DEF Next, Rest, Dead

(* The invariant holds when the library starts: both pools are full.       *)
LEMMA SlotInvInit == Init => SlotInv
PROOF
<1>. SUFFICES ASSUME Init  PROVE SlotInv
  OBVIOUS
<1>1. /\ sockPool \in Seq(Socks) /\ Distinct(sockPool)
      /\ Members(sockPool) = Socks
  BY FullPool, SocketTableAssumption DEF Init
<1>2. /\ connPool \in Seq(Terms) /\ Distinct(connPool)
      /\ Members(connPool) = Terms
  BY FullPool, SocketTableAssumption DEF Init
<1>3. /\ sock = [s \in Socks |-> [state |-> "Inpool", gen |-> 1,
                                  term |-> NoTerm, listen |-> NoListener]]
      /\ term = [t \in Terms |-> VoidTerm]
      /\ call = [c \in Callers |-> IdleCall]
      /\ ops = {} /\ closing = FALSE /\ failed = "no" /\ known = {}
      /\ refs = [l \in Listeners |-> [count |-> 0, lost |-> 0]]
  BY DEF Init
<1>4. Types
  <2>1. sock \in [Socks -> SockRec]
    BY <1>3, SocketTableAssumption DEF SockRec, States, Gens
  <2>2. term \in [Terms -> TermRec]
    BY <1>3 DEF VoidTerm, TermRec, NoHandle
  <2>3. call \in [Callers -> CallRec]
    BY <1>3 DEF IdleCall, CallRec, Calls, Labels, NoHandle
  <2>4. refs \in [Listeners -> RefRec]  BY <1>3 DEF RefRec
  <2>. QED  BY <1>1, <1>2, <1>3, <2>1, <2>2, <2>3, <2>4 DEF Types
<1>5. \A c \in Callers : call[c].pc = "idle" /\ call[c].op = "none"
  BY <1>3 DEF IdleCall
<1>6. \A c \in Callers : ~ Mine(c)  BY <1>5 DEF Mine
<1>7. Phases /\ Apart
  BY <1>3, <1>5, <1>6 DEF Phases, Apart, Callers
<1>8. ASSUME NEW c \in Callers  PROVE ThreadOK(c)
  <2>1. Place(c) /\ Given(c) /\ Owned(c) /\ HandsOff(c)
    BY <1>5, <1>6 DEF Place, Given, Owned, HandsOff
  <2>. QED  BY <2>1 DEF ThreadOK
<1>9. \A s \in Socks : SlotOK(s)
  BY <1>1, <1>3 DEF SlotOK
<1>10. Terminals
  <2>1. \A s \in Socks, t \in Terms : ~ Has(s, t)
    BY <1>3, SocketTableAssumption DEF Has
  <2>2. \A c \in Callers, t \in Terms : ~ Prepares(c, t)
    BY <1>5 DEF Prepares
  <2>. QED  BY <1>2, <1>3, <2>1, <2>2 DEF Terminals
<1>11. (\A op \in ops : OpOK(op)) /\ OneOp /\ KnownOK
  BY <1>3 DEF OneOp, KnownOK
<1>. QED  BY <1>1, <1>2, <1>4, <1>7, <1>8, <1>9, <1>10, <1>11 DEF SlotInv

(* What it says of slots, terminals and handlers.                          *)
LEMMA SlotFacts ==
  ASSUME SlotInv
  PROVE  SlotsConserved /\ TerminalsConserved /\ HandlersFindSocket
PROOF
<1>1. SlotsConserved
  <2>1. ASSUME NEW c \in Callers, call[c].pc = "publish"
        PROVE  /\ call[c].s \notin Members(sockPool)
               /\ sock[call[c].s].state = "Inpool"
    <3>1. Mine(c)
      <4>1. call[c].op \in {"create", "accept"}
        BY <2>1, CallAt, Parts, Fields DEF SlotInv
      <4>. QED  BY <2>1, <4>1 DEF Mine
    <3>. QED  BY <2>1, <3>1, Own DEF StageState
  <2>2. \A s \in Socks : Amid({"publish"}, s) =>
          s \notin Members(sockPool) /\ sock[s].state = "Inpool"
    BY <2>1 DEF Amid
  <2>. QED  BY <2>2 DEF SlotInv, SlotOK, SlotsConserved, SlotClean
<1>2. TerminalsConserved
  <2>1. Terminals /\ Distinct(connPool)  BY DEF SlotInv
  <2>2. ASSUME NEW t \in Terms
        PROVE  LET had  == \E s \in Socks : Has(s, t)
                   made == \E c \in Callers : Prepares(c, t)
               IN  /\ t \in Members(connPool) <=> ~ had /\ ~ made
                   /\ ~ (had /\ made)
    BY <2>1 DEF Terminals, TermOf
  <2>3. \A c, d \in Callers, t \in Terms :
          Prepares(c, t) /\ Prepares(d, t) => c = d
    BY <2>1 DEF Terminals
  <2>4. \A s \in Socks, t \in Terms : Has(s, t) => term[t].handle = HandleOf(s)
    BY <2>1 DEF Terminals, TermOf
  <2>5. \A s \in Socks : sock[s].state = "Connected" =>
          sock[s].term # NoTerm /\ term[sock[s].term].started
    BY DEF SlotInv, SlotOK
  <2>. QED  BY <2>1, <2>2, <2>3, <2>4, <2>5 DEF TerminalsConserved
<1>3. HandlersFindSocket
  BY Parts DEF OpOK, Early, HandlersFindSocket
<1>. QED  BY <1>1, <1>2, <1>3

-----------------------------------------------------------------------------
(* The reference counts of the listeners                                   *)

(* The holders of a reference, one by one.                                 *)
SocketHolds(s, l) == sock[s].listen = l /\ ~ Amid({"clearListener"}, s)
Clings(c) == \/ call[c].pc \in {"stopListening", "release"}
             \/ call[c].pc \in {"takeTerm", "prepare"} /\ call[c].op = "accept"
ThreadHolds(c, l)   == call[c].l = l /\ Clings(c)
RequestHolds(op, l) == op.kind = "connReq" /\ op.listener = l

(* The inductive invariant of the reference counts.                        *)
CountInv == IsFiniteSet(ops) /\ ListenersCounted

LEMMA InHolders ==
  ASSUME NEW l, NEW x
  PROVE  /\ x \in Holders(l) <=>
              \/ \E s \in Socks : x = <<"socket", s>> /\ SocketHolds(s, l)
              \/ \E c \in Callers : x = <<"thread", c>> /\ ThreadHolds(c, l)
              \/ \E op \in ops : x = <<"request", op>> /\ RequestHolds(op, l)
         /\ x \in Holders(l)' <=>
              \/ \E s \in Socks : x = <<"socket", s>> /\ SocketHolds(s, l)'
              \/ \E c \in Callers : x = <<"thread", c>> /\ ThreadHolds(c, l)'
              \/ \E op \in ops' : x = <<"request", op>> /\ RequestHolds(op, l)
PROOF BY DEF Holders, SocketHolds, ThreadHolds, Clings, RequestHolds

LEMMA TaggedFinite ==
  ASSUME NEW S, IsFiniteSet(S), NEW tag
  PROVE  IsFiniteSet({<<tag, x>> : x \in S})
PROOF
<1>. DEFINE T == {<<tag, x>> : x \in S}
            f == [x \in S |-> <<tag, x>>]
<1>1. f \in Surjection(S, T)  BY DEF Surjection
<1>. HIDE DEF f, T
<1>2. IsFiniteSet(T)  BY <1>1, FS_Surjection
<1>. QED  BY <1>2 DEF T

LEMMA HoldersFinite ==
  ASSUME IsFiniteSet(ops), NEW l
  PROVE  IsFiniteSet(Holders(l))
PROOF
<1>. DEFINE A == {r \in Socks : /\ sock[r].listen = l
                                /\ ~ Amid({"clearListener"}, r)}
            B == {d \in Callers :
                    /\ call[d].l = l
                    /\ \/ call[d].pc \in {"stopListening", "release"}
                       \/ call[d].pc \in {"takeTerm", "prepare"} /\ call[d].op = "accept"}
            C == {o \in ops : o.kind = "connReq" /\ o.listener = l}
<1>1. IsFiniteSet(Callers)
  <2>1. IsFiniteSet(Users \cup {Dtor})
    BY SocketTableAssumption, FS_AddElement
  <2>. QED  BY <2>1 DEF Callers
<1>2. A \subseteq Socks /\ B \subseteq Callers /\ C \subseteq ops  OBVIOUS
<1>3. IsFiniteSet(A) /\ IsFiniteSet(B) /\ IsFiniteSet(C)
  BY <1>1, <1>2, SocketTableAssumption, FS_Subset
<1>. HIDE DEF A, B, C
<1>4. IsFiniteSet({<<"socket", s>> : s \in A})  BY <1>3, TaggedFinite
<1>5. IsFiniteSet({<<"thread", c>> : c \in B})  BY <1>3, TaggedFinite
<1>6. IsFiniteSet({<<"request", op>> : op \in C})  BY <1>3, TaggedFinite
<1>7. IsFiniteSet({<<"socket", s>> : s \in A} \cup {<<"thread", c>> : c \in B}
                    \cup {<<"request", op>> : op \in C})
  BY <1>4, <1>5, <1>6, FS_Union
<1>. QED  BY <1>7 DEF A, B, C, Holders

(* The count of one listener follows its holders, the others keep theirs.  *)
KeepCounts(l) == \A k \in Listeners \ {l} :
                   refs'[k] = refs[k] /\ Holders(k)' = Holders(k)

LEMMA CountFor ==
  ASSUME CountInv, NEW l, KeepCounts(l), IsFiniteSet(ops'),
         l \in Listeners =>
           refs'[l].count = Cardinality(Holders(l)') + refs'[l].lost
  PROVE  CountInv'
PROOF
<1>1. \A k \in Listeners \ {l} :
        refs'[k].count = Cardinality(Holders(k)') + refs'[k].lost
  BY DEF CountInv, ListenersCounted, KeepCounts
<1>2. ListenersCounted'  BY <1>1 DEF ListenersCounted
<1>. QED  BY <1>2 DEF CountInv

(* One holder more, one less, and one that hands its reference on.         *)
LEMMA CountMore ==
  ASSUME Types, CountInv, NEW l \in Listeners, KeepCounts(l), IsFiniteSet(ops'),
         NEW x, x \notin Holders(l), Holders(l)' = Holders(l) \cup {x},
         refs'[l].count = refs[l].count + 1, refs'[l].lost = refs[l].lost
  PROVE  CountInv'
PROOF
<1>1. IsFiniteSet(Holders(l))  BY HoldersFinite DEF CountInv
<1>2. Cardinality(Holders(l) \cup {x}) = Cardinality(Holders(l)) + 1
  BY <1>1, FS_AddElement
<1>3. Cardinality(Holders(l)) \in Nat  BY <1>1, FS_CardinalityType
<1>4. refs[l].count = Cardinality(Holders(l)) + refs[l].lost
  BY DEF CountInv, ListenersCounted
<1>5. refs[l].lost \in Nat  BY DEF Types, RefRec
<1>6. refs'[l].count = Cardinality(Holders(l)') + refs'[l].lost
  BY <1>2, <1>3, <1>4, <1>5
<1>. QED  BY <1>6, CountFor

LEMMA CountLess ==
  ASSUME Types, CountInv, NEW l \in Listeners, KeepCounts(l), IsFiniteSet(ops'),
         NEW x, x \in Holders(l), Holders(l)' = Holders(l) \ {x},
         refs'[l].count - refs'[l].lost = refs[l].count - refs[l].lost - 1,
         refs'[l].count \in Int, refs'[l].lost \in Int
  PROVE  CountInv'
PROOF
<1>1. IsFiniteSet(Holders(l))  BY HoldersFinite DEF CountInv
<1>2. Cardinality(Holders(l) \ {x}) = Cardinality(Holders(l)) - 1
  BY <1>1, FS_RemoveElement
<1>3. Cardinality(Holders(l)) \in Nat  BY <1>1, FS_CardinalityType
<1>4. refs[l].count = Cardinality(Holders(l)) + refs[l].lost
  BY DEF CountInv, ListenersCounted
<1>5. refs[l].lost \in Nat  BY DEF Types, RefRec
<1>6. refs'[l].count = Cardinality(Holders(l)') + refs'[l].lost
  BY <1>2, <1>3, <1>4, <1>5
<1>. QED  BY <1>6, CountFor

LEMMA CountMoved ==
  ASSUME Types, CountInv, NEW l \in Listeners, KeepCounts(l), IsFiniteSet(ops'),
         NEW x, x \in Holders(l), NEW y, y \notin Holders(l),
         Holders(l)' = (Holders(l) \ {x}) \cup {y}, refs'[l] = refs[l]
  PROVE  CountInv'
PROOF
<1>1. IsFiniteSet(Holders(l))  BY HoldersFinite DEF CountInv
<1>2. PICK H : H = Holders(l) \ {x}  OBVIOUS
<1>3. IsFiniteSet(H) /\ Cardinality(H) = Cardinality(Holders(l)) - 1
  BY <1>1, <1>2, FS_RemoveElement
<1>4. y \notin H  BY <1>2
<1>5. Cardinality(H \cup {y}) = Cardinality(H) + 1
  BY <1>3, <1>4, FS_AddElement
<1>6. Cardinality(Holders(l)) \in Nat  BY <1>1, FS_CardinalityType
<1>7. Cardinality(Holders(l)') = Cardinality(Holders(l))
  BY <1>2, <1>3, <1>5, <1>6
<1>8. refs'[l].count = Cardinality(Holders(l)') + refs'[l].lost
  BY <1>7 DEF CountInv, ListenersCounted
<1>. QED  BY <1>8, CountFor

(* What a step does to the holders: nothing ...                            *)
SameListens  == \A x \in Socks : sock'[x].listen = sock[x].listen
SameSockets  == \A x \in Socks, l \in Listeners :
                  SocketHolds(x, l)' <=> SocketHolds(x, l)
SameThreads  == \A c \in Callers, l \in Listeners :
                  ThreadHolds(c, l)' <=> ThreadHolds(c, l)
SameRequests == /\ \A op \in ops : op.kind = "connReq" => op \in ops'
                /\ \A op \in ops' : op.kind = "connReq" => op \in ops

LEMMA CountSame ==
  ASSUME CountInv, SameSockets, SameThreads, SameRequests, UNCHANGED refs,
         IsFiniteSet(ops')
  PROVE  CountInv'
PROOF
<1>1. ASSUME NEW l \in Listeners  PROVE Holders(l)' = Holders(l)
  <2>1. ASSUME NEW x  PROVE x \in Holders(l)' <=> x \in Holders(l)
    BY <1>1, InHolders DEF SameSockets, SameThreads, SameRequests, RequestHolds
  <2>. QED  BY <2>1
<1>2. ListenersCounted'  BY <1>1 DEF CountInv, ListenersCounted
<1>. QED  BY <1>2 DEF CountInv

(* ... if a thread stays away from the places that count.                  *)
Counted == {"clearListener", "stopListening", "release", "takeTerm", "prepare"}
Away(c) == Others(c) /\ call[c].pc \notin Counted /\ call'[c].pc \notin Counted

LEMMA CountAway ==
  ASSUME CountInv, NEW c \in Callers, Away(c), SameListens, SameRequests,
         UNCHANGED refs, IsFiniteSet(ops')
  PROVE  CountInv'
PROOF
<1>1. \A x : Amid({"clearListener"}, x)' <=> Amid({"clearListener"}, x)
  BY DEF Away, Others, Counted, Amid
<1>2. SameSockets  BY <1>1 DEF SameSockets, SocketHolds, SameListens
<1>3. \A d \in Callers : Clings(d)' <=> Clings(d)
  BY DEF Away, Others, Counted, Clings
<1>4. \A d \in Callers \ {c} : call'[d] = call[d]  BY DEF Away, Others
<1>5. ~ Clings(c)  BY DEF Away, Counted, Clings
<1>6. SameThreads  BY <1>3, <1>4, <1>5 DEF SameThreads, ThreadHolds
<1>. QED  BY <1>2, <1>6, CountSame

(* A thread goes on with the reference it has, or without one.             *)
LEMMA CountGoes ==
  ASSUME CountInv, NEW c \in Callers, Others(c), call[c].pc # "clearListener",
         call'[c].pc # "clearListener", Clings(c)' <=> Clings(c),
         Clings(c) => call'[c].l = call[c].l,
         SameListens, SameRequests, UNCHANGED refs, IsFiniteSet(ops')
  PROVE  CountInv'
PROOF
<1>1. \A x : Amid({"clearListener"}, x)' <=> Amid({"clearListener"}, x)
  BY DEF Others, Amid
<1>2. SameSockets  BY <1>1 DEF SameSockets, SocketHolds, SameListens
<1>3. SameThreads
  <2>1. ASSUME NEW d \in Callers, NEW l \in Listeners
        PROVE  ThreadHolds(d, l)' <=> ThreadHolds(d, l)
    <3>1. CASE d = c  BY <3>1 DEF ThreadHolds
    <3>2. CASE d # c  BY <3>2 DEF Others, ThreadHolds, Clings
    <3>. QED  BY <3>1, <3>2
  <2>. QED  BY <2>1 DEF SameThreads
<1>. QED  BY <1>2, <1>3, CountSame

(* The threads do not move.                                                *)
LEMMA CountHandler ==
  ASSUME CountInv, UNCHANGED call, SameListens, SameRequests, UNCHANGED refs,
         IsFiniteSet(ops')
  PROVE  CountInv'
PROOF
<1>1. SameSockets /\ SameThreads
  BY DEF SameSockets, SocketHolds, SameListens, Amid, SameThreads, ThreadHolds,
         Clings
<1>. QED  BY <1>1, CountSame

(* What leaves the listeners of the sockets alone.                         *)
LEMMA ListensSame ==
  ASSUME Types
  PROVE  /\ UNCHANGED sock => SameListens
         /\ \A s, v : SetState(s, v) => SameListens
         /\ \A s, v : sock' = [sock EXCEPT ![s].state = v] => SameListens
         /\ \A s, v : sock' = [sock EXCEPT ![s].term = v] => SameListens
         /\ \A s : sock' = FreeSocket(sock, s) => SameListens
         /\ \A s, t : FreeBoth(s, t) => SameListens
PROOF
<1>t. sock \in [Socks -> SockRec]  BY DEF Types
<1>1. UNCHANGED sock => SameListens  BY DEF SameListens
<1>2. \A s, v : sock' = [sock EXCEPT ![s].state = v] => SameListens
  BY <1>t DEF SameListens, SockRec
<1>3. \A s, v : SetState(s, v) => SameListens  BY <1>2 DEF SetState
<1>4. \A s, v : sock' = [sock EXCEPT ![s].term = v] => SameListens
  BY <1>t DEF SameListens, SockRec
<1>5. \A s : sock' = FreeSocket(sock, s) => SameListens
  <2>1. ASSUME NEW s, sock' = FreeSocket(sock, s), NEW x \in Socks
        PROVE  sock'[x].listen = sock[x].listen
    BY <1>t, <2>1 DEF FreeSocket, SockRec
  <2>. QED  BY <2>1 DEF SameListens
<1>6. ASSUME NEW s, NEW t, FreeBoth(s, t)  PROVE SameListens
  <2>1. PICK tbl : tbl = [sock EXCEPT ![s].term = NoTerm]  OBVIOUS
  <2>2. tbl \in [Socks -> [state : States, gen : Gens, term : Terms \cup {NoTerm},
                           listen : Listeners \cup {NoListener}]]
        /\ \A x \in Socks : tbl[x].listen = sock[x].listen
    BY <1>t, <2>1 DEF SockRec
  <2>3. sock' = [tbl EXCEPT ![s].state = "Inpool", ![s].gen = @ + 1]
    BY <1>6, <2>1 DEF FreeBoth, FreeSocket
  <2>4. \A x \in Socks : sock'[x].listen = tbl[x].listen
    BY <2>2, <2>3
  <2>. QED  BY <2>2, <2>4 DEF SameListens
<1>. QED  BY <1>1, <1>2, <1>3, <1>4, <1>5, <1>6

(* The asynchronous calls stay finitely many.                              *)
LEMMA OpsFinite ==
  ASSUME IsFiniteSet(ops), Types
  PROVE  /\ \A op : Finished(op) => IsFiniteSet(ops')
         /\ \A op, kind : Becomes(op, kind) => IsFiniteSet(ops')
         /\ \A op : ops' = ops \cup {op} => IsFiniteSet(ops')
         /\ UNCHANGED ops => IsFiniteSet(ops') /\ SameRequests
         /\ \A op \in ops : op.kind # "connReq" =>
              /\ Finished(op) => SameRequests
              /\ \A kind : kind # "connReq" /\ Becomes(op, kind) => SameRequests
PROOF
<1>1. \A op : IsFiniteSet(ops \ {op})  BY FS_RemoveElement
<1>2. \A op : IsFiniteSet(ops \cup {op})  BY FS_AddElement
<1>3. \A op, new : IsFiniteSet((ops \ {op}) \cup {new})  BY <1>1, FS_AddElement
<1>4. ASSUME NEW op, NEW kind, Becomes(op, kind)  PROVE IsFiniteSet(ops')
  <2>1. PICK new : new = [op EXCEPT !.kind = kind]  OBVIOUS
  <2>2. ops' = (ops \ {op}) \cup {new}  BY <1>4, <2>1 DEF Becomes
  <2>. QED  BY <1>3, <2>2
<1>5. ASSUME NEW op \in ops, op.kind # "connReq", Finished(op)
      PROVE  SameRequests
  BY <1>5 DEF Finished, SameRequests
<1>6. ASSUME NEW op \in ops, op.kind # "connReq", NEW kind, kind # "connReq",
             Becomes(op, kind)
      PROVE  SameRequests
  <2>1. PICK new : new = [op EXCEPT !.kind = kind]  OBVIOUS
  <2>2. ops' = (ops \ {op}) \cup {new}  BY <1>6, <2>1 DEF Becomes
  <2>3. new.kind = kind  BY <2>1 DEF Types, Op
  <2>. QED  BY <1>6, <2>2, <2>3 DEF SameRequests
<1>7. UNCHANGED ops => IsFiniteSet(ops') /\ SameRequests  BY DEF SameRequests
<1>. QED  BY <1>1, <1>2, <1>4, <1>5, <1>6, <1>7 DEF Finished

(* How a thread moves, and that a thread's call knows where it is.         *)
LEMMA MovesAre ==
  ASSUME Types, NEW c \in Callers
  PROVE  /\ \A l : Goto(c, l) => Others(c) /\ call'[c].pc = l
                                 /\ call'[c].op = call[c].op
                                 /\ call'[c].l = call[c].l
         /\ Return(c) => Others(c) /\ call'[c].pc = "idle"
         /\ \A op, h, s, l : Begin(c, op, h, s, l) =>
              Others(c) /\ call'[c].pc = l
         /\ UNCHANGED call => Others(c) /\ call'[c].pc = call[c].pc
PROOF
<1>t. call \in [Callers -> CallRec]  BY DEF Types
<1>1. \A l : Goto(c, l) => Others(c) /\ call'[c].pc = l
                           /\ call'[c].op = call[c].op /\ call'[c].l = call[c].l
  BY <1>t DEF Goto, Others, CallRec
<1>2. Return(c) => Others(c) /\ call'[c].pc = "idle"
  BY <1>t DEF Return, Others, IdleCall
<1>3. ASSUME NEW op, NEW h, NEW s, NEW l, Begin(c, op, h, s, l)
      PROVE  Others(c) /\ call'[c].pc = l
  <2>1. PICK r : r = [IdleCall EXCEPT !.op = op, !.pc = l, !.h = h, !.s = s]
    OBVIOUS
  <2>2. r.pc = l  BY <2>1 DEF IdleCall
  <2>3. call' = [call EXCEPT ![c] = r]  BY <1>3, <2>1 DEF Begin
  <2>. QED  BY <1>t, <2>2, <2>3 DEF Others
<1>4. UNCHANGED call => Others(c) /\ call'[c].pc = call[c].pc
  BY DEF Others
<1>. QED  BY <1>1, <1>2, <1>3, <1>4

(* The steps of a call that leave sockets and listeners alone ...          *)
LEMMA QuietSteps ==
  ASSUME SlotInv, CountInv, NEW c \in Callers,
         \/ CreateSocket(c) \/ AcceptSock(c)
         \/ \E h \in known : \/ ListenBegin(c, h) \/ AcceptBegin(c, h)
                             \/ ConnectBegin(c, h) \/ CloseBegin(c, h)
         \/ ListenCheck(c) \/ ListenAgain(c) \/ BindListener(c) \/ AcceptCheck(c)
         \/ AcceptListen(c) \/ ConnectCheck(c) \/ UndoTerm(c) \/ CloseRead(c)
         \/ ReadTerm(c) \/ PostClose(c) \/ ReadListener(c)
         \/ c = Dtor /\ (\E s \in Socks : ShutdownRead(s))
  PROVE  CountInv'
PROOF
<1>t. Types /\ IsFiniteSet(ops) /\ call \in [Callers -> CallRec]
  BY DEF SlotInv, CountInv, Types
<1>. DEFINE Quiet == Away(c) /\ UNCHANGED <<sock, refs, ops>>
<1>1. ASSUME CreateSocket(c)  PROVE Quiet
  BY <1>1, <1>t, MovesAre DEF CreateSocket, TakeSlot, Away, Counted
<1>2. ASSUME AcceptSock(c)  PROVE Quiet
  BY <1>2, <1>t, MovesAre DEF AcceptSock, TakeSlot, Away, Counted
<1>3. ASSUME NEW h \in known,
             \/ ListenBegin(c, h) \/ AcceptBegin(c, h) \/ ConnectBegin(c, h)
      PROVE  Quiet
  BY <1>3, <1>t, MovesAre
  DEF ListenBegin, AcceptBegin, ConnectBegin, Enter, Away, Counted
<1>4. ASSUME NEW h \in known, CloseBegin(c, h)  PROVE Quiet
  BY <1>4, <1>t, MovesAre DEF CloseBegin, Away, Counted
<1>5. ASSUME ListenCheck(c) \/ AcceptCheck(c) \/ ConnectCheck(c)  PROVE Quiet
  BY <1>5, <1>t, MovesAre
  DEF ListenCheck, AcceptCheck, ConnectCheck, CheckState, Away, Counted
<1>6. ASSUME ListenAgain(c)  PROVE Quiet
  BY <1>6, <1>t, MovesAre DEF ListenAgain, Away, Counted
<1>b. ASSUME BindListener(c)  PROVE Quiet
  <2>1. /\ call[c].pc = "bindListener" /\ UNCHANGED <<sock, refs, ops>>
        /\ Goto(c, "undoListen") \/ Goto(c, "listenEnd")
    BY <1>b DEF BindListener
  <2>. QED  BY <1>t, <2>1, MovesAre DEF Away, Counted
<1>7. ASSUME AcceptListen(c)  PROVE Quiet
  <2>1. PICK l, pc : /\ call' = [call EXCEPT ![c].l = l, ![c].pc = pc]
                     /\ pc \in {"giveBack", "acceptRef"}
    BY <1>7 DEF AcceptListen
  <2>2. Others(c) /\ call'[c].pc = pc  BY <1>t, <2>1 DEF Others, CallRec
  <2>. QED  BY <1>7, <2>1, <2>2 DEF AcceptListen, Away, Counted
<1>8. ASSUME UndoTerm(c)  PROVE Quiet
  <2>1. /\ call[c].pc = "undoTerm" /\ UNCHANGED <<sock, refs, ops>>
        /\ Goto(c, "clearTerm") \/ Return(c)
    BY <1>8 DEF UndoTerm
  <2>. QED  BY <1>t, <2>1, MovesAre DEF Away, Counted
<1>9. ASSUME CloseRead(c)  PROVE Quiet
  <2>1. Branch(sock[call[c].s].state) \notin Counted
          \/ sock[call[c].s].state \notin Steady
    BY DEF Branch, Steady, Counted
  <2>. QED  BY <1>9, <1>t, <2>1, MovesAre DEF CloseRead, Away, Counted
<1>10. ASSUME ReadTerm(c)  PROVE Quiet
  <2>1. PICK t : t = sock[call[c].s].term  OBVIOUS
  <2>2. /\ call[c].pc = "readTerm" /\ UNCHANGED <<sock, refs, ops>>
        /\ call' = [call EXCEPT ![c].pc = "post", ![c].t = t]
    BY <1>10, <2>1 DEF ReadTerm
  <2>3. Others(c) /\ call'[c].pc = "post"  BY <1>t, <2>2 DEF Others, CallRec
  <2>. QED  BY <2>2, <2>3 DEF Away, Counted
<1>11. ASSUME PostClose(c)  PROVE Quiet
  <2>1. /\ call[c].pc = "post" /\ UNCHANGED <<sock, refs, ops>>
        /\ Return(c) \/ UNCHANGED call
    BY <1>11 DEF PostClose
  <2>. QED  BY <1>t, <2>1, MovesAre DEF Away, Counted
<1>12. ASSUME ReadListener(c)  PROVE Quiet
  <2>1. PICK l : l = sock[call[c].s].listen  OBVIOUS
  <2>2. /\ call[c].pc = "readListener" /\ UNCHANGED <<sock, refs, ops>>
        /\ call' = [call EXCEPT ![c].pc = "unlisten", ![c].l = l]
    BY <1>12, <2>1 DEF ReadListener
  <2>3. Others(c) /\ call'[c].pc = "unlisten"  BY <1>t, <2>2 DEF Others, CallRec
  <2>. QED  BY <2>2, <2>3 DEF Away, Counted
<1>13. ASSUME c = Dtor, NEW s \in Socks, ShutdownRead(s)  PROVE Quiet
  <2>1. Branch(sock[s].state) \notin Counted
    BY <1>13 DEF ShutdownRead, Branch, Steady, Counted
  <2>. QED  BY <1>13, <1>t, <2>1, MovesAre DEF ShutdownRead, Away, Counted
<1>14. Quiet
  BY <1>1, <1>2, <1>3, <1>4, <1>5, <1>6, <1>7, <1>8, <1>9, <1>10, <1>11, <1>12,
     <1>13, <1>b
<1>15. SameListens /\ SameRequests /\ IsFiniteSet(ops')
  BY <1>14, <1>t, ListensSame, OpsFinite
<1>. QED  BY <1>14, <1>15, CountAway

(* ... those that change a socket otherwise than by its listener ...       *)
LEMMA PlainSteps ==
  ASSUME SlotInv, CountInv, NEW c \in Callers,
         \/ Publish(c) \/ GiveBack(c) \/ ListenSet(c) \/ ListenEnd(c)
         \/ UndoListen(c) \/ Accept1(c) \/ ConnectSet(c) \/ UndoConnect(c)
         \/ ClearTerm(c) \/ StopIdle(c) \/ Bind(c)
  PROVE  CountInv'
PROOF
<1>t. Types /\ IsFiniteSet(ops)  BY DEF SlotInv, CountInv
<1>. DEFINE Plain == Away(c) /\ SameListens /\ UNCHANGED refs
<1>1. ASSUME Publish(c)  PROVE Plain /\ UNCHANGED ops
  <2>1. /\ call[c].pc = "publish" /\ UNCHANGED <<refs, ops>>
        /\ SetState(call[c].s, "Disconnected")
        /\ Goto(c, "accept1") \/ Return(c)
    BY <1>1 DEF Publish
  <2>. QED  BY <1>t, <2>1, MovesAre, ListensSame DEF Away, Counted
<1>2. ASSUME GiveBack(c)  PROVE Plain /\ UNCHANGED ops
  <2>1. /\ call[c].pc = "giveBack" /\ UNCHANGED <<refs, ops>>
        /\ sock' = FreeSocket(sock, call[c].s) /\ Return(c)
    BY <1>2 DEF GiveBack
  <2>. QED  BY <1>t, <2>1, MovesAre, ListensSame DEF Away, Counted
<1>3. ASSUME ListenSet(c) \/ UndoListen(c)  PROVE Plain /\ UNCHANGED ops
  BY <1>3, <1>t, MovesAre, ListensSame DEF ListenSet, UndoListen, Away, Counted
<1>e. ASSUME ListenEnd(c)  PROVE Plain /\ UNCHANGED ops
  <2>1. /\ call[c].pc = "listenEnd" /\ UNCHANGED <<refs, ops>>
        /\ SetState(call[c].s, "Listening") /\ Return(c)
    BY <1>e DEF ListenEnd
  <2>. QED  BY <1>t, <2>1, MovesAre, ListensSame DEF Away, Counted
<1>4. ASSUME Accept1(c) \/ ConnectSet(c) \/ UndoConnect(c) \/ StopIdle(c)
      PROVE  Plain /\ UNCHANGED ops
  BY <1>4, <1>t, MovesAre, ListensSame
  DEF Accept1, ConnectSet, UndoConnect, StopIdle, Away, Counted
<1>5. ASSUME ClearTerm(c)  PROVE Plain /\ UNCHANGED ops
  BY <1>5, <1>t, MovesAre, ListensSame DEF ClearTerm, Away, Counted
<1>6. CASE Bind(c)
  <2>1. Plain
    BY <1>6, <1>t, MovesAre, ListensSame DEF Bind, Away, Counted
  <2>2. SameRequests /\ IsFiniteSet(ops')
    <3>1. PICK op : /\ op = [kind |-> "connect", s |-> call[c].s,
                             t |-> call[c].t, listener |-> NoListener]
                    /\ ops' = ops \/ ops' = ops \cup {op}
      BY <1>6 DEF Bind, Issue
    <3>2. op.kind = "connect"  BY <3>1
    <3>3. SameRequests  BY <3>1, <3>2 DEF SameRequests
    <3>. QED  BY <1>t, <3>1, <3>3, OpsFinite
  <2>. QED  BY <2>1, <2>2, CountAway
<1>7. ASSUME Plain, UNCHANGED ops  PROVE CountInv'
  BY <1>7, <1>t, OpsFinite, CountAway
<1>. QED  BY <1>1, <1>2, <1>3, <1>4, <1>5, <1>6, <1>7, <1>e

(* ... and those with a reference in hand, or none.                        *)
LEMMA HoldSteps ==
  ASSUME SlotInv, CountInv, NEW c \in Callers,
         \/ ConnectAgain(c) \/ TakeTerm(c) \/ StopListening(c)
         \/ call[c].op = "connect" /\ (PrepareFails(c) \/ Prepared(c))
  PROVE  CountInv'
PROOF
<1>t. Types /\ IsFiniteSet(ops) /\ call \in [Callers -> CallRec]
  BY DEF SlotInv, CountInv, Types
<1>. DEFINE Goes == /\ Others(c) /\ call[c].pc # "clearListener"
                    /\ call'[c].pc # "clearListener"
                    /\ (Clings(c)' <=> Clings(c))
                    /\ (Clings(c) => call'[c].l = call[c].l)
                    /\ SameListens /\ UNCHANGED <<refs, ops>>
<1>1. ASSUME ConnectAgain(c)  PROVE Goes
  <2>1. call[c].op = "connect"
    BY <1>1, <1>t, CallAt, Parts, Fields DEF ConnectAgain
  <2>. QED  BY <1>1, <1>t, <2>1, MovesAre, ListensSame DEF ConnectAgain, Clings
<1>2. ASSUME TakeTerm(c)  PROVE Goes
  <2>0. call[c].pc = "takeTerm" /\ UNCHANGED <<sock, refs, ops>>
    BY <1>2 DEF TakeTerm
  <2>1. CASE UNCHANGED call
    BY <1>t, <2>0, <2>1, MovesAre, ListensSame DEF Clings
  <2>2. CASE call' = [call EXCEPT ![c].pc = "prepare", ![c].t = NextTerm]
    <3>1. PICK t : t = NextTerm  OBVIOUS
    <3>2. /\ Others(c) /\ call'[c].pc = "prepare" /\ call'[c].op = call[c].op
          /\ call'[c].l = call[c].l
      BY <1>t, <2>2, <3>1 DEF Others, CallRec
    <3>. QED  BY <1>t, <2>0, <3>2, ListensSame DEF Clings
  <2>3. UNCHANGED call \/ call' = [call EXCEPT ![c].pc = "prepare", ![c].t = NextTerm]
    BY <1>2 DEF TakeTerm
  <2>. QED  BY <2>1, <2>2, <2>3
<1>3. ASSUME StopListening(c)  PROVE Goes
  BY <1>3, <1>t, MovesAre, ListensSame DEF StopListening, Clings
<1>4. ASSUME call[c].op = "connect", PrepareFails(c)  PROVE Goes
  BY <1>4, <1>t, MovesAre, ListensSame DEF PrepareFails, Clings
<1>5. ASSUME call[c].op = "connect", Prepared(c)  PROVE Goes
  <2>1. PICK s, t : sock' = [sock EXCEPT ![s].term = t]
    BY <1>5 DEF Prepared
  <2>2. /\ call[c].pc = "prepare" /\ UNCHANGED <<refs, ops>>
        /\ Goto(c, "bind")
    BY <1>5 DEF Prepared
  <2>3. SameListens  BY <1>t, <2>1, ListensSame
  <2>4. call[c].op = "connect"  BY <1>5
  <2>5. Others(c) /\ call'[c].pc = "bind"  BY <1>t, <2>2, MovesAre
  <2>. QED  BY <2>2, <2>3, <2>4, <2>5 DEF Clings
<1>6. Goes  BY <1>1, <1>2, <1>3, <1>4, <1>5
<1>7. SameRequests /\ IsFiniteSet(ops')  BY <1>6, <1>t, OpsFinite
<1>. QED  BY <1>6, <1>7, CountGoes

(* A step of thread c at its slot s changes the holders by these two.      *)
LEMMA HoldersMove ==
  ASSUME NEW c \in Callers, NEW s \in Socks, Others(c), SameRequests,
         \A x \in Socks \ {s}, k \in Listeners :
           SocketHolds(x, k)' <=> SocketHolds(x, k)
  PROVE  \A k \in Listeners :
           /\ <<"socket", s>> \in Holders(k) <=> SocketHolds(s, k)
           /\ <<"thread", c>> \in Holders(k) <=> ThreadHolds(c, k)
           /\ \A x : x \in Holders(k)' <=>
                \/ x \in Holders(k) /\ x # <<"socket", s>> /\ x # <<"thread", c>>
                \/ x = <<"socket", s>> /\ SocketHolds(s, k)'
                \/ x = <<"thread", c>> /\ ThreadHolds(c, k)'
PROOF
<1>1. \A d \in Callers \ {c} : \A k : ThreadHolds(d, k)' <=> ThreadHolds(d, k)
  BY DEF Others, ThreadHolds, Clings
<1>2. ASSUME NEW k \in Listeners
      PROVE  /\ <<"socket", s>> \in Holders(k) <=> SocketHolds(s, k)
             /\ <<"thread", c>> \in Holders(k) <=> ThreadHolds(c, k)
  BY InHolders
<1>3. ASSUME NEW k \in Listeners, NEW x
      PROVE  x \in Holders(k)' <=>
                \/ x \in Holders(k) /\ x # <<"socket", s>> /\ x # <<"thread", c>>
                \/ x = <<"socket", s>> /\ SocketHolds(s, k)'
                \/ x = <<"thread", c>> /\ ThreadHolds(c, k)'
  <2>1. \A op : op \in ops' /\ RequestHolds(op, k) <=> op \in ops /\ RequestHolds(op, k)
    BY DEF SameRequests, RequestHolds
  <2>. QED  BY <1>1, <2>1, InHolders
<1>. QED  BY <1>2, <1>3

(* What it holds of them itself: nobody else is at that slot.              *)
LEMMA OwnHolds ==
  ASSUME SlotInv, NEW c \in Callers, Mine(c), Others(c),
         NEW s \in Socks, s = call[c].s
  PROVE  /\ \A l : SocketHolds(s, l) <=>
                     sock[s].listen = l /\ call[c].pc # "clearListener"
         /\ \A l : SocketHolds(s, l)' <=>
                     /\ sock'[s].listen = l
                     /\ ~ (call'[c].pc = "clearListener" /\ call'[c].s = s)
PROOF
<1>1. ASSUME NEW d \in Callers \ {c}, call[d].pc = "clearListener", call[d].s = s
      PROVE  FALSE
  <2>1. call[d].op = "listen"
    BY <1>1, CallAt, Parts, Fields DEF SlotInv, ListenLabels
  <2>2. Mine(d)  BY <1>1, <2>1 DEF Mine
  <2>. QED  BY <1>1, <2>2 DEF SlotInv, Apart
<1>2. \A d \in Callers \ {c} : call'[d] = call[d]  BY DEF Others
<1>3. \A l : SocketHolds(s, l) <=>
               sock[s].listen = l /\ call[c].pc # "clearListener"
  BY <1>1 DEF SocketHolds, Amid
<1>4. \A l : SocketHolds(s, l)' <=>
               /\ sock'[s].listen = l
               /\ ~ (call'[c].pc = "clearListener" /\ call'[c].s = s)
  BY <1>1, <1>2 DEF SocketHolds, Amid
<1>. QED  BY <1>3, <1>4

LEMMA OthersHold ==
  ASSUME NEW c \in Callers, Others(c), NEW s \in Socks, s = call[c].s,
         call'[c].pc = "clearListener" => call'[c].s = s,
         \A x \in Socks \ {s} : sock'[x].listen = sock[x].listen
  PROVE  \A x \in Socks \ {s}, k \in Listeners :
           SocketHolds(x, k)' <=> SocketHolds(x, k)
PROOF
<1>1. \A d \in Callers \ {c} : call'[d] = call[d]  BY DEF Others
<1>2. ASSUME NEW x \in Socks \ {s}, NEW k \in Listeners
      PROVE  SocketHolds(x, k)' <=> SocketHolds(x, k)
  <2>1. Amid({"clearListener"}, x)' <=> Amid({"clearListener"}, x)
    BY <1>1 DEF Amid
  <2>. QED  BY <2>1 DEF SocketHolds
<1>. QED  BY <1>2

(* A listener is created for the slot, ...                                 *)
LEMMA CreateCount ==
  ASSUME SlotInv, CountInv, NEW u \in Users, CreateListener(u)
  PROVE  CountInv'
PROOF
<1>p. /\ call[u].pc = "createListener" /\ u \in Callers /\ Types
      /\ UNCHANGED ops /\ SameRequests /\ IsFiniteSet(ops')
  BY Parts, OpsFinite DEF CreateListener, SlotInv, CountInv
<1>1. CASE Goto(u, "undoListen") /\ UNCHANGED <<sock, refs>>
  <2>1. Away(u)  BY <1>1, <1>p, MovesAre DEF Away, Counted
  <2>. QED  BY <1>1, <1>p, <2>1, ListensSame, CountAway
<1>2. ASSUME NEW l \in Listeners, refs[l].count = 0,
             refs' = [refs EXCEPT ![l].count = 1],
             sock' = [sock EXCEPT ![call[u].s].listen = l],
             Goto(u, "bindListener")
      PROVE  CountInv'
  <2>1. call[u].op = "listen"
    BY <1>p, CallAt, Parts, Fields DEF ListenLabels
  <2>2. Mine(u)  BY <1>p, <2>1 DEF Mine
  <2>3. PICK s \in Socks : s = call[u].s  BY <1>p, <2>2, Own
  <2>4. Others(u) /\ call'[u].pc = "bindListener"  BY <1>2, <1>p, MovesAre
  <2>5. /\ sock'[s].listen = l
        /\ \A x \in Socks \ {s} : sock'[x].listen = sock[x].listen
    BY <1>2, <1>p, <2>3, SetListenIs DEF Elsewhere
  <2>6. \A x \in Socks \ {s}, k \in Listeners :
          SocketHolds(x, k)' <=> SocketHolds(x, k)
    BY <1>p, <2>2, <2>3, <2>4, <2>5, OthersHold
  <2>7. sock[s].listen = NoListener
    <3>1. StageState(u) /\ SlotOK(s) /\ sock[s].state = "StartToListen"
      BY <1>p, <2>2, <2>3, Own DEF StageState, Starting, SlotInv
    <3>2. StageListen(u)  BY <1>p, <2>2, Own
    <3>. QED  BY <1>p, <2>3, <3>2 DEF StageListen
  <2>8. /\ \A k \in Listeners : ~ SocketHolds(s, k)
        /\ \A k \in Listeners : SocketHolds(s, k)' <=> k = l
    <3>1. /\ \A k : SocketHolds(s, k) => k = NoListener
          /\ \A k : SocketHolds(s, k)' <=> k = l
      <4>1. \A k : SocketHolds(s, k) <=>
                  sock[s].listen = k /\ call[u].pc # "clearListener"
        BY <1>p, <2>2, <2>3, <2>4, OwnHolds
      <4>2. ASSUME NEW k
            PROVE  SocketHolds(s, k)' <=>
                     /\ sock'[s].listen = k
                     /\ ~ (call'[u].pc = "clearListener" /\ call'[u].s = s)
        <5>1. Others(u) /\ u \in Callers  BY <1>p, <2>4
        <5>. QED  BY <2>2, <2>3, <5>1, OwnHolds
      <4>. QED  BY <2>4, <2>5, <2>7, <4>1, <4>2
    <3>. QED  BY <3>1, SocketTableAssumption
  <2>9. \A k : ~ ThreadHolds(u, k) /\ ~ ThreadHolds(u, k)'
    BY <1>p, <2>4 DEF ThreadHolds, Clings
  <2>10. \A k \in Listeners :
           /\ <<"socket", s>> \in Holders(k) <=> SocketHolds(s, k)
           /\ <<"thread", u>> \in Holders(k) <=> ThreadHolds(u, k)
           /\ \A x : x \in Holders(k)' <=>
                \/ x \in Holders(k) /\ x # <<"socket", s>> /\ x # <<"thread", u>>
                \/ x = <<"socket", s>> /\ SocketHolds(s, k)'
                \/ x = <<"thread", u>> /\ ThreadHolds(u, k)'
    BY <1>p, <2>4, <2>6, HoldersMove
  <2>11. /\ <<"socket", s>> \notin Holders(l)
         /\ Holders(l)' = Holders(l) \cup {<<"socket", s>>}
         /\ \A k \in Listeners \ {l} : Holders(k)' = Holders(k)
    BY <2>8, <2>9, <2>10
  <2>12. /\ \A k \in Listeners \ {l} : refs'[k] = refs[k]
         /\ refs'[l].count = 1 /\ refs'[l].lost = refs[l].lost
    BY <1>2, <1>p DEF Types, RefRec
  <2>. QED  BY <1>2, <1>p, <2>11, <2>12, CountMore DEF KeepCounts
<1>. QED  BY <1>1, <1>2 DEF CreateListener

(* ... given up by its scope guard, which then clears the pointer.         *)
LEMMA UndoCount ==
  ASSUME SlotInv, CountInv, NEW u \in Users, UndoListener(u)
  PROVE  CountInv'
PROOF
<1>p. /\ call[u].pc = "undoListener" /\ u \in Callers /\ Types
      /\ UNCHANGED <<sock, ops>> /\ SameRequests /\ IsFiniteSet(ops')
      /\ refs \in [Listeners -> RefRec]
  BY Parts, OpsFinite DEF UndoListener, SlotInv, CountInv, Types
<1>1. CASE Return(u) /\ UNCHANGED refs
  <2>1. Away(u)  BY <1>1, <1>p, MovesAre DEF Away, Counted
  <2>. QED  BY <1>1, <1>p, <2>1, ListensSame, CountAway
<1>2. CASE ~ (Return(u) /\ UNCHANGED refs)
  <2>1. call[u].op = "listen"
    BY <1>p, CallAt, Parts, Fields DEF ListenLabels
  <2>2. Mine(u)  BY <1>p, <2>1 DEF Mine
  <2>3. PICK s \in Socks : s = call[u].s  BY <1>p, <2>2, Own
  <2>4. PICK l \in Listeners : /\ l = sock[s].listen /\ refs' = Release(l)
                               /\ Goto(u, "clearListener")
    <3>1. PICK l : l = sock[s].listen  OBVIOUS
    <3>2. l # NoListener /\ refs' = Release(l) /\ Goto(u, "clearListener")
      BY <1>2, <2>3, <3>1 DEF UndoListener
    <3>. QED  BY <1>p, <3>1, <3>2, Fields
  <2>5. /\ Others(u) /\ call'[u].pc = "clearListener" /\ call'[u].s = s
    BY <1>p, <2>3, <2>4, GotoIs DEF Labels, SameCall
  <2>6. \A x \in Socks \ {s}, k \in Listeners :
          SocketHolds(x, k)' <=> SocketHolds(x, k)
    BY <1>p, <2>2, <2>3, <2>5, OthersHold
  <2>7. /\ \A k \in Listeners : SocketHolds(s, k) <=> k = l
        /\ \A k \in Listeners : ~ SocketHolds(s, k)'
    BY <1>p, <2>2, <2>3, <2>4, <2>5, OwnHolds
  <2>8. \A k : ~ ThreadHolds(u, k) /\ ~ ThreadHolds(u, k)'
    BY <1>p, <2>5 DEF ThreadHolds, Clings
  <2>9. \A k \in Listeners :
           /\ <<"socket", s>> \in Holders(k) <=> SocketHolds(s, k)
           /\ <<"thread", u>> \in Holders(k) <=> ThreadHolds(u, k)
           /\ \A x : x \in Holders(k)' <=>
                \/ x \in Holders(k) /\ x # <<"socket", s>> /\ x # <<"thread", u>>
                \/ x = <<"socket", s>> /\ SocketHolds(s, k)'
                \/ x = <<"thread", u>> /\ ThreadHolds(u, k)'
    BY <1>p, <2>5, <2>6, HoldersMove
  <2>10. /\ <<"socket", s>> \in Holders(l)
         /\ Holders(l)' = Holders(l) \ {<<"socket", s>>}
         /\ \A k \in Listeners \ {l} : Holders(k)' = Holders(k)
    BY <2>7, <2>8, <2>9
  <2>11. /\ \A k \in Listeners \ {l} : refs'[k] = refs[k]
         /\ refs'[l].count = refs[l].count - 1 /\ refs'[l].lost = refs[l].lost
         /\ refs[l].count \in Int /\ refs[l].lost \in Int
    BY <1>p, <2>4 DEF Release, RefRec
  <2>12. KeepCounts(l)  BY <2>10, <2>11 DEF KeepCounts
  <2>13. /\ refs'[l].count - refs'[l].lost = refs[l].count - refs[l].lost - 1
         /\ refs'[l].count \in Int /\ refs'[l].lost \in Int
    BY <2>11
  <2>. QED  BY <1>p, <2>10, <2>12, <2>13, CountLess
<1>. QED  BY <1>1, <1>2

LEMMA ClearCount ==
  ASSUME SlotInv, CountInv, NEW u \in Users, ClearListener(u)
  PROVE  CountInv'
PROOF
<1>p. /\ call[u].pc = "clearListener" /\ u \in Callers /\ Types
      /\ UNCHANGED <<refs, ops>> /\ SameRequests /\ IsFiniteSet(ops')
      /\ sock' = [sock EXCEPT ![call[u].s].listen = NoListener] /\ Return(u)
  BY Parts, OpsFinite DEF ClearListener, SlotInv, CountInv
<1>1. call[u].op = "listen"
  BY <1>p, CallAt, Parts, Fields DEF ListenLabels
<1>2. Mine(u)  BY <1>p, <1>1 DEF Mine
<1>3. PICK s \in Socks : s = call[u].s  BY <1>p, <1>2, Own
<1>4. Others(u) /\ call'[u].pc = "idle"  BY <1>p, MovesAre
<1>5. /\ sock'[s].listen = NoListener
      /\ \A x \in Socks \ {s} : sock'[x].listen = sock[x].listen
  BY <1>p, <1>3, SetListenIs DEF Elsewhere
<1>6. \A x \in Socks \ {s}, k \in Listeners :
        SocketHolds(x, k)' <=> SocketHolds(x, k)
  BY <1>p, <1>2, <1>3, <1>4, <1>5, OthersHold
<1>7. \A k \in Listeners : ~ SocketHolds(s, k) /\ ~ SocketHolds(s, k)'
  <2>1. /\ \A k : ~ SocketHolds(s, k)
        /\ \A k : SocketHolds(s, k)' => k = NoListener
    <3>1. \A k : SocketHolds(s, k) <=>
                  sock[s].listen = k /\ call[u].pc # "clearListener"
      BY <1>p, <1>2, <1>3, <1>4, OwnHolds
    <3>2. \A k : SocketHolds(s, k)' <=>
                  /\ sock'[s].listen = k
                  /\ ~ (call'[u].pc = "clearListener" /\ call'[u].s = s)
      BY <1>p, <1>2, <1>3, <1>4, OwnHolds
    <3>. QED  BY <1>p, <1>4, <1>5, <3>1, <3>2
  <2>. QED  BY <2>1, SocketTableAssumption
<1>8. SameSockets  BY <1>6, <1>7 DEF SameSockets
<1>9. SameThreads
  <2>1. ASSUME NEW d \in Callers, NEW l \in Listeners
        PROVE  ThreadHolds(d, l)' <=> ThreadHolds(d, l)
    <3>1. CASE d = u  BY <1>p, <1>4, <3>1 DEF ThreadHolds, Clings
    <3>2. CASE d # u  BY <1>4, <3>2 DEF Others, ThreadHolds, Clings
    <3>. QED  BY <3>1, <3>2
  <2>. QED  BY <2>1 DEF SameThreads
<1>. QED  BY <1>p, <1>8, <1>9, CountSame

(* A thread takes a reference, gives it up or forgets it.                  *)
LEMMA ThreadMove ==
  ASSUME NEW c \in Callers, Others(c), SameListens, SameRequests,
         call[c].pc # "clearListener", call'[c].pc # "clearListener"
  PROVE  \A k \in Listeners :
           /\ <<"thread", c>> \in Holders(k) <=> ThreadHolds(c, k)
           /\ \A x : x \in Holders(k)' <=>
                \/ x \in Holders(k) /\ x # <<"thread", c>>
                \/ x = <<"thread", c>> /\ ThreadHolds(c, k)'
PROOF
<1>1. \A d \in Callers \ {c} : \A k : ThreadHolds(d, k)' <=> ThreadHolds(d, k)
  BY DEF Others, ThreadHolds, Clings
<1>2. \A x : Amid({"clearListener"}, x)' <=> Amid({"clearListener"}, x)
  BY DEF Others, Amid
<1>3. \A s \in Socks : \A k : SocketHolds(s, k)' <=> SocketHolds(s, k)
  BY <1>2 DEF SameListens, SocketHolds
<1>4. ASSUME NEW k \in Listeners
      PROVE  <<"thread", c>> \in Holders(k) <=> ThreadHolds(c, k)
  BY InHolders
<1>5. ASSUME NEW k \in Listeners, NEW x
      PROVE  x \in Holders(k)' <=>
                \/ x \in Holders(k) /\ x # <<"thread", c>>
                \/ x = <<"thread", c>> /\ ThreadHolds(c, k)'
  <2>1. \A op : op \in ops' /\ RequestHolds(op, k) <=> op \in ops /\ RequestHolds(op, k)
    BY DEF SameRequests, RequestHolds
  <2>. QED  BY <1>1, <1>3, <2>1, InHolders
<1>. QED  BY <1>4, <1>5

LEMMA AcceptRefCount ==
  ASSUME SlotInv, CountInv, NEW u \in Users, AcceptRef(u)
  PROVE  CountInv'
PROOF
<1>p. /\ call[u].pc = "acceptRef" /\ u \in Callers /\ Types
      /\ UNCHANGED <<sock, ops>> /\ SameRequests /\ IsFiniteSet(ops')
      /\ refs \in [Listeners -> RefRec]
  BY Parts, OpsFinite DEF AcceptRef, SlotInv, CountInv, Types
<1>1. call[u].op = "accept"  BY <1>p, CallAt, Parts, Fields
<1>2. Mine(u)  BY <1>p, <1>1 DEF Mine
<1>3. StageListen(u)  BY <1>p, <1>2, Own
<1>4. PICK l \in Listeners : l = call[u].l  BY <1>p, <1>3 DEF StageListen
<1>5. refs' = AddRef(l) /\ Goto(u, "takeTerm")  BY <1>4 DEF AcceptRef
<1>6. /\ Others(u) /\ call'[u].pc = "takeTerm" /\ call'[u].op = "accept"
      /\ call'[u].l = l
  BY <1>p, <1>1, <1>4, <1>5, MovesAre
<1>7. /\ \A k : ~ ThreadHolds(u, k)
      /\ \A k : ThreadHolds(u, k)' <=> k = l
  BY <1>p, <1>6 DEF ThreadHolds, Clings
<1>8. SameListens  BY <1>p, ListensSame
<1>9. \A k \in Listeners :
        /\ <<"thread", u>> \in Holders(k) <=> ThreadHolds(u, k)
        /\ \A x : x \in Holders(k)' <=>
             \/ x \in Holders(k) /\ x # <<"thread", u>>
             \/ x = <<"thread", u>> /\ ThreadHolds(u, k)'
  BY <1>p, <1>6, <1>8, ThreadMove
<1>10. /\ <<"thread", u>> \notin Holders(l)
       /\ Holders(l)' = Holders(l) \cup {<<"thread", u>>}
       /\ \A k \in Listeners \ {l} : Holders(k)' = Holders(k)
  BY <1>7, <1>9
<1>11. /\ \A k \in Listeners \ {l} : refs'[k] = refs[k]
       /\ refs'[l].count = refs[l].count + 1 /\ refs'[l].lost = refs[l].lost
  BY <1>p, <1>5 DEF AddRef, RefRec
<1>. QED  BY <1>p, <1>10, <1>11, CountMore DEF KeepCounts

(* Thread c no longer holds listener l; count or lost says so.             *)
LEMMA ThreadLess ==
  ASSUME Types, CountInv, NEW c \in Callers, NEW l \in Listeners, Others(c),
         SameListens, UNCHANGED ops,
         call[c].pc # "clearListener", call'[c].pc # "clearListener",
         call[c].l = l, Clings(c), ~ Clings(c)',
         \A k \in Listeners \ {l} : refs'[k] = refs[k],
         refs'[l].count - refs'[l].lost = refs[l].count - refs[l].lost - 1,
         refs'[l].count \in Int, refs'[l].lost \in Int
  PROVE  CountInv'
PROOF
<1>p. SameRequests /\ IsFiniteSet(ops')  BY OpsFinite DEF CountInv
<1>1. /\ \A k : ThreadHolds(c, k) <=> k = l
      /\ \A k : ~ ThreadHolds(c, k)'
  BY DEF ThreadHolds
<1>2. \A k \in Listeners :
        /\ <<"thread", c>> \in Holders(k) <=> ThreadHolds(c, k)
        /\ \A x : x \in Holders(k)' <=>
             \/ x \in Holders(k) /\ x # <<"thread", c>>
             \/ x = <<"thread", c>> /\ ThreadHolds(c, k)'
  BY <1>p, ThreadMove
<1>3. PICK x : x = <<"thread", c>>  OBVIOUS
<1>4. /\ x \in Holders(l)
      /\ \A k \in Listeners \ {l} : x \notin Holders(k)
      /\ \A k \in Listeners : \A y : y \in Holders(k)' <=> y \in Holders(k) /\ y # x
  BY <1>1, <1>2, <1>3
<1>5. Holders(l)' = Holders(l) \ {x}
  <2>1. \A y : y \in Holders(l)' <=> y \in Holders(l) /\ y # x  BY <1>4
  <2>. QED  BY <2>1
<1>6. ASSUME NEW k \in Listeners \ {l}  PROVE Holders(k)' = Holders(k)
  <2>1. \A y : y \in Holders(k)' <=> y \in Holders(k)  BY <1>4
  <2>. QED  BY <2>1
<1>7. KeepCounts(l)  BY <1>6 DEF KeepCounts
<1>. QED  BY <1>p, <1>4, <1>5, <1>7, CountLess

LEMMA ReleaseCount ==
  ASSUME SlotInv, CountInv, NEW c \in Callers, ReleaseListener(c)
  PROVE  CountInv'
PROOF
<1>p. /\ call[c].pc = "release" /\ Types /\ UNCHANGED <<sock, ops>>
      /\ refs \in [Listeners -> RefRec]
  BY DEF ReleaseListener, SlotInv, Types
<1>1. call[c].op = "close"  BY <1>p, CallAt, Parts, Fields
<1>2. Mine(c)  BY <1>p, <1>1 DEF Mine
<1>3. StageListen(c)  BY <1>p, <1>2, Own
<1>4. PICK l \in Listeners : l = call[c].l  BY <1>p, <1>3 DEF StageListen
<1>5. refs' = Release(l) /\ Goto(c, "giveBack")  BY <1>4 DEF ReleaseListener
<1>6. Others(c) /\ call'[c].pc = "giveBack"  BY <1>p, <1>5, MovesAre
<1>7. Clings(c) /\ ~ Clings(c)'  BY <1>p, <1>6 DEF Clings
<1>8. SameListens  BY <1>p, ListensSame
<1>9. /\ \A k \in Listeners \ {l} : refs'[k] = refs[k]
      /\ refs'[l].count = refs[l].count - 1 /\ refs'[l].lost = refs[l].lost
      /\ refs[l].count \in Int /\ refs[l].lost \in Int
  BY <1>p, <1>5 DEF Release, RefRec
<1>10. /\ refs'[l].count - refs'[l].lost = refs[l].count - refs[l].lost - 1
       /\ refs'[l].count \in Int /\ refs'[l].lost \in Int
  BY <1>9
<1>. QED  BY <1>p, <1>4, <1>6, <1>7, <1>8, <1>9, <1>10, ThreadLess

LEMMA PrepareFailsCount ==
  ASSUME SlotInv, CountInv, NEW u \in Users, PrepareFails(u), call[u].op = "accept"
  PROVE  CountInv'
PROOF
<1>p. /\ call[u].pc = "prepare" /\ u \in Callers /\ Types
      /\ UNCHANGED <<sock, ops>> /\ refs \in [Listeners -> RefRec]
  BY Parts DEF PrepareFails, SlotInv, Types
<1>2. Mine(u)  BY <1>p DEF Mine
<1>3. StageListen(u)  BY <1>p, <1>2, Own
<1>4. PICK l \in Listeners : l = call[u].l  BY <1>p, <1>3 DEF StageListen
<1>5. refs' = [refs EXCEPT ![l].lost = @ + 1] /\ Goto(u, "giveBack")
  BY <1>4 DEF PrepareFails
<1>6. Others(u) /\ call'[u].pc = "giveBack"  BY <1>p, <1>5, MovesAre
<1>7. Clings(u) /\ ~ Clings(u)'  BY <1>p, <1>6 DEF Clings
<1>8. SameListens  BY <1>p, ListensSame
<1>9. /\ \A k \in Listeners \ {l} : refs'[k] = refs[k]
      /\ refs'[l].count = refs[l].count /\ refs'[l].lost = refs[l].lost + 1
      /\ refs[l].count \in Int /\ refs[l].lost \in Int
  BY <1>p, <1>5 DEF RefRec
<1>10. /\ refs'[l].count - refs'[l].lost = refs[l].count - refs[l].lost - 1
       /\ refs'[l].count \in Int /\ refs'[l].lost \in Int
  BY <1>9
<1>. QED  BY <1>p, <1>4, <1>6, <1>7, <1>8, <1>9, <1>10, ThreadLess

(* The reference of the listening socket goes to the thread that ends it,  *)
LEMMA UnlistenCount ==
  ASSUME SlotInv, CountInv, NEW c \in Callers, Unlisten(c)
  PROVE  CountInv'
PROOF
<1>p. /\ call[c].pc = "unlisten" /\ Types
      /\ UNCHANGED <<refs, ops>> /\ SameRequests /\ IsFiniteSet(ops')
      /\ sock' = [sock EXCEPT ![call[c].s].listen = NoListener]
      /\ Goto(c, "stopListening")
  BY OpsFinite DEF Unlisten, SlotInv, CountInv
<1>1. call[c].op = "close"  BY <1>p, CallAt, Parts, Fields
<1>2. Mine(c)  BY <1>p, <1>1 DEF Mine
<1>3. PICK s \in Socks : s = call[c].s  BY <1>p, <1>2, Own
<1>4. StageListen(c)  BY <1>2, Own
<1>5. PICK l \in Listeners : l = sock[s].listen /\ call[c].l = l
  BY <1>p, <1>3, <1>4, Fields DEF StageListen
<1>6. Others(c) /\ call'[c].pc = "stopListening" /\ call'[c].l = l
  BY <1>p, <1>5, MovesAre
<1>7. /\ sock'[s].listen = NoListener
      /\ \A x \in Socks \ {s} : sock'[x].listen = sock[x].listen
  BY <1>p, <1>3, SetListenIs DEF Elsewhere
<1>8. \A x \in Socks \ {s}, k \in Listeners :
        SocketHolds(x, k)' <=> SocketHolds(x, k)
  BY <1>3, <1>6, <1>7, OthersHold
<1>9. ASSUME NEW k  PROVE SocketHolds(s, k) <=> k = l
  <2>1. SocketHolds(s, k) <=> sock[s].listen = k /\ call[c].pc # "clearListener"
    <3>1. Others(c)  BY <1>6
    <3>. QED  BY <1>2, <1>3, <3>1, OwnHolds
  <2>. QED  BY <1>p, <1>5, <2>1
<1>10. ASSUME NEW k  PROVE SocketHolds(s, k)' => k = NoListener
  <2>1. SocketHolds(s, k)' <=>
          /\ sock'[s].listen = k
          /\ ~ (call'[c].pc = "clearListener" /\ call'[c].s = s)
    <3>1. Others(c)  BY <1>6
    <3>. QED  BY <1>2, <1>3, <3>1, OwnHolds
  <2>. QED  BY <1>7, <2>1
<1>11. \A k \in Listeners : ~ SocketHolds(s, k)'
  BY <1>10, SocketTableAssumption
<1>12. /\ \A k : ~ ThreadHolds(c, k)
       /\ \A k : ThreadHolds(c, k)' <=> k = l
  BY <1>p, <1>6 DEF ThreadHolds, Clings
<1>13. \A k \in Listeners :
         /\ <<"socket", s>> \in Holders(k) <=> SocketHolds(s, k)
         /\ <<"thread", c>> \in Holders(k) <=> ThreadHolds(c, k)
         /\ \A x : x \in Holders(k)' <=>
              \/ x \in Holders(k) /\ x # <<"socket", s>> /\ x # <<"thread", c>>
              \/ x = <<"socket", s>> /\ SocketHolds(s, k)'
              \/ x = <<"thread", c>> /\ ThreadHolds(c, k)'
  BY <1>p, <1>6, <1>8, HoldersMove
<1>14. PICK x, y : x = <<"socket", s>> /\ y = <<"thread", c>>  OBVIOUS
<1>15. x \in Holders(l) /\ y \notin Holders(l)
  BY <1>9, <1>12, <1>13, <1>14
<1>16. Holders(l)' = (Holders(l) \ {x}) \cup {y}
  <2>1. \A z : z \in Holders(l)' <=> (z \in Holders(l) /\ z # x) \/ z = y
    BY <1>11, <1>12, <1>13, <1>14
  <2>. QED  BY <2>1
<1>17. KeepCounts(l)
  <2>1. ASSUME NEW k \in Listeners \ {l}  PROVE Holders(k)' = Holders(k)
    BY <1>9, <1>11, <1>12, <1>13
  <2>. QED  BY <1>p, <2>1 DEF KeepCounts
<1>. QED  BY <1>p, <1>15, <1>16, <1>17, CountMoved

(* that of an Accept to the pending request, ...                           *)
LEMMA PreparedCount ==
  ASSUME SlotInv, CountInv, NEW u \in Users, Prepared(u), call[u].op = "accept"
  PROVE  CountInv'
PROOF
<1>p. /\ call[u].pc = "prepare" /\ u \in Callers /\ Types /\ IsFiniteSet(ops)
      /\ UNCHANGED refs
  BY Parts DEF Prepared, SlotInv, CountInv
<1>1. Mine(u)  BY <1>p DEF Mine
<1>2. StageListen(u)  BY <1>p, <1>1, Own
<1>3. PICK l \in Listeners : l = call[u].l  BY <1>p, <1>2 DEF StageListen
<1>4. PICK op : /\ op = [kind |-> "connReq", s |-> call[u].s, t |-> call[u].t,
                         listener |-> l]
                /\ ops' = ops \cup {op}
  BY <1>3 DEF Prepared, Issue
<1>5. op.kind = "connReq" /\ op.listener = l /\ op.s = call[u].s  BY <1>4
<1>6. op \notin ops  BY <1>1, <1>5, <1>p, MineNotOp DEF Early
<1>7. Return(u)  BY DEF Prepared
<1>8. Others(u) /\ call'[u].pc = "idle"  BY <1>p, <1>7, MovesAre
<1>9. SameListens
  <2>1. PICK s, t : sock' = [sock EXCEPT ![s].term = t]  BY DEF Prepared
  <2>. QED  BY <1>p, <2>1, ListensSame
<1>10. \A d \in Callers \ {u} : \A k : ThreadHolds(d, k)' <=> ThreadHolds(d, k)
  BY <1>8 DEF Others, ThreadHolds, Clings
<1>11. \A x : Amid({"clearListener"}, x)' <=> Amid({"clearListener"}, x)
  BY <1>p, <1>8 DEF Others, Amid
<1>12. \A s \in Socks : \A k : SocketHolds(s, k)' <=> SocketHolds(s, k)
  BY <1>9, <1>11 DEF SameListens, SocketHolds
<1>13. /\ \A k : ThreadHolds(u, k) <=> k = l
       /\ \A k : ~ ThreadHolds(u, k)'
  BY <1>p, <1>3, <1>8 DEF ThreadHolds, Clings
<1>14. \A k : RequestHolds(op, k) <=> k = l  BY <1>5 DEF RequestHolds
<1>15. PICK x, y : x = <<"thread", u>> /\ y = <<"request", op>>  OBVIOUS
<1>16. x \in Holders(l) /\ y \notin Holders(l)
  BY <1>p, <1>6, <1>13, <1>15, InHolders
<1>17. \A k \in Listeners : \A z :
         z \in Holders(k)' <=> (z \in Holders(k) /\ z # x) \/ (z = y /\ k = l)
  <2>1. ASSUME NEW k \in Listeners, NEW z
        PROVE  z \in Holders(k)' <=> (z \in Holders(k) /\ z # x) \/ (z = y /\ k = l)
    BY <1>p, <1>4, <1>10, <1>12, <1>13, <1>14, <1>15, InHolders
  <2>. QED  BY <2>1
<1>18. \A k \in Listeners \ {l} : x \notin Holders(k)
  BY <1>13, <1>15, InHolders
<1>19. /\ Holders(l)' = (Holders(l) \ {x}) \cup {y}
       /\ \A k \in Listeners \ {l} : Holders(k)' = Holders(k)
  BY <1>17, <1>18
<1>20. KeepCounts(l) /\ refs'[l] = refs[l] /\ IsFiniteSet(ops')
  BY <1>p, <1>4, <1>19, OpsFinite DEF KeepCounts
<1>. QED  BY <1>p, <1>16, <1>19, <1>20, CountMoved

(* whose handler gives it up.                                              *)
LEMMA ConnReqCount ==
  ASSUME SlotInv, CountInv, NEW op \in ops, ProcessConnReq(op)
  PROVE  CountInv'
PROOF
<1>p. /\ op.kind = "connReq" /\ Types /\ IsFiniteSet(ops)
      /\ refs' = Release(op.listener) /\ UNCHANGED call
      /\ refs \in [Listeners -> RefRec]
  BY DEF ProcessConnReq, SlotInv, CountInv, Types
<1>1. OpOK(op)  BY Parts
<1>2. PICK l \in Listeners : l = op.listener  BY <1>p, <1>1 DEF OpOK
<1>3. SameListens
  <2>1. FreeBoth(op.s, op.t) \/ UNCHANGED sock  BY DEF ProcessConnReq
  <2>. QED  BY <1>p, <2>1, ListensSame
<1>4. /\ IsFiniteSet(ops') /\ op \notin ops'
      /\ \A o : o # op /\ o.kind = "connReq" => (o \in ops' <=> o \in ops)
  <2>1. CASE Finished(op)
    BY <1>p, <2>1, OpsFinite DEF Finished
  <2>2. CASE Becomes(op, "agree")
    <3>1. PICK new : new = [op EXCEPT !.kind = "agree"]  OBVIOUS
    <3>2. ops' = (ops \ {op}) \cup {new}  BY <2>2, <3>1 DEF Becomes
    <3>3. new.kind = "agree"  BY <1>p, <3>1 DEF Types, Op
    <3>4. IsFiniteSet(ops')  BY <1>p, <2>2, OpsFinite
    <3>. QED  BY <1>p, <3>2, <3>3, <3>4
  <2>. QED  BY <2>1, <2>2 DEF ProcessConnReq
<1>5. /\ \A c \in Callers : \A k : ThreadHolds(c, k)' <=> ThreadHolds(c, k)
      /\ \A s \in Socks : \A k : SocketHolds(s, k)' <=> SocketHolds(s, k)
  BY <1>p, <1>3 DEF ThreadHolds, Clings, SocketHolds, SameListens, Amid
<1>6. \A k : RequestHolds(op, k) <=> k = l  BY <1>p, <1>2 DEF RequestHolds
<1>7. \A k, o : o # op => (o \in ops' /\ RequestHolds(o, k)
                             <=> o \in ops /\ RequestHolds(o, k))
  BY <1>4 DEF RequestHolds
<1>8. PICK x : x = <<"request", op>>  OBVIOUS
<1>9. x \in Holders(l) /\ \A k \in Listeners \ {l} : x \notin Holders(k)
  BY <1>6, <1>8, InHolders
<1>10. \A k \in Listeners : \A z : z \in Holders(k)' <=> z \in Holders(k) /\ z # x
  <2>1. ASSUME NEW k \in Listeners, NEW z
        PROVE  z \in Holders(k)' <=> z \in Holders(k) /\ z # x
    BY <1>4, <1>5, <1>7, <1>8, InHolders
  <2>. QED  BY <2>1
<1>11. /\ Holders(l)' = Holders(l) \ {x}
       /\ \A k \in Listeners \ {l} : Holders(k)' = Holders(k)
  BY <1>9, <1>10
<1>12. /\ \A k \in Listeners \ {l} : refs'[k] = refs[k]
       /\ refs'[l].count = refs[l].count - 1 /\ refs'[l].lost = refs[l].lost
       /\ refs[l].count \in Int /\ refs[l].lost \in Int
  BY <1>p, <1>2 DEF Release, RefRec
<1>13. KeepCounts(l)  BY <1>11, <1>12 DEF KeepCounts
<1>14. /\ refs'[l].count - refs'[l].lost = refs[l].count - refs[l].lost - 1
       /\ refs'[l].count \in Int /\ refs'[l].lost \in Int
  BY <1>12
<1>. QED  BY <1>p, <1>4, <1>9, <1>11, <1>13, <1>14, CountLess

(* Every step preserves it.                                                *)
LEMMA CountStep ==
  ASSUME SlotInv, CountInv, [Next]_vars
  PROVE  CountInv'
PROOF
<1>t. Types /\ IsFiniteSet(ops)  BY DEF SlotInv, CountInv
<1>s. ASSUME UNCHANGED <<sock, refs, ops, call>>  PROVE CountInv'
  BY <1>s, <1>t, ListensSame, OpsFinite, CountHandler
<1>1. CASE UNCHANGED vars  BY <1>1, <1>s DEF vars
<1>2. ASSUME NEW u \in Users, User(u) \/ InCall(u) \/ CloseGiveUp(u)
      PROVE  CountInv'
  <2>c. u \in Callers  BY DEF Callers
  <2>1. CASE User(u)
    BY <2>1, <2>c, QuietSteps DEF User
  <2>2. CASE \/ AcceptSock(u) \/ ListenCheck(u) \/ ListenAgain(u)
             \/ BindListener(u) \/ AcceptCheck(u) \/ AcceptListen(u)
             \/ ConnectCheck(u) \/ UndoTerm(u) \/ CloseRead(u)
    BY <2>2, <2>c, QuietSteps
  <2>3. CASE \/ Publish(u) \/ ListenSet(u) \/ ListenEnd(u) \/ UndoListen(u)
             \/ Accept1(u) \/ ConnectSet(u) \/ UndoConnect(u) \/ ClearTerm(u)
             \/ Bind(u)
    BY <2>3, <2>c, PlainSteps
  <2>4. CASE ConnectAgain(u) \/ TakeTerm(u)
    BY <2>4, <2>c, HoldSteps
  <2>5. CASE PrepareFails(u) \/ Prepared(u)
    <3>1. CASE call[u].op = "connect"
      BY <2>5, <2>c, <3>1, HoldSteps
    <3>2. CASE call[u].op = "accept"
      BY <2>5, <3>2, PrepareFailsCount, PreparedCount
    <3>3. call[u].pc = "prepare"
      BY <2>5 DEF PrepareFails, Prepared
    <3>4. call[u].op \in {"accept", "connect"}
      BY <2>c, <3>3, CallAt, Parts, Fields DEF SlotInv
    <3>. QED  BY <3>1, <3>2, <3>4
  <2>6. CASE CreateListener(u) \/ UndoListener(u) \/ ClearListener(u)
    BY <2>6, CreateCount, UndoCount, ClearCount
  <2>7. CASE AcceptRef(u)  BY <2>7, AcceptRefCount
  <2>8. CASE CloseGiveUp(u)  BY <2>8, <1>s DEF CloseGiveUp
  <2>. QED
    BY <1>2, <2>1, <2>2, <2>3, <2>4, <2>5, <2>6, <2>7, <2>8 DEF InCall
<1>3. ASSUME NEW c \in Callers, TryCloseSocket(c)  PROVE CountInv'
  <2>1. CASE ReadTerm(c) \/ PostClose(c) \/ ReadListener(c)
    BY <2>1, QuietSteps
  <2>2. CASE StopIdle(c) \/ GiveBack(c)  BY <2>2, PlainSteps
  <2>3. CASE StopListening(c)  BY <2>3, HoldSteps
  <2>4. CASE Unlisten(c)  BY <2>4, UnlistenCount
  <2>5. CASE ReleaseListener(c)  BY <2>5, ReleaseCount
  <2>. QED  BY <1>3, <2>1, <2>2, <2>3, <2>4, <2>5 DEF TryCloseSocket
<1>4. ASSUME NEW op \in ops, ProcessConnReq(op)  PROVE CountInv'
  BY <1>4, ConnReqCount
<1>5. ASSUME NEW op \in ops,
             \/ OnConnAck(op) \/ OnConnAccepted(op) \/ Settle(op)
             \/ Connected(op) \/ Tell(op)
      PROVE  CountInv'
  <2>1. op.kind # "connReq" /\ UNCHANGED <<call, refs>>
    BY <1>5 DEF OnConnAck, OnConnAccepted, Settle, Connected, Tell
  <2>2. SameListens
    <3>1. UNCHANGED sock \/ \E v : sock' = [sock EXCEPT ![op.s].state = v]
      BY <1>5 DEF OnConnAck, OnConnAccepted, Settle, Connected, Tell, SetState
    <3>. QED  BY <1>t, <3>1, ListensSame
  <2>3. \/ UNCHANGED ops \/ Finished(op)
        \/ \E kind \in {"agree", "settle", "connected", "tell"} : Becomes(op, kind)
    BY <1>5 DEF OnConnAck, OnConnAccepted, Settle, Connected, Tell
  <2>4. SameRequests /\ IsFiniteSet(ops')
    BY <1>t, <2>1, <2>3, OpsFinite
  <2>. QED  BY <2>1, <2>2, <2>4, CountHandler
<1>6. ASSUME NEW t \in Terms, Closer(t) \/ PeerDisconnect(t)  PROVE CountInv'
  <2>1. UNCHANGED <<call, refs, ops>>
    BY <1>6 DEF Closer, CloserBegin, CloserEnd, PeerDisconnect
  <2>2. \/ UNCHANGED sock \/ (\E s, v : SetState(s, v)) \/ (\E s : FreeBoth(s, t))
    BY <1>6 DEF Closer, CloserBegin, CloserEnd, PeerDisconnect
  <2>3. SameListens  BY <1>t, <2>2, ListensSame
  <2>. QED  BY <1>t, <2>1, <2>3, OpsFinite, CountHandler
<1>7. ASSUME Shutdown  PROVE CountInv'
  BY <1>7, <1>s DEF Shutdown
<1>8. ASSUME NEW s \in Socks, ShutdownRead(s)  PROVE CountInv'
  BY <1>8, Parts, QuietSteps
<1>9. ASSUME Running  PROVE CountInv'
  BY <1>2, <1>3, <1>4, <1>5, <1>6, <1>7, <1>8, <1>9 DEF Running, Handler
<1>. QED  BY <1>1, <1>9 DEF Next, Rest, Dead

LEMMA CountInit == Init => CountInv
PROOF
<1>. SUFFICES ASSUME Init  PROVE CountInv
  OBVIOUS
<1>1. IsFiniteSet(ops)  BY FS_EmptySet DEF Init
<1>2. \A c \in Callers : call[c].pc = "idle"  BY DEF Init, IdleCall
<1>3. ASSUME NEW l \in Listeners  PROVE Holders(l) = {}
  <2>1. \A s \in Socks : ~ SocketHolds(s, l)
    BY SocketTableAssumption DEF Init, SocketHolds
  <2>2. \A c \in Callers : ~ ThreadHolds(c, l)
    BY <1>2 DEF ThreadHolds, Clings
  <2>3. ops = {}  BY DEF Init
  <2>4. \A x : x \notin Holders(l)  BY <2>1, <2>2, <2>3, InHolders
  <2>. QED  BY <2>4
<1>4. \A l \in Listeners : refs[l].count = 0 /\ refs[l].lost = 0
  BY DEF Init
<1>5. Cardinality({}) = 0  BY FS_EmptySet
<1>6. ListenersCounted  BY <1>3, <1>4, <1>5 DEF ListenersCounted
<1>. QED  BY <1>1, <1>6 DEF CountInv

-----------------------------------------------------------------------------
(* The assertions                                                          *)

(* A listener somebody holds is alive, and no count is negative.           *)
LEMMA HeldAlive ==
  ASSUME Types, CountInv, NEW l \in Listeners
  PROVE  /\ refs[l].count \in Nat
         /\ Holders(l) # {} => Alive(l)
PROOF
<1>1. IsFiniteSet(Holders(l))  BY HoldersFinite DEF CountInv
<1>2. Cardinality(Holders(l)) \in Nat  BY <1>1, FS_CardinalityType
<1>3. Holders(l) # {} => Cardinality(Holders(l)) # 0  BY <1>1, FS_EmptySet
<1>4. refs[l].count = Cardinality(Holders(l)) + refs[l].lost
  BY DEF CountInv, ListenersCounted
<1>5. refs[l].lost \in Nat  BY DEF Types, RefRec
<1>6. l # NoListener  BY SocketTableAssumption
<1>. QED  BY <1>2, <1>3, <1>4, <1>5, <1>6 DEF Alive

(* The assertions of a thread that has a slot to itself hold.              *)
LEMMA OwnAudits ==
  ASSUME SlotInv, CountInv, NEW c \in Callers,
         \/ Publish(c) \/ GiveBack(c) \/ ListenEnd(c) \/ ReadListener(c)
         \/ BindListener(c) \/ UndoListener(c) \/ ReleaseListener(c)
         \/ UndoTerm(c) \/ (TakeTerm(c) /\ ~ Exhausted)
  PROVE  failed' = failed
PROOF
<1>. DEFINE s == call[c].s
<1>p. call[c].pc \in {"publish", "giveBack", "listenEnd", "readListener",
                      "bindListener", "undoListener", "release", "undoTerm",
                      "takeTerm"}
  BY DEF Publish, GiveBack, ListenEnd, ReadListener, BindListener, UndoListener,
         ReleaseListener, UndoTerm, TakeTerm
<1>o. call[c].op \notin {"hangup", "none"}
  BY <1>p, CallAt, Parts, Fields DEF SlotInv, ListenLabels
<1>m. Mine(c) /\ Types /\ Terminals  BY <1>o, <1>p DEF Mine, SlotInv
<1>s. /\ s \in Socks /\ StageState(c) /\ StageListen(c) /\ StageTerm(c)
  BY <1>m, Own
<1>h. ASSUME call[c].pc # "clearListener", sock[s].listen \in Listeners
      PROVE  Alive(sock[s].listen)
  <2>1. PICK l \in Listeners : l = sock[s].listen  BY <1>h
  <2>2. ASSUME NEW d \in Callers, call[d].pc = "clearListener", call[d].s = s
        PROVE  FALSE
    <3>1. call[d].op = "listen"
      BY <2>2, <1>m, CallAt, Parts, Fields DEF ListenLabels
    <3>2. Mine(d) /\ d # c  BY <1>h, <2>2, <3>1 DEF Mine
    <3>. QED  BY <1>m, <2>2, <3>2 DEF SlotInv, Apart
  <2>3. SocketHolds(s, l)  BY <2>1, <2>2 DEF SocketHolds, Amid
  <2>4. <<"socket", s>> \in Holders(l)  BY <1>s, <2>3, InHolders
  <2>. QED  BY <1>m, <2>1, <2>4, HeldAlive
<1>1. CASE Publish(c)
  <2>1. SlotClean(s)
    BY <1>1, <1>s DEF Publish, StageState, StageListen, StageTerm, SlotClean
  <2>2. Require(SlotClean(s), "Socket state changed while in socket pool!")
    BY <1>1 DEF Publish
  <2>. QED  BY <2>1, <2>2 DEF Require
<1>2. CASE GiveBack(c)
  <2>1. sock[s].state # "Inpool"
    BY <1>2, <1>s DEF GiveBack, StageState
  <2>2. Require(sock[s].state # "Inpool", "Double free of socket")
    BY <1>2 DEF GiveBack
  <2>. QED  BY <2>1, <2>2 DEF Require
<1>3. CASE ListenEnd(c)
  <2>1. call[c].pc = "listenEnd"  BY <1>3 DEF ListenEnd
  <2>2. sock[s].state = "StartToListen"
    BY <2>1, <1>s DEF StageState, Starting
  <2>3. Require(sock[s].state = "StartToListen",
                "Unexpect race condition detected in Listen.")
    BY <1>3 DEF ListenEnd
  <2>. QED  BY <2>2, <2>3 DEF Require
<1>4. CASE ReadListener(c)
  <2>1. call[c].pc = "readListener"  BY <1>4 DEF ReadListener
  <2>2. sock[s].listen # NoListener  BY <2>1, <1>s DEF StageListen
  <2>3. Require(sock[s].listen # NoListener,
                "Listener expected from a listening socket.")
    BY <1>4 DEF ReadListener
  <2>. QED  BY <2>2, <2>3 DEF Require
<1>5. CASE BindListener(c)
  <2>1. call[c].pc = "bindListener"  BY <1>5 DEF BindListener
  <2>2. sock[s].listen \in Listeners
    BY <2>1, <1>m, <1>s, Fields DEF StageListen
  <2>3. Alive(sock[s].listen)  BY <2>1, <2>2, <1>h
  <2>4. Require(Alive(sock[s].listen), "Listener used after its last release")
    BY <1>5 DEF BindListener
  <2>. QED  BY <2>3, <2>4 DEF Require
<1>6. CASE UndoListener(c)
  <2>1. call[c].pc = "undoListener"  BY <1>6 DEF UndoListener
  <2>2. CASE sock[s].listen = NoListener
    BY <1>6, <2>2 DEF UndoListener
  <2>3. CASE sock[s].listen # NoListener
    <3>1. sock[s].listen \in Listeners  BY <1>m, <1>s, <2>3, Fields
    <3>2. Alive(sock[s].listen)  BY <2>1, <3>1, <1>h
    <3>3. Require(Alive(sock[s].listen), "Listener used after its last release")
      BY <1>6, <2>3 DEF UndoListener
    <3>. QED  BY <3>2, <3>3 DEF Require
  <2>. QED  BY <2>2, <2>3
<1>7. CASE ReleaseListener(c)
  <2>1. call[c].pc = "release"  BY <1>7 DEF ReleaseListener
  <2>2. PICK l \in Listeners : l = call[c].l
    BY <2>1, <1>s DEF StageListen
  <2>3. ThreadHolds(c, l)  BY <2>1, <2>2 DEF ThreadHolds, Clings
  <2>4. <<"thread", c>> \in Holders(l)  BY <2>3, InHolders
  <2>5. Alive(call[c].l)  BY <1>m, <2>2, <2>4, HeldAlive
  <2>6. Require(Alive(call[c].l), "Listener used after its last release")
    BY <1>7 DEF ReleaseListener
  <2>. QED  BY <2>5, <2>6 DEF Require
<1>8. CASE UndoTerm(c)
  <2>1. call[c].pc = "undoTerm"  BY <1>8 DEF UndoTerm
  <2>2. CASE sock[s].term = NoTerm
    BY <1>8, <2>2 DEF UndoTerm
  <2>3. CASE sock[s].term # NoTerm
    <3>1. PICK t \in Terms : t = sock[s].term  BY <1>m, <1>s, <2>3, Fields
    <3>2. Has(s, t)  BY <2>1, <3>1, <1>m, OwnHas
    <3>3. term[t].func  BY <1>m, <1>s, <3>2 DEF Terminals, TermOf
    <3>4. term[t] # VoidTerm  BY <3>3 DEF VoidTerm
    <3>5. Require(term[sock[s].term] # VoidTerm, "Double free to connection pool")
      BY <1>8, <2>3 DEF UndoTerm
    <3>. QED  BY <3>1, <3>4, <3>5 DEF Require
  <2>. QED  BY <2>2, <2>3
<1>9. CASE TakeTerm(c) /\ ~ Exhausted
  <2>1. call[c].pc = "takeTerm"  BY <1>9 DEF TakeTerm
  <2>2. sock[s].term = NoTerm  BY <2>1, <1>s DEF StageTerm
  <2>3. Require(sock[s].term = NoTerm, "Double allocation of connection block.")
    BY <1>9 DEF TakeTerm
  <2>. QED  BY <2>2, <2>3 DEF Require
<1>. QED  BY <1>1, <1>2, <1>3, <1>4, <1>5, <1>6, <1>7, <1>8, <1>9

(* An Accept finds the listener it has read.                               *)
LEMMA AcceptAudit ==
  ASSUME SlotInv, CountInv, NEW u \in Users, AcceptRef(u)
  PROVE  failed' = failed
PROOF
<1>p. /\ call[u].pc = "acceptRef" /\ u \in Callers /\ Types
      /\ Require(Alive(call[u].l), "Listener used after its last release")
  BY Parts DEF AcceptRef, SlotInv
<1>1. call[u].op = "accept"  BY <1>p, CallAt, Parts, Fields
<1>2. Mine(u)  BY <1>p, <1>1 DEF Mine
<1>3. StageListen(u) /\ Given(u)  BY <1>p, <1>2, Own
<1>4. PICK x \in Socks : x = HandleToId(call[u].h)
  BY <1>1, <1>3, HandleIs DEF Given
<1>5. PICK l \in Listeners : l = call[u].l /\ sock[x].listen = l
  BY <1>p, <1>3, <1>4 DEF StageListen
<1>6. sock[x].state = "Listening"  BY <1>1, <1>3, <1>4, <1>p DEF Given
<1>7. ASSUME NEW d \in Callers, call[d].pc = "clearListener", call[d].s = x
      PROVE  FALSE
  <2>1. call[d].op = "listen"
    BY <1>7, <1>p, CallAt, Parts, Fields DEF ListenLabels
  <2>2. Mine(d)  BY <1>7, <2>1 DEF Mine
  <2>3. sock[x].state = "Disconnected"
    BY <1>7, <2>2, Own DEF StageState
  <2>. QED  BY <1>6, <2>3
<1>8. SocketHolds(x, l)  BY <1>5, <1>7 DEF SocketHolds, Amid
<1>9. <<"socket", x>> \in Holders(l)  BY <1>8, InHolders
<1>10. Alive(call[u].l)  BY <1>p, <1>5, <1>9, HeldAlive
<1>. QED  BY <1>p, <1>10 DEF Require

(* A handler finds its socket and terminal as it asserts.                  *)
LEMMA HandlerAudits ==
  ASSUME SlotInv, NEW op \in ops,
         ProcessConnReq(op) \/ OnConnAck(op) \/ OnConnAccepted(op)
  PROVE  failed' = failed \/ failed' \notin Audits
PROOF
<1>1. /\ OpOK(op) /\ Early(op)
      /\ op.s \in Socks /\ op.t \in Terms
  BY OpFacts DEF ProcessConnReq, OnConnAck, OnConnAccepted, Early
<1>2. Has(op.s, op.t) /\ TermOf(op.s, op.t) /\ sock[op.s].term = op.t
  BY <1>1, OpFacts
<1>3. term[op.t] # VoidTerm
  <2>1. term[op.t].func  BY <1>2 DEF TermOf
  <2>. QED  BY <2>1 DEF VoidTerm
<1>4. CASE ProcessConnReq(op)
  <2>1. sock[op.s].state = "Accept1"  BY <1>1, <1>4 DEF ProcessConnReq, OpOK
  <2>2. sock[op.s].state # "Inpool"  BY <2>1
  <2>3. Finds(op, {"Accept1"})  BY <1>2, <1>3, <2>1 DEF Finds
  <2>4. \/ Require(sock[op.s].state # "Inpool", "Double free of socket")
        \/ Require(Finds(op, {"Accept1"}), "Unexpected state found")
    BY <1>4 DEF ProcessConnReq
  <2>. QED  BY <2>2, <2>3, <2>4 DEF Require
<1>5. CASE OnConnAck(op)
  <2>1. sock[op.s].state = "Connecting"  BY <1>1, <1>5 DEF OnConnAck, OpOK
  <2>2. Finds(op, {"Connecting"})  BY <1>2, <1>3, <2>1 DEF Finds
  <2>3. \/ Fail("Connect failed and so did CloseSocket")
        \/ Require(Finds(op, {"Connecting"}), "Unexpected state found")
    BY <1>5 DEF OnConnAck
  <2>4. "Connect failed and so did CloseSocket" \notin Audits  BY DEF Audits
  <2>. QED  BY <2>2, <2>3, <2>4 DEF Require, Fail
<1>6. CASE OnConnAccepted(op)
  <2>1. sock[op.s].state \in {"Accept1", "ConnAck"} /\ term[op.t].started
    BY <1>1, <1>6 DEF OnConnAccepted, OpOK
  <2>2. Finds(op, {"Accept1", "ConnAck"})  BY <1>2, <1>3, <2>1 DEF Finds
  <2>3. \/ Require(term[op.t].started,
                   "Terminal not started when connection is ready.")
        \/ Require(Finds(op, {"Accept1", "ConnAck"}), "Unexpected state found")
    BY <1>6 DEF OnConnAccepted
  <2>. QED  BY <2>1, <2>2, <2>3 DEF Require
<1>. QED  BY <1>4, <1>5, <1>6

(* The failures that are not among the Audits.                             *)
LEMMA OtherFailuresOfThreads ==
  ASSUME NEW c \in Callers,
         \/ TakeTerm(c) /\ Exhausted
         \/ CloseGiveUp(c) \/ ReadTerm(c) \/ PostClose(c)
  PROVE  failed' = failed \/ failed' \notin Audits
PROOF
<1>1. CASE TakeTerm(c) /\ Exhausted
  <2>1. Fail("Exhausted connection!")  BY <1>1 DEF TakeTerm
  <2>2. "Exhausted connection!" \notin Audits  BY DEF Audits
  <2>. QED  BY <2>1, <2>2 DEF Fail
<1>2. CASE CloseGiveUp(c)
  <2>1. Fail("Socket in transition state for too long")
    BY <1>2 DEF CloseGiveUp
  <2>2. "Socket in transition state for too long" \notin Audits  BY DEF Audits
  <2>. QED  BY <2>1, <2>2 DEF Fail
<1>3. CASE ReadTerm(c)
  <2>1. Require(sock[call[c].s].term # NoTerm,
                "Connected socket should have a terminal.")
    BY <1>3 DEF ReadTerm
  <2>2. "Connected socket should have a terminal." \notin Audits  BY DEF Audits
  <2>. QED  BY <2>1, <2>2 DEF Require
<1>4. CASE PostClose(c)
  <2>1. Fail("Post to a terminal that has no TerminalCloser") \/ failed' = failed
    BY <1>4 DEF PostClose
  <2>2. "Post to a terminal that has no TerminalCloser" \notin Audits
    BY DEF Audits
  <2>. QED  BY <2>1, <2>2 DEF Fail
<1>. QED  BY <1>1, <1>2, <1>3, <1>4

LEMMA OtherFailuresOfHandlers ==
  ASSUME NEW op \in ops, Settle(op) \/ Tell(op)
  PROVE  failed' = failed \/ failed' \notin Audits
PROOF
<1>1. CASE Settle(op)
  <2>1. Fail("Race condition in OnConnAccepted") \/ failed' = failed
    BY <1>1 DEF Settle
  <2>2. "Race condition in OnConnAccepted" \notin Audits  BY DEF Audits
  <2>. QED  BY <2>1, <2>2 DEF Fail
<1>2. CASE Tell(op)
  <2>1. Fail("Call of a null ConnectionNotifier") \/ failed' = failed
    BY <1>2 DEF Tell
  <2>2. "Call of a null ConnectionNotifier" \notin Audits  BY DEF Audits
  <2>. QED  BY <2>1, <2>2 DEF Fail
<1>. QED  BY <1>1, <1>2

(* Each assertion holds whenever somebody comes to it.                     *)
LEMMA AuditStep ==
  ASSUME SlotInv, CountInv, AuditsHold, [Next]_vars
  PROVE  AuditsHold'
PROOF
<1>. SUFFICES failed' = failed \/ failed' \notin Audits
  BY DEF AuditsHold
<1>1. ASSUME NEW u \in Users, User(u)  PROVE failed' = failed
  BY <1>1
  DEF User, CreateSocket, ListenBegin, AcceptBegin, ConnectBegin, Enter,
      CloseBegin
<1>2. ASSUME NEW u \in Users, InCall(u) \/ CloseGiveUp(u)
      PROVE  failed' = failed \/ failed' \notin Audits
  <2>c. u \in Callers  BY DEF Callers
  <2>1. CASE \/ PrepareFails(u) \/ Prepared(u) \/ ListenCheck(u) \/ ListenSet(u)
             \/ ListenAgain(u) \/ CreateListener(u) \/ UndoListen(u)
             \/ ClearListener(u) \/ AcceptCheck(u) \/ AcceptSock(u)
             \/ Accept1(u) \/ AcceptListen(u) \/ ConnectCheck(u)
             \/ ConnectSet(u) \/ ConnectAgain(u) \/ Bind(u) \/ UndoConnect(u)
             \/ ClearTerm(u) \/ CloseRead(u)
    BY <2>1
    DEF PrepareFails, Prepared, ListenCheck, ListenSet, ListenAgain,
        CreateListener, UndoListen, ClearListener, AcceptCheck, AcceptSock,
        Accept1, AcceptListen, ConnectCheck, ConnectSet, ConnectAgain, Bind,
        UndoConnect, ClearTerm, CloseRead, CheckState
  <2>2. CASE \/ Publish(u) \/ ListenEnd(u) \/ BindListener(u)
             \/ UndoListener(u) \/ UndoTerm(u) \/ (TakeTerm(u) /\ ~ Exhausted)
    BY <2>2, <2>c, OwnAudits
  <2>3. CASE AcceptRef(u)  BY <2>3, AcceptAudit
  <2>4. CASE (TakeTerm(u) /\ Exhausted) \/ CloseGiveUp(u)
    BY <2>4, <2>c, OtherFailuresOfThreads
  <2>. QED  BY <1>2, <2>1, <2>2, <2>3, <2>4 DEF InCall
<1>3. ASSUME NEW c \in Callers, TryCloseSocket(c)
      PROVE  failed' = failed \/ failed' \notin Audits
  <2>1. CASE StopIdle(c) \/ Unlisten(c) \/ StopListening(c)
    BY <2>1 DEF StopIdle, Unlisten, StopListening
  <2>2. CASE ReadListener(c) \/ ReleaseListener(c) \/ GiveBack(c)
    BY <2>2, OwnAudits
  <2>3. CASE ReadTerm(c) \/ PostClose(c)  BY <2>3, OtherFailuresOfThreads
  <2>. QED  BY <1>3, <2>1, <2>2, <2>3 DEF TryCloseSocket
<1>4. ASSUME NEW op \in ops,
             \/ ProcessConnReq(op) \/ OnConnAck(op) \/ OnConnAccepted(op)
             \/ Settle(op) \/ Connected(op) \/ Tell(op)
      PROVE  failed' = failed \/ failed' \notin Audits
  <2>1. CASE ProcessConnReq(op) \/ OnConnAck(op) \/ OnConnAccepted(op)
    BY <2>1, HandlerAudits
  <2>2. CASE Settle(op) \/ Tell(op)  BY <2>2, OtherFailuresOfHandlers
  <2>3. CASE Connected(op)  BY <2>3 DEF Connected
  <2>. QED  BY <1>4, <2>1, <2>2, <2>3
<1>5. ASSUME \/ \E t \in Terms : Closer(t) \/ PeerDisconnect(t)
             \/ Shutdown \/ \E s \in Socks : ShutdownRead(s)
             \/ Rest \/ Dead \/ UNCHANGED vars
      PROVE  failed' = failed
  BY <1>5
  DEF Closer, CloserBegin, CloserEnd, PeerDisconnect, Shutdown, ShutdownRead,
      Rest, Dead, vars
<1>. QED
  BY <1>1, <1>2, <1>3, <1>4, <1>5 DEF Next, Running, Handler

(* The types, now that the counts of references are known not to be        *)
(* negative.                                                               *)
LEMMA CountedTypeOK ==
  ASSUME SlotInv, CountInv  PROVE TypeOK
PROOF
<1>1. Types  BY DEF SlotInv
<1>2. ASSUME NEW l \in Listeners
      PROVE  refs[l] \in [count : Nat, lost : Nat]
  <2>1. refs[l].count \in Nat  BY <1>1, HeldAlive
  <2>2. refs[l] \in RefRec  BY <1>1 DEF Types
  <2>. QED  BY <2>1, <2>2 DEF RefRec
<1>3. refs \in [Listeners -> [count : Nat, lost : Nat]]
  BY <1>1, <1>2 DEF Types
<1>. QED
  BY <1>1, <1>3 DEF Types, TypeOK, SockRec, TermRec, CallRec

-----------------------------------------------------------------------------
(* The theorems                                                            *)

(* The inductive invariant, for every number of slots, terminals,          *)
(* listeners, users and generations.                                       *)
TableSafe == SlotInv /\ CountInv /\ AuditsHold

(* The three parts together are inductive, if callers keep the Contract    *)
(* and the end of OnConnAccepted is not torn.                              *)
THEOREM TableSafety ==
  ASSUME Contract, ~ Torn
  PROVE  Spec => []TableSafe
PROOF
<1>1. Init => AuditsHold
  <2>1. "no" \notin Audits  BY DEF Audits
  <2>. QED  BY <2>1 DEF Init, AuditsHold
<1>2. Init => TableSafe  BY <1>1, SlotInvInit, CountInit DEF TableSafe
<1>3. TableSafe /\ [Next]_vars => TableSafe'
  BY SlotInvStep, CountStep, AuditStep DEF TableSafe
<1>. QED  BY <1>2, <1>3, PTL DEF Spec

(* Every variable keeps its type; no reference count of a listener is ever *)
(* negative (Release is not called once too often).                        *)
THEOREM TableTypeOK ==
  ASSUME Contract, ~ Torn
  PROVE  Spec => []TypeOK
PROOF
<1>1. TableSafe => TypeOK  BY CountedTypeOK DEF TableSafe
<1>. QED  BY <1>1, TableSafety, PTL

(* No socket is freed twice, lost or handed out while in use: the pool     *)
(* holds exactly the slots in state Inpool, each once and cleared, but for *)
(* one AllocateSocket has just taken out.                                  *)
THEOREM SlotsTheorem ==
  ASSUME Contract, ~ Torn
  PROVE  Spec => []SlotsConserved
PROOF
<1>1. TableSafe => SlotsConserved  BY SlotFacts DEF TableSafe
<1>. QED  BY <1>1, TableSafety, PTL

(* A terminal is in the pool, in the hands of the thread that prepares it, *)
(* or belongs to exactly one socket, whose current handle it carries; a    *)
(* Connected socket has a started one.                                     *)
THEOREM TerminalsTheorem ==
  ASSUME Contract, ~ Torn
  PROVE  Spec => []TerminalsConserved
PROOF
<1>1. TableSafe => TerminalsConserved  BY SlotFacts DEF TableSafe
<1>. QED  BY <1>1, TableSafety, PTL

(* A completion handler up to NotifyDisconnect finds its socket, its       *)
(* terminal and the state it asserts.                                      *)
THEOREM HandlersTheorem ==
  ASSUME Contract, ~ Torn
  PROVE  Spec => []HandlersFindSocket
PROOF
<1>1. TableSafe => HandlersFindSocket  BY SlotFacts DEF TableSafe
<1>. QED  BY <1>1, TableSafety, PTL

(* The reference count of a listener is that of its holders and of the     *)
(* references Accept has lost.                                             *)
THEOREM ListenersTheorem ==
  ASSUME Contract, ~ Torn
  PROVE  Spec => []ListenersCounted
PROOF
<1>1. TableSafe => ListenersCounted  BY DEF TableSafe, CountInv
<1>. QED  BY <1>1, TableSafety, PTL

(* None of the assertions about what another thread or handler may have    *)
(* done to the socket, its terminal or its listener ever fails.            *)
THEOREM AuditsTheorem ==
  ASSUME Contract, ~ Torn
  PROVE  Spec => []AuditsHold
PROOF
<1>1. TableSafe => AuditsHold  BY DEF TableSafe
<1>. QED  BY <1>1, TableSafety, PTL

=============================================================================
