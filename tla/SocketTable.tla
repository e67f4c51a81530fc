---------------------------- MODULE SocketTable -----------------------------
(***************************************************************************)
(* The socket table of HermesFixedRIO: CreateSocket, Listen, Accept,       *)
(* Connect, CloseSocket and the destructor, called by concurrent threads,  *)
(* with the completion handlers that finish a connection on IOCP threads   *)
(* (ProcessConnReq, OnConnAck, OnConnAccepted) and the pools of sockets    *)
(* and terminals they draw from.                                           *)
(*                                                                         *)
(* A socket is a slot of the table; a handle is a slot with the generation *)
(* that FreeSocket advances.  There are no locks: every access of a user   *)
(* thread or of the destructor to m_state or to another field somebody     *)
(* else may look at is a step of its own, but that an assertion goes with  *)
(* the access after it, and the test of a pointer or terminal number with  *)
(* the use that follows.  These sequences are one step because nobody can  *)
(* do anything with what is half done: FreeSocket (in state Inpool, which  *)
(* it writes first, a slot is left alone until it is in the pool), the end *)
(* of a connection (FreeTerminal, then m_term, then FreeSocket, in a state *)
(* everybody else only waits for), and in Accept the assignment of a new   *)
(* terminal with its initialisation and the asynchronous call.             *)
(* A completion handler is one step but for the end of OnConnAccepted,     *)
(* which a disconnection can overtake: in the transition states before     *)
(* that no other thread changes the socket.                                *)
(*                                                                         *)
(* External, modelled from how the source uses them: the adapter (listener *)
(* and connector calls succeed, fail, or complete later), the remote end,  *)
(* and TerminalCloser, whose body the repository does not contain: run     *)
(* once per started terminal when posted to, it takes the socket to        *)
(* Stopping, reports to the ConnectionNotifier and frees terminal and      *)
(* socket.                                                                 *)
(***************************************************************************)
EXTENDS Integers, Sequences, FiniteSets, PoolQueue

CONSTANTS
  Socks,      (* slots of the socket table                                 *)
  Terms,      (* terminals                                                 *)
  Listeners,  (* listeners of the adapter                                  *)
  Users,      (* threads that call the library                             *)
  Dtor,       (* the thread that runs the destructor                       *)
  NoTerm,     (* INVALID_TERM_ID                                           *)
  NoListener, (* nullptr                                                   *)
  MaxGen,     (* bound: how often a slot is handed out                     *)
  Contract,   (* callers keep to the rules of MayCall                      *)
  Torn        (* TerminalCloser may come between the last assertion of     *)
              (* OnConnAccepted and the assignment after it                *)

Callers == Users \cup {Dtor}

ASSUME SocketTableAssumption ==
  /\ IsFiniteSet(Socks)
  /\ IsFiniteSet(Terms)
  /\ IsFiniteSet(Users)
  /\ Users # {}
  /\ Dtor \notin Users
  /\ NoTerm \notin Terms
  /\ NoListener \notin Listeners
  /\ MaxGen \in Nat \ {0}
  /\ Contract \in BOOLEAN
  /\ Torn \in BOOLEAN

VARIABLES
  sock,      (* m_sockTbl                                                  *)
  sockPool,  (* m_sockPool                                                 *)
  term,      (* m_connections                                              *)
  connPool,  (* m_connPool                                                 *)
  refs,      (* of each listener: its reference count, and (history) the   *)
             (* references given up without a Release                      *)
  ops,       (* asynchronous calls under way and handlers half done        *)
  call,      (* what each thread is doing                                  *)
  known,     (* handles users hold and have not closed                     *)
  closing,   (* m_closing                                                  *)
  failed     (* the Audit failure or access violation that ended it all    *)

vars == <<sock, sockPool, term, connPool, refs, ops, call, known, closing,
          failed>>

States == {"Inpool", "StartToListen", "Listening", "Accept1", "Connecting",
           "ConnAgreed", "ConnAck", "Connected", "Stopping", "Disconnected"}

(* The states TryCloseSocket can do something about.                       *)
Steady == {"Disconnected", "Connected", "Listening"}

Gens     == 1 .. MaxGen + 1
Handles  == Socks \X Gens
NoHandle == <<>>

HandleOf(s) == <<s, sock[s].gen>>
HandleToId(h) == h[1]
Valid(h) == HandleOf(HandleToId(h)) = h

(* VoidFlds: a terminal as the pool holds it.  started: StartTerminal made *)
(* m_pDisconnectCont; func: m_pConnFunc is set; notify: a NotifyDisconnect *)
(* is under way; closer: what TerminalCloser has been asked to do.         *)
VoidTerm == [handle |-> NoHandle, started |-> FALSE, func |-> FALSE,
             notify |-> FALSE, closer |-> "none"]

(* A thread: the call it is in and where, the handle it was given, and the *)
(* slot, terminal and listener it has in its hands.                        *)
IdleCall == [op |-> "none", pc |-> "idle", h |-> NoHandle, s |-> NoHandle,
             t |-> NoTerm, l |-> NoListener]

(* Audit::Assert, and calls through a null or dead pointer.  After a       *)
(* failure nothing else happens (Dead), whatever the step assigns.         *)
Require(holds, what) == failed' = IF holds THEN failed ELSE what
Fail(what) == failed' = what
Begin(c, op, h, s, label) ==
  call' = [call EXCEPT ![c] = [IdleCall EXCEPT !.op = op, !.pc = label,
                                               !.h = h, !.s = s]]
Goto(c, label) == call' = [call EXCEPT ![c].pc = label]
Return(c)      == call' = [call EXCEPT ![c] = IdleCall]
SetState(s, state) == sock' = [sock EXCEPT ![s].state = state]

-----------------------------------------------------------------------------
(* What callers may do at the same time                                    *)

(* A socket somebody accepts or connects with, or has done so.             *)
IsConnection(s) == sock[s].state \notin {"Disconnected", "Listening"}

(* The source has no locks around the table and says nothing about         *)
(* concurrent calls.  The rules under which the table stays sound: calls   *)
(* on one handle do not overlap (but for Accept); the handle of a          *)
(* connection is only closed; and while a thread closes one ("hangup") no  *)
(* other takes a socket or a terminal: CloseSocket compares the handle     *)
(* once, then waits, and reads m_term once, then posts, and either may be  *)
(* handed out again in between.                                            *)
Takes == {"create", "accept", "connect"}

MayOverlap(op, h, other) ==
  /\ h # other.h \/ (op = other.op /\ op \in {"create", "accept"})
  /\ "hangup" \in {op, other.op} => {op, other.op} \cap Takes = {}

MayCall(u, op, h) ==
  Contract =>
    /\ \A v \in Users \ {u} :
         call[v].op = "none" \/ MayOverlap(op, h, call[v])
    /\ op \in {"listen", "accept", "connect"} => ~ IsConnection(HandleToId(h))

(* A user enters the library: the check of m_handle.                       *)
Enter(u, op, h, label) ==
  /\ call[u].pc = "idle"
  /\ ~ closing
  /\ h \in known
  /\ Valid(h)
  /\ MayCall(u, op, h)
  /\ Begin(u, op, h, HandleToId(h), label)
  /\ UNCHANGED <<sock, sockPool, term, connPool, refs, ops, known, closing,
                 failed>>

(* ... then that of m_state: the call is refused unless the socket is so.  *)
CheckState(u, at, state, then) ==
  /\ call[u].pc = at
  /\ IF sock[HandleToId(call[u].h)].state = state THEN Goto(u, then)
                                                  ELSE Return(u)
  /\ UNCHANGED <<sock, sockPool, term, connPool, refs, ops, known, closing,
                 failed>>

-----------------------------------------------------------------------------
(* Pools                                                                   *)

(* The slot AllocateSocket hands out: it must be as FreeSocket left it.    *)
(* A slot handed out MaxGen times counts as none.                          *)
NextSock == Head(sockPool)
CanAllocate == sockPool # <<>> /\ sock[Head(sockPool)].gen <= MaxGen
SlotClean(s) ==
  /\ sock[s].state = "Inpool"
  /\ sock[s].term = NoTerm
  /\ sock[s].listen = NoListener

(* Slip: m_state is not set back.                                          *)
FreeSocketKeepsState(tbl, s) == [tbl EXCEPT ![s].gen = @ + 1]

(* FreeSocket: the slot of table tbl goes back, its handles become invalid.*)
FreeSocket(tbl, s) ==
  [tbl EXCEPT ![s].state = "Inpool", ![s].gen = @ + 1]

(* Get of AllocateSocket.                                                  *)
TakeSlot(u, op, h) ==
  /\ CanAllocate
  /\ sockPool' = Tail(sockPool)
  /\ Begin(u, op, h, NextSock, "publish")

(* Its assertions, and the slot is there for everybody to see.  The caller *)
(* is CreateSocket, which returns the handle, or Accept.                   *)
Publish(u) ==
  LET s == call[u].s
  IN  /\ call[u].pc = "publish"
      /\ Require(SlotClean(s), "Socket state changed while in socket pool!")
      /\ SetState(s, "Disconnected")
      /\ \/ /\ call[u].op = "create"
            /\ known' = known \cup {HandleOf(s)}
            /\ Return(u)
         \/ /\ call[u].op = "accept"
            /\ Goto(u, "accept1")
            /\ UNCHANGED known
      /\ UNCHANGED <<sockPool, term, connPool, refs, ops, closing>>

(* FreeSocket by a thread, the last thing it does.                         *)
GiveBack(c) ==
  LET s == call[c].s
  IN  /\ call[c].pc = "giveBack"
      /\ Require(sock[s].state # "Inpool", "Double free of socket")
      /\ sock' = FreeSocket(sock, s)
      /\ sockPool' = Append(sockPool, s)
      /\ Return(c)
      /\ UNCHANGED <<term, connPool, refs, ops, known, closing>>

(* FreeTerminal and FreeSocket of a connection, by its handler or closer.  *)
FreeBoth(s, t) ==
  /\ term' = [term EXCEPT ![t] = VoidTerm]
  /\ connPool' = Append(connPool, t)
  /\ sock' = FreeSocket([sock EXCEPT ![s].term = NoTerm], s)
  /\ sockPool' = Append(sockPool, s)

(* AllocTerminal: the assertion before it, then Get, which must not fail.  *)
Exhausted == connPool = <<>>
NextTerm  == Head(connPool)

TakeTerm(u) ==
  /\ call[u].pc = "takeTerm"
  /\ \/ /\ Exhausted
        /\ Fail("Exhausted connection!")
        /\ UNCHANGED <<connPool, call>>
     \/ /\ ~ Exhausted
        /\ Require(sock[call[u].s].term = NoTerm,
                   "Double allocation of connection block.")
        /\ connPool' = Tail(connPool)
        /\ call' = [call EXCEPT ![u].pc = "prepare", ![u].t = NextTerm]
  /\ UNCHANGED <<sock, sockPool, term, refs, ops, known, closing>>

(* ... Prepare fails and the terminal goes back: the scope guard of the    *)
(* caller is next.  That of Accept forgets the reference on the listener.  *)
PrepareFails(u) ==
  /\ call[u].pc = "prepare"
  /\ connPool' = Append(connPool, call[u].t)
  /\ \/ /\ call[u].op = "accept"
        /\ refs' = [refs EXCEPT ![call[u].l].lost = @ + 1]
        /\ Goto(u, "giveBack")
     \/ /\ call[u].op = "connect"
        /\ Goto(u, "undoConnect")
        /\ UNCHANGED refs
  /\ UNCHANGED <<sock, sockPool, term, ops, known, closing, failed>>

(* Slip: m_handle is not set.                                              *)
OwnTermOrphan(t, h) ==
  term' = [term EXCEPT ![t] = [VoidTerm EXCEPT !.func = TRUE]]

(* ... or it is the socket's from now on.                                  *)
OwnTerm(t, h) ==
  term' = [term EXCEPT ![t] = [VoidTerm EXCEPT !.handle = h, !.func = TRUE]]

(* The asynchronous call for slot s and terminal t.                        *)
Issue(kind, s, t, l) ==
  ops' = ops \cup {[kind |-> kind, s |-> s, t |-> t, listener |-> l]}

Prepared(u) ==
  LET s == call[u].s
      t == call[u].t
  IN  /\ call[u].pc = "prepare"
      /\ OwnTerm(t, HandleOf(s))
      /\ sock' = [sock EXCEPT ![s].term = t]
      /\ \/ /\ call[u].op = "accept"
            /\ Issue("connReq", s, t, call[u].l)
            /\ Return(u)
         \/ /\ call[u].op = "connect"
            /\ Goto(u, "bind")
            /\ UNCHANGED ops
      /\ UNCHANGED <<sockPool, connPool, refs, known, closing, failed>>

(* Slips: no AddRef; Release called twice.                                 *)
NoAddRef(l)     == refs
ReleaseTwice(l) == [refs EXCEPT ![l].count = @ - 2]

(* The reference count of a listener.                                      *)
AddRef(l)  == [refs EXCEPT ![l].count = @ + 1]
Release(l) == [refs EXCEPT ![l].count = @ - 1]

(* A call through pointer l finds a listener.                              *)
Alive(l) == l # NoListener /\ refs[l].count > 0

-----------------------------------------------------------------------------
(* CreateSocket                                                            *)

CreateSocket(u) ==
  /\ call[u].pc = "idle"
  /\ ~ closing
  /\ MayCall(u, "create", NoHandle)
  /\ TakeSlot(u, "create", NoHandle)
  /\ UNCHANGED <<sock, term, connPool, refs, ops, known, closing, failed>>

-----------------------------------------------------------------------------
(* Listen                                                                  *)

ListenBegin(u, h) == Enter(u, "listen", h, "listenCheck")
ListenCheck(u)    == CheckState(u, "listenCheck", "Disconnected", "listenSet")

ListenSet(u) ==
  /\ call[u].pc = "listenSet"
  /\ SetState(call[u].s, "StartToListen")
  /\ Goto(u, "listenAgain")
  /\ UNCHANGED <<sockPool, term, connPool, refs, ops, known, closing, failed>>

(* The second check of m_state.  From here on failures end in the scope    *)
(* guard, UndoListen.                                                      *)
ListenAgain(u) ==
  /\ call[u].pc = "listenAgain"
  /\ Goto(u, IF sock[call[u].s].state = "Stopping" THEN "undoListen"
                                                   ELSE "createListener")
  /\ UNCHANGED <<sock, sockPool, term, connPool, refs, ops, known, closing,
                 failed>>

(* The adapter fails or returns a new listener in m_pListen.               *)
CreateListener(u) ==
  /\ call[u].pc = "createListener"
  /\ \/ /\ Goto(u, "undoListen")
        /\ UNCHANGED <<sock, refs>>
     \/ \E l \in Listeners :
          /\ refs[l].count = 0
          /\ refs' = [refs EXCEPT ![l].count = 1]
          /\ sock' = [sock EXCEPT ![call[u].s].listen = l]
          /\ Goto(u, "bindListener")
  /\ UNCHANGED <<sockPool, term, connPool, ops, known, closing, failed>>

(* Bind and Listen of the listener: one fails, or both succeed.            *)
BindListener(u) ==
  /\ call[u].pc = "bindListener"
  /\ Require(Alive(sock[call[u].s].listen),
             "Listener used after its last release")
  /\ \/ Goto(u, "undoListen")
     \/ Goto(u, "listenEnd")
  /\ UNCHANGED <<sock, sockPool, term, connPool, refs, ops, known, closing>>

ListenEnd(u) ==
  LET s == call[u].s
  IN  /\ call[u].pc = "listenEnd"
      /\ Require(sock[s].state = "StartToListen",
                 "Unexpect race condition detected in Listen.")
      /\ SetState(s, "Listening")
      /\ Return(u)
      /\ UNCHANGED <<sockPool, term, connPool, refs, ops, known, closing>>

(* The scope guard: the state first, then the listener, if there is one.   *)
UndoListen(u) ==
  /\ call[u].pc = "undoListen"
  /\ SetState(call[u].s, "Disconnected")
  /\ Goto(u, "undoListener")
  /\ UNCHANGED <<sockPool, term, connPool, refs, ops, known, closing, failed>>

UndoListener(u) ==
  LET l == sock[call[u].s].listen
  IN  /\ call[u].pc = "undoListener"
      /\ \/ /\ l = NoListener
            /\ Return(u)
            /\ UNCHANGED <<refs, failed>>
         \/ /\ l # NoListener
            /\ Require(Alive(l), "Listener used after its last release")
            /\ refs' = Release(l)
            /\ Goto(u, "clearListener")
      /\ UNCHANGED <<sock, sockPool, term, connPool, ops, known, closing>>

ClearListener(u) ==
  /\ call[u].pc = "clearListener"
  /\ sock' = [sock EXCEPT ![call[u].s].listen = NoListener]
  /\ Return(u)
  /\ UNCHANGED <<sockPool, term, connPool, refs, ops, known, closing, failed>>

-----------------------------------------------------------------------------
(* Accept                                                                  *)

AcceptBegin(u, h) == Enter(u, "accept", h, "acceptCheck")
AcceptCheck(u)    == CheckState(u, "acceptCheck", "Listening", "acceptSock")

(* A socket for the connection to come, if there is one ...                *)
AcceptSock(u) ==
  /\ call[u].pc = "acceptSock"
  /\ \/ /\ ~ CanAllocate
        /\ Return(u)
        /\ UNCHANGED sockPool
     \/ TakeSlot(u, "accept", call[u].h)
  /\ UNCHANGED <<sock, term, connPool, refs, ops, known, closing, failed>>

(* ... published as Disconnected, waits in Accept1.                        *)
Accept1(u) ==
  /\ call[u].pc = "accept1"
  /\ SetState(call[u].s, "Accept1")
  /\ Goto(u, "acceptListen")
  /\ UNCHANGED <<sockPool, term, connPool, refs, ops, known, closing, failed>>

(* Read m_pListen of the listening socket; gone: give the socket back.     *)
AcceptListen(u) ==
  LET l == sock[HandleToId(call[u].h)].listen
  IN  /\ call[u].pc = "acceptListen"
      /\ call' = [call EXCEPT ![u].l = l,
                              ![u].pc = IF l = NoListener THEN "giveBack"
                                                          ELSE "acceptRef"]
      /\ UNCHANGED <<sock, sockPool, term, connPool, refs, ops, known, closing,
                     failed>>

(* pListen->AddRef(), and on to TakeTerm.                                  *)
AcceptRef(u) ==
  /\ call[u].pc = "acceptRef"
  /\ Require(Alive(call[u].l), "Listener used after its last release")
  /\ refs' = AddRef(call[u].l)
  /\ Goto(u, "takeTerm")
  /\ UNCHANGED <<sock, sockPool, term, connPool, ops, known, closing>>

-----------------------------------------------------------------------------
(* Connect                                                                 *)

ConnectBegin(u, h) == Enter(u, "connect", h, "connectCheck")
ConnectCheck(u)    == CheckState(u, "connectCheck", "Disconnected", "connectSet")

ConnectSet(u) ==
  /\ call[u].pc = "connectSet"
  /\ SetState(call[u].s, "Connecting")
  /\ Goto(u, "connectAgain")
  /\ UNCHANGED <<sockPool, term, connPool, refs, ops, known, closing, failed>>

(* The second check of m_state, then TakeTerm.  From here on failures end  *)
(* in the scope guard, UndoConnect.                                        *)
ConnectAgain(u) ==
  /\ call[u].pc = "connectAgain"
  /\ Goto(u, IF sock[call[u].s].state # "Connecting" THEN "undoConnect"
                                                     ELSE "takeTerm")
  /\ UNCHANGED <<sock, sockPool, term, connPool, refs, ops, known, closing,
                 failed>>

(* Bind of the connector, and the asynchronous Connect.                    *)
Bind(u) ==
  /\ call[u].pc = "bind"
  /\ \/ /\ Goto(u, "undoConnect")
        /\ UNCHANGED ops
     \/ /\ Issue("connect", call[u].s, call[u].t, NoListener)
        /\ Return(u)
  /\ UNCHANGED <<sock, sockPool, term, connPool, refs, known, closing, failed>>

(* The scope guard: the state first, then the terminal, if there is one.   *)
UndoConnect(u) ==
  /\ call[u].pc = "undoConnect"
  /\ SetState(call[u].s, "Disconnected")
  /\ Goto(u, "undoTerm")
  /\ UNCHANGED <<sockPool, term, connPool, refs, ops, known, closing, failed>>

(* Slip: m_term is not cleared.                                            *)
UndoTermOnly(u) ==
  LET t == sock[call[u].s].term
  IN  /\ call[u].pc = "undoTerm"
      /\ Return(u)
      /\ \/ /\ t = NoTerm
            /\ UNCHANGED <<term, connPool>>
         \/ /\ t # NoTerm
            /\ term' = [term EXCEPT ![t] = VoidTerm]
            /\ connPool' = Append(connPool, t)
      /\ UNCHANGED <<sock, sockPool, refs, ops, known, closing, failed>>

UndoTerm(u) ==
  LET t == sock[call[u].s].term
  IN  /\ call[u].pc = "undoTerm"
      /\ \/ /\ t = NoTerm
            /\ Return(u)
            /\ UNCHANGED <<term, connPool, failed>>
         \/ /\ t # NoTerm
            /\ Require(term[t] # VoidTerm, "Double free to connection pool")
            /\ term' = [term EXCEPT ![t] = VoidTerm]
            /\ connPool' = Append(connPool, t)
            /\ Goto(u, "clearTerm")
      /\ UNCHANGED <<sock, sockPool, refs, ops, known, closing>>

ClearTerm(u) ==
  /\ call[u].pc = "clearTerm"
  /\ sock' = [sock EXCEPT ![call[u].s].term = NoTerm]
  /\ Return(u)
  /\ UNCHANGED <<sockPool, term, connPool, refs, ops, known, closing, failed>>

-----------------------------------------------------------------------------
(* Completion handlers                                                     *)

(* Slip: the completion stays queued and is handled again.                 *)
BecomesAnother(op, kind) == ops' = ops \cup {[op EXCEPT !.kind = kind]}

(* The handler hands on to the next asynchronous call of the set-up.       *)
Becomes(op, kind) == ops' = (ops \ {op}) \cup {[op EXCEPT !.kind = kind]}
Finished(op)      == ops' = ops \ {op}

(* Slip: nobody is told.                                                   *)
PostNothing(tbl, t) == tbl

(* Post to the TerminalCloser of terminal t: of several posts one counts.  *)
Post(tbl, t) ==
  [tbl EXCEPT ![t].closer = IF @ = "none" THEN "posted" ELSE @]

(* A handler finds its socket as it asserts, and GetTerminal its terminal. *)
Finds(op, states) ==
  /\ sock[op.s].state \in states
  /\ sock[op.s].term = op.t
  /\ term[op.t] # VoidTerm

(* ProcessConnReq: GetConnectionRequest is done.  It failed, the library   *)
(* is closing or the private data cannot be read: report, free terminal    *)
(* and socket.  Otherwise start the terminal and accept.                   *)
ProcessConnReq(op) ==
  /\ op.kind = "connReq"
  /\ refs' = Release(op.listener)
  /\ \/ /\ FreeBoth(op.s, op.t)
        /\ Require(sock[op.s].state # "Inpool", "Double free of socket")
        /\ Finished(op)
     \/ /\ ~ closing
        /\ Require(Finds(op, {"Accept1"}), "Unexpected state found")
        /\ term' = [term EXCEPT ![op.t].started = TRUE]
        /\ Becomes(op, "agree")
        /\ UNCHANGED <<sock, sockPool, connPool>>
  /\ UNCHANGED <<call, known, closing>>

(* OnConnAck: Connect is done.  On any failure the scope guard calls       *)
(* CloseSocket, which waits in vain for the socket to leave its transition *)
(* state and ends the process.                                             *)
OnConnAck(op) ==
  /\ op.kind = "connect"
  /\ \/ /\ Fail("Connect failed and so did CloseSocket")
        /\ UNCHANGED <<sock, term, ops>>
     \/ /\ Require(Finds(op, {"Connecting"}), "Unexpected state found")
        /\ sock' = [sock EXCEPT ![op.s].state = "ConnAck"]
        /\ term' = [term EXCEPT ![op.t].started = TRUE]
        /\ Becomes(op, "agree")
  /\ UNCHANGED <<sockPool, connPool, refs, call, known, closing>>

(* OnConnAccepted, up to NotifyDisconnect.  Accept or CompleteConnect      *)
(* failed, or an address cannot be had: leave it to TerminalCloser.        *)
OnConnAccepted(op) ==
  /\ op.kind = "agree"
  /\ \/ /\ Require(term[op.t].started,
                  "Terminal not started when connection is ready.")
        /\ term' = Post(term, op.t)
        /\ Finished(op)
        /\ UNCHANGED sock
     \/ /\ Require(Finds(op, {"Accept1", "ConnAck"}), "Unexpected state found")
        /\ sock' = [sock EXCEPT ![op.s].state = "ConnAgreed"]
        /\ \/ term' = Post(term, op.t) /\ Finished(op)
           \/ /\ term' = [term EXCEPT ![op.t].notify = TRUE]
              /\ Becomes(op, "settle")
  /\ UNCHANGED <<sockPool, connPool, refs, call, known, closing>>

(* ... the last assertion, the last change of state ...                    *)
Settle(op) ==
  /\ op.kind = "settle"
  /\ \/ /\ sock[op.s].state = "ConnAgreed"
        /\ Becomes(op, "connected")
        /\ UNCHANGED failed
     \/ /\ sock[op.s].state # "ConnAgreed"
        /\ Fail("Race condition in OnConnAccepted")
        /\ UNCHANGED ops
  /\ UNCHANGED <<sock, sockPool, term, connPool, refs, call, known, closing>>

Connected(op) ==
  /\ op.kind = "connected"
  /\ SetState(op.s, "Connected")
  /\ Becomes(op, "tell")
  /\ UNCHANGED <<sockPool, term, connPool, refs, call, known, closing, failed>>

(* ... and the call of m_pConnFunc, which tells the user the handle.       *)
Tell(op) ==
  /\ op.kind = "tell"
  /\ \/ /\ term[op.t].func
        /\ known' = known \cup {term[op.t].handle}
        /\ Finished(op)
        /\ UNCHANGED failed
     \/ /\ ~ term[op.t].func
        /\ Fail("Call of a null ConnectionNotifier")
        /\ UNCHANGED <<known, ops>>
  /\ UNCHANGED <<sock, sockPool, term, connPool, refs, call, closing>>

(* The handlers of the connection on terminal t that need not wait for the *)
(* remote end: an IOCP thread runs them when the adapter has completed.    *)
Handler(t) ==
  \E op \in ops :
    /\ op.t = t
    /\ \/ OnConnAck(op)
       \/ OnConnAccepted(op)
       \/ Settle(op)
       \/ Connected(op)
       \/ Tell(op)

-----------------------------------------------------------------------------
(* The end of a connection                                                 *)

(* The remote end disconnects (external).                                  *)
PeerDisconnect(t) ==
  /\ term[t].notify
  /\ term' = [Post(term, t) EXCEPT ![t].notify = FALSE]
  /\ UNCHANGED <<sock, sockPool, connPool, refs, ops, call, known, closing,
                 failed>>

(* TerminalCloser (external), of a terminal posted to.                     *)
CloserBegin(t) ==
  LET s == HandleToId(term[t].handle)
  IN  /\ term[t].closer = "posted"
      /\ Torn \/ \A op \in ops : ~ (op.kind = "connected" /\ op.s = s)
      /\ SetState(s, "Stopping")
      /\ term' = [term EXCEPT ![t].closer = "running"]
      /\ UNCHANGED <<sockPool, connPool, refs, ops, call, known, closing,
                     failed>>

CloserEnd(t) ==
  /\ term[t].closer = "running"
  /\ FreeBoth(HandleToId(term[t].handle), t)
  /\ UNCHANGED <<refs, ops, call, known, closing, failed>>

-----------------------------------------------------------------------------
(* CloseSocket and the destructor                                          *)

(* The handle is checked once, before the loop.  A dangling handle: return.*)
CloseBegin(u, h) ==
  LET op == IF IsConnection(HandleToId(h)) THEN "hangup" ELSE "close"
  IN  /\ call[u].pc = "idle"
      /\ ~ closing
      /\ h \in known
      /\ known' = known \ {h}
      /\ \/ /\ Valid(h)
            /\ MayCall(u, op, h)
            /\ Begin(u, op, h, HandleToId(h), "close")
         \/ /\ ~ Valid(h)
            /\ UNCHANGED call
      /\ UNCHANGED <<sock, sockPool, term, connPool, refs, ops, closing,
                     failed>>

(* What TryCloseSocket does in state.                                      *)
Branch(state) ==
  CASE state = "Disconnected" -> "stopIdle"
    [] state = "Connected"    -> "readTerm"
    [] state = "Listening"    -> "readListener"

(* One round of the loop: the tests of m_state.  In a transition state the *)
(* thread yields and tries again.                                          *)
CloseRead(u) ==
  LET state == sock[call[u].s].state
  IN  /\ call[u].pc = "close"
      /\ \/ state = "Inpool" /\ Return(u)
         \/ state \in Steady /\ Goto(u, Branch(state))
      /\ UNCHANGED <<sock, sockPool, term, connPool, refs, ops, known, closing,
                     failed>>

(* ... but not for ever.                                                   *)
CloseGiveUp(u) ==
  /\ call[u].pc = "close"
  /\ sock[call[u].s].state \notin Steady \cup {"Inpool"}
  /\ Fail("Socket in transition state for too long")
  /\ UNCHANGED <<sock, sockPool, term, connPool, refs, ops, call, known,
                 closing>>

(* The destructor, when no user is inside the library any more, looks at   *)
(* one socket after the other until all are in the pool.                   *)
Shutdown ==
  /\ ~ closing
  /\ \A u \in Users : call[u].pc = "idle"
  /\ closing' = TRUE
  /\ UNCHANGED <<sock, sockPool, term, connPool, refs, ops, call, known,
                 failed>>

ShutdownRead(s) ==
  /\ closing
  /\ call[Dtor].pc = "idle"
  /\ sock[s].state \in Steady
  /\ Begin(Dtor, "close", NoHandle, s, Branch(sock[s].state))
  /\ UNCHANGED <<sock, sockPool, term, connPool, refs, ops, known, closing,
                 failed>>

(* TryCloseSocket saw Disconnected: m_state, then GiveBack.                *)
StopIdle(c) ==
  /\ call[c].pc = "stopIdle"
  /\ SetState(call[c].s, "Stopping")
  /\ Goto(c, "giveBack")
  /\ UNCHANGED <<sockPool, term, connPool, refs, ops, known, closing, failed>>

(* It saw Connected: m_term ...                                            *)
ReadTerm(c) ==
  LET t == sock[call[c].s].term
  IN  /\ call[c].pc = "readTerm"
      /\ Require(t # NoTerm, "Connected socket should have a terminal.")
      /\ call' = [call EXCEPT ![c].pc = "post", ![c].t = t]
      /\ UNCHANGED <<sock, sockPool, term, connPool, refs, ops, known, closing>>

(* ... and m_pDisconnectCont of that terminal.                             *)
PostClose(c) ==
  LET t == call[c].t
  IN  /\ call[c].pc = "post"
      /\ \/ /\ ~ term[t].started
            /\ Fail("Post to a terminal that has no TerminalCloser")
            /\ UNCHANGED <<term, call>>
         \/ /\ term[t].started
            /\ term' = Post(term, t)
            /\ Return(c)
            /\ UNCHANGED failed
      /\ UNCHANGED <<sock, sockPool, connPool, refs, ops, known, closing>>

(* It saw Listening: m_pListen is read and cleared, m_state changed, the   *)
(* listener released; then GiveBack.                                       *)
ReadListener(c) ==
  LET l == sock[call[c].s].listen
  IN  /\ call[c].pc = "readListener"
      /\ Require(l # NoListener, "Listener expected from a listening socket.")
      /\ call' = [call EXCEPT ![c].pc = "unlisten", ![c].l = l]
      /\ UNCHANGED <<sock, sockPool, term, connPool, refs, ops, known, closing>>

Unlisten(c) ==
  /\ call[c].pc = "unlisten"
  /\ sock' = [sock EXCEPT ![call[c].s].listen = NoListener]
  /\ Goto(c, "stopListening")
  /\ UNCHANGED <<sockPool, term, connPool, refs, ops, known, closing, failed>>

StopListening(c) ==
  /\ call[c].pc = "stopListening"
  /\ SetState(call[c].s, "Stopping")
  /\ Goto(c, "release")
  /\ UNCHANGED <<sockPool, term, connPool, refs, ops, known, closing, failed>>

ReleaseListener(c) ==
  /\ call[c].pc = "release"
  /\ Require(Alive(call[c].l), "Listener used after its last release")
  /\ refs' = Release(call[c].l)
  /\ Goto(c, "giveBack")
  /\ UNCHANGED <<sock, sockPool, term, connPool, ops, known, closing>>

-----------------------------------------------------------------------------

Init ==
  /\ sock = [s \in Socks |-> [state |-> "Inpool", gen |-> 1, term |-> NoTerm,
                              listen |-> NoListener]]
  /\ sockPool \in {q \in [1 .. Cardinality(Socks) -> Socks] :
                     \A s \in Socks : \E i \in DOMAIN q : q[i] = s}
  /\ term = [t \in Terms |-> VoidTerm]
  /\ connPool \in {q \in [1 .. Cardinality(Terms) -> Terms] :
                     \A t \in Terms : \E i \in DOMAIN q : q[i] = t}
  /\ refs = [l \in Listeners |-> [count |-> 0, lost |-> 0]]
  /\ ops = {}
  /\ call = [c \in Callers |-> IdleCall]
  /\ known = {}
  /\ closing = FALSE
  /\ failed = "no"

User(u) ==
  \/ CreateSocket(u)
  \/ \E h \in known : \/ ListenBegin(u, h)
                      \/ AcceptBegin(u, h)
                      \/ ConnectBegin(u, h)
                      \/ CloseBegin(u, h)

(* The rest of the calls.                                                  *)
InCall(u) ==
  \/ Publish(u) \/ TakeTerm(u) \/ PrepareFails(u) \/ Prepared(u)
  \/ ListenCheck(u) \/ ListenSet(u) \/ ListenAgain(u) \/ CreateListener(u)
  \/ BindListener(u) \/ ListenEnd(u)
  \/ UndoListen(u) \/ UndoListener(u) \/ ClearListener(u)
  \/ AcceptCheck(u) \/ AcceptSock(u) \/ Accept1(u) \/ AcceptListen(u)
  \/ AcceptRef(u)
  \/ ConnectCheck(u) \/ ConnectSet(u) \/ ConnectAgain(u) \/ Bind(u)
  \/ UndoConnect(u) \/ UndoTerm(u) \/ ClearTerm(u)
  \/ CloseRead(u)

TryCloseSocket(c) ==
  \/ StopIdle(c) \/ ReadTerm(c) \/ PostClose(c)
  \/ ReadListener(c) \/ Unlisten(c) \/ StopListening(c) \/ ReleaseListener(c)
  \/ GiveBack(c)

Closer(t) == CloserBegin(t) \/ CloserEnd(t)

Running ==
  \/ \E u \in Users : User(u) \/ InCall(u) \/ CloseGiveUp(u)
  \/ \E c \in Callers : TryCloseSocket(c)
  \/ \E op \in ops : ProcessConnReq(op)
  \/ \E t \in Terms : Handler(t) \/ Closer(t) \/ PeerDisconnect(t)
  \/ Shutdown
  \/ \E s \in Socks : ShutdownRead(s)

(* The destructor has finished.                                            *)
Rest ==
  /\ closing
  /\ \A s \in Socks : sock[s].state = "Inpool"
  /\ UNCHANGED vars
Dead == failed # "no" /\ UNCHANGED vars

Next == (failed = "no" /\ Running) \/ Rest \/ Dead

Spec == Init /\ [][Next]_vars

(* Threads inside the library, IOCP threads, closers and the destructor do *)
(* not stop.  Nothing makes users call, clients connect or peers           *)
(* disconnect.                                                             *)
Fairness ==
  /\ \A u \in Users : WF_vars(failed = "no" /\ InCall(u))
  /\ \A c \in Callers : WF_vars(failed = "no" /\ TryCloseSocket(c))
  /\ WF_vars(failed = "no" /\ \E s \in Socks : ShutdownRead(s))
  /\ \A t \in Terms : /\ WF_vars(failed = "no" /\ Handler(t))
                      /\ WF_vars(failed = "no" /\ Closer(t))

FairSpec == Spec /\ Fairness

-----------------------------------------------------------------------------
(* Properties                                                              *)

Labels == {"idle", "publish", "giveBack", "takeTerm", "prepare",
           "listenCheck", "listenSet", "listenAgain", "createListener",
           "bindListener", "listenEnd", "undoListen", "undoListener",
           "clearListener", "acceptCheck", "acceptSock", "accept1",
           "acceptListen", "acceptRef", "connectCheck", "connectSet",
           "connectAgain", "bind", "undoConnect", "undoTerm", "clearTerm",
           "close", "stopIdle", "readTerm", "post", "readListener",
           "unlisten", "stopListening", "release"}

Calls == {"none", "create", "listen", "accept", "connect", "close", "hangup"}

Op == [kind : {"connReq", "connect", "agree", "settle", "connected", "tell"},
       s : Socks, t : Terms, listener : Listeners \cup {NoListener}]

(* The assertions that say another thread or handler must not have touched *)
(* the socket, its terminal or its listener in the meantime.               *)
Audits == {"Socket state changed while in socket pool!",
           "Double free of socket",
           "Double allocation of connection block.",
           "Double free to connection pool",
           "Unexpect race condition detected in Listen.",
           "Listener used after its last release",
           "Listener expected from a listening socket.",
           "Unexpected state found",
           "Terminal not started when connection is ready."}

Failures == Audits \cup
  {"Exhausted connection!", "Connect failed and so did CloseSocket",
   "Race condition in OnConnAccepted", "Call of a null ConnectionNotifier",
   "Connected socket should have a terminal.",
   "Post to a terminal that has no TerminalCloser",
   "Socket in transition state for too long"}

(* Every variable keeps its type; with callers that keep the Contract, no  *)
(* listener is released more often than it was referenced.                 *)
TypeOK ==
  /\ sock \in [Socks -> [state : States, gen : Gens, term : Terms \cup {NoTerm},
                         listen : Listeners \cup {NoListener}]]
  /\ sockPool \in Seq(Socks)
  /\ term \in [Terms -> [handle : Handles \cup {NoHandle}, started : BOOLEAN,
                         func : BOOLEAN, notify : BOOLEAN,
                         closer : {"none", "posted", "running"}]]
  /\ connPool \in Seq(Terms)
  /\ refs \in [Listeners -> [count : Nat, lost : Nat]]
  /\ ops \subseteq Op
  /\ call \in [Callers -> [op : Calls, pc : Labels,
                           h : Handles \cup {NoHandle},
                           s : Socks \cup {NoHandle}, t : Terms \cup {NoTerm},
                           l : Listeners \cup {NoListener}]]
  /\ known \subseteq Handles
  /\ closing \in BOOLEAN
  /\ failed \in Failures \cup {"no"}

(* A thread is between two accesses, at one of labels, with slot s.        *)
Amid(labels, s) == \E c \in Callers : call[c].pc \in labels /\ call[c].s = s

(* The socket pool holds each slot in state Inpool once and cleared, but   *)
(* for one a thread has just taken out: no socket is freed twice, lost or  *)
(* handed out while in use, however the steps of calls that keep the       *)
(* Contract, of handlers, closers and the destructor interleave.           *)
SlotsConserved ==
  /\ Distinct(sockPool)
  /\ \A s \in Socks :
       /\ sock[s].state = "Inpool"
            <=> s \in Members(sockPool) \/ Amid({"publish"}, s)
       /\ ~ (s \in Members(sockPool) /\ Amid({"publish"}, s))
       /\ sock[s].state = "Inpool" => SlotClean(s)

(* Socket s has terminal t, and is not just losing it; a thread prepares t.*)
Has(s, t)      == sock[s].term = t /\ ~ Amid({"clearTerm"}, s)
Prepares(c, t) == call[c].pc = "prepare" /\ call[c].t = t

(* A terminal is in the pool, in the hands of the one thread that prepares *)
(* it, or belongs to the one socket whose current handle it carries        *)
(* ("Mismatched handle value found." in Send never fails); a Connected     *)
(* socket has one that was started.                                        *)
TerminalsConserved ==
  /\ Distinct(connPool)
  /\ \A t \in Terms :
       LET had  == \E s \in Socks : Has(s, t)
           made == \E c \in Callers : Prepares(c, t)
       IN  /\ t \in Members(connPool) <=> ~ had /\ ~ made
           /\ ~ (had /\ made)
  /\ \A c, d \in Callers, t \in Terms : Prepares(c, t) /\ Prepares(d, t) => c = d
  /\ \A s \in Socks, t \in Terms : Has(s, t) => term[t].handle = HandleOf(s)
  /\ \A s \in Socks : sock[s].state = "Connected" =>
       sock[s].term # NoTerm /\ term[sock[s].term].started

(* A completion handler holds a reference to a slot across an asynchronous *)
(* call.  Up to NotifyDisconnect the slot is still its own when it runs:   *)
(* same socket, same terminal, in the state the handler asserts.           *)
HandlersFindSocket ==
  \A op \in ops :
    LET state == sock[op.s].state
    IN  /\ op.kind = "connReq" => state = "Accept1"
        /\ op.kind = "connect" => state = "Connecting"
        /\ op.kind = "agree"   => state \in {"Accept1", "ConnAck"}
        /\ op.kind \in {"connReq", "connect", "agree"} =>
             /\ sock[op.s].term = op.t
             /\ term[op.t].closer = "none"

(* Who holds a reference on listener l: a socket, unless its scope guard   *)
(* has just released it; a thread; a pending request of a connection.      *)
Holders(l) ==
  {<<"socket", s>> : s \in {r \in Socks : /\ sock[r].listen = l
                                         /\ ~ Amid({"clearListener"}, r)}}
    \cup
  {<<"thread", c>> : c \in {d \in Callers :
     /\ call[d].l = l
     /\ \/ call[d].pc \in {"stopListening", "release"}
        \/ call[d].pc \in {"takeTerm", "prepare"} /\ call[d].op = "accept"}}
    \cup
  {<<"request", op>> : op \in {o \in ops : o.kind = "connReq" /\ o.listener = l}}

(* A listener outlives the listening socket while an Accept or a pending   *)
(* connection request still uses it, and not longer: the references are    *)
(* exactly those of its holders, but for the one Accept loses each time    *)
(* AllocTerminal fails (its scope guard does not release the listener).    *)
ListenersCounted ==
  \A l \in Listeners : refs[l].count = Cardinality(Holders(l)) + refs[l].lost

(* Each of the Audits holds whenever a thread or a handler comes to it, if *)
(* callers keep the Contract.  Not among them: those that a disconnection  *)
(* makes fail whatever callers do (ConnectedHasTerminal, and the last      *)
(* assertion of OnConnAccepted).                                           *)
AuditsHold == failed \notin Audits

(* A socket waits for a client in Accept1.                                 *)
AwaitsClient(s) == \E op \in ops : op.kind = "connReq" /\ op.s = s

(* "Busy waiting as the socket is in transition state": every transition   *)
(* state is left again, so the loops of CloseSocket and of the destructor  *)
(* do not wait for ever, except for a client that does not come.           *)
TransitionsEnd ==
  \A s \in Socks :
    sock[s].state \notin Steady \cup {"Inpool"}
      ~> \/ sock[s].state \in Steady \cup {"Inpool"}
         \/ AwaitsClient(s)
         \/ failed # "no"

(* The destructor gets every socket back into the pool, except those that  *)
(* wait for a client.                                                      *)
ShutdownEnds ==
  closing ~> \/ \A s \in Socks : sock[s].state = "Inpool" \/ AwaitsClient(s)
             \/ failed # "no"

(* "Hook for async notification of connection success or failure": a       *)
(* connection that cannot be made is reported, and does not end the        *)
(* process.                                                                *)
ConnectFailureReported == failed # "Connect failed and so did CloseSocket"

(* "Connected socket should have a terminal.": the assertion in            *)
(* TryCloseSocket never fails.                                             *)
ConnectedHasTerminal == failed # "Connected socket should have a terminal."

=============================================================================
