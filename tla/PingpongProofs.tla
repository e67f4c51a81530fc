--------------------------- MODULE PingpongProofs ---------------------------
(***************************************************************************)
(* Theorems about the sample, for every number of tests, size of messages  *)
(* and pools of two buffers or more: client and server stay in step, and   *)
(* no buffer is lost, shared or used after its release while the           *)
(* connection is up.                                                       *)
(***************************************************************************)
EXTENDS Pingpong, SequenceTheorems, TLAPS

-----------------------------------------------------------------------------
(* Buffer managers.  Both processes have one of the same kind.             *)

Bufs  == SrvBuf!Buffers
Pools == SrvBuf!Pools

(* The two instances of BufferPool have the same buffers.                  *)
LEMMA SamePools ==
  CltBuf!Buffers = Bufs /\ CltBuf!Pools = Pools
PROOF BY DEF SrvBuf!Buffers, SrvBuf!Pools, CltBuf!Buffers, CltBuf!Pools, Bufs,
             Pools

(* A buffer is not None, and its first part is its pool or the heap.       *)
LEMMA BufParts ==
  ASSUME NEW b \in Bufs
  PROVE  b # None /\ (b[1] \in Pools \/ b[1] = "heap") /\ b \notin {None}
PROOF
<1>1. ASSUME b = None  PROVE FALSE
  <2>1. DOMAIN b = 1 .. 2  BY DEF Bufs, SrvBuf!Buffers
  <2>2. DOMAIN None = {}  BY DEF None
  <2>. QED  BY <1>1, <2>1, <2>2
<1>2. b[1] \in Pools \/ b[1] = "heap"  BY DEF Bufs, SrvBuf!Buffers, Pools
<1>. QED  BY <1>1, <1>2

(* The heap is not one of the pools.                                       *)
LEMMA HeapNoPool == "heap" \notin Pools
PROOF BY DEF Pools, SrvBuf!Pools

(* What a manager with the queues f and the sizes s keeps, while the       *)
(* buffers in O are in use and those in T are being released: the others   *)
(* of a pool are in its queue, once, and no other buffer has a size.       *)
Elements(q) == {q[i] : i \in DOMAIN q}

PoolKept(f, s, O, T) ==
  /\ f \in [Pools -> Seq(Bufs)] /\ s \in [Bufs -> Nat]
  /\ O \subseteq Bufs /\ T \subseteq Bufs
  /\ \A b \in O : s[b] # 0
  /\ \A b \in T : s[b] = 0 <=> b[1] # "heap"
  /\ \A b \in Bufs \ (O \cup T) : s[b] = 0
  /\ \A p \in Pools :
       /\ \A i, j \in DOMAIN f[p] : f[p][i] = f[p][j] => i = j
       /\ Elements(f[p]) = {b \in Bufs : b[1] = p} \ (O \cup T)

(* Taking the first element off a queue without repetitions.               *)
LEMMA QueueTake ==
  ASSUME NEW q \in Seq(Bufs), q # <<>>,
         \A i, j \in DOMAIN q : q[i] = q[j] => i = j
  PROVE  /\ Head(q) \in Elements(q) /\ Tail(q) \in Seq(Bufs)
         /\ \A i, j \in DOMAIN Tail(q) : Tail(q)[i] = Tail(q)[j] => i = j
         /\ Elements(Tail(q)) = Elements(q) \ {Head(q)}
PROOF
<1>1. /\ Len(q) \in Nat \ {0} /\ Head(q) = q[1] /\ Tail(q) \in Seq(Bufs)
      /\ DOMAIN q = 1 .. Len(q) /\ Len(Tail(q)) = Len(q) - 1
      /\ \A i \in 1 .. Len(Tail(q)) : Tail(q)[i] = q[i + 1]
  BY HeadTailProperties, EmptySeq, LenProperties
<1>2. DOMAIN Tail(q) = 1 .. Len(q) - 1  BY <1>1, LenProperties
<1>3. \A i \in 1 .. Len(q) - 1 : /\ Tail(q)[i] = q[i + 1]
                                 /\ i + 1 \in 1 .. Len(q) /\ i + 1 # 1
  BY <1>1
<1>4. \A i \in 1 .. Len(q) : i = 1 \/ (i - 1 \in 1 .. Len(q) - 1
                                       /\ Tail(q)[i - 1] = q[i])
  <2>. TAKE i \in 1 .. Len(q)
  <2>1. i = 1 \/ (i - 1 \in 1 .. Len(q) - 1 /\ (i - 1) + 1 = i)  BY <1>1
  <2>. QED  BY <1>3, <2>1
<1>5. Head(q) \in Elements(q)  BY <1>1 DEF Elements
<1>6. ASSUME NEW i \in DOMAIN Tail(q), NEW j \in DOMAIN Tail(q),
             Tail(q)[i] = Tail(q)[j]
      PROVE  i = j
  <2>1. q[i + 1] = q[j + 1] /\ i + 1 \in DOMAIN q /\ j + 1 \in DOMAIN q
    BY <1>1, <1>2, <1>3, <1>6
  <2>2. i + 1 = j + 1  BY <2>1
  <2>. QED  BY <1>1, <1>2, <2>2
<1>7. Elements(Tail(q)) \subseteq Elements(q) \ {Head(q)}
  <2>. SUFFICES ASSUME NEW i \in 1 .. Len(q) - 1
                PROVE  Tail(q)[i] \in Elements(q) \ {Head(q)}
    BY <1>2 DEF Elements
  <2>1. Tail(q)[i] = q[i + 1] /\ i + 1 \in DOMAIN q /\ i + 1 # 1 /\ 1 \in DOMAIN q
    BY <1>1, <1>3
  <2>2. q[i + 1] # q[1]  BY <2>1
  <2>. QED  BY <1>1, <2>1, <2>2 DEF Elements
<1>8. Elements(q) \ {Head(q)} \subseteq Elements(Tail(q))
  <2>. SUFFICES ASSUME NEW i \in 1 .. Len(q), q[i] # q[1]
                PROVE  q[i] \in Elements(Tail(q))
    BY <1>1 DEF Elements
  <2>1. i - 1 \in 1 .. Len(q) - 1 /\ Tail(q)[i - 1] = q[i]  BY <1>4
  <2>. QED  BY <1>2, <2>1 DEF Elements
<1>. QED  BY <1>1, <1>5, <1>6, <1>7, <1>8

(* Adding an element that is not in the queue.                             *)
LEMMA QueueAdd ==
  ASSUME NEW q \in Seq(Bufs), NEW b \in Bufs, b \notin Elements(q),
         \A i, j \in DOMAIN q : q[i] = q[j] => i = j
  PROVE  /\ Append(q, b) \in Seq(Bufs)
         /\ \A i, j \in DOMAIN Append(q, b) :
              Append(q, b)[i] = Append(q, b)[j] => i = j
         /\ Elements(Append(q, b)) = Elements(q) \cup {b}
PROOF
<1>. DEFINE r == Append(q, b)
<1>1. /\ r \in Seq(Bufs) /\ Len(q) \in Nat /\ Len(r) = Len(q) + 1
      /\ \A i \in 1 .. Len(q) : r[i] = q[i]
      /\ r[Len(q) + 1] = b /\ DOMAIN q = 1 .. Len(q)
  BY AppendProperties, LenProperties
<1>2. DOMAIN r = 1 .. Len(q) + 1  BY <1>1, LenProperties
<1>. HIDE DEF r
<1>3. \A i \in DOMAIN r : \/ i \in DOMAIN q /\ r[i] = q[i]
                          \/ i = Len(q) + 1 /\ r[i] = b
  BY <1>1, <1>2
<1>4. \A i \in DOMAIN q : i \in DOMAIN r /\ q[i] # b /\ r[i] = q[i]
  BY <1>1, <1>2 DEF Elements
<1>5. Len(q) + 1 \in DOMAIN r  BY <1>1, <1>2
<1>6. \A i, j \in DOMAIN r : r[i] = r[j] => i = j
  BY <1>3, <1>4
<1>7. Elements(r) = Elements(q) \cup {b}
  <2>1. Elements(r) \subseteq Elements(q) \cup {b}  BY <1>3 DEF Elements
  <2>2. Elements(q) \subseteq Elements(r)  BY <1>4 DEF Elements
  <2>3. b \in Elements(r)  BY <1>1, <1>5 DEF Elements
  <2>. QED  BY <2>1, <2>2, <2>3
<1>. QED  BY <1>1, <1>6, <1>7 DEF r

(* Allocate hands out a buffer nobody holds.                               *)
Taken(b, k, f, s, f2, s2) ==
  /\ k \in Nat \ {0} /\ s2 = [s EXCEPT ![b] = k]
  /\ \/ b[1] = "heap" /\ s[b] = 0 /\ f2 = f
     \/ /\ b[1] # "heap" /\ f[b[1]] # <<>> /\ b = Head(f[b[1]])
        /\ f2 = [f EXCEPT ![b[1]] = Tail(f[b[1]])]

(* Allocate keeps the pools: the buffer was nobody's, now it is held.      *)
LEMMA KeptTake ==
  ASSUME NEW f, NEW s, NEW O, NEW T, PoolKept(f, s, O, T),
         NEW b \in Bufs, NEW k, NEW f2, NEW s2, Taken(b, k, f, s, f2, s2)
  PROVE  b \notin O \cup T /\ PoolKept(f2, s2, O \cup {b}, T)
PROOF
<1>. USE DEF PoolKept, Taken
<1>1. /\ s2 \in [Bufs -> Nat] /\ s2[b] = k
      /\ \A c \in Bufs \ {b} : s2[c] = s[c]
  OBVIOUS
<1>2. b[1] \in Pools \/ b[1] = "heap"  BY BufParts
<1>3. CASE b[1] = "heap"
  <2>1. s[b] = 0 /\ f2 = f  BY <1>3
  <2>2. b \notin O \cup T  BY <1>3, <2>1
  <2>3. /\ \A c \in O \cup {b} : s2[c] # 0
        /\ \A c \in T : s2[c] = 0 <=> c[1] # "heap"
        /\ \A c \in Bufs \ ((O \cup {b}) \cup T) : s2[c] = 0
    <3>1. \A c \in O : s2[c] # 0  BY <1>1, <2>2
    <3>2. \A c \in T : s2[c] = s[c]  BY <1>1, <2>2
    <3>. QED  BY <1>1, <3>1, <3>2
  <2>4. \A p \in Pools : {c \in Bufs : c[1] = p} \ (O \cup T)
                           = {c \in Bufs : c[1] = p} \ ((O \cup {b}) \cup T)
    BY <1>3, HeapNoPool
  <2>. QED  BY <1>1, <2>1, <2>2, <2>3, <2>4
<1>4. CASE b[1] # "heap"
  <2>. DEFINE q == f[b[1]]
  <2>1. /\ b[1] \in Pools /\ q # <<>> /\ b = Head(q) /\ q \in Seq(Bufs)
        /\ f2 = [f EXCEPT ![b[1]] = Tail(q)]
    BY <1>2, <1>4
  <2>2. \A i, j \in DOMAIN q : q[i] = q[j] => i = j  BY <2>1
  <2>. HIDE DEF q
  <2>3. /\ Head(q) \in Elements(q) /\ Tail(q) \in Seq(Bufs)
        /\ \A i, j \in DOMAIN Tail(q) : Tail(q)[i] = Tail(q)[j] => i = j
        /\ Elements(Tail(q)) = Elements(q) \ {b}
    BY <2>1, <2>2, QueueTake
  <2>4. Elements(q) = {c \in Bufs : c[1] = b[1]} \ (O \cup T)
    BY <2>1 DEF q
  <2>5. b \notin O \cup T  BY <2>1, <2>3, <2>4
  <2>6. f2 \in [Pools -> Seq(Bufs)] /\ f2[b[1]] = Tail(q)
        /\ \A p \in Pools \ {b[1]} : f2[p] = f[p]
    BY <2>1, <2>3
  <2>7. /\ \A c \in O \cup {b} : s2[c] # 0
        /\ \A c \in T : s2[c] = 0 <=> c[1] # "heap"
        /\ \A c \in Bufs \ ((O \cup {b}) \cup T) : s2[c] = 0
    <3>1. \A c \in O \cup T : s2[c] = s[c]  BY <2>5
    <3>. QED  BY <1>1, <3>1
  <2>8. ASSUME NEW p \in Pools
        PROVE  /\ \A i, j \in DOMAIN f2[p] : f2[p][i] = f2[p][j] => i = j
               /\ Elements(f2[p])
                    = {c \in Bufs : c[1] = p} \ ((O \cup {b}) \cup T)
    <3>1. CASE p = b[1]
      <4>1. {c \in Bufs : c[1] = p} \ ((O \cup {b}) \cup T)
              = ({c \in Bufs : c[1] = p} \ (O \cup T)) \ {b}
        OBVIOUS
      <4>2. Elements(f2[p]) = {c \in Bufs : c[1] = p} \ ((O \cup {b}) \cup T)
        BY <2>3, <2>4, <2>6, <3>1, <4>1
      <4>3. f2[p] = Tail(q)  BY <2>6, <3>1
      <4>4. \A i, j \in DOMAIN f2[p] : f2[p][i] = f2[p][j] => i = j
        BY <2>3, <4>3
      <4>. QED  BY <4>2, <4>4
    <3>2. CASE p # b[1]
      <4>1. f2[p] = f[p]  BY <2>6, <3>2
      <4>2. {c \in Bufs : c[1] = p} \ ((O \cup {b}) \cup T)
              = {c \in Bufs : c[1] = p} \ (O \cup T)
        BY <3>2
      <4>. QED  BY <4>1, <4>2
    <3>. QED  BY <3>1, <3>2
  <2>. QED  BY <1>1, <2>5, <2>6, <2>7, <2>8
<1>. QED  BY <1>3, <1>4

(* The first step of Release clears it ...                                 *)
Cleared(b, f, s, f2, s2) ==
  \/ b[1] # "heap" /\ s2 = [s EXCEPT ![b] = 0] /\ f2 = f
  \/ b[1] = "heap" /\ f2 = f /\ s2 = s

(* The cleared buffer is on its way from its holder to the queue.          *)
LEMMA KeptClear ==
  ASSUME NEW f, NEW s, NEW O, PoolKept(f, s, O, {}),
         NEW b \in O, b \in Bufs, NEW f2, NEW s2, Cleared(b, f, s, f2, s2)
  PROVE  PoolKept(f2, s2, O \ {b}, {b})
PROOF
<1>. USE DEF PoolKept, Cleared
<1>1. s2 \in [Bufs -> Nat] /\ f2 = f
  OBVIOUS
<1>2. s2[b] = 0 <=> b[1] # "heap"  OBVIOUS
<1>3. \A c \in Bufs : c # b => s2[c] = s[c]  OBVIOUS
<1>4. /\ \A c \in O \ {b} : s2[c] # 0
      /\ \A c \in Bufs \ ((O \ {b}) \cup {b}) : s2[c] = 0
  BY <1>3
<1>5. (O \ {b}) \cup {b} = O \cup {}  OBVIOUS
<1>. QED  BY <1>1, <1>2, <1>4, <1>5

(* ... and the second gives it back.                                       *)
GivenBack(b, f, s, f2, s2) ==
  \/ b[1] # "heap" /\ f2 = [f EXCEPT ![b[1]] = Append(f[b[1]], b)] /\ s2 = s
  \/ b[1] = "heap" /\ f2 = f /\ s2 = [s EXCEPT ![b] = 0]

(* Back in the queue it is free again.                                     *)
LEMMA KeptBack ==
  ASSUME NEW f, NEW s, NEW O, NEW b \in Bufs, b \notin O,
         PoolKept(f, s, O, {b}), NEW f2, NEW s2, GivenBack(b, f, s, f2, s2)
  PROVE  PoolKept(f2, s2, O, {})
PROOF
<1>. USE DEF PoolKept, GivenBack
<1>1. s2 \in [Bufs -> Nat] /\ s2[b] = 0
  OBVIOUS
<1>2. \A c \in Bufs : c # b => s2[c] = s[c]  OBVIOUS
<1>3. /\ \A c \in O : s2[c] # 0
      /\ \A c \in Bufs \ (O \cup {}) : s2[c] = 0
  BY <1>1, <1>2
<1>4. b[1] \in Pools \/ b[1] = "heap"  BY BufParts
<1>5. CASE b[1] = "heap"
  <2>1. f2 = f  BY <1>5
  <2>2. \A p \in Pools : {c \in Bufs : c[1] = p} \ (O \cup {b})
                           = {c \in Bufs : c[1] = p} \ (O \cup {})
    BY <1>5, HeapNoPool
  <2>. QED  BY <1>1, <1>3, <2>1, <2>2
<1>6. CASE b[1] # "heap"
  <2>. DEFINE q == f[b[1]]
  <2>1. /\ b[1] \in Pools /\ q \in Seq(Bufs)
        /\ f2 = [f EXCEPT ![b[1]] = Append(q, b)]
        /\ \A i, j \in DOMAIN q : q[i] = q[j] => i = j
        /\ Elements(q) = {c \in Bufs : c[1] = b[1]} \ (O \cup {b})
    BY <1>4, <1>6
  <2>. HIDE DEF q
  <2>2. b \notin Elements(q)  BY <2>1
  <2>3. /\ Append(q, b) \in Seq(Bufs)
        /\ \A i, j \in DOMAIN Append(q, b) :
              Append(q, b)[i] = Append(q, b)[j] => i = j
        /\ Elements(Append(q, b)) = Elements(q) \cup {b}
    BY <2>1, <2>2, QueueAdd
  <2>4. f2 \in [Pools -> Seq(Bufs)] /\ f2[b[1]] = Append(q, b)
        /\ \A p \in Pools \ {b[1]} : f2[p] = f[p]
    BY <2>1, <2>3
  <2>5. ASSUME NEW p \in Pools
        PROVE  /\ \A i, j \in DOMAIN f2[p] : f2[p][i] = f2[p][j] => i = j
               /\ Elements(f2[p]) = {c \in Bufs : c[1] = p} \ (O \cup {})
    <3>1. CASE p = b[1]
      <4>1. Elements(f2[p]) = {c \in Bufs : c[1] = p} \ (O \cup {})
        BY <2>1, <2>3, <2>4, <3>1
      <4>. QED  BY <2>3, <2>4, <3>1, <4>1
    <3>2. CASE p # b[1]
      <4>1. f2[p] = f[p]  BY <2>4, <3>2
      <4>2. {c \in Bufs : c[1] = p} \ (O \cup {})
              = {c \in Bufs : c[1] = p} \ (O \cup {b})
        BY <3>2
      <4>. QED  BY <4>1, <4>2
    <3>. QED  BY <3>1, <3>2
  <2>. QED  BY <1>1, <1>3, <2>4, <2>5
<1>. QED  BY <1>5, <1>6

-----------------------------------------------------------------------------
(* The invariant: what the counters, the messages and the two calls of a   *)
(* notifier are at every moment.                                           *)

Carried == IF rcv = None THEN 0 ELSE 1

(* The four stations of a round lie within one of each other; the server   *)
(* has dropped a message only if the connection is gone.                   *)
CountInv ==
  /\ Len(reqSent) <= args.tests
  /\ Len(reqRcvd) <= Len(reqSent)
  /\ Len(echoSent) + Carried <= Len(reqRcvd)
  /\ up => Len(echoSent) + Carried = Len(reqRcvd)
  /\ Len(echoDone) <= Len(echoSent)
  /\ Len(echoRcvd) <= Len(echoSent)
  /\ Len(echoRcvd) <= Len(echoDone) + 1
  /\ Len(reqSent) <= Len(echoRcvd) + 1
  /\ crcv.step = 1 => Len(reqSent) = Len(echoRcvd) /\ Len(echoRcvd) > 0
  /\ tests + Len(echoRcvd) = args.tests + (IF crcv.step = 1 THEN 1 ELSE 0)
  /\ served + Carried = Len(reqRcvd)

(* Requests and echoes are numbered in order, and what arrives was sent.   *)
ContentInv ==
  /\ \A i \in 1 .. Len(reqSent) : reqSent[i] = i
  /\ \A i \in 1 .. Len(echoSent) : echoSent[i].round = i
  /\ \A i \in 1 .. Len(echoRcvd) : echoRcvd[i] = echoSent[i]
  /\ rcv # None => rcv.round = Len(reqRcvd)

(* OnEchoFinish is at the oldest echo not completed.                       *)
HandlerInv ==
  /\ \/ finish = Idle
     \/ /\ finish \in [step : {2}, buf : Bufs]
        /\ Len(echoDone) < Len(echoSent)
        /\ finish.buf = echoSent[Len(echoDone) + 1].buf
  /\ crcv = Idle \/ crcv \in [step : 1 .. 3, buf : Bufs]
  /\ server = "gone" => ~ up /\ rcv = None /\ finish = Idle

BaseInv == TypeOK /\ CountInv /\ ContentInv /\ HandlerInv

(* Lengths and elements of the histories.                                  *)
LEMMA SeqAppend ==
  ASSUME NEW S, NEW q \in Seq(S)
  PROVE  /\ Len(q) \in Nat
         /\ \A i \in 1 .. Len(q) : q[i] \in S
         /\ \A x \in S : /\ Append(q, x) \in Seq(S)
                         /\ Len(Append(q, x)) = Len(q) + 1
                         /\ \A i \in 1 .. Len(q) : Append(q, x)[i] = q[i]
                         /\ Append(q, x)[Len(q) + 1] = x
PROOF
<1>1. Len(q) \in Nat /\ \A i \in 1 .. Len(q) : q[i] \in S
  BY LenProperties, ElementOfSeq
<1>2. ASSUME NEW x \in S
      PROVE  /\ Append(q, x) \in Seq(S)
             /\ Len(Append(q, x)) = Len(q) + 1
             /\ \A i \in 1 .. Len(q) : Append(q, x)[i] = q[i]
             /\ Append(q, x)[Len(q) + 1] = x
  BY AppendProperties
<1>. QED  BY <1>1, <1>2

(* The types, one by one, for the steps below.                             *)
LEMMA Types ==
  ASSUME BaseInv
  PROVE  /\ reqSent \in Seq(Rounds) /\ reqDone \in Seq(Rounds)
         /\ reqRcvd \in Seq(Rounds) /\ echoSent \in Seq(Echoes)
         /\ echoDone \in Seq(Echoes) /\ echoRcvd \in Seq(Echoes)
         /\ Len(reqSent) \in Nat /\ Len(reqDone) \in Nat
         /\ Len(reqRcvd) \in Nat /\ Len(echoSent) \in Nat
         /\ Len(echoDone) \in Nat /\ Len(echoRcvd) \in Nat
         /\ MaxTests \in Nat \ {0} /\ Rounds = 1 .. MaxTests
         /\ args.tests \in 1 .. MaxTests /\ args.size \in Nat
         /\ tests \in Nat /\ served \in Nat /\ Carried \in {0, 1}
         /\ MaxMsgSize \in Nat /\ Alignment \in Nat
PROOF
<1>1. /\ reqSent \in Seq(Rounds) /\ reqDone \in Seq(Rounds)
      /\ reqRcvd \in Seq(Rounds) /\ echoSent \in Seq(Echoes)
      /\ echoDone \in Seq(Echoes) /\ echoRcvd \in Seq(Echoes)
      /\ args \in [size : MsgSizes, tests : Rounds]
      /\ tests \in 0 .. MaxTests /\ served \in 0 .. MaxTests
  BY DEF BaseInv, TypeOK
<1>2. /\ MaxTests \in Nat \ {0} /\ MsgSizes \subseteq Nat
      /\ Rounds = 1 .. MaxTests /\ MaxMsgSize \in Nat /\ Alignment \in Nat
  BY PingpongAssumption DEF Rounds
<1>3. /\ Len(reqSent) \in Nat /\ Len(reqDone) \in Nat
      /\ Len(reqRcvd) \in Nat /\ Len(echoSent) \in Nat
      /\ Len(echoDone) \in Nat /\ Len(echoRcvd) \in Nat
  BY <1>1, LenProperties
<1>4. args.tests \in 1 .. MaxTests /\ args.size \in Nat
  BY <1>1, <1>2
<1>5. tests \in Nat /\ served \in Nat /\ Carried \in {0, 1}
  BY <1>1, <1>2 DEF Carried
<1>. QED  BY <1>1, <1>2, <1>3, <1>4, <1>5

(* A message is not None.                                                  *)
LEMMA EchoNotNone == \A x \in Echoes : x # None
PROOF
<1>1. ASSUME NEW x \in Echoes, x = None  PROVE FALSE
  <2>1. DOMAIN x = {"round", "buf"}  BY DEF Echoes
  <2>2. DOMAIN None = {}  BY DEF None
  <2>. QED  BY <1>1, <2>1, <2>2
<1>. QED  BY <1>1

(* The states of the two notifiers, for TypeOK.                            *)
LEMMA HandlerTypes ==
  HandlerInv => \A f \in {finish, crcv} :
                  f.step \in 0 .. 3 /\ f.buf \in SrvBuf!Buffers \cup {None}
PROOF
<1>1. Idle.step \in 0 .. 3 /\ Idle.buf = None  BY DEF Idle
<1>. QED  BY <1>1 DEF HandlerInv, Bufs

-----------------------------------------------------------------------------
(* The client's steps.                                                     *)

(* ClientConnected sends the first request.                                *)
LEMMA BaseConnected ==
  ASSUME BaseInv, ClientConnected
  PROVE  BaseInv'
PROOF
<1>. USE DEF chan, reqVars, echoVars, srvPool, cltPool
<1>1. /\ reqSent = <<>> /\ up /\ reqSent' = Append(reqSent, 1)
      /\ UNCHANGED <<args, up, reqDone, reqRcvd, echoVars, tests, served, rcv,
                     finish, crcv, client, server>>
  BY DEF ClientConnected, Req!Accept
<1>2. TypeOK /\ CountInv /\ ContentInv /\ HandlerInv  BY DEF BaseInv
<1>t. /\ reqSent \in Seq(Rounds) /\ 1 \in Rounds
      /\ Len(reqRcvd) \in Nat /\ Len(echoSent) \in Nat
      /\ Len(echoDone) \in Nat /\ Len(echoRcvd) \in Nat
      /\ args.tests \in Nat \ {0} /\ Carried \in {0, 1}
  BY Types
<1>3. /\ Len(reqSent) = 0 /\ Len(reqSent') = 1
      /\ reqSent' \in Seq(Rounds) /\ reqSent'[1] = 1
  <2>1. Len(reqSent) = 0  BY <1>1
  <2>. QED  BY <1>1, <1>t, <2>1, SeqAppend
<1>4. TypeOK'  BY <1>1, <1>2, <1>3 DEF TypeOK
<1>5. CountInv'
  <2>1. Carried' = Carried  BY <1>1 DEF Carried
  <2>2. Len(echoRcvd) = 0  BY <1>2, <1>3, <1>t DEF CountInv
  <2>. QED  BY <1>1, <1>2, <1>3, <1>t, <2>1, <2>2 DEF CountInv
<1>6. ContentInv'
  <2>1. \A i \in 1 .. Len(reqSent') : reqSent'[i] = i  BY <1>3
  <2>. QED  BY <1>1, <1>2, <2>1 DEF ContentInv
<1>7. HandlerInv'  BY <1>1, <1>2 DEF HandlerInv
<1>. QED  BY <1>4, <1>5, <1>6, <1>7 DEF BaseInv

(* OnSent changes nothing the invariant speaks of.                         *)
LEMMA BaseSent ==
  ASSUME BaseInv, OnSent
  PROVE  BaseInv'
PROOF
<1>. USE DEF chan, reqVars, echoVars, srvPool, cltPool
<1>1. /\ Len(reqDone) < Len(reqSent)
      /\ reqDone' = Append(reqDone, reqSent[Len(reqDone) + 1])
      /\ UNCHANGED <<args, up, reqSent, reqRcvd, echoVars, tests, served, rcv,
                     finish, crcv, client, server>>
  BY DEF OnSent, Req!Complete, Req!AdvanceTo
<1>2. TypeOK /\ CountInv /\ ContentInv /\ HandlerInv  BY DEF BaseInv
<1>3. reqDone' \in Seq(Rounds)
  <2>1. /\ reqDone \in Seq(Rounds) /\ reqSent \in Seq(Rounds)
        /\ Len(reqDone) \in Nat /\ Len(reqSent) \in Nat
    BY Types
  <2>2. Len(reqDone) + 1 \in 1 .. Len(reqSent)  BY <1>1, <2>1
  <2>3. reqSent[Len(reqDone) + 1] \in Rounds  BY <2>1, <2>2, SeqAppend
  <2>. QED  BY <1>1, <2>1, <2>3, SeqAppend
<1>4. TypeOK'  BY <1>1, <1>2, <1>3 DEF TypeOK
<1>5. CountInv' /\ ContentInv' /\ HandlerInv'
  BY <1>1, <1>2 DEF CountInv, Carried, ContentInv, HandlerInv
<1>. QED  BY <1>4, <1>5 DEF BaseInv

(* The echo that arrives is the one the client waits for.                  *)
LEMMA BaseClientReceives ==
  ASSUME BaseInv, ClientReceives, failed' = "no"
  PROVE  BaseInv'
PROOF
<1>. USE DEF chan, reqVars, echoVars, srvPool, cltPool
<1>1. PICK b \in Bufs :
        /\ crcv = Idle /\ crcv' = [step |-> 1, buf |-> b]
        /\ Len(echoRcvd) < Len(echoSent) /\ Len(echoRcvd) <= Len(echoDone)
        /\ echoRcvd' = Append(echoRcvd, echoSent[Len(echoRcvd) + 1])
        /\ UNCHANGED <<args, up, reqVars, echoSent, echoDone, tests, served,
                       rcv, finish, client, server>>
  <2>1. "Small Buffer Pool empty." # "no"  OBVIOUS
  <2>2. CltBuf!CanAllocate(args.size, Alignment)
    BY <2>1 DEF ClientReceives
  <2>. QED  BY <2>2, SamePools DEF ClientReceives, Echo!Deliver, Echo!AdvanceTo
<1>2. TypeOK /\ CountInv /\ ContentInv /\ HandlerInv  BY DEF BaseInv
<1>t. /\ echoSent \in Seq(Echoes) /\ echoRcvd \in Seq(Echoes)
      /\ Len(reqSent) \in Nat /\ Len(reqRcvd) \in Nat /\ Len(echoSent) \in Nat
      /\ Len(echoDone) \in Nat /\ Len(echoRcvd) \in Nat
      /\ args.tests \in Nat /\ Carried \in {0, 1} /\ tests \in Nat
  BY Types
<1>3. /\ echoRcvd' \in Seq(Echoes) /\ Len(echoRcvd') = Len(echoRcvd) + 1
      /\ \A i \in 1 .. Len(echoRcvd) : echoRcvd'[i] = echoRcvd[i]
      /\ echoRcvd'[Len(echoRcvd) + 1] = echoSent[Len(echoRcvd) + 1]
  <2>1. Len(echoRcvd) + 1 \in 1 .. Len(echoSent)  BY <1>1, <1>t
  <2>2. echoSent[Len(echoRcvd) + 1] \in Echoes  BY <1>t, <2>1, SeqAppend
  <2>. QED  BY <1>1, <1>t, <2>2, SeqAppend
<1>4. HandlerInv'  BY <1>1, <1>2 DEF HandlerInv
<1>5. TypeOK'
  <2>1. \A f \in {finish', crcv'} :
          f.step \in 0 .. 3 /\ f.buf \in SrvBuf!Buffers \cup {None}
    BY <1>1, <1>2, HandlerTypes DEF Bufs
  <2>. QED  BY <1>1, <1>2, <1>3, <2>1 DEF TypeOK
<1>6. CountInv'
  <2>1. Carried' = Carried  BY <1>1 DEF Carried
  <2>2. crcv.step = 0 /\ crcv'.step = 1  BY <1>1 DEF Idle
  <2>3. Len(reqSent) = Len(echoRcvd) + 1  BY <1>1, <1>2, <1>t DEF CountInv
  <2>. QED  BY <1>1, <1>2, <1>3, <1>t, <2>1, <2>2, <2>3 DEF CountInv
<1>7. ContentInv'
  <2>1. ASSUME NEW i \in 1 .. Len(echoRcvd')  PROVE echoRcvd'[i] = echoSent[i]
    <3>1. i \in 1 .. Len(echoRcvd) \/ i = Len(echoRcvd) + 1  BY <1>3, <1>t
    <3>. QED  BY <1>2, <1>3, <3>1 DEF ContentInv
  <2>. QED  BY <1>1, <1>2, <2>1 DEF ContentInv
<1>. QED  BY <1>4, <1>5, <1>6, <1>7 DEF BaseInv

(* OnClientReceive: the counter and the next request.                      *)
LEMMA BaseClientReceive ==
  ASSUME BaseInv, OnClientReceive
  PROVE  BaseInv'
PROOF
<1>. USE DEF chan, reqVars, echoVars, srvPool, cltPool
<1>1. /\ crcv.step = 1 /\ tests' = tests - 1
      /\ crcv' = [crcv EXCEPT !.step = 2]
      /\ \/ /\ tests - 1 > 0 /\ up /\ UNCHANGED <<reqDone, reqRcvd>>
            /\ reqSent' = Append(reqSent, Len(reqSent) + 1)
         \/ UNCHANGED reqVars
      /\ UNCHANGED <<args, up, echoVars, served, rcv, finish, client, server>>
  BY DEF OnClientReceive, Req!Accept, More
<1>2. TypeOK /\ CountInv /\ ContentInv /\ HandlerInv  BY DEF BaseInv
<1>t. /\ reqSent \in Seq(Rounds) /\ Rounds = 1 .. MaxTests
      /\ Len(reqSent) \in Nat /\ Len(reqRcvd) \in Nat /\ Len(echoSent) \in Nat
      /\ Len(echoDone) \in Nat /\ Len(echoRcvd) \in Nat
      /\ args.tests \in 1 .. MaxTests /\ MaxTests \in Nat
      /\ Carried \in {0, 1} /\ tests \in Nat
  BY Types
<1>3. /\ crcv \in [step : 1 .. 3, buf : Bufs] /\ crcv' \in [step : 1 .. 3, buf : Bufs]
      /\ crcv'.step = 2
  <2>1. Idle.step # 1  BY DEF Idle
  <2>2. crcv \in [step : 1 .. 3, buf : Bufs]  BY <1>1, <1>2, <2>1 DEF HandlerInv
  <2>. QED  BY <1>1, <2>2
<1>4. /\ Len(reqSent) = Len(echoRcvd) /\ Len(echoRcvd) > 0
      /\ tests + Len(echoRcvd) = args.tests + 1 /\ Len(reqSent) <= args.tests
      /\ Len(reqRcvd) <= Len(reqSent)
      /\ Len(echoSent) + Carried <= Len(reqRcvd)
      /\ Len(echoDone) <= Len(echoSent)
      /\ Len(echoRcvd) <= Len(echoSent)
  BY <1>1, <1>2 DEF CountInv
<1>5. /\ reqSent' \in Seq(Rounds)
      /\ Len(reqSent') \in {Len(reqSent), Len(reqSent) + 1}
      /\ Len(reqSent') <= args.tests
      /\ \A i \in 1 .. Len(reqSent') : reqSent'[i] = i
      /\ UNCHANGED <<reqDone, reqRcvd>>
  <2>0. \A i \in 1 .. Len(reqSent) : reqSent[i] = i  BY <1>2 DEF ContentInv
  <2>1. CASE UNCHANGED reqVars  BY <1>t, <1>4, <2>0, <2>1
  <2>2. CASE /\ tests - 1 > 0 /\ UNCHANGED <<reqDone, reqRcvd>>
             /\ reqSent' = Append(reqSent, Len(reqSent) + 1)
    <3>1. Len(reqSent) + 1 \in Rounds /\ Len(reqSent) + 1 <= args.tests
      BY <1>t, <1>4, <2>2
    <3>2. /\ reqSent' \in Seq(Rounds) /\ Len(reqSent') = Len(reqSent) + 1
          /\ \A i \in 1 .. Len(reqSent) : reqSent'[i] = reqSent[i]
          /\ reqSent'[Len(reqSent) + 1] = Len(reqSent) + 1
      BY <1>t, <2>2, <3>1, SeqAppend
    <3>3. \A i \in 1 .. Len(reqSent') : i \in 1 .. Len(reqSent) \/ i = Len(reqSent) + 1
      BY <1>t, <3>2
    <3>4. \A i \in 1 .. Len(reqSent') : reqSent'[i] = i
      BY <2>0, <3>2, <3>3
    <3>. QED  BY <2>2, <3>1, <3>2, <3>4
  <2>. QED  BY <1>1, <2>1, <2>2
<1>6. HandlerInv'  BY <1>1, <1>2, <1>3 DEF HandlerInv
<1>7. tests' \in 0 .. MaxTests
  <2>1. tests \in 0 .. MaxTests  BY <1>2 DEF TypeOK
  <2>. QED  BY <1>1, <1>4, <1>t, <2>1
<1>8. TypeOK'
  <2>1. \A f \in {finish', crcv'} :
          f.step \in 0 .. 3 /\ f.buf \in SrvBuf!Buffers \cup {None}
    BY <1>1, <1>2, <1>3, HandlerTypes DEF Bufs
  <2>. QED  BY <1>1, <1>2, <1>5, <1>7, <2>1 DEF TypeOK
<1>9. CountInv'
  <2>1. Carried' = Carried  BY <1>1 DEF Carried
  <2>2. Len(reqSent') <= Len(echoRcvd) + 1 /\ Len(reqRcvd) <= Len(reqSent')
    BY <1>t, <1>4, <1>5
  <2>3. tests' + Len(echoRcvd) = args.tests
    <3>1. tests' = tests - 1  BY <1>1
    <3>. QED  BY <1>t, <1>4, <3>1
  <2>4. /\ up => Len(echoSent) + Carried = Len(reqRcvd)
        /\ Len(echoRcvd) <= Len(echoDone) + 1
        /\ served + Carried = Len(reqRcvd)
    BY <1>2 DEF CountInv
  <2>5. /\ UNCHANGED <<args, up, reqRcvd, echoSent, echoDone, echoRcvd, served>>
        /\ crcv'.step # 1
    BY <1>1, <1>3, <1>5
  <2>. HIDE DEF chan, reqVars, echoVars, srvPool, cltPool
  <2>. QED  BY <1>4, <1>5, <1>t, <2>1, <2>2, <2>3, <2>4, <2>5 DEF CountInv
<1>10. ContentInv'  BY <1>1, <1>2, <1>5 DEF ContentInv
<1>. QED  BY <1>6, <1>8, <1>9, <1>10 DEF BaseInv

(* Dispose of the client's buffer.                                         *)
LEMMA BaseClientDispose ==
  ASSUME BaseInv, ClientDispose
  PROVE  BaseInv'
PROOF
<1>. USE DEF chan, reqVars, echoVars, srvPool, cltPool
<1>1. /\ crcv.step \in {2, 3}
      /\ crcv' = IF crcv.step = 2 THEN [crcv EXCEPT !.step = 3] ELSE Idle
      /\ UNCHANGED <<args, up, reqVars, echoVars, tests, served, rcv, finish,
                     client, server>>
  BY DEF ClientDispose
<1>2. TypeOK /\ CountInv /\ ContentInv /\ HandlerInv  BY DEF BaseInv
<1>3. Idle.step = 0 /\ Idle.buf = None  BY DEF Idle
<1>4. crcv \in [step : 1 .. 3, buf : Bufs]  BY <1>1, <1>2, <1>3 DEF HandlerInv
<1>5. /\ crcv' = Idle \/ crcv' \in [step : 1 .. 3, buf : Bufs]
      /\ crcv'.step # 1
  BY <1>1, <1>3, <1>4
<1>6. HandlerInv'  BY <1>1, <1>2, <1>5 DEF HandlerInv
<1>7. TypeOK'
  <2>1. \A f \in {finish', crcv'} :
          f.step \in 0 .. 3 /\ f.buf \in SrvBuf!Buffers \cup {None}
    BY <1>1, <1>2, <1>3, <1>5, HandlerTypes DEF Bufs
  <2>. QED  BY <1>1, <1>2, <2>1 DEF TypeOK
<1>8. CountInv' /\ ContentInv'
  BY <1>1, <1>2, <1>5 DEF CountInv, Carried, ContentInv
<1>. QED  BY <1>6, <1>7, <1>8 DEF BaseInv

(* The ends of the programs and of the connection.                         *)
LEMMA BaseEnds ==
  ASSUME BaseInv, ClientReturns \/ ClientDisconnected \/ OnConnect \/ Disconnect
  PROVE  BaseInv'
PROOF
<1>. USE DEF chan, reqVars, echoVars, srvPool, cltPool
<1>1. /\ up' = up \/ up' = FALSE
      /\ finish' = finish \/ finish' = Idle
      /\ client' = client \/ client' = "closing" \/ client' = "gone"
      /\ \/ server' = server
         \/ server' = "gone" /\ ~ up /\ rcv = None /\ finish' = Idle
      /\ UNCHANGED <<args, reqVars, echoVars, tests, served, rcv, crcv>>
  <2>1. CASE ClientReturns  BY <2>1 DEF ClientReturns
  <2>2. CASE ClientDisconnected  BY <2>2 DEF ClientDisconnected
  <2>3. CASE OnConnect  BY <2>3 DEF OnConnect
  <2>4. CASE Disconnect  BY <2>4 DEF Disconnect
  <2>. QED  BY <2>1, <2>2, <2>3, <2>4
<1>2. TypeOK /\ CountInv /\ ContentInv /\ HandlerInv  BY DEF BaseInv
<1>u. up' => up  BY <1>1
<1>3. HandlerInv'
  <2>1. \/ finish' = Idle
        \/ /\ finish' \in [step : {2}, buf : Bufs]
           /\ Len(echoDone') < Len(echoSent')
           /\ finish'.buf = echoSent'[Len(echoDone') + 1].buf
    BY <1>1, <1>2 DEF HandlerInv
  <2>2. crcv' = Idle \/ crcv' \in [step : 1 .. 3, buf : Bufs]
    BY <1>1, <1>2 DEF HandlerInv
  <2>3. server' = "gone" => ~ up' /\ rcv' = None /\ finish' = Idle
    BY <1>1, <1>2, <1>u DEF HandlerInv
  <2>. QED  BY <2>1, <2>2, <2>3 DEF HandlerInv
<1>4. TypeOK'
  <2>1. \A f \in {finish', crcv'} :
          f.step \in 0 .. 3 /\ f.buf \in SrvBuf!Buffers \cup {None}
    <3>1. Idle.step \in 0 .. 3 /\ Idle.buf = None  BY DEF Idle
    <3>. QED  BY <1>1, <1>2, <3>1, HandlerTypes
  <2>2. up' \in BOOLEAN /\ client' \in {"running", "closing", "gone"}
        /\ server' \in {"running", "gone"}
    BY <1>1, <1>2 DEF TypeOK
  <2>. QED  BY <1>1, <1>2, <2>1, <2>2 DEF TypeOK
<1>6. CountInv'  BY <1>1, <1>2, <1>u DEF CountInv, Carried
<1>7. ContentInv'  BY <1>1, <1>2 DEF ContentInv
<1>. QED  BY <1>3, <1>4, <1>6, <1>7 DEF BaseInv

-----------------------------------------------------------------------------
(* The server's steps.                                                     *)

(* The request that arrives is the next one.                               *)
LEMMA BaseServerReceives ==
  ASSUME BaseInv, ServerReceives, failed' = "no"
  PROVE  BaseInv'
PROOF
<1>. USE DEF chan, reqVars, echoVars, srvPool, cltPool
<1>1. PICK b \in Bufs :
        /\ server = "running" /\ rcv = None
        /\ Len(reqRcvd) < Len(reqSent)
        /\ reqRcvd' = Append(reqRcvd, reqSent[Len(reqRcvd) + 1])
        /\ rcv' = [round |-> reqSent[Len(reqRcvd) + 1], buf |-> b]
        /\ UNCHANGED <<args, up, reqSent, reqDone, echoVars, tests, served,
                       finish, crcv, client, server>>
  <2>1. "Small Buffer Pool empty." # "no"  OBVIOUS
  <2>2. SrvBuf!CanAllocate(args.size, Alignment)
    BY <2>1 DEF ServerReceives
  <2>. QED  BY <2>2 DEF ServerReceives, Req!Deliver, Req!AdvanceTo, Bufs
<1>2. TypeOK /\ CountInv /\ ContentInv /\ HandlerInv  BY DEF BaseInv
<1>t. /\ reqSent \in Seq(Rounds) /\ reqRcvd \in Seq(Rounds)
      /\ Len(reqSent) \in Nat /\ Len(reqRcvd) \in Nat /\ Len(echoSent) \in Nat
      /\ served \in Nat
  BY Types
<1>3. /\ reqRcvd' \in Seq(Rounds) /\ Len(reqRcvd') = Len(reqRcvd) + 1
      /\ rcv' \in Echoes /\ rcv' # None /\ rcv'.round = Len(reqRcvd) + 1
  <2>1. Len(reqRcvd) + 1 \in 1 .. Len(reqSent)  BY <1>1, <1>t
  <2>2. reqSent[Len(reqRcvd) + 1] \in Rounds  BY <1>t, <2>1, SeqAppend
  <2>3. reqSent[Len(reqRcvd) + 1] = Len(reqRcvd) + 1
    BY <1>2, <2>1 DEF ContentInv
  <2>4. rcv' \in Echoes  BY <1>1, <2>2 DEF Echoes, Bufs
  <2>5. reqRcvd' \in Seq(Rounds) /\ Len(reqRcvd') = Len(reqRcvd) + 1
    BY <1>1, <1>t, <2>2, SeqAppend
  <2>6. rcv'.round = Len(reqRcvd) + 1  BY <1>1, <2>3
  <2>. QED  BY <2>4, <2>5, <2>6, EchoNotNone
<1>4. TypeOK'  BY <1>1, <1>2, <1>3 DEF TypeOK
<1>5. CountInv'
  <2>1. Carried = 0 /\ Carried' = 1  BY <1>1, <1>3 DEF Carried
  <2>2. /\ Len(reqSent) <= args.tests
        /\ Len(echoSent) + 0 <= Len(reqRcvd)
        /\ up => Len(echoSent) + 0 = Len(reqRcvd)
        /\ Len(echoDone) <= Len(echoSent)
        /\ Len(echoRcvd) <= Len(echoSent)
        /\ Len(echoRcvd) <= Len(echoDone) + 1
        /\ Len(reqSent) <= Len(echoRcvd) + 1
        /\ crcv.step = 1 => Len(reqSent) = Len(echoRcvd) /\ Len(echoRcvd) > 0
        /\ tests + Len(echoRcvd) = args.tests + (IF crcv.step = 1 THEN 1 ELSE 0)
        /\ served + 0 = Len(reqRcvd)
    BY <1>2, <2>1 DEF CountInv
  <2>3. /\ Len(reqRcvd') <= Len(reqSent)
        /\ Len(echoSent) + 1 <= Len(reqRcvd')
        /\ up => Len(echoSent) + 1 = Len(reqRcvd')
        /\ served + 1 = Len(reqRcvd')
    BY <1>1, <1>3, <1>t, <2>2
  <2>4. UNCHANGED <<args, up, reqSent, echoSent, echoDone, echoRcvd, tests,
                    served, crcv>>
    BY <1>1
  <2>. QED  BY <2>1, <2>2, <2>3, <2>4 DEF CountInv
<1>6. ContentInv'  BY <1>1, <1>2, <1>3 DEF ContentInv
<1>7. HandlerInv'  BY <1>1, <1>2 DEF HandlerInv
<1>. QED  BY <1>4, <1>5, <1>6, <1>7 DEF BaseInv

(* OnServerReceive: the echo of the request.                               *)
LEMMA BaseServerReceive ==
  ASSUME BaseInv, OnServerReceive
  PROVE  BaseInv'
PROOF
<1>. USE DEF chan, reqVars, echoVars, srvPool, cltPool
<1>1. /\ rcv # None /\ rcv' = None /\ served' = served + 1
      /\ \/ up /\ echoSent' = Append(echoSent, rcv) /\ UNCHANGED up
         \/ ~ up /\ UNCHANGED <<echoSent, up>>
      /\ UNCHANGED <<args, reqVars, echoDone, echoRcvd, tests, finish, crcv,
                     client, server>>
  BY DEF OnServerReceive, Echo!Accept
<1>2. TypeOK /\ CountInv /\ ContentInv /\ HandlerInv  BY DEF BaseInv
<1>t. /\ echoSent \in Seq(Echoes) /\ rcv \in Echoes
      /\ Len(reqSent) \in Nat /\ Len(reqRcvd) \in Nat /\ Len(echoSent) \in Nat
      /\ Len(echoDone) \in Nat /\ Len(echoRcvd) \in Nat
      /\ args.tests \in 1 .. MaxTests /\ MaxTests \in Nat
      /\ tests \in Nat /\ served \in Nat
  <2>1. rcv \in Echoes  BY <1>1, <1>2 DEF TypeOK
  <2>. QED  BY <2>1, Types
<1>3. Carried = 1 /\ Carried' = 0  BY <1>1 DEF Carried
<1>4. /\ Len(reqSent) <= args.tests
      /\ Len(reqRcvd) <= Len(reqSent)
      /\ Len(echoSent) + 1 <= Len(reqRcvd)
      /\ up => Len(echoSent) + 1 = Len(reqRcvd)
      /\ Len(echoDone) <= Len(echoSent)
      /\ Len(echoRcvd) <= Len(echoSent)
      /\ served + 1 = Len(reqRcvd)
  BY <1>2, <1>3 DEF CountInv
<1>5. /\ echoSent' \in Seq(Echoes)
      /\ Len(echoSent') \in Nat /\ Len(echoSent) <= Len(echoSent')
      /\ Len(echoSent') <= Len(reqRcvd)
      /\ up => Len(echoSent') = Len(reqRcvd)
      /\ \A i \in 1 .. Len(echoSent) : i \in 1 .. Len(echoSent')
                                       /\ echoSent'[i] = echoSent[i]
      /\ \A i \in 1 .. Len(echoSent') : echoSent'[i].round = i
  <2>0. \A i \in 1 .. Len(echoSent) : echoSent[i].round = i
    BY <1>2 DEF ContentInv
  <2>1. CASE ~ up /\ UNCHANGED <<echoSent, up>>
    BY <1>4, <1>t, <2>0, <2>1
  <2>2. CASE up /\ echoSent' = Append(echoSent, rcv)
    <3>1. /\ echoSent' \in Seq(Echoes) /\ Len(echoSent') = Len(echoSent) + 1
          /\ \A i \in 1 .. Len(echoSent) : echoSent'[i] = echoSent[i]
          /\ echoSent'[Len(echoSent) + 1] = rcv
      BY <1>t, <2>2, SeqAppend
    <3>2. rcv.round = Len(echoSent) + 1
      BY <1>1, <1>2, <1>4, <2>2 DEF ContentInv
    <3>3. \A i \in 1 .. Len(echoSent') :
            i \in 1 .. Len(echoSent) \/ i = Len(echoSent) + 1
      BY <1>t, <3>1
    <3>4. \A i \in 1 .. Len(echoSent') : echoSent'[i].round = i
      BY <2>0, <3>1, <3>2, <3>3
    <3>5. \A i \in 1 .. Len(echoSent) : i \in 1 .. Len(echoSent')
      BY <1>t, <3>1
    <3>6. Len(echoSent') = Len(reqRcvd)  BY <1>4, <2>2, <3>1
    <3>. QED  BY <1>t, <3>1, <3>4, <3>5, <3>6
  <2>. QED  BY <1>1, <2>1, <2>2
<1>6. up' => up  BY <1>1
<1>7. served' \in 0 .. MaxTests
  BY <1>1, <1>4, <1>t
<1>8. HandlerInv'
  <2>1. \/ finish = Idle
        \/ /\ finish \in [step : {2}, buf : Bufs]
           /\ Len(echoDone) < Len(echoSent')
           /\ finish.buf = echoSent'[Len(echoDone) + 1].buf
    <3>1. ASSUME Len(echoDone) < Len(echoSent)
          PROVE  /\ Len(echoDone) < Len(echoSent')
                 /\ echoSent'[Len(echoDone) + 1] = echoSent[Len(echoDone) + 1]
      <4>1. Len(echoDone) + 1 \in 1 .. Len(echoSent)  BY <1>t, <3>1
      <4>. QED  BY <1>t, <1>5, <3>1, <4>1
    <3>. QED  BY <1>2, <3>1 DEF HandlerInv
  <2>2. UNCHANGED <<finish, echoDone, crcv, server>> /\ rcv' = None  BY <1>1
  <2>. QED  BY <1>2, <1>6, <2>1, <2>2 DEF HandlerInv
<1>9. TypeOK'
  <2>1. \A f \in {finish', crcv'} :
          f.step \in 0 .. 3 /\ f.buf \in SrvBuf!Buffers \cup {None}
    BY <1>1, <1>2, HandlerTypes
  <2>2. up' \in BOOLEAN  BY <1>1, <1>2 DEF TypeOK
  <2>. QED  BY <1>1, <1>2, <1>5, <1>7, <2>1, <2>2 DEF TypeOK
<1>10. CountInv'
  <2>1. /\ Len(echoDone) <= Len(echoSent') /\ Len(echoRcvd) <= Len(echoSent')
        /\ Len(echoSent') + 0 <= Len(reqRcvd)
        /\ up' => Len(echoSent') + 0 = Len(reqRcvd)
        /\ served' + 0 = Len(reqRcvd)
    BY <1>1, <1>4, <1>5, <1>6, <1>t
  <2>2. /\ Len(echoRcvd) <= Len(echoDone) + 1
        /\ Len(reqSent) <= Len(echoRcvd) + 1
        /\ crcv.step = 1 => Len(reqSent) = Len(echoRcvd) /\ Len(echoRcvd) > 0
        /\ tests + Len(echoRcvd) = args.tests + (IF crcv.step = 1 THEN 1 ELSE 0)
    BY <1>2 DEF CountInv
  <2>3. UNCHANGED <<args, reqSent, reqRcvd, echoDone, echoRcvd, tests, crcv>>
    BY <1>1
  <2>. QED  BY <1>3, <1>4, <2>1, <2>2, <2>3 DEF CountInv
<1>11. ContentInv'
  <2>1. \A i \in 1 .. Len(echoRcvd) : echoRcvd[i] = echoSent'[i]
    <3>. TAKE i \in 1 .. Len(echoRcvd)
    <3>1. i \in 1 .. Len(echoSent)  BY <1>4, <1>t
    <3>. QED  BY <1>2, <1>5, <3>1 DEF ContentInv
  <2>. QED  BY <1>1, <1>2, <1>5, <2>1 DEF ContentInv
<1>. QED  BY <1>8, <1>9, <1>10, <1>11 DEF BaseInv

(* OnEchoFinish is at the oldest echo not completed.                       *)
LEMMA BaseEchoFinish ==
  ASSUME BaseInv, OnEchoFinish
  PROVE  BaseInv'
PROOF
<1>. USE DEF chan, reqVars, echoVars, srvPool, cltPool
<1>1. /\ server = "running" /\ finish = Idle
      /\ Len(echoDone) < Len(echoSent)
      /\ finish' = [step |-> 2, buf |-> echoSent[Len(echoDone) + 1].buf]
      /\ UNCHANGED <<args, up, reqVars, echoVars, tests, served, rcv, crcv,
                     client, server>>
  BY DEF OnEchoFinish
<1>2. TypeOK /\ CountInv /\ ContentInv /\ HandlerInv  BY DEF BaseInv
<1>3. finish' \in [step : {2}, buf : Bufs]
  <2>1. /\ echoSent \in Seq(Echoes) /\ Len(echoSent) \in Nat
        /\ Len(echoDone) \in Nat
    BY Types
  <2>2. Len(echoDone) + 1 \in 1 .. Len(echoSent)  BY <1>1, <2>1
  <2>3. echoSent[Len(echoDone) + 1] \in Echoes  BY <2>1, <2>2, SeqAppend
  <2>. QED  BY <1>1, <2>3 DEF Echoes, Bufs
<1>4. HandlerInv'  BY <1>1, <1>2, <1>3 DEF HandlerInv
<1>5. TypeOK'
  <2>1. \A f \in {finish', crcv'} :
          f.step \in 0 .. 3 /\ f.buf \in SrvBuf!Buffers \cup {None}
    BY <1>1, <1>2, <1>3, HandlerTypes DEF Bufs
  <2>. QED  BY <1>1, <1>2, <2>1 DEF TypeOK
<1>6. CountInv' /\ ContentInv'  BY <1>1, <1>2 DEF CountInv, Carried, ContentInv
<1>. QED  BY <1>4, <1>5, <1>6 DEF BaseInv

(* ProcessSendQ goes on after the notifier returned.                       *)
LEMMA BaseFinishEnd ==
  ASSUME BaseInv, FinishEnd
  PROVE  BaseInv'
PROOF
<1>. USE DEF chan, reqVars, echoVars, srvPool, cltPool
<1>1. /\ finish.step = 2 /\ finish' = Idle
      /\ Len(echoDone) < Len(echoSent)
      /\ echoDone' = Append(echoDone, echoSent[Len(echoDone) + 1])
      /\ UNCHANGED <<args, up, reqVars, echoSent, echoRcvd, tests, served, rcv,
                     crcv, client, server>>
  BY DEF FinishEnd, Echo!Complete, Echo!AdvanceTo
<1>2. TypeOK /\ CountInv /\ ContentInv /\ HandlerInv  BY DEF BaseInv
<1>t. /\ echoSent \in Seq(Echoes) /\ echoDone \in Seq(Echoes)
      /\ Len(echoSent) \in Nat /\ Len(echoDone) \in Nat /\ Len(echoRcvd) \in Nat
  BY Types
<1>3. echoDone' \in Seq(Echoes) /\ Len(echoDone') = Len(echoDone) + 1
  <2>1. Len(echoDone) + 1 \in 1 .. Len(echoSent)  BY <1>1, <1>t
  <2>2. echoSent[Len(echoDone) + 1] \in Echoes  BY <1>t, <2>1, SeqAppend
  <2>. QED  BY <1>1, <1>t, <2>2, SeqAppend
<1>4. HandlerInv'  BY <1>1, <1>2 DEF HandlerInv
<1>5. TypeOK'
  <2>1. \A f \in {finish', crcv'} :
          f.step \in 0 .. 3 /\ f.buf \in SrvBuf!Buffers \cup {None}
    <3>1. Idle.step \in 0 .. 3 /\ Idle.buf = None  BY DEF Idle
    <3>. QED  BY <1>1, <1>2, <3>1, HandlerTypes
  <2>. QED  BY <1>1, <1>2, <1>3, <2>1 DEF TypeOK
<1>6. CountInv'
  <2>1. /\ Len(echoDone') <= Len(echoSent)
        /\ Len(echoRcvd) <= Len(echoDone') + 1
    BY <1>1, <1>2, <1>3, <1>t DEF CountInv
  <2>2. Carried' = Carried  BY <1>1 DEF Carried
  <2>3. UNCHANGED <<args, up, reqSent, reqRcvd, echoSent, echoRcvd, tests,
                    served, crcv>>
    BY <1>1
  <2>. QED  BY <1>2, <2>1, <2>2, <2>3 DEF CountInv
<1>7. ContentInv'  BY <1>1, <1>2 DEF ContentInv
<1>. QED  BY <1>4, <1>5, <1>6, <1>7 DEF BaseInv

-----------------------------------------------------------------------------
(* The buffers of the server.                                              *)

(* The buffers in use are those with a message in them and those in lost:  *)
(* a refused Send leaves its buffer to nobody, once the connection is gone.*)
SrvHeld(lost) ==
  /\ PoolKept(srvFree, srvSize,
              (Handled \cup Sending \cup lost) \ {finish.buf},
              {finish.buf} \ {None})
  /\ lost \cap (Handled \cup Sending) = {}
  /\ Handled \cap Sending = {}
  /\ Len(echoSent) + Carried = Len(reqRcvd) => lost = {}
  /\ \A i, j \in Len(echoDone) + 1 .. Len(echoSent) :
       echoSent[i].buf = echoSent[j].buf => i = j

SrvKept == server = "running" => \E lost \in SUBSET Bufs : SrvHeld(lost)

(* The buffers of the messages in the server are buffers of its manager.   *)
LEMMA HeldTypes ==
  ASSUME BaseInv
  PROVE  Handled \subseteq Bufs /\ Sending \subseteq Bufs
PROOF
<1>1. Handled \subseteq Bufs
  <2>1. rcv \in Echoes \cup {None}  BY DEF BaseInv, TypeOK
  <2>. QED  BY <2>1 DEF Handled, Echoes, Bufs
<1>2. ASSUME NEW i \in Len(echoDone) + 1 .. Len(echoSent)
      PROVE  echoSent[i].buf \in Bufs
  <2>1. /\ echoSent \in Seq(Echoes) /\ Len(echoSent) \in Nat
        /\ Len(echoDone) \in Nat
    BY Types
  <2>2. i \in 1 .. Len(echoSent)  BY <2>1
  <2>3. echoSent[i] \in Echoes  BY <2>1, <2>2, SeqAppend
  <2>. QED  BY <2>3 DEF Echoes, Bufs
<1>. QED  BY <1>1, <1>2 DEF Sending

(* The echo OnEchoFinish is at is one not completed.                       *)
LEMMA FinishSending ==
  ASSUME BaseInv, finish # Idle
  PROVE  /\ finish.step = 2 /\ finish.buf \in Bufs /\ finish.buf \in Sending
         /\ Len(echoDone) < Len(echoSent)
         /\ finish.buf = echoSent[Len(echoDone) + 1].buf
PROOF
<1>1. /\ finish \in [step : {2}, buf : Bufs]
      /\ Len(echoDone) < Len(echoSent)
      /\ finish.buf = echoSent[Len(echoDone) + 1].buf
  BY DEF BaseInv, HandlerInv
<1>2. Len(echoDone) + 1 \in Len(echoDone) + 1 .. Len(echoSent)
  BY <1>1, Types
<1>. QED  BY <1>1, <1>2 DEF Sending

(* A new message: the server holds nothing but an echo the client has.     *)
LEMMA ReceiveCounts ==
  ASSUME BaseInv, rcv = None, Len(reqRcvd) < Len(reqSent)
  PROVE  /\ Len(echoSent) = Len(reqRcvd) /\ Carried = 0
         /\ Len(echoSent) <= Len(echoDone) + 1
PROOF
<1>1. /\ Len(reqSent) \in Nat /\ Len(reqRcvd) \in Nat /\ Len(echoSent) \in Nat
      /\ Len(echoDone) \in Nat /\ Len(echoRcvd) \in Nat
  BY Types
<1>2. Carried = 0  BY DEF Carried
<1>3. /\ Len(echoSent) + 0 <= Len(reqRcvd)
      /\ Len(echoRcvd) <= Len(echoSent)
      /\ Len(echoRcvd) <= Len(echoDone) + 1
      /\ Len(reqSent) <= Len(echoRcvd) + 1
  BY <1>2 DEF BaseInv, CountInv
<1>. QED  BY <1>1, <1>2, <1>3

(* Two buffers in a pool are enough while one is held.                     *)
LEMMA PoolLeft ==
  ASSUME NumBufs >= 2,
         NEW f, NEW s, NEW O, NEW T, PoolKept(f, s, O, T),
         \A b, c \in O \cup T : b = c, NEW p \in Pools
  PROVE  f[p] # <<>>
PROOF
<1>. DEFINE b == <<p, 1>>
            c == <<p, 2>>
<1>1. b \in Bufs /\ c \in Bufs /\ b # c /\ b[1] = p /\ c[1] = p
  BY PingpongAssumption DEF Bufs, Pools, SrvBuf!Buffers, SrvBuf!Pools
<1>2. ASSUME f[p] = <<>>  PROVE FALSE
  <2>1. Elements(f[p]) = {}  BY <1>2 DEF Elements
  <2>2. Elements(f[p]) = {d \in Bufs : d[1] = p} \ (O \cup T)
    BY DEF PoolKept
  <2>. HIDE DEF b, c
  <2>3. b \in O \cup T /\ c \in O \cup T  BY <1>1, <2>1, <2>2
  <2>. QED  BY <1>1, <2>3
<1>. QED  BY <1>2

(* A pool is only chosen for what fits into its buffers.                   *)
LEMMA ChosenFits ==
  ASSUME NEW k \in Nat, NEW a \in Nat, NEW p, p = SrvBuf!PoolFor(k, a)
  PROVE  /\ p \in Pools \/ p = "heap"
         /\ p # "heap" => k <= SrvBuf!Limit(p)
PROOF
<1>1. SmallLimit \in Nat /\ MidLimit \in Nat /\ BigLimit \in Nat
  BY PingpongAssumption
<1>. QED  BY <1>1 DEF SrvBuf!PoolFor, SrvBuf!Limit, Pools, SrvBuf!Pools

(* A pool that is not empty serves a request of size k.                    *)
LEMMA SrvServes ==
  ASSUME NumBufs >= 2, NEW O, NEW T, PoolKept(srvFree, srvSize, O, T),
         \A b, c \in O \cup T : b = c,
         NEW k \in Nat \ {0}, NEW a \in Nat
  PROVE  SrvBuf!CanAllocate(k, a)
PROOF
<1>1. PICK p : p = SrvBuf!PoolFor(k, a)  OBVIOUS
<1>2. /\ p \in Pools \/ p = "heap"
      /\ p # "heap" => k <= SrvBuf!Limit(p)
  BY <1>1, ChosenFits
<1>3. p # "heap" => srvFree[p] # <<>>  BY <1>2, PoolLeft
<1>. QED  BY <1>1, <1>2, <1>3 DEF SrvBuf!CanAllocate

(* The same for the client.                                                *)
LEMMA CltServes ==
  ASSUME NumBufs >= 2, NEW O, NEW T, PoolKept(cltFree, cltSize, O, T),
         \A b, c \in O \cup T : b = c,
         NEW k \in Nat \ {0}, NEW a \in Nat
  PROVE  CltBuf!CanAllocate(k, a)
PROOF
<1>1. PICK p : p = SrvBuf!PoolFor(k, a)  OBVIOUS
<1>2. /\ p \in Pools \/ p = "heap"
      /\ p # "heap" => k <= SrvBuf!Limit(p)
  BY <1>1, ChosenFits
<1>3. p # "heap" => cltFree[p] # <<>>  BY <1>2, PoolLeft
<1>4. p = CltBuf!PoolFor(k, a) /\ CltBuf!Limit(p) = SrvBuf!Limit(p)
  BY <1>1 DEF CltBuf!PoolFor, SrvBuf!PoolFor, CltBuf!Limit, SrvBuf!Limit
<1>. QED  BY <1>2, <1>3, <1>4 DEF CltBuf!CanAllocate

(* The server receives: the buffer was free, and there was one.            *)
LEMMA KeepReceives ==
  ASSUME NumBufs >= 2, BaseInv, SrvKept, ServerReceives, failed = "no",
         args.size # 0
  PROVE  SrvKept' /\ failed' = "no"
PROOF
<1>. USE DEF chan, reqVars, echoVars, srvPool, cltPool
<1>1. /\ server = "running" /\ rcv = None /\ Len(reqRcvd) < Len(reqSent)
      /\ reqRcvd' = Append(reqRcvd, reqSent[Len(reqRcvd) + 1])
      /\ UNCHANGED <<echoSent, echoDone, finish, server>>
  BY DEF ServerReceives, Req!Deliver, Req!AdvanceTo
<1>2. PICK lost \in SUBSET Bufs : SrvHeld(lost)  BY <1>1 DEF SrvKept
<1>3. /\ Len(echoSent) = Len(reqRcvd) /\ Carried = 0
      /\ Len(echoSent) <= Len(echoDone) + 1
  BY <1>1, ReceiveCounts
<1>t. /\ Len(reqRcvd) \in Nat /\ Len(echoSent) \in Nat /\ Len(echoDone) \in Nat
      /\ Len(reqSent) \in Nat /\ args.size \in Nat /\ Alignment \in Nat
  BY Types
<1>4. lost = {} /\ Handled = {}
  BY <1>1, <1>2, <1>3, <1>t DEF SrvHeld, Handled
<1>5. \A b, c \in Sending : b = c
  <2>1. \A i, j \in Len(echoDone) + 1 .. Len(echoSent) : i = j
    BY <1>3, <1>t
  <2>. QED  BY <2>1 DEF Sending
<1>6. finish.buf = None \/ finish.buf \in Sending
  BY FinishSending DEF Idle
<1>7. PICK O, T : /\ O = Sending \ {finish.buf} /\ T = {finish.buf} \ {None}
                  /\ PoolKept(srvFree, srvSize, O, T)
  BY <1>2, <1>4 DEF SrvHeld
<1>8. \A b, c \in O \cup T : b = c  BY <1>5, <1>6, <1>7
<1>9. SrvBuf!CanAllocate(args.size, Alignment)
  BY <1>7, <1>8, <1>t, SrvServes
<1>10. PICK b \in Bufs :
         /\ SrvBuf!Allocate(b, args.size, Alignment)
         /\ rcv' = [round |-> reqSent[Len(reqRcvd) + 1], buf |-> b]
         /\ failed' = failed
  BY <1>9 DEF ServerReceives, Bufs
<1>11. PICK f2, s2, k : /\ f2 = srvFree' /\ s2 = srvSize' /\ k = args.size
  OBVIOUS
<1>12. Taken(b, k, srvFree, srvSize, f2, s2)
  BY <1>10, <1>11, <1>t DEF SrvBuf!Allocate, Taken
<1>13. b \notin O \cup T /\ PoolKept(f2, s2, O \cup {b}, T)
  BY <1>7, <1>12, KeptTake
<1>14. /\ Handled' = {b} /\ Sending' = Sending /\ Carried' = 1
  <2>1. rcv' \in Echoes
    <3>1. Len(reqRcvd) + 1 \in 1 .. Len(reqSent)  BY <1>1, <1>t
    <3>2. reqSent \in Seq(Rounds)  BY Types
    <3>3. reqSent[Len(reqRcvd) + 1] \in Rounds  BY <3>1, <3>2, SeqAppend
    <3>. QED  BY <1>10, <3>3 DEF Echoes, Bufs
  <2>2. rcv' # None /\ rcv'.buf = b  BY <1>10, <2>1, EchoNotNone
  <2>. QED  BY <1>1, <2>2 DEF Handled, Sending, Carried
<1>15. b # finish.buf /\ b \notin Sending
  <2>1. b # None  BY BufParts
  <2>. QED  BY <1>7, <1>13, <2>1
<1>16. PICK H2, D2, x : H2 = Handled' /\ D2 = Sending' /\ x = finish.buf'
  OBVIOUS
<1>17. /\ PoolKept(f2, s2, (H2 \cup D2 \cup {}) \ {x}, {x} \ {None})
       /\ {} \cap (H2 \cup D2) = {} /\ H2 \cap D2 = {}
  <2>1. H2 = {b} /\ D2 = Sending /\ x = finish.buf
    BY <1>1, <1>14, <1>16
  <2>2. (H2 \cup D2 \cup {}) \ {x} = O \cup {b} /\ {x} \ {None} = T
    BY <1>7, <1>15, <2>1
  <2>. QED  BY <1>13, <1>15, <2>1, <2>2
<1>18. \A i, j \in Len(echoDone') + 1 .. Len(echoSent') :
         echoSent'[i].buf = echoSent'[j].buf => i = j
  BY <1>1, <1>2 DEF SrvHeld
<1>19. SrvHeld({})'
  BY <1>11, <1>16, <1>17, <1>18 DEF SrvHeld
<1>. QED  BY <1>10, <1>19 DEF SrvKept

(* Sending an echo, and its completion.                                    *)
LEMMA SendingAdd ==
  ASSUME BaseInv, NEW e \in Echoes, e.buf \notin Sending,
         echoSent' = Append(echoSent, e), echoDone' = echoDone,
         \A i, j \in Len(echoDone) + 1 .. Len(echoSent) :
           echoSent[i].buf = echoSent[j].buf => i = j
  PROVE  /\ Sending' = Sending \cup {e.buf}
         /\ \A i, j \in Len(echoDone') + 1 .. Len(echoSent') :
              echoSent'[i].buf = echoSent'[j].buf => i = j
PROOF
<1>. DEFINE n == Len(echoSent)
            d == Len(echoDone)
<1>1. echoSent \in Seq(Echoes) /\ n \in Nat /\ d \in Nat /\ d <= n
  BY Types DEF BaseInv, CountInv
<1>2. /\ Len(echoSent') = n + 1 /\ Len(echoDone') = d
      /\ \A i \in 1 .. n : echoSent'[i] = echoSent[i]
      /\ echoSent'[n + 1] = e
  BY <1>1, SeqAppend
<1>3. \A i \in d + 1 .. n + 1 : i \in d + 1 .. n \/ i = n + 1
  BY <1>1
<1>4. \A i \in d + 1 .. n : /\ i \in d + 1 .. n + 1
                            /\ echoSent'[i] = echoSent[i]
                            /\ echoSent[i].buf # e.buf
  <2>. TAKE i \in d + 1 .. n
  <2>1. i \in 1 .. n /\ i \in d + 1 .. n + 1  BY <1>1
  <2>. QED  BY <1>2, <2>1 DEF Sending
<1>5. n + 1 \in d + 1 .. n + 1  BY <1>1
<1>6. Sending = {echoSent[i].buf : i \in d + 1 .. n}
  BY DEF Sending
<1>7. Sending' = {echoSent'[i].buf : i \in d + 1 .. n + 1}
  BY <1>2 DEF Sending
<1>8. \A i, j \in d + 1 .. n : echoSent[i].buf = echoSent[j].buf => i = j
  OBVIOUS
<1>. HIDE DEF n, d
<1>9. Sending' = Sending \cup {e.buf}
  <2>1. Sending' \subseteq Sending \cup {e.buf}
    BY <1>2, <1>3, <1>4, <1>6, <1>7
  <2>2. Sending \subseteq Sending'  BY <1>4, <1>6, <1>7
  <2>3. e.buf \in Sending'  BY <1>2, <1>5, <1>7
  <2>. QED  BY <2>1, <2>2, <2>3
<1>10. \A i, j \in d + 1 .. n + 1 :
         echoSent'[i].buf = echoSent'[j].buf => i = j
  BY <1>2, <1>3, <1>4, <1>8
<1>. QED  BY <1>2, <1>9, <1>10

(* The completed echo is no longer one being sent.                         *)
LEMMA SendingDrop ==
  ASSUME BaseInv, Len(echoDone) < Len(echoSent), echoSent' = echoSent,
         Len(echoDone') = Len(echoDone) + 1,
         \A i, j \in Len(echoDone) + 1 .. Len(echoSent) :
           echoSent[i].buf = echoSent[j].buf => i = j
  PROVE  /\ Sending' = Sending \ {echoSent[Len(echoDone) + 1].buf}
         /\ \A i, j \in Len(echoDone') + 1 .. Len(echoSent') :
              echoSent'[i].buf = echoSent'[j].buf => i = j
PROOF
<1>. DEFINE n == Len(echoSent)
            d == Len(echoDone)
<1>1. n \in Nat /\ d \in Nat /\ d < n
  BY Types
<1>2. \A i \in d + 1 .. n : i = d + 1 \/ i \in (d + 1) + 1 .. n
  BY <1>1
<1>3. \A i \in (d + 1) + 1 .. n : i \in d + 1 .. n /\ i # d + 1
  BY <1>1
<1>4. d + 1 \in d + 1 .. n  BY <1>1
<1>5. Sending = {echoSent[i].buf : i \in d + 1 .. n}
  BY DEF Sending
<1>6. Sending' = {echoSent[i].buf : i \in (d + 1) + 1 .. n}
  BY DEF Sending
<1>7. \A i, j \in d + 1 .. n : echoSent[i].buf = echoSent[j].buf => i = j
  OBVIOUS
<1>8. Len(echoSent') = n /\ Len(echoDone') = d + 1 /\ echoSent' = echoSent
  OBVIOUS
<1>. HIDE DEF n, d
<1>9. Sending' = Sending \ {echoSent[d + 1].buf}
  <2>1. Sending' \subseteq Sending \ {echoSent[d + 1].buf}
    BY <1>3, <1>4, <1>5, <1>6, <1>7
  <2>2. Sending \ {echoSent[d + 1].buf} \subseteq Sending'
    BY <1>2, <1>5, <1>6
  <2>. QED  BY <2>1, <2>2
<1>10. \A i, j \in (d + 1) + 1 .. n :
         echoSent[i].buf = echoSent[j].buf => i = j
  BY <1>3, <1>7
<1>. QED  BY <1>8, <1>9, <1>10 DEF d

(* The buffer of the message is that of its echo, or it is lost.           *)
LEMMA KeepEchoes ==
  ASSUME BaseInv, SrvKept, OnServerReceive, failed = "no"
  PROVE  SrvKept' /\ failed' = "no"
PROOF
<1>. USE DEF chan, reqVars, echoVars, srvPool, cltPool
<1>1. /\ rcv # None /\ rcv' = None
      /\ failed' = IF SrvBuf!InUse(rcv.buf) THEN failed
                   ELSE "Access Released Buffer!"
      /\ \/ up /\ echoSent' = Append(echoSent, rcv) /\ UNCHANGED up
         \/ ~ up /\ UNCHANGED <<echoSent, up>>
      /\ UNCHANGED <<reqRcvd, echoDone, srvFree, srvSize, finish, server>>
  BY DEF OnServerReceive, Echo!Accept, Require
<1>2. server = "running"  BY <1>1 DEF BaseInv, HandlerInv, TypeOK
<1>3. PICK lost \in SUBSET Bufs : SrvHeld(lost)  BY <1>2 DEF SrvKept
<1>t. /\ Len(reqRcvd) \in Nat /\ Len(echoSent) \in Nat /\ Len(echoDone) \in Nat
      /\ rcv \in Echoes
  <2>1. rcv \in Echoes  BY <1>1 DEF BaseInv, TypeOK
  <2>. QED  BY <2>1, Types
<1>b. PICK b \in Bufs : b = rcv.buf  BY <1>t DEF Echoes, Bufs
<1>4. PICK O, T :
        /\ O = (Handled \cup Sending \cup lost) \ {finish.buf}
        /\ T = {finish.buf} \ {None} /\ PoolKept(srvFree, srvSize, O, T)
  BY <1>3 DEF SrvHeld
<1>5. /\ Handled = {b} /\ b \notin Sending /\ b \notin lost
      /\ lost \cap Sending = {}
  BY <1>1, <1>3, <1>b DEF SrvHeld, Handled
<1>6. b # finish.buf
  <2>1. finish.buf = None \/ finish.buf \in Sending
    BY FinishSending DEF Idle
  <2>2. b # None  BY BufParts
  <2>. QED  BY <1>5, <2>1, <2>2
<1>7. failed' = "no"
  <2>1. srvSize[b] # 0  BY <1>4, <1>5, <1>6 DEF PoolKept
  <2>. QED  BY <1>1, <1>b, <2>1 DEF SrvBuf!InUse
<1>8. Handled' = {} /\ Carried = 1 /\ Carried' = 0
  BY <1>1 DEF Handled, Carried
<1>9. PICK D2, f2, s2, x :
        D2 = Sending' /\ f2 = srvFree' /\ s2 = srvSize' /\ x = finish.buf'
  OBVIOUS
<1>10. f2 = srvFree /\ s2 = srvSize /\ x = finish.buf  BY <1>1, <1>9
<1>d. \A i, j \in Len(echoDone) + 1 .. Len(echoSent) :
        echoSent[i].buf = echoSent[j].buf => i = j
  BY <1>3 DEF SrvHeld
<1>11. CASE up /\ echoSent' = Append(echoSent, rcv)
  <2>1. /\ Sending' = Sending \cup {b}
        /\ \A i, j \in Len(echoDone') + 1 .. Len(echoSent') :
             echoSent'[i].buf = echoSent'[j].buf => i = j
    BY <1>1, <1>5, <1>11, <1>b, <1>d, <1>t, SendingAdd
  <2>2. Len(echoSent) + Carried = Len(reqRcvd)
    BY <1>11 DEF BaseInv, CountInv
  <2>3. lost = {}  BY <1>3, <2>2 DEF SrvHeld
  <2>4. PoolKept(f2, s2, ({} \cup D2 \cup {}) \ {x}, {x} \ {None})
    <3>1. ({} \cup D2 \cup {}) \ {x} = O /\ {x} \ {None} = T
      BY <1>4, <1>5, <1>9, <1>10, <2>1, <2>3
    <3>. QED  BY <1>4, <1>10, <3>1
  <2>5. SrvHeld({})'
    BY <1>8, <1>9, <2>1, <2>4 DEF SrvHeld
  <2>. QED  BY <1>7, <2>5 DEF SrvKept
<1>12. CASE ~ up /\ UNCHANGED <<echoSent, up>>
  <2>1. D2 = Sending  BY <1>1, <1>9, <1>12 DEF Sending
  <2>2. PoolKept(f2, s2, ({} \cup D2 \cup (lost \cup {b})) \ {x},
                 {x} \ {None})
    <3>1. ({} \cup D2 \cup (lost \cup {b})) \ {x} = O /\ {x} \ {None} = T
      BY <1>4, <1>5, <1>10, <2>1
    <3>. QED  BY <1>4, <1>10, <3>1
  <2>3. (lost \cup {b}) \cap ({} \cup D2) = {}  BY <1>5, <2>1
  <2>4. Len(echoSent') + 0 # Len(reqRcvd')
    <3>1. Len(echoSent) + Carried <= Len(reqRcvd)  BY DEF BaseInv, CountInv
    <3>2. UNCHANGED <<echoSent, reqRcvd>>  BY <1>1, <1>12
    <3>. QED  BY <1>8, <1>t, <3>1, <3>2
  <2>5. \A i, j \in Len(echoDone') + 1 .. Len(echoSent') :
          echoSent'[i].buf = echoSent'[j].buf => i = j
    BY <1>1, <1>12, <1>d
  <2>6. SrvHeld(lost \cup {b})'
    BY <1>8, <1>9, <2>2, <2>3, <2>4, <2>5 DEF SrvHeld
  <2>. QED  BY <1>7, <2>6 DEF SrvKept
<1>. QED  BY <1>1, <1>11, <1>12

(* The buffer of the echo is in use when it is cleared.                    *)
LEMMA KeepEchoFinish ==
  ASSUME BaseInv, SrvKept, OnEchoFinish, failed = "no"
  PROVE  SrvKept' /\ failed' = "no"
PROOF
<1>. USE DEF chan, reqVars, echoVars, srvPool, cltPool
<1>1. /\ server = "running" /\ finish = Idle
      /\ Len(echoDone) < Len(echoSent)
      /\ UNCHANGED <<reqRcvd, echoSent, echoDone, rcv, server>>
  BY DEF OnEchoFinish
<1>t. /\ Len(echoSent) \in Nat /\ Len(echoDone) \in Nat
      /\ echoSent \in Seq(Echoes)
  BY Types
<1>2. PICK b \in Bufs : b = echoSent[Len(echoDone) + 1].buf
  <2>1. Len(echoDone) + 1 \in 1 .. Len(echoSent)  BY <1>1, <1>t
  <2>2. echoSent[Len(echoDone) + 1] \in Echoes  BY <1>t, <2>1, SeqAppend
  <2>. QED  BY <2>2 DEF Echoes, Bufs
<1>3. /\ failed' = IF SrvBuf!InUse(b) THEN failed
                   ELSE "Access Released Buffer!"
      /\ SrvBuf!Release(b, 1)
      /\ finish' = [step |-> 2, buf |-> b]
  BY <1>2 DEF OnEchoFinish, Require
<1>4. PICK lost \in SUBSET Bufs : SrvHeld(lost)  BY <1>1 DEF SrvKept
<1>5. PICK O : /\ O = Handled \cup Sending \cup lost
               /\ PoolKept(srvFree, srvSize, O, {})
  <2>1. finish.buf = None  BY <1>1 DEF Idle
  <2>2. None \notin Handled \cup Sending \cup lost
    <3>1. \A c \in Bufs : c # None  BY BufParts
    <3>. QED  BY <3>1, HeldTypes
  <2>3. /\ (Handled \cup Sending \cup lost) \ {finish.buf}
             = Handled \cup Sending \cup lost
        /\ {finish.buf} \ {None} = {}
    BY <2>1, <2>2
  <2>. QED  BY <1>4, <2>3 DEF SrvHeld
<1>6. b \in O
  <2>1. Len(echoDone) + 1 \in Len(echoDone) + 1 .. Len(echoSent)
    BY <1>1, <1>t
  <2>. QED  BY <1>2, <1>5, <2>1 DEF Sending
<1>7. failed' = "no"
  <2>1. srvSize[b] # 0  BY <1>5, <1>6 DEF PoolKept
  <2>. QED  BY <1>3, <2>1 DEF SrvBuf!InUse
<1>8. PICK f2, s2 : f2 = srvFree' /\ s2 = srvSize'  OBVIOUS
<1>9. Cleared(b, srvFree, srvSize, f2, s2)
  <2>1. SrvBuf!Release(b, 1)  BY <1>3
  <2>2. \/ b[1] # "heap" /\ srvSize' = [srvSize EXCEPT ![b] = 0]
           /\ srvFree' = srvFree
        \/ b[1] = "heap" /\ srvFree' = srvFree /\ srvSize' = srvSize
    BY <2>1 DEF SrvBuf!Release
  <2>. QED  BY <1>8, <2>2 DEF Cleared
<1>10. PoolKept(f2, s2, O \ {b}, {b})
  BY <1>5, <1>6, <1>9, KeptClear
<1>11. {b} \ {None} = {b} /\ finish'.buf = b
  BY <1>3, BufParts
<1>12. /\ Handled' = Handled /\ Sending' = Sending /\ Carried' = Carried
  BY <1>1 DEF Handled, Sending, Carried
<1>13. PICK H2, D2, x : H2 = Handled' /\ D2 = Sending' /\ x = finish'.buf
  OBVIOUS
<1>14. /\ PoolKept(f2, s2, (H2 \cup D2 \cup lost) \ {x}, {x} \ {None})
       /\ lost \cap (H2 \cup D2) = {} /\ H2 \cap D2 = {}
  <2>1. H2 = Handled /\ D2 = Sending /\ x = b  BY <1>11, <1>12, <1>13
  <2>2. (H2 \cup D2 \cup lost) \ {x} = O \ {b} /\ {x} \ {None} = {b}
    BY <1>5, <1>11, <2>1
  <2>. QED  BY <1>4, <1>10, <2>1, <2>2 DEF SrvHeld
<1>15. SrvHeld(lost)'
  BY <1>1, <1>4, <1>8, <1>12, <1>13, <1>14 DEF SrvHeld
<1>. QED  BY <1>7, <1>15 DEF SrvKept

(* The buffer of the echo is back.                                         *)
LEMMA KeepFinishEnd ==
  ASSUME BaseInv, SrvKept, FinishEnd
  PROVE  SrvKept'
PROOF
<1>. USE DEF chan, reqVars, echoVars, srvPool, cltPool
<1>1. /\ finish.step = 2 /\ finish' = Idle
      /\ SrvBuf!Release(finish.buf, 2)
      /\ echoDone' = Append(echoDone, echoSent[Len(echoDone) + 1])
      /\ UNCHANGED <<reqRcvd, echoSent, rcv, server>>
  BY DEF FinishEnd, Echo!Complete, Echo!AdvanceTo
<1>2. finish # Idle  BY <1>1 DEF Idle
<1>3. server = "running"  BY <1>2 DEF BaseInv, HandlerInv, TypeOK
<1>4. PICK b \in Bufs :
        /\ b = finish.buf /\ b \in Sending /\ Len(echoDone) < Len(echoSent)
        /\ b = echoSent[Len(echoDone) + 1].buf
  BY <1>2, FinishSending
<1>5. PICK lost \in SUBSET Bufs : SrvHeld(lost)  BY <1>3 DEF SrvKept
<1>6. Len(echoDone') = Len(echoDone) + 1
  <2>1. /\ echoSent \in Seq(Echoes) /\ echoDone \in Seq(Echoes)
        /\ Len(echoDone) \in Nat /\ Len(echoSent) \in Nat
    BY Types
  <2>2. Len(echoDone) + 1 \in 1 .. Len(echoSent)  BY <1>4, <2>1
  <2>3. echoSent[Len(echoDone) + 1] \in Echoes  BY <2>1, <2>2, SeqAppend
  <2>. QED  BY <1>1, <2>1, <2>3, SeqAppend
<1>d. \A i, j \in Len(echoDone) + 1 .. Len(echoSent) :
        echoSent[i].buf = echoSent[j].buf => i = j
  BY <1>5 DEF SrvHeld
<1>7. /\ Sending' = Sending \ {b}
      /\ \A i, j \in Len(echoDone') + 1 .. Len(echoSent') :
           echoSent'[i].buf = echoSent'[j].buf => i = j
  <2>1. echoSent' = echoSent  BY <1>1
  <2>. QED  BY <1>4, <1>6, <1>d, <2>1, SendingDrop
<1>8. PICK O : /\ O = (Handled \cup Sending \cup lost) \ {b}
               /\ PoolKept(srvFree, srvSize, O, {b})
  <2>1. {b} \ {None} = {b}  BY BufParts
  <2>. QED  BY <1>4, <1>5, <2>1 DEF SrvHeld
<1>9. PICK f2, s2 : f2 = srvFree' /\ s2 = srvSize'  OBVIOUS
<1>10. GivenBack(b, srvFree, srvSize, f2, s2)
  BY <1>1, <1>4, <1>9 DEF SrvBuf!Release, GivenBack
<1>11. b \notin O  BY <1>8
<1>12. PoolKept(f2, s2, O, {})
  BY <1>8, <1>10, <1>11, KeptBack
<1>13. finish'.buf = None /\ Handled' = Handled /\ Carried' = Carried
  BY <1>1 DEF Idle, Handled, Carried
<1>14. PICK H2, D2, x : H2 = Handled' /\ D2 = Sending' /\ x = finish'.buf
  OBVIOUS
<1>15. H2 = Handled /\ D2 = Sending \ {b} /\ x = None
  BY <1>7, <1>13, <1>14
<1>16. /\ PoolKept(f2, s2, (H2 \cup D2 \cup lost) \ {x}, {x} \ {None})
       /\ lost \cap (H2 \cup D2) = {} /\ H2 \cap D2 = {}
  <2>1. b \notin Handled /\ b \notin lost  BY <1>4, <1>5 DEF SrvHeld
  <2>2. None \notin O
    <3>1. \A c \in Bufs : c # None  BY BufParts
    <3>. QED  BY <1>8, <3>1, HeldTypes
  <2>3. (H2 \cup D2 \cup lost) \ {x} = O /\ {x} \ {None} = {}
    BY <1>8, <1>15, <2>1, <2>2
  <2>. QED  BY <1>5, <1>12, <1>15, <2>3 DEF SrvHeld
<1>17. SrvHeld(lost)'
  BY <1>1, <1>5, <1>7, <1>9, <1>13, <1>14, <1>16 DEF SrvHeld
<1>. QED  BY <1>17 DEF SrvKept

(* The steps of the client leave the server's buffers alone.               *)
LEMMA KeepServer ==
  ASSUME SrvKept,
         \/ server' = "gone"
         \/ UNCHANGED <<server, srvFree, srvSize, rcv, finish, echoSent,
                        echoDone, reqRcvd>>
  PROVE  SrvKept'
PROOF
<1>1. CASE server' = "gone"  BY <1>1 DEF SrvKept
<1>2. CASE UNCHANGED <<server, srvFree, srvSize, rcv, finish, echoSent,
                       echoDone, reqRcvd>>
  <2>1. ASSUME NEW lost \in SUBSET Bufs, SrvHeld(lost)  PROVE SrvHeld(lost)'
    <3>1. /\ Handled' = Handled /\ Sending' = Sending /\ Carried' = Carried
      BY <1>2 DEF Handled, Sending, Carried
    <3>. QED  BY <1>2, <2>1, <3>1 DEF SrvHeld
  <2>. QED  BY <1>2, <2>1 DEF SrvKept
<1>. QED  BY <1>1, <1>2

-----------------------------------------------------------------------------
(* The buffers of the client.                                              *)

CltKept ==
  PoolKept(cltFree, cltSize,
           IF crcv.step \in {1, 2} THEN {crcv.buf} ELSE {},
           IF crcv.step = 3 THEN {crcv.buf} ELSE {})

(* The client receives: it has no other buffer in use.                     *)
LEMMA KeepClientReceives ==
  ASSUME NumBufs >= 2, BaseInv, CltKept, ClientReceives, failed = "no",
         args.size # 0
  PROVE  CltKept' /\ failed' = "no"
PROOF
<1>. USE DEF chan, reqVars, echoVars, srvPool, cltPool
<1>1. crcv = Idle  BY DEF ClientReceives
<1>2. PoolKept(cltFree, cltSize, {}, {})
  BY <1>1 DEF CltKept, Idle
<1>t. args.size \in Nat /\ Alignment \in Nat  BY Types
<1>3. CltBuf!CanAllocate(args.size, Alignment)
  <2>1. args.size \in Nat \ {0}  BY <1>t
  <2>2. \A b, c \in {} \cup {} : b = c  OBVIOUS
  <2>. QED  BY <1>2, <1>t, <2>1, <2>2, CltServes
<1>4. PICK b \in Bufs :
        /\ CltBuf!Allocate(b, args.size, Alignment)
        /\ crcv' = [step |-> 1, buf |-> b]
        /\ failed' = failed
  BY <1>3, SamePools DEF ClientReceives
<1>5. PICK f2, s2, k : /\ f2 = cltFree' /\ s2 = cltSize' /\ k = args.size
  OBVIOUS
<1>6. Taken(b, k, cltFree, cltSize, f2, s2)
  BY <1>4, <1>5, <1>t DEF CltBuf!Allocate, Taken
<1>7. PoolKept(f2, s2, {} \cup {b}, {})  BY <1>2, <1>6, KeptTake
<1>8. PoolKept(f2, s2, {b}, {})
  <2>1. {} \cup {b} = {b}  OBVIOUS
  <2>. QED  BY <1>7, <2>1
<1>9. CltKept'  BY <1>4, <1>5, <1>8 DEF CltKept
<1>. QED  BY <1>4, <1>9

(* The message stays in its buffer until OnClientReceive returns.          *)
LEMMA KeepClientReceive ==
  ASSUME BaseInv, CltKept, OnClientReceive
  PROVE  CltKept'
PROOF
<1>. USE DEF chan, reqVars, echoVars, srvPool, cltPool
<1>1. /\ crcv.step = 1 /\ crcv' = [crcv EXCEPT !.step = 2]
      /\ UNCHANGED <<cltFree, cltSize>>
  BY DEF OnClientReceive
<1>2. crcv \in [step : 1 .. 3, buf : Bufs]
  BY <1>1 DEF BaseInv, HandlerInv, Idle
<1>3. crcv'.step = 2 /\ crcv'.buf = crcv.buf  BY <1>1, <1>2
<1>. QED  BY <1>1, <1>3 DEF CltKept

(* The buffer of the echo is in use until it is cleared.                   *)
LEMMA KeepClientDispose ==
  ASSUME BaseInv, CltKept, ClientDispose, failed = "no"
  PROVE  CltKept' /\ failed' = "no"
PROOF
<1>. USE DEF chan, reqVars, echoVars, srvPool, cltPool
<1>1. /\ failed' = IF crcv.step = 2 => CltBuf!InUse(crcv.buf) THEN failed
                   ELSE "Double buffer release detected!"
      /\ crcv' = IF crcv.step = 2 THEN [crcv EXCEPT !.step = 3] ELSE Idle
  BY DEF ClientDispose, Require
<1>s. /\ crcv.step \in {2, 3}
      /\ CltBuf!Release(crcv.buf, crcv.step - 1)
  BY DEF ClientDispose
<1>2. crcv \in [step : 1 .. 3, buf : Bufs]
  <2>1. crcv.step # 0 /\ Idle.step = 0  BY <1>s DEF Idle
  <2>2. crcv # Idle  BY <2>1
  <2>. QED  BY <2>2 DEF BaseInv, HandlerInv
<1>3. PICK b \in Bufs : b = crcv.buf  BY <1>2
<1>4. PICK f2, s2 : f2 = cltFree' /\ s2 = cltSize'  OBVIOUS
<1>5. CASE crcv.step = 2
  <2>0. crcv.step - 1 = 1 /\ CltBuf!Release(crcv.buf, crcv.step - 1)
    BY <1>s, <1>5
  <2>1. CltBuf!Release(b, 1)  BY <1>3, <2>0
  <2>2. PoolKept(cltFree, cltSize, {b}, {})  BY <1>3, <1>5 DEF CltKept
  <2>3. \/ b[1] # "heap" /\ cltSize' = [cltSize EXCEPT ![b] = 0]
           /\ cltFree' = cltFree
        \/ b[1] = "heap" /\ cltFree' = cltFree /\ cltSize' = cltSize
    BY <2>1 DEF CltBuf!Release
  <2>4. Cleared(b, cltFree, cltSize, f2, s2)  BY <1>4, <2>3 DEF Cleared
  <2>5. PoolKept(f2, s2, {b} \ {b}, {b})
    <3>1. b \in {b}  OBVIOUS
    <3>. QED  BY <2>2, <2>4, <3>1, KeptClear
  <2>6. PoolKept(f2, s2, {}, {b})
    <3>1. {b} \ {b} = {}  OBVIOUS
    <3>. QED  BY <2>5, <3>1
  <2>7. crcv'.step = 3 /\ crcv'.buf = b  BY <1>1, <1>2, <1>3, <1>5
  <2>8. CltKept'  BY <1>4, <2>6, <2>7 DEF CltKept
  <2>9. CltBuf!InUse(crcv.buf)
    <3>1. cltSize[b] # 0  BY <2>2 DEF PoolKept
    <3>. QED  BY <1>3, <3>1 DEF CltBuf!InUse
  <2>. QED  BY <1>1, <2>8, <2>9
<1>6. CASE crcv.step = 3
  <2>0. crcv.step - 1 = 2 /\ CltBuf!Release(crcv.buf, crcv.step - 1)
    BY <1>s, <1>6
  <2>1. CltBuf!Release(b, 2)  BY <1>3, <2>0
  <2>2. PoolKept(cltFree, cltSize, {}, {b})  BY <1>3, <1>6 DEF CltKept
  <2>3. \/ b[1] # "heap" /\ cltFree' = [cltFree EXCEPT ![b[1]] = Append(@, b)]
           /\ cltSize' = cltSize
        \/ b[1] = "heap" /\ cltSize' = [cltSize EXCEPT ![b] = 0]
           /\ cltFree' = cltFree
    BY <2>1 DEF CltBuf!Release
  <2>4. GivenBack(b, cltFree, cltSize, f2, s2)  BY <1>4, <2>3 DEF GivenBack
  <2>5. PoolKept(f2, s2, {}, {})
    <3>1. b \notin {}  OBVIOUS
    <3>. QED  BY <2>2, <2>4, <3>1, KeptBack
  <2>6. crcv'.step = 0  BY <1>1, <1>6 DEF Idle
  <2>7. CltKept'  BY <1>4, <2>5, <2>6 DEF CltKept
  <2>. QED  BY <1>1, <1>6, <2>7
<1>. QED  BY <1>s, <1>5, <1>6

(* The steps of the server leave the client's buffers alone.               *)
LEMMA KeepClient ==
  ASSUME CltKept, UNCHANGED <<cltFree, cltSize, crcv>>
  PROVE  CltKept'
PROOF BY DEF CltKept

-----------------------------------------------------------------------------
(* The theorems.                                                           *)

SampleInv ==
  /\ BaseInv /\ SrvKept /\ CltKept
  /\ args.size # 0 /\ failed = "no"

(* PoolInit puts every buffer of a pool in its queue.                      *)
LEMMA FirstPool ==
  ASSUME NEW f, NEW s,
         f = [p \in Pools |-> [i \in 1 .. NumBufs |-> <<p, i>>]],
         s = [b \in Bufs |-> 0]
  PROVE  PoolKept(f, s, {}, {})
PROOF
<1>. DEFINE q(p) == [i \in 1 .. NumBufs |-> <<p, i>>]
<1>n. NumBufs \in Nat \ {0}  BY PingpongAssumption
<1>1. ASSUME NEW p \in Pools
      PROVE  /\ q(p) \in Seq(Bufs) /\ DOMAIN q(p) = 1 .. NumBufs
             /\ \A i \in 1 .. NumBufs : q(p)[i] = <<p, i>>
  <2>1. \A i \in 1 .. NumBufs : <<p, i>> \in Bufs
    BY DEF Bufs, Pools, SrvBuf!Buffers, SrvBuf!Pools
  <2>2. q(p) \in [1 .. NumBufs -> Bufs]  BY <2>1
  <2>3. q(p) \in Seq(Bufs)  BY <1>n, <2>2, SeqDef
  <2>. QED  BY <2>3
<1>. HIDE DEF q
<1>2. /\ f \in [Pools -> Seq(Bufs)] /\ s \in [Bufs -> Nat]
      /\ \A p \in Pools : f[p] = q(p)
  BY <1>1 DEF q
<1>3. ASSUME NEW p \in Pools
      PROVE  /\ \A i, j \in DOMAIN f[p] : f[p][i] = f[p][j] => i = j
             /\ Elements(f[p]) = {b \in Bufs : b[1] = p} \ ({} \cup {})
  <2>1. f[p] = q(p)  BY <1>2
  <2>2. \A i \in DOMAIN f[p] : f[p][i] = <<p, i>> /\ i \in 1 .. NumBufs
    BY <1>1, <2>1
  <2>3. \A i, j \in DOMAIN f[p] : f[p][i] = f[p][j] => i = j
    BY <2>2
  <2>4. Elements(f[p]) \subseteq {b \in Bufs : b[1] = p}
    <3>1. \A i \in 1 .. NumBufs : <<p, i>> \in Bufs /\ <<p, i>>[1] = p
      BY DEF Bufs, Pools, SrvBuf!Buffers, SrvBuf!Pools
    <3>. QED  BY <2>2, <3>1 DEF Elements
  <2>5. ASSUME NEW b \in Bufs, b[1] = p  PROVE b \in Elements(f[p])
    <3>1. b = <<p, b[2]>> /\ b[2] \in 1 .. NumBufs
      BY <2>5 DEF Bufs, SrvBuf!Buffers
    <3>2. b[2] \in DOMAIN f[p]  BY <1>1, <2>1, <3>1
    <3>. QED  BY <2>2, <3>1, <3>2 DEF Elements
  <2>. QED  BY <2>3, <2>4, <2>5
<1>. QED  BY <1>2, <1>3 DEF PoolKept

(* Init, and every step, keep all of it.                                   *)
LEMMA SampleInit ==
  Init => SampleInv
PROOF
<1>. SUFFICES ASSUME Init  PROVE SampleInv
  OBVIOUS
<1>1. /\ args \in [size : MsgSizes, tests : Rounds] /\ args.size # 0
      /\ reqSent = <<>> /\ reqDone = <<>> /\ reqRcvd = <<>>
      /\ echoSent = <<>> /\ echoDone = <<>> /\ echoRcvd = <<>>
      /\ up = TRUE /\ tests = args.tests /\ served = 0
      /\ rcv = None /\ finish = Idle /\ crcv = Idle
      /\ client = "running" /\ server = "running" /\ failed = "no"
  BY DEF Init, Accepted, Req!Init, Echo!Init
<1>2. /\ PoolKept(srvFree, srvSize, {}, {})
      /\ PoolKept(cltFree, cltSize, {}, {})
  <2>1. SrvBuf!PoolInit /\ CltBuf!PoolInit  BY DEF Init
  <2>2. PoolKept(srvFree, srvSize, {}, {})
    BY <2>1, FirstPool DEF SrvBuf!PoolInit, Bufs, Pools
  <2>3. /\ cltFree = [p \in Pools |-> [i \in 1 .. NumBufs |-> <<p, i>>]]
        /\ cltSize = [b \in Bufs |-> 0]
    BY <2>1, SamePools DEF CltBuf!PoolInit
  <2>. QED  BY <2>2, <2>3, FirstPool
<1>3. Idle.step = 0 /\ Idle.buf = None  BY DEF Idle
<1>4. MaxTests \in Nat \ {0} /\ args.tests \in 1 .. MaxTests
  BY <1>1, PingpongAssumption DEF Rounds
<1>5. TypeOK  BY <1>1, <1>3, <1>4 DEF TypeOK
<1>6. CountInv
  <2>1. Carried = 0  BY <1>1 DEF Carried
  <2>2. Len(<<>>) = 0  OBVIOUS
  <2>. QED  BY <1>1, <1>3, <1>4, <2>1, <2>2 DEF CountInv
<1>7. ContentInv /\ HandlerInv  BY <1>1 DEF ContentInv, HandlerInv
<1>8. SrvKept
  <2>1. Handled = {} /\ Sending = {}
    BY <1>1 DEF Handled, Sending
  <2>2. PoolKept(srvFree, srvSize, (Handled \cup Sending \cup {}) \ {finish.buf},
                 {finish.buf} \ {None})
    <3>1. /\ (Handled \cup Sending \cup {}) \ {finish.buf} = {}
          /\ {finish.buf} \ {None} = {}
      BY <1>1, <1>3, <2>1
    <3>. QED  BY <1>2, <3>1
  <2>3. \A i, j \in Len(echoDone) + 1 .. Len(echoSent) :
          echoSent[i].buf = echoSent[j].buf => i = j
    BY <1>1
  <2>4. SrvHeld({})  BY <2>1, <2>2, <2>3 DEF SrvHeld
  <2>. QED  BY <2>4 DEF SrvKept
<1>9. CltKept  BY <1>1, <1>2, <1>3 DEF CltKept
<1>. QED  BY <1>1, <1>5, <1>6, <1>7, <1>8, <1>9 DEF SampleInv, BaseInv

(* Every step keeps the invariant: one case per action.                    *)
LEMMA SampleStep ==
  ASSUME NumBufs >= 2
  PROVE  SampleInv /\ [Next]_vars => SampleInv'
PROOF
<1>. SUFFICES ASSUME SampleInv, [Next]_vars  PROVE SampleInv'
  OBVIOUS
<1>. USE DEF chan, reqVars, echoVars, srvPool, cltPool
<1>1. /\ BaseInv /\ SrvKept /\ CltKept
      /\ args.size # 0 /\ failed = "no"
  BY DEF SampleInv
<1>2. CASE ClientConnected
  <2>1. BaseInv'  BY <1>1, <1>2, BaseConnected
  <2>2. UNCHANGED <<args, server, srvFree, srvSize, rcv, finish, echoSent,
                    echoDone, reqRcvd, cltFree, cltSize, crcv, failed>>
    BY <1>2 DEF ClientConnected, Req!Accept
  <2>3. SrvKept' /\ CltKept'  BY <1>1, <2>2, KeepServer, KeepClient
  <2>. QED  BY <1>1, <2>1, <2>2, <2>3 DEF SampleInv
<1>3. CASE OnSent
  <2>1. BaseInv'  BY <1>1, <1>3, BaseSent
  <2>2. UNCHANGED <<args, server, srvFree, srvSize, rcv, finish, echoSent,
                    echoDone, reqRcvd, cltFree, cltSize, crcv, failed>>
    BY <1>3 DEF OnSent, Req!Complete
  <2>3. SrvKept' /\ CltKept'  BY <1>1, <2>2, KeepServer, KeepClient
  <2>. QED  BY <1>1, <2>1, <2>2, <2>3 DEF SampleInv
<1>4. CASE ClientReceives
  <2>1. CltKept' /\ failed' = "no"  BY <1>1, <1>4, KeepClientReceives
  <2>2. BaseInv'  BY <1>1, <1>4, <2>1, BaseClientReceives
  <2>3. UNCHANGED <<args, server, srvFree, srvSize, rcv, finish, echoSent,
                    echoDone, reqRcvd>>
    BY <1>4 DEF ClientReceives, Echo!Deliver
  <2>4. SrvKept'  BY <1>1, <2>3, KeepServer
  <2>. QED  BY <1>1, <2>1, <2>2, <2>3, <2>4 DEF SampleInv
<1>5. CASE OnClientReceive
  <2>1. BaseInv' /\ CltKept'
    BY <1>1, <1>5, BaseClientReceive, KeepClientReceive
  <2>2. UNCHANGED <<args, server, srvFree, srvSize, rcv, finish, echoSent,
                    echoDone, reqRcvd, failed>>
    BY <1>5 DEF OnClientReceive, Req!Accept
  <2>3. SrvKept'  BY <1>1, <2>2, KeepServer
  <2>. QED  BY <1>1, <2>1, <2>2, <2>3 DEF SampleInv
<1>6. CASE ClientDispose
  <2>1. BaseInv'  BY <1>1, <1>6, BaseClientDispose
  <2>2. CltKept' /\ failed' = "no"  BY <1>1, <1>6, KeepClientDispose
  <2>3. UNCHANGED <<args, server, srvFree, srvSize, rcv, finish, echoSent,
                    echoDone, reqRcvd>>
    BY <1>6 DEF ClientDispose
  <2>4. SrvKept'  BY <1>1, <2>3, KeepServer
  <2>. QED  BY <1>1, <2>1, <2>2, <2>3, <2>4 DEF SampleInv
<1>7. CASE ClientReturns \/ ClientDisconnected \/ OnConnect \/ Disconnect
  <2>1. BaseInv'  BY <1>1, <1>7, BaseEnds
  <2>2. UNCHANGED <<args, cltFree, cltSize, crcv, failed>>
    BY <1>7 DEF ClientReturns, ClientDisconnected, OnConnect, Disconnect
  <2>3. \/ server' = "gone"
        \/ UNCHANGED <<server, srvFree, srvSize, rcv, finish, echoSent,
                       echoDone, reqRcvd>>
    BY <1>7 DEF ClientReturns, ClientDisconnected, OnConnect, Disconnect
  <2>4. SrvKept'  BY <1>1, <2>3, KeepServer
  <2>5. CltKept'  BY <1>1, <2>2, KeepClient
  <2>. QED  BY <1>1, <2>1, <2>2, <2>4, <2>5 DEF SampleInv
<1>8. CASE ServerReceives
  <2>1. SrvKept' /\ failed' = "no"  BY <1>1, <1>8, KeepReceives
  <2>2. BaseInv'  BY <1>1, <1>8, <2>1, BaseServerReceives
  <2>3. UNCHANGED <<args, cltFree, cltSize, crcv>>
    BY <1>8 DEF ServerReceives
  <2>4. CltKept'  BY <1>1, <2>3, KeepClient
  <2>. QED  BY <1>1, <2>1, <2>2, <2>3, <2>4 DEF SampleInv
<1>9. CASE OnServerReceive
  <2>1. SrvKept' /\ failed' = "no"  BY <1>1, <1>9, KeepEchoes
  <2>2. BaseInv'  BY <1>1, <1>9, BaseServerReceive
  <2>3. UNCHANGED <<args, cltFree, cltSize, crcv>>
    BY <1>9 DEF OnServerReceive
  <2>4. CltKept'  BY <1>1, <2>3, KeepClient
  <2>. QED  BY <1>1, <2>1, <2>2, <2>3, <2>4 DEF SampleInv
<1>10. CASE OnEchoFinish
  <2>1. SrvKept' /\ failed' = "no"  BY <1>1, <1>10, KeepEchoFinish
  <2>2. BaseInv'  BY <1>1, <1>10, BaseEchoFinish
  <2>3. UNCHANGED <<args, cltFree, cltSize, crcv>>
    BY <1>10 DEF OnEchoFinish
  <2>4. CltKept'  BY <1>1, <2>3, KeepClient
  <2>. QED  BY <1>1, <2>1, <2>2, <2>3, <2>4 DEF SampleInv
<1>11. CASE FinishEnd
  <2>1. SrvKept'  BY <1>1, <1>11, KeepFinishEnd
  <2>2. BaseInv'  BY <1>1, <1>11, BaseFinishEnd
  <2>3. UNCHANGED <<args, cltFree, cltSize, crcv, failed>>
    BY <1>11 DEF FinishEnd
  <2>4. CltKept'  BY <1>1, <2>3, KeepClient
  <2>. QED  BY <1>1, <2>1, <2>2, <2>3, <2>4 DEF SampleInv
<1>12. CASE UNCHANGED vars
  <2>1. UNCHANGED <<args, up, reqSent, reqDone, reqRcvd, echoSent, echoDone,
                    echoRcvd, tests, served, srvFree, srvSize, cltFree,
                    cltSize, rcv, finish, crcv, client, server, failed>>
    BY <1>12 DEF vars
  <2>2. SrvKept' /\ CltKept'  BY <1>1, <2>1, KeepServer, KeepClient
  <2>3. TypeOK' /\ HandlerInv'
    BY <1>1, <2>1 DEF BaseInv, TypeOK, HandlerInv
  <2>4. CountInv' /\ ContentInv'
    BY <1>1, <2>1 DEF BaseInv, CountInv, Carried, ContentInv
  <2>. QED  BY <1>1, <2>1, <2>2, <2>3, <2>4 DEF SampleInv, BaseInv
<1>13. CASE Next
  BY <1>2, <1>3, <1>4, <1>5, <1>6, <1>7, <1>8, <1>9, <1>10, <1>11, <1>13
     DEF Next, Work
<1>. QED  BY <1>12, <1>13

(* Counters, contents and buffers are as SampleInv says in every state.    *)
LEMMA SampleInvariant ==
  ASSUME NumBufs >= 2
  PROVE  Spec => []SampleInv
PROOF
<1>1. Init => SampleInv  BY SampleInit
<1>2. SampleInv /\ [Next]_vars => SampleInv'  BY SampleStep
<1>. QED  BY <1>1, <1>2, PTL DEF Spec

(* The types, and the counter of the client, which stops at 0: no more     *)
(* echoes arrive than there are tests.                                     *)
THEOREM SampleTypes ==
  ASSUME NumBufs >= 2
  PROVE  Spec => []TypeOK
PROOF
<1>1. SampleInv => TypeOK  BY DEF SampleInv, BaseInv
<1>2. Spec => []SampleInv  BY SampleInvariant
<1>. QED  BY <1>1, <1>2, PTL

(* OnClientReceive sends the next message after it counted the last one,   *)
(* and OnServerReceive one echo for each message: one of them is under way *)
(* at any time, and the echoes come back in the order of the requests.     *)
THEOREM SampleLockstep ==
  ASSUME NumBufs >= 2
  PROVE  Spec => []Lockstep
PROOF
<1>1. SampleInv => Lockstep
  <2>. SUFFICES ASSUME BaseInv  PROVE Lockstep
    BY DEF SampleInv
  <2>1. CountInv /\ ContentInv  BY DEF BaseInv
  <2>2. ASSUME NEW i \in DOMAIN echoRcvd
        PROVE  echoRcvd[i].round = reqSent[i]
    <3>1. /\ Len(echoRcvd) \in Nat /\ Len(echoSent) \in Nat
          /\ Len(reqSent) \in Nat /\ Len(reqRcvd) \in Nat
          /\ Carried \in {0, 1} /\ echoRcvd \in Seq(Echoes)
      BY Types
    <3>2. /\ Len(echoRcvd) <= Len(echoSent)
          /\ Len(echoSent) + Carried <= Len(reqRcvd)
          /\ Len(reqRcvd) <= Len(reqSent)
      BY <2>1 DEF CountInv
    <3>3. i \in 1 .. Len(echoRcvd)  BY <3>1
    <3>4. i \in 1 .. Len(echoSent) /\ i \in 1 .. Len(reqSent)
      BY <3>1, <3>2, <3>3
    <3>. QED  BY <2>1, <3>3, <3>4 DEF ContentInv
  <2>. QED  BY <2>1, <2>2 DEF CountInv, Carried, Lockstep
<1>2. Spec => []SampleInv  BY SampleInvariant
<1>. QED  BY <1>1, <1>2, PTL

(* Every buffer of a manager is in its queue once, or in the one place     *)
(* that has it, whichever steps of the threads that allocate and of those  *)
(* that release come between.                                              *)
THEOREM SampleBuffers ==
  ASSUME NumBufs >= 2
  PROVE  Spec => []BuffersConserved
PROOF
<1>1. SampleInv => BuffersConserved
  <2>. SUFFICES ASSUME SampleInv  PROVE BuffersConserved
    OBVIOUS
  <2>1. BaseInv /\ SrvKept /\ CltKept  BY DEF SampleInv
  <2>2. ASSUME up
        PROVE  SrvBuf!Conserved((Handled \cup Sending) \ {finish.buf},
                                {finish.buf} \ {None})
    <3>1. server = "running"  BY <2>1, <2>2 DEF BaseInv, HandlerInv, TypeOK
    <3>2. PICK lost \in SUBSET Bufs : SrvHeld(lost)
      BY <2>1, <3>1 DEF SrvKept
    <3>3. Len(echoSent) + Carried = Len(reqRcvd)
      BY <2>1, <2>2 DEF BaseInv, CountInv
    <3>4. lost = {}  BY <3>2, <3>3 DEF SrvHeld
    <3>5. PoolKept(srvFree, srvSize, (Handled \cup Sending) \ {finish.buf},
                   {finish.buf} \ {None})
      <4>1. Handled \cup Sending \cup lost = Handled \cup Sending  BY <3>4
      <4>. QED  BY <3>2, <4>1 DEF SrvHeld
    <3>. QED
      BY <3>5 DEF PoolKept, Elements, Bufs, Pools, SrvBuf!Conserved,
                  SrvBuf!Members
  <2>3. CltBuf!Conserved(IF crcv.step \in {1, 2} THEN {crcv.buf} ELSE {},
                         IF crcv.step = 3 THEN {crcv.buf} ELSE {})
    <3>1. PICK O, T : /\ O = IF crcv.step \in {1, 2} THEN {crcv.buf} ELSE {}
                      /\ T = IF crcv.step = 3 THEN {crcv.buf} ELSE {}
      OBVIOUS
    <3>2. PoolKept(cltFree, cltSize, O, T)  BY <2>1, <3>1 DEF CltKept
    <3>3. CltBuf!Conserved(O, T)
      BY <3>2, SamePools DEF PoolKept, Elements, CltBuf!Conserved,
                             CltBuf!Members
    <3>. QED  BY <3>1, <3>3
  <2>. QED  BY <2>2, <2>3 DEF BuffersConserved
<1>2. Spec => []SampleInv  BY SampleInvariant
<1>. QED  BY <1>1, <1>2, PTL

(* With two buffers or more in a pool (there are 1024) neither program     *)
(* runs out of them or uses one it has released: the asserts of FixMem     *)
(* hold, also when the connection ends in the middle.                      *)
THEOREM SamplePools ==
  ASSUME NumBufs >= 2
  PROVE  Spec => []PoolsSuffice
PROOF
<1>1. SampleInv => PoolsSuffice  BY DEF SampleInv, PoolsSuffice
<1>2. Spec => []SampleInv  BY SampleInvariant
<1>. QED  BY <1>1, <1>2, PTL

=============================================================================
