----------------------------- MODULE BufferPool ------------------------------
(***************************************************************************)
(* The buffer manager of FixMem.cpp: three pools of fixed-size buffers and *)
(* the heap.  Allocate runs on the thread that receives, Dispose on the    *)
(* thread that sends; only the queue m_free of a pool (external) is safe   *)
(* for both, so Release is two steps.                                      *)
(***************************************************************************)
EXTENDS Integers, Sequences

CONSTANTS
  NumBufs,     (* buffers of a pool, NUM_BUFS; bound on the heap's         *)
  SmallLimit,  (* BUF_SIZE of the three pools                              *)
  MidLimit,
  BigLimit

VARIABLES
  free,   (* m_free of each pool                                           *)
  size    (* m_size of each buffer, 0 while it is released                 *)

Pools   == {"small", "mid", "big"}
Buffers == (Pools \cup {"heap"}) \X (1 .. NumBufs)

PoolInit ==
  /\ free = [p \in Pools |-> [i \in 1 .. NumBufs |-> <<p, i>>]]
  /\ size = [b \in Buffers |-> 0]

(* FixedBufManager::Allocate: the first pool that serves the request.      *)
PoolFor(blob, alignment) ==
  CASE blob <= SmallLimit /\ alignment <= SmallLimit -> "small"
    [] blob <= MidLimit /\ alignment <= MidLimit     -> "mid"
    [] blob <= BigLimit /\ alignment <= BigLimit     -> "big"
    [] OTHER                                         -> "heap"

Limit(pool) == CASE pool = "small" -> SmallLimit
                 [] pool = "mid"   -> MidLimit
                 [] pool = "big"   -> BigLimit

(* The assertions of SmallBufferPool::Allocate, and malloc's.              *)
CanAllocate(blob, alignment) ==
  LET p == PoolFor(blob, alignment)
  IN  p # "heap" => /\ blob > 0 /\ blob <= Limit(p)
                    /\ free[p] # <<>>

(* Allocate hands out b.  From m_free.Get on the buffer is the caller's.   *)
Allocate(b, blob, alignment) ==
  /\ b[1] = PoolFor(blob, alignment)
  /\ IF b[1] = "heap"
       THEN size[b] = 0 /\ UNCHANGED free
       ELSE /\ free[b[1]] # <<>> /\ b = Head(free[b[1]])
            /\ free' = [free EXCEPT ![b[1]] = Tail(@)]
  /\ size' = [size EXCEPT ![b] = blob]

(* Slip: the buffer is in the pool before it is cleared.                   *)
ReleaseSwapped(b, step) ==
  \/ /\ step = 1 /\ b[1] # "heap"
     /\ free' = [free EXCEPT ![b[1]] = Append(@, b)]
     /\ UNCHANGED size
  \/ /\ step = 1 /\ b[1] = "heap"
     /\ UNCHANGED <<free, size>>
  \/ /\ step = 2
     /\ size' = [size EXCEPT ![b] = 0]
     /\ UNCHANGED free

(* Release of a pool: first the fields are cleared, then m_free.Add.       *)
(* HeapBuffer::Dispose: _aligned_free.                                     *)
Release(b, step) ==
  \/ /\ step = 1 /\ b[1] # "heap"
     /\ size' = [size EXCEPT ![b] = 0]
     /\ UNCHANGED free
  \/ /\ step = 1 /\ b[1] = "heap"
     /\ UNCHANGED <<free, size>>
  \/ /\ step = 2 /\ b[1] # "heap"
     /\ free' = [free EXCEPT ![b[1]] = Append(@, b)]
     /\ UNCHANGED size
  \/ /\ step = 2 /\ b[1] = "heap"
     /\ size' = [size EXCEPT ![b] = 0]
     /\ UNCHANGED free

(* GetData and Release assert it ("Access Released Buffer!", "Double       *)
(* buffer release detected!").                                             *)
InUse(b) == size[b] # 0

-----------------------------------------------------------------------------

Members(q) == {q[i] : i \in DOMAIN q}

(* With the buffers in owned, and those being released in transit: every   *)
(* other pooled buffer is free, once, and cleared.                         *)
Conserved(owned, transit) ==
  /\ \A b \in owned : size[b] # 0
  /\ \A b \in transit : b[1] # "heap" => size[b] = 0
  /\ \A b \in Buffers \ (owned \cup transit) : size[b] = 0
  /\ \A p \in Pools :
       /\ \A i, j \in DOMAIN free[p] : free[p][i] = free[p][j] => i = j
       /\ Members(free[p]) = {b \in Buffers : b[1] = p} \ (owned \cup transit)

=============================================================================
