----------------------------- MODULE PoolQueue ------------------------------
(***************************************************************************)
(* A pool in a queue (m_sockPool and m_connPool): an object is taken from  *)
(* the front and put back at the end.  SocketTable and TerminalSetup keep  *)
(* their pools in such queues; the lemmas are used in the proofs of both.  *)
(***************************************************************************)
EXTENDS Integers, Sequences, TLAPS, FiniteSetTheorems

(* What is in the pool, and that nothing is in it twice.                   *)
Members(q)  == {q[i] : i \in DOMAIN q}
Distinct(q) == \A i, j \in DOMAIN q : q[i] = q[j] => i = j

(* An element put back at the end of a pool.                               *)
LEMMA PoolAppend ==
  ASSUME NEW S, NEW q \in Seq(S), NEW x \in S
  PROVE  /\ Append(q, x) \in Seq(S)
         /\ Members(Append(q, x)) = Members(q) \cup {x}
         /\ Distinct(q) /\ x \notin Members(q) => Distinct(Append(q, x))
PROOF
<1>. DEFINE n == Len(q)
            r == Append(q, x)
<1>1. n \in Nat /\ DOMAIN q = 1 .. n  OBVIOUS
<1>2. /\ r \in Seq(S) /\ DOMAIN r = 1 .. (n + 1) /\ r[n + 1] = x
      /\ \A i \in 1 .. n : r[i] = q[i]
  OBVIOUS
<1>. HIDE DEF n, r
<1>3. 1 .. (n + 1) = (1 .. n) \cup {n + 1}  BY <1>1
<1>4. Members(r) = Members(q) \cup {x}
  <2>1. ASSUME NEW y \in Members(r)  PROVE y \in Members(q) \cup {x}
    <3>1. PICK i \in 1 .. (n + 1) : y = r[i]  BY <1>2, <2>1 DEF Members
    <3>. QED  BY <1>1, <1>2, <1>3, <3>1 DEF Members
  <2>2. ASSUME NEW y \in Members(q)  PROVE y \in Members(r)
    <3>1. PICK i \in 1 .. n : y = q[i]  BY <1>1, <2>2 DEF Members
    <3>. QED  BY <1>2, <1>3, <3>1 DEF Members
  <2>3. x \in Members(r)  BY <1>1, <1>2, <1>3 DEF Members
  <2>. QED  BY <2>1, <2>2, <2>3
<1>5. ASSUME Distinct(q), x \notin Members(q)  PROVE Distinct(r)
  <2>1. \A i \in 1 .. n : q[i] # x  BY <1>1, <1>5 DEF Members
  <2>2. \A i \in 1 .. (n + 1) : i \in 1 .. n \/ i = n + 1  BY <1>1
  <2>3. ASSUME NEW i \in 1 .. (n + 1), NEW j \in 1 .. (n + 1), r[i] = r[j]
        PROVE  i = j
    BY <1>1, <1>2, <1>5, <2>1, <2>2, <2>3 DEF Distinct
  <2>. QED  BY <1>2, <2>3 DEF Distinct
<1>. QED  BY <1>2, <1>4, <1>5 DEF r

(* An element taken from the front of a pool.                              *)
LEMMA PoolTail ==
  ASSUME NEW S, NEW q \in Seq(S), q # <<>>, Distinct(q)
  PROVE  /\ Tail(q) \in Seq(S)
         /\ Head(q) \in S
         /\ Head(q) \in Members(q)
         /\ Members(Tail(q)) = Members(q) \ {Head(q)}
         /\ Distinct(Tail(q))
PROOF
<1>1. Len(q) \in Nat /\ Len(q) > 0 /\ DOMAIN q = 1 .. Len(q)  OBVIOUS
<1>2. Tail(q) \in Seq(S) /\ DOMAIN Tail(q) = 1 .. (Len(q) - 1)
      /\ \A i \in 1 .. (Len(q) - 1) : Tail(q)[i] = q[i + 1]
  BY <1>1
<1>3. Head(q) = q[1] /\ Head(q) \in S /\ Head(q) \in Members(q)
  BY <1>1 DEF Members
<1>4. Distinct(Tail(q))  BY <1>1, <1>2 DEF Distinct
<1>5. ASSUME NEW x \in Members(Tail(q)) PROVE x \in Members(q) \ {Head(q)}
  BY <1>1, <1>2, <1>3, <1>5 DEF Members, Distinct
<1>6. ASSUME NEW x \in Members(q) \ {Head(q)} PROVE x \in Members(Tail(q))
  <2>1. PICK i \in 1 .. Len(q) : x = q[i]  BY <1>1 DEF Members
  <2>2. i - 1 \in 1 .. (Len(q) - 1)  BY <1>1, <1>3, <2>1
  <2>3. Tail(q)[i - 1] = x  BY <1>2, <2>1, <2>2
  <2>. QED  BY <1>2, <2>2, <2>3 DEF Members
<1>. QED  BY <1>2, <1>3, <1>4, <1>5, <1>6

(* An element taken and given back at once.                                *)
LEMMA PoolRotate ==
  ASSUME NEW S, NEW q \in Seq(S), q # <<>>, Distinct(q)
  PROVE  /\ Append(Tail(q), Head(q)) \in Seq(S)
         /\ Members(Append(Tail(q), Head(q))) = Members(q)
         /\ Distinct(Append(Tail(q), Head(q)))
PROOF
<1>1. /\ Tail(q) \in Seq(S) /\ Head(q) \in S /\ Head(q) \in Members(q)
      /\ Members(Tail(q)) = Members(q) \ {Head(q)} /\ Distinct(Tail(q))
  BY PoolTail
<1>2. Head(q) \notin Members(Tail(q))  BY <1>1
<1>3. Members(Tail(q)) \cup {Head(q)} = Members(q)  BY <1>1
<1>. DEFINE r == Tail(q)
            x == Head(q)
<1>. HIDE DEF r, x
<1>4. r \in Seq(S) /\ x \in S /\ x \notin Members(r) /\ Distinct(r)
      /\ Members(r) \cup {x} = Members(q)
  BY <1>1, <1>2, <1>3 DEF r, x
<1>5. Append(r, x) \in Seq(S)  BY <1>4, PoolAppend
<1>6. Distinct(Append(r, x))  BY <1>4, PoolAppend
<1>7. Members(Append(r, x)) = Members(r) \cup {x}  BY <1>4, PoolAppend
<1>. QED  BY <1>4, <1>5, <1>6, <1>7 DEF r, x

(* A pool that holds everything and nothing else holds each once.          *)
LEMMA FullPool ==
  ASSUME NEW S, IsFiniteSet(S), NEW q \in [1 .. Cardinality(S) -> S],
         \A x \in S : \E i \in DOMAIN q : q[i] = x
  PROVE  q \in Seq(S) /\ Distinct(q) /\ Members(q) = S
PROOF
<1>1. Cardinality(S) \in Nat  BY FS_CardinalityType
<1>2. /\ IsFiniteSet(1 .. Cardinality(S))
      /\ Cardinality(1 .. Cardinality(S)) = Cardinality(S)
  BY <1>1, FS_Interval
<1>3. DOMAIN q = 1 .. Cardinality(S)  OBVIOUS
<1>4. q \in Surjection(1 .. Cardinality(S), S)  BY <1>3 DEF Surjection
<1>5. q \in Injection(1 .. Cardinality(S), S)
  BY <1>2, <1>4, FS_SurjSameCardinalityImpliesInj
<1>6. Distinct(q)
  <2>1. \A i, j \in 1 .. Cardinality(S) : q[i] = q[j] => i = j
    BY <1>3, <1>5 DEF Injection, IsInjective
  <2>. QED  BY <1>3, <2>1 DEF Distinct
<1>7. Members(q) = S  BY <1>3 DEF Members
<1>. QED  BY <1>1, <1>6, <1>7

=============================================================================
