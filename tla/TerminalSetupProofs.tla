------------------------ MODULE TerminalSetupProofs ------------------------
(***************************************************************************)
(* Theorems about TerminalSetup for every number of terminals, threads,    *)
(* overlapped objects and attempts, with or without a pool of queue pairs. *)
(***************************************************************************)
EXTENDS TerminalSetup, FiniteSetTheorems, SequenceTheorems

-----------------------------------------------------------------------------
(* The inductive invariant.                                                *)

CallKinds == {"accept", "Connect"}
RegKinds  == {"tag", "mem"}

FramesIn(st) == { st[i] : i \in DOMAIN st }

(* What all threads are in.                                                *)
Frames == UNION { FramesIn(st) : st \in threads }

(* A call the user is still in, rather than a handler run by its thread.   *)
Active(f) == f.op.kind \in CallKinds /\ f.pc # "return"

(* Two frames never stand for the same operation, or for two calls of the  *)
(* same allocation.                                                        *)
Clash(x, y) ==
  x = y \/ (x.kind \in CallKinds /\ y.kind \in CallKinds /\ x.att = y.att)

FramesApart == \A f, g \in Frames : Clash(f.op, g.op) => f = g

StacksApart ==
  /\ \A st \in threads : \A i, j \in DOMAIN st :
       Clash(st[i].op, st[j].op) => i = j
  /\ \A s1, s2 \in threads : \A f \in FramesIn(s1), g \in FramesIn(s2) :
       Clash(f.op, g.op) => s1 = s2

(* A handler holds its overlapped object until it returns.                 *)
HandlersHold ==
  \A f \in Frames :
    IF f.op.kind \in CallKinds
      THEN /\ f.pc \in {"regions", "regMem", "issue", "shake", "return"}
           /\ f.op.att <= allocs
      ELSE /\ f.pc \in {"run", "wait", "shake", "free"}
           /\ f.op \in ops

(* The handler has made its last call, which returned at once.             *)
Freeing(op) == Frame("free", op) \in Frames

(* The operations of one attempt follow each other.                        *)
Rank(kind) == CASE kind \in {"connReq", "connect"} -> 1
                [] kind = "agree"                  -> 2
                [] OTHER                           -> 3

(* The call the terminal is waiting for, or whose handler decides what     *)
(* becomes of it.                                                          *)
Current(op) == op.kind \notin RegKinds \cup {"notify"} /\ ~ Freeing(op)

NoDuplicates == Distinct(connPool)

(* Terminals in the pool.                                                  *)
PoolClean ==
  \A t \in Pooled :
    /\ ~ term[t].edges /\ term[t].nd = {}
    /\ ~ term[t].started /\ term[t].closer = "none"

(* Operations of terminals in use.                                         *)
OpsCurrent ==
  \A op \in ops :
    /\ op.att <= allocs
    /\ op.kind \notin RegKinds =>
         op.t \notin Pooled /\ op.att = term[op.t].att
    /\ op.kind \in {"notify", "agree", "disc"} => term[op.t].started
    /\ op.kind = "connReq" =>
         (term[op.t].started <=> Freeing(op) \/ Frame("shake", op) \in Frames)
    /\ Current(op) => term[op.t].closer = "none"

OneCurrent ==
  \A x, y \in ops : x.t = y.t /\ Current(x) /\ Current(y) => x = y

(* Handlers on their way out come before the current call.                 *)
FreeingOrder ==
  /\ \A op \in ops : Freeing(op) =>
       op.kind \in {"connReq", "connect", "agree"} /\ term[op.t].started
  /\ \A x, y \in ops :
       x.t = y.t /\ Freeing(x) /\ Current(y) => Rank(x.kind) < Rank(y.kind)

(* A terminal a user is setting up.                                        *)
ActiveOwns ==
  \A f \in Frames : Active(f) =>
    /\ f.op.t \notin Pooled
    /\ f.op.att = term[f.op.t].att
    /\ ~ term[f.op.t].started /\ term[f.op.t].closer = "none"
    /\ \A op \in ops : op.t = f.op.t /\ op.kind \notin RegKinds =>
         f.pc = "shake" /\ op = Op("connect", f.op)
    /\ f.pc = "shake" =>
         /\ f.op.kind = "Connect" /\ Op("connect", f.op) \in ops
         /\ \A g \in Frames : g.op # Op("connect", f.op)

AttBound == \A t \in Terms : term[t].att <= allocs

(* The registration of the tag region for allocation att is over.          *)
TagOver(t, att) ==
  /\ att <= allocs
  /\ [kind |-> "tag", t |-> t, att |-> att] \notin ops
  /\ \A f \in Frames : f.op.kind \in CallKinds /\ f.pc = "regions" =>
       f.op.t # t \/ f.op.att # att

MemOver(t, att) ==
  /\ att <= allocs
  /\ [kind |-> "mem", t |-> t, att |-> att] \notin ops
  /\ \A f \in Frames :
       f.op.kind \in CallKinds /\ f.pc \in {"regions", "regMem"} =>
         f.op.t # t \/ f.op.att # att

(* Regions are registered once per allocation.                             *)
RegionsOnce ==
  /\ \A op \in ops, f \in Frames :
       /\ f.op.kind \in CallKinds
       /\ \/ op.kind = "tag" /\ f.pc = "regions"
          \/ op.kind = "mem" /\ f.pc \in {"regions", "regMem"}
       => f.op.t # op.t \/ f.op.att # op.att
  /\ \A t \in Terms, a \in 1 .. MaxAtt :
       /\ term[t].tag = a => TagOver(t, a)
       /\ term[t].mem = a => MemOver(t, a)
  /\ \A x \in handed : TagOver(x.t, x.tag) /\ MemOver(x.t, x.mem)

(* The tokens of t are out: only its closer ends this use of it.           *)
Late(t) ==
  /\ t \notin Pooled
  /\ \A f \in Frames : Active(f) => f.op.t # t
  /\ \A op \in ops : op.t = t /\ op.kind = "connReq" => Freeing(op)

HandedLate ==
  \A x \in handed :
    x.tag = term[x.t].tag \/ x.mem = term[x.t].mem =>
      x.att = term[x.t].att /\ Late(x.t)

NdWhole == \A t \in Terms : term[t].nd \in {{}, NdObjects}

-----------------------------------------------------------------------------
(* Stacks.                                                                 *)

FrameSet == [pc : Labels, op : Ops \cup Calls]

(* No operation is on the stack twice.                                     *)
Separate(st) ==
  \A i, j \in DOMAIN st : Clash(st[i].op, st[j].op) => i = j

StacksOK ==
  /\ \A st \in threads : st # <<>> /\ st \in Seq(FrameSet)
  /\ StacksApart

(* Clashing is symmetric.                                                  *)
LEMMA ClashSym ==
  ASSUME NEW x, NEW y, Clash(x, y)
  PROVE  Clash(y, x)
PROOF BY DEF Clash

(* A frame is its label and its operation.                                 *)
LEMMA FrameIs ==
  /\ \A f \in FrameSet : f = Frame(f.pc, f.op)
  /\ \A pc \in Labels, op \in Ops \cup Calls :
       /\ Frame(pc, op) \in FrameSet
       /\ Frame(pc, op).pc = pc /\ Frame(pc, op).op = op
PROOF BY DEF FrameSet, Frame

(* A call or a handler goes on top of a stack ...                          *)
LEMMA PushFacts ==
  ASSUME NEW s \in Seq(FrameSet), NEW f \in FrameSet
  PROVE  /\ Append(s, f) \in Seq(FrameSet) /\ Append(s, f) # <<>>
         /\ FramesIn(Append(s, f)) = FramesIn(s) \cup {f}
         /\ Top(Append(s, f)) = f /\ Pop(Append(s, f)) = s
         /\ Separate(s) /\ (\A g \in FramesIn(s) : ~ Clash(g.op, f.op))
              => Separate(Append(s, f))
PROOF
<1>. DEFINE n == Len(s)
<1>1. n \in Nat /\ DOMAIN s = 1 .. n  BY LenProperties
<1>2. /\ Append(s, f) \in Seq(FrameSet)
      /\ Len(Append(s, f)) = n + 1 /\ DOMAIN Append(s, f) = 1 .. n + 1
      /\ \A i \in 1 .. n : Append(s, f)[i] = s[i]
      /\ Append(s, f)[n + 1] = f
  BY AppendProperties, LenProperties
<1>. HIDE DEF n
<1>3. Append(s, f) # <<>>
  <2>1. Len(<<>>) = 0  OBVIOUS
  <2>2. n + 1 # 0  BY <1>1
  <2>. QED  BY <1>2, <2>1, <2>2
<1>4. FramesIn(Append(s, f)) = FramesIn(s) \cup {f}
  <2>1. 1 .. n + 1 = (1 .. n) \cup {n + 1}  BY <1>1
  <2>. QED  BY <1>1, <1>2, <2>1 DEF FramesIn
<1>5. Top(Append(s, f)) = f  BY <1>2 DEF Top
<1>6. Pop(Append(s, f)) = s
  <2>1. Pop(Append(s, f)) = SubSeq(Append(s, f), 1, n)
    BY <1>1, <1>2 DEF Pop
  <2>2. \A i \in 1 .. n : Append(s, f)[i] \in FrameSet
    BY <1>1, <1>2, ElementOfSeq DEF n
  <2>3. /\ SubSeq(Append(s, f), 1, n) \in Seq(FrameSet)
        /\ Len(SubSeq(Append(s, f), 1, n)) = n
        /\ \A i \in 1 .. n : SubSeq(Append(s, f), 1, n)[i] = s[i]
    BY <1>1, <1>2, <2>2, SubSeqProperties
  <2>. QED  BY <2>1, <2>3, SeqEqual DEF n
<1>7. ASSUME Separate(s), \A g \in FramesIn(s) : ~ Clash(g.op, f.op)
      PROVE  Separate(Append(s, f))
  <2>. SUFFICES ASSUME NEW i \in 1 .. n + 1, NEW j \in 1 .. n + 1,
                       Clash(Append(s, f)[i].op, Append(s, f)[j].op)
                PROVE  i = j
    BY <1>2 DEF Separate
  <2>1. \A k \in 1 .. n : ~ Clash(s[k].op, f.op) /\ ~ Clash(f.op, s[k].op)
    BY <1>1, <1>7, ClashSym DEF FramesIn
  <2>2. CASE i \in 1 .. n /\ j \in 1 .. n
    BY <1>1, <1>2, <1>7, <2>2 DEF Separate
  <2>3. CASE i \in 1 .. n /\ j = n + 1  BY <1>2, <2>1, <2>3
  <2>4. CASE i = n + 1 /\ j \in 1 .. n  BY <1>2, <2>1, <2>4
  <2>5. CASE i = n + 1 /\ j = n + 1  BY <2>5
  <2>. QED  BY <1>1, <2>2, <2>3, <2>4, <2>5
<1>. QED  BY <1>2, <1>3, <1>4, <1>5, <1>6, <1>7

(* ... and a stack is a stack with its top on it.                          *)
LEMMA PopFacts ==
  ASSUME NEW s \in Seq(FrameSet), s # <<>>
  PROVE  /\ Pop(s) \in Seq(FrameSet) /\ Top(s) \in FrameSet
         /\ s = Append(Pop(s), Top(s))
         /\ FramesIn(s) = FramesIn(Pop(s)) \cup {Top(s)}
         /\ Separate(s) => /\ Separate(Pop(s))
                           /\ \A g \in FramesIn(Pop(s)) :
                                ~ Clash(g.op, Top(s).op)
PROOF
<1>. DEFINE n == Len(s)
            p == Pop(s)
<1>1. n \in Nat \ {0} /\ DOMAIN s = 1 .. n  BY EmptySeq, LenProperties
<1>2. \A i \in 1 .. n : s[i] \in FrameSet  BY ElementOfSeq
<1>. HIDE DEF n
<1>3. /\ p \in Seq(FrameSet) /\ Len(p) = n - 1
      /\ \A i \in 1 .. n - 1 : p[i] = s[i]
  BY <1>1, <1>2, SubSeqProperties DEF Pop, n
<1>4. Top(s) \in FrameSet /\ Top(s) = s[n]  BY <1>1, <1>2 DEF Top, n
<1>. HIDE DEF p
<1>5. s = Append(p, Top(s))
  <2>1. /\ Append(p, Top(s)) \in Seq(FrameSet)
        /\ Len(Append(p, Top(s))) = n
        /\ \A i \in 1 .. n - 1 : Append(p, Top(s))[i] = p[i]
        /\ Append(p, Top(s))[n] = Top(s)
    BY <1>1, <1>3, <1>4, AppendProperties
  <2>2. \A i \in 1 .. n : i \in 1 .. n - 1 \/ i = n  BY <1>1
  <2>3. \A i \in 1 .. n : s[i] = Append(p, Top(s))[i]
    BY <1>3, <1>4, <2>1, <2>2
  <2>. QED  BY <2>1, <2>3, SeqEqual DEF n
<1>6. FramesIn(s) = FramesIn(p) \cup {Top(s)}
  BY <1>3, <1>4, <1>5, PushFacts
<1>7. ASSUME Separate(s)
      PROVE  Separate(p) /\ \A g \in FramesIn(p) : ~ Clash(g.op, Top(s).op)
  <2>1. DOMAIN p = 1 .. n - 1  BY <1>3, LenProperties
  <2>2. 1 .. n - 1 \subseteq 1 .. n /\ n \in 1 .. n /\ n \notin 1 .. n - 1
    BY <1>1
  <2>. QED  BY <1>1, <1>3, <1>4, <1>7, <2>1, <2>2 DEF Separate, FramesIn
<1>. QED  BY <1>3, <1>4, <1>5, <1>6, <1>7 DEF p

(* The empty stack.                                                        *)
LEMMA NoFrames ==
  <<>> \in Seq(FrameSet) /\ FramesIn(<<>>) = {} /\ Separate(<<>>)
PROOF BY DEF FramesIn, Separate

(* StacksApart in terms of Separate.                                       *)
LEMMA ApartIs ==
  StacksApart <=>
    /\ \A st \in threads : Separate(st)
    /\ \A s1, s2 \in threads : \A f \in FramesIn(s1), g \in FramesIn(s2) :
         Clash(f.op, g.op) => s1 = s2
PROOF BY DEF StacksApart, Separate

(* What a thread that goes from st to st2 leaves of the frames.            *)
LEMMA GoFrames ==
  ASSUME StacksOK, NEW st, st = <<>> \/ st \in threads,
         NEW st2 \in Seq(FrameSet), Separate(st2),
         \A s \in threads \ {st} : \A f \in FramesIn(st2), g \in FramesIn(s) :
           ~ Clash(f.op, g.op),
         Go(st, st2)
  PROVE  /\ StacksOK'
         /\ \A f \in Frames' :
              \/ f \in FramesIn(st2)
              \/ \E s \in threads \ {st} : f \in FramesIn(s)
         /\ \A f \in FramesIn(st2) : f.pc # "return" => f \in Frames'
         /\ \A s \in threads \ {st} : FramesIn(s) \subseteq Frames'
PROOF
<1>. DEFINE rest == IF st2 # <<>> /\ Top(st2).pc = "return" THEN Pop(st2)
                    ELSE st2
            keep == threads \ {st}
<1>1. threads' = keep \cup ({rest} \ {<<>>})  BY DEF Go
<1>2. /\ rest \in Seq(FrameSet) /\ Separate(rest)
      /\ FramesIn(rest) \subseteq FramesIn(st2)
      /\ \A f \in FramesIn(st2) : f.pc # "return" => f \in FramesIn(rest)
  BY PopFacts
<1>. HIDE DEF rest
<1>3. \A s \in keep : s # <<>> /\ s \in Seq(FrameSet) /\ Separate(s)
  BY ApartIs DEF StacksOK
<1>4. \A s1, s2 \in keep : \A f \in FramesIn(s1), g \in FramesIn(s2) :
        Clash(f.op, g.op) => s1 = s2
  BY ApartIs DEF StacksOK
<1>5. \A s \in keep : \A f \in FramesIn(rest), g \in FramesIn(s) :
        ~ Clash(f.op, g.op) /\ ~ Clash(g.op, f.op)
  BY <1>2, ClashSym
<1>. HIDE DEF keep
<1>6. StacksOK'
  <2>1. \A s \in threads' : s # <<>> /\ s \in Seq(FrameSet) /\ Separate(s)
    BY <1>1, <1>2, <1>3
  <2>2. \A s1, s2 \in threads' : \A f \in FramesIn(s1), g \in FramesIn(s2) :
          Clash(f.op, g.op) => s1 = s2
    BY <1>1, <1>4, <1>5
  <2>3. StacksApart'  BY <2>1, <2>2 DEF StacksApart, Separate
  <2>. QED  BY <2>1, <2>3 DEF StacksOK
<1>7. \A f : f \in Frames' <=> \E s \in threads' : f \in FramesIn(s)
  BY DEF Frames
<1>8. FramesIn(rest) \subseteq Frames'
  <2>1. CASE rest = <<>>  BY <2>1, NoFrames
  <2>2. CASE rest # <<>>  BY <1>1, <1>7, <2>2
  <2>. QED  BY <2>1, <2>2
<1>9. \A s \in keep : FramesIn(s) \subseteq Frames'  BY <1>1, <1>7
<1>10. \A f \in Frames' :
         f \in FramesIn(st2) \/ \E s \in keep : f \in FramesIn(s)
  BY <1>1, <1>2, <1>7
<1>. QED  BY <1>2, <1>6, <1>8, <1>9, <1>10 DEF keep

(* op is on top of st, or is not on any stack and st is a free IOCP thread.*)
At(st, op) ==
  IF st = <<>> THEN \A f \in Frames : ~ Clash(f.op, op)
               ELSE st \in threads /\ Top(st).op = op

Others(op) == { f \in Frames : f.op # op }

(* The frames of op are replaced by the set new; only frames of a call     *)
(* that returns go with them.                                              *)
Become(op, new) ==
  /\ Frames' \subseteq Others(op) \cup new
  /\ \A f \in Others(op) \cup new : f.pc # "return" => f \in Frames'

(* What a handler or call finds below itself and in other threads.         *)
LEMMA BelowFacts ==
  ASSUME StacksOK, NEW st, NEW op, At(st, op)
  PROVE  /\ st = <<>> \/ st \in threads
         /\ Below(st) \in Seq(FrameSet) /\ Separate(Below(st))
         /\ FramesIn(Below(st)) \subseteq Others(op)
         /\ \A s \in threads \ {st} : FramesIn(s) \subseteq Others(op)
         /\ \A f \in Others(op) :
              /\ ~ Clash(f.op, op)
              /\ \/ f \in FramesIn(Below(st))
                 \/ \E s \in threads \ {st} : f \in FramesIn(s)
         /\ \A s \in threads \ {st} :
              \A f \in FramesIn(Below(st)), g \in FramesIn(s) :
                ~ Clash(f.op, g.op)
PROOF
<1>1. \A f : f \in Frames <=> \E s \in threads : f \in FramesIn(s)
  BY DEF Frames
<1>2. \A s \in threads : s # <<>> /\ s \in Seq(FrameSet) /\ Separate(s)
  BY ApartIs DEF StacksOK
<1>3. \A s1, s2 \in threads : \A f \in FramesIn(s1), g \in FramesIn(s2) :
        Clash(f.op, g.op) => s1 = s2
  BY ApartIs DEF StacksOK
<1>4. \A x : Clash(x, x)  BY DEF Clash
<1>5. CASE st = <<>>
  <2>1. Below(st) = <<>>  BY <1>5 DEF Below
  <2>2. \A f \in Frames : ~ Clash(f.op, op)  BY <1>5 DEF At
  <2>3. Others(op) = Frames  BY <1>4, <2>2 DEF Others
  <2>. QED  BY <1>1, <1>2, <1>5, <2>1, <2>2, <2>3, NoFrames
<1>6. CASE st # <<>>
  <2>1. st \in threads /\ Top(st).op = op  BY <1>6 DEF At
  <2>2. Below(st) = Pop(st)  BY <1>6 DEF Below
  <2>3. /\ Pop(st) \in Seq(FrameSet) /\ Separate(Pop(st))
        /\ FramesIn(st) = FramesIn(Pop(st)) \cup {Top(st)}
        /\ \A g \in FramesIn(Pop(st)) : ~ Clash(g.op, op)
    BY <1>2, <2>1, PopFacts
  <2>4. \A s \in threads \ {st} : \A g \in FramesIn(s) : ~ Clash(g.op, op)
    BY <1>3, <2>1, <2>3
  <2>5. FramesIn(Pop(st)) \subseteq Others(op)
    BY <1>1, <1>4, <2>1, <2>3 DEF Others
  <2>6. \A s \in threads \ {st} : FramesIn(s) \subseteq Others(op)
    BY <1>1, <1>4, <2>4 DEF Others
  <2>7. \A f \in Others(op) :
          \/ f \in FramesIn(Pop(st))
          \/ \E s \in threads \ {st} : f \in FramesIn(s)
    BY <1>1, <2>1, <2>3 DEF Others
  <2>8. \A f \in Others(op) : ~ Clash(f.op, op)  BY <2>3, <2>4, <2>7
  <2>9. \A s \in threads \ {st} :
          \A f \in FramesIn(Pop(st)), g \in FramesIn(s) : ~ Clash(f.op, g.op)
    BY <1>3, <2>1, <2>3
  <2>. QED  BY <2>1, <2>2, <2>3, <2>5, <2>6, <2>7, <2>8, <2>9
<1>. QED  BY <1>5, <1>6

(* The handler returns.                                                    *)
LEMMA GoBelow ==
  ASSUME StacksOK, NEW st, NEW op, At(st, op), Go(st, Below(st))
  PROVE  StacksOK' /\ Become(op, {})
PROOF
<1>. DEFINE b == Below(st)
<1>1. /\ st = <<>> \/ st \in threads
      /\ b \in Seq(FrameSet) /\ Separate(b)
      /\ FramesIn(b) \subseteq Others(op)
      /\ \A s \in threads \ {st} : FramesIn(s) \subseteq Others(op)
      /\ \A f \in Others(op) :
           f \in FramesIn(b) \/ \E s \in threads \ {st} : f \in FramesIn(s)
      /\ \A s \in threads \ {st} : \A f \in FramesIn(b), g \in FramesIn(s) :
           ~ Clash(f.op, g.op)
  BY BelowFacts
<1>2. Go(st, b)  OBVIOUS
<1>. HIDE DEF b
<1>3. /\ StacksOK'
      /\ \A f \in Frames' :
           f \in FramesIn(b) \/ \E s \in threads \ {st} : f \in FramesIn(s)
      /\ \A f \in FramesIn(b) : f.pc # "return" => f \in Frames'
      /\ \A s \in threads \ {st} : FramesIn(s) \subseteq Frames'
  BY <1>1, <1>2, GoFrames
<1>. QED  BY <1>1, <1>3 DEF Become

(* The call or handler goes on at pc.                                      *)
LEMMA GoMove ==
  ASSUME StacksOK, NEW st, NEW op \in Ops \cup Calls, At(st, op),
         NEW pc \in Labels, Go(st, Append(Below(st), Frame(pc, op)))
  PROVE  StacksOK' /\ Become(op, {Frame(pc, op)})
PROOF
<1>. DEFINE b == Below(st)
            f1 == Frame(pc, op)
            st2 == Append(b, f1)
<1>1. /\ st = <<>> \/ st \in threads
      /\ b \in Seq(FrameSet) /\ Separate(b)
      /\ FramesIn(b) \subseteq Others(op)
      /\ \A s \in threads \ {st} : FramesIn(s) \subseteq Others(op)
      /\ \A f \in Others(op) :
           /\ ~ Clash(f.op, op) /\ ~ Clash(op, f.op)
           /\ f \in FramesIn(b) \/ \E s \in threads \ {st} : f \in FramesIn(s)
      /\ \A s \in threads \ {st} : \A f \in FramesIn(b), g \in FramesIn(s) :
           ~ Clash(f.op, g.op)
  BY BelowFacts, ClashSym
<1>2. f1 \in FrameSet /\ f1.op = op /\ Go(st, st2)  BY FrameIs
<1>. HIDE DEF b, f1
<1>3. /\ st2 \in Seq(FrameSet) /\ Separate(st2)
      /\ FramesIn(st2) = FramesIn(b) \cup {f1}
  BY <1>1, <1>2, PushFacts
<1>4. \A s \in threads \ {st} : \A f \in FramesIn(st2), g \in FramesIn(s) :
        ~ Clash(f.op, g.op)
  BY <1>1, <1>2, <1>3
<1>. HIDE DEF st2
<1>5. /\ StacksOK'
      /\ \A f \in Frames' :
           f \in FramesIn(st2) \/ \E s \in threads \ {st} : f \in FramesIn(s)
      /\ \A f \in FramesIn(st2) : f.pc # "return" => f \in Frames'
      /\ \A s \in threads \ {st} : FramesIn(s) \subseteq Frames'
  BY <1>1, <1>2, <1>3, <1>4, GoFrames
<1>6. Become(op, {f1})  BY <1>1, <1>3, <1>5 DEF Become
<1>. QED  BY <1>5, <1>6 DEF f1

(* The call n returned at once: its handler runs above its caller.         *)
LEMMA GoPush ==
  ASSUME StacksOK, NEW st, NEW op \in Ops \cup Calls, At(st, op),
         NEW pc \in Labels, NEW n \in Ops, ~ Clash(op, n),
         \A f \in Frames : ~ Clash(f.op, n),
         Go(st, Append(Append(Below(st), Frame(pc, op)), Frame("run", n)))
  PROVE  StacksOK' /\ Become(op, {Frame(pc, op), Frame("run", n)})
PROOF
<1>. DEFINE b == Below(st)
            f1 == Frame(pc, op)
            f2 == Frame("run", n)
            st1 == Append(b, f1)
            st2 == Append(st1, f2)
<1>1. /\ st = <<>> \/ st \in threads
      /\ b \in Seq(FrameSet) /\ Separate(b)
      /\ FramesIn(b) \subseteq Others(op)
      /\ \A s \in threads \ {st} : FramesIn(s) \subseteq Others(op)
      /\ \A f \in Others(op) :
           /\ ~ Clash(f.op, op) /\ ~ Clash(op, f.op)
           /\ f \in FramesIn(b) \/ \E s \in threads \ {st} : f \in FramesIn(s)
      /\ \A s \in threads \ {st} : \A f \in FramesIn(b), g \in FramesIn(s) :
           ~ Clash(f.op, g.op)
  BY BelowFacts, ClashSym
<1>2. /\ f1 \in FrameSet /\ f1.op = op /\ Go(st, st2)
      /\ f2 \in FrameSet /\ f2.op = n
  BY FrameIs DEF Labels
<1>3. \A f \in Others(op) : ~ Clash(f.op, n) /\ ~ Clash(n, f.op)
  BY ClashSym DEF Others
<1>. HIDE DEF b, f1, f2
<1>4. /\ st1 \in Seq(FrameSet) /\ Separate(st1)
      /\ FramesIn(st1) = FramesIn(b) \cup {f1}
  BY <1>1, <1>2, PushFacts
<1>. HIDE DEF st1
<1>5. \A g \in FramesIn(st1) : ~ Clash(g.op, f2.op)
  BY <1>1, <1>2, <1>3, <1>4
<1>6. /\ st2 \in Seq(FrameSet) /\ Separate(st2)
      /\ FramesIn(st2) = FramesIn(b) \cup {f1, f2}
  <2>1. /\ st2 \in Seq(FrameSet)
        /\ FramesIn(st2) = FramesIn(st1) \cup {f2}
        /\ Separate(st1) /\ (\A g \in FramesIn(st1) : ~ Clash(g.op, f2.op))
              => Separate(st2)
    BY <1>2, <1>4, PushFacts
  <2>. QED  BY <1>4, <1>5, <2>1
<1>. HIDE DEF st2
<1>7. \A s \in threads \ {st} : \A f \in FramesIn(st2), g \in FramesIn(s) :
        ~ Clash(f.op, g.op)
  BY <1>1, <1>2, <1>3, <1>6
<1>8. /\ StacksOK'
      /\ \A f \in Frames' :
           f \in FramesIn(st2) \/ \E s \in threads \ {st} : f \in FramesIn(s)
      /\ \A f \in FramesIn(st2) : f.pc # "return" => f \in Frames'
      /\ \A s \in threads \ {st} : FramesIn(s) \subseteq Frames'
  BY <1>1, <1>2, <1>6, <1>7, GoFrames
<1>9. Become(op, {f1, f2})  BY <1>1, <1>6, <1>8 DEF Become
<1>. QED  BY <1>8, <1>9 DEF f1, f2

(* To replaces the label of the frame on top.                              *)
LEMMA ToIs ==
  ASSUME StacksOK, NEW st \in threads, NEW pc \in Labels
  PROVE  To(st, pc) = Append(Below(st), Frame(pc, Top(st).op))
PROOF
<1>. DEFINE n == Len(st)
            f == Frame(pc, Top(st).op)
            p == Pop(st)
<1>1. st # <<>> /\ st \in Seq(FrameSet)  BY DEF StacksOK
<1>2. n \in Nat \ {0} /\ DOMAIN st = 1 .. n  BY <1>1, EmptySeq, LenProperties
<1>3. Below(st) = p /\ Top(st) \in FrameSet /\ p \in Seq(FrameSet)
      /\ st = Append(p, Top(st))
  BY <1>1, PopFacts DEF Below
<1>4. [Top(st) EXCEPT !.pc = pc] = f  BY <1>3 DEF FrameSet, Frame
<1>5. f \in FrameSet  BY <1>3, <1>4, FrameIs DEF FrameSet
<1>6. To(st, pc) = [st EXCEPT ![n] = f]  BY <1>4 DEF To, Top
<1>. HIDE DEF n, f, p
<1>7. Len(p) = n - 1 /\ \A i \in 1 .. n - 1 : p[i] = st[i]
  <2>1. Len(st) = Len(p) + 1 /\ \A i \in 1 .. Len(p) : st[i] = p[i]
    BY <1>3, AppendProperties
  <2>2. Len(p) \in Nat  BY <1>3, LenProperties
  <2>3. Len(p) = n - 1  BY <2>1, <2>2 DEF n
  <2>. QED  BY <2>1, <2>3
<1>8. /\ [st EXCEPT ![n] = f] \in Seq(FrameSet)
      /\ Len([st EXCEPT ![n] = f]) = n
      /\ \A i \in 1 .. n : [st EXCEPT ![n] = f][i] = IF i = n THEN f ELSE st[i]
  BY <1>1, <1>2, <1>5, ExceptSeq DEF n
<1>9. /\ Append(p, f) \in Seq(FrameSet) /\ Len(Append(p, f)) = n
      /\ \A i \in 1 .. n - 1 : Append(p, f)[i] = p[i]
      /\ Append(p, f)[n] = f
  BY <1>2, <1>3, <1>5, <1>7, AppendProperties
<1>10. \A i \in 1 .. n : [st EXCEPT ![n] = f][i] = Append(p, f)[i]
  <2>1. \A i \in 1 .. n : i \in 1 .. n - 1 \/ i = n  BY <1>2
  <2>2. n \notin 1 .. n - 1  BY <1>2
  <2>. QED  BY <1>7, <1>8, <1>9, <2>1, <2>2
<1>11. [st EXCEPT ![n] = f] = Append(p, f)
  BY <1>8, <1>9, <1>10, SeqEqual
<1>. QED  BY <1>3, <1>6, <1>11 DEF f

-----------------------------------------------------------------------------
(* What the steps do to frames, operations and terminals, without stacks.  *)

FailedOK == failed \in Failures \cup {"no"}

DataOK ==
  /\ connPool \in Seq(Terms)
  /\ term \in [Terms -> [edges : BOOLEAN, nd : SUBSET NdObjects,
                         tag : 0 .. MaxAtt, mem : 0 .. MaxAtt,
                         started : BOOLEAN, att : 0 .. MaxAtt,
                         closer : {"none", "posted", "cancelled"}]]
  /\ ops \subseteq Ops
  /\ allocs \in 0 .. MaxAtt
  /\ live \subseteq Terms \X (0 .. MaxAtt) \X NdObjects
  /\ handed \subseteq [t : Terms, tag : 1 .. MaxAtt, mem : 1 .. MaxAtt,
                       att : 1 .. MaxAtt]

OpsInv  == HandlersHold /\ OpsCurrent /\ OneCurrent /\ FreeingOrder /\ ActiveOwns
PoolInv == NoDuplicates /\ PoolClean /\ NdWhole /\ NdReleased /\ AttBound
RegInv  == RegionsMatch /\ RegionsOnce /\ HandedLate /\ TokensNotShared

SetupInv == StacksOK /\ FailedOK /\ DataOK /\ OpsInv /\ PoolInv /\ RegInv

(* The types of TerminalSetup are DataOK and those of the stacks.          *)
LEMMA TypeIs ==
  TypeOK <=> /\ DataOK /\ FailedOK
             /\ \A st \in threads : st # <<>> /\ st \in Seq(FrameSet)
PROOF BY DEF TypeOK, DataOK, FailedOK, FrameSet

(* The operation of another kind for the same attempt.                     *)
LEMMA OpFacts ==
  ASSUME NEW o \in Ops \cup Calls, NEW kind \in Kinds
  PROVE  /\ Op(kind, o) \in Ops
         /\ Op(kind, o).kind = kind
         /\ Op(kind, o).t = o.t /\ Op(kind, o).att = o.att
         /\ \A x \in Ops :
              x.kind = kind /\ x.t = o.t /\ x.att = o.att => x = Op(kind, o)
PROOF BY DEF Op, Ops, Calls

(* Operations and calls.                                                   *)
LEMMA KindFacts ==
  /\ \A o \in Ops : o.kind \in Kinds /\ o.kind \notin CallKinds
                    /\ o.t \in Terms /\ o.att \in 1 .. MaxAtt
  /\ \A c \in Calls : c.kind \in CallKinds /\ c.kind \notin Kinds
                      /\ c.t \in Terms /\ c.att \in 1 .. MaxAtt
  /\ \A x : \A o \in Ops : Clash(x, o) \/ Clash(o, x) => x = o
PROOF BY DEF Ops, Calls, Kinds, CallKinds, Clash

(* Every frame is of FrameSet, and no two are of the same operation.       *)
LEMMA FrameFacts ==
  ASSUME StacksOK
  PROVE  /\ Frames \subseteq FrameSet
         /\ FramesApart
         /\ \A st \in threads : st # <<>> /\ Top(st) \in Frames
PROOF
<1>1. \A f : f \in Frames <=> \E s \in threads : f \in FramesIn(s)
  BY DEF Frames
<1>2. \A st \in threads :
        /\ st # <<>> /\ st \in Seq(FrameSet)
        /\ DOMAIN st = 1 .. Len(st) /\ Len(st) \in Nat \ {0}
  BY LenProperties, EmptySeq DEF StacksOK
<1>3. \A st \in threads : FramesIn(st) \subseteq FrameSet
  BY <1>2, ElementOfSeq DEF FramesIn
<1>4. \A st \in threads : Top(st) \in FramesIn(st)
  BY <1>2 DEF Top, FramesIn
<1>5. FramesApart
  <2>. SUFFICES ASSUME NEW f \in Frames, NEW g \in Frames, Clash(f.op, g.op)
                PROVE  f = g
    BY DEF FramesApart
  <2>1. PICK s1 \in threads : f \in FramesIn(s1)  BY <1>1
  <2>2. PICK s2 \in threads : g \in FramesIn(s2)  BY <1>1
  <2>3. s1 = s2  BY <2>1, <2>2 DEF StacksOK, StacksApart
  <2>4. PICK i \in DOMAIN s1 : f = s1[i]  BY <2>1 DEF FramesIn
  <2>5. PICK j \in DOMAIN s1 : g = s1[j]  BY <2>2, <2>3 DEF FramesIn
  <2>6. i = j  BY <2>4, <2>5 DEF StacksOK, StacksApart
  <2>. QED  BY <2>4, <2>5, <2>6
<1>. QED  BY <1>1, <1>2, <1>3, <1>4, <1>5

(* OnStack in terms of Frames.                                             *)
LEMMA OnStackIs ==
  ASSUME NEW op
  PROVE  OnStack(op) <=> \E f \in Frames : f.op = op
PROOF BY DEF OnStack, Frames, FramesIn

(* The frames of op give way to those in sure and to some of maybe.        *)
Becomes(op, sure, maybe) ==
  /\ Frames' \subseteq Others(op) \cup sure \cup maybe
  /\ \A f \in Others(op) \cup sure : f.pc # "return" => f \in Frames'

(* The call c makes the asynchronous call n and goes on at pc.             *)
LEMMA IssueFrames ==
  ASSUME StacksOK, NEW st \in threads, Top(st).op \in Calls, NEW pc \in Labels,
         NEW n \in Ops, \A f \in Frames : f.op # n,
         Issue(st, To(st, pc), n)
  PROVE  /\ StacksOK'
         /\ Becomes(Top(st).op, {Frame(pc, Top(st).op)}, {Frame("run", n)})
PROOF
<1>. DEFINE c == Top(st).op
<1>1. At(st, c)  BY FrameFacts DEF At
<1>2. To(st, pc) = Append(Below(st), Frame(pc, c))  BY ToIs
<1>3. ~ Clash(c, n) /\ \A f \in Frames : ~ Clash(f.op, n)  BY KindFacts
<1>. HIDE DEF c
<1>4. CASE Go(st, To(st, pc))
  BY <1>1, <1>2, <1>4, GoMove DEF Become, Becomes, c
<1>5. CASE Go(st, Append(To(st, pc), Frame("run", n)))
  BY <1>1, <1>2, <1>3, <1>5, GoPush DEF Become, Becomes, c
<1>. QED  BY <1>4, <1>5 DEF Issue, c

(* The handler of op makes the call n, and those of also, and ends.        *)
Hands(op, n, also) ==
  \/ /\ ops' = (ops \ {op}) \cup {n} \cup also
     /\ Becomes(op, {}, {})
  \/ /\ ops' = ops \cup {n} \cup also
     /\ Becomes(op, {Frame("free", op)}, {Frame("run", n)})

(* HandOver does this.                                                     *)
LEMMA HandFrames ==
  ASSUME StacksOK, NEW st, NEW op \in Ops, At(st, op), NEW n \in Ops,
         n.kind # "notify", NEW also \in SUBSET Ops,
         \A x \in also : x.kind = "notify",
         n # op, \A f \in Frames : f.op # n,
         HandOver(st, op, also \cup {n})
  PROVE  StacksOK' /\ Hands(op, n, also)
PROOF
<1>1. ~ Clash(op, n) /\ \A f \in Frames : ~ Clash(f.op, n)  BY KindFacts
<1>2. CASE ops' = FreeObj(op) \cup (also \cup {n}) /\ Go(st, Below(st))
  BY <1>2, GoBelow DEF Become, Becomes, Hands, FreeObj
<1>3. CASE \E m \in {x \in also \cup {n} : x.kind # "notify"} :
             /\ ops' = ops \cup (also \cup {n})
             /\ Go(st, Append(Wait(st, op, "free"), Frame("run", m)))
  <2>1. /\ ops' = ops \cup {n} \cup also
        /\ Go(st, Append(Append(Below(st), Frame("free", op)),
                         Frame("run", n)))
    BY <1>3 DEF Wait
  <2>2. "free" \in Labels  BY DEF Labels
  <2>. QED  BY <1>1, <2>1, <2>2, GoPush DEF Become, Becomes, Hands
<1>. QED  BY <1>2, <1>3 DEF HandOver

(* A handler that runs has not made its last call yet.                     *)
LEMMA RunsFacts ==
  ASSUME SetupInv, NEW st, st = <<>> \/ st \in threads, NEW op,
         IF st = <<>> THEN op \in ops ELSE Top(st).op = op,
         op.kind \in Kinds, Runs(st, op)
  PROVE  /\ op \in ops /\ At(st, op)
         /\ \A pc \in {"free", "shake", "wait"} : Frame(pc, op) \notin Frames
PROOF
<1>s. StacksOK /\ HandlersHold /\ ops \subseteq Ops
  BY DEF SetupInv, OpsInv, DataOK
<1>1. CASE st = <<>>
  <2>1. ~ OnStack(op)  BY <1>1 DEF Runs, Completable
  <2>2. \A f \in Frames : f.op # op  BY <2>1, OnStackIs
  <2>3. \A pc : Frame(pc, op).op = op  BY DEF Frame
  <2>4. \A f \in Frames : ~ Clash(f.op, op)  BY <1>1, <1>s, <2>2, KindFacts
  <2>. QED  BY <1>1, <2>2, <2>3, <2>4 DEF At
<1>2. CASE st # <<>>
  <2>1. Top(st) = Frame("run", op)  BY <1>2 DEF Runs
  <2>2. Top(st) \in Frames /\ Top(st) \in FrameSet /\ FramesApart
    BY <1>2, <1>s, FrameFacts
  <2>3. op \in Ops  BY <2>1, <2>2, KindFacts DEF FrameSet, Frame
  <2>4. op \in ops
    BY <1>s, <2>1, <2>2, <2>3, KindFacts DEF HandlersHold, Frame
  <2>5. ASSUME NEW pc \in {"free", "shake", "wait"}
        PROVE  Frame(pc, op) \notin Frames
    <3>1. Clash(op, op)  BY DEF Clash
    <3>2. Frame(pc, op).op = op /\ Frame(pc, op).pc = pc
          /\ Frame("run", op).op = op /\ Frame("run", op).pc = "run"
      BY DEF Frame
    <3>. QED  BY <2>1, <2>2, <3>1, <3>2 DEF FramesApart
  <2>. QED  BY <1>2, <2>1, <2>3, <2>4, <2>5 DEF At, Frame
<1>. QED  BY <1>1, <1>2

NoData == UNCHANGED <<connPool, term, live, handed, allocs>>

Leaves(op) == ops' = ops \ {op} /\ Becomes(op, {}, {})

(* The call c goes on from here to there.                                  *)
CallIs(c, here) == c \in Calls /\ Frame(here, c) \in Frames

InheritStep(c) ==
  /\ CallIs(c, "regions")
  /\ Becomes(c, {Frame("issue", c)}, {})
  /\ UNCHANGED ops /\ NoData

IssueStep(c, kind, here, there) ==
  /\ CallIs(c, here)
  /\ Becomes(c, {Frame(there, c)}, {Frame("run", Op(kind, c))})
  /\ ops' = ops \cup {Op(kind, c)}
  /\ NoData

BindFailStep(c) ==
  /\ CallIs(c, "issue")
  /\ Becomes(c, {Frame("return", c)}, {})
  /\ FreeTerminal(c.t)
  /\ UNCHANGED <<ops, handed, allocs>>

BindStep(c) ==
  /\ CallIs(c, "issue") /\ c.kind = "Connect"
  /\ Becomes(c, {Frame("shake", c)}, {})
  /\ ops' = ops \cup {Op("connect", c)}
  /\ NoData

ConnectStep(c) ==
  /\ CallIs(c, "shake")
  /\ RegionsReady(c.t)
  /\ Becomes(c, {Frame("return", c)}, {Frame("run", Op("connect", c))})
  /\ handed' = handed \cup {Token(c)}
  /\ UNCHANGED <<ops, connPool, term, live, allocs>>

FinishStep(op) ==
  /\ op \in ops /\ (Freeing(op) \/ op.kind = "notify")
  /\ Leaves(op) /\ NoData

TagStep(op) ==
  /\ op \in ops /\ op.kind = "tag"
  /\ term' = [term EXCEPT ![op.t].tag = op.att]
  /\ Leaves(op) /\ UNCHANGED <<connPool, live, handed, allocs>>

MemStep(op) ==
  /\ op \in ops /\ op.kind = "mem" /\ TagReady(op.t)
  /\ term' = [term EXCEPT ![op.t].mem = op.att]
  /\ Leaves(op) /\ UNCHANGED <<connPool, live, handed, allocs>>

MemWaitStep(op) ==
  /\ op \in ops /\ op.kind = "mem"
  /\ Becomes(op, {Frame("wait", op)}, {})
  /\ UNCHANGED ops /\ NoData

(* The handler of op has not got to where it begins to wait or to end.     *)
Begins(op) ==
  op \in ops /\ ~ Freeing(op) /\ Frame("shake", op) \notin Frames

RequestFailStep(op) ==
  /\ Begins(op) /\ op.kind = "connReq"
  /\ FreeTerminal(op.t)
  /\ Leaves(op) /\ UNCHANGED <<handed, allocs>>

StartStep(op) ==
  /\ Begins(op) /\ op.kind = "connReq"
  /\ ops' = ops \cup {Op("notify", op)}
  /\ term' = [term EXCEPT ![op.t].started = TRUE]
  /\ Becomes(op, {Frame("shake", op)}, {})
  /\ UNCHANGED <<connPool, live, handed, allocs>>

AcceptStep(op) ==
  /\ op \in ops /\ op.kind = "connReq" /\ ~ Freeing(op)
  /\ Frame("shake", op) \in Frames
  /\ RegionsReady(op.t)
  /\ handed' = handed \cup {Token(op)}
  /\ Hands(op, Op("agree", op), {})
  /\ UNCHANGED <<connPool, term, live, allocs>>

AckStep(op) ==
  /\ Begins(op) /\ op.kind = "connect"
  /\ \A f \in Frames : Active(f) => f.op.t # op.t
  /\ term' = [term EXCEPT ![op.t].started = TRUE]
  /\ Hands(op, Op("agree", op), {Op("notify", op)})
  /\ UNCHANGED <<connPool, live, handed, allocs>>

AwaitStep(op) ==
  /\ Begins(op) /\ op.kind = "agree"
  /\ Hands(op, Op("disc", op), {})
  /\ NoData

DropStep(op) ==
  /\ Begins(op) /\ op.kind \in {"agree", "disc"}
  /\ term' = Post(op.t)
  /\ Leaves(op) /\ UNCHANGED <<connPool, live, handed, allocs>>

CancelStep(t) ==
  /\ t \in Terms /\ term[t].closer = "posted"
  /\ term' = [term EXCEPT ![t].closer = "cancelled"]
  /\ UNCHANGED <<Frames, ops, connPool, live, handed, allocs>>

CloseStep(t) ==
  /\ t \in Terms /\ term[t].closer = "cancelled"
  /\ \A op \in ops : op.t = t => op.att # term[t].att
  /\ live' = Cleanup(t)
  /\ term' = [term EXCEPT ![t] = [VoidFlds(@) EXCEPT !.tag = 0, !.mem = 0]]
  /\ connPool' = Append(connPool, t)
  /\ UNCHANGED <<Frames, ops, handed, allocs>>

AllocStep(kind) ==
  LET t   == Head(connPool)
      att == allocs + 1
  IN  /\ connPool # <<>> /\ att <= MaxAtt
      /\ allocs' = att
      /\ term' = [term EXCEPT ![t].att = att, ![t].edges = TRUE,
                              ![t].nd = NdObjects]
      /\ live' = live \cup Objects(t, att, NdObjects)
      /\ connPool' = Tail(connPool)
      /\ kind \in CallKinds
      /\ Frames' = Frames \cup
           {Frame("regions", [kind |-> kind, t |-> t, att |-> att])}
      /\ UNCHANGED <<ops, handed>>

AllocFailStep ==
  LET t == Head(connPool)
  IN  /\ connPool # <<>> /\ allocs + 1 <= MaxAtt
      /\ allocs' = allocs + 1
      /\ \E nd \in HalfDone : live' = live \cup Objects(t, 0, nd)
      /\ connPool' = Append(Tail(connPool), t)
      /\ UNCHANGED <<Frames, term, ops, handed>>

IdleStep == UNCHANGED <<Frames, ops, connPool, term, live, handed, allocs>>

CallStep ==
  \E c \in Calls :
    \/ InheritStep(c)
    \/ IssueStep(c, "tag", "regions", "regMem")
    \/ IssueStep(c, "mem", "regMem", "issue")
    \/ IssueStep(c, "connReq", "issue", "return")
    \/ BindFailStep(c) \/ BindStep(c) \/ ConnectStep(c)

HandlerStep ==
  \E op \in Ops :
    \/ FinishStep(op) \/ TagStep(op) \/ MemStep(op) \/ MemWaitStep(op)
    \/ RequestFailStep(op) \/ StartStep(op) \/ AcceptStep(op) \/ AckStep(op)
    \/ AwaitStep(op) \/ DropStep(op)

OtherStep ==
  \/ \E t \in Terms : CancelStep(t) \/ CloseStep(t)
  \/ \E kind \in CallKinds : AllocStep(kind)
  \/ AllocFailStep \/ IdleStep

(* The overlapped-object counter decides only about failed.                *)
LEMMA RequireType ==
  ASSUME FailedOK, NEW holds, NEW what \in Failures, Require(holds, what)
  PROVE  FailedOK'
PROOF BY DEF FailedOK, Require

(* The frame on top of a thread, and its call.                             *)
LEMMA TopFacts ==
  ASSUME SetupInv, NEW st \in threads
  PROVE  /\ At(st, Top(st).op) /\ Top(st).op \in Ops \cup Calls
         /\ Top(st) = Frame(Top(st).pc, Top(st).op)
         /\ Top(st) \in Frames
         /\ Top(st).pc \in {"regions", "regMem", "issue"} => Top(st).op \in Calls
         /\ Top(st).pc \in {"run", "wait", "free"} =>
              Top(st).op \in Ops /\ Top(st).op \in ops
PROOF
<1>1. Top(st) \in Frames /\ Top(st) \in FrameSet /\ st # <<>>
  BY FrameFacts DEF SetupInv
<1>2. Top(st) = Frame(Top(st).pc, Top(st).op)  BY <1>1, FrameIs
<1>3. Top(st).op \in Ops \cup Calls  BY <1>1 DEF FrameSet
<1>4. HandlersHold  BY DEF SetupInv, OpsInv
<1>. QED  BY <1>1, <1>2, <1>3, <1>4, KindFacts DEF At, HandlersHold

(* The operation a handler or call is about to begin is on no stack.       *)
LEMMA NotYet ==
  ASSUME SetupInv
  PROVE  /\ \A c \in Calls : CallIs(c, "regions") =>
              Op("tag", c) \notin ops /\ \A g \in Frames : g.op # Op("tag", c)
         /\ \A c \in Calls : CallIs(c, "regMem") =>
              Op("mem", c) \notin ops /\ \A g \in Frames : g.op # Op("mem", c)
         /\ \A c \in Calls : CallIs(c, "issue") =>
              /\ Op("connReq", c) \notin ops
              /\ \A g \in Frames : g.op # Op("connReq", c)
         /\ \A c \in Calls : CallIs(c, "shake") =>
              \A g \in Frames : g.op # Op("connect", c)
         /\ \A op \in ops : op.kind \in {"connReq", "connect"} /\ ~ Freeing(op) =>
              Op("agree", op) \notin ops
              /\ \A g \in Frames : g.op # Op("agree", op)
         /\ \A op \in ops : op.kind = "agree" /\ ~ Freeing(op) =>
              Op("disc", op) \notin ops /\ \A g \in Frames : g.op # Op("disc", op)
PROOF
<1>1. /\ OpsInv /\ RegionsOnce /\ ops \subseteq Ops
  BY DEF SetupInv, RegInv, DataOK
<1>2. \A n \in Ops : n \notin ops => \A g \in Frames : g.op # n
  BY <1>1, KindFacts DEF OpsInv, HandlersHold
<1>3. \A pc, o : Frame(pc, o).pc = pc /\ Frame(pc, o).op = o  BY DEF Frame
<1>4. ASSUME NEW c \in Calls, CallIs(c, "regions")
      PROVE  Op("tag", c) \notin ops /\ Op("tag", c) \in Ops
  <2>1. /\ Op("tag", c) \in Ops /\ Op("tag", c).kind = "tag"
        /\ Op("tag", c).t = c.t /\ Op("tag", c).att = c.att
    BY OpFacts DEF Kinds
  <2>. QED  BY <1>1, <1>3, <1>4, <2>1, KindFacts DEF CallIs, RegionsOnce
<1>5. ASSUME NEW c \in Calls, CallIs(c, "regMem")
      PROVE  Op("mem", c) \notin ops /\ Op("mem", c) \in Ops
  <2>1. /\ Op("mem", c) \in Ops /\ Op("mem", c).kind = "mem"
        /\ Op("mem", c).t = c.t /\ Op("mem", c).att = c.att
    BY OpFacts DEF Kinds
  <2>. QED  BY <1>1, <1>3, <1>5, <2>1, KindFacts DEF CallIs, RegionsOnce
<1>6. ASSUME NEW c \in Calls, CallIs(c, "issue")
      PROVE  Op("connReq", c) \notin ops /\ Op("connReq", c) \in Ops
  <2>1. /\ Op("connReq", c) \in Ops /\ Op("connReq", c).kind = "connReq"
        /\ Op("connReq", c).t = c.t
    BY OpFacts DEF Kinds
  <2>2. Active(Frame("issue", c))  BY <1>3, KindFacts DEF Active
  <2>. QED
    BY <1>1, <1>3, <1>6, <2>1, <2>2 DEF CallIs, OpsInv, ActiveOwns, RegKinds
<1>7. ASSUME NEW c \in Calls, CallIs(c, "shake")
      PROVE  \A g \in Frames : g.op # Op("connect", c)
  <2>1. Active(Frame("shake", c))  BY <1>3, KindFacts DEF Active
  <2>. QED  BY <1>1, <1>3, <1>7, <2>1 DEF CallIs, OpsInv, ActiveOwns
<1>8. ASSUME NEW op \in ops, op.kind \in {"connReq", "connect"}, ~ Freeing(op)
      PROVE  Op("agree", op) \notin ops /\ Op("agree", op) \in Ops
  <2>1. /\ Op("agree", op) \in Ops /\ Op("agree", op).kind = "agree"
        /\ Op("agree", op).t = op.t
    BY <1>1, OpFacts DEF Kinds
  <2>. DEFINE n == Op("agree", op)
  <2>2. Current(op)  BY <1>8 DEF Current, RegKinds
  <2>3. Rank(op.kind) = 1 /\ Rank("agree") = 2  BY <1>8 DEF Rank
  <2>4. SUFFICES ASSUME n \in ops  PROVE FALSE  BY <2>1
  <2>5. CASE Freeing(n)
    <3>1. Rank(n.kind) < Rank(op.kind)
      BY <1>1, <2>1, <2>2, <2>4, <2>5 DEF OpsInv, FreeingOrder
    <3>. QED  BY <2>1, <2>3, <3>1
  <2>6. CASE ~ Freeing(n)
    <3>1. Current(n)  BY <2>1, <2>6 DEF Current, RegKinds
    <3>2. n = op  BY <1>1, <2>1, <2>2, <2>4, <3>1 DEF OpsInv, OneCurrent
    <3>. QED  BY <1>8, <2>1, <3>2
  <2>. QED  BY <2>5, <2>6
<1>9. ASSUME NEW op \in ops, op.kind = "agree", ~ Freeing(op)
      PROVE  Op("disc", op) \notin ops /\ Op("disc", op) \in Ops
  <2>1. /\ Op("disc", op) \in Ops /\ Op("disc", op).kind = "disc"
        /\ Op("disc", op).t = op.t
    BY <1>1, OpFacts DEF Kinds
  <2>. DEFINE n == Op("disc", op)
  <2>2. Current(op)  BY <1>9 DEF Current, RegKinds
  <2>4. SUFFICES ASSUME n \in ops  PROVE FALSE  BY <2>1
  <2>5. ~ Freeing(n)  BY <1>1, <2>1, <2>4 DEF OpsInv, FreeingOrder
  <2>6. Current(n)  BY <2>1, <2>5 DEF Current, RegKinds
  <2>7. n = op  BY <1>1, <2>1, <2>2, <2>4, <2>6 DEF OpsInv, OneCurrent
  <2>. QED  BY <1>9, <2>1, <2>7
<1>. QED  BY <1>2, <1>4, <1>5, <1>6, <1>7, <1>8, <1>9

(* The steps of a call.                                                    *)
LEMMA CallEffects ==
  ASSUME SetupInv, NEW st \in threads, UNCHANGED allocs,
         \/ Inherit(st) \/ RegisterTag(st) \/ RegisterMem(st)
         \/ GetConnectionRequest(st) \/ Bind(st) \/ Connect(st)
  PROVE  StacksOK' /\ FailedOK' /\ CallStep
PROOF
<1>. DEFINE c == Top(st).op
<1>s. StacksOK /\ FailedOK /\ ops \subseteq Ops  BY DEF SetupInv, DataOK
<1>t. /\ At(st, c) /\ Top(st) = Frame(Top(st).pc, c) /\ Top(st) \in Frames
      /\ Top(st).pc \in {"regions", "regMem", "issue"} => c \in Calls
      /\ c \in Ops \cup Calls
  BY TopFacts
<1>l. {"regions", "regMem", "issue", "shake", "return", "run", "wait", "free"}
        \subseteq Labels
  BY DEF Labels
<1>f. "Resource pool empty!" \in Failures
      /\ "Memory region state mismatch!" \in Failures
  BY DEF Failures
<1>k. {"tag", "mem", "connReq", "connect"} \subseteq Kinds  BY DEF Kinds
<1>m. \A pc \in Labels : To(st, pc) = Append(Below(st), Frame(pc, c))
  BY <1>s, ToIs
<1>1. CASE Inherit(st)
  <2>1. c \in Calls /\ Frame("regions", c) \in Frames  BY <1>1, <1>t DEF Inherit
  <2>2. Go(st, To(st, "issue"))  BY <1>1 DEF Inherit
  <2>3. StacksOK' /\ Become(c, {Frame("issue", c)})
    BY <1>s, <1>t, <1>l, <1>m, <2>2, GoMove
  <2>4. FailedOK'  BY <1>1, <1>s, <1>f, RequireType DEF Inherit
  <2>5. InheritStep(c)
    BY <1>1, <2>1, <2>3 DEF InheritStep, CallIs, Inherit, NoData, Become,
       Becomes
  <2>. QED  BY <2>1, <2>3, <2>4, <2>5 DEF CallStep
<1>2. CASE RegisterTag(st)
  <2>1. c \in Calls /\ Frame("regions", c) \in Frames
    BY <1>2, <1>t DEF RegisterTag
  <2>2. Issue(st, To(st, "regMem"), Op("tag", c))  BY <1>2 DEF RegisterTag
  <2>3. Op("tag", c) \in Ops  BY <1>k, <2>1, OpFacts
  <2>4. \A g \in Frames : g.op # Op("tag", c)
    BY <2>1, NotYet DEF CallIs
  <2>5. /\ StacksOK'
        /\ Becomes(c, {Frame("regMem", c)}, {Frame("run", Op("tag", c))})
    BY <1>s, <1>l, <2>1, <2>2, <2>3, <2>4, IssueFrames
  <2>6. FailedOK'  BY <1>2, <1>s, <1>f, RequireType DEF RegisterTag, GetObj
  <2>7. IssueStep(c, "tag", "regions", "regMem")
    BY <1>2, <2>1, <2>5 DEF IssueStep, CallIs, RegisterTag, NoData
  <2>. QED  BY <2>1, <2>5, <2>6, <2>7 DEF CallStep
<1>3. CASE RegisterMem(st)
  <2>1. c \in Calls /\ Frame("regMem", c) \in Frames
    BY <1>3, <1>t DEF RegisterMem
  <2>2. Issue(st, To(st, "issue"), Op("mem", c))  BY <1>3 DEF RegisterMem
  <2>3. Op("mem", c) \in Ops  BY <1>k, <2>1, OpFacts
  <2>4. \A g \in Frames : g.op # Op("mem", c)
    BY <2>1, NotYet DEF CallIs
  <2>5. /\ StacksOK'
        /\ Becomes(c, {Frame("issue", c)}, {Frame("run", Op("mem", c))})
    BY <1>s, <1>l, <2>1, <2>2, <2>3, <2>4, IssueFrames
  <2>6. FailedOK'  BY <1>3, <1>s, <1>f, RequireType DEF RegisterMem, GetObj
  <2>7. IssueStep(c, "mem", "regMem", "issue")
    BY <1>3, <2>1, <2>5 DEF IssueStep, CallIs, RegisterMem, NoData
  <2>. QED  BY <2>1, <2>5, <2>6, <2>7 DEF CallStep
<1>4. CASE GetConnectionRequest(st)
  <2>1. c \in Calls /\ Frame("issue", c) \in Frames
    BY <1>4, <1>t DEF GetConnectionRequest
  <2>2. Issue(st, To(st, "return"), Op("connReq", c))
    BY <1>4 DEF GetConnectionRequest
  <2>3. Op("connReq", c) \in Ops  BY <1>k, <2>1, OpFacts
  <2>4. \A g \in Frames : g.op # Op("connReq", c)
    BY <2>1, NotYet DEF CallIs
  <2>5. /\ StacksOK'
        /\ Becomes(c, {Frame("return", c)}, {Frame("run", Op("connReq", c))})
    BY <1>s, <1>l, <2>1, <2>2, <2>3, <2>4, IssueFrames
  <2>6. FailedOK'
    BY <1>4, <1>s, <1>f, RequireType DEF GetConnectionRequest, GetObj
  <2>7. IssueStep(c, "connReq", "issue", "return")
    BY <1>4, <2>1, <2>5 DEF IssueStep, CallIs, GetConnectionRequest, NoData
  <2>. QED  BY <2>1, <2>5, <2>6, <2>7 DEF CallStep
<1>5. CASE Bind(st)
  <2>1. c \in Calls /\ Frame("issue", c) \in Frames /\ c.kind = "Connect"
    BY <1>5, <1>t DEF Bind
  <2>2. CASE /\ FreeTerminal(c.t)
             /\ Go(st, To(st, "return"))
             /\ UNCHANGED <<ops, failed>>
    <3>1. StacksOK' /\ Become(c, {Frame("return", c)})
      BY <1>s, <1>t, <1>l, <1>m, <2>2, GoMove
    <3>2. FailedOK'  BY <1>s, <2>2 DEF FailedOK
    <3>3. BindFailStep(c)
      BY <1>5, <2>1, <2>2, <3>1 DEF BindFailStep, CallIs, Bind, Become, Becomes
    <3>. QED  BY <2>1, <3>1, <3>2, <3>3 DEF CallStep
  <2>3. CASE /\ GetObj(1)
             /\ ops' = ops \cup {Op("connect", c)}
             /\ Go(st, To(st, "shake"))
             /\ UNCHANGED <<connPool, term, live>>
    <3>1. StacksOK' /\ Become(c, {Frame("shake", c)})
      BY <1>s, <1>t, <1>l, <1>m, <2>3, GoMove
    <3>2. FailedOK'  BY <1>s, <1>f, <2>3, RequireType DEF GetObj
    <3>3. BindStep(c)
      BY <1>5, <2>1, <2>3, <3>1 DEF BindStep, CallIs, Bind, Become, Becomes,
         NoData
    <3>. QED  BY <2>1, <3>1, <3>2, <3>3 DEF CallStep
  <2>. QED  BY <1>5, <2>2, <2>3 DEF Bind
<1>6. CASE Connect(st)
  <2>1. c \in Calls /\ Frame("shake", c) \in Frames
    BY <1>6, <1>t, KindFacts DEF Connect, Kinds
  <2>2. Issue(st, To(st, "return"), Op("connect", c))  BY <1>6 DEF Connect
  <2>3. Op("connect", c) \in Ops  BY <1>k, <2>1, OpFacts
  <2>4. \A g \in Frames : g.op # Op("connect", c)
    BY <2>1, NotYet DEF CallIs
  <2>5. /\ StacksOK'
        /\ Becomes(c, {Frame("return", c)}, {Frame("run", Op("connect", c))})
    BY <1>s, <1>l, <2>1, <2>2, <2>3, <2>4, IssueFrames
  <2>6. FailedOK'  BY <1>6, <1>s DEF Connect, FailedOK
  <2>7. ConnectStep(c)
    BY <1>6, <2>1, <2>5 DEF ConnectStep, CallIs, Connect
  <2>. QED  BY <2>1, <2>5, <2>6, <2>7 DEF CallStep
<1>. QED  BY <1>1, <1>2, <1>3, <1>4, <1>5, <1>6

(* The steps of a handler.                                                 *)
LEMMA HandlerEffects ==
  ASSUME SetupInv, NEW st, st = <<>> \/ st \in threads, NEW op,
         IF st = <<>> THEN op \in ops ELSE Top(st).op = op,
         UNCHANGED allocs, Handler(st, op)
  PROVE  StacksOK' /\ FailedOK' /\ (HandlerStep \/ IdleStep)
PROOF
<1>s. StacksOK /\ FailedOK /\ ops \subseteq Ops /\ OpsInv
  BY DEF SetupInv, DataOK
<1>l. {"regions", "regMem", "issue", "shake", "return", "run", "wait", "free"}
        \subseteq Labels
  BY DEF Labels
<1>f. Failures = {"Resource pool empty!",
                  "Invalid connection state or ND resources leaking",
                  "Memory region state mismatch!",
                  "Duplicate init of tag mem region.",
                  "Duplicate init of buffer mem region.",
                  "Query Connection req failed!"}
  BY DEF Failures
<1>k. op.kind \in Kinds
  BY DEF Handler, OnTagRegistered, MemWait, OnMemRegistered, ProcessConnReq,
     ConnectorAccept, OnConnAck, OnConnAccepted, OnDisconnect, OnVerbCancelled,
     Kinds
<1>o. op \in Ops
  <2>1. CASE st = <<>>  BY <1>s, <2>1
  <2>2. CASE st # <<>>  BY <1>k, <2>2, TopFacts, KindFacts
  <2>. QED  BY <2>1, <2>2
<1>r. Runs(st, op) =>
        /\ op \in ops /\ At(st, op) /\ Begins(op)
        /\ ~ Freeing(op)
  BY <1>k, RunsFacts DEF Begins, Freeing
<1>d. At(st, op) /\ Done(st, op) => StacksOK' /\ Leaves(op)
  <2>. SUFFICES ASSUME At(st, op), Done(st, op)  PROVE StacksOK' /\ Leaves(op)
    OBVIOUS
  <2>1. Go(st, Below(st)) /\ ops' = ops \ {op}  BY DEF Done, FreeObj
  <2>2. StacksOK' /\ Become(op, {})  BY <1>s, <2>1, GoBelow
  <2>. QED  BY <2>1, <2>2 DEF Leaves, Become, Becomes
<1>w. \A pc \in Labels : At(st, op) /\ Go(st, Wait(st, op, pc)) =>
        StacksOK' /\ Becomes(op, {Frame(pc, op)}, {})
  <2>. SUFFICES ASSUME NEW pc \in Labels, At(st, op), Go(st, Wait(st, op, pc))
                PROVE  StacksOK' /\ Becomes(op, {Frame(pc, op)}, {})
    OBVIOUS
  <2>1. Go(st, Append(Below(st), Frame(pc, op)))  BY DEF Wait
  <2>2. StacksOK' /\ Become(op, {Frame(pc, op)})  BY <1>s, <1>o, <2>1, GoMove
  <2>. QED  BY <2>2 DEF Become, Becomes
<1>1. CASE OnTagRegistered(st, op)
  <2>1. At(st, op) /\ op \in ops  BY <1>1, <1>r DEF OnTagRegistered
  <2>2. StacksOK' /\ Leaves(op)  BY <1>1, <1>d, <2>1 DEF OnTagRegistered
  <2>3. FailedOK'  BY <1>1, <1>s, <1>f, RequireType DEF OnTagRegistered
  <2>4. TagStep(op)  BY <1>1, <2>1, <2>2 DEF OnTagRegistered, TagStep
  <2>. QED  BY <1>o, <2>2, <2>3, <2>4 DEF HandlerStep
<1>2. CASE MemWait(st, op)
  <2>1. At(st, op) /\ op \in ops  BY <1>2, <1>r DEF MemWait
  <2>2. StacksOK' /\ Becomes(op, {Frame("wait", op)}, {})
    BY <1>2, <1>l, <1>w, <2>1 DEF MemWait
  <2>3. FailedOK'  BY <1>2, <1>s DEF MemWait, FailedOK
  <2>4. MemWaitStep(op)
    BY <1>2, <2>1, <2>2 DEF MemWait, MemWaitStep, NoData
  <2>. QED  BY <1>o, <2>2, <2>3, <2>4 DEF HandlerStep
<1>3. CASE OnMemRegistered(st, op)
  <2>1. At(st, op) /\ op \in ops
    <3>1. CASE Runs(st, op)  BY <1>r, <3>1
    <3>2. CASE st # <<>> /\ Top(st) = Frame("wait", op)
      <4>1. st \in threads /\ Top(st).op = op /\ Top(st).pc = "wait"
        BY <3>2 DEF Frame
      <4>. QED  BY <3>2, <4>1, TopFacts
    <3>. QED  BY <1>3, <3>1, <3>2 DEF OnMemRegistered
  <2>2. StacksOK' /\ Leaves(op)  BY <1>3, <1>d, <2>1 DEF OnMemRegistered
  <2>3. FailedOK'  BY <1>3, <1>s, <1>f, RequireType DEF OnMemRegistered
  <2>4. MemStep(op)  BY <1>3, <2>1, <2>2 DEF OnMemRegistered, MemStep
  <2>. QED  BY <1>o, <2>2, <2>3, <2>4 DEF HandlerStep
<1>4. CASE ProcessConnReq(st, op)
  <2>1. At(st, op) /\ Begins(op)  BY <1>4, <1>r DEF ProcessConnReq
  <2>2. CASE FreeTerminal(op.t) /\ Done(st, op) /\ UNCHANGED failed
    <3>1. StacksOK' /\ Leaves(op)  BY <1>d, <2>1, <2>2
    <3>2. FailedOK'  BY <1>s, <2>2 DEF FailedOK
    <3>3. RequestFailStep(op)
      BY <1>4, <2>1, <2>2, <3>1 DEF ProcessConnReq, RequestFailStep
    <3>. QED  BY <1>o, <3>1, <3>2, <3>3 DEF HandlerStep
  <2>3. CASE /\ GetObj(1)
             /\ ops' = ops \cup {Op("notify", op)}
             /\ term' = [term EXCEPT ![op.t].started = TRUE]
             /\ Go(st, Wait(st, op, "shake"))
             /\ UNCHANGED <<connPool, live>>
    <3>1. StacksOK' /\ Becomes(op, {Frame("shake", op)}, {})
      BY <1>l, <1>w, <2>1, <2>3
    <3>2. FailedOK'  BY <1>s, <1>f, <2>3, RequireType DEF GetObj
    <3>3. StartStep(op)
      BY <1>4, <2>1, <2>3, <3>1 DEF ProcessConnReq, StartStep
    <3>. QED  BY <1>o, <3>1, <3>2, <3>3 DEF HandlerStep
  <2>. QED  BY <1>4, <2>2, <2>3 DEF ProcessConnReq
<1>n. "agree" \in Kinds /\ "disc" \in Kinds /\ "notify" \in Kinds
  BY DEF Kinds
<1>a. /\ Op("agree", op) \in Ops /\ Op("agree", op).kind = "agree"
      /\ Op("disc", op) \in Ops /\ Op("disc", op).kind = "disc"
      /\ Op("notify", op) \in Ops /\ Op("notify", op).kind = "notify"
  BY <1>n, <1>o, OpFacts
<1>5. CASE ConnectorAccept(st, op)
  <2>1. /\ st \in threads /\ Top(st) = Frame("shake", op)
        /\ Top(st).op = op /\ Top(st).pc = "shake"
    BY <1>5 DEF ConnectorAccept, Frame
  <2>2. /\ At(st, op) /\ Frame("shake", op) \in Frames /\ op \in ops
        /\ op.kind = "connReq"
    <3>1. At(st, op) /\ Frame("shake", op) \in Frames  BY <2>1, TopFacts
    <3>2. op \in ops
      BY <1>k, <1>o, <1>s, <2>1, <3>1, KindFacts DEF OpsInv, HandlersHold
    <3>. QED  BY <1>5, <3>1, <3>2 DEF ConnectorAccept
  <2>3. ~ Freeing(op)
    <3>1. FramesApart  BY <1>s, FrameFacts
    <3>2. Clash(op, op)  BY DEF Clash
    <3>3. Frame("free", op).op = op /\ Frame("free", op).pc = "free"
          /\ Frame("shake", op).op = op /\ Frame("shake", op).pc = "shake"
      BY DEF Frame
    <3>. QED  BY <2>2, <3>1, <3>2, <3>3 DEF FramesApart, Freeing
  <2>4. HandOver(st, op, {} \cup {Op("agree", op)})
    BY <1>5 DEF ConnectorAccept
  <2>5. \A g \in Frames : g.op # Op("agree", op)  BY <2>2, <2>3, NotYet
  <2>6. StacksOK' /\ Hands(op, Op("agree", op), {})
    BY <1>s, <1>o, <1>a, <2>2, <2>4, <2>5, HandFrames
  <2>7. FailedOK'
    BY <1>5, <1>s, <1>f, RequireType DEF ConnectorAccept, GetObj
  <2>8. AcceptStep(op)
    BY <1>5, <2>2, <2>3, <2>6 DEF ConnectorAccept, AcceptStep
  <2>. QED  BY <1>o, <2>6, <2>7, <2>8 DEF HandlerStep
<1>6. CASE OnConnAck(st, op)
  <2>1. At(st, op) /\ Begins(op) /\ ~ Freeing(op) /\ op \in ops
        /\ op.kind = "connect"
    BY <1>6, <1>r DEF OnConnAck
  <2>2. CASE /\ failed' = "Query Connection req failed!"
             /\ UNCHANGED <<ops, term, threads>>
    <3>1. FailedOK'  BY <1>f, <2>2 DEF FailedOK
    <3>2. UNCHANGED Frames  BY <2>2 DEF Frames
    <3>3. StacksOK'  BY <1>s, <2>2 DEF StacksOK, StacksApart
    <3>4. IdleStep  BY <1>6, <2>2, <3>2 DEF OnConnAck, IdleStep
    <3>. QED  BY <3>1, <3>3, <3>4
  <2>3. CASE /\ GetObj(2)
             /\ term' = [term EXCEPT ![op.t].started = TRUE]
             /\ HandOver(st, op, {Op("notify", op), Op("agree", op)})
    <3>1. \A g \in Frames : g.op # Op("agree", op)  BY <2>1, NotYet
    <3>2. HandOver(st, op, {Op("notify", op)} \cup {Op("agree", op)})
      <4>1. {Op("notify", op), Op("agree", op)}
              = {Op("notify", op)} \cup {Op("agree", op)}
        OBVIOUS
      <4>. QED  BY <2>3, <4>1
    <3>3. StacksOK' /\ Hands(op, Op("agree", op), {Op("notify", op)})
      <4>1. /\ {Op("notify", op)} \in SUBSET Ops
            /\ \A x \in {Op("notify", op)} : x.kind = "notify"
            /\ Op("agree", op) # op /\ Op("agree", op).kind # "notify"
        BY <1>a, <2>1
      <4>. QED  BY <1>s, <1>o, <1>a, <2>1, <3>1, <3>2, <4>1, HandFrames
    <3>4. FailedOK'  BY <1>s, <1>f, <2>3, RequireType DEF GetObj
    <3>5. ASSUME NEW f \in Frames, Active(f), f.op.t = op.t  PROVE FALSE
      <4>1. /\ f.op \in Calls /\ f.op.att = term[f.op.t].att
        <5>1. f \in FrameSet  BY <1>s, FrameFacts
        <5>. QED
          BY <1>s, <3>5, <5>1, KindFacts DEF FrameSet, Active, OpsInv,
             ActiveOwns
      <4>2. f.pc = "shake" /\ op = Op("connect", f.op) /\ f.op.kind = "Connect"
            /\ \A g \in Frames : g.op # op
        BY <1>s, <2>1, <3>5 DEF OpsInv, ActiveOwns, RegKinds
      <4>3. st = <<>>  BY <2>1, <4>2, FrameFacts, <1>s DEF At
      <4>4. ~ OnStack(Op("Connect", op))
        BY <1>6, <2>1, <4>3 DEF OnConnAck, Runs, Completable
      <4>5. Op("Connect", op) = f.op
        BY <4>1, <4>2 DEF Op, Calls
      <4>. QED  BY <3>5, <4>4, <4>5, OnStackIs
    <3>6. AckStep(op)
      BY <1>6, <2>1, <2>3, <3>3, <3>5 DEF OnConnAck, AckStep
    <3>. QED  BY <1>o, <3>3, <3>4, <3>6 DEF HandlerStep
  <2>. QED  BY <1>6, <2>2, <2>3 DEF OnConnAck
<1>7. CASE OnConnAccepted(st, op)
  <2>1. At(st, op) /\ Begins(op) /\ ~ Freeing(op) /\ op \in ops
        /\ op.kind = "agree"
    BY <1>7, <1>r DEF OnConnAccepted
  <2>2. CASE FailStarted(op.t) /\ Done(st, op) /\ UNCHANGED failed
    <3>1. StacksOK' /\ Leaves(op)  BY <1>d, <2>1, <2>2
    <3>2. FailedOK'  BY <1>s, <2>2 DEF FailedOK
    <3>3. DropStep(op)
      BY <1>7, <2>1, <2>2, <3>1 DEF OnConnAccepted, DropStep, FailStarted
    <3>. QED  BY <1>o, <3>1, <3>2, <3>3 DEF HandlerStep
  <2>3. CASE /\ GetObj(1)
             /\ HandOver(st, op, {Op("disc", op)})
             /\ UNCHANGED <<connPool, term, live>>
    <3>1. \A g \in Frames : g.op # Op("disc", op)  BY <2>1, NotYet
    <3>2. HandOver(st, op, {} \cup {Op("disc", op)})  BY <2>3
    <3>3. StacksOK' /\ Hands(op, Op("disc", op), {})
      BY <1>s, <1>o, <1>a, <2>1, <3>1, <3>2, HandFrames
    <3>4. FailedOK'  BY <1>s, <1>f, <2>3, RequireType DEF GetObj
    <3>5. AwaitStep(op)
      BY <1>7, <2>1, <2>3, <3>3 DEF OnConnAccepted, AwaitStep, NoData
    <3>. QED  BY <1>o, <3>3, <3>4, <3>5 DEF HandlerStep
  <2>. QED  BY <1>7, <2>2, <2>3 DEF OnConnAccepted
<1>8. CASE OnDisconnect(st, op)
  <2>1. At(st, op) /\ Begins(op)  BY <1>8, <1>r DEF OnDisconnect
  <2>2. StacksOK' /\ Leaves(op)  BY <1>8, <1>d, <2>1 DEF OnDisconnect
  <2>3. FailedOK'  BY <1>8, <1>s DEF OnDisconnect, FailedOK
  <2>4. DropStep(op)  BY <1>8, <2>1, <2>2 DEF OnDisconnect, DropStep
  <2>. QED  BY <1>o, <2>2, <2>3, <2>4 DEF HandlerStep
<1>9. CASE OnVerbCancelled(st, op)
  <2>1. At(st, op) /\ op \in ops  BY <1>9, <1>r DEF OnVerbCancelled
  <2>2. StacksOK' /\ Leaves(op)  BY <1>9, <1>d, <2>1 DEF OnVerbCancelled
  <2>3. FailedOK'  BY <1>9, <1>s DEF OnVerbCancelled, FailedOK
  <2>4. FinishStep(op)
    BY <1>9, <2>1, <2>2 DEF OnVerbCancelled, FinishStep, NoData
  <2>. QED  BY <1>o, <2>2, <2>3, <2>4 DEF HandlerStep
<1>. QED  BY <1>1, <1>2, <1>3, <1>4, <1>5, <1>6, <1>7, <1>8, <1>9 DEF Handler

(* A handler below which another has run ends.                             *)
LEMMA RunEndEffect ==
  ASSUME SetupInv, NEW st \in threads, UNCHANGED allocs, RunEnd(st)
  PROVE  StacksOK' /\ FailedOK' /\ HandlerStep
PROOF
<1>. DEFINE op == Top(st).op
<1>1. Top(st).pc = "free"  BY DEF RunEnd
<1>2. /\ At(st, op) /\ op \in Ops /\ op \in ops
      /\ Frame("free", op) \in Frames /\ st # <<>>
  BY <1>1, TopFacts, FrameFacts DEF SetupInv
<1>. HIDE DEF op
<1>3. Go(st, Below(st)) /\ ops' = ops \ {op}
  BY <1>2 DEF RunEnd, FreeObj, Below, op
<1>4. StacksOK' /\ Become(op, {})  BY <1>2, <1>3, GoBelow DEF SetupInv
<1>5. FailedOK'  BY DEF RunEnd, SetupInv, FailedOK
<1>6. FinishStep(op)
  BY <1>2, <1>3, <1>4 DEF RunEnd, FinishStep, Freeing, Leaves, Become, Becomes,
     NoData
<1>. QED  BY <1>2, <1>4, <1>5, <1>6 DEF HandlerStep

(* AllocTerminal and the closer.                                           *)
LEMMA OtherEffects ==
  ASSUME SetupInv,
         \/ \E kind \in {"accept", "Connect"} : AllocTerminal(kind)
         \/ UNCHANGED allocs /\ Closer
         \/ UNCHANGED vars
  PROVE  StacksOK' /\ FailedOK' /\ OtherStep
PROOF
<1>s. StacksOK /\ FailedOK /\ DataOK /\ OpsInv  BY DEF SetupInv
<1>f. "Invalid connection state or ND resources leaking" \in Failures
  BY DEF Failures
<1>k. UNCHANGED threads => UNCHANGED Frames /\ StacksOK'
  BY <1>s DEF Frames, StacksOK, StacksApart
<1>1. ASSUME NEW kind \in {"accept", "Connect"}, AllocTerminal(kind)
      PROVE  StacksOK' /\ FailedOK' /\ OtherStep
  <2>. DEFINE t == Head(connPool)
              att == allocs + 1
              c == [kind |-> kind, t |-> t, att |-> att]
  <2>1. FailedOK'  BY <1>1, <1>s, <1>f, RequireType DEF AllocTerminal
  <2>2. CASE UNCHANGED threads
    <3>1. CASE \E nd \in HalfDone :
                 /\ live' = live \cup Objects(t, 0, nd)
                 /\ connPool' = Append(Tail(connPool), t)
                 /\ UNCHANGED <<term, threads>>
      <4>1. AllocFailStep
        BY <1>1, <1>k, <2>2, <3>1 DEF AllocTerminal, AllocFailStep
      <4>. QED  BY <1>k, <2>1, <2>2, <4>1 DEF OtherStep
    <3>2. CASE threads' = threads \cup {<<Frame("regions", c)>>}
      <4>1. <<Frame("regions", c)>> \in threads  BY <2>2, <3>2
      <4>2. Frame("regions", c) \in Frames
        BY <4>1 DEF Frames, FramesIn
      <4>3. c.kind \in CallKinds /\ Frame("regions", c).op = c /\ c.att = att
        BY DEF Frame, CallKinds
      <4>4. att <= allocs
        BY <1>s, <4>2, <4>3 DEF OpsInv, HandlersHold
      <4>. QED  BY <1>s, <4>4 DEF DataOK
    <3>. QED  BY <1>1, <3>1, <3>2 DEF AllocTerminal
  <2>3. CASE ~ UNCHANGED threads
    <3>1. /\ term' = [term EXCEPT ![t].att = att, ![t].edges = TRUE,
                                  ![t].nd = NdObjects]
          /\ live' = live \cup Objects(t, att, NdObjects)
          /\ connPool' = Tail(connPool)
          /\ threads' = threads \cup {<<Frame("regions", c)>>}
          /\ connPool # <<>> /\ att <= MaxAtt /\ allocs' = att
          /\ UNCHANGED <<ops, handed>>
      BY <1>1, <2>3 DEF AllocTerminal
    <3>2. t \in Terms  BY <1>s, <3>1, HeadTailProperties DEF DataOK
    <3>3. att \in 1 .. MaxAtt
      <4>1. allocs \in Nat /\ MaxAtt \in Nat
        BY <1>s, TerminalSetupAssumption DEF DataOK
      <4>. QED  BY <3>1, <4>1
    <3>4. c \in Calls /\ c.kind \in CallKinds /\ c.att = att
      BY <3>2, <3>3 DEF Calls, CallKinds
    <3>. HIDE DEF c, t, att
    <3>5. Frame("regions", c) \in FrameSet /\ Frame("regions", c).op = c
      BY <3>4, FrameIs DEF Labels
    <3>6. <<Frame("regions", c)>> \in Seq(FrameSet)
          /\ <<Frame("regions", c)>> # <<>>
          /\ FramesIn(<<Frame("regions", c)>>) = {Frame("regions", c)}
          /\ Separate(<<Frame("regions", c)>>)
      <4>1. <<Frame("regions", c)>> = Append(<<>>, Frame("regions", c))
        OBVIOUS
      <4>. QED  BY <3>5, <4>1, NoFrames, PushFacts
    <3>7. Frames' = Frames \cup {Frame("regions", c)}
      <4>1. \A f : f \in Frames <=> \E s \in threads : f \in FramesIn(s)
        BY DEF Frames
      <4>2. \A f : f \in Frames' <=> \E s \in threads' : f \in FramesIn(s)
        BY DEF Frames
      <4>. QED  BY <3>1, <3>6, <4>1, <4>2
    <3>8. \A f \in Frames : ~ Clash(f.op, c) /\ ~ Clash(c, f.op)
      <4>1. att \notin 0 .. allocs
        <5>1. allocs \in Nat  BY <1>s DEF DataOK
        <5>. QED  BY <5>1 DEF att
      <4>2. \A f \in Frames : f \in FrameSet  BY <1>s, FrameFacts
      <4>3. \A f \in Frames : f.op.kind \in CallKinds => f.op.att \in 0 .. allocs
        <5>. SUFFICES ASSUME NEW f \in Frames, f.op.kind \in CallKinds
                      PROVE  f.op.att \in 0 .. allocs
          OBVIOUS
        <5>1. f.op.att <= allocs  BY <1>s DEF OpsInv, HandlersHold
        <5>2. f.op.att \in 1 .. MaxAtt
          BY <4>2, KindFacts DEF FrameSet
        <5>3. allocs \in Nat /\ MaxAtt \in Nat
          BY <1>s, TerminalSetupAssumption DEF DataOK
        <5>. QED  BY <5>1, <5>2, <5>3
      <4>. QED  BY <3>4, <4>1, <4>3 DEF Clash
    <3>9. StacksOK'
      <4>1. \A s \in threads' : s # <<>> /\ s \in Seq(FrameSet) /\ Separate(s)
        BY <1>s, <3>1, <3>6, ApartIs DEF StacksOK
      <4>2. \A s1, s2 \in threads' : \A f \in FramesIn(s1), g \in FramesIn(s2) :
              Clash(f.op, g.op) => s1 = s2
        <5>1. \A s1, s2 \in threads : \A f \in FramesIn(s1), g \in FramesIn(s2) :
                Clash(f.op, g.op) => s1 = s2
          BY <1>s, ApartIs DEF StacksOK
        <5>2. \A s \in threads : \A f \in FramesIn(s) :
                ~ Clash(f.op, c) /\ ~ Clash(c, f.op)
          BY <3>8 DEF Frames
        <5>. QED  BY <3>1, <3>5, <3>6, <5>1, <5>2
      <4>. QED  BY <4>1, <4>2 DEF StacksOK, StacksApart, Separate
    <3>10. AllocStep(kind)
      BY <3>1, <3>4, <3>7 DEF AllocStep, t, att, c, CallKinds
    <3>. QED  BY <2>1, <3>9, <3>10 DEF OtherStep, CallKinds
  <2>. QED  BY <2>2, <2>3
<1>2. CASE UNCHANGED allocs /\ Closer
  <2>1. PICK t \in Terms : CloserCancel(t) \/ CloserEnd(t)  BY <1>2 DEF Closer
  <2>2. UNCHANGED <<threads, failed, ops, handed>>
    BY <2>1 DEF CloserCancel, CloserEnd
  <2>3. FailedOK'  BY <1>s, <2>2 DEF FailedOK
  <2>4. CancelStep(t) \/ CloseStep(t)
    BY <1>2, <1>k, <2>1, <2>2 DEF CloserCancel, CloserEnd, CancelStep,
       CloseStep
  <2>. QED  BY <1>k, <2>2, <2>3, <2>4 DEF OtherStep
<1>3. CASE UNCHANGED vars
  <2>1. IdleStep  BY <1>3, <1>k DEF vars, IdleStep
  <2>2. FailedOK'  BY <1>3, <1>s DEF vars, FailedOK
  <2>. QED  BY <1>3, <1>k, <2>1, <2>2 DEF vars, OtherStep
<1>. QED  BY <1>1, <1>2, <1>3

(* Every step is one of them.                                              *)
LEMMA Effects ==
  ASSUME SetupInv, [Next]_vars
  PROVE  StacksOK' /\ FailedOK' /\ (CallStep \/ HandlerStep \/ OtherStep)
PROOF
<1>n. <<>> \notin threads  BY FrameFacts DEF SetupInv
<1>1. ASSUME NEW st \in threads, UNCHANGED allocs, Step(st)
      PROVE  StacksOK' /\ FailedOK' /\ (CallStep \/ HandlerStep \/ IdleStep)
  <2>1. CASE Handler(st, Top(st).op)
    <3>1. IF st = <<>> THEN Top(st).op \in ops ELSE Top(st).op = Top(st).op
      BY <1>n
    <3>. QED  BY <1>1, <2>1, <3>1, HandlerEffects
  <2>2. CASE RunEnd(st)  BY <1>1, <2>2, RunEndEffect
  <2>3. CASE ~ Handler(st, Top(st).op) /\ ~ RunEnd(st)
    BY <1>1, <2>3, CallEffects DEF Step
  <2>. QED  BY <2>1, <2>2, <2>3
<1>2. ASSUME NEW op \in ops, UNCHANGED allocs, Handler(<<>>, op)
      PROVE  StacksOK' /\ FailedOK' /\ (HandlerStep \/ IdleStep)
  BY <1>2, HandlerEffects
<1>. QED  BY <1>1, <1>2, OtherEffects DEF Next, Advance, OtherStep


-----------------------------------------------------------------------------
(* What the steps find.                                                    *)

(* A terminal that nothing is under way for but registrations.             *)
Alone(t) ==
  /\ \A op \in ops : op.t = t => op.kind \in RegKinds
  /\ \A f \in Frames : Active(f) => f.op.t # t

(* The current call of a terminal: whatever else it has is on its way out  *)
(* or waits for the closer.                                                *)
OnlyCurrent(op) ==
  /\ op.t \notin Pooled /\ op.att = term[op.t].att
  /\ term[op.t].closer = "none"
  /\ op.att <= allocs
  /\ \A x \in ops : x.t = op.t /\ Current(x) => x = op

(* The call a user is in has the terminal for itself.                      *)
LEMMA CallOwns ==
  ASSUME SetupInv, NEW c \in Calls, NEW pc, pc # "return", CallIs(c, pc)
  PROVE  /\ c.t \in Terms /\ c.t \notin Pooled /\ c.att = term[c.t].att
         /\ c.att <= allocs
         /\ ~ term[c.t].started /\ term[c.t].closer = "none"
         /\ \A op \in ops : op.t = c.t /\ op.kind \notin RegKinds =>
              pc = "shake" /\ op = Op("connect", c)
         /\ pc = "shake" => c.kind = "Connect" /\ Op("connect", c) \in ops
         /\ \A f \in Frames : Active(f) /\ f.op.t = c.t => f = Frame(pc, c)
PROOF
<1>. DEFINE g == Frame(pc, c)
<1>1. g \in Frames /\ g.pc = pc /\ g.op = c  BY DEF CallIs, Frame
<1>2. c.kind \in CallKinds /\ c.t \in Terms  BY KindFacts
<1>3. Active(g)  BY <1>1, <1>2 DEF Active
<1>4. HandlersHold /\ ActiveOwns /\ FramesApart
  BY FrameFacts DEF SetupInv, OpsInv
<1>5. \A f \in Frames : Active(f) /\ f.op.t = c.t => Clash(f.op, c)
  BY <1>1, <1>2, <1>3, <1>4 DEF ActiveOwns, Clash, Active
<1>. HIDE DEF g
<1>6. \A f \in Frames : Active(f) /\ f.op.t = c.t => f = g
  BY <1>1, <1>4, <1>5 DEF FramesApart
<1>. QED
  BY <1>1, <1>2, <1>3, <1>4, <1>6 DEF ActiveOwns, HandlersHold, g

(* A handler that decides what becomes of its terminal.                    *)
LEMMA CurrentFacts ==
  ASSUME SetupInv, NEW op \in ops, Current(op)
  PROVE  /\ OnlyCurrent(op) /\ op \in Ops /\ op.t \in Terms
         /\ op.kind # "connect" => \A f \in Frames : Active(f) => f.op.t # op.t
         /\ op.kind \in {"agree", "disc"} => term[op.t].started
         /\ op.kind = "connReq" =>
              (term[op.t].started <=> Frame("shake", op) \in Frames)
         /\ op.kind = "connReq" /\ ~ term[op.t].started =>
              \A x \in ops : x.t = op.t /\ x.kind \notin RegKinds => x = op
PROOF
<1>1. OpsInv /\ ops \subseteq Ops  BY DEF SetupInv, DataOK
<1>2. op.kind \notin RegKinds /\ ~ Freeing(op)  BY DEF Current
<1>3. OnlyCurrent(op)
  BY <1>1, <1>2 DEF OpsInv, OpsCurrent, OneCurrent, OnlyCurrent
<1>4. op \in Ops /\ op.t \in Terms  BY <1>1, KindFacts
<1>5. Op("connect", op).kind = "connect"
  BY <1>4, OpFacts DEF Kinds
<1>6. \A f \in Frames : Active(f) /\ f.op.t = op.t => op.kind = "connect"
  <2>1. \A f \in Frames : Op("connect", f.op).kind = "connect"
    <3>1. \A f \in Frames : f.op \in Ops \cup Calls
      BY FrameFacts DEF SetupInv, FrameSet
    <3>. QED  BY <3>1, OpFacts DEF Kinds
  <2>. QED  BY <1>1, <1>2, <2>1 DEF OpsInv, ActiveOwns
<1>7. op.kind \in {"agree", "disc"} => term[op.t].started
  BY <1>1 DEF OpsInv, OpsCurrent
<1>8. op.kind = "connReq" =>
        (term[op.t].started <=> Frame("shake", op) \in Frames)
  BY <1>1, <1>2 DEF OpsInv, OpsCurrent
<1>9. ASSUME op.kind = "connReq", ~ term[op.t].started,
             NEW x \in ops, x.t = op.t, x.kind \notin RegKinds
      PROVE  x = op
  <2>1. x.kind # "notify"  BY <1>1, <1>9 DEF OpsInv, OpsCurrent
  <2>2. ~ Freeing(x)  BY <1>1, <1>9 DEF OpsInv, FreeingOrder
  <2>3. Current(x)  BY <1>9, <2>1, <2>2 DEF Current
  <2>. QED  BY <1>1, <1>9, <2>3 DEF OpsInv, OneCurrent
<1>. QED  BY <1>3, <1>4, <1>6, <1>7, <1>8, <1>9

(* A handler that begins is the current call, but for registrations.       *)
LEMMA BeginsCurrent ==
  ASSUME NEW op, Begins(op), op.kind \notin RegKinds \cup {"notify"}
  PROVE  op \in ops /\ Current(op)
PROOF BY DEF Begins, Current

(* Terminals in the pool, and those the closer is about to give up.        *)
LEMMA AloneFacts ==
  ASSUME SetupInv
  PROVE  /\ \A t \in Pooled : Alone(t)
         /\ \A t \in Terms : CloseStep(t) => Alone(t) /\ t \notin Pooled
PROOF
<1>1. OpsInv /\ PoolClean  BY DEF SetupInv, PoolInv
<1>2. ASSUME NEW t \in Pooled  PROVE Alone(t)
  BY <1>1, <1>2 DEF OpsInv, OpsCurrent, ActiveOwns, Alone
<1>3. ASSUME NEW t \in Terms, CloseStep(t)  PROVE Alone(t) /\ t \notin Pooled
  BY <1>1, <1>3 DEF OpsInv, OpsCurrent, ActiveOwns, Alone, CloseStep,
     PoolClean
<1>. QED  BY <1>2, <1>3

(* Where frames are after a step of op that may start the handler of one   *)
(* more operation.                                                         *)
LEMMA FramesAfter ==
  ASSUME NEW op, NEW sure, NEW maybe, Becomes(op, sure, maybe),
         \A f \in sure : f.op = op,
         \A f \in maybe : f.pc = "run"
  PROVE  /\ \A f \in Frames' : \/ f \in Frames /\ f.op # op
                               \/ f \in sure \/ f \in maybe
         /\ \A pc, x : x # op /\ pc \notin {"run", "return"} =>
              (Frame(pc, x) \in Frames' <=> Frame(pc, x) \in Frames)
         /\ \A pc : pc \notin {"run", "return"} =>
              (Frame(pc, op) \in Frames' <=> Frame(pc, op) \in sure)
PROOF
<1>1. \A pc, x : Frame(pc, x).pc = pc /\ Frame(pc, x).op = x  BY DEF Frame
<1>. QED  BY <1>1 DEF Becomes, Others

-----------------------------------------------------------------------------
(* Terminals and their pool.                                               *)

TermSet == [edges : BOOLEAN, nd : SUBSET NdObjects,
            tag : 0 .. MaxAtt, mem : 0 .. MaxAtt,
            started : BOOLEAN, att : 0 .. MaxAtt,
            closer : {"none", "posted", "cancelled"}]

(* The tag region is set.                                                  *)
LEMMA TagUpdate ==
  ASSUME DataOK, NEW t \in Terms,
         NEW v \in 0 .. MaxAtt,
         term' = [term EXCEPT ![t].tag = v]
  PROVE  /\ term' \in [Terms -> TermSet]
         /\ \A u \in Terms :
              /\ term'[u].tag = IF u = t THEN v ELSE term[u].tag
              /\ term'[u].mem = term[u].mem
              /\ term'[u].edges = term[u].edges
              /\ term'[u].nd = term[u].nd
              /\ term'[u].started = term[u].started
              /\ term'[u].closer = term[u].closer
              /\ term'[u].att = term[u].att
PROOF
<1>1. term \in [Terms -> TermSet] /\ \A u \in Terms : term[u] \in TermSet
  BY DEF DataOK, TermSet
<1>. DEFINE r(u) == [term[u] EXCEPT !.tag = v]
<1>2. \A u \in Terms : r(u) \in TermSet  BY <1>1 DEF TermSet
<1>3. term' = [u \in Terms |-> IF u = t THEN r(u) ELSE term[u]]
  BY <1>1 DEF TermSet
<1>. HIDE DEF r
<1>4. /\ term' \in [Terms -> TermSet]
      /\ \A u \in Terms : term'[u] = IF u = t THEN r(u) ELSE term[u]
  BY <1>1, <1>2, <1>3
<1>. QED  BY <1>1, <1>4 DEF r, TermSet

(* The buffer region is set.                                               *)
LEMMA MemUpdate ==
  ASSUME DataOK, NEW t \in Terms,
         NEW v \in 0 .. MaxAtt,
         term' = [term EXCEPT ![t].mem = v]
  PROVE  /\ term' \in [Terms -> TermSet]
         /\ \A u \in Terms :
              /\ term'[u].tag = term[u].tag
              /\ term'[u].mem = IF u = t THEN v ELSE term[u].mem
              /\ term'[u].edges = term[u].edges
              /\ term'[u].nd = term[u].nd
              /\ term'[u].started = term[u].started
              /\ term'[u].closer = term[u].closer
              /\ term'[u].att = term[u].att
PROOF
<1>1. term \in [Terms -> TermSet] /\ \A u \in Terms : term[u] \in TermSet
  BY DEF DataOK, TermSet
<1>. DEFINE r(u) == [term[u] EXCEPT !.mem = v]
<1>2. \A u \in Terms : r(u) \in TermSet  BY <1>1 DEF TermSet
<1>3. term' = [u \in Terms |-> IF u = t THEN r(u) ELSE term[u]]
  BY <1>1 DEF TermSet
<1>. HIDE DEF r
<1>4. /\ term' \in [Terms -> TermSet]
      /\ \A u \in Terms : term'[u] = IF u = t THEN r(u) ELSE term[u]
  BY <1>1, <1>2, <1>3
<1>. QED  BY <1>1, <1>4 DEF r, TermSet

(* The terminal is started.                                                *)
LEMMA StartUpdate ==
  ASSUME DataOK, NEW t \in Terms,
         term' = [term EXCEPT ![t].started = TRUE]
  PROVE  /\ term' \in [Terms -> TermSet]
         /\ \A u \in Terms :
              /\ term'[u].tag = term[u].tag /\ term'[u].mem = term[u].mem
              /\ term'[u].edges = term[u].edges
              /\ term'[u].nd = term[u].nd
              /\ term'[u].started = IF u = t THEN TRUE ELSE term[u].started
              /\ term'[u].closer = term[u].closer
              /\ term'[u].att = term[u].att
PROOF
<1>1. term \in [Terms -> TermSet] /\ \A u \in Terms : term[u] \in TermSet
  BY DEF DataOK, TermSet
<1>. DEFINE r(u) == [term[u] EXCEPT !.started = TRUE]
<1>2. \A u \in Terms : r(u) \in TermSet  BY <1>1 DEF TermSet
<1>3. term' = [u \in Terms |-> IF u = t THEN r(u) ELSE term[u]]
  BY <1>1 DEF TermSet
<1>. HIDE DEF r
<1>4. /\ term' \in [Terms -> TermSet]
      /\ \A u \in Terms : term'[u] = IF u = t THEN r(u) ELSE term[u]
  BY <1>1, <1>2, <1>3
<1>. QED  BY <1>1, <1>4 DEF r, TermSet

(* The closer goes on.                                                     *)
LEMMA CloserUpdate ==
  ASSUME DataOK, NEW t \in Terms,
         NEW v \in {"none", "posted", "cancelled"},
         term' = [term EXCEPT ![t].closer = v]
  PROVE  /\ term' \in [Terms -> TermSet]
         /\ \A u \in Terms :
              /\ term'[u].tag = term[u].tag /\ term'[u].mem = term[u].mem
              /\ term'[u].edges = term[u].edges
              /\ term'[u].nd = term[u].nd
              /\ term'[u].started = term[u].started
              /\ term'[u].closer = IF u = t THEN v ELSE term[u].closer
              /\ term'[u].att = term[u].att
PROOF
<1>1. term \in [Terms -> TermSet] /\ \A u \in Terms : term[u] \in TermSet
  BY DEF DataOK, TermSet
<1>. DEFINE r(u) == [term[u] EXCEPT !.closer = v]
<1>2. \A u \in Terms : r(u) \in TermSet  BY <1>1 DEF TermSet
<1>3. term' = [u \in Terms |-> IF u = t THEN r(u) ELSE term[u]]
  BY <1>1 DEF TermSet
<1>. HIDE DEF r
<1>4. /\ term' \in [Terms -> TermSet]
      /\ \A u \in Terms : term'[u] = IF u = t THEN r(u) ELSE term[u]
  BY <1>1, <1>2, <1>3
<1>. QED  BY <1>1, <1>4 DEF r, TermSet

(* The fields of the terminal are reset ...                                *)
LEMMA VoidUpdate ==
  ASSUME DataOK, NEW t \in Terms,
         term' = [term EXCEPT ![t] = VoidFlds(@)]
  PROVE  /\ term' \in [Terms -> TermSet]
         /\ \A u \in Terms :
              /\ term'[u].tag = term[u].tag /\ term'[u].mem = term[u].mem
              /\ term'[u].att = term[u].att
              /\ u # t => term'[u] = term[u]
         /\ ~ term'[t].edges /\ term'[t].nd = {}
         /\ ~ term'[t].started /\ term'[t].closer = "none"
PROOF
<1>1. term \in [Terms -> TermSet] /\ \A u \in Terms : term[u] \in TermSet
  BY DEF DataOK, TermSet
<1>. DEFINE r(u) == VoidFlds(term[u])
<1>2. \A u \in Terms : r(u) \in TermSet  BY <1>1 DEF TermSet, VoidFlds
<1>3. term' = [u \in Terms |-> IF u = t THEN r(u) ELSE term[u]]
  BY <1>1 DEF TermSet
<1>. HIDE DEF r
<1>4. /\ term' \in [Terms -> TermSet]
      /\ \A u \in Terms : term'[u] = IF u = t THEN r(u) ELSE term[u]
  BY <1>1, <1>2, <1>3
<1>. QED  BY <1>1, <1>4 DEF r, TermSet, VoidFlds

(* ... and its regions given up.                                           *)
LEMMA CloseUpdate ==
  ASSUME DataOK, NEW t \in Terms,
         term' = [term EXCEPT ![t] = [VoidFlds(@) EXCEPT !.tag = 0,
                                                         !.mem = 0]]
  PROVE  /\ term' \in [Terms -> TermSet]
         /\ \A u \in Terms :
              /\ term'[u].att = term[u].att
              /\ u # t => term'[u] = term[u]
         /\ ~ term'[t].edges /\ term'[t].nd = {}
         /\ ~ term'[t].started /\ term'[t].closer = "none"
         /\ term'[t].tag = 0 /\ term'[t].mem = 0
PROOF
<1>1. term \in [Terms -> TermSet] /\ \A u \in Terms : term[u] \in TermSet
  BY DEF DataOK, TermSet
<1>2. 0 \in 0 .. MaxAtt  BY TerminalSetupAssumption
<1>. DEFINE r(u) == [VoidFlds(term[u]) EXCEPT !.tag = 0, !.mem = 0]
<1>3. \A u \in Terms : r(u) \in TermSet  BY <1>1, <1>2 DEF TermSet, VoidFlds
<1>4. term' = [u \in Terms |-> IF u = t THEN r(u) ELSE term[u]]
  BY <1>1 DEF TermSet
<1>. HIDE DEF r
<1>5. /\ term' \in [Terms -> TermSet]
      /\ \A u \in Terms : term'[u] = IF u = t THEN r(u) ELSE term[u]
  BY <1>1, <1>3, <1>4
<1>. QED  BY <1>1, <1>5 DEF r, TermSet, VoidFlds

(* The terminal is set up.                                                 *)
LEMMA AllocUpdate ==
  ASSUME DataOK, NEW t \in Terms,
         NEW a \in 0 .. MaxAtt,
         term' = [term EXCEPT ![t].att = a, ![t].edges = TRUE,
                              ![t].nd = NdObjects]
  PROVE  /\ term' \in [Terms -> TermSet]
         /\ \A u \in Terms :
              /\ term'[u].tag = term[u].tag /\ term'[u].mem = term[u].mem
              /\ term'[u].started = term[u].started
              /\ term'[u].closer = term[u].closer
              /\ u # t => term'[u] = term[u]
         /\ term'[t].edges /\ term'[t].nd = NdObjects
         /\ term'[t].att = a
PROOF
<1>1. term \in [Terms -> TermSet] /\ \A u \in Terms : term[u] \in TermSet
  BY DEF DataOK, TermSet
<1>. DEFINE r(u) == [term[u] EXCEPT !.att = a, !.edges = TRUE, !.nd = NdObjects]
<1>2. \A u \in Terms : r(u) \in TermSet  BY <1>1 DEF TermSet
<1>3. term' = [u \in Terms |-> IF u = t THEN r(u) ELSE term[u]]
  BY <1>1 DEF TermSet
<1>. HIDE DEF r
<1>4. /\ term' \in [Terms -> TermSet]
      /\ \A u \in Terms : term'[u] = IF u = t THEN r(u) ELSE term[u]
  BY <1>1, <1>2, <1>3
<1>. QED  BY <1>1, <1>4 DEF r, TermSet

(* The pool, the ND objects and the number of attempts stay as they are;   *)
(* terminals in the pool are left alone.                                   *)
PoolKept ==
  /\ UNCHANGED <<connPool, live>>
  /\ allocs \in Nat /\ allocs' \in Nat /\ allocs <= allocs'
  /\ term' \in [Terms -> TermSet]
  /\ \A u \in Terms :
       /\ term'[u].edges = term[u].edges /\ term'[u].nd = term[u].nd
       /\ term'[u].att = term[u].att
       /\ u \in Pooled => /\ term'[u].started = term[u].started
                          /\ term'[u].closer = term[u].closer

(* The terminal t goes back to the pool.                                   *)
GivenBack(t) ==
  /\ t \in Terms /\ t \notin Pooled
  /\ live' = Cleanup(t) /\ connPool' = Append(connPool, t)
  /\ UNCHANGED allocs
  /\ term' \in [Terms -> TermSet]
  /\ \A u \in Terms : /\ term'[u].att = term[u].att
                      /\ u # t => term'[u] = term[u]
  /\ ~ term'[t].edges /\ term'[t].nd = {}
  /\ ~ term'[t].started /\ term'[t].closer = "none"

(* What keeps the pool alone keeps what is known of it.                    *)
LEMMA PoolKeeps ==
  ASSUME DataOK, PoolInv, PoolKept
  PROVE  PoolInv' /\ Pooled' = Pooled
PROOF
<1>1. Pooled' = Pooled  BY DEF PoolKept, Pooled
<1>2. Pooled \subseteq Terms
  BY DEF Pooled, Members, DataOK
<1>3. NoDuplicates'  BY DEF PoolKept, PoolInv, NoDuplicates
<1>4. PoolClean'  BY <1>1, <1>2 DEF PoolKept, PoolInv, PoolClean
<1>5. NdWhole'  BY DEF PoolKept, PoolInv, NdWhole
<1>6. NdReleased'
  <2>1. \A x \in live : x[1] \in Terms  BY DEF DataOK
  <2>. QED  BY <2>1 DEF PoolKept, PoolInv, NdReleased
<1>7. AttBound'
  <2>. SUFFICES ASSUME NEW u \in Terms  PROVE term'[u].att <= allocs'
    BY DEF AttBound
  <2>1. term[u].att \in 0 .. MaxAtt /\ MaxAtt \in Nat
    BY TerminalSetupAssumption DEF DataOK
  <2>2. term[u].att <= allocs  BY DEF PoolInv, AttBound
  <2>3. term'[u].att = term[u].att  BY DEF PoolKept
  <2>. QED  BY <2>1, <2>2, <2>3 DEF PoolKept
<1>. QED  BY <1>1, <1>3, <1>4, <1>5, <1>6, <1>7 DEF PoolInv

(* A terminal that goes back releases its ND objects.                      *)
LEMMA PoolGivenBack ==
  ASSUME DataOK, PoolInv, NEW t, GivenBack(t)
  PROVE  /\ PoolInv' /\ Pooled' = Pooled \cup {t}
         /\ connPool' \in Seq(Terms) /\ live' \subseteq live
PROOF
<1>1. t \in Terms /\ t \notin Members(connPool) /\ connPool \in Seq(Terms)
      /\ Distinct(connPool) /\ connPool' = Append(connPool, t)
  BY DEF GivenBack, DataOK, PoolInv, NoDuplicates, Pooled
<1>2. /\ connPool' \in Seq(Terms) /\ Distinct(connPool')
      /\ Members(connPool') = Members(connPool) \cup {t}
  BY <1>1, PoolAppend
<1>3. Pooled' = Pooled \cup {t} /\ NoDuplicates'
  BY <1>2 DEF Pooled, NoDuplicates
<1>4. Pooled \subseteq Terms  BY <1>1 DEF Pooled, Members
<1>5. PoolClean'  BY <1>3, <1>4 DEF GivenBack, PoolInv, PoolClean
<1>6. NdWhole'  BY DEF GivenBack, PoolInv, NdWhole
<1>7. NdReleased'
  <2>. SUFFICES ASSUME NEW x \in live', x[2] # 0
                PROVE  x[3] \in term'[x[1]].nd /\ x[2] = term'[x[1]].att
    BY DEF NdReleased
  <2>1. live' = Cleanup(t) /\ x \in live
    BY DEF GivenBack, Cleanup
  <2>2. x \in Terms \X (0 .. MaxAtt) \X NdObjects /\ x = <<x[1], x[2], x[3]>>
    BY <2>1 DEF DataOK
  <2>3. x[3] \in term[x[1]].nd /\ x[2] = term[x[1]].att
    BY <2>1 DEF PoolInv, NdReleased
  <2>4. x[1] # t
    <3>. SUFFICES ASSUME x[1] = t  PROVE FALSE
      OBVIOUS
    <3>1. term[t].nd = NdObjects
      BY <1>1, <2>3 DEF PoolInv, NdWhole
    <3>2. "conn" \in term[t].nd  BY <3>1 DEF NdObjects
    <3>3. x \notin Objects(t, term[t].att, term[t].nd)
      BY <2>1, <3>2 DEF Cleanup
    <3>4. x = <<t, term[t].att, x[3]>>  BY <2>2, <2>3
    <3>. QED  BY <2>3, <3>3, <3>4 DEF Objects
  <2>. QED  BY <2>2, <2>3, <2>4 DEF GivenBack
<1>8. AttBound'  BY DEF GivenBack, PoolInv, AttBound
<1>9. live' \subseteq live  BY DEF GivenBack, Cleanup
<1>. QED  BY <1>2, <1>3, <1>5, <1>6, <1>7, <1>8, <1>9 DEF PoolInv

(* AllocTerminal takes a terminal that has no ND objects.                  *)
LEMMA PoolAlloc ==
  ASSUME DataOK, PoolInv, NEW kind, AllocStep(kind)
  PROVE  /\ PoolInv' /\ Pooled' = Pooled \ {Head(connPool)}
         /\ Head(connPool) \in Pooled /\ Head(connPool) \in Terms
         /\ DataOK'
         /\ allocs' = allocs + 1 /\ allocs \in Nat
         /\ term'[Head(connPool)].att = allocs + 1
         /\ \A u \in Terms :
              /\ term'[u].tag = term[u].tag /\ term'[u].mem = term[u].mem
              /\ term'[u].started = term[u].started
              /\ term'[u].closer = term[u].closer
              /\ u # Head(connPool) => term'[u] = term[u]
PROOF
<1>. DEFINE t == Head(connPool)
            att == allocs + 1
<1>1. /\ connPool \in Seq(Terms) /\ connPool # <<>> /\ Distinct(connPool)
      /\ connPool' = Tail(connPool)
  BY DEF AllocStep, DataOK, PoolInv, NoDuplicates
<1>2. /\ connPool' \in Seq(Terms) /\ Distinct(connPool') /\ t \in Terms
      /\ t \in Members(connPool) /\ Members(connPool') = Members(connPool) \ {t}
  BY <1>1, PoolTail
<1>3. /\ Pooled' = Pooled \ {t} /\ NoDuplicates' /\ t \in Pooled
      /\ Pooled \subseteq Terms
  BY <1>1, <1>2 DEF Pooled, NoDuplicates, Members
<1>4. allocs \in Nat /\ MaxAtt \in Nat /\ att \in 1 .. MaxAtt
      /\ att \in 0 .. MaxAtt /\ allocs' = att
  BY TerminalSetupAssumption DEF DataOK, AllocStep
<1>5. term' = [term EXCEPT ![t].att = att, ![t].edges = TRUE,
                           ![t].nd = NdObjects]
      /\ live' = live \cup Objects(t, att, NdObjects)
  BY DEF AllocStep
<1>. HIDE DEF t, att
<1>6. /\ term' \in [Terms -> TermSet]
      /\ \A u \in Terms :
           /\ term'[u].tag = term[u].tag /\ term'[u].mem = term[u].mem
           /\ term'[u].started = term[u].started
           /\ term'[u].closer = term[u].closer
           /\ u # t => term'[u] = term[u]
      /\ term'[t].edges /\ term'[t].nd = NdObjects
      /\ term'[t].att = att
  BY <1>2, <1>4, <1>5, AllocUpdate
<1>7. PoolClean'  BY <1>3, <1>6 DEF PoolInv, PoolClean
<1>8. NdWhole'
  <2>. SUFFICES ASSUME NEW u \in Terms  PROVE term'[u].nd \in {{}, NdObjects}
    BY DEF NdWhole
  <2>. QED  BY <1>6 DEF PoolInv, NdWhole
<1>9. NdReleased'
  <2>. SUFFICES ASSUME NEW x \in live', x[2] # 0
                PROVE  x[3] \in term'[x[1]].nd /\ x[2] = term'[x[1]].att
    BY DEF NdReleased
  <2>1. CASE x \in live
    <3>1. x[1] \in Terms  BY <2>1 DEF DataOK
    <3>2. x[3] \in term[x[1]].nd /\ x[2] = term[x[1]].att
      BY <2>1 DEF PoolInv, NdReleased
    <3>3. x[1] # t  BY <1>3, <3>2 DEF PoolInv, PoolClean
    <3>. QED  BY <1>6, <3>1, <3>2, <3>3
  <2>2. CASE x \in Objects(t, att, NdObjects)
    <3>1. PICK o \in NdObjects : x = <<t, att, o>>  BY <2>2 DEF Objects
    <3>. QED  BY <1>6, <3>1
  <2>. QED  BY <1>5, <2>1, <2>2
<1>10. AttBound'
  <2>. SUFFICES ASSUME NEW u \in Terms  PROVE term'[u].att <= allocs'
    BY DEF AttBound
  <2>1. term[u].att <= allocs /\ term[u].att \in 0 .. MaxAtt
    BY DEF PoolInv, AttBound, DataOK
  <2>2. CASE u = t  BY <1>4, <1>6, <2>2
  <2>3. CASE u # t
    <3>1. term'[u].att = term[u].att  BY <1>6, <2>3
    <3>2. term[u].att <= allocs + 1  BY <1>4, <2>1
    <3>. QED  BY <1>4, <3>1, <3>2 DEF att
  <2>. QED  BY <2>2, <2>3
<1>11. DataOK'
  <2>1. live' \subseteq Terms \X (0 .. MaxAtt) \X NdObjects
    BY <1>2, <1>4, <1>5 DEF DataOK, Objects
  <2>2. allocs' \in 0 .. MaxAtt  BY <1>4
  <2>3. UNCHANGED <<ops, handed>>  BY DEF AllocStep
  <2>. QED  BY <1>2, <1>6, <2>1, <2>2, <2>3 DEF DataOK, TermSet
<1>12. allocs' = allocs + 1 /\ term'[t].att = allocs + 1  BY <1>4, <1>6 DEF att
<1>. QED
  BY <1>2, <1>3, <1>4, <1>6, <1>7, <1>8, <1>9, <1>10, <1>11, <1>12
     DEF PoolInv, t

(* AllocTerminal fails, and the ND objects it has created are left over.   *)
LEMMA PoolAllocFail ==
  ASSUME DataOK, PoolInv, AllocFailStep
  PROVE  /\ PoolInv' /\ Pooled' = Pooled /\ DataOK'
         /\ allocs' = allocs + 1 /\ allocs \in Nat
PROOF
<1>. DEFINE t == Head(connPool)
<1>1. /\ connPool \in Seq(Terms) /\ connPool # <<>> /\ Distinct(connPool)
      /\ connPool' = Append(Tail(connPool), t)
  BY DEF AllocFailStep, DataOK, PoolInv, NoDuplicates
<1>2. /\ connPool' \in Seq(Terms) /\ Distinct(connPool')
      /\ Members(connPool') = Members(connPool)
  BY <1>1, PoolRotate
<1>3. t \in Terms  BY <1>1, PoolTail
<1>4. Pooled' = Pooled /\ NoDuplicates'  BY <1>2 DEF Pooled, NoDuplicates
<1>5. allocs \in Nat /\ MaxAtt \in Nat /\ allocs' = allocs + 1
      /\ allocs' \in 0 .. MaxAtt
  BY TerminalSetupAssumption DEF DataOK, AllocFailStep
<1>6. UNCHANGED <<term, ops, handed>>  BY DEF AllocFailStep
<1>7. PICK nd \in HalfDone : live' = live \cup Objects(t, 0, nd)
  BY DEF AllocFailStep
<1>8. nd \subseteq NdObjects  BY <1>7 DEF HalfDone, NdObjects
<1>. HIDE DEF t
<1>9. PoolClean' /\ NdWhole'
  BY <1>4, <1>6 DEF PoolInv, PoolClean, NdWhole
<1>10. NdReleased'
  <2>. SUFFICES ASSUME NEW x \in live', x[2] # 0
                PROVE  x[3] \in term'[x[1]].nd /\ x[2] = term'[x[1]].att
    BY DEF NdReleased
  <2>1. x \notin Objects(t, 0, nd)  BY DEF Objects
  <2>2. x \in live  BY <1>7, <2>1
  <2>. QED  BY <1>6, <2>2 DEF PoolInv, NdReleased
<1>11. AttBound'
  <2>. SUFFICES ASSUME NEW u \in Terms  PROVE term'[u].att <= allocs'
    BY DEF AttBound
  <2>1. term[u].att <= allocs /\ term[u].att \in 0 .. MaxAtt
    BY DEF PoolInv, AttBound, DataOK
  <2>. QED  BY <1>5, <1>6, <2>1
<1>12. DataOK'
  <2>1. live' \subseteq Terms \X (0 .. MaxAtt) \X NdObjects
    <3>1. 0 \in 0 .. MaxAtt  BY <1>5
    <3>. QED  BY <1>3, <1>7, <1>8, <3>1 DEF DataOK, Objects
  <2>. QED  BY <1>2, <1>5, <1>6, <2>1 DEF DataOK
<1>. QED  BY <1>4, <1>5, <1>9, <1>10, <1>11, <1>12 DEF PoolInv

(* Numbers of attempts.                                                    *)
LEMMA AttFacts ==
  ASSUME DataOK
  PROVE  /\ MaxAtt \in Nat /\ allocs \in Nat /\ allocs <= allocs
         /\ 0 \in 0 .. MaxAtt
         /\ term \in [Terms -> TermSet]
         /\ \A t \in Terms : /\ term[t] \in TermSet
                             /\ term[t].att \in 0 .. MaxAtt
                             /\ term[t].tag \in 0 .. MaxAtt
                             /\ term[t].mem \in 0 .. MaxAtt
PROOF
<1>1. allocs \in Nat  BY DEF DataOK
<1>2. term \in [Terms -> TermSet]  BY DEF DataOK, TermSet
<1>3. allocs <= allocs  BY <1>1
<1>4. \A t \in Terms : term[t] \in TermSet  BY <1>2
<1>. QED  BY <1>1, <1>2, <1>3, <1>4, TerminalSetupAssumption DEF TermSet

(* A step without data, and one that frees a terminal.                     *)
LEMMA QuietPool ==
  ASSUME DataOK, UNCHANGED <<connPool, term, live, allocs>>
  PROVE  PoolKept
PROOF BY AttFacts DEF PoolKept

LEMMA FreePool ==
  ASSUME DataOK, NEW t \in Terms, t \notin Pooled, UNCHANGED allocs,
         \/ FreeTerminal(t)
         \/ CloseStep(t)
  PROVE  GivenBack(t)
PROOF
<1>1. CASE FreeTerminal(t)
  <2>1. term' = [term EXCEPT ![t] = VoidFlds(@)]  BY <1>1 DEF FreeTerminal
  <2>. QED  BY <1>1, <2>1, VoidUpdate DEF FreeTerminal, GivenBack
<1>2. CASE CloseStep(t)
  <2>1. term' = [term EXCEPT ![t] = [VoidFlds(@) EXCEPT !.tag = 0, !.mem = 0]]
    BY <1>2 DEF CloseStep
  <2>. QED  BY <1>2, <2>1, CloseUpdate DEF CloseStep, GivenBack
<1>. QED  BY <1>1, <1>2

(* A token is sent after the regions are there.                            *)
LEMMA TokenFacts ==
  ASSUME DataOK, NEW c \in Ops \cup Calls, RegionsReady(c.t)
  PROVE  /\ Token(c) \in [t : Terms, tag : 1 .. MaxAtt, mem : 1 .. MaxAtt,
                          att : 1 .. MaxAtt]
         /\ Token(c).t = c.t /\ Token(c).att = c.att
         /\ Token(c).tag = term[c.t].tag /\ Token(c).mem = term[c.t].mem
PROOF
<1>1. c.t \in Terms /\ c.att \in 1 .. MaxAtt  BY KindFacts
<1>2. /\ term[c.t].tag \in 0 .. MaxAtt /\ term[c.t].tag # 0
      /\ term[c.t].mem \in 0 .. MaxAtt /\ term[c.t].mem # 0
      /\ MaxAtt \in Nat
  BY <1>1, AttFacts DEF RegionsReady
<1>3. term[c.t].tag \in 1 .. MaxAtt /\ term[c.t].mem \in 1 .. MaxAtt
  BY <1>2
<1>. QED  BY <1>1, <1>3 DEF Token

(* The data after the step of a call.                                      *)
LEMMA CallData ==
  ASSUME SetupInv, CallStep
  PROVE  DataOK' /\ PoolInv'
PROOF
<1>s. DataOK /\ PoolInv  BY DEF SetupInv
<1>1. PICK c \in Calls :
        \/ InheritStep(c)
        \/ IssueStep(c, "tag", "regions", "regMem")
        \/ IssueStep(c, "mem", "regMem", "issue")
        \/ IssueStep(c, "connReq", "issue", "return")
        \/ BindFailStep(c) \/ BindStep(c) \/ ConnectStep(c)
  BY DEF CallStep
<1>2. \A kind \in Kinds : Op(kind, c) \in Ops  BY OpFacts
<1>3. CASE InheritStep(c)
  <2>1. NoData /\ UNCHANGED ops  BY <1>3 DEF InheritStep
  <2>2. DataOK'  BY <1>s, <2>1 DEF NoData, DataOK
  <2>. QED  BY <1>s, <2>1, <2>2, QuietPool, PoolKeeps DEF NoData
<1>4. ASSUME NEW kind \in Kinds, ops' = ops \cup {Op(kind, c)}, NoData
      PROVE  DataOK' /\ PoolInv'
  <2>1. DataOK'  BY <1>s, <1>2, <1>4 DEF NoData, DataOK
  <2>. QED  BY <1>s, <1>4, <2>1, QuietPool, PoolKeeps DEF NoData
<1>5. "tag" \in Kinds /\ "mem" \in Kinds /\ "connReq" \in Kinds
      /\ "connect" \in Kinds
  BY DEF Kinds
<1>6. CASE \/ IssueStep(c, "tag", "regions", "regMem")
           \/ IssueStep(c, "mem", "regMem", "issue")
           \/ IssueStep(c, "connReq", "issue", "return")
           \/ BindStep(c)
  BY <1>4, <1>5, <1>6 DEF IssueStep, BindStep
<1>7. CASE BindFailStep(c)
  <2>1. c.t \in Terms /\ c.t \notin Pooled
    BY <1>7, CallOwns DEF BindFailStep
  <2>2. GivenBack(c.t)  BY <1>s, <1>7, <2>1, FreePool DEF BindFailStep
  <2>3. PoolInv' /\ connPool' \in Seq(Terms) /\ live' \subseteq live
    BY <1>s, <2>2, PoolGivenBack
  <2>4. DataOK'
    BY <1>s, <1>7, <2>2, <2>3 DEF BindFailStep, GivenBack, DataOK, TermSet
  <2>. QED  BY <2>3, <2>4
<1>8. CASE ConnectStep(c)
  <2>1. UNCHANGED <<ops, connPool, term, live, allocs>>
        /\ handed' = handed \cup {Token(c)} /\ RegionsReady(c.t)
    BY <1>8 DEF ConnectStep
  <2>2. DataOK'  BY <1>s, <2>1, TokenFacts DEF DataOK
  <2>. QED  BY <1>s, <2>1, <2>2, QuietPool, PoolKeeps
<1>. QED  BY <1>1, <1>3, <1>6, <1>7, <1>8

(* The terminal of an operation that is not a registration.                *)
LEMMA OpOwns ==
  ASSUME SetupInv, NEW op \in ops
  PROVE  /\ op \in Ops /\ op.t \in Terms /\ op.att \in 1 .. MaxAtt
         /\ op.att \in 0 .. MaxAtt /\ op.att <= allocs
         /\ op.kind \notin RegKinds =>
              op.t \notin Pooled /\ op.att = term[op.t].att
PROOF
<1>1. op \in Ops /\ op.t \in Terms /\ op.att \in 1 .. MaxAtt
  BY KindFacts DEF SetupInv, DataOK
<1>2. op.att \in 0 .. MaxAtt  BY <1>1, TerminalSetupAssumption
<1>. QED  BY <1>1, <1>2 DEF SetupInv, OpsInv, OpsCurrent

(* What handlers do to the terminals.                                      *)
LEMMA PostFacts ==
  ASSUME DataOK, NEW t \in Terms, term' = Post(t)
  PROVE  /\ term' \in [Terms -> TermSet]
         /\ \A u \in Terms :
              /\ term'[u].tag = term[u].tag /\ term'[u].mem = term[u].mem
              /\ term'[u].edges = term[u].edges
              /\ term'[u].nd = term[u].nd
              /\ term'[u].started = term[u].started
              /\ term'[u].att = term[u].att
              /\ u # t => term'[u].closer = term[u].closer
PROOF
<1>. DEFINE v == IF term[t].closer = "none" THEN "posted" ELSE term[t].closer
<1>1. term \in [Terms -> TermSet]  BY AttFacts
<1>2. v \in {"none", "posted", "cancelled"}  BY <1>1 DEF TermSet
<1>3. term' = [term EXCEPT ![t].closer = v]  BY <1>1 DEF Post, TermSet
<1>. HIDE DEF v
<1>. QED  BY <1>2, <1>3, CloserUpdate

(* The data after the step of a handler.                                   *)
LEMMA HandlerData ==
  ASSUME SetupInv, HandlerStep
  PROVE  DataOK' /\ PoolInv'
PROOF
<1>s. DataOK /\ PoolInv /\ allocs \in Nat /\ allocs <= allocs
  BY AttFacts DEF SetupInv
<1>1. PICK op \in Ops :
        \/ FinishStep(op) \/ TagStep(op) \/ MemStep(op) \/ MemWaitStep(op)
        \/ RequestFailStep(op) \/ StartStep(op) \/ AcceptStep(op)
        \/ AckStep(op) \/ AwaitStep(op) \/ DropStep(op)
  BY DEF HandlerStep
<1>2. /\ op \in ops /\ op \in Ops /\ op.t \in Terms /\ op.att \in 0 .. MaxAtt
      /\ op.kind \notin RegKinds => op.t \notin Pooled
  <2>1. op \in ops
    BY <1>1 DEF FinishStep, TagStep, MemStep, MemWaitStep, RequestFailStep,
       StartStep, AcceptStep, AckStep, AwaitStep, DropStep, Begins
  <2>. QED  BY <2>1, OpOwns
<1>3. /\ Op("agree", op) \in Ops /\ Op("disc", op) \in Ops
      /\ Op("notify", op) \in Ops
  BY <1>2, OpFacts DEF Kinds
<1>4. Leaves(op) => ops' \subseteq Ops
  BY <1>s DEF Leaves, DataOK
<1>5. \A n \in Ops, also \in SUBSET Ops :
        Hands(op, n, also) => ops' \subseteq Ops
  BY <1>s DEF Hands, DataOK
<1>6. ASSUME NoData, ops' \subseteq Ops
      PROVE  DataOK' /\ PoolInv'
  <2>1. DataOK'  BY <1>s, <1>6 DEF NoData, DataOK
  <2>. QED  BY <1>s, <1>6, <2>1, QuietPool, PoolKeeps DEF NoData
<1>7. ASSUME UNCHANGED <<connPool, live, handed, allocs>>, ops' \subseteq Ops,
             term' \in [Terms -> TermSet],
             \A u \in Terms :
               /\ term'[u].edges = term[u].edges /\ term'[u].nd = term[u].nd
               /\ term'[u].att = term[u].att
               /\ u \in Pooled => /\ term'[u].started = term[u].started
                                  /\ term'[u].closer = term[u].closer
      PROVE  DataOK' /\ PoolInv'
  <2>1. DataOK'  BY <1>s, <1>7 DEF DataOK, TermSet
  <2>2. PoolKept  BY <1>s, <1>7 DEF PoolKept
  <2>. QED  BY <1>s, <2>1, <2>2, PoolKeeps
<1>8. CASE FinishStep(op)  BY <1>4, <1>6, <1>8 DEF FinishStep
<1>9. CASE TagStep(op)
  <2>1. /\ term' = [term EXCEPT ![op.t].tag = op.att]
        /\ UNCHANGED <<connPool, live, handed, allocs>> /\ ops' \subseteq Ops
    BY <1>4, <1>9 DEF TagStep
  <2>. QED  BY <1>s, <1>2, <1>7, <2>1, TagUpdate
<1>10. CASE MemStep(op)
  <2>1. /\ term' = [term EXCEPT ![op.t].mem = op.att]
        /\ UNCHANGED <<connPool, live, handed, allocs>> /\ ops' \subseteq Ops
    BY <1>4, <1>10 DEF MemStep
  <2>. QED  BY <1>s, <1>2, <1>7, <2>1, MemUpdate
<1>11. CASE MemWaitStep(op)
  <2>1. ops \subseteq Ops  BY <1>s DEF DataOK
  <2>. QED  BY <1>6, <1>11, <2>1 DEF MemWaitStep
<1>12. CASE RequestFailStep(op)
  <2>1. op.t \notin Pooled  BY <1>2, <1>12 DEF RequestFailStep, RegKinds
  <2>2. GivenBack(op.t)
    BY <1>s, <1>2, <1>12, <2>1, FreePool DEF RequestFailStep
  <2>3. PoolInv' /\ connPool' \in Seq(Terms) /\ live' \subseteq live
    BY <1>s, <2>2, PoolGivenBack
  <2>4. UNCHANGED <<handed, allocs>> /\ ops' \subseteq Ops
    BY <1>4, <1>12 DEF RequestFailStep
  <2>5. DataOK'
    BY <1>s, <2>2, <2>3, <2>4 DEF GivenBack, DataOK, TermSet
  <2>. QED  BY <2>3, <2>5
<1>13. CASE StartStep(op)
  <2>1. op.t \notin Pooled  BY <1>2, <1>13 DEF StartStep, RegKinds
  <2>2. /\ term' = [term EXCEPT ![op.t].started = TRUE]
        /\ UNCHANGED <<connPool, live, handed, allocs>> /\ ops' \subseteq Ops
    BY <1>s, <1>3, <1>13 DEF StartStep, DataOK
  <2>. QED  BY <1>s, <1>2, <1>7, <2>1, <2>2, StartUpdate
<1>14. CASE AcceptStep(op)
  <2>1. UNCHANGED <<connPool, term, live, allocs>>
        /\ handed' = handed \cup {Token(op)} /\ RegionsReady(op.t)
    BY <1>14 DEF AcceptStep
  <2>2. ops' \subseteq Ops  BY <1>3, <1>5, <1>14 DEF AcceptStep
  <2>3. DataOK'  BY <1>s, <2>1, <2>2, TokenFacts DEF DataOK
  <2>. QED  BY <1>s, <2>1, <2>3, QuietPool, PoolKeeps
<1>15. CASE AckStep(op)
  <2>1. op.t \notin Pooled  BY <1>2, <1>15 DEF AckStep, RegKinds
  <2>2. /\ term' = [term EXCEPT ![op.t].started = TRUE]
        /\ UNCHANGED <<connPool, live, handed, allocs>> /\ ops' \subseteq Ops
    BY <1>3, <1>5, <1>15 DEF AckStep
  <2>. QED  BY <1>s, <1>2, <1>7, <2>1, <2>2, StartUpdate
<1>16. CASE AwaitStep(op)
  <2>1. ops' \subseteq Ops  BY <1>3, <1>5, <1>16 DEF AwaitStep
  <2>. QED  BY <1>6, <1>16, <2>1 DEF AwaitStep
<1>17. CASE DropStep(op)
  <2>1. op.t \notin Pooled  BY <1>2, <1>17 DEF DropStep, RegKinds
  <2>2. /\ term' = Post(op.t)
        /\ UNCHANGED <<connPool, live, handed, allocs>> /\ ops' \subseteq Ops
    BY <1>4, <1>17 DEF DropStep
  <2>3. \A u \in Terms : u \in Pooled => term'[u].closer = term[u].closer
    BY <1>s, <1>2, <2>1, <2>2, PostFacts
  <2>. QED  BY <1>s, <1>2, <1>7, <2>2, <2>3, PostFacts
<1>. QED
  BY <1>1, <1>8, <1>9, <1>10, <1>11, <1>12, <1>13, <1>14, <1>15, <1>16, <1>17

(* The data after the other steps.                                         *)
LEMMA OtherData ==
  ASSUME SetupInv, OtherStep
  PROVE  DataOK' /\ PoolInv'
PROOF
<1>s. DataOK /\ PoolInv /\ allocs \in Nat /\ allocs <= allocs
  BY AttFacts DEF SetupInv
<1>1. ASSUME NEW t \in Terms, CancelStep(t)  PROVE DataOK' /\ PoolInv'
  <2>1. /\ term' = [term EXCEPT ![t].closer = "cancelled"]
        /\ term[t].closer = "posted"
        /\ UNCHANGED <<ops, connPool, live, handed, allocs>>
    BY <1>1 DEF CancelStep
  <2>2. t \notin Pooled  BY <1>s, <2>1 DEF PoolInv, PoolClean
  <2>3. /\ term' \in [Terms -> TermSet]
        /\ \A u \in Terms :
             /\ term'[u].edges = term[u].edges /\ term'[u].nd = term[u].nd
             /\ term'[u].att = term[u].att
             /\ u \in Pooled => /\ term'[u].started = term[u].started
                                /\ term'[u].closer = term[u].closer
    BY <1>s, <2>1, <2>2, CloserUpdate
  <2>4. DataOK'  BY <1>s, <2>1, <2>3 DEF DataOK, TermSet
  <2>5. PoolKept  BY <1>s, <2>1, <2>3 DEF PoolKept
  <2>. QED  BY <1>s, <2>4, <2>5, PoolKeeps
<1>2. ASSUME NEW t \in Terms, CloseStep(t)  PROVE DataOK' /\ PoolInv'
  <2>1. t \notin Pooled  BY <1>2, AloneFacts
  <2>2. UNCHANGED <<ops, handed, allocs>>  BY <1>2 DEF CloseStep
  <2>3. GivenBack(t)  BY <1>s, <1>2, <2>1, <2>2, FreePool
  <2>4. PoolInv' /\ connPool' \in Seq(Terms) /\ live' \subseteq live
    BY <1>s, <2>3, PoolGivenBack
  <2>5. DataOK'
    BY <1>s, <2>2, <2>3, <2>4 DEF GivenBack, DataOK, TermSet
  <2>. QED  BY <2>4, <2>5
<1>3. ASSUME NEW kind, AllocStep(kind)  PROVE DataOK' /\ PoolInv'
  BY <1>s, <1>3, PoolAlloc
<1>4. CASE AllocFailStep  BY <1>s, <1>4, PoolAllocFail
<1>5. CASE IdleStep
  <2>1. DataOK'  BY <1>s, <1>5 DEF IdleStep, DataOK
  <2>. QED  BY <1>s, <1>5, <2>1, QuietPool, PoolKeeps DEF IdleStep
<1>. QED  BY <1>1, <1>2, <1>3, <1>4, <1>5 DEF OtherStep

-----------------------------------------------------------------------------
(* Operations and frames, one terminal at a time.                          *)

Holds(f) ==
  IF f.op.kind \in CallKinds
    THEN /\ f.pc \in {"regions", "regMem", "issue", "shake", "return"}
         /\ f.op.att <= allocs
    ELSE /\ f.pc \in {"run", "wait", "shake", "free"}
         /\ f.op \in ops

OpAt(x) ==
  /\ x.att <= allocs
  /\ x.kind \notin RegKinds => x.t \notin Pooled /\ x.att = term[x.t].att
  /\ x.kind \in {"notify", "agree", "disc"} => term[x.t].started
  /\ x.kind = "connReq" =>
       (term[x.t].started <=> Freeing(x) \/ Frame("shake", x) \in Frames)
  /\ Current(x) => term[x.t].closer = "none"
  /\ Freeing(x) =>
       x.kind \in {"connReq", "connect", "agree"} /\ term[x.t].started

(* y is current: what x of the same terminal may be.                       *)
Before(x, y) ==
  /\ Current(x) => x = y
  /\ Freeing(x) => Rank(x.kind) < Rank(y.kind)

ActiveAt(f) ==
  /\ f.op.t \notin Pooled
  /\ f.op.att = term[f.op.t].att
  /\ ~ term[f.op.t].started /\ term[f.op.t].closer = "none"
  /\ \A op \in ops : op.t = f.op.t /\ op.kind \notin RegKinds =>
       f.pc = "shake" /\ op = Op("connect", f.op)
  /\ f.pc = "shake" =>
       /\ f.op.kind = "Connect" /\ Op("connect", f.op) \in ops
       /\ \A g \in Frames : g.op # Op("connect", f.op)

OpsAt(t) ==
  /\ \A x \in ops : x.t = t => OpAt(x)
  /\ \A x, y \in ops : x.t = t /\ y.t = t /\ Current(y) => Before(x, y)
  /\ \A f \in Frames : Active(f) /\ f.op.t = t => ActiveAt(f)

(* OpsInv terminal by terminal.                                            *)
LEMMA OpsAtIs ==
  /\ SetupInv =>
       (\A f \in Frames : Holds(f)) /\ \A t \in Terms : OpsAt(t)
  /\ DataOK' /\ StacksOK' /\ (\A f \in Frames' : Holds(f)')
       /\ (\A t \in Terms : OpsAt(t)')
     => OpsInv'
PROOF
<1>1. ASSUME SetupInv  PROVE (\A f \in Frames : Holds(f))
                             /\ \A t \in Terms : OpsAt(t)
  <2>1. OpsInv  BY <1>1 DEF SetupInv
  <2>2. \A f \in Frames : Holds(f)  BY <2>1 DEF OpsInv, HandlersHold, Holds
  <2>3. \A x \in ops : OpAt(x)
    BY <2>1 DEF OpsInv, OpsCurrent, FreeingOrder, OpAt
  <2>4. \A x, y \in ops : x.t = y.t /\ Current(y) => Before(x, y)
    BY <2>1 DEF OpsInv, OneCurrent, FreeingOrder, Before
  <2>5. \A f \in Frames : Active(f) => ActiveAt(f)
    BY <2>1 DEF OpsInv, ActiveOwns, ActiveAt
  <2>. QED  BY <2>2, <2>3, <2>4, <2>5 DEF OpsAt
<1>2. ASSUME DataOK', StacksOK', \A f \in Frames' : Holds(f)',
             \A t \in Terms : OpsAt(t)'
      PROVE  OpsInv'
  <2>1. \A x \in ops' : x.t \in Terms
    BY <1>2 DEF DataOK, Ops
  <2>2. \A f \in Frames' : f.op.t \in Terms
    <3>1. \A f : f \in Frames' <=> \E s \in threads' : f \in FramesIn(s)
      BY DEF Frames
    <3>2. \A s \in threads' : s \in Seq(FrameSet) /\ DOMAIN s = 1 .. Len(s)
      BY <1>2, LenProperties DEF StacksOK
    <3>3. \A s \in threads' : FramesIn(s) \subseteq FrameSet
      BY <3>2, ElementOfSeq DEF FramesIn
    <3>4. Frames' \subseteq FrameSet  BY <3>1, <3>3
    <3>. QED  BY <3>4, KindFacts DEF FrameSet
  <2>3. HandlersHold'  BY <1>2 DEF HandlersHold, Holds
  <2>4. \A x \in ops' : OpAt(x)'  BY <1>2, <2>1 DEF OpsAt
  <2>5. \A x, y \in ops' : x.t = y.t /\ Current(y)' => Before(x, y)'
    BY <1>2, <2>1 DEF OpsAt
  <2>6. \A f \in Frames' : Active(f) => ActiveAt(f)'
    BY <1>2, <2>2 DEF OpsAt
  <2>7. OpsCurrent'  BY <2>4 DEF OpsCurrent, OpAt
  <2>8. OneCurrent'  BY <2>5 DEF OneCurrent, Before
  <2>9. FreeingOrder'  BY <2>4, <2>5 DEF FreeingOrder, OpAt, Before
  <2>10. ActiveOwns'  BY <2>6 DEF ActiveOwns, ActiveAt
  <2>. QED  BY <2>3, <2>7, <2>8, <2>9, <2>10 DEF OpsInv
<1>. QED  BY <1>1, <1>2

(* Only three kinds of operations end after another handler has run.       *)
LEMMA FreeingIs ==
  ASSUME SetupInv
  PROVE  \A x : Freeing(x) => /\ x \in ops
                              /\ x.kind \in {"connReq", "connect", "agree"}
                              /\ term[x.t].started
PROOF
<1>. SUFFICES ASSUME NEW x, Freeing(x)
              PROVE  /\ x \in ops
                     /\ x.kind \in {"connReq", "connect", "agree"}
                     /\ term[x.t].started
  OBVIOUS
<1>1. Frame("free", x).pc = "free" /\ Frame("free", x).op = x  BY DEF Frame
<1>2. x \in ops  BY <1>1 DEF SetupInv, OpsInv, HandlersHold, Freeing
<1>. QED  BY <1>2 DEF SetupInv, OpsInv, FreeingOrder

(* Terminals the step has nothing to do with.                              *)
Untouched(u) ==
  /\ \A x \in ops \cup ops' : x.t = u => x \in ops /\ x \in ops'
  /\ \A f \in Frames' : f.op.t = u => f \in Frames
  /\ \A f \in Frames : f.op.t = u /\ f.pc # "return" => f \in Frames'
  /\ u \in Pooled' <=> u \in Pooled
  /\ term'[u].att = term[u].att
  /\ term'[u].started = term[u].started
  /\ term'[u].closer = "none" <=> term[u].closer = "none"

LEMMA OpsElsewhere ==
  ASSUME SetupInv, NEW u \in Terms, Untouched(u),
         allocs' \in Nat, allocs <= allocs'
  PROVE  OpsAt(u)'
PROOF
<1>1. OpsAt(u)  BY OpsAtIs
<1>2. \A pc, x : Frame(pc, x).pc = pc /\ Frame(pc, x).op = x  BY DEF Frame
<1>3. \A x \in ops' : x.t = u => x \in ops  BY DEF Untouched
<1>4. \A x : x.t = u =>
        /\ Freeing(x)' <=> Freeing(x)
        /\ Frame("shake", x) \in Frames' <=> Frame("shake", x) \in Frames
        /\ Current(x)' <=> Current(x)
  BY <1>2 DEF Untouched, Freeing, Current
<1>5. ASSUME NEW x \in ops', x.t = u  PROVE OpAt(x)'
  <2>1. x \in ops /\ OpAt(x)  BY <1>1, <1>3, <1>5 DEF OpsAt
  <2>2. x.att <= allocs'
    <3>1. x.att \in 1 .. MaxAtt /\ x.att <= allocs
      BY <2>1, OpOwns
    <3>2. MaxAtt \in Nat /\ allocs \in Nat  BY AttFacts DEF SetupInv
    <3>. QED  BY <3>1, <3>2
  <2>. QED  BY <1>4, <1>5, <2>1, <2>2 DEF OpAt, Untouched
<1>6. ASSUME NEW x \in ops', NEW y \in ops', x.t = u, y.t = u, Current(y)'
      PROVE  Before(x, y)'
  <2>1. x \in ops /\ y \in ops /\ Current(y)  BY <1>3, <1>4, <1>6
  <2>. QED  BY <1>1, <1>4, <1>6, <2>1 DEF OpsAt, Before
<1>7. ASSUME NEW f \in Frames', Active(f), f.op.t = u  PROVE ActiveAt(f)'
  <2>1. f \in Frames /\ ActiveAt(f)  BY <1>1, <1>7 DEF Untouched, OpsAt
  <2>2. f.op \in Calls
    BY <1>7, <2>1, FrameFacts, KindFacts DEF SetupInv, FrameSet, Active
  <2>3. Op("connect", f.op) \in Ops /\ Op("connect", f.op).t = u
    BY <1>7, <2>2, OpFacts DEF Kinds
  <2>. QED  BY <1>7, <2>1, <2>3 DEF ActiveAt, Untouched
<1>. QED  BY <1>5, <1>6, <1>7 DEF OpsAt

(* The step of op with frames of its own terminal only.                    *)
LEMMA BecomesUntouched ==
  ASSUME NEW op, NEW sure, NEW maybe, Becomes(op, sure, maybe),
         \A f \in sure \cup maybe : f.op.t = op.t,
         \A x \in ops \cup ops' : x.t # op.t => x \in ops /\ x \in ops',
         NEW u \in Terms, u # op.t,
         u \in Pooled' <=> u \in Pooled,
         term'[u].att = term[u].att, term'[u].started = term[u].started,
         term'[u].closer = term[u].closer
  PROVE  Untouched(u)
PROOF BY DEF Untouched, Becomes, Others

(* Frames hold their operations.                                           *)
LEMMA HoldsAfter ==
  ASSUME SetupInv, NEW op, NEW sure, NEW maybe, Becomes(op, sure, maybe),
         ops \ {op} \subseteq ops', UNCHANGED allocs,
         \A f \in sure \cup maybe : Holds(f)'
  PROVE  \A f \in Frames' : Holds(f)'
PROOF
<1>1. \A f \in Frames : Holds(f)  BY OpsAtIs
<1>. QED  BY <1>1 DEF Becomes, Others, Holds

(* A terminal that only has registrations under way.                       *)
LEMMA OpsAlone ==
  ASSUME SetupInv, NEW t, UNCHANGED allocs,
         \A x \in ops' : x.t = t => x \in ops /\ x.kind \in RegKinds,
         \A f \in Frames' : Active(f) => f.op.t # t,
         \A x : x \in ops /\ x \in ops' /\ Freeing(x)' => Freeing(x)
  PROVE  OpsAt(t)'
PROOF
<1>1. ASSUME NEW x \in ops', x.t = t
      PROVE  OpAt(x)' /\ ~ Current(x)'
  <2>1. x \in ops /\ x.kind \in RegKinds  BY <1>1
  <2>2. ~ Freeing(x)'  BY <1>1, <2>1, FreeingIs DEF RegKinds
  <2>3. x.att <= allocs'  BY <2>1, OpOwns
  <2>. QED  BY <2>1, <2>2, <2>3 DEF OpAt, Current, RegKinds
<1>. QED  BY <1>1 DEF OpsAt

-----------------------------------------------------------------------------
(* Operations and frames after each step.                                  *)

(* Registrations, and the ends of handlers.                                *)
LEMMA OpsQuiet ==
  ASSUME SetupInv, NEW op \in Ops \cup Calls, NEW sure, NEW maybe,
         Becomes(op, sure, maybe),
         \A f \in sure : f.op = op /\ f.pc \in {"regMem", "issue", "wait"},
         \A f \in maybe : f.pc = "run" /\ f.op \in Ops /\ f.op.t = op.t
                          /\ f.op.kind \in RegKinds,
         \A f \in sure \cup maybe : Holds(f)',
         \A x \in ops' : x \in ops \/ (x \in Ops /\ x.t = op.t /\ x.att = op.att
                                       /\ x.kind \in RegKinds),
         \A x \in ops : x \in ops' \/ x = op,
         \/ op \in Calls /\ \E pc \in {"regions", "regMem"} : CallIs(op, pc)
         \/ op \in ops /\ op.kind \in RegKinds
         \/ op \in ops /\ sure = {} /\ op \notin ops'
              /\ (op.kind = "notify" \/ Freeing(op)),
         UNCHANGED allocs, Pooled' = Pooled,
         \A u \in Terms : /\ term'[u].att = term[u].att
                          /\ term'[u].started = term[u].started
                          /\ term'[u].closer = term[u].closer
  PROVE  (\A f \in Frames' : Holds(f)') /\ \A u \in Terms : OpsAt(u)'
PROOF
<1>. DEFINE t == op.t
<1>1. t \in Terms /\ op.att <= allocs
  BY KindFacts, OpOwns, CallOwns
<1>2. \A f \in Frames' : Holds(f)'
  BY HoldsAfter
<1>3. ASSUME NEW u \in Terms, u # t  PROVE OpsAt(u)'
  <2>1. Untouched(u)  BY <1>3, BecomesUntouched
  <2>. QED  BY <2>1, OpsElsewhere, AttFacts DEF SetupInv
<1>4. OpsAt(t)  BY <1>1, OpsAtIs
<1>5. \A x \in ops' : x.kind \notin RegKinds => x \in ops /\ x # op
  <2>1. ops \subseteq Ops  BY DEF SetupInv, DataOK
  <2>. QED  BY <2>1, KindFacts
<1>6. /\ \A f \in Frames' : \/ f \in Frames /\ f.op # op
                            \/ f \in sure \/ f \in maybe
      /\ \A pc \in {"free", "shake"} : \A x : x # op =>
           (Frame(pc, x) \in Frames' <=> Frame(pc, x) \in Frames)
      /\ \A pc \in {"free", "shake"} : Frame(pc, op) \notin Frames'
  <2>1. \A pc : Frame(pc, op).pc = pc  BY DEF Frame
  <2>. QED  BY <2>1, FramesAfter
<1>7. \A x \in ops' : x.kind \notin RegKinds =>
        /\ Freeing(x)' <=> Freeing(x)
        /\ Frame("shake", x) \in Frames' <=> Frame("shake", x) \in Frames
        /\ Current(x)' <=> Current(x)
  BY <1>5, <1>6 DEF Freeing, Current
<1>8. \A x \in ops' : x.kind \in RegKinds => ~ Freeing(x)' /\ ~ Current(x)'
  <2>1. \A x \in ops' : x.kind \in RegKinds => ~ Freeing(x)
    BY FreeingIs DEF RegKinds
  <2>. QED  BY <1>6, <2>1 DEF Freeing, Current
<1>9. ASSUME NEW x \in ops', x.t = t  PROVE OpAt(x)'
  <2>1. x.att <= allocs'  BY <1>1, OpOwns
  <2>2. CASE x.kind \in RegKinds
    BY <1>8, <2>1, <2>2 DEF OpAt, RegKinds
  <2>3. CASE x.kind \notin RegKinds
    <3>1. x \in ops /\ OpAt(x)  BY <1>4, <1>5, <1>9, <2>3 DEF OpsAt
    <3>. QED  BY <1>1, <1>7, <1>9, <2>1, <2>3, <3>1 DEF OpAt
  <2>. QED  BY <2>2, <2>3
<1>10. ASSUME NEW x \in ops', NEW y \in ops', x.t = t, y.t = t, Current(y)'
       PROVE  Before(x, y)'
  <2>1. y.kind \notin RegKinds /\ y \in ops /\ Current(y)
    BY <1>5, <1>7, <1>10 DEF Current
  <2>2. CASE x.kind \in RegKinds  BY <1>8, <2>2 DEF Before
  <2>3. CASE x.kind \notin RegKinds
    <3>1. x \in ops /\ Before(x, y)
      BY <1>4, <1>5, <1>10, <2>1, <2>3 DEF OpsAt
    <3>. QED  BY <1>7, <2>3, <3>1 DEF Before
  <2>. QED  BY <2>2, <2>3
<1>11. ASSUME NEW f \in Frames', Active(f), f.op.t = t  PROVE ActiveAt(f)'
  <2>1. CASE f \in Frames /\ f.op # op
    <3>1. ActiveAt(f)  BY <1>4, <1>11, <2>1 DEF OpsAt
    <3>2. f.op \in Calls
      BY <1>11, <2>1, FrameFacts, KindFacts DEF SetupInv, FrameSet, Active
    <3>3. /\ Op("connect", f.op) \in Ops /\ Op("connect", f.op).t = t
          /\ Op("connect", f.op).kind = "connect"
      BY <1>11, <3>2, OpFacts DEF Kinds
    <3>4. op # Op("connect", f.op)
      <4>1. ~ term[t].started  BY <1>11, <3>1 DEF ActiveAt
      <4>. QED  BY <3>3, <4>1, KindFacts, FreeingIs DEF RegKinds
    <3>5. f.pc = "shake" => \A g \in Frames' : g.op # Op("connect", f.op)
      BY <1>6, <3>1, <3>3, <3>4 DEF ActiveAt, RegKinds
    <3>. QED  BY <1>1, <1>5, <1>11, <3>1, <3>4, <3>5 DEF ActiveAt
  <2>2. CASE f \in sure
    <3>1. /\ op \in Calls /\ f.op = op /\ f.pc # "shake"
          /\ \E pc \in {"regions", "regMem"} : CallIs(op, pc)
      BY <1>11, <2>2, KindFacts DEF Active, CallKinds, RegKinds, Kinds
    <3>2. /\ t \notin Pooled /\ op.att = term[t].att
          /\ ~ term[t].started /\ term[t].closer = "none"
          /\ \A x \in ops : x.t = t => x.kind \in RegKinds
      BY <3>1, CallOwns
    <3>. QED  BY <1>1, <1>5, <1>11, <3>1, <3>2 DEF ActiveAt
  <2>3. CASE f \in maybe
    BY <1>11, <2>3, KindFacts DEF Active
  <2>. QED  BY <1>6, <2>1, <2>2, <2>3
<1>12. OpsAt(t)'  BY <1>9, <1>10, <1>11 DEF OpsAt
<1>. QED  BY <1>2, <1>3, <1>12

(* Steps that leave operations and frames alone.                           *)
LEMMA OpsStill ==
  ASSUME SetupInv, UNCHANGED <<Frames, ops>>, Pooled' = Pooled,
         allocs' \in Nat, allocs <= allocs',
         \A u \in Terms :
           /\ term'[u].att = term[u].att
           /\ term'[u].started = term[u].started
           /\ term'[u].closer = "none" <=> term[u].closer = "none"
  PROVE  (\A f \in Frames' : Holds(f)') /\ \A u \in Terms : OpsAt(u)'
PROOF
<1>1. \A u \in Terms : Untouched(u)  BY DEF Untouched
<1>2. ASSUME NEW f \in Frames  PROVE Holds(f)'
  <2>1. Holds(f)  BY OpsAtIs
  <2>2. CASE f.op.kind \in CallKinds
    <3>1. f.op.att <= allocs  BY <2>1, <2>2 DEF Holds
    <3>2. f.op.att \in 1 .. MaxAtt
      BY <2>2, FrameFacts, KindFacts DEF SetupInv, FrameSet
    <3>3. allocs \in Nat /\ MaxAtt \in Nat  BY AttFacts DEF SetupInv
    <3>4. f.op.att <= allocs'  BY <3>1, <3>2, <3>3
    <3>. QED  BY <2>1, <2>2, <3>4 DEF Holds
  <2>3. CASE f.op.kind \notin CallKinds  BY <2>1, <2>3 DEF Holds
  <2>. QED  BY <2>2, <2>3
<1>. QED  BY <1>1, <1>2, OpsElsewhere

(* A terminal goes back to the pool after op, or its closer.               *)
LEMMA OpsGivenBack ==
  ASSUME SetupInv, NEW op, NEW sure, Becomes(op, sure, {}), GivenBack(op.t),
         \A f \in sure : f.op = op /\ f.pc = "return" /\ Holds(f)',
         ops' \subseteq ops, \A x \in ops : x \in ops' \/ x = op,
         \A x \in ops' : x.t = op.t => x.kind \in RegKinds,
         \A f \in Frames : Active(f) /\ f.op.t = op.t => f.op = op
  PROVE  (\A f \in Frames' : Holds(f)') /\ \A u \in Terms : OpsAt(u)'
PROOF
<1>1. op.t \in Terms /\ UNCHANGED allocs  BY DEF GivenBack
<1>2. Pooled' = Pooled \cup {op.t}
  BY PoolGivenBack DEF SetupInv
<1>3. \A f \in Frames' : Holds(f)'
  BY <1>1, HoldsAfter
<1>4. ASSUME NEW u \in Terms, u # op.t  PROVE OpsAt(u)'
  <2>1. Untouched(u)  BY <1>2, <1>4, BecomesUntouched DEF GivenBack
  <2>. QED  BY <1>1, <2>1, OpsElsewhere, AttFacts DEF SetupInv
<1>5. \A f \in Frames' : Active(f) => f.op.t # op.t
  BY DEF Becomes, Others, Active
<1>6. \A x : Freeing(x)' => Freeing(x)
  <2>1. \A x : Frame("free", x).pc = "free"  BY DEF Frame
  <2>. QED  BY <2>1 DEF Freeing, Becomes, Others
<1>7. OpsAt(op.t)'  BY <1>1, <1>5, <1>6, OpsAlone
<1>. QED  BY <1>3, <1>4, <1>7

(* ... from its closer.                                                    *)
LEMMA OpsClosed ==
  ASSUME SetupInv, NEW t \in Terms, CloseStep(t)
  PROVE  (\A f \in Frames' : Holds(f)') /\ \A u \in Terms : OpsAt(u)'
PROOF
<1>1. t \notin Pooled /\ Alone(t)  BY AloneFacts
<1>2. UNCHANGED <<Frames, ops, allocs>>  BY DEF CloseStep
<1>3. GivenBack(t)  BY <1>1, <1>2, FreePool DEF SetupInv
<1>4. Pooled' = Pooled \cup {t}  BY <1>3, PoolGivenBack DEF SetupInv
<1>5. \A f \in Frames' : Holds(f)'
  BY <1>2, OpsAtIs DEF Holds
<1>6. ASSUME NEW u \in Terms, u # t  PROVE OpsAt(u)'
  <2>1. Untouched(u)  BY <1>2, <1>3, <1>4, <1>6 DEF Untouched, GivenBack
  <2>. QED  BY <1>2, <2>1, OpsElsewhere, AttFacts DEF SetupInv
<1>7. OpsAt(t)'  BY <1>1, <1>2, OpsAlone DEF Alone, Freeing
<1>. QED  BY <1>5, <1>6, <1>7

(* A terminal is taken from the pool.                                      *)
LEMMA OpsAlloc ==
  ASSUME SetupInv, NEW kind, AllocStep(kind)
  PROVE  (\A f \in Frames' : Holds(f)') /\ \A u \in Terms : OpsAt(u)'
PROOF
<1>t. PICK t : t = Head(connPool)  OBVIOUS
<1>c. PICK c : c = [kind |-> kind, t |-> t, att |-> allocs + 1]  OBVIOUS
<1>g. PICK g : g = Frame("regions", c)  OBVIOUS
<1>1. /\ Pooled' = Pooled \ {t} /\ t \in Pooled /\ t \in Terms
      /\ allocs' = allocs + 1 /\ allocs \in Nat /\ term'[t].att = allocs + 1
      /\ \A u \in Terms :
           /\ term'[u].started = term[u].started
           /\ term'[u].closer = term[u].closer
           /\ u # t => term'[u] = term[u]
  BY <1>t, PoolAlloc DEF SetupInv
<1>2. /\ Frames' = Frames \cup {g} /\ UNCHANGED ops
      /\ kind \in CallKinds
  BY <1>t, <1>c, <1>g DEF AllocStep
<1>3. /\ g.op = c /\ g.pc = "regions"
      /\ c.kind = kind /\ c.t = t /\ c.att = allocs + 1
  BY <1>c, <1>g DEF Frame
<1>4. Alone(t)  BY <1>1, AloneFacts
<1>5. ~ term[t].started /\ term[t].closer = "none"
  BY <1>1 DEF SetupInv, PoolInv, PoolClean
<1>6. allocs' \in Nat /\ allocs <= allocs'  BY <1>1
<1>7. ASSUME NEW f \in Frames'  PROVE Holds(f)'
  <2>1. CASE f \in Frames
    <3>1. Holds(f)  BY <2>1, OpsAtIs
    <3>2. CASE f.op.kind \in CallKinds
      <4>1. f.op.att <= allocs  BY <3>1, <3>2 DEF Holds
      <4>2. f.op.att \in 1 .. MaxAtt
        BY <2>1, <3>2, FrameFacts, KindFacts DEF SetupInv, FrameSet
      <4>3. allocs \in Nat /\ MaxAtt \in Nat  BY AttFacts DEF SetupInv
      <4>4. f.op.att <= allocs'  BY <1>6, <4>1, <4>2, <4>3
      <4>. QED  BY <3>1, <3>2, <4>4 DEF Holds
    <3>3. CASE f.op.kind \notin CallKinds  BY <1>2, <3>1, <3>3 DEF Holds
    <3>. QED  BY <3>2, <3>3
  <2>2. CASE f = g
    <3>1. c.att <= allocs'  BY <1>1, <1>3
    <3>. QED  BY <1>2, <1>3, <2>2, <3>1 DEF Holds
  <2>. QED  BY <1>2, <2>1, <2>2
<1>8. ASSUME NEW u \in Terms, u # t  PROVE OpsAt(u)'
  <2>1. Untouched(u)  BY <1>1, <1>2, <1>3, <1>8 DEF Untouched
  <2>. QED  BY <1>6, <2>1, OpsElsewhere
<1>9. OpsAt(t)'
  <2>1. \A x : ~ Freeing(x) => ~ Freeing(x)'
    <3>1. \A x : Frame("free", x).pc = "free"  BY DEF Frame
    <3>. QED  BY <1>2, <1>3, <3>1 DEF Freeing
  <2>2. ASSUME NEW x \in ops', x.t = t
        PROVE  OpAt(x)' /\ ~ Current(x)'
    <3>1. x \in ops /\ x.kind \in RegKinds  BY <1>2, <1>4, <2>2 DEF Alone
    <3>2. ~ Freeing(x)'  BY <2>1, <3>1, FreeingIs DEF RegKinds
    <3>3. x.att <= allocs'
      <4>1. x.att \in 1 .. MaxAtt /\ x.att <= allocs  BY <3>1, OpOwns
      <4>2. MaxAtt \in Nat  BY AttFacts DEF SetupInv
      <4>. QED  BY <1>1, <4>1, <4>2
    <3>. QED  BY <3>1, <3>2, <3>3 DEF OpAt, Current, RegKinds
  <2>3. ASSUME NEW f \in Frames', Active(f), f.op.t = t  PROVE ActiveAt(f)'
    <3>1. f = g  BY <1>2, <1>4, <2>3 DEF Alone
    <3>2. f.op = c /\ f.pc = "regions"  BY <1>3, <3>1
    <3>3. \A x \in ops' : x.t = t => x.kind \in RegKinds
      BY <1>2, <1>4 DEF Alone
    <3>4. /\ t \notin Pooled' /\ c.att = term'[t].att
          /\ ~ term'[t].started /\ term'[t].closer = "none"
      BY <1>1, <1>3, <1>5
    <3>. QED  BY <1>3, <3>2, <3>3, <3>4 DEF ActiveAt
  <2>. QED  BY <2>2, <2>3 DEF OpsAt
<1>. QED  BY <1>7, <1>8, <1>9

(* What all steps of op leave of its operations and frames.                *)
LEMMA OpsOthers ==
  ASSUME SetupInv, NEW op \in Ops \cup Calls, NEW sure, NEW maybe,
         Becomes(op, sure, maybe),
         \A f \in sure : f.op = op,
         \A f \in maybe : f.pc = "run" /\ f.op.t = op.t,
         \A f \in sure \cup maybe : Holds(f)',
         \A x \in ops' : x \in ops \/ x.t = op.t,
         \A x \in ops : x \in ops' \/ x = op,
         UNCHANGED allocs, Pooled' = Pooled,
         \A u \in Terms : /\ term'[u].att = term[u].att
                          /\ u # op.t => /\ term'[u].started = term[u].started
                                         /\ term'[u].closer = term[u].closer
  PROVE  /\ \A f \in Frames' : Holds(f)'
         /\ \A u \in Terms : u # op.t => OpsAt(u)'
         /\ \A f \in Frames' : \/ f \in Frames /\ f.op # op
                               \/ f \in sure \/ f \in maybe
         /\ \A x : x # op => /\ Freeing(x)' <=> Freeing(x)
                             /\ Frame("shake", x) \in Frames'
                                  <=> Frame("shake", x) \in Frames
                             /\ Current(x)' <=> Current(x)
         /\ Freeing(op)' <=> Frame("free", op) \in sure
         /\ Frame("shake", op) \in Frames' <=> Frame("shake", op) \in sure
PROOF
<1>1. \A f \in Frames' : Holds(f)'  BY HoldsAfter
<1>2. ASSUME NEW u \in Terms, u # op.t  PROVE OpsAt(u)'
  <2>1. Untouched(u)  BY <1>2, BecomesUntouched
  <2>. QED  BY <2>1, OpsElsewhere, AttFacts DEF SetupInv
<1>3. /\ \A f \in Frames' : \/ f \in Frames /\ f.op # op
                            \/ f \in sure \/ f \in maybe
      /\ \A pc \in {"free", "shake"} : \A x : x # op =>
           (Frame(pc, x) \in Frames' <=> Frame(pc, x) \in Frames)
      /\ \A pc \in {"free", "shake"} :
           Frame(pc, op) \in Frames' <=> Frame(pc, op) \in sure
  BY FramesAfter
<1>. QED  BY <1>1, <1>2, <1>3 DEF Freeing, Current

(* The first asynchronous call for a terminal, by Accept or Connect.       *)
LEMMA OpsFirst ==
  ASSUME SetupInv, NEW c \in Calls, CallIs(c, "issue"),
         NEW kind \in {"connReq", "connect"}, NEW pc \in {"return", "shake"},
         NEW maybe, Becomes(c, {Frame(pc, c)}, maybe),
         maybe \subseteq {Frame("run", Op(kind, c))},
         pc = "shake" => kind = "connect" /\ c.kind = "Connect" /\ maybe = {},
         ops' = ops \cup {Op(kind, c)}, NoData
  PROVE  (\A f \in Frames' : Holds(f)') /\ \A u \in Terms : OpsAt(u)'
PROOF
<1>n. PICK n : n = Op(kind, c)  OBVIOUS
<1>1. /\ n \in Ops /\ n.kind = kind /\ n.t = c.t /\ n.att = c.att
  BY <1>n, OpFacts DEF Kinds
<1>2. /\ c.t \in Terms /\ c.t \notin Pooled /\ c.att = term[c.t].att
      /\ c.att <= allocs
      /\ ~ term[c.t].started /\ term[c.t].closer = "none"
      /\ \A x \in ops : x.t = c.t => x.kind \in RegKinds
      /\ \A f \in Frames : Active(f) /\ f.op.t = c.t => f = Frame("issue", c)
  BY CallOwns
<1>3. n \notin ops  BY <1>1, <1>2 DEF RegKinds
<1>4. \A g \in Frames : g.op # n
  BY <1>1, <1>3, KindFacts DEF SetupInv, OpsInv, HandlersHold
<1>5. /\ \A p, x : Frame(p, x).pc = p /\ Frame(p, x).op = x
      /\ c.kind \in CallKinds
  BY KindFacts DEF Frame
<1>6. Pooled' = Pooled /\ UNCHANGED <<term, allocs>>
  BY DEF NoData, Pooled
<1>7. \A f \in {Frame(pc, c)} \cup maybe : Holds(f)'
  BY <1>n, <1>1, <1>2, <1>5, <1>6, KindFacts DEF Holds
<1>8. /\ \A f \in Frames' : Holds(f)'
      /\ \A u \in Terms : u # c.t => OpsAt(u)'
      /\ \A f \in Frames' : \/ f \in Frames /\ f.op # c
                            \/ f = Frame(pc, c) \/ f \in maybe
      /\ \A x : x # c => /\ Freeing(x)' <=> Freeing(x)
                         /\ Frame("shake", x) \in Frames'
                              <=> Frame("shake", x) \in Frames
  <2>1. \A f \in maybe : f.pc = "run" /\ f.op.t = c.t
    BY <1>n, <1>1, <1>5
  <2>2. \A f \in {Frame(pc, c)} : f.op = c  BY <1>5
  <2>. QED
    BY <1>n, <1>1, <1>6, <1>7, <2>1, <2>2, OpsOthers
<1>9. n # c  BY <1>1, KindFacts
<1>10. ~ Freeing(n)' /\ Frame("shake", n) \notin Frames'
  BY <1>4, <1>5, <1>8, <1>9 DEF Freeing
<1>11. ASSUME NEW x \in ops', x.t = c.t
       PROVE  /\ OpAt(x)' /\ ~ Freeing(x)'
              /\ x = n \/ (x \in ops /\ x.kind \in RegKinds)
  <2>1. CASE x = n
    BY <1>1, <1>2, <1>6, <1>10, <2>1 DEF OpAt, RegKinds
  <2>2. CASE x \in ops
    <3>1. x.kind \in RegKinds /\ x # c /\ x.att <= allocs
      BY <1>2, <1>11, <2>2, OpOwns, KindFacts
    <3>2. ~ Freeing(x)'  BY <1>8, <2>2, <3>1, FreeingIs DEF RegKinds
    <3>. QED  BY <1>6, <2>2, <3>1, <3>2 DEF OpAt, Current, RegKinds
  <2>. QED  BY <1>n, <1>11, <2>1, <2>2
<1>12. ASSUME NEW f \in Frames', Active(f), f.op.t = c.t  PROVE ActiveAt(f)'
  <2>1. f = Frame(pc, c)
    BY <1>n, <1>1, <1>2, <1>5, <1>8, <1>12, KindFacts DEF Active
  <2>2. /\ f.op = c /\ f.pc = "shake"
        /\ kind = "connect" /\ c.kind = "Connect" /\ maybe = {}
    BY <1>5, <1>12, <2>1 DEF Active
  <2>3. n = Op("connect", f.op)  BY <1>n, <2>2
  <2>4. \A g \in Frames' : g.op # n
    BY <1>4, <1>5, <1>8, <1>9, <2>2
  <2>5. n \in ops'  BY <1>n
  <2>6. \A x \in ops' : x.t = c.t /\ x.kind \notin RegKinds => x = n
    BY <1>11
  <2>. QED  BY <1>2, <1>6, <2>2, <2>3, <2>4, <2>5, <2>6 DEF ActiveAt
<1>13. OpsAt(c.t)'
  <2>1. \A x, y \in ops' : x.t = c.t /\ y.t = c.t /\ Current(y)' =>
          Before(x, y)'
    BY <1>11 DEF Before, Current
  <2>. QED  BY <1>11, <1>12, <2>1 DEF OpsAt
<1>. QED  BY <1>8, <1>13

(* The handshake data of a client are there.                               *)
LEMMA OpsConnect ==
  ASSUME SetupInv, NEW c \in Calls, ConnectStep(c)
  PROVE  (\A f \in Frames' : Holds(f)') /\ \A u \in Terms : OpsAt(u)'
PROOF
<1>n. PICK n : n = Op("connect", c)  OBVIOUS
<1>1. /\ n \in Ops /\ n.kind = "connect" /\ n.t = c.t /\ n.att = c.att
  BY <1>n, OpFacts DEF Kinds
<1>c. CallIs(c, "shake") /\ UNCHANGED <<ops, connPool, term, allocs>>
  BY DEF ConnectStep
<1>2. /\ c.t \in Terms /\ c.att <= allocs /\ n \in ops
      /\ ~ term[c.t].started /\ term[c.t].closer = "none"
      /\ \A f \in Frames : Active(f) /\ f.op.t = c.t => f = Frame("shake", c)
      /\ \A x \in ops : x.t = c.t /\ x.kind \notin RegKinds => x = n
  BY <1>c, <1>n, CallOwns
<1>5. /\ \A p, x : Frame(p, x).pc = p /\ Frame(p, x).op = x
      /\ c.kind \in CallKinds
  BY KindFacts DEF Frame
<1>6. Pooled' = Pooled  BY <1>c DEF Pooled
<1>7. Becomes(c, {Frame("return", c)}, {Frame("run", n)})
  BY <1>n DEF ConnectStep
<1>8. \A f \in {Frame("return", c)} \cup {Frame("run", n)} : Holds(f)'
  BY <1>c, <1>1, <1>2, <1>5, KindFacts DEF Holds
<1>9. /\ \A f \in Frames' : Holds(f)'
      /\ \A u \in Terms : u # c.t => OpsAt(u)'
      /\ \A f \in Frames' : \/ f \in Frames /\ f.op # c
                            \/ f = Frame("return", c) \/ f = Frame("run", n)
      /\ \A x : x # c => /\ Freeing(x)' <=> Freeing(x)
                         /\ Frame("shake", x) \in Frames'
                              <=> Frame("shake", x) \in Frames
                         /\ Current(x)' <=> Current(x)
  <2>1. \A f \in {Frame("return", c)} : f.op = c  BY <1>5
  <2>2. \A f \in {Frame("run", n)} : f.pc = "run" /\ f.op.t = c.t
    BY <1>1, <1>5
  <2>. QED  BY <1>c, <1>6, <1>7, <1>8, <2>1, <2>2, OpsOthers
<1>10. OpsAt(c.t)  BY <1>2, OpsAtIs
<1>11. \A x \in ops : x # c  BY OpOwns, KindFacts
<1>12. \A f \in Frames' : Active(f) => f.op.t # c.t
  BY <1>1, <1>2, <1>5, <1>9, KindFacts DEF Active
<1>13. \A x \in ops' : x.t = c.t => OpAt(x)'
  BY <1>c, <1>6, <1>9, <1>10, <1>11 DEF OpsAt, OpAt
<1>14. \A x, y \in ops' : x.t = c.t /\ y.t = c.t /\ Current(y)' => Before(x, y)'
  BY <1>c, <1>9, <1>10, <1>11 DEF OpsAt, Before
<1>15. OpsAt(c.t)'  BY <1>12, <1>13, <1>14 DEF OpsAt
<1>. QED  BY <1>9, <1>15

(* The request has come, and the terminal is started.                      *)
LEMMA OpsStart ==
  ASSUME SetupInv, NEW op \in Ops, StartStep(op)
  PROVE  (\A f \in Frames' : Holds(f)') /\ \A u \in Terms : OpsAt(u)'
PROOF
<1>n. PICK n : n = Op("notify", op)  OBVIOUS
<1>1. /\ n \in Ops /\ n.kind = "notify" /\ n.t = op.t /\ n.att = op.att
  BY <1>n, OpFacts DEF Kinds
<1>2. /\ op \in ops /\ op.kind = "connReq" /\ ~ Freeing(op)
      /\ Frame("shake", op) \notin Frames
      /\ ops' = ops \cup {n} /\ UNCHANGED <<connPool, allocs>>
      /\ term' = [term EXCEPT ![op.t].started = TRUE]
      /\ Becomes(op, {Frame("shake", op)}, {})
  BY <1>n DEF StartStep, Begins
<1>3. Current(op)  BY <1>2 DEF Current, RegKinds
<1>4. /\ op.t \in Terms /\ op.t \notin Pooled /\ op.att = term[op.t].att
      /\ term[op.t].closer = "none" /\ op.att <= allocs
      /\ \A f \in Frames : Active(f) => f.op.t # op.t
      /\ ~ term[op.t].started
      /\ \A x \in ops : x.t = op.t /\ x.kind \notin RegKinds => x = op
  BY <1>2, <1>3, CurrentFacts DEF OnlyCurrent
<1>5. \A p, x : Frame(p, x).pc = p /\ Frame(p, x).op = x  BY DEF Frame
<1>6. Pooled' = Pooled  BY <1>2 DEF Pooled
<1>7. \A u \in Terms :
        /\ term'[u].started =
                               IF u = op.t THEN TRUE ELSE term[u].started
        /\ term'[u].closer = term[u].closer
        /\ term'[u].att = term[u].att
  BY <1>2, <1>4, StartUpdate DEF SetupInv
<1>8. \A f \in {Frame("shake", op)} \cup {} : Holds(f)'
  BY <1>2, <1>5, KindFacts DEF Holds
<1>9. /\ \A f \in Frames' : Holds(f)'
      /\ \A u \in Terms : u # op.t => OpsAt(u)'
      /\ \A f \in Frames' : \/ f \in Frames /\ f.op # op
                            \/ f = Frame("shake", op)
      /\ \A x : x # op => Freeing(x)' <=> Freeing(x)
      /\ ~ Freeing(op)' /\ Frame("shake", op) \in Frames'
  <2>1. \A f \in {Frame("shake", op)} : f.op = op  BY <1>5
  <2>2. Frame("free", op) # Frame("shake", op)  BY <1>5
  <2>3. \A x \in ops' : x \in ops \/ x.t = op.t  BY <1>1, <1>2
  <2>4. \A x \in ops : x \in ops' \/ x = op  BY <1>2
  <2>5. PICK sure, none : sure = {Frame("shake", op)} /\ none = {}  OBVIOUS
  <2>6. /\ Becomes(op, sure, none) /\ \A f \in sure : f.op = op
        /\ \A f \in none : f.pc = "run" /\ f.op.t = op.t
        /\ \A f \in sure \cup none : Holds(f)'
        /\ UNCHANGED allocs
    BY <1>2, <1>8, <2>1, <2>5
  <2>7. /\ \A f \in Frames' : Holds(f)'
        /\ \A u \in Terms : u # op.t => OpsAt(u)'
        /\ \A f \in Frames' : \/ f \in Frames /\ f.op # op
                              \/ f \in sure \/ f \in none
        /\ \A x : x # op => Freeing(x)' <=> Freeing(x)
        /\ Freeing(op)' <=> Frame("free", op) \in sure
        /\ Frame("shake", op) \in Frames' <=> Frame("shake", op) \in sure
    <3>1. \A u \in Terms :
            /\ term'[u].att = term[u].att
            /\ u # op.t => /\ term'[u].started = term[u].started
                           /\ term'[u].closer = term[u].closer
      BY <1>7
    <3>2. op \in Ops \cup Calls  OBVIOUS
    <3>. QED  BY <1>6, <2>3, <2>4, <2>6, <3>1, <3>2, OpsOthers
  <2>. QED  BY <2>2, <2>5, <2>7
<1>10. n \notin ops /\ n # op  BY <1>1, <1>2, <1>4 DEF RegKinds
<1>11. ~ Freeing(n)'  BY <1>9, <1>10, FreeingIs
<1>12. ASSUME NEW x \in ops', x.t = op.t
       PROVE  OpAt(x)' /\ ~ Freeing(x)' /\ (Current(x)' => x = op)
  <2>1. CASE x = n
    BY <1>1, <1>4, <1>2, <1>6, <1>7, <1>11, <2>1 DEF OpAt, Current, RegKinds
  <2>2. CASE x = op
    BY <1>2, <1>4, <1>6, <1>7, <1>9, <2>2 DEF OpAt, RegKinds
  <2>3. CASE x \in ops /\ x.kind \in RegKinds
    <3>1. x # op /\ x.att <= allocs'  BY <1>2, <2>3, OpOwns DEF RegKinds
    <3>2. ~ Freeing(x)'  BY <1>9, <2>3, <3>1, FreeingIs DEF RegKinds
    <3>. QED  BY <2>3, <3>1, <3>2 DEF OpAt, Current, RegKinds
  <2>. QED  BY <1>2, <1>4, <1>12, <2>1, <2>2, <2>3
<1>13. \A f \in Frames' : Active(f) => f.op.t # op.t
  BY <1>4, <1>5, <1>9, KindFacts DEF Active
<1>14. \A x, y \in ops' : x.t = op.t /\ y.t = op.t /\ Current(y)' =>
         Before(x, y)'
  BY <1>12 DEF Before
<1>15. OpsAt(op.t)'  BY <1>12, <1>13, <1>14 DEF OpsAt
<1>. QED  BY <1>9, <1>15

(* The handler of op hands the terminal over to the next call.             *)
LEMMA OpsPass ==
  ASSUME SetupInv, NEW op \in ops, Current(op),
         op.kind \in {"connReq", "connect", "agree"},
         NEW kind \in {"agree", "disc"}, Rank(op.kind) < Rank(kind),
         Op(kind, op) \notin ops,
         NEW also, also \subseteq {Op("notify", op)},
         Hands(op, Op(kind, op), also),
         \A f \in Frames : Active(f) => f.op.t # op.t,
         UNCHANGED <<connPool, allocs>>,
         \A u \in Terms : /\ term'[u].att = term[u].att
                          /\ term'[u].closer = term[u].closer
                          /\ term'[u].started =
                               IF u = op.t THEN TRUE ELSE term[u].started
  PROVE  (\A f \in Frames' : Holds(f)') /\ \A u \in Terms : OpsAt(u)'
PROOF
<1>n. PICK n : n = Op(kind, op)  OBVIOUS
<1>m. PICK m : m = Op("notify", op)  OBVIOUS
<1>o. op \in Ops  BY OpOwns
<1>1. /\ n \in Ops /\ n.kind = kind /\ n.t = op.t /\ n.att = op.att
      /\ m \in Ops /\ m.kind = "notify" /\ m.t = op.t /\ m.att = op.att
  BY <1>n, <1>m, <1>o, OpFacts DEF Kinds
<1>2. /\ op.t \in Terms /\ op.t \notin Pooled /\ op.att = term[op.t].att
      /\ term[op.t].closer = "none" /\ op.att <= allocs
      /\ \A x \in ops : x.t = op.t /\ Current(x) => x = op
  BY CurrentFacts DEF OnlyCurrent
<1>3. PICK sure, maybe :
        /\ Becomes(op, sure, maybe)
        /\ \/ ops' = (ops \ {op}) \cup {n} \cup also /\ sure = {} /\ maybe = {}
           \/ /\ ops' = ops \cup {n} \cup also
              /\ sure = {Frame("free", op)} /\ maybe = {Frame("run", n)}
  BY <1>n DEF Hands
<1>4. /\ n \in ops' /\ n # op /\ n \notin ops
      /\ \A x \in ops' : x \in ops \/ x = n \/ x = m
      /\ \A x \in ops : x \in ops' \/ x = op
      /\ op \in ops' => sure = {Frame("free", op)}
  <2>1. op # m  BY <1>1 DEF Current
  <2>. QED  BY <1>n, <1>m, <1>3, <2>1
<1>5. \A p, x : Frame(p, x).pc = p /\ Frame(p, x).op = x  BY DEF Frame
<1>6. Pooled' = Pooled  BY DEF Pooled
<1>7. \A f \in sure \cup maybe : Holds(f)'
  BY <1>1, <1>3, <1>4, <1>5, <1>o, KindFacts DEF Holds
<1>8. /\ \A f \in Frames' : Holds(f)'
      /\ \A u \in Terms : u # op.t => OpsAt(u)'
      /\ \A f \in Frames' : \/ f \in Frames /\ f.op # op
                            \/ f \in sure \/ f \in maybe
      /\ \A x : x # op => /\ Freeing(x)' <=> Freeing(x)
                          /\ Frame("shake", x) \in Frames'
                               <=> Frame("shake", x) \in Frames
                          /\ Current(x)' <=> Current(x)
      /\ Freeing(op)' <=> Frame("free", op) \in sure
  <2>1. \A f \in sure : f.op = op  BY <1>3, <1>5
  <2>2. \A f \in maybe : f.pc = "run" /\ f.op.t = op.t  BY <1>1, <1>3, <1>5
  <2>3. \A x \in ops' : x \in ops \/ x.t = op.t  BY <1>1, <1>4
  <2>4. Becomes(op, sure, maybe) /\ \A x \in ops : x \in ops' \/ x = op
    BY <1>3, <1>4
  <2>. QED  BY <1>o, <1>6, <1>7, <2>1, <2>2, <2>3, <2>4, OpsOthers
<1>9. op \in ops' => Freeing(op)'  BY <1>4, <1>8
<1>10. OpsAt(op.t)  BY <1>2, OpsAtIs
<1>11. ~ Freeing(n)' /\ ~ Freeing(m)' /\ m # op
  <2>1. m # op  BY <1>1 DEF Current
  <2>2. ~ Freeing(n) /\ ~ Freeing(m)  BY <1>1, <1>4, FreeingIs
  <2>. QED  BY <1>4, <1>8, <2>1, <2>2
<1>12. ASSUME NEW x \in ops', x.t = op.t
       PROVE  OpAt(x)' /\ (Current(x)' => x = n)
  <2>1. CASE x = n
    BY <1>1, <1>2, <1>6, <1>11, <2>1 DEF OpAt
  <2>2. CASE x = m
    BY <1>1, <1>2, <1>6, <1>11, <2>2 DEF OpAt, Current
  <2>3. CASE x = op
    BY <1>2, <1>6, <1>9, <1>12, <2>3 DEF OpAt, Current
  <2>4. CASE x \in ops /\ x # op
    <3>1. OpAt(x) /\ ~ Current(x)  BY <1>2, <1>10, <1>12, <2>4 DEF OpsAt
    <3>2. ~ Current(x)'  BY <1>8, <2>4, <3>1
    <3>3. x.kind = "connReq" => Freeing(x)'
      BY <1>8, <2>4, <3>1 DEF Current, RegKinds
    <3>. QED  BY <1>2, <1>6, <1>8, <1>12, <2>4, <3>1, <3>2, <3>3 DEF OpAt
  <2>. QED  BY <1>4, <2>1, <2>2, <2>3, <2>4
<1>13. ASSUME NEW x \in ops', NEW y \in ops', x.t = op.t, y.t = op.t,
              Current(y)'
       PROVE  Before(x, y)'
  <2>1. y = n  BY <1>12, <1>13
  <2>2. Current(x)' => x = y  BY <1>12, <1>13, <2>1
  <2>3. ASSUME Freeing(x)'  PROVE Rank(x.kind) < Rank(y.kind)
    <3>1. CASE x = op  BY <1>1, <2>1, <3>1
    <3>2. CASE x # op
      <4>1. x \in ops /\ Freeing(x)  BY <1>8, <2>3, <3>2, FreeingIs
      <4>2. Rank(x.kind) < Rank(op.kind)
        BY <1>10, <1>13, <4>1 DEF OpsAt, Before
      <4>3. Rank(x.kind) \in Nat /\ Rank(op.kind) \in Nat /\ Rank(kind) \in Nat
        BY DEF Rank
      <4>. QED  BY <1>1, <2>1, <4>2, <4>3
    <3>. QED  BY <3>1, <3>2
  <2>. QED  BY <2>2, <2>3 DEF Before
<1>14. \A f \in Frames' : Active(f) => f.op.t # op.t
  BY <1>1, <1>3, <1>5, <1>8, <1>o, KindFacts DEF Active
<1>15. OpsAt(op.t)'  BY <1>12, <1>13, <1>14 DEF OpsAt
<1>. QED  BY <1>8, <1>15

(* The connection has failed or ended: the rest is up to the closer.       *)
LEMMA OpsDrop ==
  ASSUME SetupInv, NEW op \in Ops, DropStep(op)
  PROVE  (\A f \in Frames' : Holds(f)') /\ \A u \in Terms : OpsAt(u)'
PROOF
<1>1. /\ op \in ops /\ op.kind \in {"agree", "disc"} /\ ~ Freeing(op)
      /\ ops' = ops \ {op} /\ UNCHANGED <<connPool, allocs>>
      /\ term' = Post(op.t) /\ Becomes(op, {}, {})
  BY DEF DropStep, Begins, Leaves
<1>2. Current(op)  BY <1>1 DEF Current, RegKinds
<1>3. /\ op.t \in Terms
      /\ \A x \in ops : x.t = op.t /\ Current(x) => x = op
      /\ \A f \in Frames : Active(f) => f.op.t # op.t
  BY <1>1, <1>2, CurrentFacts DEF OnlyCurrent
<1>4. Pooled' = Pooled  BY <1>1 DEF Pooled
<1>5. \A u \in Terms :
        /\ term'[u].started = term[u].started
        /\ term'[u].att = term[u].att
        /\ u # op.t => term'[u].closer = term[u].closer
  BY <1>1, <1>3, PostFacts DEF SetupInv
<1>6. /\ \A f \in Frames' : Holds(f)'
      /\ \A u \in Terms : u # op.t => OpsAt(u)'
      /\ \A f \in Frames' : f \in Frames /\ f.op # op
      /\ \A x : x # op => /\ Freeing(x)' <=> Freeing(x)
                          /\ Frame("shake", x) \in Frames'
                               <=> Frame("shake", x) \in Frames
                          /\ Current(x)' <=> Current(x)
  BY <1>1, <1>4, <1>5, OpsOthers
<1>7. OpsAt(op.t)  BY <1>3, OpsAtIs
<1>8. ASSUME NEW x \in ops', x.t = op.t  PROVE OpAt(x)' /\ ~ Current(x)'
  <2>1. x \in ops /\ x # op /\ OpAt(x) /\ ~ Current(x)
    BY <1>1, <1>3, <1>7, <1>8 DEF OpsAt
  <2>. QED  BY <1>1, <1>3, <1>4, <1>5, <1>6, <1>8, <2>1 DEF OpAt
<1>9. \A f \in Frames' : Active(f) => f.op.t # op.t  BY <1>3, <1>6
<1>10. OpsAt(op.t)'  BY <1>8, <1>9 DEF OpsAt
<1>. QED  BY <1>6, <1>10

(* Operations and frames after the step of a call ...                      *)
LEMMA OpsCall ==
  ASSUME SetupInv, CallStep
  PROVE  (\A f \in Frames' : Holds(f)') /\ \A u \in Terms : OpsAt(u)'
PROOF
<1>1. PICK c \in Calls :
        \/ InheritStep(c)
        \/ IssueStep(c, "tag", "regions", "regMem")
        \/ IssueStep(c, "mem", "regMem", "issue")
        \/ IssueStep(c, "connReq", "issue", "return")
        \/ BindFailStep(c) \/ BindStep(c) \/ ConnectStep(c)
  BY DEF CallStep
<1>2. /\ \A p, x : Frame(p, x).pc = p /\ Frame(p, x).op = x
      /\ c.kind \in CallKinds /\ c.t \in Terms
  BY KindFacts DEF Frame
<1>3. NoData => /\ Pooled' = Pooled /\ UNCHANGED allocs
                /\ \A u \in Terms : /\ term'[u].att = term[u].att
                                    /\ term'[u].started = term[u].started
                                    /\ term'[u].closer = term[u].closer
  BY DEF NoData, Pooled
<1>4. CASE InheritStep(c)
  <2>1. PICK sure, none : sure = {Frame("issue", c)} /\ none = {}  OBVIOUS
  <2>2. /\ CallIs(c, "regions") /\ Becomes(c, sure, none)
        /\ UNCHANGED ops /\ NoData
    BY <1>4, <2>1 DEF InheritStep
  <2>3. c.att <= allocs  BY <2>2, CallOwns
  <2>4. /\ \A f \in sure : f.op = c /\ f.pc = "issue"
        /\ \A f \in sure \cup none : Holds(f)'
    BY <1>2, <1>3, <2>1, <2>2, <2>3 DEF Holds
  <2>. QED  BY <1>3, <2>1, <2>2, <2>4, OpsQuiet
<1>5. ASSUME NEW kind \in RegKinds, NEW here \in {"regions", "regMem"},
             NEW there \in {"regMem", "issue"}, IssueStep(c, kind, here, there)
      PROVE  (\A f \in Frames' : Holds(f)') /\ \A u \in Terms : OpsAt(u)'
  <2>1. PICK n, sure, maybe : /\ n = Op(kind, c)
                              /\ sure = {Frame(there, c)}
                              /\ maybe = {Frame("run", n)}
    OBVIOUS
  <2>2. /\ CallIs(c, here) /\ Becomes(c, sure, maybe)
        /\ ops' = ops \cup {n} /\ NoData
    BY <1>5, <2>1 DEF IssueStep
  <2>3. c.att <= allocs  BY <2>2, CallOwns
  <2>4. n \in Ops /\ n.kind = kind /\ n.t = c.t /\ n.att = c.att
    BY <2>1, OpFacts DEF Kinds, RegKinds
  <2>5. /\ \A f \in sure : f.op = c /\ f.pc \in {"regMem", "issue"}
        /\ \A f \in maybe : f.pc = "run" /\ f.op \in Ops /\ f.op.t = c.t
                            /\ f.op.kind \in RegKinds
    BY <1>2, <2>1, <2>4
  <2>6. \A f \in sure \cup maybe : Holds(f)'
    BY <1>2, <1>3, <2>1, <2>2, <2>3, <2>4, KindFacts DEF Holds
  <2>7. /\ \A x \in ops' : x \in ops \/ (x \in Ops /\ x.t = c.t
                                         /\ x.att = c.att /\ x.kind \in RegKinds)
        /\ \A x \in ops : x \in ops' \/ x = c
    BY <2>2, <2>4
  <2>. QED  BY <1>3, <2>2, <2>5, <2>6, <2>7, OpsQuiet
<1>6. CASE IssueStep(c, "connReq", "issue", "return")
  BY <1>6, OpsFirst DEF IssueStep
<1>7. CASE BindFailStep(c)
  <2>1. PICK sure : sure = {Frame("return", c)}  OBVIOUS
  <2>2. /\ CallIs(c, "issue") /\ Becomes(c, sure, {})
        /\ FreeTerminal(c.t) /\ UNCHANGED <<ops, allocs>>
    BY <1>7, <2>1 DEF BindFailStep
  <2>3. /\ c.t \notin Pooled /\ c.att <= allocs
        /\ \A x \in ops : x.t = c.t => x.kind \in RegKinds
        /\ \A f \in Frames : Active(f) /\ f.op.t = c.t => f = Frame("issue", c)
    BY <2>2, CallOwns
  <2>4. GivenBack(c.t)  BY <1>2, <2>2, <2>3, FreePool DEF SetupInv
  <2>5. \A f \in sure : f.op = c /\ f.pc = "return" /\ Holds(f)'
    BY <1>2, <2>1, <2>2, <2>3 DEF Holds
  <2>6. \A f \in Frames : Active(f) /\ f.op.t = c.t => f.op = c
    BY <1>2, <2>3
  <2>. QED  BY <2>2, <2>3, <2>4, <2>5, <2>6, OpsGivenBack
<1>8. CASE BindStep(c)
  BY <1>8, OpsFirst DEF BindStep
<1>9. CASE ConnectStep(c)  BY <1>9, OpsConnect
<1>. QED  BY <1>1, <1>4, <1>5, <1>6, <1>7, <1>8, <1>9 DEF RegKinds

(* ... and of a handler ...                                                *)
LEMMA OpsHandler ==
  ASSUME SetupInv, HandlerStep
  PROVE  (\A f \in Frames' : Holds(f)') /\ \A u \in Terms : OpsAt(u)'
PROOF
<1>s. DataOK /\ allocs \in Nat  BY AttFacts DEF SetupInv
<1>1. PICK op \in Ops :
        \/ FinishStep(op) \/ TagStep(op) \/ MemStep(op) \/ MemWaitStep(op)
        \/ RequestFailStep(op) \/ StartStep(op) \/ AcceptStep(op)
        \/ AckStep(op) \/ AwaitStep(op) \/ DropStep(op)
  BY DEF HandlerStep
<1>2. op.t \in Terms /\ op.att \in 0 .. MaxAtt
  BY KindFacts, AttFacts, <1>s
<1>3. ASSUME op \in ops, Leaves(op), UNCHANGED <<connPool, allocs>>,
             op.kind \in RegKinds \cup {"notify"} \/ Freeing(op),
             \A u \in Terms : /\ term'[u].att = term[u].att
                              /\ term'[u].started = term[u].started
                              /\ term'[u].closer = term[u].closer
      PROVE  (\A f \in Frames' : Holds(f)') /\ \A u \in Terms : OpsAt(u)'
  <2>1. Becomes(op, {}, {}) /\ ops' = ops \ {op}  BY <1>3 DEF Leaves
  <2>2. Pooled' = Pooled  BY <1>3 DEF Pooled
  <2>. QED  BY <1>3, <2>1, <2>2, OpsQuiet
<1>4. CASE FinishStep(op)
  <2>1. /\ op \in ops /\ Leaves(op) /\ NoData
        /\ op.kind \in RegKinds \cup {"notify"} \/ Freeing(op)
    BY <1>4 DEF FinishStep
  <2>. QED  BY <1>3, <2>1 DEF NoData
<1>5. CASE TagStep(op)
  <2>1. /\ op \in ops /\ Leaves(op) /\ op.kind \in RegKinds
        /\ UNCHANGED <<connPool, allocs>>
        /\ term' = [term EXCEPT ![op.t].tag = op.att]
    BY <1>5 DEF TagStep, RegKinds
  <2>2. \A u \in Terms : /\ term'[u].att = term[u].att
                         /\ term'[u].started = term[u].started
                         /\ term'[u].closer = term[u].closer
    BY <1>s, <1>2, <2>1, TagUpdate
  <2>. QED  BY <1>3, <2>1, <2>2
<1>6. CASE MemStep(op)
  <2>1. /\ op \in ops /\ Leaves(op) /\ op.kind \in RegKinds
        /\ UNCHANGED <<connPool, allocs>>
        /\ term' = [term EXCEPT ![op.t].mem = op.att]
    BY <1>6 DEF MemStep, RegKinds
  <2>2. \A u \in Terms : /\ term'[u].att = term[u].att
                         /\ term'[u].started = term[u].started
                         /\ term'[u].closer = term[u].closer
    BY <1>s, <1>2, <2>1, MemUpdate
  <2>. QED  BY <1>3, <2>1, <2>2
<1>7. CASE MemWaitStep(op)
  <2>1. PICK sure, none : sure = {Frame("wait", op)} /\ none = {}  OBVIOUS
  <2>2. /\ op \in ops /\ op.kind \in RegKinds /\ Becomes(op, sure, none)
        /\ UNCHANGED ops /\ NoData
    BY <1>7, <2>1 DEF MemWaitStep, RegKinds
  <2>3. /\ \A f \in sure : f.op = op /\ f.pc = "wait"
        /\ \A f \in sure \cup none : Holds(f)'
    BY <2>1, <2>2 DEF Holds, Frame, RegKinds, CallKinds
  <2>4. /\ Pooled' = Pooled /\ UNCHANGED allocs
        /\ \A u \in Terms : /\ term'[u].att = term[u].att
                            /\ term'[u].started = term[u].started
                            /\ term'[u].closer = term[u].closer
    BY <2>2 DEF NoData, Pooled
  <2>. QED  BY <2>1, <2>2, <2>3, <2>4, OpsQuiet
<1>8. CASE RequestFailStep(op)
  <2>1. /\ op \in ops /\ op.kind = "connReq" /\ Begins(op)
        /\ FreeTerminal(op.t) /\ Becomes(op, {}, {}) /\ ops' = ops \ {op}
        /\ UNCHANGED allocs
    BY <1>8 DEF RequestFailStep, Begins, Leaves
  <2>2. Current(op)  BY <2>1, BeginsCurrent DEF RegKinds
  <2>3. /\ op.t \notin Pooled
        /\ \A f \in Frames : Active(f) => f.op.t # op.t
        /\ \A x \in ops : x.t = op.t /\ x.kind \notin RegKinds => x = op
    BY <2>1, <2>2, CurrentFacts DEF OnlyCurrent, Begins
  <2>4. GivenBack(op.t)  BY <1>s, <1>2, <2>1, <2>3, FreePool
  <2>. QED  BY <2>1, <2>3, <2>4, OpsGivenBack
<1>9. CASE StartStep(op)  BY <1>9, OpsStart
<1>10. ASSUME op \in ops, Current(op), UNCHANGED <<connPool, allocs>>,
              op.kind \in {"connReq", "connect", "agree"},
              NEW kind \in {"agree", "disc"},
              kind = IF op.kind = "agree" THEN "disc" ELSE "agree",
              NEW also, also \subseteq {Op("notify", op)},
              Hands(op, Op(kind, op), also),
              \A f \in Frames : Active(f) => f.op.t # op.t,
              \A u \in Terms : /\ term'[u].att = term[u].att
                               /\ term'[u].closer = term[u].closer
                               /\ term'[u].started =
                                    IF u = op.t THEN TRUE ELSE term[u].started
       PROVE  (\A f \in Frames' : Holds(f)') /\ \A u \in Terms : OpsAt(u)'
  <2>1. Rank(op.kind) < Rank(kind)  BY <1>10 DEF Rank
  <2>2. Op(kind, op) \notin ops
    BY <1>10, NotYet DEF Current
  <2>. QED  BY <1>10, <2>1, <2>2, OpsPass
<1>11. \A u \in Terms : term[u].started \in BOOLEAN
  BY <1>s, AttFacts DEF TermSet
<1>12. CASE AcceptStep(op)
  <2>1. /\ op \in ops /\ op.kind = "connReq" /\ ~ Freeing(op)
        /\ Frame("shake", op) \in Frames
        /\ Hands(op, Op("agree", op), {})
        /\ UNCHANGED <<connPool, term, allocs>>
    BY <1>12 DEF AcceptStep
  <2>2. Current(op)  BY <2>1 DEF Current, RegKinds
  <2>3. term[op.t].started /\ \A f \in Frames : Active(f) => f.op.t # op.t
    BY <2>1, <2>2, CurrentFacts
  <2>. QED  BY <1>10, <1>11, <2>1, <2>2, <2>3
<1>13. CASE AckStep(op)
  <2>1. /\ op \in ops /\ op.kind = "connect" /\ Begins(op)
        /\ \A f \in Frames : Active(f) => f.op.t # op.t
        /\ Hands(op, Op("agree", op), {Op("notify", op)})
        /\ UNCHANGED <<connPool, allocs>>
        /\ term' = [term EXCEPT ![op.t].started = TRUE]
    BY <1>13 DEF AckStep, Begins
  <2>2. Current(op)  BY <2>1, BeginsCurrent DEF RegKinds
  <2>3. \A u \in Terms : /\ term'[u].att = term[u].att
                         /\ term'[u].closer = term[u].closer
                         /\ term'[u].started =
                              IF u = op.t THEN TRUE ELSE term[u].started
    BY <1>s, <1>2, <2>1, StartUpdate
  <2>. QED  BY <1>10, <2>1, <2>2, <2>3
<1>14. CASE AwaitStep(op)
  <2>1. /\ op \in ops /\ op.kind = "agree" /\ Begins(op)
        /\ Hands(op, Op("disc", op), {}) /\ NoData
    BY <1>14 DEF AwaitStep, Begins
  <2>2. Current(op)  BY <2>1, BeginsCurrent DEF RegKinds
  <2>3. term[op.t].started /\ \A f \in Frames : Active(f) => f.op.t # op.t
    BY <2>1, <2>2, CurrentFacts
  <2>. QED  BY <1>10, <1>11, <2>1, <2>2, <2>3 DEF NoData
<1>15. CASE DropStep(op)  BY <1>15, OpsDrop
<1>. QED
  BY <1>1, <1>4, <1>5, <1>6, <1>7, <1>8, <1>9, <1>12, <1>13, <1>14, <1>15

(* ... and after all others.                                               *)
LEMMA OpsOther ==
  ASSUME SetupInv, OtherStep
  PROVE  (\A f \in Frames' : Holds(f)') /\ \A u \in Terms : OpsAt(u)'
PROOF
<1>s. DataOK /\ PoolInv /\ allocs \in Nat /\ allocs <= allocs
  BY AttFacts DEF SetupInv
<1>1. ASSUME NEW t \in Terms, CancelStep(t)
      PROVE  (\A f \in Frames' : Holds(f)') /\ \A u \in Terms : OpsAt(u)'
  <2>1. /\ term' = [term EXCEPT ![t].closer = "cancelled"]
        /\ term[t].closer = "posted"
        /\ UNCHANGED <<Frames, ops, connPool, allocs>>
    BY <1>1 DEF CancelStep
  <2>2. \A u \in Terms :
          /\ term'[u].att = term[u].att
          /\ term'[u].started = term[u].started
          /\ term'[u].closer = "none" <=> term[u].closer = "none"
    BY <1>s, <2>1, CloserUpdate
  <2>3. Pooled' = Pooled  BY <2>1 DEF Pooled
  <2>. QED  BY <1>s, <2>1, <2>2, <2>3, OpsStill
<1>2. ASSUME NEW t \in Terms, CloseStep(t)
      PROVE  (\A f \in Frames' : Holds(f)') /\ \A u \in Terms : OpsAt(u)'
  BY <1>2, OpsClosed
<1>3. ASSUME NEW kind, AllocStep(kind)
      PROVE  (\A f \in Frames' : Holds(f)') /\ \A u \in Terms : OpsAt(u)'
  BY <1>3, OpsAlloc
<1>4. CASE AllocFailStep
  <2>1. Pooled' = Pooled /\ allocs' = allocs + 1
    BY <1>s, <1>4, PoolAllocFail
  <2>2. allocs' \in Nat /\ allocs <= allocs'  BY <1>s, <2>1
  <2>3. UNCHANGED <<Frames, ops, term>>  BY <1>4 DEF AllocFailStep
  <2>. QED  BY <2>1, <2>2, <2>3, OpsStill
<1>5. CASE IdleStep
  <2>1. UNCHANGED <<Frames, ops, term, allocs, connPool>>
    BY <1>5 DEF IdleStep
  <2>2. Pooled' = Pooled  BY <2>1 DEF Pooled
  <2>. QED  BY <1>s, <2>1, <2>2, OpsStill
<1>. QED  BY <1>1, <1>2, <1>3, <1>4, <1>5 DEF OtherStep

-----------------------------------------------------------------------------
(* Regions and tokens.                                                     *)

(* Which operations and calls a step may add, as far as regions go.        *)
NewOps ==
  \A x \in ops' :
    \/ x \in ops \/ x.kind \notin RegKinds
    \/ \E c \in Calls : /\ x.t = c.t /\ x.att = c.att
                        /\ \/ x.kind = "tag" /\ CallIs(c, "regions")
                                /\ Frame("regions", c) \notin Frames'
                           \/ x.kind = "mem" /\ CallIs(c, "regMem")
                                /\ Frame("regMem", c) \notin Frames'

NewFrames ==
  \A f \in Frames' :
    f.op.kind \in CallKinds /\ f.pc \in {"regions", "regMem"} =>
      \/ f \in Frames
      \/ f.pc = "regions" /\ f.op.att = allocs + 1
      \/ f.pc = "regMem" /\ Frame("regions", f.op) \in Frames

(* What may become of the regions of a terminal.                           *)
RegChange(u) ==
  \/ term'[u].tag = term[u].tag /\ term'[u].mem = term[u].mem
  \/ term'[u].tag = 0 /\ term'[u].mem = 0
  \/ \E op \in ops \ ops' : op.kind = "tag" /\ op.t = u
       /\ term'[u].tag = op.att /\ term'[u].mem = term[u].mem
  \/ \E op \in ops \ ops' : op.kind = "mem" /\ op.t = u /\ TagReady(u)
       /\ term'[u].tag = term[u].tag /\ term'[u].mem = op.att

(* A token that is sent is the last one of its terminal for now.           *)
NewToken ==
  \/ handed' = handed
  \/ \E c \in Ops \cup Calls :
       /\ handed' = handed \cup {Token(c)} /\ RegionsReady(c.t)
       /\ c.att = term[c.t].att /\ Late(c.t)' /\ UNCHANGED term

LateKept ==
  \A u \in Terms :
    Late(u) => \/ Late(u)' /\ term'[u].att = term[u].att
               \/ term'[u].tag = 0 /\ term'[u].mem = 0

(* What is over stays over.                                                *)
LEMMA OverKept ==
  ASSUME SetupInv, NewOps, NewFrames, allocs' \in Nat, allocs <= allocs',
         NEW t \in Terms, NEW a \in 0 .. MaxAtt
  PROVE  /\ TagOver(t, a) => TagOver(t, a)'
         /\ MemOver(t, a) => MemOver(t, a)'
PROOF
<1>n. MaxAtt \in Nat /\ allocs \in Nat  BY AttFacts DEF SetupInv
<1>1. \A p, x : Frame(p, x).pc = p /\ Frame(p, x).op = x  BY DEF Frame
<1>2. \A c \in Calls : c.kind \in CallKinds  BY KindFacts
<1>3. a <= allocs => a <= allocs' /\ a # allocs + 1  BY <1>n
<1>4. ASSUME TagOver(t, a)  PROVE TagOver(t, a)'
  <2>1. [kind |-> "tag", t |-> t, att |-> a] \notin ops'
    <3>. SUFFICES ASSUME [kind |-> "tag", t |-> t, att |-> a] \in ops'
                  PROVE  FALSE
      OBVIOUS
    <3>1. PICK c \in Calls : t = c.t /\ a = c.att /\ CallIs(c, "regions")
      BY <1>4 DEF TagOver, NewOps, RegKinds
    <3>. QED  BY <1>1, <1>2, <1>4, <3>1 DEF TagOver, CallIs
  <2>. QED  BY <1>1, <1>3, <1>4, <2>1 DEF TagOver, NewFrames
<1>5. ASSUME MemOver(t, a)  PROVE MemOver(t, a)'
  <2>1. [kind |-> "mem", t |-> t, att |-> a] \notin ops'
    <3>. SUFFICES ASSUME [kind |-> "mem", t |-> t, att |-> a] \in ops'
                  PROVE  FALSE
      OBVIOUS
    <3>1. PICK c \in Calls : t = c.t /\ a = c.att /\ CallIs(c, "regMem")
      BY <1>5 DEF MemOver, NewOps, RegKinds
    <3>. QED  BY <1>1, <1>2, <1>5, <3>1 DEF MemOver, CallIs
  <2>. QED  BY <1>1, <1>3, <1>5, <2>1 DEF MemOver, NewFrames
<1>. QED  BY <1>4, <1>5

(* Regions are registered once.                                            *)
LEMMA OnceKept ==
  ASSUME SetupInv, NewOps, NewFrames, allocs' \in Nat, allocs <= allocs'
  PROVE  \A op \in ops', f \in Frames' :
           /\ f.op.kind \in CallKinds
           /\ \/ op.kind = "tag" /\ f.pc = "regions"
              \/ op.kind = "mem" /\ f.pc \in {"regions", "regMem"}
           => f.op.t # op.t \/ f.op.att # op.att
PROOF
<1>. SUFFICES ASSUME NEW op \in ops', NEW f \in Frames',
                     f.op.kind \in CallKinds,
                     \/ op.kind = "tag" /\ f.pc = "regions"
                     \/ op.kind = "mem" /\ f.pc \in {"regions", "regMem"},
                     f.op.t = op.t, f.op.att = op.att
              PROVE  FALSE
  OBVIOUS
<1>n. MaxAtt \in Nat /\ allocs \in Nat  BY AttFacts DEF SetupInv
<1>1. \A p, x : Frame(p, x).pc = p /\ Frame(p, x).op = x  BY DEF Frame
<1>2. \A c \in Calls : c.kind \in CallKinds  BY KindFacts
<1>3. RegionsOnce /\ FramesApart
  BY FrameFacts DEF SetupInv, RegInv
<1>4. op.att \in 1 .. MaxAtt /\ op.att <= allocs
  BY OpOwns, CallOwns, KindFacts DEF NewOps, RegKinds
<1>5. f.op.att # allocs + 1  BY <1>n, <1>4
<1>6. PICK g \in Frames : /\ g.op = f.op
                          /\ g = f \/ (f.pc = "regMem" /\ g.pc = "regions")
  BY <1>1, <1>5 DEF NewFrames
<1>7. op \notin ops  BY <1>3, <1>6 DEF RegionsOnce
<1>8. PICK c \in Calls :
        /\ op.t = c.t /\ op.att = c.att
        /\ \/ op.kind = "tag" /\ CallIs(c, "regions")
                /\ Frame("regions", c) \notin Frames'
           \/ op.kind = "mem" /\ CallIs(c, "regMem")
                /\ Frame("regMem", c) \notin Frames'
  BY <1>7 DEF NewOps, RegKinds
<1>9. PICK h \in Frames : h.op = c /\ h \notin Frames'
                          /\ \/ op.kind = "tag" /\ h.pc = "regions"
                             \/ op.kind = "mem" /\ h.pc = "regMem"
  BY <1>1, <1>8 DEF CallIs
<1>10. Clash(g.op, h.op)  BY <1>2, <1>6, <1>8, <1>9 DEF Clash
<1>11. g = h  BY <1>3, <1>10 DEF FramesApart
<1>. QED  BY <1>6, <1>9, <1>11

(* Regions and tokens after a step of this kind.                           *)
LEMMA RegKeeps ==
  ASSUME SetupInv, DataOK', NewOps, NewFrames, NewToken, LateKept,
         \A u \in Terms : RegChange(u), allocs <= allocs'
  PROVE  RegInv'
PROOF
<1>s. DataOK /\ RegInv /\ allocs' \in Nat  BY DEF SetupInv, DataOK
<1>1. \A u \in Terms : /\ term[u].tag \in 0 .. MaxAtt
                       /\ term[u].mem \in 0 .. MaxAtt
  BY <1>s, AttFacts
<1>2. \A x \in handed : /\ x.t \in Terms /\ x.tag \in 1 .. MaxAtt
                        /\ x.mem \in 1 .. MaxAtt /\ x.tag # 0 /\ x.mem # 0
                        /\ x.tag \in 0 .. MaxAtt /\ x.mem \in 0 .. MaxAtt
  <2>1. \A x \in handed : /\ x.t \in Terms /\ x.tag \in 1 .. MaxAtt
                          /\ x.mem \in 1 .. MaxAtt
    BY <1>s DEF DataOK
  <2>2. MaxAtt \in Nat  BY TerminalSetupAssumption
  <2>. QED  BY <2>1, <2>2
<1>3. \A op \in ops : op.att # 0 /\ op.att \in 0 .. MaxAtt /\ op.att <= allocs'
  <2>1. \A op \in ops : op.att \in 1 .. MaxAtt /\ op.att <= allocs  BY OpOwns
  <2>2. MaxAtt \in Nat /\ allocs \in Nat  BY <1>s, AttFacts
  <2>. QED  BY <1>s, <2>1, <2>2
<1>4. RegionsMatch'
  <2>. SUFFICES ASSUME NEW u \in Terms, term'[u].mem # 0
                PROVE  term'[u].tag # 0
    BY DEF RegionsMatch
  <2>. QED  BY <1>s, <1>3 DEF RegChange, RegInv, RegionsMatch, TagReady
<1>0. \A a \in 1 .. MaxAtt : a \in 0 .. MaxAtt /\ a # 0
  BY TerminalSetupAssumption
<1>5. \A t \in Terms : \A a \in 0 .. MaxAtt :
        /\ TagOver(t, a) => TagOver(t, a)'
        /\ MemOver(t, a) => MemOver(t, a)'
  BY <1>s, OverKept
<1>6. ASSUME NEW u \in Terms, NEW a \in 1 .. MaxAtt
      PROVE  /\ term'[u].tag = a => TagOver(u, a)'
             /\ term'[u].mem = a => MemOver(u, a)'
  <2>1. /\ term[u].tag = a => TagOver(u, a)'
        /\ term[u].mem = a => MemOver(u, a)'
    BY <1>s, <1>0, <1>5 DEF RegInv, RegionsOnce
  <2>2. ASSUME NEW op \in ops \ ops', op.kind = "tag", op.t = u
        PROVE  TagOver(u, op.att)'
    <3>1. op = [kind |-> "tag", t |-> u, att |-> op.att]
      BY <2>2, OpOwns DEF Ops
    <3>2. op \notin ops' /\ op.att <= allocs'  BY <1>3
    <3>3. \A f \in Frames' : f.op.kind \in CallKinds /\ f.pc = "regions" =>
            f.op.t # u \/ f.op.att # op.att
      <4>1. op.att # allocs + 1
        <5>1. op.att \in 1 .. MaxAtt /\ op.att <= allocs  BY OpOwns
        <5>2. MaxAtt \in Nat /\ allocs \in Nat  BY <1>s, AttFacts
        <5>. QED  BY <5>1, <5>2
      <4>. QED
        BY <1>s, <2>2, <4>1 DEF NewFrames, RegInv, RegionsOnce
    <3>. QED  BY <3>1, <3>2, <3>3 DEF TagOver
  <2>3. ASSUME NEW op \in ops \ ops', op.kind = "mem", op.t = u
        PROVE  MemOver(u, op.att)'
    <3>1. op = [kind |-> "mem", t |-> u, att |-> op.att]
      BY <2>3, OpOwns DEF Ops
    <3>2. op \notin ops' /\ op.att <= allocs'  BY <1>3
    <3>3. \A f \in Frames' :
            f.op.kind \in CallKinds /\ f.pc \in {"regions", "regMem"} =>
              f.op.t # u \/ f.op.att # op.att
      <4>1. op.att # allocs + 1
        <5>1. op.att \in 1 .. MaxAtt /\ op.att <= allocs  BY OpOwns
        <5>2. MaxAtt \in Nat /\ allocs \in Nat  BY <1>s, AttFacts
        <5>. QED  BY <5>1, <5>2
      <4>2. \A p, x : Frame(p, x).pc = p /\ Frame(p, x).op = x  BY DEF Frame
      <4>. QED
        BY <1>s, <2>3, <4>1, <4>2 DEF NewFrames, RegInv, RegionsOnce
    <3>. QED  BY <3>1, <3>2, <3>3 DEF MemOver
  <2>. QED  BY <1>0, <2>1, <2>2, <2>3 DEF RegChange
<1>7. ASSUME NEW x \in handed'
      PROVE  TagOver(x.t, x.tag)' /\ MemOver(x.t, x.mem)'
  <2>1. CASE x \in handed
    BY <1>s, <1>2, <1>5, <2>1 DEF RegInv, RegionsOnce
  <2>2. CASE x \notin handed
    <3>1. PICK c \in Ops \cup Calls : x = Token(c) /\ RegionsReady(c.t)
      BY <2>2 DEF NewToken
    <3>2. /\ x.t = c.t /\ x.tag = term[c.t].tag /\ x.mem = term[c.t].mem
          /\ c.t \in Terms /\ x.tag \in 1 .. MaxAtt /\ x.mem \in 1 .. MaxAtt
      BY <1>s, <3>1, TokenFacts, KindFacts
    <3>. QED  BY <1>s, <1>0, <1>5, <3>2 DEF RegInv, RegionsOnce
  <2>. QED  BY <2>1, <2>2
<1>8. RegionsOnce'
  <2>1. \A op \in ops', f \in Frames' :
          /\ f.op.kind \in CallKinds
          /\ \/ op.kind = "tag" /\ f.pc = "regions"
             \/ op.kind = "mem" /\ f.pc \in {"regions", "regMem"}
          => f.op.t # op.t \/ f.op.att # op.att
    BY <1>s, OnceKept
  <2>. QED  BY <1>6, <1>7, <2>1 DEF RegionsOnce
<1>9. ASSUME NEW x \in handed,
             x.tag = term'[x.t].tag \/ x.mem = term'[x.t].mem
      PROVE  /\ x.att = term'[x.t].att /\ Late(x.t)'
             /\ x.att = term[x.t].att
  <2>1. TagOver(x.t, x.tag) /\ MemOver(x.t, x.mem)
    BY <1>s DEF RegInv, RegionsOnce
  <2>2. \A op \in ops : op.t = x.t =>
          /\ op.kind = "tag" => op.att # x.tag
          /\ op.kind = "mem" => op.att # x.mem
    <3>1. \A op \in ops : op = [kind |-> op.kind, t |-> op.t, att |-> op.att]
      BY OpOwns DEF Ops
    <3>. QED  BY <2>1, <3>1 DEF TagOver, MemOver
  <2>3. x.tag = term[x.t].tag \/ x.mem = term[x.t].mem
    BY <1>2, <1>9, <2>2 DEF RegChange
  <2>4. x.att = term[x.t].att /\ Late(x.t)
    BY <1>s, <2>3 DEF RegInv, HandedLate
  <2>5. Late(x.t)' /\ term'[x.t].att = term[x.t].att
    BY <1>2, <1>9, <2>4 DEF LateKept
  <2>. QED  BY <2>4, <2>5
<1>10. CASE handed' = handed
  <2>1. HandedLate'  BY <1>9, <1>10 DEF HandedLate
  <2>2. TokensNotShared'  BY <1>s, <1>10 DEF TokensNotShared, RegInv
  <2>. QED  BY <1>4, <1>8, <2>1, <2>2 DEF RegInv
<1>11. ASSUME NEW c \in Ops \cup Calls,
              handed' = handed \cup {Token(c)}, RegionsReady(c.t),
              c.att = term[c.t].att, Late(c.t)', UNCHANGED term
       PROVE  RegInv'
  <2>1. PICK z : z = Token(c)  OBVIOUS
  <2>2. /\ z.t = c.t /\ z.att = c.att
        /\ z.tag = term[c.t].tag /\ z.mem = term[c.t].mem
    BY <1>s, <1>11, <2>1, TokenFacts
  <2>3. HandedLate'
    <3>. SUFFICES ASSUME NEW x \in handed',
                         x.tag = term'[x.t].tag \/ x.mem = term'[x.t].mem
                  PROVE  x.att = term'[x.t].att /\ Late(x.t)'
      BY DEF HandedLate
    <3>1. CASE x \in handed  BY <1>9, <3>1
    <3>2. CASE x = z  BY <1>11, <2>2, <3>2
    <3>. QED  BY <1>11, <2>1, <3>1, <3>2
  <2>4. \A x \in handed : x.t = z.t /\ (x.tag = z.tag \/ x.mem = z.mem) =>
          x.att = z.att
    BY <1>s, <1>11, <2>2 DEF RegInv, HandedLate
  <2>5. TokensNotShared'
    BY <1>s, <1>11, <2>1, <2>4 DEF TokensNotShared, RegInv
  <2>. QED  BY <1>4, <1>8, <2>3, <2>5 DEF RegInv
<1>. QED  BY <1>10, <1>11 DEF NewToken


(* The tokens of a terminal stay out.                                      *)
LEMMA LateStays ==
  ASSUME NEW op, NEW sure, NEW maybe, Becomes(op, sure, maybe),
         NEW u, Late(u), u \notin Pooled',
         \A f \in sure \cup maybe : Active(f) => f.op.t # u,
         \A x \in ops' : x.kind = "connReq" /\ x.t = u => x \in ops /\ x # op
  PROVE  Late(u)'
PROOF
<1>1. \A x : Frame("free", x).op = x /\ Frame("free", x).pc = "free"
  BY DEF Frame
<1>2. \A x \in ops' : x.t = u /\ x.kind = "connReq" => Freeing(x)'
  BY <1>1 DEF Late, Becomes, Others, Freeing
<1>3. \A f \in Frames' : Active(f) => f.op.t # u
  BY DEF Late, Becomes, Others
<1>. QED  BY <1>2, <1>3 DEF Late

(* Steps of one operation or call.                                         *)
LEMMA RegOf ==
  ASSUME SetupInv, DataOK', NEW op \in Ops \cup Calls, NEW sure, NEW maybe,
         Becomes(op, sure, maybe),
         \A f \in sure :
           /\ f.op = op /\ f.pc # "regions"
           /\ f.pc = "regMem" => Frame("regions", op) \in Frames,
         \A f \in maybe : f.pc = "run" /\ f.op \in Ops,
         \A x \in ops' : x \in ops \/ x.t = op.t,
         NewOps, NewToken, \A u \in Terms : RegChange(u),
         UNCHANGED allocs, Pooled' \subseteq Pooled \cup {op.t},
         \A u \in Terms : term'[u].att = term[u].att,
         Late(op.t) =>
           /\ op \in Ops /\ op.t \notin Pooled'
           /\ \A x \in ops' : x.kind = "connReq" /\ x.t = op.t =>
                x \in ops /\ x # op
  PROVE  RegInv'
PROOF
<1>1. NewFrames
  BY DEF NewFrames, Becomes, Others
<1>2. \A f \in maybe : ~ Active(f)  BY KindFacts DEF Active
<1>3. ASSUME NEW u \in Terms, Late(u)  PROVE Late(u)'
  <2>1. CASE u = op.t
    <3>1. \A f \in sure : ~ Active(f)
      BY <1>3, <2>1, KindFacts DEF Active
    <3>2. /\ u \notin Pooled'
          /\ \A f \in sure \cup maybe : Active(f) => f.op.t # u
          /\ \A x \in ops' : x.kind = "connReq" /\ x.t = u =>
               x \in ops /\ x # op
      BY <1>2, <1>3, <2>1, <3>1
    <3>. QED  BY <1>3, <3>2, LateStays
  <2>2. CASE u # op.t
    <3>1. /\ u \notin Pooled'
          /\ \A f \in sure \cup maybe : Active(f) => f.op.t # u
          /\ \A x \in ops' : x.kind = "connReq" /\ x.t = u =>
               x \in ops /\ x # op
      BY <1>2, <1>3, <2>2 DEF Late
    <3>. QED  BY <1>3, <3>1, LateStays
  <2>. QED  BY <2>1, <2>2
<1>4. LateKept  BY <1>3 DEF LateKept
<1>5. allocs <= allocs'  BY AttFacts DEF SetupInv
<1>. QED  BY <1>1, <1>4, <1>5, RegKeeps

(* The handler of op hands over to n, whether or not it has to wait.       *)
LEMMA HandsIs ==
  ASSUME NEW op, NEW n, NEW also, Hands(op, n, also)
  PROVE  \E sure, maybe :
           /\ Becomes(op, sure, maybe)
           /\ sure \subseteq {Frame("free", op)}
           /\ maybe \subseteq {Frame("run", n)}
           /\ ops' \subseteq ops \cup {n} \cup also
           /\ op \in ops' => \/ op = n \/ op \in also
                             \/ Frame("free", op) \in sure
PROOF
<1>1. CASE ops' = (ops \ {op}) \cup {n} \cup also /\ Becomes(op, {}, {})
  <2>1. PICK none : none = {}  OBVIOUS
  <2>2. Becomes(op, none, none)  BY <1>1, <2>1
  <2>. QED  BY <1>1, <2>1, <2>2
<1>2. CASE /\ ops' = ops \cup {n} \cup also
           /\ Becomes(op, {Frame("free", op)}, {Frame("run", n)})
  <2>1. PICK s, m : s = {Frame("free", op)} /\ m = {Frame("run", n)}  OBVIOUS
  <2>2. Becomes(op, s, m)  BY <1>2, <2>1
  <2>. QED  BY <1>2, <2>1, <2>2
<1>. QED  BY <1>1, <1>2 DEF Hands

(* Regions and tokens after the step of a call ...                         *)
LEMMA RegCall ==
  ASSUME SetupInv, CallStep
  PROVE  RegInv'
PROOF
<1>s. DataOK /\ DataOK'  BY CallData DEF SetupInv
<1>1. PICK c \in Calls :
        \/ InheritStep(c)
        \/ IssueStep(c, "tag", "regions", "regMem")
        \/ IssueStep(c, "mem", "regMem", "issue")
        \/ IssueStep(c, "connReq", "issue", "return")
        \/ BindFailStep(c) \/ BindStep(c) \/ ConnectStep(c)
  BY DEF CallStep
<1>2. /\ \A p, x : Frame(p, x).pc = p /\ Frame(p, x).op = x
      /\ c.kind \in CallKinds /\ c.t \in Terms
      /\ \A kind \in Kinds :
           Op(kind, c) \in Ops /\ Op(kind, c).t = c.t
           /\ Op(kind, c).att = c.att /\ Op(kind, c).kind = kind
  BY KindFacts, OpFacts DEF Frame
<1>3. PICK pc \in {"regions", "regMem", "issue", "shake"} : CallIs(c, pc)
  BY <1>1 DEF InheritStep, IssueStep, BindFailStep, BindStep, ConnectStep
<1>4. ~ Late(c.t)
  <2>1. Frame(pc, c) \in Frames /\ Active(Frame(pc, c))
    BY <1>2, <1>3 DEF CallIs, Active
  <2>. QED  BY <1>2, <2>1 DEF Late
<1>5. ASSUME NEW sure, NEW maybe, Becomes(c, sure, maybe),
             \A f \in sure :
               /\ f.op = c /\ f.pc # "regions"
               /\ f.pc = "regMem" => Frame("regions", c) \in Frames,
             \A f \in maybe : f.pc = "run" /\ f.op \in Ops,
             \A x \in ops' : x \in ops \/ x.t = c.t,
             NewOps, NewToken, NoData \/ UNCHANGED <<connPool, term, allocs>>
      PROVE  RegInv'
  <2>1. UNCHANGED <<term, allocs>> /\ Pooled' = Pooled
    BY <1>5 DEF NoData, Pooled
  <2>2. \A u \in Terms : RegChange(u) /\ term'[u].att = term[u].att
    BY <2>1 DEF RegChange
  <2>. QED  BY <1>s, <1>4, <1>5, <2>1, <2>2, RegOf
<1>6. NoData => NewToken  BY DEF NoData, NewToken
<1>7. UNCHANGED ops => NewOps  BY DEF NewOps
<1>8. CASE InheritStep(c)
  <2>1. PICK sure, none : sure = {Frame("issue", c)} /\ none = {}  OBVIOUS
  <2>2. Becomes(c, sure, none) /\ UNCHANGED ops /\ NoData
    BY <1>8, <2>1 DEF InheritStep
  <2>. QED  BY <1>2, <1>5, <1>6, <1>7, <2>1, <2>2
<1>9. ASSUME NEW kind \in {"tag", "mem", "connReq"},
             NEW here \in {"regions", "regMem", "issue"},
             NEW there \in {"regMem", "issue", "return"},
             here = "regions" <=> kind = "tag",
             here = "regions" <=> there = "regMem",
             here = "regMem" <=> kind = "mem",
             IssueStep(c, kind, here, there)
      PROVE  RegInv'
  <2>1. PICK n, sure, maybe : /\ n = Op(kind, c)
                              /\ sure = {Frame(there, c)}
                              /\ maybe = {Frame("run", n)}
    OBVIOUS
  <2>2. /\ CallIs(c, here) /\ Becomes(c, sure, maybe)
        /\ ops' = ops \cup {n} /\ NoData
    BY <1>9, <2>1 DEF IssueStep
  <2>3. n \in Ops /\ n.kind = kind /\ n.t = c.t /\ n.att = c.att
    BY <1>2, <2>1 DEF Kinds
  <2>4. n # c  BY <2>3, KindFacts
  <2>5. \A p \in {"regions", "regMem"} :
          p # there => Frame(p, c) \notin Frames'
    BY <1>2, <2>1, <2>2, <2>4 DEF Becomes, Others
  <2>6. NewOps
    BY <1>9, <2>2, <2>3, <2>5 DEF NewOps, RegKinds
  <2>7. /\ \A f \in sure :
             /\ f.op = c /\ f.pc # "regions"
             /\ f.pc = "regMem" => Frame("regions", c) \in Frames
        /\ \A f \in maybe : f.pc = "run" /\ f.op \in Ops
        /\ \A x \in ops' : x \in ops \/ x.t = c.t
    BY <1>2, <1>9, <2>1, <2>2, <2>3 DEF CallIs
  <2>. QED  BY <1>5, <1>6, <2>2, <2>6, <2>7
<1>10. CASE IssueStep(c, "tag", "regions", "regMem")  BY <1>9, <1>10
<1>11. CASE IssueStep(c, "mem", "regMem", "issue")  BY <1>9, <1>11
<1>12. CASE IssueStep(c, "connReq", "issue", "return")  BY <1>9, <1>12
<1>13. CASE BindFailStep(c)
  <2>1. PICK sure, none : sure = {Frame("return", c)} /\ none = {}  OBVIOUS
  <2>2. /\ CallIs(c, "issue") /\ Becomes(c, sure, none)
        /\ FreeTerminal(c.t) /\ UNCHANGED <<ops, handed, allocs>>
    BY <1>13, <2>1 DEF BindFailStep
  <2>3. term' = [term EXCEPT ![c.t] = VoidFlds(@)]
    BY <2>2 DEF FreeTerminal
  <2>4. \A u \in Terms : RegChange(u) /\ term'[u].att = term[u].att
    <3>1. \A u \in Terms : /\ term'[u].tag = term[u].tag
                           /\ term'[u].mem = term[u].mem
                           /\ term'[u].att = term[u].att
      BY <1>s, <1>2, <2>3, VoidUpdate
    <3>. QED  BY <3>1 DEF RegChange
  <2>5. Pooled' \subseteq Pooled \cup {c.t}
    <3>1. c.t \notin Pooled  BY <2>2, CallOwns
    <3>2. GivenBack(c.t)  BY <1>s, <1>2, <2>2, <3>1, FreePool
    <3>. QED  BY <3>2, PoolGivenBack DEF SetupInv
  <2>6. NewToken  BY <2>2 DEF NewToken
  <2>7. /\ \A f \in sure :
             /\ f.op = c /\ f.pc # "regions"
             /\ f.pc = "regMem" => Frame("regions", c) \in Frames
        /\ \A f \in none : f.pc = "run" /\ f.op \in Ops
        /\ \A x \in ops' : x \in ops \/ x.t = c.t
    BY <1>2, <2>1, <2>2
  <2>. QED
    BY <1>s, <1>4, <1>7, <2>2, <2>4, <2>5, <2>6, <2>7, RegOf
<1>14. CASE BindStep(c)
  <2>1. PICK n, sure, none : /\ n = Op("connect", c)
                             /\ sure = {Frame("shake", c)} /\ none = {}
    OBVIOUS
  <2>2. Becomes(c, sure, none) /\ ops' = ops \cup {n} /\ NoData
    BY <1>14, <2>1 DEF BindStep
  <2>3. n.kind = "connect" /\ n.t = c.t  BY <1>2, <2>1 DEF Kinds
  <2>4. NewOps  BY <2>2, <2>3 DEF NewOps, RegKinds
  <2>. QED  BY <1>2, <1>5, <1>6, <2>1, <2>2, <2>3, <2>4
<1>15. CASE ConnectStep(c)
  <2>1. PICK n, sure, maybe : /\ n = Op("connect", c)
                              /\ sure = {Frame("return", c)}
                              /\ maybe = {Frame("run", n)}
    OBVIOUS
  <2>2. /\ CallIs(c, "shake") /\ Becomes(c, sure, maybe)
        /\ RegionsReady(c.t) /\ handed' = handed \cup {Token(c)}
        /\ UNCHANGED <<ops, connPool, term, allocs>>
    BY <1>15, <2>1 DEF ConnectStep
  <2>3. n \in Ops /\ n.kind = "connect"  BY <1>2, <2>1 DEF Kinds
  <2>4. /\ c.t \notin Pooled /\ c.att = term[c.t].att
        /\ \A op \in ops : op.t = c.t /\ op.kind \notin RegKinds => op = n
        /\ \A f \in Frames : Active(f) /\ f.op.t = c.t => f = Frame("shake", c)
    BY <2>1, <2>2, CallOwns
  <2>5. Late(c.t)'
    <3>1. \A x \in ops' : x.t = c.t => x.kind # "connReq"
      BY <2>2, <2>3, <2>4 DEF RegKinds
    <3>2. Pooled' = Pooled  BY <2>2 DEF Pooled
    <3>3. \A f \in Frames' : Active(f) => f.op.t # c.t
      <4>1. \A f \in sure \cup maybe : ~ Active(f)
        BY <1>2, <2>1, <2>3, KindFacts DEF Active
      <4>. QED  BY <1>2, <2>2, <2>4, <4>1 DEF Becomes, Others
    <3>. QED  BY <2>4, <3>1, <3>2, <3>3 DEF Late
  <2>6. NewToken  BY <2>2, <2>4, <2>5 DEF NewToken
  <2>. QED  BY <1>2, <1>5, <1>7, <2>1, <2>2, <2>3, <2>6
<1>. QED
  BY <1>1, <1>8, <1>10, <1>11, <1>12, <1>13, <1>14, <1>15

(* ... of a handler ...                                                    *)
LEMMA RegHandler ==
  ASSUME SetupInv, HandlerStep
  PROVE  RegInv'
PROOF
<1>s. DataOK /\ DataOK'  BY HandlerData DEF SetupInv
<1>1. PICK op \in Ops :
        \/ FinishStep(op) \/ TagStep(op) \/ MemStep(op) \/ MemWaitStep(op)
        \/ RequestFailStep(op) \/ StartStep(op) \/ AcceptStep(op)
        \/ AckStep(op) \/ AwaitStep(op) \/ DropStep(op)
  BY DEF HandlerStep
<1>2. /\ \A p, x : Frame(p, x).pc = p /\ Frame(p, x).op = x
      /\ op.kind \notin CallKinds /\ op.t \in Terms /\ op.att \in 0 .. MaxAtt
      /\ \A kind \in Kinds :
           Op(kind, op) \in Ops /\ Op(kind, op).t = op.t
           /\ Op(kind, op).kind = kind
  BY <1>s, KindFacts, OpFacts, AttFacts DEF Frame
<1>3. op \in ops
  BY <1>1 DEF FinishStep, TagStep, MemStep, MemWaitStep, RequestFailStep,
     StartStep, AcceptStep, AckStep, AwaitStep, DropStep, Begins
<1>4. Late(op.t) /\ op.kind = "connReq" => Freeing(op)
  BY <1>3 DEF Late
<1>5. ASSUME NEW sure, NEW maybe, Becomes(op, sure, maybe),
             \A f \in sure : f.op = op /\ f.pc \in {"free", "shake", "wait"},
             \A f \in maybe : f.pc = "run" /\ f.op \in Ops,
             \A x \in ops' : \/ x \in ops
                             \/ x.t = op.t /\ x.kind \notin RegKinds \cup {"connReq"},
             NewToken, UNCHANGED allocs, Pooled' \subseteq Pooled \cup {op.t},
             \A u \in Terms : RegChange(u) /\ term'[u].att = term[u].att,
             \/ ~ Late(op.t)
             \/ Pooled' = Pooled /\ (op.kind = "connReq" => op \notin ops')
      PROVE  RegInv'
  <2>1. NewOps  BY <1>5 DEF NewOps
  <2>2. \A f \in sure :
          /\ f.op = op /\ f.pc # "regions"
          /\ f.pc = "regMem" => Frame("regions", op) \in Frames
    BY <1>5
  <2>3. Late(op.t) =>
          /\ op \in Ops /\ op.t \notin Pooled'
          /\ \A x \in ops' : x.kind = "connReq" /\ x.t = op.t =>
               x \in ops /\ x # op
    BY <1>5 DEF Late
  <2>4. \A x \in ops' : x \in ops \/ x.t = op.t  BY <1>5
  <2>. QED  BY <1>s, <1>5, <2>1, <2>2, <2>3, <2>4, RegOf
<1>6. ASSUME UNCHANGED connPool  PROVE Pooled' = Pooled
  BY <1>6 DEF Pooled
<1>7. ASSUME \A u \in Terms : /\ term'[u].tag = term[u].tag
                              /\ term'[u].mem = term[u].mem
      PROVE  \A u \in Terms : RegChange(u)
  BY <1>7 DEF RegChange
<1>8. UNCHANGED handed => NewToken  BY DEF NewToken
(* The handler is over and its object given back.                          *)
<1>9. ASSUME Leaves(op), UNCHANGED <<connPool, handed, allocs>>,
             \A u \in Terms : RegChange(u) /\ term'[u].att = term[u].att
      PROVE  RegInv'
  <2>1. PICK none : none = {}  OBVIOUS
  <2>2. Becomes(op, none, none) /\ ops' = ops \ {op}
    BY <1>9, <2>1 DEF Leaves
  <2>3. Pooled' = Pooled /\ NewToken  BY <1>6, <1>8, <1>9
  <2>. QED  BY <1>5, <1>9, <2>1, <2>2, <2>3
<1>10. CASE FinishStep(op)
  <2>1. Leaves(op) /\ UNCHANGED <<term, connPool, handed, allocs>>
    BY <1>10 DEF FinishStep, NoData
  <2>. QED  BY <1>7, <1>9, <2>1
<1>11. CASE TagStep(op)
  <2>1. /\ Leaves(op) /\ op.kind = "tag"
        /\ term' = [term EXCEPT ![op.t].tag = op.att]
        /\ UNCHANGED <<connPool, handed, allocs>>
    BY <1>11 DEF TagStep
  <2>2. op \in ops \ ops'  BY <1>3, <2>1 DEF Leaves
  <2>3. \A u \in Terms : /\ term'[u].mem = term[u].mem
                         /\ term'[u].att = term[u].att
                         /\ term'[u].tag = IF u = op.t THEN op.att
                                                       ELSE term[u].tag
    BY <1>s, <1>2, <2>1, TagUpdate
  <2>4. \A u \in Terms : RegChange(u)  BY <2>1, <2>2, <2>3 DEF RegChange
  <2>. QED  BY <1>9, <2>1, <2>3, <2>4
<1>12. CASE MemStep(op)
  <2>1. /\ Leaves(op) /\ op.kind = "mem" /\ TagReady(op.t)
        /\ term' = [term EXCEPT ![op.t].mem = op.att]
        /\ UNCHANGED <<connPool, handed, allocs>>
    BY <1>12 DEF MemStep
  <2>2. op \in ops \ ops'  BY <1>3, <2>1 DEF Leaves
  <2>3. \A u \in Terms : /\ term'[u].tag = term[u].tag
                         /\ term'[u].att = term[u].att
                         /\ term'[u].mem = IF u = op.t THEN op.att
                                                       ELSE term[u].mem
    BY <1>s, <1>2, <2>1, MemUpdate
  <2>4. \A u \in Terms : RegChange(u)  BY <2>1, <2>2, <2>3 DEF RegChange
  <2>. QED  BY <1>9, <2>1, <2>3, <2>4
<1>13. CASE MemWaitStep(op)
  <2>1. PICK sure, none : sure = {Frame("wait", op)} /\ none = {}  OBVIOUS
  <2>2. /\ Becomes(op, sure, none) /\ op.kind = "mem"
        /\ UNCHANGED <<ops, term, connPool, handed, allocs>>
    BY <1>13, <2>1 DEF MemWaitStep, NoData
  <2>3. Pooled' = Pooled /\ NewToken  BY <1>6, <1>8, <2>2
  <2>4. \A u \in Terms : RegChange(u) /\ term'[u].att = term[u].att
    BY <1>7, <2>2
  <2>. QED  BY <1>2, <1>5, <2>1, <2>2, <2>3, <2>4
<1>14. CASE RequestFailStep(op)
  <2>1. PICK none : none = {}  OBVIOUS
  <2>2. /\ Becomes(op, none, none) /\ ops' = ops \ {op} /\ ~ Freeing(op)
        /\ op.kind = "connReq" /\ Begins(op)
        /\ FreeTerminal(op.t) /\ UNCHANGED <<handed, allocs>>
    BY <1>14, <2>1 DEF RequestFailStep, Leaves, Begins
  <2>3. term' = [term EXCEPT ![op.t] = VoidFlds(@)]
    BY <2>2 DEF FreeTerminal
  <2>4. \A u \in Terms : RegChange(u) /\ term'[u].att = term[u].att
    <3>1. \A u \in Terms : /\ term'[u].tag = term[u].tag
                           /\ term'[u].mem = term[u].mem
                           /\ term'[u].att = term[u].att
      BY <1>s, <1>2, <2>3, VoidUpdate
    <3>. QED  BY <3>1 DEF RegChange
  <2>5. Pooled' \subseteq Pooled \cup {op.t}
    <3>1. op.t \notin Pooled  BY <1>3, <2>2, OpOwns DEF RegKinds
    <3>2. GivenBack(op.t)  BY <1>s, <1>2, <2>2, <3>1, FreePool
    <3>. QED  BY <3>2, PoolGivenBack DEF SetupInv
  <2>6. ~ Late(op.t) /\ NewToken  BY <1>4, <1>8, <2>2
  <2>. QED  BY <1>5, <2>1, <2>2, <2>4, <2>5, <2>6
<1>15. CASE StartStep(op)
  <2>1. PICK n, sure, none : /\ n = Op("notify", op)
                             /\ sure = {Frame("shake", op)} /\ none = {}
    OBVIOUS
  <2>2. /\ Becomes(op, sure, none) /\ ops' = ops \cup {n} /\ ~ Freeing(op)
        /\ op.kind = "connReq" /\ UNCHANGED <<connPool, handed, allocs>>
        /\ term' = [term EXCEPT ![op.t].started = TRUE]
    BY <1>15, <2>1 DEF StartStep, Begins
  <2>3. \A u \in Terms : RegChange(u) /\ term'[u].att = term[u].att
    <3>1. \A u \in Terms : /\ term'[u].tag = term[u].tag
                           /\ term'[u].mem = term[u].mem
                           /\ term'[u].att = term[u].att
      BY <1>s, <1>2, <2>2, StartUpdate
    <3>. QED  BY <3>1 DEF RegChange
  <2>4. ~ Late(op.t) /\ NewToken /\ Pooled' = Pooled
    BY <1>4, <1>6, <1>8, <2>2
  <2>5. n.t = op.t /\ n.kind = "notify"  BY <1>2, <2>1 DEF Kinds
  <2>. QED  BY <1>2, <1>5, <2>1, <2>2, <2>3, <2>4, <2>5 DEF RegKinds
(* The handler hands over to n.                                            *)
<1>16. ASSUME NEW kind \in {"agree", "disc"}, NEW also,
              also \subseteq {Op("notify", op)},
              Hands(op, Op(kind, op), also),
              UNCHANGED <<connPool, allocs>>,
              \A u \in Terms : RegChange(u) /\ term'[u].att = term[u].att,
              \/ op.kind \in {"connect", "agree"} /\ UNCHANGED handed
              \/ /\ ~ Late(op.t) /\ op.kind = "connReq"
                 /\ Late(op.t)' => NewToken
                 /\ \A sure, maybe :
                      /\ Becomes(op, sure, maybe)
                      /\ \A x \in ops' : x.kind = "connReq" => x \in ops
                      /\ \A f \in sure \cup maybe : ~ Active(f)
                      /\ op \in ops' => Frame("free", op) \in sure
                      => Late(op.t)'
       PROVE  RegInv'
  <2>1. PICK n, m : n = Op(kind, op) /\ m = Op("notify", op)  OBVIOUS
  <2>2. /\ n \in Ops /\ n.t = op.t /\ n.kind = kind
        /\ m.t = op.t /\ m.kind = "notify"
    BY <1>2, <1>16, <2>1 DEF Kinds
  <2>3. PICK sure, maybe :
          /\ Becomes(op, sure, maybe)
          /\ sure \subseteq {Frame("free", op)}
          /\ maybe \subseteq {Frame("run", n)}
          /\ ops' \subseteq ops \cup {n} \cup also
          /\ op \in ops' => \/ op = n \/ op \in also
                            \/ Frame("free", op) \in sure
    BY <1>16, <2>1, HandsIs
  <2>4. /\ \A f \in sure : f.op = op /\ f.pc \in {"free", "shake", "wait"}
        /\ \A f \in maybe : f.pc = "run" /\ f.op \in Ops
    BY <1>2, <2>2, <2>3
  <2>5. \A x \in ops' :
          \/ x \in ops
          \/ x.t = op.t /\ x.kind \notin RegKinds \cup {"connReq"}
    BY <1>16, <2>1, <2>2, <2>3 DEF RegKinds
  <2>6. Pooled' = Pooled  BY <1>6, <1>16
  <2>7. NewToken
    <3>1. CASE UNCHANGED handed  BY <1>8, <3>1
    <3>2. CASE op.kind = "connReq"
      <4>1. op # n /\ op \notin also
        BY <1>16, <2>1, <2>2, <3>2
      <4>2. \A f \in sure \cup maybe : ~ Active(f)
        BY <1>2, <2>4, KindFacts DEF Active
      <4>3. \A x \in ops' : x.kind = "connReq" => x \in ops
        BY <2>5
      <4>. QED  BY <1>16, <2>3, <3>2, <4>1, <4>2, <4>3
    <3>. QED  BY <1>16, <3>1, <3>2
  <2>. QED  BY <1>5, <1>16, <2>3, <2>4, <2>5, <2>6, <2>7
<1>17. CASE AcceptStep(op)
  <2>1. /\ op.kind = "connReq" /\ ~ Freeing(op) /\ RegionsReady(op.t)
        /\ handed' = handed \cup {Token(op)}
        /\ Hands(op, Op("agree", op), {})
        /\ UNCHANGED <<connPool, term, allocs>>
    BY <1>17 DEF AcceptStep
  <2>2. Current(op)  BY <2>1 DEF Current, RegKinds
  <2>3. /\ op.t \notin Pooled /\ op.att = term[op.t].att
        /\ \A x \in ops : x.t = op.t /\ Current(x) => x = op
        /\ \A f \in Frames : Active(f) => f.op.t # op.t
    BY <1>3, <2>1, <2>2, CurrentFacts DEF OnlyCurrent
  <2>4. Late(op.t)' => NewToken  BY <2>1, <2>3 DEF NewToken
  <2>5. ASSUME NEW sure, NEW maybe, Becomes(op, sure, maybe),
               \A x \in ops' : x.kind = "connReq" => x \in ops,
               \A f \in sure \cup maybe : ~ Active(f),
               op \in ops' => Frame("free", op) \in sure
        PROVE  Late(op.t)'
    <3>1. op.t \notin Pooled'  BY <1>6, <2>1, <2>3
    <3>2. \A f \in Frames' : Active(f) => f.op.t # op.t
      BY <2>3, <2>5 DEF Becomes, Others
    <3>3. ASSUME NEW x \in ops', x.t = op.t, x.kind = "connReq"
          PROVE  Freeing(x)'
      <4>1. CASE x = op
        BY <1>2, <2>5, <3>3, <4>1 DEF Becomes, Freeing
      <4>2. CASE x # op
        <5>1. x \in ops /\ ~ Current(x)  BY <2>3, <2>5, <3>3, <4>2
        <5>2. Freeing(x)  BY <3>3, <5>1 DEF Current, RegKinds
        <5>. QED  BY <1>2, <2>5, <4>2, <5>2 DEF Becomes, Others, Freeing
      <4>. QED  BY <4>1, <4>2
    <3>. QED  BY <3>1, <3>2, <3>3 DEF Late
  <2>6. \A u \in Terms : RegChange(u) /\ term'[u].att = term[u].att
    BY <1>7, <2>1
  <2>7. ~ Late(op.t)  BY <1>4, <2>1
  <2>8. PICK none : none = {}  OBVIOUS
  <2>9. Hands(op, Op("agree", op), none)  BY <2>1, <2>8
  <2>. QED  BY <1>16, <2>1, <2>4, <2>5, <2>6, <2>7, <2>8, <2>9
<1>18. CASE AckStep(op)
  <2>1. /\ op.kind = "connect"
        /\ Hands(op, Op("agree", op), {Op("notify", op)})
        /\ UNCHANGED <<connPool, handed, allocs>>
        /\ term' = [term EXCEPT ![op.t].started = TRUE]
    BY <1>18 DEF AckStep
  <2>2. \A u \in Terms : RegChange(u) /\ term'[u].att = term[u].att
    <3>1. \A u \in Terms : /\ term'[u].tag = term[u].tag
                           /\ term'[u].mem = term[u].mem
                           /\ term'[u].att = term[u].att
      BY <1>s, <1>2, <2>1, StartUpdate
    <3>. QED  BY <3>1 DEF RegChange
  <2>. QED  BY <1>16, <2>1, <2>2
<1>19. CASE AwaitStep(op)
  <2>1. PICK none : none = {}  OBVIOUS
  <2>2. /\ op.kind = "agree" /\ Hands(op, Op("disc", op), none)
        /\ UNCHANGED <<term, connPool, handed, allocs>>
    BY <1>19, <2>1 DEF AwaitStep, NoData
  <2>3. \A u \in Terms : RegChange(u) /\ term'[u].att = term[u].att
    BY <1>7, <2>2
  <2>. QED  BY <1>16, <2>1, <2>2, <2>3
<1>20. CASE DropStep(op)
  <2>1. /\ Leaves(op) /\ term' = Post(op.t)
        /\ UNCHANGED <<connPool, handed, allocs>>
    BY <1>20 DEF DropStep
  <2>2. \A u \in Terms : RegChange(u) /\ term'[u].att = term[u].att
    <3>1. \A u \in Terms : /\ term'[u].tag = term[u].tag
                           /\ term'[u].mem = term[u].mem
                           /\ term'[u].att = term[u].att
      BY <1>s, <1>2, <2>1, PostFacts
    <3>. QED  BY <3>1 DEF RegChange
  <2>. QED  BY <1>9, <2>1, <2>2
<1>. QED
  BY <1>1, <1>10, <1>11, <1>12, <1>13, <1>14, <1>15, <1>17, <1>18, <1>19,
     <1>20

(* ... and after all others.                                               *)
LEMMA RegOther ==
  ASSUME SetupInv, OtherStep
  PROVE  RegInv'
PROOF
<1>s. DataOK /\ PoolInv /\ DataOK' /\ allocs \in Nat /\ allocs <= allocs
  BY AttFacts, OtherData DEF SetupInv
<1>1. ASSUME UNCHANGED <<Frames, ops, handed>>, allocs <= allocs',
             \A u \in Terms : /\ RegChange(u)
                              /\ \/ /\ u \in Pooled' => u \in Pooled
                                    /\ term'[u].att = term[u].att
                                 \/ term'[u].tag = 0 /\ term'[u].mem = 0
      PROVE  RegInv'
  <2>1. NewOps /\ NewFrames /\ NewToken
    BY <1>1 DEF NewOps, NewFrames, NewToken
  <2>2. LateKept  BY <1>1 DEF LateKept, Late, Freeing
  <2>. QED  BY <1>s, <1>1, <2>1, <2>2, RegKeeps
<1>2. ASSUME NEW t \in Terms, CancelStep(t)  PROVE RegInv'
  <2>1. /\ term' = [term EXCEPT ![t].closer = "cancelled"]
        /\ UNCHANGED <<Frames, ops, connPool, handed, allocs>>
    BY <1>2 DEF CancelStep
  <2>2. \A u \in Terms : /\ term'[u].tag = term[u].tag
                         /\ term'[u].mem = term[u].mem
                         /\ term'[u].att = term[u].att
    BY <1>s, <2>1, CloserUpdate
  <2>3. Pooled' = Pooled  BY <2>1 DEF Pooled
  <2>. QED  BY <1>s, <1>1, <2>1, <2>2, <2>3 DEF RegChange
<1>3. ASSUME NEW t \in Terms, CloseStep(t)  PROVE RegInv'
  <2>1. /\ term' = [term EXCEPT ![t] = [VoidFlds(@) EXCEPT !.tag = 0,
                                                           !.mem = 0]]
        /\ UNCHANGED <<Frames, ops, handed, allocs>>
    BY <1>3 DEF CloseStep
  <2>2. /\ \A u \in Terms : u # t => term'[u] = term[u]
        /\ term'[t].tag = 0 /\ term'[t].mem = 0
    BY <1>s, <2>1, CloseUpdate
  <2>3. Pooled' = Pooled \cup {t}
    <3>1. t \notin Pooled  BY <1>3, AloneFacts
    <3>2. GivenBack(t)  BY <1>s, <1>3, <2>1, <3>1, FreePool
    <3>. QED  BY <1>s, <3>2, PoolGivenBack
  <2>. QED  BY <1>s, <1>1, <2>1, <2>2, <2>3 DEF RegChange
<1>4. ASSUME NEW kind, AllocStep(kind)  PROVE RegInv'
  <2>1. PICK t, c : t = Head(connPool)
                    /\ c = [kind |-> kind, t |-> t, att |-> allocs + 1]
    OBVIOUS
  <2>2. /\ Frames' = Frames \cup {Frame("regions", c)}
        /\ UNCHANGED <<ops, handed>>
    BY <1>4, <2>1 DEF AllocStep
  <2>3. /\ Pooled' = Pooled \ {t} /\ t \in Pooled
        /\ allocs' = allocs + 1
        /\ \A u \in Terms : /\ term'[u].tag = term[u].tag
                            /\ term'[u].mem = term[u].mem
                            /\ u # t => term'[u] = term[u]
    BY <1>s, <1>4, <2>1, PoolAlloc
  <2>4. /\ Frame("regions", c).pc = "regions" /\ Frame("regions", c).op = c
        /\ c.t = t /\ c.att = allocs + 1
    BY <2>1 DEF Frame
  <2>5. NewOps /\ NewFrames /\ NewToken /\ \A u \in Terms : RegChange(u)
    BY <2>2, <2>3, <2>4 DEF NewOps, NewFrames, NewToken, RegChange
  <2>6. LateKept
    BY <2>2, <2>3, <2>4 DEF LateKept, Late, Freeing
  <2>7. allocs <= allocs'  BY <1>s, <2>3
  <2>. QED  BY <1>s, <2>5, <2>6, <2>7, RegKeeps
<1>5. CASE AllocFailStep
  <2>1. Pooled' = Pooled /\ allocs' = allocs + 1
    BY <1>s, <1>5, PoolAllocFail
  <2>2. allocs <= allocs'  BY <1>s, <2>1
  <2>3. UNCHANGED <<Frames, ops, term, handed>>  BY <1>5 DEF AllocFailStep
  <2>. QED  BY <1>1, <2>1, <2>2, <2>3 DEF RegChange
<1>6. CASE IdleStep
  <2>1. UNCHANGED <<Frames, ops, term, handed, allocs, connPool>>
    BY <1>6 DEF IdleStep
  <2>2. Pooled' = Pooled  BY <2>1 DEF Pooled
  <2>. QED  BY <1>s, <1>1, <2>1, <2>2 DEF RegChange
<1>. QED  BY <1>2, <1>3, <1>4, <1>5, <1>6 DEF OtherStep

-----------------------------------------------------------------------------
(* The theorems.                                                           *)

(* The invariant holds when the library starts, all terminals in the pool. *)
LEMMA SetupInit == Init => SetupInv
PROOF
<1>. SUFFICES ASSUME Init  PROVE SetupInv
  OBVIOUS
<1>1. connPool \in Seq(Terms) /\ Distinct(connPool) /\ Pooled = Terms
  BY FullPool, TerminalSetupAssumption DEF Init, Pooled
<1>2. /\ ops = {} /\ threads = {} /\ allocs = 0 /\ live = {} /\ handed = {}
      /\ failed = "no"
  BY DEF Init
<1>3. 0 \in 0 .. MaxAtt  BY TerminalSetupAssumption
<1>4. term = [t \in Terms |-> [edges |-> FALSE, nd |-> {}, tag |-> 0,
                               mem |-> 0, started |-> FALSE,
                               closer |-> "none", att |-> 0]]
  BY DEF Init
<1>5. term \in [Terms -> TermSet]  BY <1>3, <1>4 DEF TermSet
<1>6. \A t \in Terms : /\ ~ term[t].edges /\ term[t].nd = {}
                       /\ ~ term[t].started /\ term[t].closer = "none"
                       /\ term[t].tag = 0 /\ term[t].mem = 0
                       /\ term[t].att = 0
  BY <1>4
<1>7. Frames = {}  BY <1>2 DEF Frames
<1>8. StacksOK  BY <1>2 DEF StacksOK, StacksApart
<1>9. FailedOK  BY <1>2 DEF FailedOK
<1>10. DataOK  BY <1>1, <1>2, <1>3, <1>5 DEF DataOK, TermSet
<1>11. OpsInv
  BY <1>2, <1>7 DEF OpsInv, HandlersHold, OpsCurrent, OneCurrent,
     FreeingOrder, ActiveOwns, Freeing
<1>12. PoolInv
  <2>1. \A t \in Terms : term[t].att <= allocs  BY <1>2, <1>6
  <2>. QED
    BY <1>1, <1>2, <1>6, <2>1 DEF PoolInv, NoDuplicates, PoolClean, NdWhole,
       NdReleased, AttBound
<1>13. RegInv
  <2>1. \A a \in 1 .. MaxAtt : a # 0  BY TerminalSetupAssumption
  <2>. QED
    BY <1>2, <1>6, <2>1 DEF RegInv, RegionsMatch, RegionsOnce, HandedLate,
       TokensNotShared
<1>. QED
  BY <1>8, <1>9, <1>10, <1>11, <1>12, <1>13 DEF SetupInv

(* Every step keeps it.                                                    *)
LEMMA SetupStep ==
  ASSUME SetupInv, [Next]_vars
  PROVE  SetupInv'
PROOF
<1>1. StacksOK' /\ FailedOK' /\ (CallStep \/ HandlerStep \/ OtherStep)
  BY Effects
<1>2. DataOK' /\ PoolInv'  BY <1>1, CallData, HandlerData, OtherData
<1>3. (\A f \in Frames' : Holds(f)') /\ \A u \in Terms : OpsAt(u)'
  BY <1>1, OpsCall, OpsHandler, OpsOther
<1>4. OpsInv'  BY <1>1, <1>2, <1>3, OpsAtIs
<1>5. RegInv'  BY <1>1, RegCall, RegHandler, RegOther
<1>. QED  BY <1>1, <1>2, <1>4, <1>5 DEF SetupInv

(* The inductive invariant: who owns a terminal, an overlapped object, a   *)
(* region and a place on a stack, at any time.                             *)
THEOREM SetupSafety == Spec => []SetupInv
PROOF
<1>1. Init => SetupInv  BY SetupInit
<1>2. SetupInv /\ [Next]_vars => SetupInv'  BY SetupStep
<1>. QED  BY <1>1, <1>2, PTL DEF Spec

(* Every variable keeps its type; in particular a stack is never empty and *)
(* holds nothing but calls and handlers.                                   *)
THEOREM SetupTypeOK == Spec => []TypeOK
PROOF
<1>1. SetupInv => TypeOK  BY TypeIs DEF SetupInv, StacksOK
<1>. QED  BY <1>1, SetupSafety, PTL

(* The Audit "Memory region state mismatch!" of CreateMemRegions holds:    *)
(* OnMemRegistered waits for the tag region, whichever attempts the two    *)
(* registrations were made for.                                            *)
THEOREM RegionsTheorem == Spec => []RegionsMatch
PROOF
<1>1. SetupInv => RegionsMatch  BY DEF SetupInv, RegInv
<1>. QED  BY <1>1, SetupSafety, PTL

(* No two remote servers are sent the tokens of the same region, although  *)
(* regions are inherited from attempts that failed.                        *)
THEOREM TokensTheorem == Spec => []TokensNotShared
PROOF
<1>1. SetupInv => TokensNotShared  BY DEF SetupInv, RegInv
<1>. QED  BY <1>1, SetupSafety, PTL

(* The ND objects of a terminal are released when its use ends, except     *)
(* those of an InitQues that failed half way.                              *)
THEOREM ReleaseTheorem == Spec => []NdReleased
PROOF
<1>1. SetupInv => NdReleased  BY DEF SetupInv, PoolInv
<1>. QED  BY <1>1, SetupSafety, PTL

(* Nothing but an abandoned registration touches a terminal in the pool.   *)
THEOREM PoolTheorem == Spec => []PooledQuiet
PROOF
<1>1. ASSUME SetupInv  PROVE PooledQuiet
  <2>1. \A t \in Pooled : /\ ~ term[t].edges /\ term[t].nd = {}
                          /\ term[t].closer = "none"
    BY <1>1 DEF SetupInv, PoolInv, PoolClean
  <2>2. \A t \in Pooled : \A op \in ops : op.t = t => op.kind \in RegKinds
    BY <1>1, AloneFacts DEF Alone
  <2>. QED  BY <2>1, <2>2 DEF PooledQuiet, Abandoned, RegKinds
<1>. QED  BY <1>1, SetupSafety, PTL

(* A terminal no thread is at work on has no overlapped object but the one *)
(* of its current call and that of the notification it asked for when it   *)
(* was started.                                                            *)
LEMMA QuietTerminal ==
  ASSUME SetupInv, NEW t \in Terms, ~ Busy(t)
  PROVE  /\ ~ term[t].started =>
              \A op \in ops : op.t = t /\ op.kind = "notify" => FALSE
         /\ \A x, y \in ops :
              /\ x.t = t /\ x.kind \notin RegKinds
              /\ y.t = t /\ y.kind \notin RegKinds
              /\ x.kind = "notify" <=> y.kind = "notify"
              => x = y
PROOF
<1>1. \A f \in Frames : f.op.t # t
  BY DEF Busy, Frames, FramesIn
<1>2. OpsInv  BY DEF SetupInv
<1>3. \A op \in ops : op.t = t => ~ Freeing(op)
  <2>1. \A x : Frame("free", x).op = x  BY DEF Frame
  <2>. QED  BY <1>1, <2>1 DEF Freeing
<1>4. ~ term[t].started =>
        \A op \in ops : op.t = t /\ op.kind = "notify" => FALSE
  BY <1>2 DEF OpsInv, OpsCurrent
<1>5. ASSUME NEW x \in ops, NEW y \in ops,
             x.t = t, x.kind \notin RegKinds, y.t = t, y.kind \notin RegKinds,
             x.kind = "notify" <=> y.kind = "notify"
      PROVE  x = y
  <2>1. CASE x.kind = "notify"
    <3>1. /\ x \in Ops /\ x.att = term[t].att /\ y.kind = "notify"
          /\ y \in Ops /\ y.att = term[t].att
      BY <1>5, <2>1, OpOwns
    <3>. QED  BY <1>5, <2>1, <3>1 DEF Ops
  <2>2. CASE x.kind # "notify"
    <3>1. Current(x) /\ Current(y)  BY <1>3, <1>5, <2>2 DEF Current
    <3>. QED  BY <1>2, <1>5, <3>1 DEF OpsInv, OneCurrent
  <2>. QED  BY <2>1, <2>2
<1>. QED  BY <1>4, <1>5

(* A set of no two different elements.                                     *)
LEMMA AtMostOne ==
  ASSUME NEW S, \A x, y \in S : x = y
  PROVE  /\ IsFiniteSet(S) /\ Cardinality(S) \in 0 .. 1
         /\ S = {} \/ \E x : S = {x}
PROOF
<1>1. CASE S = {}  BY <1>1, FS_EmptySet
<1>2. CASE S # {}
  <2>1. PICK x \in S : TRUE  BY <1>2
  <2>2. S = {x}  BY <2>1
  <2>3. IsFiniteSet(S) /\ Cardinality(S) = 1  BY <2>2, FS_Singleton
  <2>4. S = {} \/ \E y : S = {y}  BY <2>2
  <2>. QED  BY <2>3, <2>4
<1>. QED  BY <1>1, <1>2

(* No overlapped object is left behind: besides registrations, a terminal  *)
(* no thread is at work on has one, and a second once it is started.       *)
THEOREM OverlapTheorem == Spec => []OverlapBound
PROOF
<1>1. ASSUME SetupInv  PROVE OverlapBound
  <2>. SUFFICES ASSUME NEW t \in Terms, ~ Busy(t)
                PROVE  Cardinality({op \in ops : op.t = t
                                      /\ op.kind \notin {"tag", "mem"}})
                         <= IF term[t].started THEN 2 ELSE 1
    BY DEF OverlapBound
  <2>. DEFINE S == {op \in ops : op.t = t /\ op.kind \notin {"tag", "mem"}}
              N == {op \in S : op.kind = "notify"}
              C == {op \in S : op.kind # "notify"}
  <2>1. /\ ~ term[t].started => N = {}
        /\ \A x, y \in N : x = y
        /\ \A x, y \in C : x = y
    BY <1>1, QuietTerminal DEF RegKinds
  <2>2. S = C \cup N  OBVIOUS
  <2>. HIDE DEF S, N, C
  <2>3. IsFiniteSet(C) /\ Cardinality(C) \in 0 .. 1  BY <2>1, AtMostOne
  <2>4. CASE N = {}
    <3>1. Cardinality(S) = Cardinality(C)  BY <2>2, <2>4
    <3>2. Cardinality(S) <= IF term[t].started THEN 2 ELSE 1  BY <2>3, <3>1
    <3>. QED  BY <3>2 DEF S
  <2>5. CASE N # {}
    <3>1. PICK x : N = {x}  BY <2>1, <2>5, AtMostOne
    <3>2. Cardinality(S) = IF x \in C THEN Cardinality(C)
                                      ELSE Cardinality(C) + 1
      BY <2>2, <2>3, <3>1, FS_AddElement
    <3>3. Cardinality(S) <= 2  BY <2>3, <3>2
    <3>4. Cardinality(S) <= IF term[t].started THEN 2 ELSE 1
      BY <2>1, <2>5, <3>3
    <3>. QED  BY <3>4 DEF S
  <2>. QED  BY <2>4, <2>5
<1>. QED  BY <1>1, SetupSafety, PTL

=============================================================================
