----------------------------- MODULE MCSendPath -----------------------------
(***************************************************************************)
(* Instances of SendPath for TLC.  A message of three units takes two      *)
(* packets of two units, one of one unit takes one, and an empty message   *)
(* is a header and a footer only.                                          *)
(***************************************************************************)
EXTENDS SendPath, TLC

CONSTANTS t1, t2, m1, m2, m3

Sizes == [m \in Msgs |-> CASE m = m1 -> 3 [] m = m2 -> 1 [] m = m3 -> 0]

(* Threads are interchangeable (no run with a liveness property uses it).  *)
UserSymmetry == Permutations(Threads)

=============================================================================
