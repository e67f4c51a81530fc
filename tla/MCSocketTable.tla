---------------------------- MODULE MCSocketTable ---------------------------
(***************************************************************************)
(* Instances of SocketTable for TLC.  With two generations a slot is used  *)
(* again; two terminals, more than a connection that closes leaves to the  *)
(* next; one listener, which a second listening socket gets after the      *)
(* first has released it.                                                  *)
(***************************************************************************)
EXTENDS SocketTable, TLC

(* For the runs without a liveness property.                               *)
Interchangeable ==
  Permutations(Socks) \cup Permutations(Terms) \cup Permutations(Listeners)
    \cup Permutations(Users)

=============================================================================
