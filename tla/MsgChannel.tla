----------------------------- MODULE MsgChannel -----------------------------
(***************************************************************************)
(* What hermes.hpp promises about one direction of a connection: a message *)
(* for which Send returned H_ok is handed to the peer's RcvNotifier once   *)
(* and in the order of the calls, its SendCompletionNotifier is called     *)
(* once and in that order, and both do happen as long as the connection is *)
(* up.  A connection may go down at any moment; what was not yet delivered *)
(* is then lost, always a suffix of what was accepted.                     *)
(***************************************************************************)
EXTENDS Naturals, Sequences

CONSTANT Msgs

VARIABLES
  accepted,   (* messages for which Send returned H_ok, in call order      *)
  completed,  (* messages whose SendCompletionNotifier was called          *)
  delivered,  (* messages the peer's RcvNotifier received                  *)
  up          (* the connection is up                                      *)

vars == <<accepted, completed, delivered, up>>

Init ==
  /\ accepted = <<>>
  /\ completed = <<>>
  /\ delivered = <<>>
  /\ up = TRUE

(* The next accepted message that done does not hold yet.                  *)
AdvanceTo(done) == Append(done, accepted[Len(done) + 1])

Accept(m) ==
  /\ accepted' = Append(accepted, m)
  /\ UNCHANGED <<completed, delivered, up>>

Complete ==
  /\ Len(completed) < Len(accepted)
  /\ completed' = AdvanceTo(completed)
  /\ UNCHANGED <<accepted, delivered, up>>

(* A message is on its way before its notifier is called, but the next one *)
(* is not.                                                                 *)
Deliver ==
  /\ Len(delivered) < Len(accepted)
  /\ Len(delivered) <= Len(completed)
  /\ delivered' = AdvanceTo(delivered)
  /\ UNCHANGED <<accepted, completed, up>>

GoDown ==
  /\ up
  /\ up' = FALSE
  /\ UNCHANGED <<accepted, completed, delivered>>

(* A new connection on the same terminal.                                  *)
Restart ==
  /\ ~ up
  /\ up' = TRUE
  /\ accepted' = <<>>
  /\ completed' = <<>>
  /\ delivered' = <<>>

Next ==
  \/ \E m \in Msgs : Accept(m)
  \/ Complete
  \/ Deliver
  \/ GoDown
  \/ Restart

Safety == Init /\ [][Next]_vars

(* While the connection is up, completion and delivery keep going.         *)
Progress == WF_vars(up /\ Complete) /\ WF_vars(up /\ Deliver)

Spec == Safety /\ Progress

=============================================================================
