--------------------------- MODULE MCTerminalSetup ---------------------------
(***************************************************************************)
(* Instances of TerminalSetup.  A terminal can block three IOCP threads:   *)
(* the buffer registration of two attempts and a connection request.       *)
(* QueuePool is FALSE: InitQues then has more ways to fail half way.       *)
(***************************************************************************)
EXTENDS TerminalSetup

CONSTANTS t1, t2

=============================================================================
