--------------------------- MODULE BrokerProcess ---------------------------
(* What every component of the broker process shares: its threads and the  *)
(* descriptor numbers accept() can return.                                 *)
EXTENDS NullPointer

CONSTANTS Thread, Fd

ASSUME NullIsNothing == NULL \notin Thread \cup Fd
=============================================================================
