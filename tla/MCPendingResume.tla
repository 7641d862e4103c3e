-------------------------- MODULE MCPendingResume -------------------------
(***************************************************************************)
(* Small instances of PendingResume.                                       *)
(***************************************************************************)
EXTENDS PendingResume

\* A bet with two reversals of which the first cannot be booked.
Blocked == <<NoOperation, 1, 1>>
=============================================================================
