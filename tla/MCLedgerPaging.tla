--------------------------- MODULE MCLedgerPaging -------------------------
(***************************************************************************)
(* A small instance of LedgerPaging: pages of one entry by default and of  *)
(* two at most; three stamps in one second, two of which are stored as one.*)
(***************************************************************************)
EXTENDS LedgerPaging

SomeLimits == {EMPTY, 3}
=============================================================================
