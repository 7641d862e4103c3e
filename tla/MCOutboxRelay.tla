--------------------------- MODULE MCOutboxRelay --------------------------
(***************************************************************************)
(* Small instances of OutboxRelay.  The ids of the events are numbers; the *)
(* first two events are of one aggregate.                                  *)
(***************************************************************************)
EXTENDS OutboxRelay

SameAggregate == {<<1, 2>>}
=============================================================================
