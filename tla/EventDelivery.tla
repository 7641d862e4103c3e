--------------------------- MODULE EventDelivery --------------------------
(***************************************************************************)
(* What the outbox promises about the events of the service, whatever      *)
(* relays, leases, crashes and retries do (ADR 0015 and 0016): only        *)
(* committed events are delivered, only delivered ones are settled, and    *)
(* every event the queue does not refuse is delivered and settled.  A      *)
(* consumer keys on eventId, so a second copy of an event changes nothing. *)
(***************************************************************************)
CONSTANTS
    Events,     \* the ids of the events
    Refused     \* those the queue will never accept

VARIABLES committed, delivered, published

deliveryVars == <<committed, delivered, published>>

Init == committed = {} /\ delivered = {} /\ published = {}

Commit(e) ==
    /\ e \notin committed
    /\ committed' = committed \cup {e}
    /\ UNCHANGED <<delivered, published>>

Deliver(e) ==
    /\ e \in committed \ delivered
    /\ e \notin Refused
    /\ delivered' = delivered \cup {e}
    /\ UNCHANGED <<committed, published>>

Settle(e) ==
    /\ e \in delivered \ published
    /\ published' = published \cup {e}
    /\ UNCHANGED <<committed, delivered>>

Next == \E e \in Events : Commit(e) \/ Deliver(e) \/ Settle(e)

Safe == Init /\ [][Next]_deliveryVars

Live == \A e \in Events : WF_deliveryVars(Deliver(e)) /\ WF_deliveryVars(Settle(e))
=============================================================================
