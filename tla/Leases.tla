------------------------------- MODULE Leases -----------------------------
(***************************************************************************)
(* What the outbox relay and the pending worker share: rows that are       *)
(* claimed in batches under a lease kept in next_attempt_at, and retried   *)
(* with an exponential back-off.  Times are in seconds; a row keeps the    *)
(* time left until next_attempt_at, and the order of the stamps of the due *)
(* rows is the set of the pairs <<d, e>> of them of which d comes first.   *)
(***************************************************************************)
EXTENDS Integers, FiniteSets

\* The longest delay: a minute when none is configured.
Ceiling(max) == IF max <= 0 THEN 60 ELSE max

\* Mutant of Backoff: the maximum counts only when the shift is too large.
BackoffUncapped(attempts, max) ==
    LET shift == IF attempts < 1 THEN 0 ELSE attempts - 1
    IN IF shift > 20 THEN Ceiling(max) ELSE 2^shift

\* The delay before the next attempt: min(max, 1s << (attempts - 1)).
Backoff(attempts, max) ==
    LET shift == IF attempts < 1 THEN 0 ELSE attempts - 1
    IN IF shift > 20 \/ 2^shift > Ceiling(max) THEN Ceiling(max) ELSE 2^shift

\* The time until a stamp that was computed from a clock read a while ago.
TimeLeft(delay, passed) == IF delay > passed THEN delay - passed ELSE 0

\* The order without the rows that are claimed or settled.
Without(order, S) == {p \in order : p[1] \notin S /\ p[2] \notin S}

\* Mutant of FirstOf: ORDER BY next_attempt_at DESC.
LastOf(order, due, limit) ==
    {e \in due : Cardinality({d \in due : <<e, d>> \in order}) < limit}

\* The rows a claim takes: ORDER BY next_attempt_at LIMIT limit.
FirstOf(order, due, limit) ==
    {e \in due : Cardinality({d \in due : <<d, e>> \in order}) < limit}

\* The orders in which row e may take its place among the due rows: behind
\* some of them and before others.
Placed(order, due, e, behind, before) ==
    {order \cup (ahead \X {e}) \cup ({e} \X (due \ ahead)) : ahead \in {S \in SUBSET due :
        /\ \A p \in order : p[2] \in S => p[1] \in S
        /\ behind \cap due \subseteq S
        /\ before \cap S = {}}}

\* Rows that become due at one instant come behind the others, by their ids.
Followed(order, due, new) ==
    order \cup (due \X new) \cup {p \in new \X new : p[1] < p[2]}

\* The order ranges over exactly the due rows, and has each in one place.
InLine(order, due) ==
    /\ order \subseteq due \X due
    /\ \A d, e \in due : <<d, e>> \in order <=> d # e /\ <<e, d>> \notin order
    /\ \A d, e, f \in due : <<d, e>> \in order /\ <<e, f>> \in order => <<d, f>> \in order
=============================================================================
