---------------------------- MODULE OutboxRelay ---------------------------
(***************************************************************************)
(* The outbox relays: one per process, each claims a batch of unpublished  *)
(* rows under a lease, sends them to the queue one by one, and marks or    *)
(* reschedules each.  Relays meet only in the table outbox_events.         *)
(*                                                                         *)
(* Time is counted in ticks of a second.  A row keeps the time that is     *)
(* left until next_attempt_at, a relay the time since it read its clock;   *)
(* all processes have the same clock.  The batch runs under a context that *)
(* ends with the lease, so after it the relay does nothing more to a row.  *)
(***************************************************************************)
EXTENDS Leases

CONSTANTS
    Relays,         \* the processes that run a relay
    Events,         \* event ids, which are ordered
    Before,         \* pairs of events of one aggregate, in commit order
    Refused,        \* events the queue never accepts
    Batch,          \* OUTBOX_BATCH_SIZE
    Lease,          \* OUTBOX_LEASE
    BackoffMax,     \* OUTBOX_BACKOFF_MAX
    AttemptsCap,    \* attempts are not counted further: the back-off is at its maximum
    NoEvent

ASSUME RelayAssumption ==
    /\ Events \subseteq Nat
    /\ Before \subseteq Events \X Events
    /\ Refused \subseteq Events
    /\ Batch \in Nat \ {0} /\ Lease \in Nat \ {0}
    /\ AttemptsCap \in Nat \ {0}
    /\ NoEvent \notin Events

ASSUME BackoffAssumption ==
    \A n \in 1..AttemptsCap : Backoff(n, BackoffMax) \in Nat

VARIABLES
    committed,  \* events whose row the operation's commit has installed
    published,  \* those with published_at
    attempts,   \* per row
    wait,       \* per row, the ticks until next_attempt_at
    queue,      \* the order of the due rows, by next_attempt_at and event_id
    phase,      \* what each relay does
    todo,       \* what is left of its batch: the claimed attempts of each event
    cur,        \* the event it sends
    elapsed,    \* ticks since it read its clock, up to the lease
    late,       \* events in a request whose sender has given up on it
    delivered   \* events the queue has accepted

rows == <<committed, published, attempts, wait, queue>>
vars == <<committed, published, attempts, wait, queue, phase, todo, cur, elapsed, late, delivered>>

Phases == {"idle", "next", "sending", "accepted", "failed"}
Claims == UNION {[S -> 1..AttemptsCap] : S \in SUBSET Events}

Due == {e \in committed \ published : wait[e] = 0}

Typed ==
    /\ committed \subseteq Events
    /\ published \subseteq committed
    /\ attempts \in [Events -> 0..AttemptsCap]
    /\ wait \in [Events -> Nat]
    /\ phase \in [Relays -> Phases]
    /\ todo \in [Relays -> Claims]
    /\ cur \in [Relays -> Events \cup {NoEvent}]
    /\ elapsed \in [Relays -> 0..Lease]
    /\ late \subseteq Events
    /\ delivered \subseteq Events

(* The types, and that the order of the claims ranges over exactly the due *)
(* rows, each once.  A record in hand has an attempt that counts already:  *)
(* RETURNING reads the row as the claim has updated it (outbox.go:73-78).  *)
TypeOK == Typed /\ InLine(queue, Due)

-----------------------------------------------------------------------------
(* The table.                                                              *)

\* The commit of an operation installs its rows.  Operations on one aggregate
\* take their stamps and commit one after the other, under the wallet lock;
\* other commits may pass between stamp and commit.
\* The row is due at once, at the place its stamp gives it among the due rows.
\* How long those are overdue is not kept, so it may be any place behind the
\* rows whose stamp is known to be earlier.
Commit(e) ==
    /\ e \notin committed
    /\ \A d \in Events : <<d, e>> \in Before => d \in committed
    /\ committed' = committed \cup {e}
    /\ attempts' = [attempts EXCEPT ![e] = 0]
    /\ wait' = [wait EXCEPT ![e] = 0]
    /\ queue' \in Placed(queue, Due, e, {d \in Events : <<d, e>> \in Before /\ attempts[d] = 0}, {})
    /\ UNCHANGED <<published, phase, todo, cur, elapsed, late, delivered>>

\* The rows a claim takes: ORDER BY next_attempt_at, event_id LIMIT batch.
FirstDue == FirstOf(queue, Due, Batch)

Count(n) == IF n < AttemptsCap THEN n + 1 ELSE n

\* Mutant of Claiming: the claim counts the attempt and leaves next_attempt_at.
ClaimingWithoutLease(S) ==
    /\ attempts' = [e \in Events |-> IF e \in S THEN Count(attempts[e]) ELSE attempts[e]]
    /\ UNCHANGED <<wait, queue, committed, published>>

\* The update of a claim: one more attempt, and nobody else's until the lease ends.
Claiming(S) ==
    /\ attempts' = [e \in Events |-> IF e \in S THEN Count(attempts[e]) ELSE attempts[e]]
    /\ wait' = [e \in Events |-> IF e \in S THEN Lease ELSE wait[e]]
    /\ queue' = Without(queue, S)
    /\ UNCHANGED <<committed, published>>

\* MarkPublished, which does nothing to a row that has its stamp.
MarkPublished(e) ==
    /\ published' = published \cup {e}
    /\ queue' = Without(queue, {e})
    /\ UNCHANGED <<committed, attempts, wait>>

\* ScheduleRetry: only on a row that is still unpublished.
ScheduleRetry(e, time) ==
    IF e \in published
    THEN UNCHANGED rows
    ELSE /\ wait' = [wait EXCEPT ![e] = time]
         /\ LET others == Without(queue, {e})
            IN queue' \in IF time = 0 THEN Placed(others, Due \ {e}, e, {}, {}) ELSE {others}
         /\ UNCHANGED <<committed, published, attempts>>

-----------------------------------------------------------------------------
(* One relay: PublishDue, called by tick under a context with the lease as *)
(* its timeout.                                                            *)

\* Mutant of Live: the context does not end with the lease.
LiveTooLong(r) == elapsed[r] <= Lease

\* The context of the batch has not ended.
Live(r) == elapsed[r] < Lease

Release(r) ==
    /\ phase' = [phase EXCEPT ![r] = "idle"]
    /\ todo' = [todo EXCEPT ![r] = [e \in {} |-> 0]]
    /\ cur' = [cur EXCEPT ![r] = NoEvent]
    /\ elapsed' = [elapsed EXCEPT ![r] = 0]

\* On to the next record of the batch.
Advance(r) ==
    /\ phase' = [phase EXCEPT ![r] = "next"]
    /\ todo' = [todo EXCEPT ![r] = [e \in DOMAIN todo[r] \ {cur[r]} |-> todo[r][e]]]
    /\ cur' = [cur EXCEPT ![r] = NoEvent]
    /\ UNCHANGED elapsed

\* Mutant of Claim: the batch carries the counts from before the update.
ClaimOldCount(r) ==
    /\ phase[r] = "idle"
    /\ Due # {}
    /\ Claiming(FirstDue)
    /\ phase' = [phase EXCEPT ![r] = "next"]
    /\ todo' = [todo EXCEPT ![r] = [e \in FirstDue |-> attempts[e]]]
    /\ elapsed' = [elapsed EXCEPT ![r] = 0]
    /\ UNCHANGED <<cur, late, delivered>>

Claim(r) ==
    /\ phase[r] = "idle"
    /\ Due # {}
    /\ Claiming(FirstDue)
    /\ phase' = [phase EXCEPT ![r] = "next"]
    /\ todo' = [todo EXCEPT ![r] = [e \in FirstDue |-> Count(attempts[e])]]
    /\ elapsed' = [elapsed EXCEPT ![r] = 0]
    /\ UNCHANGED <<cur, late, delivered>>

\* The claim commits and its answer is lost: the rows have a lease nobody uses.
LoseClaim(r) ==
    /\ phase[r] = "idle"
    /\ Due # {}
    /\ Claiming(FirstDue)
    /\ UNCHANGED <<phase, todo, cur, elapsed, late, delivered>>

\* The batch is done, or its context has ended.
Finish(r) ==
    /\ phase[r] = "next"
    /\ DOMAIN todo[r] = {} \/ ~Live(r)
    /\ Release(r)
    /\ UNCHANGED <<committed, published, attempts, wait, queue, late, delivered>>

\* SendMessage goes out.  RETURNING has no order, so any record may be next.
Send(r, e) ==
    /\ phase[r] = "next"
    /\ e \in DOMAIN todo[r]
    /\ Live(r)
    /\ phase' = [phase EXCEPT ![r] = "sending"]
    /\ cur' = [cur EXCEPT ![r] = e]
    /\ UNCHANGED <<committed, published, attempts, wait, queue, todo, elapsed, late, delivered>>

\* The queue accepts the message.
Accept(r) ==
    /\ phase[r] = "sending"
    /\ cur[r] \notin Refused
    /\ delivered' = delivered \cup {cur[r]}
    /\ phase' = [phase EXCEPT ![r] = "accepted"]
    /\ UNCHANGED <<committed, published, attempts, wait, queue, todo, cur, elapsed, late>>

\* A request whose sender no longer waits may still be on its way.
Abandon(r) ==
    \/ UNCHANGED late
    \/ phase[r] = "sending" /\ cur[r] \notin Refused /\ late' = late \cup {cur[r]}

\* Mutant of SendFails: the error of Publish is not looked at.
SendErrorIgnored(r) ==
    /\ phase[r] \in {"sending", "accepted"}
    /\ phase' = [phase EXCEPT ![r] = "accepted"]
    /\ Abandon(r)
    /\ UNCHANGED <<committed, published, attempts, wait, queue, todo, cur, elapsed, delivered>>

\* Publish returns an error: the message was refused or lost, or it was
\* accepted and the answer is lost.
SendFails(r) ==
    /\ phase[r] \in {"sending", "accepted"}
    /\ phase' = [phase EXCEPT ![r] = "failed"]
    /\ Abandon(r)
    /\ UNCHANGED <<committed, published, attempts, wait, queue, todo, cur, elapsed, delivered>>

\* An abandoned request arrives after all.
LateAccept(e) ==
    /\ e \in late
    /\ delivered' = delivered \cup {e}
    /\ late' = late \ {e}
    /\ UNCHANGED <<committed, published, attempts, wait, queue, phase, todo, cur, elapsed>>

Mark(r) ==
    /\ phase[r] = "accepted"
    /\ Live(r)
    /\ MarkPublished(cur[r])
    /\ Advance(r)
    /\ UNCHANGED <<late, delivered>>

Retry(r) ==
    /\ phase[r] = "failed"
    /\ Live(r)
    /\ ScheduleRetry(cur[r], TimeLeft(Backoff(todo[r][cur[r]], BackoffMax), elapsed[r]))
    /\ Advance(r)
    /\ UNCHANGED <<late, delivered>>

\* MarkPublished or ScheduleRetry returns an error, which ends the batch.  It
\* may have been executed, unless the context had ended before.
Abort(r) ==
    /\ phase[r] \in {"accepted", "failed"}
    /\ \/ UNCHANGED rows
       \/ Live(r) /\ phase[r] = "accepted" /\ MarkPublished(cur[r])
       \/ /\ Live(r) /\ phase[r] = "failed"
          /\ ScheduleRetry(cur[r], TimeLeft(Backoff(todo[r][cur[r]], BackoffMax), elapsed[r]))
    /\ Release(r)
    /\ UNCHANGED <<late, delivered>>

\* The process dies, or is stopped at the deadline, and starts again.
Crash(r) ==
    /\ phase[r] # "idle"
    /\ Release(r)
    /\ Abandon(r)
    /\ UNCHANGED <<committed, published, attempts, wait, queue, delivered>>

-----------------------------------------------------------------------------
\* A second passes.
Tick ==
    /\ wait' = [e \in Events |-> IF wait[e] > 0 THEN wait[e] - 1 ELSE 0]
    /\ queue' = Followed(queue, Due, {e \in committed \ published : wait[e] = 1})
    /\ elapsed' = [r \in Relays |-> IF phase[r] # "idle" /\ elapsed[r] < Lease
                                    THEN elapsed[r] + 1 ELSE elapsed[r]]
    /\ UNCHANGED <<committed, published, attempts, phase, todo, cur, late, delivered>>

Init ==
    /\ committed = {} /\ published = {}
    /\ attempts = [e \in Events |-> 0]
    /\ wait = [e \in Events |-> 0]
    /\ queue = {}
    /\ phase = [r \in Relays |-> "idle"]
    /\ todo = [r \in Relays |-> [e \in {} |-> 0]]
    /\ cur = [r \in Relays |-> NoEvent]
    /\ elapsed = [r \in Relays |-> 0]
    /\ late = {} /\ delivered = {}

\* What the goroutine of a relay does on its own.
Step(r) ==
    \/ Claim(r) \/ Finish(r) \/ Accept(r) \/ SendFails(r)
    \/ Mark(r) \/ Retry(r) \/ Abort(r)
    \/ \E e \in Events : Send(r, e)

Next ==
    \/ \E e \in Events : Commit(e) \/ LateAccept(e)
    \/ \E r \in Relays : Step(r) \/ LoseClaim(r) \/ Crash(r)
    \/ Tick

Spec == Init /\ [][Next]_vars

\* A step while database, queue and processes work: only a refused message
\* fails, nothing is lost, and a batch is through before its lease ends.
CalmStep ==
    \/ \E e \in Events : Commit(e) \/ LateAccept(e)
    \/ \E r \in Relays :
          \/ Claim(r) \/ Finish(r) \/ Accept(r) \/ Mark(r) \/ Retry(r)
          \/ SendFails(r) /\ cur[r] \in Refused
          \/ \E e \in Events : Send(r, e)
    \/ Tick /\ \A r \in Relays : Live(r)'

\* Time passes, each goroutine has its turn, and outages come to an end.
Fairness ==
    /\ WF_vars(Tick)
    /\ \A r \in Relays : WF_vars(Step(r))
    /\ <>[][CalmStep]_vars

FairSpec == Spec /\ Fairness

-----------------------------------------------------------------------------
(* Properties.                                                             *)

(* Two relays whose batches still run never hold the same event: SKIP      *)
(* LOCKED and the lease of Claim keep their batches apart, and the context *)
(* of PublishDue ends before the row can be claimed again.                 *)
LeaseExclusive ==
    \A r, q \in Relays :
       r # q /\ Live(r) /\ Live(q) => DOMAIN todo[r] \cap DOMAIN todo[q] = {}

(* The lease of a row covers the time its holder has left: an event in a   *)
(* running batch is unpublished and not claimable before the context ends. *)
LeaseCovers ==
    \A r \in Relays : Live(r) =>
       \A e \in DOMAIN todo[r] :
          /\ e \in committed \ published
          /\ wait[e] >= Lease - elapsed[r]

(* The relay's own discipline: an idle relay holds nothing, and one that   *)
(* sends works on an event of its batch, which is delivered once accepted. *)
RelayDiscipline ==
    /\ late \subseteq committed \ Refused
    /\ \A r \in Relays :
       /\ phase[r] = "idle" => DOMAIN todo[r] = {} /\ elapsed[r] = 0
       /\ DOMAIN todo[r] \subseteq committed
       /\ phase[r] \in {"sending", "accepted", "failed"} => cur[r] \in DOMAIN todo[r]
       /\ phase[r] = "accepted" => cur[r] \in delivered

(* No event is sent once it is marked: whoever starts a send (relay.go:69) *)
(* holds a record that MarkPublished of another relay cannot have settled. *)
NoSendAfterMark ==
    [][\A r \in Relays : phase'[r] = "sending" /\ phase[r] # "sending" => cur'[r] \notin published]_vars

Delivery == INSTANCE EventDelivery

(* The relays implement at-least-once delivery of committed events: what   *)
(* is delivered was committed, what MarkPublished settles was delivered.   *)
DeliverySafe == Delivery!Safe

(* And every event the queue does not refuse is delivered and settled in   *)
(* the end, even when others are refused for ever and fill the batches:    *)
(* the order of the claims and the back-off leave it a turn.               *)
DeliveryLive == Delivery!Live

(* What ADR 0015 says of the queue: events of one aggregate arrive in the  *)
(* order in which they were committed.                                     *)
AggregateOrder ==
    \A b \in Before : b[2] \in delivered => b[1] \in delivered
=============================================================================
