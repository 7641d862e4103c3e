---------------------------- MODULE WagerDomain ----------------------------
(***************************************************************************)
(* The pure decision of internal/domain: what one operation does to one    *)
(* wallet, given the reference it names and the reversals that reference   *)
(* already has.  Nothing here has state; WagerStore holds the tables and   *)
(* Wagering the concurrent callers.                                        *)
(*                                                                         *)
(* A request is a record with the fields of SubmitCommand; a row is one    *)
(* record of wager_transactions; a decision is the part of ApplyResult     *)
(* that the tables are computed from.                                      *)
(***************************************************************************)
EXTENDS Integers

CONSTANTS
    NONE,       \* the absent value: no reference, no code, no lock holder
    MaxMinor    \* the largest amount an int64 of minor units can hold

ASSUME MaxMinorAssumption == MaxMinor \in Nat

Unresolved == {"PENDING", "PENDING_REFERENCE"}
Terminal == {"PROCESSED", "REJECTED", "FAILED"}
Statuses == Unresolved \cup Terminal
Directions == {"DEBIT", "CREDIT"}

RequiresReference(kind) == kind \in {"REFUND", "ROLLBACK"}

\* validateKindAmount: a LOSS carries zero, every other kind a positive amount.
KindAmountOK(kind, amount) ==
    IF kind = "LOSS" THEN amount = 0 ELSE amount > 0

\* NewExternalTransaction: what is refused before a row exists.
ValidRequest(r) ==
    /\ r.kind \in {"BET", "WIN", "LOSS", "REFUND", "ROLLBACK"}
    /\ KindAmountOK(r.kind, r.amount)
    /\ RequiresReference(r.kind) => r.ref # NONE

NewRow(id, r) ==
    [id |-> id, req |-> r, status |-> "PENDING", code |-> NONE,
     resolved |-> NONE, balance |-> NONE]

\* The canonical payload is the command without its idempotency key; two
\* payload hashes are equal exactly when the payloads are.
Payload(r) == [r EXCEPT !.key = NONE]

-----------------------------------------------------------------------------
(* Decisions: the four ways Apply can end.                                 *)

Decision(status, code, resolved, direction) ==
    [status |-> status, code |-> code, resolved |-> resolved,
     direction |-> direction]

Process(direction, resolved) == Decision("PROCESSED", NONE, resolved, direction)
Reject(code) == Decision("REJECTED", code, NONE, NONE)
Wait == Decision("PENDING_REFERENCE", NONE, NONE, NONE)
Invalid(code) == Decision("ERROR", code, NONE, NONE)

Moves(d) == d.direction \in Directions

FailureCodes ==
    {"INCOMPATIBLE_CURRENCY", "INSUFFICIENT_FUNDS", "INSUFFICIENT_FUNDS_REVERSAL",
     "REFERENCE_UNSUCCESSFUL", "REFERENCE_KIND_INVALID", "REFERENCE_MISMATCH",
     "DUPLICATE_REVERSAL", "REFERENCE_NOT_FOUND"}

\* The absent value is neither a direction nor a decision.
ASSUME NoneAssumption ==
    /\ NONE \notin Directions
    /\ NONE # Wait
    /\ \A code \in FailureCodes : NONE # Reject(code)

(***************************************************************************)
(* Wallet.move: a debit may not go below zero, a credit may not pass the   *)
(* int64 range.  The first is a business rejection, the second an error    *)
(* that leaves no trace.                                                   *)
(***************************************************************************)
After(balance, direction, amount) ==
    IF direction = "CREDIT" THEN balance + amount ELSE balance - amount

\* Mutant of Debit: the balance may go below zero.
DebitUnchecked(w, r, shortCode, resolved) == Process("DEBIT", resolved)

Debit(w, r, shortCode, resolved) ==
    IF After(w.balance, "DEBIT", r.amount) < 0
    THEN Reject(shortCode)
    ELSE Process("DEBIT", resolved)

\* Mutant of Credit: the balance may pass the largest amount.
CreditUnchecked(w, r, resolved) == Process("CREDIT", resolved)

Credit(w, r, resolved) ==
    IF After(w.balance, "CREDIT", r.amount) > MaxMinor
    THEN Invalid("OVERFLOW")
    ELSE Process("CREDIT", resolved)

-----------------------------------------------------------------------------
(* References.                                                             *)

\* Mutant of MatchReference: a reversal of another amount is let through.
MatchReferenceAnyAmount(r, s, equalAmount) ==
    /\ r.provider = s.provider
    /\ r.player = s.player
    /\ r.wallet = s.wallet
    /\ r.round = s.round
    /\ r.currency = s.currency

MatchReference(r, s, equalAmount) ==
    /\ r.provider = s.provider
    /\ r.player = s.player
    /\ r.wallet = s.wallet
    /\ r.round = s.round
    /\ r.currency = s.currency
    /\ equalAmount => r.amount = s.amount

(***************************************************************************)
(* What a reference allows before funds are looked at: NONE when the       *)
(* operation may go on, otherwise the decision it is stopped with.  A      *)
(* reference that is absent or still undecided makes the operation wait.   *)
(***************************************************************************)
ReferenceStop(r, ref, kinds, equalAmount) ==
    IF ref = NONE THEN Wait
    ELSE IF ref.status \in Unresolved THEN Wait
    ELSE IF ref.status \in {"REJECTED", "FAILED"} THEN Reject("REFERENCE_UNSUCCESSFUL")
    ELSE IF ref.req.kind \notin kinds THEN Reject("REFERENCE_KIND_INVALID")
    ELSE IF ~MatchReference(r, ref.req, equalAmount) THEN Reject("REFERENCE_MISMATCH")
    ELSE NONE

HasProcessed(revs, kind, refId) ==
    \E v \in revs : v.status = "PROCESSED" /\ v.req.kind = kind /\ v.resolved = refId

ApplyLoss == Process(NONE, NONE)

ApplyBet(w, r) == Debit(w, r, "INSUFFICIENT_FUNDS", NONE)

ApplyWin(w, r, ref) ==
    LET stop == ReferenceStop(r, ref, {"BET"}, FALSE) IN
    IF r.ref = NONE THEN Credit(w, r, NONE)
    ELSE IF stop # NONE THEN stop
    ELSE Credit(w, r, ref.id)

\* Mutant of ApplyRefund: a bet already rolled back is refunded.
RefundIgnoringRollbacks(w, r, ref, revs) ==
    LET stop == ReferenceStop(r, ref, {"BET"}, TRUE) IN
    IF stop # NONE THEN stop
    ELSE IF HasProcessed(revs, "REFUND", ref.id) THEN Reject("DUPLICATE_REVERSAL")
    ELSE Credit(w, r, ref.id)

ApplyRefund(w, r, ref, revs) ==
    LET stop == ReferenceStop(r, ref, {"BET"}, TRUE) IN
    IF stop # NONE THEN stop
    ELSE IF \E kind \in {"REFUND", "ROLLBACK"} : HasProcessed(revs, kind, ref.id)
         THEN Reject("DUPLICATE_REVERSAL")
         ELSE Credit(w, r, ref.id)

\* A BET is undone with a credit, a WIN or a REFUND with a debit.
ApplyRollback(w, r, ref, revs) ==
    LET stop == ReferenceStop(r, ref, {"BET", "WIN", "REFUND"}, TRUE) IN
    IF stop # NONE THEN stop
    ELSE IF \/ HasProcessed(revs, "ROLLBACK", ref.id)
            \/ ref.req.kind = "BET" /\ HasProcessed(revs, "REFUND", ref.id)
         THEN Reject("DUPLICATE_REVERSAL")
    ELSE IF ref.req.kind = "BET" THEN Credit(w, r, ref.id)
    ELSE Debit(w, r, "INSUFFICIENT_FUNDS_REVERSAL", ref.id)

(***************************************************************************)
(* Apply: op is the operation's row, ref the row its reference names or    *)
(* NONE, revs the processed reversals read for ref.                        *)
(***************************************************************************)
Apply(w, op, ref, revs) ==
    LET r == op.req IN
    IF op.status \notin Unresolved THEN Invalid("INVALID_TRANSITION")
    ELSE IF r.currency # w.currency THEN Reject("INCOMPATIBLE_CURRENCY")
    ELSE IF ~KindAmountOK(r.kind, r.amount) THEN Invalid("AMOUNT")
    ELSE CASE r.kind = "BET"      -> ApplyBet(w, r)
           [] r.kind = "WIN"      -> ApplyWin(w, r, ref)
           [] r.kind = "LOSS"     -> ApplyLoss
           [] r.kind = "REFUND"   -> ApplyRefund(w, r, ref, revs)
           [] r.kind = "ROLLBACK" -> ApplyRollback(w, r, ref, revs)
           [] OTHER               -> Invalid("INVALID_KIND")

-----------------------------------------------------------------------------
(* What a decision makes of the wallet, the row, the ledger and the events. *)

WalletAfter(w, op, d) ==
    IF Moves(d)
    THEN [w EXCEPT !.balance = After(w.balance, d.direction, op.req.amount),
                   !.version = w.version + 1]
    ELSE w

RowAfter(w, op, d) ==
    [op EXCEPT !.status = d.status, !.code = d.code, !.resolved = d.resolved,
               !.balance = IF d.status = "PROCESSED"
                           THEN WalletAfter(w, op, d).balance ELSE NONE]

EntryFor(w, op, d) ==
    [tx |-> op.id, direction |-> d.direction, amount |-> op.req.amount,
     before |-> w.balance, after |-> WalletAfter(w, op, d).balance]

Event(type, version) == [type |-> type, version |-> version]

\* Mutant of EventsFor: the version before the movement is announced.
EventsWithOldVersion(w, op, d) ==
    IF d.status = "REJECTED" THEN <<Event("Rejected", NONE)>>
    ELSE IF d.status = "PROCESSED"
         THEN IF Moves(d)
              THEN <<Event("Processed", NONE), Event("BalanceChanged", w.version)>>
              ELSE <<Event("Processed", NONE)>>
    ELSE IF op.status = "PENDING_REFERENCE" THEN <<>>
    ELSE <<Event("PendingReference", NONE)>>

\* Mutant of EventsFor: every unsuccessful resume announces the wait again.
EventsRepeatingWait(w, op, d) ==
    IF d.status = "REJECTED" THEN <<Event("Rejected", NONE)>>
    ELSE IF d.status = "PROCESSED"
         THEN IF Moves(d)
              THEN <<Event("Processed", NONE),
                     Event("BalanceChanged", WalletAfter(w, op, d).version)>>
              ELSE <<Event("Processed", NONE)>>
    ELSE <<Event("PendingReference", NONE)>>

\* An operation that already waits is not announced as waiting again.
EventsFor(w, op, d) ==
    IF d.status = "REJECTED" THEN <<Event("Rejected", NONE)>>
    ELSE IF d.status = "PROCESSED"
         THEN IF Moves(d)
              THEN <<Event("Processed", NONE),
                     Event("BalanceChanged", WalletAfter(w, op, d).version)>>
              ELSE <<Event("Processed", NONE)>>
    ELSE IF op.status = "PENDING_REFERENCE" THEN <<>>
    ELSE <<Event("PendingReference", NONE)>>
=============================================================================
