------------------------------ MODULE Wagering -----------------------------
(***************************************************************************)
(* The wagering service: HTTP and queue callers that submit operations,    *)
(* pending workers that resume them, and reconciliations, all running      *)
(* concurrently against PostgreSQL under READ COMMITTED.                   *)
(*                                                                         *)
(* An actor is one goroutine inside one SQL transaction.  Every statement  *)
(* it sends is a step of its own: it sees what is committed at that step.  *)
(* What an actor writes is private until Commit and vanishes on Rollback,  *)
(* so a crash of the whole process is the rollback of each of its actors.  *)
(***************************************************************************)
EXTENDS WagerStore

CONSTANTS
    Workers,    \* pending workers
    Auditors    \* reconciliation requests

Actors == Calls \cup Workers \cup Auditors

\* The codes of the answers that refuse a call or report that it failed.
ErrorCodes ==
    {"IDEMPOTENCY_PAYLOAD_CONFLICT", "DUPLICATE_EXTERNAL_TRANSACTION", "VALIDATION",
     "NOT_FOUND", "CONFLICT", "OPTIMISTIC_LOCK", "SKIPPED", "OVERFLOW", "AMOUNT",
     "INVALID_TRANSITION", "INVALID_KIND"}

ASSUME ActorAssumption ==
    /\ NONE \notin Actors \cup ErrorCodes
    /\ Calls \cap Workers = {} /\ Calls \cap Auditors = {} /\ Workers \cap Auditors = {}

VARIABLES
    pc,         \* the statement each actor sends next
    op,         \* the row an actor works on; for a call, its command as a PENDING row
    walletLock, \* the actor holding the FOR UPDATE lock of each wallet
    snap,       \* the wallet as the actor read it under the lock
    ref,        \* the reference row as the actor read it
    dec,        \* the decision it took
    answer      \* what a call was answered, or what an auditor found

local == <<pc, op, walletLock, snap, ref, dec, answer>>
vars == <<wallets, txs, ledger, events, pc, op, walletLock, snap, ref, dec, answer>>

Answer(tag, tx, code) == [tag |-> tag, tx |-> tx, code |-> code]
Nothing == Answer("none", NONE, NONE)

\* The statements an actor may be about to send while its SQL transaction is open.
Locking == {"recheckKey", "recheckExt", "lockRow", "findReference",
            "listReversals", "persist", "commit", "sumLedger"}
Recovering == {"recoverKey", "recoverExt"}
InTransaction == {"findKey", "findExt", "lockWallet"} \cup Locking \cup Recovering

WalletOf(a) == op[a].req.wallet

-----------------------------------------------------------------------------
(* Ends of a SQL transaction.                                              *)

Unlock(a) == walletLock' = [w \in WalletIds |-> IF walletLock[w] = a THEN NONE ELSE walletLock[w]]

Forget(a) ==
    /\ snap' = [snap EXCEPT ![a] = NONE]
    /\ ref' = [ref EXCEPT ![a] = NONE]
    /\ dec' = [dec EXCEPT ![a] = NONE]

\* Mutant of End: the transaction is left open, with its row lock.
EndStillOpen(a, reply) ==
    /\ pc' = [pc EXCEPT ![a] = IF a \in Workers THEN "idle" ELSE "done"]
    /\ op' = IF a \in Workers THEN [op EXCEPT ![a] = NONE] ELSE op
    /\ answer' = IF a \in Workers THEN answer ELSE [answer EXCEPT ![a] = reply]
    /\ Forget(a)
    /\ UNCHANGED <<wallets, txs, ledger, events, walletLock>>

\* The transaction ends without writes.  A call is answered; a worker goes
\* on to its next tick and forgets the row.
End(a, reply) ==
    /\ pc' = [pc EXCEPT ![a] = IF a \in Workers THEN "idle" ELSE "done"]
    /\ op' = IF a \in Workers THEN [op EXCEPT ![a] = NONE] ELSE op
    /\ answer' = IF a \in Workers THEN answer ELSE [answer EXCEPT ![a] = reply]
    /\ Unlock(a)
    /\ Forget(a)
    /\ UNCHANGED tables

Fail(a, code) == End(a, Answer("error", NONE, code))
Replay(a, t) == End(a, Answer("replay", t, NONE))

Goto(a, label) ==
    /\ pc' = [pc EXCEPT ![a] = label]
    /\ UNCHANGED <<wallets, txs, ledger, events, op, walletLock, snap, ref, dec, answer>>

-----------------------------------------------------------------------------
(* Submit.                                                                 *)

Submit(c, r) ==
    /\ pc[c] = "idle"
    /\ pc' = [pc EXCEPT ![c] = "findKey"]
    /\ op' = [op EXCEPT ![c] = NewRow(c, r)]
    /\ UNCHANGED <<wallets, txs, ledger, events, walletLock, snap, ref, dec, answer>>

\* CheckIdempotencyReplay on the row found by (provider, key), if any.
ReplayByKey(c, label) ==
    LET r == op[c].req
        found == ByKey(r)
    IN \/ found = {} /\ Goto(c, label)
       \/ \E t \in found : Payload(txs[t].req) = Payload(r) /\ Replay(c, t)
       \/ \E t \in found : /\ Payload(txs[t].req) # Payload(r)
                           /\ Fail(c, "IDEMPOTENCY_PAYLOAD_CONFLICT")

\* Mutant of ReplayByExt: the identity check is forgotten.
ReplayAnyKey(c) ==
    \E t \in ByExt(op[c].req.provider, op[c].req.ext) : Replay(c, t)

\* CheckExternalIdentity on the row found by (provider, externalId): only the
\* keys are compared, the payload hashes are not.
ReplayByExt(c) ==
    LET r == op[c].req IN
    \E t \in ByExt(r.provider, r.ext) :
       \/ txs[t].req.key = r.key /\ Replay(c, t)
       \/ txs[t].req.key # r.key /\ Fail(c, "DUPLICATE_EXTERNAL_TRANSACTION")

NoExt(c) == ByExt(op[c].req.provider, op[c].req.ext) = {}

FindKey(c) == pc[c] = "findKey" /\ ReplayByKey(c, "findExt")

FindExt(c) ==
    /\ pc[c] = "findExt"
    /\ \/ ReplayByExt(c)
       \/ NoExt(c) /\ Goto(c, "lockWallet")

RecheckKey(c) == pc[c] = "recheckKey" /\ ReplayByKey(c, "recheckExt")

\* The last look at identities, then the checks made before a row exists.
RecheckExt(c) ==
    LET r == op[c].req IN
    /\ pc[c] = "recheckExt"
    /\ \/ ReplayByExt(c)
       \/ /\ NoExt(c)
          /\ IF snap[c].player = r.player /\ ValidRequest(r)
             THEN Goto(c, "findReference")
             ELSE Fail(c, "VALIDATION")

AfterLock(a) ==
    IF a \in Calls THEN "recheckKey" ELSE IF a \in Workers THEN "lockRow" ELSE "sumLedger"

\* Mutant of LockWallet: GetByID in the place of GetByIDForUpdate.
ReadWalletUnlocked(a) ==
    /\ pc[a] = "lockWallet"
    /\ \/ WalletOf(a) \notin DOMAIN wallets /\ Fail(a, "NOT_FOUND")
       \/ /\ WalletOf(a) \in DOMAIN wallets
          /\ pc' = [pc EXCEPT ![a] = AfterLock(a)]
          /\ snap' = [snap EXCEPT ![a] = wallets[WalletOf(a)]]
          /\ UNCHANGED <<wallets, txs, ledger, events, op, walletLock, ref, dec, answer>>

(***************************************************************************)
(* GetByIDForUpdate waits for the holder of the row lock and then reads    *)
(* the last committed version of the wallet.                               *)
(***************************************************************************)
LockWallet(a) ==
    /\ pc[a] = "lockWallet"
    /\ \/ WalletOf(a) \notin DOMAIN wallets /\ Fail(a, "NOT_FOUND")
       \/ /\ WalletOf(a) \in DOMAIN wallets
          /\ walletLock[WalletOf(a)] = NONE
          /\ walletLock' = [walletLock EXCEPT ![WalletOf(a)] = a]
          /\ pc' = [pc EXCEPT ![a] = AfterLock(a)]
          /\ snap' = [snap EXCEPT ![a] = wallets[WalletOf(a)]]
          /\ UNCHANGED <<wallets, txs, ledger, events, op, ref, dec, answer>>

-----------------------------------------------------------------------------
(* applyInTx: find the reference, list its reversals, decide.              *)

\* A worker may find that its attempts or its time to live are spent; both
\* are counted in PendingResume, here they are a free choice.
Outcomes(a, reference, revs) ==
    LET d == Apply(snap[a], op[a], reference, revs) IN
    {d} \cup (IF a \in Workers /\ d = Wait THEN {Reject("REFERENCE_NOT_FOUND")} ELSE {})

Decide(a, reference, revs) ==
    \E d \in Outcomes(a, reference, revs) :
       IF d.status = "ERROR" THEN Fail(a, d.code)
       ELSE /\ pc' = [pc EXCEPT ![a] = "persist"]
            /\ dec' = [dec EXCEPT ![a] = d]
            /\ ref' = [ref EXCEPT ![a] = NONE]
            /\ UNCHANGED <<wallets, txs, ledger, events, op, walletLock, snap, answer>>

FindReference(a) ==
    LET r == op[a].req
        found == ByExt(r.provider, r.ref)
    IN /\ pc[a] = "findReference"
       /\ \/ found = {} /\ Decide(a, NONE, {})
          \/ \E t \in found :
                /\ pc' = [pc EXCEPT ![a] = "listReversals"]
                /\ ref' = [ref EXCEPT ![a] = txs[t]]
                /\ UNCHANGED <<wallets, txs, ledger, events, op, walletLock, snap, dec, answer>>

\* Mutant of ListReversals: the list is read but not handed to Apply.
ListReversalsUnused(a) ==
    /\ pc[a] = "listReversals"
    /\ Decide(a, ref[a], {})

ListReversals(a) ==
    /\ pc[a] = "listReversals"
    /\ Decide(a, ref[a], ProcessedReversals(ref[a].id))

-----------------------------------------------------------------------------
(* persistApply and the end of the SQL transaction.                        *)

\* Another transaction has written, but not committed, a clashing index entry.
PendingClash(a) ==
    \E b \in (Calls \cup Workers) \ {a} :
       /\ pc[b] = "commit"
       /\ \/ a \in Calls /\ b \in Calls /\ SameIdentity(op[a].req, op[b].req)
          \/ ReversalClash(op[a].id, op[a].req.kind, dec[a], RowAfter(snap[b], op[b], dec[b]))

CommittedClash(a) ==
    \E t \in DOMAIN txs :
       \/ a \in Calls /\ SameIdentity(op[a].req, txs[t].req)
       \/ ReversalClash(op[a].id, op[a].req.kind, dec[a], txs[t])

\* ErrConflict aborts the transaction; a call looks for the winner in a new one.
Conflict(a) ==
    IF a \in Calls
    THEN /\ pc' = [pc EXCEPT ![a] = "recoverKey"]
         /\ Unlock(a)
         /\ Forget(a)
         /\ UNCHANGED <<wallets, txs, ledger, events, op, answer>>
    ELSE Fail(a, "CONFLICT")

(***************************************************************************)
(* The writes of persistApply, still private.  A clashing index entry that *)
(* is not committed makes the insert wait, a committed one makes it fail;  *)
(* UPDATE wallets takes the row lock and is conditional on the version.    *)
(***************************************************************************)
Persist(a) ==
    LET w == WalletOf(a) IN
    /\ pc[a] = "persist"
    /\ ~PendingClash(a)
    /\ IF CommittedClash(a) THEN Conflict(a)
       ELSE /\ Moves(dec[a]) => walletLock[w] \in {NONE, a}
            /\ IF Moves(dec[a]) /\ wallets[w].version # snap[a].version
               THEN Fail(a, "OPTIMISTIC_LOCK")
               ELSE /\ pc' = [pc EXCEPT ![a] = "commit"]
                    /\ walletLock' = IF Moves(dec[a]) THEN [walletLock EXCEPT ![w] = a] ELSE walletLock
                    /\ UNCHANGED <<wallets, txs, ledger, events, op, snap, ref, dec, answer>>

Commit(a) ==
    /\ pc[a] = "commit"
    /\ PersistApply(op[a], dec[a], snap[a])
    /\ pc' = [pc EXCEPT ![a] = IF a \in Workers THEN "idle" ELSE "done"]
    /\ op' = IF a \in Workers THEN [op EXCEPT ![a] = NONE] ELSE op
    /\ answer' = IF a \in Workers THEN answer
                 ELSE [answer EXCEPT ![a] = Answer("created", a, NONE)]
    /\ Unlock(a)
    /\ Forget(a)

\* Mutant of RecoverKey: the lost race is reported without looking for the winner.
RecoverGivesUp(c) == pc[c] = "recoverKey" /\ Fail(c, "CONFLICT")

\* loadReplay: the insert lost a race; find the row that won it.
RecoverKey(c) == pc[c] = "recoverKey" /\ ReplayByKey(c, "recoverExt")

RecoverExt(c) ==
    /\ pc[c] = "recoverExt"
    /\ \/ ReplayByExt(c)
       \/ NoExt(c) /\ Fail(c, "CONFLICT")

\* A cancelled context, a lost connection or the end of the process.
Rollback(a) ==
    /\ pc[a] \in InTransaction
    /\ End(a, Answer("lost", NONE, NONE))

-----------------------------------------------------------------------------
(* Pending workers.                                                        *)

RowLocked(t) ==
    \E b \in Workers : /\ pc[b] \in Locking \ {"lockRow"}
                       /\ op[b].id = t

\* Claim commits on its own: the worker holds nothing but the item when it
\* goes on.  A lease that ran out lets a second worker claim the same row.
Claim(a, t) ==
    /\ pc[a] = "idle"
    /\ t \in Calls
    /\ txs[t].status \in Unresolved
    /\ ~RowLocked(t)
    /\ pc' = [pc EXCEPT ![a] = "lockWallet"]
    /\ op' = [op EXCEPT ![a] = txs[t]]
    /\ UNCHANGED <<wallets, txs, ledger, events, walletLock, snap, ref, dec, answer>>

\* Mutant of LockRow: the row is trusted as it was claimed.
TrustClaim(a) ==
    /\ pc[a] = "lockRow"
    /\ Goto(a, "findReference")

\* GetByIDForUpdate on the claimed row, after the wallet: the row is read again.
LockRow(a) ==
    LET row == txs[op[a].id] IN
    /\ pc[a] = "lockRow"
    /\ ~RowLocked(op[a].id)
    /\ \/ row.status \in Terminal /\ Fail(a, "SKIPPED")
       \/ /\ row.status \in Unresolved
          /\ pc' = [pc EXCEPT ![a] = "findReference"]
          /\ op' = [op EXCEPT ![a] = row]
          /\ UNCHANGED <<wallets, txs, ledger, events, walletLock, snap, ref, dec, answer>>

-----------------------------------------------------------------------------
(* ReconcileWallet.                                                        *)

Reconcile(a, w) ==
    /\ pc[a] = "idle"
    /\ w \in DOMAIN wallets
    /\ pc' = [pc EXCEPT ![a] = "lockWallet"]
    /\ op' = [op EXCEPT ![a] = [id |-> NONE, req |-> [wallet |-> w]]]
    /\ UNCHANGED <<wallets, txs, ledger, events, walletLock, snap, ref, dec, answer>>

Signed(e) == IF e.direction = "CREDIT" THEN e.amount ELSE -e.amount

\* The sum of a ledger, as SumByWallet computes it.
LedgerSum(entries) ==
    LET sum[n \in 0..Len(entries)] == IF n = 0 THEN 0 ELSE sum[n - 1] + Signed(entries[n])
    IN sum[Len(entries)]

SumLedger(a) ==
    /\ pc[a] = "sumLedger"
    /\ End(a, Answer(IF LedgerSum(ledger[WalletOf(a)]) = snap[a].balance
                     THEN "consistent" ELSE "divergent", NONE, NONE))

-----------------------------------------------------------------------------
Init ==
    /\ StoreInit
    /\ pc = [a \in Actors |-> "idle"]
    /\ op = [a \in Actors |-> NONE]
    /\ walletLock = [w \in WalletIds |-> NONE]
    /\ snap = [a \in Actors |-> NONE]
    /\ ref = [a \in Actors |-> NONE]
    /\ dec = [a \in Actors |-> NONE]
    /\ answer = [a \in Calls \cup Auditors |-> Nothing]

Open(o) == OpenWallet(o) /\ UNCHANGED local

CallStep(c) ==
    \/ FindKey(c) \/ FindExt(c) \/ RecheckKey(c) \/ RecheckExt(c)
    \/ RecoverKey(c) \/ RecoverExt(c)

Step(a) ==
    \/ LockWallet(a)
    \/ FindReference(a) \/ ListReversals(a) \/ Persist(a) \/ Commit(a)

\* Nothing is running and nothing waits: the service is idle, not stuck.
Idle ==
    /\ \A a \in Actors : pc[a] \in {"idle", "done"}
    /\ UNCHANGED vars

Next ==
    \/ \E o \in Openings : Open(o)
    \/ \E c \in Calls, r \in Requests : Submit(c, r)
    \/ \E c \in Calls : CallStep(c)
    \/ \E a \in Calls \cup Workers : Step(a)
    \/ \E a \in Workers : (\E t \in DOMAIN txs : Claim(a, t)) \/ LockRow(a)
    \/ \E a \in Auditors : (\E w \in WalletIds : Reconcile(a, w)) \/ LockWallet(a) \/ SumLedger(a)
    \/ \E a \in Actors : Rollback(a)
    \/ Idle

Spec == Init /\ [][Next]_vars

(***************************************************************************)
(* Goroutines run and statements return, so every actor keeps taking       *)
(* steps.  PostgreSQL queues the waiters of a row lock, so an actor that   *)
(* waits for one is not passed over for ever: strong fairness.  Nobody is  *)
(* obliged to submit, to open a wallet, to fail or to reconcile.           *)
(***************************************************************************)
Fairness ==
    /\ \A c \in Calls : WF_vars(CallStep(c))
    /\ \A a \in Calls \cup Workers : WF_vars(Step(a)) /\ SF_vars(LockWallet(a))
    /\ \A a \in Workers : WF_vars(LockRow(a))
    /\ \A a \in Auditors : WF_vars(SumLedger(a)) /\ SF_vars(LockWallet(a))

FairSpec == Spec /\ Fairness

-----------------------------------------------------------------------------
(* Types of the actors.                                                    *)

Labels == {"idle", "done"} \cup InTransaction

RowTask == Row \cup {NONE}
AuditTask == [id : {NONE}, req : [wallet : WalletIds]] \cup {NONE}

Decided == [status : Statuses, code : FailureCodes \cup {NONE},
            resolved : TxIds \cup {NONE}, direction : Directions \cup {NONE}]

AnswerCodes == ErrorCodes \cup {NONE}

Answers ==
    [tag : {"none", "created", "replay", "error", "lost", "consistent", "divergent"},
     tx : TxIds \cup {NONE}, code : AnswerCodes]

ActorTypeOK ==
    /\ pc \in [Actors -> Labels]
    /\ op \in [Actors -> RowTask \cup AuditTask]
    /\ \A a \in Calls \cup Workers : op[a] \in RowTask
    /\ \A a \in Auditors : op[a] \in AuditTask
    /\ walletLock \in [WalletIds -> Actors \cup {NONE}]
    /\ snap \in [Actors -> Wallet \cup {NONE}]
    /\ ref \in [Actors -> RowTask]
    /\ dec \in [Actors -> Decided \cup {NONE}]
    /\ answer \in [Calls \cup Auditors -> Answers]

\* Balances and ledger amounts stay within what the columns hold, never below
\* zero, and every private value of an actor is one the program can hold.
TypeOK == StoreTypeOK /\ ActorTypeOK

-----------------------------------------------------------------------------
(* Who may be where, with what in hand: together an inductive invariant.   *)

\* A call works on its own command, whose row does not exist before it commits.
CallDiscipline ==
    \A c \in Calls :
       /\ pc[c] \notin {"lockRow", "sumLedger"}
       /\ pc[c] # "idle" => \E r \in Requests : op[c] = NewRow(c, r)
       /\ pc[c] # "done" => c \notin DOMAIN txs

\* A worker's item may be old, but from LockRow on it is the row as committed.
WorkerDiscipline ==
    \A p \in Workers :
       /\ pc[p] \in {"idle", "lockWallet", "lockRow", "findReference",
                     "listReversals", "persist", "commit"}
       /\ pc[p] # "idle" =>
             /\ op[p] \in Row
             /\ op[p].id \in Calls \cap DOMAIN txs
             /\ op[p].req = txs[op[p].id].req
       /\ pc[p] \in {"findReference", "listReversals", "persist", "commit"} =>
             op[p] = txs[op[p].id] /\ op[p].status \in Unresolved

AuditorDiscipline ==
    \A a \in Auditors :
       /\ pc[a] \in {"idle", "lockWallet", "sumLedger", "done"}
       /\ pc[a] # "idle" => op[a] \in [id : {NONE}, req : [wallet : WalletIds]]

\* A wallet is held from its read to the end of the SQL transaction, and what
\* was read is what is stored for as long as it is held.
LockDiscipline ==
    \A a \in Actors :
       IF pc[a] \in Locking
       THEN /\ WalletOf(a) \in DOMAIN wallets
            /\ walletLock[WalletOf(a)] = a
            /\ snap[a] = wallets[WalletOf(a)]
       ELSE snap[a] = NONE

\* What a decision would make of the balance is a balance.
DecisionDiscipline ==
    \A a \in Calls \cup Workers :
       /\ pc[a] = "listReversals" => ref[a] \in Row
       /\ pc[a] \in {"persist", "commit"} =>
             /\ dec[a] \in Decided
             /\ Moves(dec[a]) =>
                   After(snap[a].balance, dec[a].direction, op[a].req.amount) \in Amounts

Discipline ==
    /\ CallDiscipline /\ WorkerDiscipline /\ AuditorDiscipline
    /\ LockDiscipline /\ DecisionDiscipline

(***************************************************************************)
(* Why one list of reversals, read under one wallet lock, is enough: a     *)
(* reversal and what it reverses share a wallet, so whoever could add to   *)
(* the list between its read and the commit would need the same lock.      *)
(***************************************************************************)
IsReversal(row) == row.status = "PROCESSED" /\ RequiresReference(row.req.kind)

ReversalDiscipline ==
    /\ \A u \in DOMAIN txs : IsReversal(txs[u]) =>
          /\ txs[u].resolved \in DOMAIN txs
          /\ txs[txs[u].resolved].req.wallet = txs[u].req.wallet
          /\ txs[u].req.kind = "REFUND" => txs[txs[u].resolved].req.kind = "BET"
          /\ \A v \in DOMAIN txs :
                IsReversal(txs[v]) /\ txs[v].resolved = txs[u].resolved => u = v
    /\ \A a \in Calls \cup Workers :
          /\ pc[a] = "listReversals" =>
                ref[a].id \in DOMAIN txs /\ ref[a].req = txs[ref[a].id].req
          /\ /\ pc[a] \in {"persist", "commit"}
             /\ dec[a].status = "PROCESSED"
             /\ RequiresReference(op[a].req.kind)
             => /\ dec[a].resolved \in DOMAIN txs
                /\ txs[dec[a].resolved].req.wallet = op[a].req.wallet
                /\ op[a].req.kind = "REFUND" => txs[dec[a].resolved].req.kind = "BET"
                /\ ProcessedReversals(dec[a].resolved) = {}

-----------------------------------------------------------------------------
(* Properties of the interleavings.                                        *)

RejectedForFunds(row) ==
    row.status = "REJECTED" /\ row.code \in {"INSUFFICIENT_FUNDS", "INSUFFICIENT_FUNDS_REVERSAL"}

(***************************************************************************)
(* Money is refused exactly when it does not fit (wallet.go:76-95): no     *)
(* step books a balance below zero or past the int64 range, and whoever is *)
(* rejected for lack of funds, or answered with an overflow, is so when    *)
(* the balance as it is committed at that step has too little or no room.  *)
(* The check is made some statements before, so a refusal on an old        *)
(* balance would turn away an operation that could be booked.              *)
(***************************************************************************)
FundsDecide ==
    [][/\ \A w \in DOMAIN wallets' : wallets'[w].balance \in Amounts
       /\ \A t \in DOMAIN txs' :
             /\ RejectedForFunds(txs'[t])
             /\ t \in DOMAIN txs => txs'[t] # txs[t]
             => wallets[txs'[t].req.wallet].balance < txs'[t].req.amount
       /\ \A c \in Calls :
             /\ answer'[c].code = "OVERFLOW"
             /\ answer'[c] # answer[c]
             => wallets[WalletOf(c)].balance + op[c].req.amount > MaxMinor]_vars

\* An actor past its wallet read works on the wallet as it is committed now:
\* between GetByIDForUpdate and the commit nobody else changes it.
SnapshotIsCurrent ==
    \A a \in Actors : snap[a] # NONE => snap[a] = wallets[WalletOf(a)]

(***************************************************************************)
(* The safety nets of the schema are never reached: no versioned UPDATE    *)
(* finds a newer version, and no insert or update meets the unique index   *)
(* on processed reversals, committed or not.  ADR 0010 calls the first an  *)
(* invariant failure, "not a normal race".                                 *)
(***************************************************************************)
SafetyNetsUnused ==
    \A a \in Calls \cup Workers : pc[a] = "persist" =>
       /\ Moves(dec[a]) => wallets[WalletOf(a)].version = snap[a].version
       /\ \A t \in DOMAIN txs : ~ReversalClash(op[a].id, op[a].req.kind, dec[a], txs[t])
       /\ \A b \in (Calls \cup Workers) \ {a} : pc[b] = "commit" =>
             ~ReversalClash(op[a].id, op[a].req.kind, dec[a], RowAfter(snap[b], op[b], dec[b]))

\* Whoever is answered with a row, first or by replay, is answered with the
\* one committed row of its provider and idempotency key.
AnswersAgree ==
    \A c \in Calls : answer[c].tag \in {"created", "replay"} =>
       ByKey(op[c].req) = {answer[c].tx}

(***************************************************************************)
(* A refusal names a conflict that exists: a payload conflict a row with   *)
(* the key and another payload, a duplicate a row with the external id and *)
(* another key.  The bare conflict of loadReplay is never the answer: the  *)
(* winner of an insert race is always found.                               *)
(***************************************************************************)
RefusalsAreReal ==
    \A c \in Calls :
       LET r == op[c].req IN
       /\ answer[c].code = "IDEMPOTENCY_PAYLOAD_CONFLICT" =>
             \E t \in ByKey(r) : Payload(txs[t].req) # Payload(r)
       /\ answer[c].code = "DUPLICATE_EXTERNAL_TRANSACTION" =>
             \E t \in ByExt(r.provider, r.ext) : txs[t].req.key # r.key
       /\ answer[c].code # "CONFLICT"

\* docs/api/wagering.md and ADR 0012: the same key with another payload is a
\* conflict, never a replay of what the key was first used for.
ReplayHasSamePayload ==
    \A c \in Calls : answer[c].tag = "replay" =>
       Payload(txs[answer[c].tx].req) = Payload(op[c].req)

\* A reconciliation never reports a divergence, whatever commits while it
\* runs: it sums the ledger of the balance it has read.
ReconciliationConsistent == \A a \in Auditors : answer[a].tag # "divergent"

\* Every call that was submitted is answered: no cycle of row locks and index
\* waits, and no worker that keeps retrying, holds it back for ever.
EveryCallAnswered == \A c \in Calls : pc[c] # "idle" ~> pc[c] = "done"
=============================================================================
