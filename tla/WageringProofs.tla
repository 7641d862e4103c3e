--------------------------- MODULE WageringProofs ---------------------------
(***************************************************************************)
(* Proofs about Wagering for any number of calls, workers and auditors,    *)
(* any wallets and any commands.                                           *)
(*                                                                         *)
(* The inductive invariant is TypeOK together with Discipline: who holds   *)
(* which wallet, what each actor has in hand, and that a decision fits the *)
(* wallet it was taken on.                                                 *)
(***************************************************************************)
EXTENDS Wagering, SequenceTheorems, WellFoundedInduction, TLAPS

Inv == TypeOK /\ Discipline

-----------------------------------------------------------------------------
(* Lemmas about tables, decisions and writes.                              *)

\* Every row's command has a wallet of the model and an amount of the type.
LEMMA RequestTypes ==
    \A r \in AllRequests : r.wallet \in WalletIds /\ r.amount \in Amounts
BY StoreAssumption DEF AllRequests, OpeningRequest, Amounts

\* What a reference stops an operation with, when it does, is a rejection or a wait.
LEMMA StopTypes ==
    ASSUME NEW r, NEW reference \in Row \cup {NONE}, NEW kinds, NEW equalAmount
    PROVE  LET stop == ReferenceStop(r, reference, kinds, equalAmount) IN
           IF stop = NONE THEN reference \in Row
           ELSE stop \in Decided /\ ~Moves(stop)
<1>1. Wait \in Decided /\ ~Moves(Wait)
  BY NoneAssumption DEF Wait, Decision, Decided, Moves, Statuses, Unresolved
<1>2. \A code \in FailureCodes : Reject(code) \in Decided /\ ~Moves(Reject(code))
  BY NoneAssumption DEF Reject, Decision, Decided, Moves, Statuses, Terminal
<1>3. {"REFERENCE_UNSUCCESSFUL", "REFERENCE_KIND_INVALID", "REFERENCE_MISMATCH"} \subseteq FailureCodes
  BY DEF FailureCodes
<1> QED BY <1>1, <1>2, <1>3, NoneAssumption DEF ReferenceStop

\* A decision that could be taken on wallet w for operation o.
Fits(w, o, d) ==
    \/ d.status = "ERROR" /\ d.code \in AnswerCodes
    \/ /\ d \in Decided
       /\ Moves(d) => After(w.balance, d.direction, o.req.amount) \in Amounts

\* Debits and credits check the balance before they move it.
LEMMA DebitFits ==
    ASSUME NEW w \in Wallet, NEW o \in Row, NEW code \in FailureCodes,
           NEW resolved \in TxIds \cup {NONE}
    PROVE  Fits(w, o, Debit(w, o.req, code, resolved))
<1>1. w.balance \in Amounts /\ o.req.amount \in Amounts
  BY RequestTypes DEF Wallet, Row
<1>2. CASE After(w.balance, "DEBIT", o.req.amount) < 0
  BY <1>2, NoneAssumption DEF Debit, Reject, Decision, Fits, Decided, Statuses, Terminal, Moves
<1>3. CASE ~(After(w.balance, "DEBIT", o.req.amount) < 0)
  <2>1. After(w.balance, "DEBIT", o.req.amount) \in Amounts
    BY <1>1, <1>3, MaxMinorAssumption DEF After, Amounts
  <2> QED BY <1>3, <2>1 DEF Debit, Process, Decision, Fits, Decided, Statuses, Terminal, Directions
<1> QED BY <1>2, <1>3

LEMMA CreditFits ==
    ASSUME NEW w \in Wallet, NEW o \in Row, NEW resolved \in TxIds \cup {NONE}
    PROVE  Fits(w, o, Credit(w, o.req, resolved))
<1>1. w.balance \in Amounts /\ o.req.amount \in Amounts
  BY RequestTypes DEF Wallet, Row
<1>2. CASE After(w.balance, "CREDIT", o.req.amount) > MaxMinor
  BY <1>2 DEF Credit, Invalid, Decision, Fits, AnswerCodes, ErrorCodes
<1>3. CASE ~(After(w.balance, "CREDIT", o.req.amount) > MaxMinor)
  <2>1. After(w.balance, "CREDIT", o.req.amount) \in Amounts
    BY <1>1, <1>3, MaxMinorAssumption DEF After, Amounts
  <2> QED BY <1>3, <2>1 DEF Credit, Process, Decision, Fits, Decided, Statuses, Terminal, Directions
<1> QED BY <1>2, <1>3

LEMMA StopFits ==
    ASSUME NEW w, NEW o, NEW d \in Decided, ~Moves(d)
    PROVE  Fits(w, o, d)
BY DEF Fits

LEMMA RejectFits ==
    ASSUME NEW w, NEW o, NEW code \in FailureCodes
    PROVE  Fits(w, o, Reject(code))
BY NoneAssumption DEF Fits, Reject, Decision, Decided, Statuses, Terminal, Moves

\* Apply never decides on a movement the wallet cannot make.
LEMMA ApplyFits ==
    ASSUME NEW w \in Wallet, NEW o \in Row, NEW reference \in Row \cup {NONE}, NEW revs
    PROVE  Fits(w, o, Apply(w, o, reference, revs))
<1> DEFINE r == o.req
<1>0. FailureCodes = {"INCOMPATIBLE_CURRENCY", "INSUFFICIENT_FUNDS", "INSUFFICIENT_FUNDS_REVERSAL",
     "REFERENCE_UNSUCCESSFUL", "REFERENCE_KIND_INVALID", "REFERENCE_MISMATCH",
     "DUPLICATE_REVERSAL", "REFERENCE_NOT_FOUND"}
  BY DEF FailureCodes
<1>1. Fits(w, o, ApplyBet(w, r))
  BY <1>0, DebitFits DEF ApplyBet
<1>2. Fits(w, o, ApplyLoss)
  BY NoneAssumption DEF ApplyLoss, Process, Decision, Fits, Decided, Statuses, Terminal, Moves
<1>3. \A x \in Row : x.id \in TxIds
  BY DEF Row
<1>4. Fits(w, o, ApplyWin(w, r, reference))
  <2> DEFINE stop == ReferenceStop(r, reference, {"BET"}, FALSE)
  <2>1. IF stop = NONE THEN reference \in Row ELSE stop \in Decided /\ ~Moves(stop)
    BY StopTypes
  <2>2. stop # NONE => Fits(w, o, stop)
    BY <2>1, StopFits
  <2>3. Fits(w, o, Credit(w, r, NONE))
    BY CreditFits
  <2>4. stop = NONE => Fits(w, o, Credit(w, r, reference.id))
    BY <2>1, <1>3, CreditFits
  <2> QED BY <2>2, <2>3, <2>4 DEF ApplyWin
<1>5. Fits(w, o, ApplyRefund(w, r, reference, revs))
  <2> DEFINE stop == ReferenceStop(r, reference, {"BET"}, TRUE)
  <2>1. IF stop = NONE THEN reference \in Row ELSE stop \in Decided /\ ~Moves(stop)
    BY StopTypes
  <2>2. stop # NONE => Fits(w, o, stop)
    BY <2>1, StopFits
  <2>3. Fits(w, o, Reject("DUPLICATE_REVERSAL"))
    BY <1>0, RejectFits
  <2>4. stop = NONE => Fits(w, o, Credit(w, r, reference.id))
    BY <2>1, <1>3, CreditFits
  <2> QED BY <2>2, <2>3, <2>4 DEF ApplyRefund
<1>6. Fits(w, o, ApplyRollback(w, r, reference, revs))
  <2> DEFINE stop == ReferenceStop(r, reference, {"BET", "WIN", "REFUND"}, TRUE)
  <2>1. IF stop = NONE THEN reference \in Row ELSE stop \in Decided /\ ~Moves(stop)
    BY StopTypes
  <2>2. stop # NONE => Fits(w, o, stop)
    BY <2>1, StopFits
  <2>3. Fits(w, o, Reject("DUPLICATE_REVERSAL"))
    BY <1>0, RejectFits
  <2>4. stop = NONE => /\ Fits(w, o, Credit(w, r, reference.id))
                       /\ Fits(w, o, Debit(w, r, "INSUFFICIENT_FUNDS_REVERSAL", reference.id))
    BY <2>1, <1>0, <1>3, CreditFits, DebitFits
  <2> QED BY <2>2, <2>3, <2>4 DEF ApplyRollback
<1>7. /\ Fits(w, o, Invalid("INVALID_TRANSITION")) /\ Fits(w, o, Invalid("AMOUNT"))
      /\ Fits(w, o, Invalid("INVALID_KIND"))
  BY DEF Fits, Invalid, Decision, AnswerCodes, ErrorCodes
<1>8. Fits(w, o, Reject("INCOMPATIBLE_CURRENCY"))
  BY <1>0, RejectFits
<1> QED BY <1>1, <1>2, <1>4, <1>5, <1>6, <1>7, <1>8 DEF Apply

-----------------------------------------------------------------------------
(* The ends of a SQL transaction, and the steps that only go on.           *)

\* The actors do not share names with each other or with NONE.
LEMMA ActorFacts ==
    /\ NONE \notin Actors
    /\ Calls \subseteq Actors /\ Workers \subseteq Actors /\ Auditors \subseteq Actors
    /\ Calls \cap Workers = {} /\ Calls \cap Auditors = {} /\ Workers \cap Auditors = {}
    /\ Calls \subseteq TxIds /\ WalletIds \subseteq TxIds
BY ActorAssumption DEF Actors, TxIds

\* A transaction that ends without writes gives up its lock and what it read.
LEMMA EndInv ==
    ASSUME Inv, NEW a \in Actors, NEW reply \in Answers,
           pc[a] \in InTransaction, End(a, reply)
    PROVE  Inv'
<1> USE ActorFacts
<1>1. StoreTypeOK'
  BY DEF Inv, TypeOK, StoreTypeOK, End, tables
<1>2. pc[a] # "idle" /\ pc[a] # "done"
  BY DEF InTransaction, Locking, Recovering
<1>3. ActorTypeOK'
  BY DEF Inv, TypeOK, ActorTypeOK, End, Unlock, Forget, RowTask, AuditTask, Labels, Actors
<1>4. CallDiscipline'
  BY <1>2 DEF Inv, TypeOK, ActorTypeOK, Discipline, CallDiscipline, End, tables, Actors
<1>5. WorkerDiscipline'
  BY <1>2 DEF Inv, TypeOK, ActorTypeOK, Discipline, WorkerDiscipline, End, tables, Actors
<1>6. AuditorDiscipline'
  BY <1>2 DEF Inv, TypeOK, ActorTypeOK, Discipline, AuditorDiscipline, End, tables, Actors
<1>7. LockDiscipline'
  BY DEF Inv, TypeOK, ActorTypeOK, StoreTypeOK, Discipline, LockDiscipline, End, Unlock,
         Forget, tables, Actors, WalletOf, Locking
<1>8. DecisionDiscipline'
  BY DEF Inv, TypeOK, ActorTypeOK, Discipline, DecisionDiscipline, End, Forget, tables, Actors
<1> QED BY <1>1, <1>3, <1>4, <1>5, <1>6, <1>7, <1>8 DEF Inv, TypeOK, Discipline

LEMMA FailInv ==
    ASSUME Inv, NEW a \in Actors, NEW code \in AnswerCodes,
           pc[a] \in InTransaction, Fail(a, code)
    PROVE  Inv'
<1>1. Answer("error", NONE, code) \in Answers
  BY DEF Answer, Answers
<1> QED BY <1>1, EndInv DEF Fail

LEMMA ReplayInv ==
    ASSUME Inv, NEW a \in Actors, NEW t \in DOMAIN txs,
           pc[a] \in InTransaction, Replay(a, t)
    PROVE  Inv'
<1>1. Answer("replay", t, NONE) \in Answers
  BY DEF Answer, Answers, AnswerCodes, Inv, TypeOK, StoreTypeOK
<1> QED BY <1>1, EndInv DEF Replay

\* A lookup that finds nothing only moves the call on, inside or outside the lock.
LEMMA GotoInv ==
    ASSUME Inv, NEW c \in Calls, NEW label, Goto(c, label),
           \/ /\ pc[c] \in {"findKey", "findExt", "recoverKey"}
              /\ label \in {"findExt", "lockWallet", "recoverExt"}
           \/ /\ pc[c] \in {"recheckKey", "recheckExt"}
              /\ label \in {"recheckExt", "findReference"}
    PROVE  Inv'
<1> USE ActorFacts
<1>1. StoreTypeOK'
  BY DEF Inv, TypeOK, StoreTypeOK, Goto
<1>3. ActorTypeOK'
  BY DEF Inv, TypeOK, ActorTypeOK, Goto, Labels, InTransaction, Locking, Recovering
<1>4. CallDiscipline'
  BY DEF Inv, TypeOK, ActorTypeOK, Discipline, CallDiscipline, Goto
<1>5. WorkerDiscipline'
  BY DEF Inv, TypeOK, ActorTypeOK, Discipline, WorkerDiscipline, Goto
<1>6. AuditorDiscipline'
  BY DEF Inv, TypeOK, ActorTypeOK, Discipline, AuditorDiscipline, Goto
<1>7. LockDiscipline'
  BY DEF Inv, TypeOK, ActorTypeOK, Discipline, LockDiscipline, Goto, WalletOf, Locking
<1>8. DecisionDiscipline'
  BY DEF Inv, TypeOK, ActorTypeOK, Discipline, DecisionDiscipline, Goto
<1> QED BY <1>1, <1>3, <1>4, <1>5, <1>6, <1>7, <1>8 DEF Inv, TypeOK, Discipline

-----------------------------------------------------------------------------
(* One lemma per statement of a call, a worker or an auditor.              *)

LEMMA SubmitInv ==
    ASSUME Inv, NEW c \in Calls, NEW r \in Requests, Submit(c, r)
    PROVE  Inv'
<1> USE ActorFacts
<1>1. NewRow(c, r) \in Row
  BY DEF NewRow, Row, AllRequests, Statuses, Unresolved
<1>2. StoreTypeOK'
  BY DEF Inv, TypeOK, StoreTypeOK, Submit
<1>3. ActorTypeOK'
  BY <1>1 DEF Inv, TypeOK, ActorTypeOK, Submit, RowTask, Labels, InTransaction
<1>4. CallDiscipline'
  BY DEF Inv, TypeOK, ActorTypeOK, Discipline, CallDiscipline, Submit
<1>5. WorkerDiscipline'
  BY DEF Inv, TypeOK, ActorTypeOK, Discipline, WorkerDiscipline, Submit
<1>6. AuditorDiscipline'
  BY DEF Inv, TypeOK, ActorTypeOK, Discipline, AuditorDiscipline, Submit
<1>7. LockDiscipline'
  BY DEF Inv, TypeOK, ActorTypeOK, Discipline, LockDiscipline, Submit, WalletOf, Locking
<1>8. DecisionDiscipline'
  BY DEF Inv, TypeOK, ActorTypeOK, Discipline, DecisionDiscipline, Submit
<1> QED BY <1>2, <1>3, <1>4, <1>5, <1>6, <1>7, <1>8 DEF Inv, TypeOK, Discipline

LEMMA ReplayByKeyInv ==
    ASSUME Inv, NEW c \in Calls, NEW label, ReplayByKey(c, label),
           <<pc[c], label>> \in {<<"findKey", "findExt">>, <<"recheckKey", "recheckExt">>,
                                 <<"recoverKey", "recoverExt">>}
    PROVE  Inv'
<1> USE ActorFacts
<1>1. pc[c] \in InTransaction
  BY DEF InTransaction, Locking, Recovering
<1>2. CASE Goto(c, label)
  BY <1>2, GotoInv
<1>3. ASSUME NEW t \in ByKey(op[c].req), Replay(c, t)
      PROVE  Inv'
  BY <1>1, <1>3, ReplayInv DEF ByKey
<1>4. CASE Fail(c, "IDEMPOTENCY_PAYLOAD_CONFLICT")
  BY <1>1, <1>4, FailInv DEF AnswerCodes, ErrorCodes
<1> QED BY <1>2, <1>3, <1>4 DEF ReplayByKey

LEMMA ReplayByExtInv ==
    ASSUME Inv, NEW c \in Calls, ReplayByExt(c), pc[c] \in InTransaction
    PROVE  Inv'
<1> USE ActorFacts
<1>1. ASSUME NEW t \in ByExt(op[c].req.provider, op[c].req.ext), Replay(c, t)
      PROVE  Inv'
  BY <1>1, ReplayInv DEF ByExt
<1>2. CASE Fail(c, "DUPLICATE_EXTERNAL_TRANSACTION")
  BY <1>2, FailInv DEF AnswerCodes, ErrorCodes
<1> QED BY <1>1, <1>2 DEF ReplayByExt

LEMMA CallStepInv ==
    ASSUME Inv, NEW c \in Calls, CallStep(c)
    PROVE  Inv'
<1> USE ActorFacts
<1>1. CASE FindKey(c)
  BY <1>1, ReplayByKeyInv DEF FindKey
<1>2. CASE FindExt(c)
  <2>1. pc[c] \in InTransaction
    BY <1>2 DEF FindExt, InTransaction
  <2> QED BY <1>2, <2>1, ReplayByExtInv, GotoInv DEF FindExt
<1>3. CASE RecheckKey(c)
  BY <1>3, ReplayByKeyInv DEF RecheckKey
<1>4. CASE RecheckExt(c)
  <2>1. pc[c] \in InTransaction
    BY <1>4 DEF RecheckExt, InTransaction, Locking
  <2>2. CASE ReplayByExt(c)
    BY <2>1, <2>2, ReplayByExtInv
  <2>3. CASE Goto(c, "findReference")
    BY <1>4, <2>3, GotoInv DEF RecheckExt
  <2>4. CASE Fail(c, "VALIDATION")
    BY <2>1, <2>4, FailInv DEF AnswerCodes, ErrorCodes
  <2> QED BY <1>4, <2>2, <2>3, <2>4 DEF RecheckExt
<1>5. CASE RecoverKey(c)
  BY <1>5, ReplayByKeyInv DEF RecoverKey
<1>6. CASE RecoverExt(c)
  <2>1. pc[c] \in InTransaction
    BY <1>6 DEF RecoverExt, InTransaction, Recovering
  <2>2. CASE ReplayByExt(c)
    BY <2>1, <2>2, ReplayByExtInv
  <2>3. CASE Fail(c, "CONFLICT")
    BY <2>1, <2>3, FailInv DEF AnswerCodes, ErrorCodes
  <2> QED BY <1>6, <2>2, <2>3 DEF RecoverExt
<1> QED BY <1>1, <1>2, <1>3, <1>4, <1>5, <1>6 DEF CallStep

\* The lock is free, so nobody else has read this wallet: the copy is the row.
LEMMA LockWalletInv ==
    ASSUME Inv, NEW a \in Actors, LockWallet(a)
    PROVE  Inv'
<1> USE ActorFacts
<1>1. pc[a] = "lockWallet" /\ pc[a] \in InTransaction
  BY DEF LockWallet, InTransaction
<1>2. CASE Fail(a, "NOT_FOUND")
  BY <1>1, <1>2, FailInv DEF AnswerCodes, ErrorCodes
<1>3. CASE /\ WalletOf(a) \in DOMAIN wallets
           /\ walletLock[WalletOf(a)] = NONE
           /\ walletLock' = [walletLock EXCEPT ![WalletOf(a)] = a]
           /\ pc' = [pc EXCEPT ![a] = AfterLock(a)]
           /\ snap' = [snap EXCEPT ![a] = wallets[WalletOf(a)]]
           /\ UNCHANGED <<wallets, txs, ledger, events, op, ref, dec, answer>>
  <2>1. AfterLock(a) \in {"recheckKey", "lockRow", "sumLedger"}
    BY DEF AfterLock
  <2>2. /\ AfterLock(a) = "recheckKey" => a \in Calls
        /\ AfterLock(a) = "lockRow" => a \in Workers
        /\ AfterLock(a) = "sumLedger" => a \in Auditors
        /\ AfterLock(a) \in Locking
    BY DEF AfterLock, Actors, Locking
  <2>3. StoreTypeOK'
    BY <1>3 DEF Inv, TypeOK, StoreTypeOK
  <2>4. wallets[WalletOf(a)] \in Wallet /\ WalletOf(a) \in WalletIds
    BY <1>3 DEF Inv, TypeOK, StoreTypeOK
  <2>5. ActorTypeOK'
    BY <1>3, <2>2, <2>4 DEF Inv, TypeOK, ActorTypeOK, Labels, InTransaction
  <2>6. CallDiscipline'
    BY <1>1, <1>3, <2>1, <2>2 DEF Inv, TypeOK, ActorTypeOK, Discipline, CallDiscipline
  <2>7. WorkerDiscipline'
    BY <1>1, <1>3, <2>1, <2>2 DEF Inv, TypeOK, ActorTypeOK, Discipline, WorkerDiscipline
  <2>8. AuditorDiscipline'
    BY <1>1, <1>3, <2>1, <2>2 DEF Inv, TypeOK, ActorTypeOK, Discipline, AuditorDiscipline
  <2>9. LockDiscipline'
    BY <1>3, <2>2, <2>4 DEF Inv, TypeOK, ActorTypeOK, Discipline, LockDiscipline, WalletOf
  <2>10. DecisionDiscipline'
    BY <1>3, <2>1 DEF Inv, TypeOK, ActorTypeOK, Discipline, DecisionDiscipline
  <2> QED BY <2>3, <2>5, <2>6, <2>7, <2>8, <2>9, <2>10 DEF Inv, TypeOK, Discipline
<1> QED BY <1>2, <1>3 DEF LockWallet

\* What an actor past its lock has in hand.
LEMMA InHand ==
    ASSUME Inv, NEW a \in Calls \cup Workers,
           pc[a] \in {"findReference", "listReversals", "persist", "commit"}
    PROVE  /\ op[a] \in Row
           /\ WalletOf(a) \in DOMAIN wallets /\ WalletOf(a) \in WalletIds
           /\ walletLock[WalletOf(a)] = a
           /\ snap[a] = wallets[WalletOf(a)] /\ snap[a] \in Wallet
           /\ pc[a] \in InTransaction
           /\ a \in Calls => op[a].id = a /\ a \notin DOMAIN txs
           /\ a \in Workers => op[a].id \in DOMAIN txs /\ op[a] = txs[op[a].id]
           /\ op[a].id \in Calls
           /\ op[a].status \in Unresolved
<1> USE ActorFacts
<1>1. CASE a \in Calls
  <2>1. PICK r \in Requests : op[a] = NewRow(a, r)
    BY <1>1 DEF Inv, Discipline, CallDiscipline
  <2>2. op[a] \in Row /\ op[a].id = a /\ op[a].status \in Unresolved
    BY <1>1, <2>1 DEF NewRow, Row, AllRequests, Statuses, Unresolved
  <2> QED BY <1>1, <2>2 DEF Inv, TypeOK, StoreTypeOK, Discipline, CallDiscipline, LockDiscipline,
             Locking, InTransaction
<1>2. CASE a \in Workers
  BY <1>2 DEF Inv, TypeOK, StoreTypeOK, Discipline, WorkerDiscipline, LockDiscipline,
         Locking, InTransaction
<1> QED BY <1>1, <1>2

LEMMA DecideInv ==
    ASSUME Inv, NEW a \in Calls \cup Workers, pc[a] \in {"findReference", "listReversals"},
           NEW reference \in Row \cup {NONE}, NEW revs, Decide(a, reference, revs)
    PROVE  Inv'
<1> USE ActorFacts
<1>1. PICK d \in Outcomes(a, reference, revs) :
         IF d.status = "ERROR" THEN Fail(a, d.code)
         ELSE /\ pc' = [pc EXCEPT ![a] = "persist"]
              /\ dec' = [dec EXCEPT ![a] = d]
              /\ ref' = [ref EXCEPT ![a] = NONE]
              /\ UNCHANGED <<wallets, txs, ledger, events, op, walletLock, snap, answer>>
  BY DEF Decide
<1>2. Fits(snap[a], op[a], d)
  <2>1. Fits(snap[a], op[a], Apply(snap[a], op[a], reference, revs))
    BY InHand, ApplyFits
  <2>2. Fits(snap[a], op[a], Reject("REFERENCE_NOT_FOUND"))
    BY RejectFits DEF FailureCodes
  <2> QED BY <2>1, <2>2 DEF Outcomes
<1>3. CASE d.status = "ERROR"
  <2>1. d.code \in AnswerCodes
    BY <1>2, <1>3 DEF Fits, Decided, Statuses, Unresolved, Terminal
  <2> QED BY <1>1, <1>3, <2>1, InHand, FailInv
<1>4. CASE d.status # "ERROR"
  <2>1. d \in Decided /\ (Moves(d) => After(snap[a].balance, d.direction, op[a].req.amount) \in Amounts)
    BY <1>2, <1>4 DEF Fits
  <2>3. StoreTypeOK'
    BY <1>1, <1>4 DEF Inv, TypeOK, StoreTypeOK
  <2>5. ActorTypeOK'
    BY <1>1, <1>4, <2>1 DEF Inv, TypeOK, ActorTypeOK, Labels, InTransaction, Locking, RowTask
  <2>6. CallDiscipline'
    BY <1>1, <1>4 DEF Inv, TypeOK, ActorTypeOK, Discipline, CallDiscipline
  <2>7. WorkerDiscipline'
    BY <1>1, <1>4 DEF Inv, TypeOK, ActorTypeOK, Discipline, WorkerDiscipline
  <2>8. AuditorDiscipline'
    BY <1>1, <1>4 DEF Inv, TypeOK, ActorTypeOK, Discipline, AuditorDiscipline
  <2>9. LockDiscipline'
    BY <1>1, <1>4 DEF Inv, TypeOK, ActorTypeOK, Discipline, LockDiscipline, WalletOf, Locking
  <2>10. DecisionDiscipline'
    BY <1>1, <1>4, <2>1 DEF Inv, TypeOK, ActorTypeOK, Discipline, DecisionDiscipline
  <2> QED BY <2>3, <2>5, <2>6, <2>7, <2>8, <2>9, <2>10 DEF Inv, TypeOK, Discipline
<1> QED BY <1>1, <1>3, <1>4

LEMMA FindReferenceInv ==
    ASSUME Inv, NEW a \in Calls \cup Workers, FindReference(a)
    PROVE  Inv'
<1> USE ActorFacts
<1>1. pc[a] = "findReference"
  BY DEF FindReference
<1>2. CASE Decide(a, NONE, {})
  BY <1>1, <1>2, DecideInv
<1>3. ASSUME NEW t \in ByExt(op[a].req.provider, op[a].req.ref),
             pc' = [pc EXCEPT ![a] = "listReversals"],
             ref' = [ref EXCEPT ![a] = txs[t]],
             UNCHANGED <<wallets, txs, ledger, events, op, walletLock, snap, dec, answer>>
      PROVE  Inv'
  <2>1. txs[t] \in Row
    BY DEF ByExt, Inv, TypeOK, StoreTypeOK
  <2>3. StoreTypeOK'
    BY <1>3 DEF Inv, TypeOK, StoreTypeOK
  <2>5. ActorTypeOK'
    BY <1>3, <2>1 DEF Inv, TypeOK, ActorTypeOK, Labels, InTransaction, Locking, RowTask
  <2>6. CallDiscipline'
    BY <1>1, <1>3 DEF Inv, TypeOK, ActorTypeOK, Discipline, CallDiscipline
  <2>7. WorkerDiscipline'
    BY <1>1, <1>3 DEF Inv, TypeOK, ActorTypeOK, Discipline, WorkerDiscipline
  <2>8. AuditorDiscipline'
    BY <1>1, <1>3 DEF Inv, TypeOK, ActorTypeOK, Discipline, AuditorDiscipline
  <2>9. LockDiscipline'
    BY <1>1, <1>3 DEF Inv, TypeOK, ActorTypeOK, Discipline, LockDiscipline, WalletOf, Locking
  <2>10. DecisionDiscipline'
    BY <1>3, <2>1 DEF Inv, TypeOK, ActorTypeOK, Discipline, DecisionDiscipline
  <2> QED BY <2>3, <2>5, <2>6, <2>7, <2>8, <2>9, <2>10 DEF Inv, TypeOK, Discipline
<1> QED BY <1>2, <1>3 DEF FindReference

LEMMA ListReversalsInv ==
    ASSUME Inv, NEW a \in Calls \cup Workers, ListReversals(a)
    PROVE  Inv'
<1>1. pc[a] = "listReversals" /\ ref[a] \in Row
  BY DEF ListReversals, Inv, Discipline, DecisionDiscipline
<1> QED BY <1>1, DecideInv DEF ListReversals

LEMMA PersistInv ==
    ASSUME Inv, NEW a \in Calls \cup Workers, Persist(a)
    PROVE  Inv'
<1> USE ActorFacts
<1>1. pc[a] = "persist"
  BY DEF Persist
<1>2. CASE Conflict(a)
  <2>1. CASE Fail(a, "CONFLICT")
    BY <1>1, <2>1, InHand, FailInv DEF AnswerCodes, ErrorCodes
  <2>2. CASE /\ a \in Calls
             /\ pc' = [pc EXCEPT ![a] = "recoverKey"]
             /\ Unlock(a)
             /\ Forget(a)
             /\ UNCHANGED <<wallets, txs, ledger, events, op, answer>>
    <3>3. StoreTypeOK'
      BY <2>2 DEF Inv, TypeOK, StoreTypeOK
    <3>5. ActorTypeOK'
      BY <2>2 DEF Inv, TypeOK, ActorTypeOK, Labels, InTransaction, Recovering, RowTask, Unlock, Forget
    <3>6. CallDiscipline'
      BY <1>1, <2>2 DEF Inv, TypeOK, ActorTypeOK, Discipline, CallDiscipline
    <3>7. WorkerDiscipline'
      BY <1>1, <2>2 DEF Inv, TypeOK, ActorTypeOK, Discipline, WorkerDiscipline
    <3>8. AuditorDiscipline'
      BY <1>1, <2>2 DEF Inv, TypeOK, ActorTypeOK, Discipline, AuditorDiscipline
    <3>9. LockDiscipline'
      BY <1>1, <2>2 DEF Inv, TypeOK, ActorTypeOK, StoreTypeOK, Discipline, LockDiscipline, WalletOf,
             Locking, Unlock, Forget
    <3>10. DecisionDiscipline'
      BY <1>1, <2>2 DEF Inv, TypeOK, ActorTypeOK, Discipline, DecisionDiscipline, Forget
    <3> QED BY <3>3, <3>5, <3>6, <3>7, <3>8, <3>9, <3>10 DEF Inv, TypeOK, Discipline
  <2> QED BY <1>2, <2>1, <2>2 DEF Conflict
<1>3. CASE Fail(a, "OPTIMISTIC_LOCK")
  BY <1>1, <1>3, InHand, FailInv DEF AnswerCodes, ErrorCodes
<1>4. CASE /\ pc' = [pc EXCEPT ![a] = "commit"]
           /\ walletLock' = IF Moves(dec[a]) THEN [walletLock EXCEPT ![WalletOf(a)] = a] ELSE walletLock
           /\ UNCHANGED <<wallets, txs, ledger, events, op, snap, ref, dec, answer>>
  <2>1. walletLock' = walletLock
    BY <1>1, <1>4, InHand DEF Inv, TypeOK, ActorTypeOK
  <2>3. StoreTypeOK'
    BY <1>4 DEF Inv, TypeOK, StoreTypeOK
  <2>5. ActorTypeOK'
    BY <1>4, <2>1 DEF Inv, TypeOK, ActorTypeOK, Labels, InTransaction, Locking
  <2>6. CallDiscipline'
    BY <1>1, <1>4 DEF Inv, TypeOK, ActorTypeOK, Discipline, CallDiscipline
  <2>7. WorkerDiscipline'
    BY <1>1, <1>4 DEF Inv, TypeOK, ActorTypeOK, Discipline, WorkerDiscipline
  <2>8. AuditorDiscipline'
    BY <1>1, <1>4 DEF Inv, TypeOK, ActorTypeOK, Discipline, AuditorDiscipline
  <2>9. LockDiscipline'
    BY <1>1, <1>4, <2>1 DEF Inv, TypeOK, ActorTypeOK, Discipline, LockDiscipline, WalletOf, Locking
  <2>10. DecisionDiscipline'
    BY <1>1, <1>4 DEF Inv, TypeOK, ActorTypeOK, Discipline, DecisionDiscipline
  <2> QED BY <2>3, <2>5, <2>6, <2>7, <2>8, <2>9, <2>10 DEF Inv, TypeOK, Discipline
<1> QED BY <1>2, <1>3, <1>4 DEF Persist

\* What one commit writes has the type of the tables.
LEMMA WriteTypes ==
    ASSUME NEW w \in Wallet, NEW o \in Row, NEW d \in Decided,
           Moves(d) => After(w.balance, d.direction, o.req.amount) \in Amounts
    PROVE  /\ WalletAfter(w, o, d) \in Wallet
           /\ RowAfter(w, o, d) \in Row
           /\ RowAfter(w, o, d).id = o.id /\ RowAfter(w, o, d).req = o.req
           /\ EventsFor(w, o, d) \in Seq(OutboxRow)
           /\ Moves(d) => EntryFor(w, o, d) \in Entry
<1>1. WalletAfter(w, o, d) \in Wallet
  <2>1. w.version + 1 \in Nat \ {0}
    BY DEF Wallet
  <2> QED BY <2>1 DEF WalletAfter, Wallet
<1>2. RowAfter(w, o, d) \in Row /\ RowAfter(w, o, d).id = o.id /\ RowAfter(w, o, d).req = o.req
  BY <1>1 DEF RowAfter, Row, Decided, Wallet
<1>3. EventsFor(w, o, d) \in Seq(OutboxRow)
  <2>1. /\ Event("Processed", NONE) \in OutboxRow /\ Event("Rejected", NONE) \in OutboxRow
        /\ Event("PendingReference", NONE) \in OutboxRow
        /\ Event("BalanceChanged", WalletAfter(w, o, d).version) \in OutboxRow
    BY <1>1 DEF Event, OutboxRow, Wallet
  <2> QED BY <2>1 DEF EventsFor
<1>4. Moves(d) => EntryFor(w, o, d) \in Entry
  BY <1>1, RequestTypes DEF EntryFor, Entry, Moves, Row, Wallet
<1> QED BY <1>1, <1>2, <1>3, <1>4

\* The row and the wallet a commit writes are nobody else's business.
LEMMA CommitDisjoint ==
    ASSUME Inv, NEW a \in Calls \cup Workers, pc[a] = "commit", NEW b \in Actors \ {a}
    PROVE  /\ pc[b] \in Locking => WalletOf(b) # WalletOf(a)
           /\ b \in Calls /\ pc[b] # "done" => b # op[a].id
           /\ b \in Workers /\ pc[b] \in {"findReference", "listReversals", "persist", "commit"}
                 => op[b].id # op[a].id
<1> USE ActorFacts
<1>1. /\ walletLock[WalletOf(a)] = a
      /\ a \in Calls => op[a].id = a /\ a \notin DOMAIN txs
      /\ a \in Workers => op[a].id \in DOMAIN txs /\ op[a] = txs[op[a].id]
  BY InHand
<1>2. pc[b] \in Locking => WalletOf(b) # WalletOf(a)
  BY <1>1 DEF Inv, Discipline, LockDiscipline
<1>3. b \in Calls /\ pc[b] # "done" => b # op[a].id
  <2>1. CASE a \in Calls
    BY <1>1, <2>1
  <2>2. CASE a \in Workers
    BY <1>1, <2>2 DEF Inv, Discipline, CallDiscipline
  <2> QED BY <2>1, <2>2
<1>4. ASSUME b \in Workers, pc[b] \in {"findReference", "listReversals", "persist", "commit"},
             op[b].id = op[a].id
      PROVE  FALSE
  <2>1. op[b].id \in DOMAIN txs /\ op[b] = txs[op[b].id]
    BY <1>4 DEF Inv, Discipline, WorkerDiscipline
  <2>2. op[b] = op[a]
    BY <1>1, <1>4, <2>1
  <2> QED BY <1>2, <1>4, <2>2 DEF WalletOf, Locking
<1> QED BY <1>2, <1>3, <1>4

LEMMA CommitInv ==
    ASSUME Inv, NEW a \in Calls \cup Workers, Commit(a)
    PROVE  Inv'
<1> USE ActorFacts
<1> DEFINE w == WalletOf(a)
           id == op[a].id
           row == RowAfter(snap[a], op[a], dec[a])
<1>1. pc[a] = "commit"
  BY DEF Commit
<1>2. /\ op[a] \in Row /\ w \in DOMAIN wallets /\ w \in WalletIds
      /\ snap[a] = wallets[w] /\ snap[a] \in Wallet
      /\ a \in Calls => id = a /\ a \notin DOMAIN txs
      /\ a \in Workers => id \in DOMAIN txs /\ op[a] = txs[id]
  BY <1>1, InHand
<1>3. dec[a] \in Decided /\ (Moves(dec[a]) => After(snap[a].balance, dec[a].direction, op[a].req.amount) \in Amounts)
  BY <1>1 DEF Inv, Discipline, DecisionDiscipline
<1>4. /\ WalletAfter(snap[a], op[a], dec[a]) \in Wallet
      /\ row \in Row /\ row.id = id /\ row.req = op[a].req
      /\ EventsFor(snap[a], op[a], dec[a]) \in Seq(OutboxRow)
      /\ Moves(dec[a]) => EntryFor(snap[a], op[a], dec[a]) \in Entry
  <2>1. op[a] \in Row /\ snap[a] \in Wallet
    BY <1>2
  <2> HIDE ActorFacts
  <2> HIDE DEF w, id, row
  <2>2. /\ WalletAfter(snap[a], op[a], dec[a]) \in Wallet
        /\ RowAfter(snap[a], op[a], dec[a]) \in Row
        /\ RowAfter(snap[a], op[a], dec[a]).id = op[a].id
        /\ RowAfter(snap[a], op[a], dec[a]).req = op[a].req
        /\ EventsFor(snap[a], op[a], dec[a]) \in Seq(OutboxRow)
        /\ Moves(dec[a]) => EntryFor(snap[a], op[a], dec[a]) \in Entry
    BY <1>3, <2>1, WriteTypes
  <2> QED BY <2>2 DEF id, row
<1>5. /\ txs' = Put(txs, id, row)
      /\ events' = Put(events, id, OutboxOf(id) \o EventsFor(snap[a], op[a], dec[a]))
      /\ wallets' = IF Moves(dec[a]) THEN [wallets EXCEPT ![w] = WalletAfter(snap[a], op[a], dec[a])] ELSE wallets
      /\ ledger' = IF Moves(dec[a]) THEN [ledger EXCEPT ![w] = Append(@, EntryFor(snap[a], op[a], dec[a]))] ELSE ledger
  BY DEF Commit, PersistApply, WalletOf
<1>6. id \in Calls /\ id \in TxIds /\ id \notin WalletIds
  BY <1>1, InHand, StoreAssumption
<1>7. /\ txs' \in [DOMAIN txs \cup {id} -> Row]
      /\ DOMAIN txs' = DOMAIN txs \cup {id}
      /\ txs'[id] = row
      /\ \A t \in DOMAIN txs : t # id => txs'[t] = txs[t]
  <2>1. txs \in [DOMAIN txs -> Row]
    BY DEF Inv, TypeOK, StoreTypeOK
  <2>2. /\ Put(txs, id, row) \in [DOMAIN txs \cup {id} -> Row]
        /\ DOMAIN Put(txs, id, row) = DOMAIN txs \cup {id}
        /\ Put(txs, id, row)[id] = row
        /\ \A t \in DOMAIN txs : t # id => Put(txs, id, row)[t] = txs[t]
    <3>1. row \in Row
      BY <1>4
    <3> HIDE DEF row, id
    <3> QED BY <3>1, <2>1 DEF Put
  <2> HIDE DEF row, id
  <2> QED BY <1>5, <2>2
<1>8. StoreTypeOK'
  <2>1. DOMAIN wallets' = DOMAIN wallets /\ wallets' \in [DOMAIN wallets -> Wallet]
    BY <1>2, <1>4, <1>5 DEF Inv, TypeOK, StoreTypeOK
  <2>2. ledger' \in [DOMAIN wallets -> Seq(Entry)]
    BY <1>2, <1>4, <1>5 DEF Inv, TypeOK, StoreTypeOK
  <2>3. events' \in [DOMAIN txs \cup {id} -> Seq(OutboxRow)]
    <3>1. OutboxOf(id) \in Seq(OutboxRow)
      BY DEF OutboxOf, Inv, TypeOK, StoreTypeOK
    <3>2. OutboxOf(id) \o EventsFor(snap[a], op[a], dec[a]) \in Seq(OutboxRow)
      BY <1>4, <3>1, ConcatProperties
    <3>3. events \in [DOMAIN txs -> Seq(OutboxRow)]
      BY DEF Inv, TypeOK, StoreTypeOK
    <3> QED BY <1>5, <3>2, <3>3 DEF Put
  <2>4. \A t \in DOMAIN txs' : txs'[t].id = t
    BY <1>4, <1>7 DEF Inv, TypeOK, StoreTypeOK
  <2> QED BY <1>6, <1>7, <2>1, <2>2, <2>3, <2>4 DEF Inv, TypeOK, StoreTypeOK
<1>9. ActorTypeOK'
  <2>1. Answer("created", a, NONE) \in Answers \/ a \notin Calls
    BY DEF Answer, Answers, AnswerCodes
  <2> QED BY <2>1 DEF Commit, Unlock, Forget, Inv, TypeOK, ActorTypeOK, Labels, RowTask, AuditTask, Actors
<1>10. CallDiscipline'
  BY <1>1, <1>7, CommitDisjoint DEF Commit, Inv, TypeOK, ActorTypeOK, Discipline, CallDiscipline
<1>11. WorkerDiscipline'
  <2>1. ASSUME NEW p \in Workers, p # a
        PROVE  /\ op'[p] = op[p] /\ pc'[p] = pc[p]
    BY <2>1 DEF Commit, Inv, TypeOK, ActorTypeOK
  <2>2. ASSUME NEW t \in DOMAIN txs
        PROVE  t \in DOMAIN txs' /\ txs'[t].req = txs[t].req
    BY <1>2, <1>4, <1>7, <2>2
  <2>3. ASSUME NEW p \in Workers, p # a,
               pc[p] \in {"findReference", "listReversals", "persist", "commit"}
        PROVE  txs'[op[p].id] = txs[op[p].id]
    <3>1. op[p].id # id
      BY <1>1, <2>3, CommitDisjoint
    <3> QED BY <1>7, <2>3, <3>1 DEF Inv, Discipline, WorkerDiscipline
  <2>4. a \in Workers => pc'[a] = "idle"
    BY DEF Commit, Inv, TypeOK, ActorTypeOK
  <2> QED BY <2>1, <2>2, <2>3, <2>4 DEF Inv, Discipline, WorkerDiscipline
<1>12. AuditorDiscipline'
  BY DEF Commit, Inv, TypeOK, ActorTypeOK, Discipline, AuditorDiscipline
<1>13. LockDiscipline'
  <2>1. ASSUME NEW b \in Actors, b # a
        PROVE  pc'[b] = pc[b] /\ op'[b] = op[b] /\ snap'[b] = snap[b]
    BY <2>1 DEF Commit, Forget, Inv, TypeOK, ActorTypeOK
  <2>2. ASSUME NEW b \in Actors, b # a, pc[b] \in Locking
        PROVE  /\ WalletOf(b) \in DOMAIN wallets'
               /\ walletLock'[WalletOf(b)] = b
               /\ snap[b] = wallets'[WalletOf(b)]
    <3>1. WalletOf(b) # w
      BY <1>1, <2>2, CommitDisjoint
    <3> QED BY <1>5, <2>2, <3>1 DEF Commit, Unlock, Inv, TypeOK, StoreTypeOK, ActorTypeOK, Discipline, LockDiscipline
  <2>3. pc'[a] \notin Locking /\ snap'[a] = NONE
    BY DEF Commit, Forget, Inv, TypeOK, ActorTypeOK, Locking
  <2> QED BY <2>1, <2>2, <2>3 DEF Inv, Discipline, LockDiscipline, WalletOf
<1>14. DecisionDiscipline'
  BY DEF Commit, Forget, Inv, TypeOK, ActorTypeOK, Discipline, DecisionDiscipline
<1> QED BY <1>8, <1>9, <1>10, <1>11, <1>12, <1>13, <1>14 DEF Inv, TypeOK, Discipline

LEMMA RollbackInv ==
    ASSUME Inv, NEW a \in Actors, Rollback(a)
    PROVE  Inv'
<1>1. Answer("lost", NONE, NONE) \in Answers
  BY DEF Answer, Answers, AnswerCodes
<1> QED BY <1>1, EndInv DEF Rollback

LEMMA ClaimInv ==
    ASSUME Inv, NEW p \in Workers, NEW t \in DOMAIN txs, Claim(p, t)
    PROVE  Inv'
<1> USE ActorFacts
<1>1. txs[t] \in Row /\ txs[t].id = t
  BY DEF Inv, TypeOK, StoreTypeOK
<1>2. StoreTypeOK'
  BY DEF Inv, TypeOK, StoreTypeOK, Claim
<1>3. ActorTypeOK'
  BY <1>1 DEF Inv, TypeOK, ActorTypeOK, Claim, RowTask, Labels, InTransaction
<1>4. CallDiscipline'
  BY DEF Inv, TypeOK, ActorTypeOK, Discipline, CallDiscipline, Claim
<1>5. WorkerDiscipline'
  BY <1>1 DEF Inv, TypeOK, ActorTypeOK, Discipline, WorkerDiscipline, Claim
<1>6. AuditorDiscipline'
  BY DEF Inv, TypeOK, ActorTypeOK, Discipline, AuditorDiscipline, Claim
<1>7. LockDiscipline'
  BY DEF Inv, TypeOK, ActorTypeOK, Discipline, LockDiscipline, Claim, WalletOf, Locking
<1>8. DecisionDiscipline'
  BY DEF Inv, TypeOK, ActorTypeOK, Discipline, DecisionDiscipline, Claim
<1> QED BY <1>2, <1>3, <1>4, <1>5, <1>6, <1>7, <1>8 DEF Inv, TypeOK, Discipline

\* The row read under its lock has the same command, hence the same wallet.
LEMMA LockRowInv ==
    ASSUME Inv, NEW p \in Workers, LockRow(p)
    PROVE  Inv'
<1> USE ActorFacts
<1> DEFINE row == txs[op[p].id]
<1>1. pc[p] = "lockRow" /\ pc[p] \in InTransaction
  BY DEF LockRow, InTransaction, Locking
<1>2. CASE Fail(p, "SKIPPED")
  BY <1>1, <1>2, FailInv DEF AnswerCodes, ErrorCodes
<1>3. CASE /\ row.status \in Unresolved
           /\ pc' = [pc EXCEPT ![p] = "findReference"]
           /\ op' = [op EXCEPT ![p] = row]
           /\ UNCHANGED <<wallets, txs, ledger, events, walletLock, snap, ref, dec, answer>>
  <2>1. /\ row \in Row /\ row.id = op[p].id /\ row.req = op[p].req
        /\ row.id \in Calls \cap DOMAIN txs
    BY <1>1 DEF Inv, TypeOK, StoreTypeOK, Discipline, WorkerDiscipline
  <2>2. StoreTypeOK'
    BY <1>3 DEF Inv, TypeOK, StoreTypeOK
  <2>3. ActorTypeOK'
    BY <1>3, <2>1 DEF Inv, TypeOK, ActorTypeOK, RowTask, Labels, InTransaction, Locking
  <2>4. CallDiscipline'
    BY <1>3 DEF Inv, TypeOK, ActorTypeOK, Discipline, CallDiscipline
  <2>5. WorkerDiscipline'
    BY <1>3, <2>1 DEF Inv, TypeOK, ActorTypeOK, Discipline, WorkerDiscipline
  <2>6. AuditorDiscipline'
    BY <1>3 DEF Inv, TypeOK, ActorTypeOK, Discipline, AuditorDiscipline
  <2>7. LockDiscipline'
    BY <1>1, <1>3, <2>1 DEF Inv, TypeOK, ActorTypeOK, Discipline, LockDiscipline, WalletOf, Locking
  <2>8. DecisionDiscipline'
    BY <1>3 DEF Inv, TypeOK, ActorTypeOK, Discipline, DecisionDiscipline
  <2> QED BY <2>2, <2>3, <2>4, <2>5, <2>6, <2>7, <2>8 DEF Inv, TypeOK, Discipline
<1> QED BY <1>2, <1>3 DEF LockRow

LEMMA ReconcileInv ==
    ASSUME Inv, NEW a \in Auditors, NEW w \in WalletIds, Reconcile(a, w)
    PROVE  Inv'
<1> USE ActorFacts
<1>1. StoreTypeOK'
  BY DEF Inv, TypeOK, StoreTypeOK, Reconcile
<1>2. [id |-> NONE, req |-> [wallet |-> w]] \in [id : {NONE}, req : [wallet : WalletIds]]
  OBVIOUS
<1>3. ActorTypeOK'
  BY <1>2 DEF Inv, TypeOK, ActorTypeOK, Reconcile, AuditTask, Labels, InTransaction
<1>4. CallDiscipline'
  BY DEF Inv, TypeOK, ActorTypeOK, Discipline, CallDiscipline, Reconcile
<1>5. WorkerDiscipline'
  BY DEF Inv, TypeOK, ActorTypeOK, Discipline, WorkerDiscipline, Reconcile
<1>6. AuditorDiscipline'
  BY <1>2 DEF Inv, TypeOK, ActorTypeOK, Discipline, AuditorDiscipline, Reconcile
<1>7. LockDiscipline'
  BY DEF Inv, TypeOK, ActorTypeOK, Discipline, LockDiscipline, Reconcile, WalletOf, Locking
<1>8. DecisionDiscipline'
  BY DEF Inv, TypeOK, ActorTypeOK, Discipline, DecisionDiscipline, Reconcile
<1> QED BY <1>1, <1>3, <1>4, <1>5, <1>6, <1>7, <1>8 DEF Inv, TypeOK, Discipline

LEMMA SumLedgerInv ==
    ASSUME Inv, NEW a \in Auditors, SumLedger(a)
    PROVE  Inv'
<1> USE ActorFacts
<1> DEFINE reply == Answer(IF LedgerSum(ledger[WalletOf(a)]) = snap[a].balance
                           THEN "consistent" ELSE "divergent", NONE, NONE)
<1>1. reply \in Answers
  BY DEF Answer, Answers, AnswerCodes
<1>2. pc[a] \in InTransaction /\ End(a, reply)
  BY DEF SumLedger, InTransaction, Locking
<1> HIDE DEF reply
<1> QED BY <1>1, <1>2, EndInv

\* A new wallet is nobody's yet, and its opening row belongs to no call.
LEMMA OpenInv ==
    ASSUME Inv, NEW o \in Openings, Open(o)
    PROVE  Inv'
<1> USE ActorFacts
<1> DEFINE id == o.wallet
           wallet == [player |-> o.player, currency |-> o.currency, balance |-> o.initial, version |-> 1]
<1>1. id \in WalletIds /\ o.initial \in Amounts /\ id \notin Calls /\ id \notin DOMAIN wallets
  BY StoreAssumption DEF Amounts, Open, OpenWallet
<1>2. wallet \in Wallet
  BY <1>1 DEF Wallet, Players, Currencies
<1>3. wallets \in [DOMAIN wallets -> Wallet] /\ wallets' = Put(wallets, id, wallet)
  BY DEF Open, OpenWallet, Inv, TypeOK, StoreTypeOK
<1>4. /\ wallets' \in [DOMAIN wallets \cup {id} -> Wallet]
      /\ DOMAIN wallets' = DOMAIN wallets \cup {id}
      /\ \A v \in DOMAIN wallets : wallets'[v] = wallets[v]
  <2> HIDE DEF wallet, id
  <2> QED BY <1>1, <1>2, <1>3 DEF Put
<1>5. OpeningRow(o) \in Row /\ OpeningRow(o).id = id
  BY <1>1 DEF OpeningRow, Row, AllRequests, Statuses, Terminal, TxIds
<1>6. OpeningEntry(o) \in Entry
  BY <1>1, MaxMinorAssumption DEF OpeningEntry, Entry, Amounts, Directions, TxIds
<1>7. \/ UNCHANGED <<txs, events>>
      \/ /\ txs' = Put(txs, id, OpeningRow(o))
         /\ events' = Put(events, id, <<Event("Processed", NONE), Event("BalanceChanged", 1)>>)
  BY DEF Open, OpenWallet
<1>8. txs \in [DOMAIN txs -> Row] /\ events \in [DOMAIN txs -> Seq(OutboxRow)]
  BY DEF Inv, TypeOK, StoreTypeOK
<1>9. <<Event("Processed", NONE), Event("BalanceChanged", 1)>> \in Seq(OutboxRow)
  BY DEF Event, OutboxRow
<1>10. /\ DOMAIN txs' \subseteq DOMAIN txs \cup {id} /\ DOMAIN txs \subseteq DOMAIN txs'
       /\ txs' \in [DOMAIN txs' -> Row]
       /\ events' \in [DOMAIN txs' -> Seq(OutboxRow)]
       /\ \A t \in DOMAIN txs \ {id} : txs'[t] = txs[t]
       /\ id \in DOMAIN txs' \ DOMAIN txs => txs'[id] = OpeningRow(o)
       /\ txs' = txs \/ txs'[id] = OpeningRow(o)
  <2> HIDE DEF id
  <2>1. CASE UNCHANGED <<txs, events>>
    BY <1>8, <2>1
  <2>2. CASE /\ txs' = Put(txs, id, OpeningRow(o))
             /\ events' = Put(events, id, <<Event("Processed", NONE), Event("BalanceChanged", 1)>>)
    BY <1>5, <1>8, <1>9, <2>2 DEF Put
  <2> QED BY <1>7, <2>1, <2>2
<1>11. StoreTypeOK'
  <2>1. ledger' \in [DOMAIN wallets' -> Seq(Entry)]
    <3>1. ledger \in [DOMAIN wallets -> Seq(Entry)]
      BY DEF Inv, TypeOK, StoreTypeOK
    <3>2. <<>> \in Seq(Entry) /\ <<OpeningEntry(o)>> \in Seq(Entry)
      BY <1>6
    <3>3. ledger' = Put(ledger, id, <<>>) \/ ledger' = Put(ledger, id, <<OpeningEntry(o)>>)
      BY DEF Open, OpenWallet
    <3> QED BY <1>4, <3>1, <3>2, <3>3 DEF Put
  <2>2. \A t \in DOMAIN txs' : txs'[t].id = t
    BY <1>5, <1>10 DEF Inv, TypeOK, StoreTypeOK
  <2> QED BY <1>1, <1>4, <1>10, <2>1, <2>2 DEF Inv, TypeOK, StoreTypeOK
<1>12. UNCHANGED local
  BY DEF Open
<1>13. ActorTypeOK'
  BY <1>12 DEF local, Inv, TypeOK, ActorTypeOK
<1>14. CallDiscipline'
  BY <1>1, <1>10, <1>12 DEF local, Inv, Discipline, CallDiscipline
<1>15. WorkerDiscipline'
  BY <1>1, <1>10, <1>12 DEF local, Inv, Discipline, WorkerDiscipline
<1>16. AuditorDiscipline'
  BY <1>12 DEF local, Inv, Discipline, AuditorDiscipline
<1>17. LockDiscipline'
  BY <1>4, <1>12 DEF local, Inv, Discipline, LockDiscipline, WalletOf
<1>18. DecisionDiscipline'
  BY <1>12 DEF local, Inv, Discipline, DecisionDiscipline
<1> QED BY <1>11, <1>13, <1>14, <1>15, <1>16, <1>17, <1>18 DEF Inv, TypeOK, Discipline

-----------------------------------------------------------------------------
(* The invariant and what follows from it.                                 *)

LEMMA InitInv == Init => Inv
<1> USE ActorFacts
<1> SUFFICES ASSUME Init PROVE Inv
  OBVIOUS
<1>1. StoreTypeOK
  BY DEF Init, StoreInit, StoreTypeOK
<1>2. ActorTypeOK
  BY DEF Init, ActorTypeOK, RowTask, AuditTask, Labels, Answers, Nothing, Answer, AnswerCodes
<1>3. Discipline
  BY DEF Init, StoreInit, Discipline, CallDiscipline, WorkerDiscipline, AuditorDiscipline,
         LockDiscipline, DecisionDiscipline, Locking
<1> QED BY <1>1, <1>2, <1>3 DEF Inv, TypeOK

LEMMA NextInv == Inv /\ [Next]_vars => Inv'
<1> USE ActorFacts
<1> SUFFICES ASSUME Inv, [Next]_vars PROVE Inv'
  OBVIOUS
<1>1. CASE UNCHANGED vars
  BY <1>1 DEF vars, Inv, TypeOK, StoreTypeOK, ActorTypeOK, Discipline, CallDiscipline,
     WorkerDiscipline, AuditorDiscipline, LockDiscipline, DecisionDiscipline, WalletOf
<1>2. CASE \E o \in Openings : Open(o)
  BY <1>2, OpenInv
<1>3. CASE \E c \in Calls, r \in Requests : Submit(c, r)
  BY <1>3, SubmitInv
<1>4. CASE \E c \in Calls : CallStep(c)
  BY <1>4, CallStepInv
<1>5. CASE \E a \in Calls \cup Workers : Step(a)
  BY <1>5, LockWalletInv, FindReferenceInv, ListReversalsInv, PersistInv, CommitInv DEF Step
<1>6. CASE \E a \in Workers : (\E t \in DOMAIN txs : Claim(a, t)) \/ LockRow(a)
  BY <1>6, ClaimInv, LockRowInv
<1>7. CASE \E a \in Auditors : (\E w \in WalletIds : Reconcile(a, w)) \/ LockWallet(a) \/ SumLedger(a)
  BY <1>7, ReconcileInv, LockWalletInv, SumLedgerInv
<1>8. CASE \E a \in Actors : Rollback(a)
  BY <1>8, RollbackInv
<1>9. CASE Idle
  BY <1>1, <1>9 DEF Idle
<1> QED BY <1>1, <1>2, <1>3, <1>4, <1>5, <1>6, <1>7, <1>8, <1>9 DEF Next

THEOREM Invariant == Spec => []Inv
BY InitInv, NextInv, PTL DEF Spec

\* Balances never leave 0..MaxMinor, in the tables or in what an actor holds:
\* Wallet.move checks before it moves, and nobody moves the wallet in between.
THEOREM TypeCorrect == Spec => []TypeOK
<1>1. Inv => TypeOK
  BY DEF Inv
<1> QED BY Invariant, <1>1, PTL

\* Between GetByIDForUpdate and the end of the SQL transaction, the wallet an
\* actor has read is the wallet as it is committed.
THEOREM SnapshotCurrent == Spec => []SnapshotIsCurrent
<1>1. Inv => SnapshotIsCurrent
  BY DEF Inv, Discipline, LockDiscipline, SnapshotIsCurrent
<1> QED BY Invariant, <1>1, PTL

-----------------------------------------------------------------------------
(* What a step may do to the tables: it opens a wallet, commits a decision *)
(* or leaves them alone.                                                   *)

LEMMA TableSteps ==
    ASSUME [Next]_vars
    PROVE  \/ UNCHANGED tables
           \/ \E o \in Openings : Open(o)
           \/ \E a \in Calls \cup Workers : Commit(a)
<1>1. \A a, label : Goto(a, label) => UNCHANGED tables
  BY DEF Goto, tables
<1>2. \A a, reply : End(a, reply) => UNCHANGED tables
  BY DEF End
<1>3. \A a, code : Fail(a, code) => UNCHANGED tables
  BY <1>2 DEF Fail
<1>4. \A a, t : Replay(a, t) => UNCHANGED tables
  BY <1>2 DEF Replay
<1>5. \A c : CallStep(c) => UNCHANGED tables
  BY <1>1, <1>3, <1>4 DEF CallStep, FindKey, FindExt, RecheckKey, RecheckExt, RecoverKey,
     RecoverExt, ReplayByKey, ReplayByExt
<1>6. \A a : LockWallet(a) => UNCHANGED tables
  BY <1>3 DEF LockWallet, tables
<1>7. \A a, reference, revs : Decide(a, reference, revs) => UNCHANGED tables
  BY <1>3 DEF Decide, tables
<1>8. \A a : FindReference(a) \/ ListReversals(a) => UNCHANGED tables
  BY <1>7 DEF FindReference, ListReversals, tables
<1>9. \A a : Persist(a) => UNCHANGED tables
  BY <1>3 DEF Persist, Conflict, tables
<1>10. \A a : Rollback(a) \/ SumLedger(a) => UNCHANGED tables
  BY <1>2 DEF Rollback, SumLedger
<1>11. \A a : LockRow(a) => UNCHANGED tables
  BY <1>3 DEF LockRow, tables
<1>12. /\ \A a, t : Claim(a, t) => UNCHANGED tables
       /\ \A a, w : Reconcile(a, w) => UNCHANGED tables
       /\ \A c, r : Submit(c, r) => UNCHANGED tables
  BY DEF Claim, Reconcile, Submit, tables
<1> QED BY <1>5, <1>6, <1>8, <1>9, <1>10, <1>11, <1>12 DEF Next, Step, Idle, vars, tables

\* The tables a commit leaves, in terms of the tables it found.
LEMMA CommitWrites ==
    ASSUME Inv, NEW a \in Calls \cup Workers, Commit(a)
    PROVE  LET w == WalletOf(a)
               id == op[a].id
               entry == EntryFor(wallets[w], op[a], dec[a])
           IN /\ w \in DOMAIN wallets /\ id \in Calls
              /\ \/ Moves(dec[a]) /\ entry \in Entry
                    /\ wallets' = [wallets EXCEPT ![w] = WalletAfter(wallets[w], op[a], dec[a])]
                    /\ ledger' = [ledger EXCEPT ![w] = Append(ledger[w], entry)]
                 \/ UNCHANGED <<wallets, ledger>>
              /\ txs' = Put(txs, id, RowAfter(wallets[w], op[a], dec[a]))
              /\ id \in DOMAIN txs => op[a] = txs[id] /\ txs[id].status \in Unresolved
<1> USE ActorFacts
<1>1. pc[a] = "commit"
  BY DEF Commit
<1>2. /\ op[a] \in Row /\ WalletOf(a) \in DOMAIN wallets /\ op[a].id \in Calls
      /\ snap[a] = wallets[WalletOf(a)] /\ snap[a] \in Wallet
      /\ a \in Calls => op[a].id = a /\ a \notin DOMAIN txs
      /\ a \in Workers => op[a] = txs[op[a].id]
      /\ op[a].status \in Unresolved
  BY <1>1, InHand
<1>3. dec[a] \in Decided /\ (Moves(dec[a]) => After(snap[a].balance, dec[a].direction, op[a].req.amount) \in Amounts)
  BY <1>1 DEF Inv, Discipline, DecisionDiscipline
<1>4. Moves(dec[a]) => EntryFor(snap[a], op[a], dec[a]) \in Entry
  BY <1>2, <1>3, WriteTypes
<1> QED BY <1>2, <1>4 DEF Commit, PersistApply, WalletOf

LEMMA ChainNext == Inv /\ LedgerChain /\ [Next]_vars => LedgerChain'
<1> SUFFICES ASSUME Inv, LedgerChain, [Next]_vars PROVE LedgerChain'
  OBVIOUS
<1>0. /\ wallets \in [DOMAIN wallets -> Wallet] /\ ledger \in [DOMAIN wallets -> Seq(Entry)]
  BY DEF Inv, TypeOK, StoreTypeOK
<1>1. CASE UNCHANGED tables
  BY <1>1 DEF tables, LedgerChain
<1>2. ASSUME NEW o \in Openings, Open(o) PROVE LedgerChain'
  <2> DEFINE id == o.wallet
             wallet == [player |-> o.player, currency |-> o.currency, balance |-> o.initial, version |-> 1]
  <2>1. /\ id \notin DOMAIN wallets /\ o.initial \in Nat
        /\ wallets' = Put(wallets, id, wallet)
        /\ \/ o.initial = 0 /\ ledger' = Put(ledger, id, <<>>)
           \/ ledger' = Put(ledger, id, <<OpeningEntry(o)>>)
    BY <1>2, StoreAssumption DEF Open, OpenWallet
  <2>2. /\ DOMAIN wallets' = DOMAIN wallets \cup {id} /\ wallets'[id] = wallet
        /\ \A v \in DOMAIN wallets : wallets'[v] = wallets[v] /\ ledger'[v] = ledger[v]
        /\ \/ o.initial = 0 /\ ledger'[id] = <<>>
           \/ ledger'[id] = <<OpeningEntry(o)>>
    BY <1>0, <2>1 DEF Put
  <2>3. /\ OpeningEntry(o).before = 0 /\ OpeningEntry(o).after = o.initial
        /\ OpeningEntry(o).after = After(0, OpeningEntry(o).direction, OpeningEntry(o).amount)
    BY <2>1 DEF OpeningEntry, After
  <2>4. CASE o.initial = 0 /\ ledger'[id] = <<>>
    BY <2>2, <2>4 DEF LedgerChain, BalanceAt
  <2>5. CASE ledger'[id] = <<OpeningEntry(o)>>
    BY <2>2, <2>3, <2>5 DEF LedgerChain, BalanceAt
  <2> QED BY <2>2, <2>4, <2>5
<1>3. ASSUME NEW a \in Calls \cup Workers, Commit(a) PROVE LedgerChain'
  <2> DEFINE w == WalletOf(a)
             entry == EntryFor(wallets[w], op[a], dec[a])
  <2>1. /\ w \in DOMAIN wallets
        /\ \/ Moves(dec[a]) /\ entry \in Entry
              /\ wallets' = [wallets EXCEPT ![w] = WalletAfter(wallets[w], op[a], dec[a])]
              /\ ledger' = [ledger EXCEPT ![w] = Append(ledger[w], entry)]
           \/ UNCHANGED <<wallets, ledger>>
    BY <1>3, CommitWrites
  <2>2. CASE UNCHANGED <<wallets, ledger>>
    BY <2>2 DEF LedgerChain
  <2>3. CASE /\ Moves(dec[a]) /\ entry \in Entry
             /\ wallets' = [wallets EXCEPT ![w] = WalletAfter(wallets[w], op[a], dec[a])]
             /\ ledger' = [ledger EXCEPT ![w] = Append(ledger[w], entry)]
    <3>1. /\ entry.before = wallets[w].balance
          /\ entry.after = After(entry.before, entry.direction, entry.amount)
          /\ entry.after = wallets'[w].balance
      BY <1>0, <2>1, <2>3 DEF EntryFor, WalletAfter, Wallet
    <3>2. /\ ledger[w] \in Seq(Entry) /\ Len(ledger[w]) \in Nat
          /\ Len(ledger'[w]) = Len(ledger[w]) + 1
          /\ ledger'[w][Len(ledger[w]) + 1] = entry
          /\ \A i \in 1..Len(ledger[w]) : ledger'[w][i] = ledger[w][i]
      <4> HIDE DEF entry
      <4> QED BY <1>0, <2>1, <2>3
    <3>3. /\ wallets[w].balance = BalanceAt(ledger[w], Len(ledger[w]))
          /\ \A i \in 1..Len(ledger[w]) :
                /\ ledger[w][i].before = BalanceAt(ledger[w], i - 1)
                /\ ledger[w][i].after = After(ledger[w][i].before, ledger[w][i].direction, ledger[w][i].amount)
      BY <2>1 DEF LedgerChain
    <3>4. \A i \in 0..Len(ledger[w]) : BalanceAt(ledger'[w], i) = BalanceAt(ledger[w], i)
      BY <3>2 DEF BalanceAt
    <3>5. wallets'[w].balance = BalanceAt(ledger'[w], Len(ledger'[w]))
      <4> HIDE DEF entry
      <4> QED BY <3>1, <3>2 DEF BalanceAt
    <3>6. ASSUME NEW i \in 1..Len(ledger'[w])
          PROVE  /\ ledger'[w][i].before = BalanceAt(ledger'[w], i - 1)
                 /\ ledger'[w][i].after = After(ledger'[w][i].before, ledger'[w][i].direction, ledger'[w][i].amount)
      <4> HIDE DEF entry
      <4>1. CASE i = Len(ledger[w]) + 1
        <5>1. i - 1 = Len(ledger[w]) /\ i - 1 \in 0..Len(ledger[w]) /\ ledger'[w][i] = entry
          BY <3>2, <4>1
        <5>2. BalanceAt(ledger'[w], i - 1) = wallets[w].balance
          BY <3>3, <3>4, <5>1
        <5> QED BY <3>1, <5>1, <5>2
      <4>2. CASE i \in 1..Len(ledger[w])
        <5>1. i - 1 \in 0..Len(ledger[w]) /\ ledger'[w][i] = ledger[w][i]
          BY <3>2, <4>2
        <5>2. BalanceAt(ledger'[w], i - 1) = BalanceAt(ledger[w], i - 1)
          BY <3>4, <5>1
        <5> QED BY <3>3, <4>2, <5>1, <5>2
      <4> QED BY <3>2, <4>1, <4>2
    <3>7. \A v \in DOMAIN wallets' \ {w} : /\ v \in DOMAIN wallets /\ ledger'[v] = ledger[v]
                                           /\ wallets'[v] = wallets[v]
      BY <1>0, <2>3
    <3>8. DOMAIN wallets' = DOMAIN wallets
      BY <1>0, <2>3
    <3> HIDE DEF w, entry
    <3> QED BY <3>5, <3>6, <3>7, <3>8 DEF LedgerChain
  <2> QED BY <2>1, <2>2, <2>3
<1> QED BY <1>1, <1>2, <1>3, TableSteps

\* The stored balance is always the end of an unbroken chain of entries that
\* starts at zero: persistApply's statements never tell different stories.
THEOREM ChainUnbroken == Spec => []LedgerChain
<1>1. Init => LedgerChain
  BY DEF Init, StoreInit, LedgerChain
<1> QED BY Invariant, <1>1, ChainNext, PTL DEF Spec

-----------------------------------------------------------------------------
(* Reconciliation.                                                         *)

\* Every set of natural numbers has a least one: induction over data, in the
\* form of a least counterexample.
LEMMA Least ==
    ASSUME NEW T \in SUBSET Nat, T # {}
    PROVE  \E n \in T : \A m \in T : n <= m
<1> DEFINE R == OpToRel(<, Nat)
<1>1. IsWellFoundedOn(R, Nat)
  BY NatLessThanWellFounded
<1>2. PICK n \in T : \A m \in T : ~ (<<m, n>> \in R)
  <2> HIDE DEF R
  <2> QED BY <1>1, WFMin
<1>3. \A m \in T : ~ (m < n)
  BY <1>2 DEF OpToRel
<1> QED BY <1>3

\* The entries of an unbroken chain add up to where it ends.
LEMMA ChainSum ==
    ASSUME NEW s \in Seq(Entry),
           \A i \in 1..Len(s) :
              /\ s[i].before = BalanceAt(s, i - 1)
              /\ s[i].after = After(s[i].before, s[i].direction, s[i].amount)
    PROVE  LedgerSum(s) = BalanceAt(s, Len(s))
<1> DEFINE n == Len(s)
           Sums(f) == f = [k \in 0..n |-> IF k = 0 THEN 0 ELSE f[k - 1] + Signed(s[k])]
           sum == CHOOSE f : Sums(f)
           balances == [k \in 0..n |-> BalanceAt(s, k)]
<1>1. n \in Nat /\ \A k \in 1..n : s[k] \in Entry
  OBVIOUS
<1>2. \A k \in 1..n : BalanceAt(s, k) = BalanceAt(s, k - 1) + Signed(s[k])
  BY <1>1 DEF BalanceAt, Signed, After, Entry, Directions, Amounts
<1>3. \A k \in 1..n : k # 0 /\ k - 1 \in 0..n
  BY <1>1
<1>4. Sums(balances)
  BY <1>2, <1>3 DEF BalanceAt
<1>5. Sums(sum)
  BY <1>4
<1>6. LedgerSum(s) = sum[n]
  BY DEF LedgerSum
<1> HIDE DEF sum, n
<1>7. sum[0] = 0 /\ \A k \in 1..n : sum[k] = sum[k - 1] + Signed(s[k])
  BY <1>1, <1>3, <1>5
<1> DEFINE wrong == {k \in 0..n : sum[k] # BalanceAt(s, k)}
<1>8. ASSUME wrong # {} PROVE FALSE
  <2>1. wrong \in SUBSET Nat
    BY <1>1
  <2>2. PICK k \in wrong : \A m \in wrong : k <= m
    <3> HIDE DEF wrong
    <3> QED BY <1>8, <2>1, Least
  <2>3. k \in 1..n
    BY <1>1, <1>7, <2>2 DEF BalanceAt
  <2>4. k - 1 \notin wrong
    BY <2>2, <2>3
  <2>5. sum[k - 1] = BalanceAt(s, k - 1)
    BY <1>3, <2>3, <2>4
  <2> QED BY <1>2, <1>7, <2>2, <2>3, <2>5
<1> QED BY <1>1, <1>6, <1>8 DEF n

\* Only a reconciliation that has summed the ledger reports a divergence.
Calm == \A a \in Auditors : answer'[a].tag = "divergent" => answer[a].tag = "divergent"

LEMMA OtherAnswersCalm ==
    ASSUME Inv, [Next]_vars, ~ \E a \in Auditors : SumLedger(a)
    PROVE  Calm
<1> USE ActorFacts
<1>1. answer \in [Calls \cup Auditors -> Answers]
  BY DEF Inv, TypeOK, ActorTypeOK
<1>2. ASSUME NEW b, NEW reply, End(b, reply), reply.tag # "divergent" PROVE Calm
  BY <1>1, <1>2 DEF End, Calm
<1>3. \A b, code : Fail(b, code) => Calm
  BY <1>2 DEF Fail, Answer
<1>4. \A b, t : Replay(b, t) => Calm
  BY <1>2 DEF Replay, Answer
<1>5. UNCHANGED answer => Calm
  BY DEF Calm
<1>6. \A b, label : Goto(b, label) => Calm
  BY <1>5 DEF Goto
<1>7. \A c : CallStep(c) => Calm
  BY <1>3, <1>4, <1>6 DEF CallStep, FindKey, FindExt, RecheckKey, RecheckExt, RecoverKey,
     RecoverExt, ReplayByKey, ReplayByExt
<1>8. \A b : LockWallet(b) \/ LockRow(b) => Calm
  BY <1>3, <1>5 DEF LockWallet, LockRow
<1>9. \A b, reference, revs : Decide(b, reference, revs) => Calm
  BY <1>3, <1>5 DEF Decide
<1>10. \A b : FindReference(b) \/ ListReversals(b) => Calm
  BY <1>5, <1>9 DEF FindReference, ListReversals
<1>11. \A b : Persist(b) => Calm
  BY <1>3, <1>5 DEF Persist, Conflict
<1>12. ASSUME NEW b, Commit(b) PROVE Calm
  <2>1. answer' = answer \/ answer' = [answer EXCEPT ![b] = Answer("created", b, NONE)]
    BY <1>12 DEF Commit
  <2> QED BY <1>1, <2>1 DEF Calm, Answer
<1>13. \A b : Rollback(b) => Calm
  BY <1>2 DEF Rollback, Answer
<1>14. /\ \A b, t : Claim(b, t) => Calm
       /\ \A b, w : Reconcile(b, w) => Calm
       /\ \A b, r : Submit(b, r) => Calm
       /\ \A o : Open(o) => Calm
  BY <1>5 DEF Claim, Reconcile, Submit, Open, local
<1> QED BY <1>5, <1>7, <1>8, <1>10, <1>11, <1>12, <1>13, <1>14 DEF Next, Step, Idle, vars

\* A reconciliation finds the sum of the ledger to be the balance it has read,
\* whatever commits while it runs.
THEOREM ReconciliationTrue == Spec => []ReconciliationConsistent
<1>1. Init => ReconciliationConsistent
  BY DEF Init, ReconciliationConsistent, Nothing, Answer
<1>2. ReconciliationConsistent /\ Inv /\ LedgerChain /\ [Next]_vars => ReconciliationConsistent'
  <2> SUFFICES ASSUME ReconciliationConsistent, Inv, LedgerChain, [Next]_vars
               PROVE  ReconciliationConsistent'
    OBVIOUS
  <2>1. ASSUME NEW a \in Auditors, SumLedger(a) PROVE ReconciliationConsistent'
    <3>1. /\ WalletOf(a) \in DOMAIN wallets /\ snap[a] = wallets[WalletOf(a)]
          /\ ledger[WalletOf(a)] \in Seq(Entry)
      BY <2>1, ActorFacts DEF SumLedger, Inv, TypeOK, StoreTypeOK, Discipline, LockDiscipline, Locking
    <3>2. LedgerSum(ledger[WalletOf(a)]) = snap[a].balance
      BY <3>1, ChainSum DEF LedgerChain
    <3>3. End(a, Answer("consistent", NONE, NONE))
      BY <2>1, <3>2 DEF SumLedger
    <3>4. answer \in [Calls \cup Auditors -> Answers]
      BY DEF Inv, TypeOK, ActorTypeOK
    <3> QED BY <3>3, <3>4 DEF End, Answer, ReconciliationConsistent
  <2>2. CASE ~ \E a \in Auditors : SumLedger(a)
    BY <2>2, OtherAnswersCalm DEF Calm, ReconciliationConsistent
  <2> QED BY <2>1, <2>2
<1> QED BY Invariant, ChainUnbroken, <1>1, <1>2, PTL DEF Spec

\* No row disappears, none changes what was asked for, a decided one not at all.
LEMMA RowsStay ==
    ASSUME Inv, [Next]_vars, NEW t \in DOMAIN txs
    PROVE  /\ t \in DOMAIN txs'
           /\ txs'[t].req = txs[t].req
           /\ txs[t].status \in Terminal => txs'[t] = txs[t]
<1>1. txs \in [DOMAIN txs -> Row]
  BY DEF Inv, TypeOK, StoreTypeOK
<1>2. ASSUME NEW o \in Openings, Open(o)
      PROVE  t \in DOMAIN txs' /\ txs'[t] = txs[t]
  <2>1. o.wallet \notin DOMAIN txs
    BY <1>2, StoreAssumption DEF Open, OpenWallet, Inv, TypeOK, StoreTypeOK
  <2> QED BY <1>1, <1>2, <2>1 DEF Open, OpenWallet, Put
<1>3. ASSUME NEW a \in Calls \cup Workers, Commit(a)
      PROVE  /\ t \in DOMAIN txs'
             /\ txs'[t].req = txs[t].req
             /\ txs[t].status \in Terminal => txs'[t] = txs[t]
  <2> DEFINE row == RowAfter(wallets[WalletOf(a)], op[a], dec[a])
  <2>1. /\ txs' = Put(txs, op[a].id, row)
        /\ op[a].id \in DOMAIN txs => op[a] = txs[op[a].id] /\ txs[op[a].id].status \in Unresolved
    BY <1>3, CommitWrites
  <2>2. op[a].id = t => row.req = txs[t].req /\ txs[t].status \notin Terminal
    BY <1>1, <2>1 DEF RowAfter, Row, Unresolved, Terminal
  <2> HIDE DEF row
  <2> QED BY <1>1, <2>1, <2>2 DEF Put
<1> QED BY <1>2, <1>3, TableSteps DEF tables

\* A committed outcome is never rewritten, whatever workers had in hand.
THEOREM FinalOutcomes == Spec => TerminalIsFinal
<1>1. Inv /\ [Next]_vars =>
        [\A t \in DOMAIN txs :
           /\ t \in DOMAIN txs'
           /\ txs'[t].req = txs[t].req
           /\ txs[t].status \in Terminal => txs'[t] = txs[t]]_tables
  BY RowsStay
<1> QED BY Invariant, <1>1, PTL DEF Spec, TerminalIsFinal

\* The ledger only grows, and by exactly one entry per wallet version.
THEOREM VersionedMovements == Spec => MovementsAreVersions
<1>1. Inv /\ [Next]_vars =>
        [\A w \in DOMAIN wallets :
           /\ w \in DOMAIN wallets'
           /\ \/ wallets'[w] = wallets[w] /\ ledger'[w] = ledger[w]
              \/ /\ wallets'[w].version = wallets[w].version + 1
                 /\ Len(ledger'[w]) = Len(ledger[w]) + 1
                 /\ SubSeq(ledger'[w], 1, Len(ledger[w])) = ledger[w]]_tables
  <2> SUFFICES ASSUME Inv, [Next]_vars, ~UNCHANGED tables, NEW w \in DOMAIN wallets
               PROVE  /\ w \in DOMAIN wallets'
                      /\ \/ wallets'[w] = wallets[w] /\ ledger'[w] = ledger[w]
                         \/ /\ wallets'[w].version = wallets[w].version + 1
                            /\ Len(ledger'[w]) = Len(ledger[w]) + 1
                            /\ SubSeq(ledger'[w], 1, Len(ledger[w])) = ledger[w]
    OBVIOUS
  <2>1. wallets \in [DOMAIN wallets -> Wallet] /\ ledger \in [DOMAIN wallets -> Seq(Entry)]
    BY DEF Inv, TypeOK, StoreTypeOK
  <2>2. ASSUME NEW o \in Openings, Open(o)
        PROVE  w \in DOMAIN wallets' /\ wallets'[w] = wallets[w] /\ ledger'[w] = ledger[w]
    BY <2>1, <2>2 DEF Open, OpenWallet, Put
  <2>3. ASSUME NEW a \in Calls \cup Workers, Commit(a)
        PROVE  /\ w \in DOMAIN wallets'
               /\ \/ wallets'[w] = wallets[w] /\ ledger'[w] = ledger[w]
                  \/ /\ wallets'[w].version = wallets[w].version + 1
                     /\ Len(ledger'[w]) = Len(ledger[w]) + 1
                     /\ SubSeq(ledger'[w], 1, Len(ledger[w])) = ledger[w]
    <3> DEFINE entry == EntryFor(wallets[WalletOf(a)], op[a], dec[a])
               after == WalletAfter(wallets[WalletOf(a)], op[a], dec[a])
    <3>1. /\ WalletOf(a) \in DOMAIN wallets
          /\ \/ Moves(dec[a]) /\ entry \in Entry
                /\ wallets' = [wallets EXCEPT ![WalletOf(a)] = after]
                /\ ledger' = [ledger EXCEPT ![WalletOf(a)] = Append(ledger[WalletOf(a)], entry)]
             \/ UNCHANGED <<wallets, ledger>>
      BY <2>3, CommitWrites
    <3>2. Moves(dec[a]) => after.version = wallets[WalletOf(a)].version + 1
      BY <2>1, <3>1 DEF WalletAfter, Wallet
    <3> HIDE DEF entry, after
    <3>3. CASE w = WalletOf(a) /\ wallets' # wallets
      <4>1. ledger'[w] = Append(ledger[w], entry) /\ entry \in Entry /\ ledger[w] \in Seq(Entry)
        BY <2>1, <3>1, <3>3
      <4>2. /\ Len(ledger'[w]) = Len(ledger[w]) + 1 /\ Len(ledger[w]) \in Nat
            /\ ledger'[w] \in Seq(Entry)
            /\ \A i \in 1..Len(ledger[w]) : ledger'[w][i] = ledger[w][i]
        BY <4>1
      <4>3. SubSeq(ledger'[w], 1, Len(ledger[w])) = ledger[w]
        <5> DEFINE front == SubSeq(ledger'[w], 1, Len(ledger[w]))
        <5>1. \A i \in 1..Len(ledger[w]) : ledger'[w][i] \in Entry
          BY <4>1, <4>2, ElementOfSeq
        <5>2. /\ front \in Seq(Entry) /\ Len(front) = Len(ledger[w])
              /\ \A i \in 1..Len(ledger[w]) : front[i] = ledger'[w][i]
          BY <4>2, <5>1, SubSeqProperties
        <5> HIDE DEF front
        <5> QED BY <4>1, <4>2, <5>2, SeqEqual DEF front
      <4> QED BY <2>1, <3>1, <3>2, <3>3, <4>2, <4>3
    <3>4. CASE w # WalletOf(a) \/ wallets' = wallets
      BY <2>1, <3>1, <3>2, <3>4 DEF Wallet
    <3> QED BY <3>3, <3>4
  <2> QED BY <2>2, <2>3, TableSteps
<1> QED BY Invariant, <1>1, PTL DEF Spec, MovementsAreVersions
=============================================================================
