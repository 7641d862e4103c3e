--------------------------- MODULE OperationProofs --------------------------
(***************************************************************************)
(* Proofs about what a committed operation stands for.  First, that the    *)
(* wallet lock is all that keeps reversals apart: nothing is given back    *)
(* twice, and the unique index and the version check that stand behind the *)
(* lock are never reached.  Then the reference an operation was decided    *)
(* by, the one movement it made and the events that tell it.               *)
(***************************************************************************)
EXTENDS WageringProofs, FiniteSetTheorems

-----------------------------------------------------------------------------
(* Reversals.                                                              *)

Deciding == {"listReversals", "persist", "commit"}

\* A step that writes no row and takes nobody to a statement that matters here.
Quiet ==
    /\ UNCHANGED txs
    /\ \A b \in Calls \cup Workers : pc'[b] \in Deciding =>
          pc'[b] = pc[b] /\ ref'[b] = ref[b] /\ dec'[b] = dec[b] /\ op'[b] = op[b]

LEMMA QuietPreserves ==
    ASSUME ReversalDiscipline, Quiet
    PROVE  ReversalDiscipline'
BY DEF ReversalDiscipline, Quiet, Deciding, ProcessedReversals

LEMMA EndQuiet ==
    ASSUME Inv, NEW a \in Actors, NEW reply, End(a, reply)
    PROVE  Quiet
BY ActorFacts DEF Inv, TypeOK, ActorTypeOK, End, Forget, tables, Quiet, Deciding

LEMMA FailQuiet ==
    ASSUME Inv, NEW a \in Actors, NEW code, Fail(a, code)
    PROVE  Quiet
BY EndQuiet DEF Fail

LEMMA ReplayQuiet ==
    ASSUME Inv, NEW a \in Actors, NEW t, Replay(a, t)
    PROVE  Quiet
BY EndQuiet DEF Replay

LEMMA GotoQuiet ==
    ASSUME Inv, NEW a \in Actors, NEW label, label \notin Deciding, Goto(a, label)
    PROVE  Quiet
BY ActorFacts DEF Inv, TypeOK, ActorTypeOK, Goto, Quiet

LEMMA CallStepQuiet ==
    ASSUME Inv, NEW c \in Calls, CallStep(c)
    PROVE  Quiet
<1> USE ActorFacts
<1>1. {"findExt", "lockWallet", "recheckExt", "findReference", "recoverExt"} \cap Deciding = {}
  BY DEF Deciding
<1>2. \A label : ReplayByKey(c, label) /\ label \notin Deciding => Quiet
  BY FailQuiet, ReplayQuiet, GotoQuiet DEF ReplayByKey
<1>3. ReplayByExt(c) => Quiet
  BY FailQuiet, ReplayQuiet DEF ReplayByExt
<1> QED BY <1>1, <1>2, <1>3, FailQuiet, GotoQuiet DEF CallStep, FindKey, FindExt, RecheckKey,
           RecheckExt, RecoverKey, RecoverExt

LEMMA OtherStepsQuiet ==
    ASSUME Inv
    PROVE  /\ \A a \in Actors : LockWallet(a) => Quiet
           /\ \A c \in Calls, r \in Requests : Submit(c, r) => Quiet
           /\ \A p \in Workers, t \in DOMAIN txs : Claim(p, t) => Quiet
           /\ \A p \in Workers : LockRow(p) => Quiet
           /\ \A a \in Auditors, w \in WalletIds : Reconcile(a, w) => Quiet
           /\ \A a \in Auditors : SumLedger(a) => Quiet
           /\ \A a \in Actors : Rollback(a) => Quiet
<1> USE ActorFacts
<1>1. ASSUME NEW a \in Actors, LockWallet(a) PROVE Quiet
  <2>1. AfterLock(a) \notin Deciding
    BY DEF AfterLock, Deciding
  <2> QED BY <1>1, <2>1, FailQuiet DEF Inv, TypeOK, ActorTypeOK, LockWallet, Quiet
<1>2. ASSUME NEW c \in Calls, NEW r \in Requests, Submit(c, r) PROVE Quiet
  BY <1>2 DEF Inv, TypeOK, ActorTypeOK, Submit, Quiet, Deciding
<1>3. ASSUME NEW p \in Workers, NEW t \in DOMAIN txs, Claim(p, t) PROVE Quiet
  BY <1>3 DEF Inv, TypeOK, ActorTypeOK, Claim, Quiet, Deciding
<1>4. ASSUME NEW p \in Workers, LockRow(p) PROVE Quiet
  BY <1>4, FailQuiet DEF Inv, TypeOK, ActorTypeOK, LockRow, Quiet, Deciding
<1>5. ASSUME NEW a \in Auditors, NEW w \in WalletIds, Reconcile(a, w) PROVE Quiet
  BY <1>5 DEF Inv, TypeOK, ActorTypeOK, Reconcile, Quiet, Deciding
<1>6. ASSUME NEW a \in Auditors, SumLedger(a) PROVE Quiet
  BY <1>6, EndQuiet DEF SumLedger
<1>7. ASSUME NEW a \in Actors, Rollback(a) PROVE Quiet
  BY <1>7, EndQuiet DEF Rollback
<1> QED BY <1>1, <1>2, <1>3, <1>4, <1>5, <1>6, <1>7

-----------------------------------------------------------------------------
(* What Apply promises of a reversal it processes.                         *)

LEMMA ReferenceAllowed ==
    ASSUME NEW r, NEW reference, NEW kinds, NEW equalAmount,
           ReferenceStop(r, reference, kinds, equalAmount) = NONE
    PROVE  reference # NONE /\ reference.req.wallet = r.wallet /\ reference.req.kind \in kinds
<1>1. /\ NONE # Wait /\ NONE # Reject("REFERENCE_UNSUCCESSFUL")
      /\ NONE # Reject("REFERENCE_KIND_INVALID") /\ NONE # Reject("REFERENCE_MISMATCH")
  BY NoneAssumption DEF FailureCodes
<1> QED BY <1>1 DEF ReferenceStop, MatchReference

LEMMA StopNotProcessed ==
    ASSUME NEW r, NEW reference, NEW kinds, NEW equalAmount,
           NEW stop, stop = ReferenceStop(r, reference, kinds, equalAmount), stop # NONE
    PROVE  stop.status # "PROCESSED"
BY DEF ReferenceStop, Wait, Reject, Decision

LEMMA MoveResolves ==
    ASSUME NEW w, NEW r, NEW code, NEW resolved
    PROVE  /\ Debit(w, r, code, resolved).status = "PROCESSED" =>
                 Debit(w, r, code, resolved).resolved = resolved
           /\ Credit(w, r, resolved).status = "PROCESSED" =>
                 Credit(w, r, resolved).resolved = resolved
BY DEF Debit, Credit, Process, Reject, Invalid, Decision

\* A reversal is processed with the reference it was given, of its own wallet,
\* and only when the list it was given names no reversal that excludes it.
LEMMA ReversalProcessed ==
    ASSUME NEW w, NEW o, NEW reference, NEW revs,
           RequiresReference(o.req.kind),
           Apply(w, o, reference, revs).status = "PROCESSED"
    PROVE  /\ reference # NONE
           /\ Apply(w, o, reference, revs).resolved = reference.id
           /\ reference.req.wallet = o.req.wallet
           /\ ~HasProcessed(revs, "ROLLBACK", reference.id)
           /\ reference.req.kind = "BET" => ~HasProcessed(revs, "REFUND", reference.id)
           /\ o.req.kind = "REFUND" => reference.req.kind = "BET"
<1> DEFINE r == o.req
           d == Apply(w, o, reference, revs)
<1>0. /\ \A code : Reject(code).status # "PROCESSED"
      /\ \A code : Invalid(code).status # "PROCESSED"
  BY DEF Reject, Invalid, Decision
<1>1. CASE r.kind = "REFUND"
  <2> DEFINE stop == ReferenceStop(r, reference, {"BET"}, TRUE)
  <2>1. d = ApplyRefund(w, r, reference, revs)
    BY <1>0, <1>1 DEF Apply
  <2>2. stop = NONE
    BY <2>1, StopNotProcessed DEF ApplyRefund
  <2>3. reference # NONE /\ reference.req.wallet = r.wallet /\ reference.req.kind = "BET"
    <3>1. reference.req.kind \in {"BET"}
      BY <2>2, ReferenceAllowed
    <3>2. reference # NONE /\ reference.req.wallet = r.wallet
      BY <2>2, ReferenceAllowed
    <3> QED BY <3>1, <3>2
  <2> HIDE DEF stop
  <2> QED BY <1>0, <1>1, <2>1, <2>2, <2>3, MoveResolves DEF ApplyRefund, stop
<1>2. CASE r.kind = "ROLLBACK"
  <2> DEFINE stop == ReferenceStop(r, reference, {"BET", "WIN", "REFUND"}, TRUE)
  <2>1. d = ApplyRollback(w, r, reference, revs)
    BY <1>0, <1>2 DEF Apply
  <2>2. stop = NONE
    BY <2>1, StopNotProcessed DEF ApplyRollback
  <2>3. reference # NONE /\ reference.req.wallet = r.wallet
    BY <2>2, ReferenceAllowed
  <2> HIDE DEF stop
  <2> QED BY <1>0, <1>2, <2>1, <2>2, <2>3, MoveResolves DEF ApplyRollback, stop
<1> QED BY <1>1, <1>2 DEF RequiresReference

-----------------------------------------------------------------------------
(* The steps that decide, write and commit.                                *)

\* What an undecided actor gains by deciding.
LEMMA DecideReversal ==
    ASSUME Inv, ReversalDiscipline, NEW a \in Calls \cup Workers,
           pc[a] \in {"findReference", "listReversals"},
           NEW reference, NEW revs, Decide(a, reference, revs),
           \/ reference = NONE
           \/ /\ reference.id \in DOMAIN txs
              /\ reference.req = txs[reference.id].req
              /\ revs = ProcessedReversals(reference.id)
    PROVE  ReversalDiscipline'
<1> USE ActorFacts
<1>1. PICK d \in Outcomes(a, reference, revs) :
         IF d.status = "ERROR" THEN Fail(a, d.code)
         ELSE /\ pc' = [pc EXCEPT ![a] = "persist"]
              /\ dec' = [dec EXCEPT ![a] = d]
              /\ ref' = [ref EXCEPT ![a] = NONE]
              /\ UNCHANGED <<wallets, txs, ledger, events, op, walletLock, snap, answer>>
  BY DEF Decide
<1>2. CASE d.status = "ERROR"
  BY <1>1, <1>2, FailQuiet, QuietPreserves
<1>3. CASE d.status # "ERROR"
  <2>1. d.status = "PROCESSED" => d = Apply(snap[a], op[a], reference, revs)
    BY DEF Outcomes, Reject, Decision
  <2>2. ASSUME d.status = "PROCESSED", RequiresReference(op[a].req.kind)
        PROVE  /\ d.resolved \in DOMAIN txs
               /\ txs[d.resolved].req.wallet = op[a].req.wallet
               /\ op[a].req.kind = "REFUND" => txs[d.resolved].req.kind = "BET"
               /\ ProcessedReversals(d.resolved) = {}
    <3>1. /\ reference # NONE
          /\ d.resolved = reference.id
          /\ reference.req.wallet = op[a].req.wallet
          /\ ~HasProcessed(revs, "ROLLBACK", reference.id)
          /\ reference.req.kind = "BET" => ~HasProcessed(revs, "REFUND", reference.id)
          /\ op[a].req.kind = "REFUND" => reference.req.kind = "BET"
      BY <2>1, <2>2, ReversalProcessed
    <3>2. /\ reference.id \in DOMAIN txs
          /\ reference.req = txs[reference.id].req
          /\ revs = ProcessedReversals(reference.id)
      BY <3>1
    <3>3. ASSUME NEW u \in DOMAIN txs, txs[u].resolved = reference.id, txs[u].status = "PROCESSED",
                 txs[u].req.kind \in {"REFUND", "ROLLBACK"}
          PROVE  FALSE
      <4>1. txs[u].req.kind = "REFUND" => reference.req.kind = "BET"
        BY <3>2, <3>3 DEF ReversalDiscipline, IsReversal, RequiresReference
      <4>2. txs[u] \in revs
        BY <3>2, <3>3 DEF ProcessedReversals
      <4>3. HasProcessed(revs, txs[u].req.kind, reference.id)
        BY <3>3, <4>2 DEF HasProcessed
      <4> QED BY <3>1, <3>3, <4>1, <4>3
    <3>4. ProcessedReversals(reference.id) = {}
      BY <3>3 DEF ProcessedReversals
    <3> QED BY <3>1, <3>2, <3>4
  <2>3. \A b \in Calls \cup Workers : b # a =>
           pc'[b] = pc[b] /\ dec'[b] = dec[b] /\ ref'[b] = ref[b]
    BY <1>1, <1>3 DEF Inv, TypeOK, ActorTypeOK
  <2>4. pc'[a] = "persist" /\ dec'[a] = d /\ UNCHANGED <<txs, op>>
    BY <1>1, <1>3 DEF Inv, TypeOK, ActorTypeOK
  <2> QED BY <2>2, <2>3, <2>4 DEF ReversalDiscipline, ProcessedReversals
<1> QED BY <1>2, <1>3

LEMMA FindReferenceReversal ==
    ASSUME Inv, ReversalDiscipline, NEW a \in Calls \cup Workers, FindReference(a)
    PROVE  ReversalDiscipline'
<1> USE ActorFacts
<1>1. pc[a] = "findReference"
  BY DEF FindReference
<1>2. CASE Decide(a, NONE, {})
  BY <1>1, <1>2, DecideReversal
<1>3. ASSUME NEW t \in ByExt(op[a].req.provider, op[a].req.ref),
             pc' = [pc EXCEPT ![a] = "listReversals"],
             ref' = [ref EXCEPT ![a] = txs[t]],
             UNCHANGED <<wallets, txs, ledger, events, op, walletLock, snap, dec, answer>>
      PROVE  ReversalDiscipline'
  <2>1. t \in DOMAIN txs /\ txs[t].id = t
    BY DEF ByExt, Inv, TypeOK, StoreTypeOK
  <2>2. \A b \in Calls \cup Workers : b # a => pc'[b] = pc[b] /\ ref'[b] = ref[b]
    BY <1>3 DEF Inv, TypeOK, ActorTypeOK
  <2>3. pc'[a] = "listReversals" /\ ref'[a] = txs[t] /\ UNCHANGED <<txs, op, dec>>
    BY <1>3 DEF Inv, TypeOK, ActorTypeOK
  <2> QED BY <2>1, <2>2, <2>3 DEF ReversalDiscipline, ProcessedReversals
<1> QED BY <1>2, <1>3 DEF FindReference

LEMMA ListReversalsReversal ==
    ASSUME Inv, ReversalDiscipline, NEW a \in Calls \cup Workers, ListReversals(a)
    PROVE  ReversalDiscipline'
<1>1. pc[a] = "listReversals" /\ Decide(a, ref[a], ProcessedReversals(ref[a].id))
  BY DEF ListReversals
<1>2. ref[a].id \in DOMAIN txs /\ ref[a].req = txs[ref[a].id].req
  BY <1>1 DEF ReversalDiscipline
<1> QED BY <1>1, <1>2, DecideReversal

LEMMA PersistReversal ==
    ASSUME Inv, ReversalDiscipline, NEW a \in Calls \cup Workers, Persist(a)
    PROVE  ReversalDiscipline'
<1> USE ActorFacts
<1>1. CASE Fail(a, "CONFLICT") \/ Fail(a, "OPTIMISTIC_LOCK")
  BY <1>1, FailQuiet, QuietPreserves
<1>2. CASE pc' = [pc EXCEPT ![a] = "recoverKey"] /\ Forget(a) /\ UNCHANGED <<txs, op>>
  <2>1. Quiet
    BY <1>2 DEF Inv, TypeOK, ActorTypeOK, Quiet, Deciding, Forget
  <2> QED BY <2>1, QuietPreserves
<1>3. CASE pc' = [pc EXCEPT ![a] = "commit"] /\ UNCHANGED <<txs, op, ref, dec>>
  <2>1. pc[a] = "persist" /\ pc'[a] = "commit"
    BY <1>3 DEF Persist, Inv, TypeOK, ActorTypeOK
  <2>2. \A b \in Calls \cup Workers : b # a => pc'[b] = pc[b]
    BY <1>3 DEF Inv, TypeOK, ActorTypeOK
  <2> QED BY <1>3, <2>1, <2>2 DEF ReversalDiscipline, ProcessedReversals
<1> QED BY <1>1, <1>2, <1>3 DEF Persist, Conflict

\* A commit adds at most one reversal, to a list that was empty, of a wallet
\* that nobody else is deciding about.
LEMMA CommitReversal ==
    ASSUME Inv, ReversalDiscipline, NEW a \in Calls \cup Workers, Commit(a)
    PROVE  ReversalDiscipline'
<1> USE ActorFacts
<1> DEFINE id == op[a].id
           row == RowAfter(wallets[WalletOf(a)], op[a], dec[a])
<1>1. pc[a] = "commit"
  BY DEF Commit
<1>2. /\ txs' = Put(txs, id, row)
      /\ id \in DOMAIN txs => op[a] = txs[id] /\ txs[id].status \in Unresolved
  BY CommitWrites
<1>3. op[a] \in Row
  BY <1>1, InHand
<1>4. row.req = op[a].req /\ row.status = dec[a].status /\ row.resolved = dec[a].resolved
  BY <1>3 DEF RowAfter, Row
<1>5. /\ id \in DOMAIN txs' /\ txs'[id] = row
      /\ \A t \in DOMAIN txs : t \in DOMAIN txs' /\ txs'[t].req = txs[t].req
      /\ \A t \in DOMAIN txs' : t # id => t \in DOMAIN txs /\ txs'[t] = txs[t]
  <2> HIDE DEF id, row
  <2>1. txs \in [DOMAIN txs -> Row]
    BY DEF Inv, TypeOK, StoreTypeOK
  <2> QED BY <1>2, <1>4, <2>1 DEF Put, id
<1>6. IsReversal(row) =>
         /\ dec[a].resolved \in DOMAIN txs
         /\ txs[dec[a].resolved].req.wallet = op[a].req.wallet
         /\ op[a].req.kind = "REFUND" => txs[dec[a].resolved].req.kind = "BET"
         /\ ProcessedReversals(dec[a].resolved) = {}
  BY <1>1, <1>4 DEF ReversalDiscipline, IsReversal
<1>7. id \in DOMAIN txs => ~IsReversal(txs[id])
  BY <1>2 DEF IsReversal, Unresolved
<1> HIDE DEF id, row
<1>8. ASSUME NEW u \in DOMAIN txs', IsReversal(txs'[u])
      PROVE  /\ txs'[u].resolved \in DOMAIN txs'
             /\ txs'[txs'[u].resolved].req.wallet = txs'[u].req.wallet
             /\ txs'[u].req.kind = "REFUND" => txs'[txs'[u].resolved].req.kind = "BET"
  <2>1. CASE u = id
    BY <1>4, <1>5, <1>6, <1>8, <2>1
  <2>2. CASE u # id
    BY <1>5, <1>8, <2>2 DEF ReversalDiscipline
  <2> QED BY <2>1, <2>2
<1>9. ASSUME NEW u \in DOMAIN txs', NEW v \in DOMAIN txs', IsReversal(txs'[u]), IsReversal(txs'[v]),
             txs'[v].resolved = txs'[u].resolved
      PROVE  u = v
  <2>1. \A x \in DOMAIN txs : IsReversal(row) /\ IsReversal(txs[x]) => txs[x].resolved # dec[a].resolved
    BY <1>6 DEF ProcessedReversals, IsReversal, RequiresReference
  <2>2. CASE u = id \/ v = id
    BY <1>4, <1>5, <1>9, <2>1, <2>2
  <2>3. CASE u # id /\ v # id
    BY <1>5, <1>9, <2>3 DEF ReversalDiscipline
  <2> QED BY <2>2, <2>3
<1>10. ASSUME NEW b \in Calls \cup Workers, b # a
       PROVE  pc'[b] = pc[b] /\ op'[b] = op[b] /\ ref'[b] = ref[b] /\ dec'[b] = dec[b]
  BY <1>10 DEF Commit, Forget, Inv, TypeOK, ActorTypeOK
<1>11. pc'[a] \notin Deciding
  BY DEF Commit, Inv, TypeOK, ActorTypeOK, Deciding
<1>12. ASSUME NEW b \in Calls \cup Workers, pc'[b] = "listReversals"
       PROVE  ref'[b].id \in DOMAIN txs' /\ ref'[b].req = txs'[ref'[b].id].req
  <2>1. b # a
    BY <1>11, <1>12 DEF Deciding
  <2> QED BY <1>5, <1>10, <1>12, <2>1 DEF ReversalDiscipline
<1>13. ASSUME NEW b \in Calls \cup Workers, pc'[b] \in {"persist", "commit"},
              dec'[b].status = "PROCESSED", RequiresReference(op'[b].req.kind)
       PROVE  /\ dec'[b].resolved \in DOMAIN txs'
              /\ txs'[dec'[b].resolved].req.wallet = op'[b].req.wallet
              /\ op'[b].req.kind = "REFUND" => txs'[dec'[b].resolved].req.kind = "BET"
              /\ ProcessedReversals(dec[b].resolved)' = {}
  <2>1. b # a
    BY <1>11, <1>13 DEF Deciding
  <2>2. pc'[b] = pc[b] /\ op'[b] = op[b] /\ dec'[b] = dec[b]
    BY <1>10, <2>1
  <2>3. /\ dec[b].resolved \in DOMAIN txs
        /\ txs[dec[b].resolved].req.wallet = op[b].req.wallet
        /\ op[b].req.kind = "REFUND" => txs[dec[b].resolved].req.kind = "BET"
        /\ ProcessedReversals(dec[b].resolved) = {}
    BY <1>13, <2>2 DEF ReversalDiscipline
  <2>4. op[b].req.wallet # op[a].req.wallet
    BY <1>1, <1>13, <2>1, <2>2, CommitDisjoint DEF WalletOf, Locking
  <2>5. ASSUME NEW u \in DOMAIN txs', IsReversal(txs'[u]), txs'[u].resolved = dec[b].resolved
        PROVE  FALSE
    <3>1. CASE u = id
      BY <1>4, <1>5, <1>6, <2>3, <2>4, <2>5, <3>1
    <3>2. CASE u # id
      BY <1>5, <2>3, <2>5, <3>2 DEF ProcessedReversals, IsReversal, RequiresReference
    <3> QED BY <3>1, <3>2
  <2>6. ProcessedReversals(dec[b].resolved)' = {}
    BY <2>2, <2>5 DEF ProcessedReversals, IsReversal, RequiresReference
  <2> QED BY <1>5, <2>2, <2>3, <2>6
<1> QED BY <1>8, <1>9, <1>12, <1>13 DEF ReversalDiscipline, IsReversal

LEMMA OpenReversal ==
    ASSUME Inv, ReversalDiscipline, NEW o \in Openings, Open(o)
    PROVE  ReversalDiscipline'
<1> DEFINE id == o.wallet
<1>1. id \notin DOMAIN txs
  BY StoreAssumption DEF Open, OpenWallet, Inv, TypeOK, StoreTypeOK
<1>2. UNCHANGED local /\ (UNCHANGED txs \/ txs' = Put(txs, id, OpeningRow(o)))
  BY DEF Open, OpenWallet
<1>3. ~IsReversal(OpeningRow(o))
  BY DEF IsReversal, OpeningRow, OpeningRequest, RequiresReference
<1> HIDE DEF id
<1>4. CASE UNCHANGED txs
  BY <1>2, <1>4 DEF local, ReversalDiscipline, ProcessedReversals
<1>5. CASE txs' = Put(txs, id, OpeningRow(o))
  <2>1. /\ \A t \in DOMAIN txs : t \in DOMAIN txs' /\ txs'[t] = txs[t]
        /\ \A t \in DOMAIN txs' : t \in DOMAIN txs \/ ~IsReversal(txs'[t])
    BY <1>1, <1>3, <1>5 DEF Put
  <2>2. \A t : ProcessedReversals(t) = {} => ProcessedReversals(t)' = {}
    BY <2>1 DEF ProcessedReversals, IsReversal, RequiresReference
  <2>3. UNCHANGED <<pc, ref, dec, op>>
    BY <1>2 DEF local
  <2>4. \A u \in DOMAIN txs' : IsReversal(txs'[u]) => u \in DOMAIN txs /\ IsReversal(txs[u])
    BY <2>1
  <2>5. ASSUME NEW a \in Calls \cup Workers, pc[a] \in {"persist", "commit"},
               dec[a].status = "PROCESSED", RequiresReference(op[a].req.kind)
        PROVE  ProcessedReversals(dec[a].resolved)' = {}
    BY <2>2, <2>3, <2>5 DEF ReversalDiscipline
  <2>6. ASSUME NEW u \in DOMAIN txs', IsReversal(txs'[u])
        PROVE  /\ txs'[u].resolved \in DOMAIN txs'
               /\ txs'[txs'[u].resolved].req.wallet = txs'[u].req.wallet
               /\ txs'[u].req.kind = "REFUND" => txs'[txs'[u].resolved].req.kind = "BET"
               /\ \A v \in DOMAIN txs' :
                     IsReversal(txs'[v]) /\ txs'[v].resolved = txs'[u].resolved => u = v
    BY <2>1, <2>4, <2>6 DEF ReversalDiscipline
  <2>7. ASSUME NEW a \in Calls \cup Workers, pc[a] = "listReversals"
        PROVE  ref[a].id \in DOMAIN txs' /\ ref[a].req = txs'[ref[a].id].req
    BY <2>1, <2>7 DEF ReversalDiscipline
  <2>8. ASSUME NEW a \in Calls \cup Workers, pc[a] \in {"persist", "commit"},
               dec[a].status = "PROCESSED", RequiresReference(op[a].req.kind)
        PROVE  /\ dec[a].resolved \in DOMAIN txs'
               /\ txs'[dec[a].resolved].req.wallet = op[a].req.wallet
               /\ op[a].req.kind = "REFUND" => txs'[dec[a].resolved].req.kind = "BET"
    BY <2>1, <2>8 DEF ReversalDiscipline
  <2> QED BY <2>3, <2>5, <2>6, <2>7, <2>8 DEF ReversalDiscipline, IsReversal
<1> QED BY <1>2, <1>4, <1>5

LEMMA ReversalNext == Inv /\ ReversalDiscipline /\ [Next]_vars => ReversalDiscipline'
<1> USE ActorFacts
<1> SUFFICES ASSUME Inv, ReversalDiscipline, [Next]_vars PROVE ReversalDiscipline'
  OBVIOUS
<1>1. CASE UNCHANGED vars
  <2>1. Quiet
    BY <1>1 DEF vars, Quiet
  <2> QED BY <2>1, QuietPreserves
<1>2. CASE \E o \in Openings : Open(o)
  BY <1>2, OpenReversal
<1>3. CASE \E c \in Calls, r \in Requests : Submit(c, r)
  BY <1>3, OtherStepsQuiet, QuietPreserves
<1>4. CASE \E c \in Calls : CallStep(c)
  BY <1>4, CallStepQuiet, QuietPreserves
<1>5. CASE \E a \in Calls \cup Workers : Step(a)
  <2>1. PICK a \in Calls \cup Workers : Step(a)
    BY <1>5
  <2>2. LockWallet(a) => ReversalDiscipline'
    BY OtherStepsQuiet, QuietPreserves
  <2> QED BY <2>1, <2>2, FindReferenceReversal, ListReversalsReversal, PersistReversal,
             CommitReversal DEF Step
<1>6. CASE \E a \in Workers : (\E t \in DOMAIN txs : Claim(a, t)) \/ LockRow(a)
  BY <1>6, OtherStepsQuiet, QuietPreserves
<1>7. CASE \E a \in Auditors : (\E w \in WalletIds : Reconcile(a, w)) \/ LockWallet(a) \/ SumLedger(a)
  BY <1>7, OtherStepsQuiet, QuietPreserves
<1>8. CASE \E a \in Actors : Rollback(a)
  BY <1>8, OtherStepsQuiet, QuietPreserves
<1>9. CASE Idle
  BY <1>1, <1>9 DEF Idle
<1> QED BY <1>1, <1>2, <1>3, <1>4, <1>5, <1>6, <1>7, <1>8, <1>9 DEF Next

THEOREM ReversalInvariant == Spec => []ReversalDiscipline
<1>1. Init => ReversalDiscipline
  <2> SUFFICES ASSUME Init PROVE ReversalDiscipline
    OBVIOUS
  <2>1. DOMAIN txs = {}
    BY DEF Init, StoreInit
  <2>2. \A a \in Calls \cup Workers : pc[a] = "idle"
    BY ActorFacts DEF Init
  <2> QED BY <2>1, <2>2 DEF ReversalDiscipline
<1> QED BY Invariant, <1>1, ReversalNext, PTL DEF Spec

\* A bet is given back at most once, by a refund or by a rollback, and a win or
\* a refund is rolled back at most once, without any constraint in the schema.
THEOREM ReversedOnce == Spec => []ReversalsExclusive
<1>1. Inv /\ ReversalDiscipline => ReversalsExclusive
  <2> SUFFICES ASSUME ReversalDiscipline, NEW t \in DOMAIN txs
               PROVE  Cardinality(ProcessedReversals(t)) <= 1
    BY DEF ReversalsExclusive
  <2>1. \A x, y \in ProcessedReversals(t) : x = y
    BY DEF ReversalDiscipline, ProcessedReversals, IsReversal, RequiresReference
  <2>2. ProcessedReversals(t) = {} \/ \E x : ProcessedReversals(t) = {x}
    BY <2>1
  <2>3. ProcessedReversals(t) = {} => Cardinality(ProcessedReversals(t)) = 0
    BY FS_EmptySet
  <2>4. (\E x : ProcessedReversals(t) = {x}) => Cardinality(ProcessedReversals(t)) = 1
    BY FS_Singleton
  <2> QED BY <2>2, <2>3, <2>4
<1> QED BY Invariant, ReversalInvariant, <1>1, PTL

\* The versioned UPDATE always finds the version that was read, and no insert or
\* update ever meets the unique index on processed reversals.
THEOREM NetsUnused == Spec => []SafetyNetsUnused
<1>1. Inv /\ ReversalDiscipline => SafetyNetsUnused
  <2> SUFFICES ASSUME Inv, ReversalDiscipline, NEW a \in Calls \cup Workers, pc[a] = "persist"
               PROVE  /\ Moves(dec[a]) => wallets[WalletOf(a)].version = snap[a].version
                      /\ \A t \in DOMAIN txs : ~ReversalClash(op[a].id, op[a].req.kind, dec[a], txs[t])
                      /\ \A b \in (Calls \cup Workers) \ {a} : pc[b] = "commit" =>
                            ~ReversalClash(op[a].id, op[a].req.kind, dec[a], RowAfter(snap[b], op[b], dec[b]))
    BY DEF SafetyNetsUnused
  <2>1. Moves(dec[a]) => wallets[WalletOf(a)].version = snap[a].version
    BY InHand
  <2>2. ASSUME NEW t \in DOMAIN txs, ReversalClash(op[a].id, op[a].req.kind, dec[a], txs[t])
        PROVE  FALSE
    <3>1. ProcessedReversals(dec[a].resolved) = {}
      BY <2>2 DEF ReversalDiscipline, ReversalClash, RequiresReference
    <3> QED BY <2>2, <3>1 DEF ReversalClash, ProcessedReversals
  <2>3. ASSUME NEW b \in (Calls \cup Workers) \ {a}, pc[b] = "commit",
               ReversalClash(op[a].id, op[a].req.kind, dec[a], RowAfter(snap[b], op[b], dec[b]))
        PROVE  FALSE
    <3>1. op[b] \in Row
      BY <2>3, InHand
    <3>2. /\ dec[b].status = "PROCESSED" /\ dec[b].resolved = dec[a].resolved
          /\ RequiresReference(op[b].req.kind)
      BY <2>3, <3>1 DEF ReversalClash, RowAfter, Row, RequiresReference
    <3>3. /\ txs[dec[b].resolved].req.wallet = op[b].req.wallet
          /\ txs[dec[a].resolved].req.wallet = op[a].req.wallet
      BY <2>3, <3>2 DEF ReversalDiscipline, ReversalClash, RequiresReference
    <3>4. WalletOf(a) # WalletOf(b)
      BY <2>3, CommitDisjoint, ActorFacts DEF Locking
    <3> QED BY <3>2, <3>3, <3>4 DEF WalletOf
  <2> QED BY <2>1, <2>2, <2>3
<1> QED BY Invariant, ReversalInvariant, <1>1, PTL

-----------------------------------------------------------------------------
(* References, movements and events.                                       *)

\* The kinds an operation may refer to.
TargetKinds(kind) == IF kind = "ROLLBACK" THEN {"BET", "WIN", "REFUND"} ELSE {"BET"}

\* Row s is a reference that command r may be processed with.
Suits(r, s) ==
    /\ s.status = "PROCESSED"
    /\ s.req.kind \in TargetKinds(r.kind)
    /\ s.req.ext = r.ref
    /\ MatchReference(r, s.req, RequiresReference(r.kind))

\* The direction a processed operation moves its wallet in.
DirectionFor(kind, targetKind) ==
    IF kind = "BET" \/ (kind = "ROLLBACK" /\ targetKind # "BET") THEN "DEBIT" ELSE "CREDIT"

\* What a decision d says of the operation with command r.
Sensible(r, d) ==
    /\ d.status \in {"PROCESSED", "REJECTED", "PENDING_REFERENCE"}
    /\ d.resolved # NONE =>
          d.resolved \in DOMAIN txs /\ Suits(r, txs[d.resolved])
    /\ d.status = "PROCESSED" /\ RequiresReference(r.kind) => d.resolved # NONE
    /\ Moves(d) <=> d.status = "PROCESSED" /\ r.kind # "LOSS"
    /\ Moves(d) => d.direction = DirectionFor(r.kind, txs[d.resolved].req.kind)

\* What actors have read and decided is true of the rows as they are now.
OperationDiscipline ==
    \A a \in Calls \cup Workers :
       /\ pc[a] = "listReversals" =>
             /\ ref[a].req.ext = op[a].req.ref
             /\ ref[a].status = "PROCESSED" => txs[ref[a].id].status = "PROCESSED"
       /\ pc[a] \in {"persist", "commit"} => Sensible(op[a].req, dec[a])

-----------------------------------------------------------------------------
(* What Apply says of an operation.                                        *)

\* A decision of Apply, before the tables are looked at.
Decides(r, reference, d) ==
    \/ d.status = "ERROR"
    \/ /\ d.status \in {"PROCESSED", "REJECTED", "PENDING_REFERENCE"}
       /\ d.resolved # NONE =>
             /\ reference # NONE /\ d.resolved = reference.id
             /\ reference.status \notin {"PENDING", "PENDING_REFERENCE", "REJECTED", "FAILED"}
             /\ reference.req.kind \in TargetKinds(r.kind)
             /\ MatchReference(r, reference.req, RequiresReference(r.kind))
       /\ d.status = "PROCESSED" /\ RequiresReference(r.kind) => reference # NONE /\ d.resolved = reference.id
       /\ Moves(d) <=> d.status = "PROCESSED" /\ r.kind # "LOSS"
       /\ Moves(d) => d.direction = DirectionFor(r.kind, reference.req.kind)

LEMMA StopDecides ==
    ASSUME NEW r, NEW reference, NEW kinds, NEW equalAmount,
           NEW stop, stop = ReferenceStop(r, reference, kinds, equalAmount)
    PROVE  IF stop = NONE
           THEN /\ reference # NONE
                /\ reference.status \notin {"PENDING", "PENDING_REFERENCE", "REJECTED", "FAILED"}
                /\ reference.req.kind \in kinds
                /\ MatchReference(r, reference.req, equalAmount)
           ELSE Decides(r, reference, stop)
<1>1. /\ NONE # Wait /\ NONE # Reject("REFERENCE_UNSUCCESSFUL")
      /\ NONE # Reject("REFERENCE_KIND_INVALID") /\ NONE # Reject("REFERENCE_MISMATCH")
  BY NoneAssumption DEF FailureCodes
<1>2. Decides(r, reference, Wait) /\ \A code : Decides(r, reference, Reject(code))
  BY NoneAssumption DEF Decides, Wait, Reject, Decision, Moves
<1> QED BY <1>1, <1>2 DEF ReferenceStop, Unresolved

LEMMA ApplyDecides ==
    ASSUME NEW w, NEW o, NEW reference, NEW revs
    PROVE  Decides(o.req, reference, Apply(w, o, reference, revs))
<1> DEFINE r == o.req
<1>0. /\ \A code : Invalid(code).status = "ERROR"
      /\ \A code : Decides(r, reference, Reject(code))
  BY NoneAssumption DEF Invalid, Decides, Reject, Decision, Moves
<1>1. /\ \A resolved : Decides(r, reference, Process("CREDIT", resolved))
                       => Decides(r, reference, Credit(w, r, resolved))
      /\ \A code, resolved : Decides(r, reference, Process("DEBIT", resolved))
                             => Decides(r, reference, Debit(w, r, code, resolved))
  <2>1. \A code : Decides(r, reference, Invalid(code))
    BY <1>0 DEF Decides
  <2> QED BY <1>0, <2>1 DEF Credit, Debit
<1>2. CASE r.kind = "BET"
  <2>1. Decides(r, reference, Process("DEBIT", NONE))
    BY <1>2 DEF Decides, Process, Decision, Moves, Directions, DirectionFor, RequiresReference
  <2>2. Apply(w, o, reference, revs) = ApplyBet(w, r) \/ Decides(r, reference, Apply(w, o, reference, revs))
    BY <1>0, <1>2 DEF Apply, Decides
  <2> QED BY <1>0, <1>1, <1>2, <2>1, <2>2 DEF ApplyBet
<1>3. CASE r.kind = "WIN"
  <2> DEFINE stop == ReferenceStop(r, reference, {"BET"}, FALSE)
  <2>1. Decides(r, reference, Process("CREDIT", NONE))
    BY <1>3 DEF Decides, Process, Decision, Moves, Directions, DirectionFor, RequiresReference
  <2>0. stop = NONE => /\ reference # NONE
                       /\ reference.status \notin {"PENDING", "PENDING_REFERENCE", "REJECTED", "FAILED"}
                       /\ reference.req.kind \in {"BET"}
                       /\ MatchReference(r, reference.req, FALSE)
    BY StopDecides
  <2>2. stop = NONE => Decides(r, reference, Process("CREDIT", reference.id))
    BY <1>3, <2>0 DEF Decides, Process, Decision, Moves, Directions, DirectionFor,
       RequiresReference, TargetKinds, MatchReference
  <2>3. stop # NONE => Decides(r, reference, stop)
    BY <1>3, StopDecides
  <2>4. Apply(w, o, reference, revs) = ApplyWin(w, r, reference)
        \/ Decides(r, reference, Apply(w, o, reference, revs))
    BY <1>0, <1>3 DEF Apply, Decides
  <2> HIDE DEF stop
  <2>5. Decides(r, reference, ApplyWin(w, r, reference))
    BY <1>1, <2>1, <2>2, <2>3 DEF ApplyWin, stop
  <2> QED BY <2>4, <2>5
<1>4. CASE r.kind = "LOSS"
  <2>1. Decides(r, reference, ApplyLoss)
    BY <1>4, NoneAssumption DEF ApplyLoss, Decides, Process, Decision, Moves, RequiresReference
  <2> QED BY <1>0, <1>4, <2>1 DEF Apply, Decides
<1>5. CASE r.kind = "REFUND"
  <2> DEFINE stop == ReferenceStop(r, reference, {"BET"}, TRUE)
  <2>0. stop = NONE => /\ reference # NONE
                       /\ reference.status \notin {"PENDING", "PENDING_REFERENCE", "REJECTED", "FAILED"}
                       /\ reference.req.kind \in {"BET"}
                       /\ MatchReference(r, reference.req, TRUE)
    BY StopDecides
  <2>1. stop = NONE => Decides(r, reference, Process("CREDIT", reference.id))
    BY <1>5, <2>0 DEF Decides, Process, Decision, Moves, Directions, DirectionFor,
       RequiresReference, TargetKinds, MatchReference
  <2>2. stop # NONE => Decides(r, reference, stop)
    BY <1>5, StopDecides
  <2>3. Apply(w, o, reference, revs) = ApplyRefund(w, r, reference, revs)
        \/ Decides(r, reference, Apply(w, o, reference, revs))
    BY <1>0, <1>5 DEF Apply, Decides
  <2> HIDE DEF stop
  <2>4. Decides(r, reference, ApplyRefund(w, r, reference, revs))
    BY <1>0, <1>1, <2>1, <2>2 DEF ApplyRefund, stop
  <2> QED BY <2>3, <2>4
<1>6. CASE r.kind = "ROLLBACK"
  <2> DEFINE stop == ReferenceStop(r, reference, {"BET", "WIN", "REFUND"}, TRUE)
  <2>0. stop = NONE => /\ reference # NONE
                       /\ reference.status \notin {"PENDING", "PENDING_REFERENCE", "REJECTED", "FAILED"}
                       /\ reference.req.kind \in {"BET", "WIN", "REFUND"}
                       /\ MatchReference(r, reference.req, TRUE)
    BY StopDecides
  <2>1. /\ stop = NONE /\ reference.req.kind = "BET" => Decides(r, reference, Process("CREDIT", reference.id))
        /\ stop = NONE /\ reference.req.kind # "BET" => Decides(r, reference, Process("DEBIT", reference.id))
    BY <1>6, <2>0 DEF Decides, Process, Decision, Moves, Directions, DirectionFor,
       RequiresReference, TargetKinds, MatchReference
  <2>2. stop # NONE => Decides(r, reference, stop)
    BY <1>6, StopDecides
  <2>3. Apply(w, o, reference, revs) = ApplyRollback(w, r, reference, revs)
        \/ Decides(r, reference, Apply(w, o, reference, revs))
    BY <1>0, <1>6 DEF Apply, Decides
  <2> HIDE DEF stop
  <2>4. Decides(r, reference, ApplyRollback(w, r, reference, revs))
    BY <1>0, <1>1, <2>1, <2>2 DEF ApplyRollback, stop
  <2> QED BY <2>3, <2>4
<1>7. CASE r.kind \notin {"BET", "WIN", "LOSS", "REFUND", "ROLLBACK"}
  BY <1>0, <1>7 DEF Apply, Decides
<1> QED BY <1>2, <1>3, <1>4, <1>5, <1>6, <1>7

-----------------------------------------------------------------------------
(* References.                                                             *)

\* What was true of a decision stays true, because decided rows are final.
LEMMA SensibleStays ==
    ASSUME Inv, [Next]_vars, NEW r, NEW d, Sensible(r, d)
    PROVE  Sensible(r, d)'
<1>1. \A t \in DOMAIN txs : t \in DOMAIN txs' /\ (txs[t].status = "PROCESSED" => txs'[t] = txs[t])
  BY RowsStay DEF Terminal
<1>2. d.resolved # NONE => d.resolved \in DOMAIN txs' /\ txs'[d.resolved] = txs[d.resolved]
  BY <1>1 DEF Sensible, Suits
<1>3. ASSUME Moves(d), d.resolved = NONE
      PROVE  d.direction = DirectionFor(r.kind, txs'[d.resolved].req.kind)
  BY <1>3 DEF Sensible, DirectionFor, RequiresReference
<1> QED BY <1>2, <1>3 DEF Sensible

LEMMA QuietOperation ==
    ASSUME OperationDiscipline, Quiet
    PROVE  OperationDiscipline'
BY DEF OperationDiscipline, Quiet, Deciding, Sensible

LEMMA DecideOperation ==
    ASSUME Inv, OperationDiscipline, NEW a \in Calls \cup Workers,
           pc[a] \in {"findReference", "listReversals"},
           NEW reference \in Row \cup {NONE}, NEW revs, Decide(a, reference, revs),
           reference # NONE =>
             /\ reference.id \in DOMAIN txs /\ reference.req = txs[reference.id].req
             /\ reference.req.ext = op[a].req.ref
             /\ reference.status = "PROCESSED" => txs[reference.id].status = "PROCESSED"
    PROVE  OperationDiscipline'
<1> USE ActorFacts
<1>1. PICK d \in Outcomes(a, reference, revs) :
         IF d.status = "ERROR" THEN Fail(a, d.code)
         ELSE /\ pc' = [pc EXCEPT ![a] = "persist"]
              /\ dec' = [dec EXCEPT ![a] = d]
              /\ ref' = [ref EXCEPT ![a] = NONE]
              /\ UNCHANGED <<wallets, txs, ledger, events, op, walletLock, snap, answer>>
  BY DEF Decide
<1>2. CASE d.status = "ERROR"
  BY <1>1, <1>2, FailQuiet, QuietOperation
<1>3. CASE d.status # "ERROR"
  <2>1. Decides(op[a].req, reference, d)
    <3>1. \A code : Decides(op[a].req, reference, Reject(code))
      BY NoneAssumption DEF Decides, Reject, Decision, Moves
    <3> QED BY <3>1, ApplyDecides DEF Outcomes
  <2>2. reference # NONE => reference.status \in Statuses
    BY DEF Row
  <2>3. d.resolved # NONE => d.resolved \in DOMAIN txs /\ Suits(op[a].req, txs[d.resolved])
    BY <1>3, <2>1, <2>2 DEF Decides, Suits, Statuses, Unresolved, Terminal
  <2>4. d.status = "PROCESSED" /\ RequiresReference(op[a].req.kind) => d.resolved # NONE
    <3>1. reference # NONE => reference.id # NONE
      BY StoreAssumption DEF Row
    <3> QED BY <1>3, <2>1, <3>1 DEF Decides
  <2>5. Moves(d) => d.direction = DirectionFor(op[a].req.kind, txs[d.resolved].req.kind)
    <3>1. CASE op[a].req.kind = "ROLLBACK"
      BY <1>3, <2>1, <3>1 DEF Decides, RequiresReference
    <3>2. CASE op[a].req.kind # "ROLLBACK"
      BY <1>3, <2>1, <3>2 DEF Decides, DirectionFor
    <3> QED BY <3>1, <3>2
  <2>6. Sensible(op[a].req, d)
    BY <1>3, <2>1, <2>3, <2>4, <2>5 DEF Decides, Sensible
  <2>7. \A b \in Calls \cup Workers : b # a =>
           pc'[b] = pc[b] /\ dec'[b] = dec[b] /\ ref'[b] = ref[b]
    BY <1>1, <1>3 DEF Inv, TypeOK, ActorTypeOK
  <2>8. pc'[a] = "persist" /\ dec'[a] = d /\ UNCHANGED <<txs, op>>
    BY <1>1, <1>3 DEF Inv, TypeOK, ActorTypeOK
  <2> QED BY <2>6, <2>7, <2>8 DEF OperationDiscipline, Sensible
<1> QED BY <1>2, <1>3

LEMMA FindReferenceOperation ==
    ASSUME Inv, OperationDiscipline, NEW a \in Calls \cup Workers, FindReference(a)
    PROVE  OperationDiscipline'
<1> USE ActorFacts
<1>1. pc[a] = "findReference"
  BY DEF FindReference
<1>2. CASE Decide(a, NONE, {})
  BY <1>1, <1>2, DecideOperation
<1>3. ASSUME NEW t \in ByExt(op[a].req.provider, op[a].req.ref),
             pc' = [pc EXCEPT ![a] = "listReversals"],
             ref' = [ref EXCEPT ![a] = txs[t]],
             UNCHANGED <<wallets, txs, ledger, events, op, walletLock, snap, dec, answer>>
      PROVE  OperationDiscipline'
  <2>1. t \in DOMAIN txs /\ txs[t].id = t /\ txs[t].req.ext = op[a].req.ref
    BY DEF ByExt, Inv, TypeOK, StoreTypeOK
  <2>2. \A b \in Calls \cup Workers : b # a => pc'[b] = pc[b] /\ ref'[b] = ref[b]
    BY <1>3 DEF Inv, TypeOK, ActorTypeOK
  <2>3. pc'[a] = "listReversals" /\ ref'[a] = txs[t] /\ UNCHANGED <<txs, op, dec>>
    BY <1>3 DEF Inv, TypeOK, ActorTypeOK
  <2> QED BY <2>1, <2>2, <2>3 DEF OperationDiscipline, Sensible
<1> QED BY <1>2, <1>3 DEF FindReference

LEMMA ListReversalsOperation ==
    ASSUME Inv, ReversalDiscipline, OperationDiscipline, NEW a \in Calls \cup Workers, ListReversals(a)
    PROVE  OperationDiscipline'
<1>1. pc[a] = "listReversals" /\ Decide(a, ref[a], ProcessedReversals(ref[a].id))
  BY DEF ListReversals
<1>2. ref[a] \in Row /\ ref[a].id \in DOMAIN txs /\ ref[a].req = txs[ref[a].id].req
  BY <1>1 DEF ReversalDiscipline, Inv, Discipline, DecisionDiscipline
<1> QED BY <1>1, <1>2, DecideOperation DEF OperationDiscipline

LEMMA PersistOperation ==
    ASSUME Inv, OperationDiscipline, NEW a \in Calls \cup Workers, Persist(a)
    PROVE  OperationDiscipline'
<1> USE ActorFacts
<1>1. CASE Fail(a, "CONFLICT") \/ Fail(a, "OPTIMISTIC_LOCK")
  BY <1>1, FailQuiet, QuietOperation
<1>2. CASE pc' = [pc EXCEPT ![a] = "recoverKey"] /\ Forget(a) /\ UNCHANGED <<txs, op>>
  <2>1. Quiet
    BY <1>2 DEF Inv, TypeOK, ActorTypeOK, Quiet, Deciding, Forget
  <2> QED BY <2>1, QuietOperation
<1>3. CASE pc' = [pc EXCEPT ![a] = "commit"] /\ UNCHANGED <<txs, op, ref, dec>>
  <2>1. pc[a] = "persist" /\ pc'[a] = "commit"
    BY <1>3 DEF Persist, Inv, TypeOK, ActorTypeOK
  <2>2. \A b \in Calls \cup Workers : b # a => pc'[b] = pc[b]
    BY <1>3 DEF Inv, TypeOK, ActorTypeOK
  <2> QED BY <1>3, <2>1, <2>2 DEF OperationDiscipline, Sensible
<1> QED BY <1>1, <1>2, <1>3 DEF Persist, Conflict

\* A step that only adds to the tables leaves what the others have in hand true.
LEMMA TablesOperation ==
    ASSUME Inv, ReversalDiscipline, OperationDiscipline, [Next]_vars,
           \A b \in Calls \cup Workers : pc'[b] \in Deciding =>
              pc'[b] = pc[b] /\ ref'[b] = ref[b] /\ dec'[b] = dec[b] /\ op'[b] = op[b]
    PROVE  OperationDiscipline'
<1>1. ASSUME NEW b \in Calls \cup Workers, pc'[b] = "listReversals"
      PROVE  /\ ref'[b].req.ext = op'[b].req.ref
             /\ ref'[b].status = "PROCESSED" => txs'[ref'[b].id].status = "PROCESSED"
  <2>1. pc[b] = "listReversals" /\ ref'[b] = ref[b] /\ op'[b] = op[b]
    BY <1>1 DEF Deciding
  <2>2. ref[b].id \in DOMAIN txs
    BY <2>1 DEF ReversalDiscipline
  <2>3. txs[ref[b].id].status = "PROCESSED" => txs'[ref[b].id].status = "PROCESSED"
    BY <2>2, RowsStay DEF Terminal
  <2> QED BY <2>1, <2>3 DEF OperationDiscipline
<1>2. ASSUME NEW b \in Calls \cup Workers, pc'[b] \in {"persist", "commit"}
      PROVE  Sensible(op[b].req, dec[b])'
  <2>1. pc[b] \in {"persist", "commit"} /\ dec'[b] = dec[b] /\ op'[b] = op[b]
    BY <1>2 DEF Deciding
  <2>2. Sensible(op[b].req, dec[b])
    BY <2>1 DEF OperationDiscipline
  <2>3. \A r, d : Sensible(r, d) => Sensible(r, d)'
    BY SensibleStays
  <2> QED BY <2>1, <2>2, <2>3 DEF Sensible
<1> QED BY <1>1, <1>2 DEF OperationDiscipline

LEMMA CommitOthers ==
    ASSUME Inv, NEW a \in Calls \cup Workers, Commit(a)
    PROVE  \A b \in Calls \cup Workers : pc'[b] \in Deciding =>
              b # a /\ pc'[b] = pc[b] /\ ref'[b] = ref[b] /\ dec'[b] = dec[b] /\ op'[b] = op[b]
BY ActorFacts DEF Commit, Forget, Inv, TypeOK, ActorTypeOK, Deciding

LEMMA OperationNext ==
    Inv /\ ReversalDiscipline /\ OperationDiscipline /\ [Next]_vars => OperationDiscipline'
<1> USE ActorFacts
<1> SUFFICES ASSUME Inv, ReversalDiscipline, OperationDiscipline, [Next]_vars
             PROVE  OperationDiscipline'
  OBVIOUS
<1>1. CASE UNCHANGED vars
  <2>1. Quiet
    BY <1>1 DEF vars, Quiet
  <2> QED BY <2>1, QuietOperation
<1>2. CASE \E o \in Openings : Open(o)
  BY <1>2, TablesOperation DEF Open, local
<1>3. CASE \E c \in Calls, r \in Requests : Submit(c, r)
  BY <1>3, OtherStepsQuiet, QuietOperation
<1>4. CASE \E c \in Calls : CallStep(c)
  BY <1>4, CallStepQuiet, QuietOperation
<1>5. ASSUME NEW a \in Calls \cup Workers, Step(a) PROVE OperationDiscipline'
  <2>1. LockWallet(a) => OperationDiscipline'
    BY OtherStepsQuiet, QuietOperation
  <2>2. Commit(a) => OperationDiscipline'
    BY CommitOthers, TablesOperation
  <2> QED BY <1>5, <2>1, <2>2, FindReferenceOperation, ListReversalsOperation,
             PersistOperation DEF Step
<1>6. CASE \E a \in Workers : (\E t \in DOMAIN txs : Claim(a, t)) \/ LockRow(a)
  BY <1>6, OtherStepsQuiet, QuietOperation
<1>7. CASE \E a \in Auditors : (\E w \in WalletIds : Reconcile(a, w)) \/ LockWallet(a) \/ SumLedger(a)
  BY <1>7, OtherStepsQuiet, QuietOperation
<1>8. CASE \E a \in Actors : Rollback(a)
  BY <1>8, OtherStepsQuiet, QuietOperation
<1>9. CASE Idle
  BY <1>1, <1>9 DEF Idle
<1> QED BY <1>1, <1>2, <1>3, <1>4, <1>5, <1>6, <1>7, <1>8, <1>9 DEF Next

LEMMA OperationInvariant == Spec => []OperationDiscipline
<1>1. Init => OperationDiscipline
  <2> SUFFICES ASSUME Init PROVE OperationDiscipline
    OBVIOUS
  <2>1. \A a \in Calls \cup Workers : pc[a] = "idle"
    BY ActorFacts DEF Init
  <2> QED BY <2>1 DEF OperationDiscipline
<1> QED BY Invariant, ReversalInvariant, <1>1, OperationNext, PTL DEF Spec

\* The rows a commit leaves: its own with its decision, the others as they were.
LEMMA CommitRows ==
    ASSUME Inv, OperationDiscipline, NEW a \in Calls \cup Workers, Commit(a)
    PROVE  LET id == op[a].id
               row == txs'[id]
           IN /\ DOMAIN txs' = DOMAIN txs \cup {id}
              /\ \A t \in DOMAIN txs' \ {id} : txs'[t] = txs[t]
              /\ row.req = op[a].req /\ row.status = dec[a].status /\ row.resolved = dec[a].resolved
              /\ dec[a].status = "PROCESSED" =>
                    row.balance = WalletAfter(wallets[WalletOf(a)], op[a], dec[a]).balance
              /\ id \in DOMAIN txs => op[a] = txs[id] /\ txs[id].status \in Unresolved
              /\ Sensible(op[a].req, dec[a])
<1> DEFINE id == op[a].id
           row == RowAfter(wallets[WalletOf(a)], op[a], dec[a])
<1>1. pc[a] = "commit" /\ op[a] \in Row
  BY InHand DEF Commit
<1>2. /\ txs' = Put(txs, id, row)
      /\ id \in DOMAIN txs => op[a] = txs[id] /\ txs[id].status \in Unresolved
  BY CommitWrites
<1>3. /\ row.req = op[a].req /\ row.status = dec[a].status /\ row.resolved = dec[a].resolved
      /\ dec[a].status = "PROCESSED" =>
            row.balance = WalletAfter(wallets[WalletOf(a)], op[a], dec[a]).balance
  BY <1>1 DEF RowAfter, Row
<1>4. Sensible(op[a].req, dec[a])
  BY <1>1 DEF OperationDiscipline
<1> HIDE DEF id, row
<1>5. DOMAIN txs' = DOMAIN txs \cup {id} /\ \A t \in DOMAIN txs' : txs'[t] = IF t = id THEN row ELSE txs[t]
  BY <1>2 DEF Put
<1> QED BY <1>2, <1>3, <1>4, <1>5 DEF id

\* What ReferencesSound says of a row.
SoundReference(t) ==
    /\ txs[t].status = "PROCESSED" /\ RequiresReference(txs[t].req.kind) => txs[t].resolved # NONE
    /\ txs[t].resolved # NONE =>
          /\ txs[t].resolved \in DOMAIN txs \ {t}
          /\ Suits(txs[t].req, txs[txs[t].resolved])

SoundRows == \A t \in DOMAIN txs : SoundReference(t)

LEMMA SoundNext == Inv /\ OperationDiscipline /\ SoundRows /\ [Next]_vars => SoundRows'
<1> SUFFICES ASSUME Inv, OperationDiscipline, SoundRows, [Next]_vars
             PROVE  \A t \in DOMAIN txs' : SoundReference(t)'
  BY DEF SoundRows
<1>1. \A t \in DOMAIN txs : t \in DOMAIN txs' /\ (txs[t].status = "PROCESSED" => txs'[t] = txs[t])
  BY RowsStay DEF Terminal
<1>2. ASSUME NEW t \in DOMAIN txs, t \in DOMAIN txs', txs'[t] = txs[t]
      PROVE  SoundReference(t)'
  BY <1>1, <1>2 DEF SoundRows, SoundReference, Suits
<1>3. CASE UNCHANGED tables
  BY <1>2, <1>3 DEF tables
<1>4. ASSUME NEW o \in Openings, Open(o), NEW t \in DOMAIN txs' PROVE SoundReference(t)'
  <2>1. OpeningRow(o).resolved = NONE /\ ~RequiresReference(OpeningRow(o).req.kind)
    BY DEF OpeningRow, OpeningRequest, RequiresReference
  <2>2. o.wallet \notin DOMAIN txs
    BY <1>4, StoreAssumption DEF Open, OpenWallet, Inv, TypeOK, StoreTypeOK
  <2>3. \/ t \in DOMAIN txs /\ txs'[t] = txs[t]
        \/ txs'[t] = OpeningRow(o)
    BY <1>4, <2>2 DEF Open, OpenWallet, Put
  <2> QED BY <1>2, <2>1, <2>3 DEF SoundReference
<1>5. ASSUME NEW a \in Calls \cup Workers, Commit(a), NEW t \in DOMAIN txs' PROVE SoundReference(t)'
  <2>1. CASE t # op[a].id
    BY <1>2, <1>5, <2>1, CommitRows
  <2>2. CASE t = op[a].id
    <3>1. /\ txs'[t].req = op[a].req /\ txs'[t].status = dec[a].status
          /\ txs'[t].resolved = dec[a].resolved
          /\ t \in DOMAIN txs => txs[t].status \in Unresolved
          /\ Sensible(op[a].req, dec[a])
      BY <1>5, <2>2, CommitRows
    <3>2. dec[a].resolved # NONE =>
             /\ dec[a].resolved \in DOMAIN txs' \ {t}
             /\ Suits(op[a].req, txs[dec[a].resolved])
             /\ txs'[dec[a].resolved] = txs[dec[a].resolved]
      BY <1>1, <3>1 DEF Sensible, Suits, Unresolved
    <3> QED BY <3>1, <3>2 DEF SoundReference, Sensible, Suits
  <2> QED BY <2>1, <2>2
<1> QED BY <1>3, <1>4, <1>5, TableSteps

\* What a processed operation refers to is, and stays, a processed operation
\* that it may refer to: nothing is undone but what has happened.
THEOREM SoundReferences == Spec => []ReferencesSound
<1>1. Init => SoundRows
  BY DEF Init, StoreInit, SoundRows
<1>2. SoundRows => ReferencesSound
  <2> SUFFICES ASSUME SoundRows, NEW t \in DOMAIN txs, SoundReference(t)
               PROVE  LET row == txs[t]
                          target == txs[row.resolved]
                      IN /\ row.status = "PROCESSED" /\ RequiresReference(row.req.kind) => row.resolved # NONE
                         /\ row.resolved # NONE =>
                               /\ row.resolved \in DOMAIN txs \ {t}
                               /\ target.status = "PROCESSED"
                               /\ target.req.kind \in (CASE row.req.kind = "ROLLBACK" -> {"BET", "WIN", "REFUND"}
                                                         [] OTHER -> {"BET"})
                               /\ target.req.ext = row.req.ref
                               /\ \A f \in {"provider", "player", "wallet", "round", "currency"} :
                                     target.req[f] = row.req[f]
                               /\ RequiresReference(row.req.kind) => target.req.amount = row.req.amount
    BY DEF ReferencesSound, SoundRows
  <2> DEFINE r == txs[t].req
             s == txs[txs[t].resolved].req
  <2>1. ASSUME MatchReference(r, s, RequiresReference(r.kind))
        PROVE  /\ \A f \in {"provider", "player", "wallet", "round", "currency"} : s[f] = r[f]
               /\ RequiresReference(r.kind) => s.amount = r.amount
    BY <2>1 DEF MatchReference
  <2>2. TargetKinds(r.kind) = CASE r.kind = "ROLLBACK" -> {"BET", "WIN", "REFUND"} [] OTHER -> {"BET"}
    BY DEF TargetKinds
  <2> QED BY <2>1, <2>2 DEF SoundReference, Suits
<1> QED BY Invariant, OperationInvariant, <1>1, <1>2, SoundNext, PTL DEF Spec

-----------------------------------------------------------------------------
(* Movements.                                                              *)

\* The i-th entry of wallet w belongs to operation t.
Booked(w, i, t) == w \in DOMAIN wallets /\ i \in 1..Len(ledger[w]) /\ ledger[w][i].tx = t

MustMove(row) == row.status = "PROCESSED" /\ row.req.kind # "LOSS"

\* Entry e is the movement that operation t was processed with.
TellsOf(e, t) ==
    /\ e.amount = txs[t].req.amount
    /\ e.direction = DirectionFor(txs[t].req.kind, txs[txs[t].resolved].req.kind)
    /\ e.after = txs[t].balance

MovedOnce(t) ==
    LET w == txs[t].req.wallet IN
    \E i : /\ Booked(w, i, t)
           /\ TellsOf(ledger[w][i], t)
           /\ \A v, j : Booked(v, j, t) => v = w /\ j = i

\* A booked operation has a decided row, and every row its movements.
MovementRows ==
    /\ \A w, i, t : Booked(w, i, t) => t \in DOMAIN txs /\ MustMove(txs[t])
    /\ \A t \in DOMAIN txs : MustMove(txs[t]) => MovedOnce(t)

\* A movement that is told of a row stays told of it.
LEMMA MovementStays ==
    ASSUME Inv, SoundRows, [Next]_vars, NEW t \in DOMAIN txs, MustMove(txs[t]), NEW e, TellsOf(e, t)
    PROVE  t \in DOMAIN txs' /\ txs'[t] = txs[t] /\ TellsOf(e, t)'
<1>1. \A u \in DOMAIN txs : u \in DOMAIN txs' /\ (txs[u].status = "PROCESSED" => txs'[u] = txs[u])
  BY RowsStay DEF Terminal
<1>2. CASE txs[t].req.kind = "ROLLBACK"
  <2>1. txs[t].resolved \in DOMAIN txs /\ txs[txs[t].resolved].status = "PROCESSED"
    BY <1>2 DEF SoundRows, SoundReference, Suits, MustMove, RequiresReference
  <2> QED BY <1>1, <2>1 DEF TellsOf, MustMove
<1>3. CASE txs[t].req.kind # "ROLLBACK"
  BY <1>1, <1>3 DEF TellsOf, MustMove, DirectionFor
<1> QED BY <1>2, <1>3

\* The entries a commit leaves.
LEMMA CommitBooks ==
    ASSUME Inv, NEW a \in Calls \cup Workers, Commit(a)
    PROVE  LET w == WalletOf(a)
               n == Len(ledger[w])
               entry == EntryFor(wallets[w], op[a], dec[a])
           IN /\ w \in DOMAIN wallets /\ n \in Nat
              /\ ~Moves(dec[a]) => UNCHANGED <<wallets, ledger>>
              /\ Moves(dec[a]) =>
                    /\ \A v, i, t : Booked(v, i, t)' <=>
                          Booked(v, i, t) \/ (v = w /\ i = n + 1 /\ t = op[a].id)
                    /\ \A v, i, t : Booked(v, i, t) => ledger'[v][i] = ledger[v][i]
                    /\ ledger'[w][n + 1] = entry
<1> DEFINE w == WalletOf(a)
           n == Len(ledger[w])
           entry == EntryFor(wallets[w], op[a], dec[a])
<1>1. pc[a] = "commit" /\ w \in DOMAIN wallets /\ snap[a] = wallets[w]
  BY InHand DEF Commit
<1>2. ledger \in [DOMAIN wallets -> Seq(Entry)] /\ ledger[w] \in Seq(Entry) /\ n \in Nat
  BY <1>1 DEF Inv, TypeOK, StoreTypeOK
<1>3. IF Moves(dec[a])
      THEN /\ wallets' = [wallets EXCEPT ![w] = WalletAfter(wallets[w], op[a], dec[a])]
           /\ ledger' = [ledger EXCEPT ![w] = Append(ledger[w], entry)]
      ELSE UNCHANGED <<wallets, ledger>>
  BY <1>1 DEF Commit, PersistApply, WalletOf
<1>4. Moves(dec[a]) => entry \in Entry /\ entry.tx = op[a].id
  <2>1. op[a] \in Row /\ snap[a] \in Wallet
    BY <1>1, InHand
  <2>2. dec[a] \in Decided
        /\ (Moves(dec[a]) => After(snap[a].balance, dec[a].direction, op[a].req.amount) \in Amounts)
    BY <1>1 DEF Inv, Discipline, DecisionDiscipline
  <2>3. Moves(dec[a]) => EntryFor(snap[a], op[a], dec[a]) \in Entry
    BY <2>1, <2>2, WriteTypes
  <2> QED BY <1>1, <2>3 DEF EntryFor
<1> HIDE DEF w, entry
<1>5. ASSUME Moves(dec[a])
      PROVE  /\ DOMAIN wallets' = DOMAIN wallets
             /\ \A v \in DOMAIN wallets : v # w => ledger'[v] = ledger[v]
             /\ ledger'[w] = Append(ledger[w], entry)
  BY <1>1, <1>2, <1>3, <1>5 DEF Inv, TypeOK, StoreTypeOK
<1>6. ASSUME Moves(dec[a])
      PROVE  /\ Len(ledger'[w]) = n + 1
             /\ \A i \in 1..n : ledger'[w][i] = ledger[w][i]
             /\ ledger'[w][n + 1] = entry
  BY <1>2, <1>4, <1>5, <1>6
<1>7. ASSUME Moves(dec[a])
      PROVE  /\ \A v, i, t : Booked(v, i, t)' <=>
                   Booked(v, i, t) \/ (v = w /\ i = n + 1 /\ t = op[a].id)
             /\ \A v, i, t : Booked(v, i, t) => ledger'[v][i] = ledger[v][i]
             /\ ledger'[w][n + 1] = entry
  <2> HIDE DEF n
  <2>1. n = Len(ledger[w])
    BY DEF n
  <2>2. \A i : i \in 1..(n + 1) <=> i \in 1..n \/ i = n + 1
    BY <1>2
  <2>3. ~(n + 1 \in 1..n)
    BY <1>2
  <2>4. \A v, i, t : v # w => (Booked(v, i, t)' <=> Booked(v, i, t))
    BY <1>5, <1>7 DEF Booked
  <2>5. \A v, i, t : v = w => (Booked(v, i, t)' <=> Booked(v, i, t) \/ (i = n + 1 /\ t = op[a].id))
    BY <1>1, <1>4, <1>5, <1>6, <1>7, <2>1, <2>2, <2>3 DEF Booked
  <2>6. ASSUME NEW v, NEW i, NEW t, Booked(v, i, t)
        PROVE  ledger'[v][i] = ledger[v][i]
    BY <1>5, <1>6, <1>7, <2>1, <2>6 DEF Booked
  <2>7. \A v, i, t : Booked(v, i, t)' <=> Booked(v, i, t) \/ (v = w /\ i = n + 1 /\ t = op[a].id)
    BY <2>4, <2>5
  <2> QED BY <1>6, <1>7, <2>6, <2>7
<1> QED BY <1>1, <1>2, <1>3, <1>7 DEF w, entry

\* The entries an opening leaves.
LEMMA OpenBooks ==
    ASSUME Inv, NEW o \in Openings, Open(o)
    PROVE  /\ \A v, i, t : Booked(v, i, t) => ledger'[v][i] = ledger[v][i]
           /\ \/ /\ UNCHANGED txs
                 /\ \A v, i, t : Booked(v, i, t)' <=> Booked(v, i, t)
              \/ /\ txs' = Put(txs, o.wallet, OpeningRow(o))
                 /\ ledger'[o.wallet][1] = OpeningEntry(o)
                 /\ \A v, i, t : Booked(v, i, t)' <=>
                       Booked(v, i, t) \/ (v = o.wallet /\ i = 1 /\ t = o.wallet)
<1> DEFINE id == o.wallet
<1>1. /\ id \notin DOMAIN wallets
      /\ DOMAIN wallets' = DOMAIN wallets \cup {id}
      /\ \/ ledger' = Put(ledger, id, <<>>) /\ UNCHANGED txs
         \/ ledger' = Put(ledger, id, <<OpeningEntry(o)>>) /\ txs' = Put(txs, id, OpeningRow(o))
  BY DEF Open, OpenWallet, Put
<1>2. DOMAIN ledger = DOMAIN wallets
  BY DEF Inv, TypeOK, StoreTypeOK
<1>3. /\ \A v \in DOMAIN wallets : ledger'[v] = ledger[v]
      /\ \/ ledger'[id] = <<>> /\ UNCHANGED txs
         \/ ledger'[id] = <<OpeningEntry(o)>> /\ txs' = Put(txs, id, OpeningRow(o))
  BY <1>1, <1>2 DEF Put
<1>4. OpeningEntry(o).tx = id
  BY DEF OpeningEntry
<1> HIDE DEF id
<1>5. CASE ledger'[id] = <<>> /\ UNCHANGED txs
  BY <1>1, <1>3, <1>5 DEF Booked, id
<1>6. CASE ledger'[id] = <<OpeningEntry(o)>> /\ txs' = Put(txs, id, OpeningRow(o))
  <2>1. Len(ledger'[id]) = 1 /\ ledger'[id][1] = OpeningEntry(o)
    BY <1>6
  <2>2. \A v, i, t : v # id => (Booked(v, i, t)' <=> Booked(v, i, t))
    BY <1>1, <1>3 DEF Booked
  <2>3. \A v, i, t : v = id => ~Booked(v, i, t) /\ (Booked(v, i, t)' <=> i = 1 /\ t = id)
    BY <1>1, <1>4, <2>1 DEF Booked
  <2>4. \A v, i, t : Booked(v, i, t)' <=> Booked(v, i, t) \/ (v = id /\ i = 1 /\ t = id)
    BY <2>2, <2>3
  <2>5. \A v, i, t : Booked(v, i, t) => ledger'[v][i] = ledger[v][i]
    BY <1>3, <2>3 DEF Booked
  <2> QED BY <1>6, <2>1, <2>4, <2>5 DEF id
<1> QED BY <1>3, <1>5, <1>6

\* A row keeps its movement when nothing else is booked for it.
LEMMA MovedOnceStays ==
    ASSUME Inv, SoundRows, MovementRows, [Next]_vars, NEW t \in DOMAIN txs, MustMove(txs[t]),
           \A v, i : Booked(v, i, t) => ledger'[v][i] = ledger[v][i],
           \A v, i : Booked(v, i, t)' <=> Booked(v, i, t)
    PROVE  MovedOnce(t)'
<1>1. PICK w, i, e : /\ w = txs[t].req.wallet /\ e = ledger[w][i]
                     /\ Booked(w, i, t) /\ TellsOf(e, t)
                     /\ \A v, j : Booked(v, j, t) => v = w /\ j = i
  BY DEF MovementRows, MovedOnce
<1>2. txs'[t] = txs[t] /\ TellsOf(e, t)'
  BY <1>1, MovementStays
<1> QED BY <1>1, <1>2 DEF MovedOnce

LEMMA OpenMovement ==
    ASSUME Inv, SoundRows, MovementRows, [Next]_vars, NEW o \in Openings, Open(o)
    PROVE  MovementRows'
<1> DEFINE id == o.wallet
<1>1. \A v, i, t : Booked(v, i, t) => ledger'[v][i] = ledger[v][i]
  BY OpenBooks
<1>2. id \notin DOMAIN txs
  BY StoreAssumption DEF Open, OpenWallet, Inv, TypeOK, StoreTypeOK
<1>3. ASSUME NEW t \in DOMAIN txs, MustMove(txs[t]),
             \A v, i : Booked(v, i, t)' <=> Booked(v, i, t)
      PROVE  MovedOnce(t)'
  BY <1>1, <1>3, MovedOnceStays
<1>4. CASE UNCHANGED txs /\ \A v, i, t : Booked(v, i, t)' <=> Booked(v, i, t)
  BY <1>3, <1>4 DEF MovementRows
<1>5. CASE /\ txs' = Put(txs, id, OpeningRow(o))
           /\ ledger'[id][1] = OpeningEntry(o)
           /\ \A v, i, t : Booked(v, i, t)' <=> Booked(v, i, t) \/ (v = id /\ i = 1 /\ t = id)
  <2>1. /\ DOMAIN txs' = DOMAIN txs \cup {id} /\ txs'[id] = OpeningRow(o)
        /\ \A t \in DOMAIN txs : txs'[t] = txs[t]
    BY <1>2, <1>5 DEF Put
  <2>2. MustMove(OpeningRow(o)) /\ OpeningRow(o).req.wallet = id
    BY DEF MustMove, OpeningRow, OpeningRequest
  <2>3. TellsOf(ledger[id][1], id)'
    BY <1>5, <2>1 DEF TellsOf, OpeningRow, OpeningEntry, OpeningRequest, DirectionFor
  <2>4. \A v, i : ~Booked(v, i, id)
    BY <1>2 DEF MovementRows
  <2>5. MovedOnce(id)'
    <3>1. txs'[id].req.wallet = id /\ Booked(id, 1, id)'
      BY <1>5, <2>1, <2>2
    <3>2. \A v, j : Booked(v, j, id)' => v = id /\ j = 1
      BY <1>5, <2>4
    <3> HIDE DEF id
    <3> QED BY <3>1, <3>2, <2>3 DEF MovedOnce
  <2>6. \A t \in DOMAIN txs : t # id
    BY <1>2
  <2> QED BY <1>3, <1>5, <2>1, <2>2, <2>5, <2>6 DEF MovementRows
<1> QED BY <1>4, <1>5, OpenBooks

LEMMA CommitMovement ==
    ASSUME Inv, OperationDiscipline, SoundRows, MovementRows, [Next]_vars,
           NEW a \in Calls \cup Workers, Commit(a)
    PROVE  MovementRows'
<1> DEFINE id == op[a].id
           w == WalletOf(a)
           n == Len(ledger[w])
           entry == EntryFor(wallets[w], op[a], dec[a])
<1>1. /\ DOMAIN txs' = DOMAIN txs \cup {id}
      /\ \A t \in DOMAIN txs' \ {id} : txs'[t] = txs[t]
      /\ txs'[id].req = op[a].req /\ txs'[id].status = dec[a].status
      /\ txs'[id].resolved = dec[a].resolved
      /\ dec[a].status = "PROCESSED" =>
            txs'[id].balance = WalletAfter(wallets[w], op[a], dec[a]).balance
      /\ id \in DOMAIN txs => txs[id].status \in Unresolved
      /\ Sensible(op[a].req, dec[a])
  BY CommitRows
<1>2. /\ w \in DOMAIN wallets /\ n \in Nat
      /\ ~Moves(dec[a]) => UNCHANGED <<wallets, ledger>>
      /\ Moves(dec[a]) =>
            /\ \A v, i, t : Booked(v, i, t)' <=> Booked(v, i, t) \/ (v = w /\ i = n + 1 /\ t = id)
            /\ \A v, i, t : Booked(v, i, t) => ledger'[v][i] = ledger[v][i]
            /\ ledger'[w][n + 1] = entry
  BY CommitBooks
<1>3. MustMove(txs'[id]) <=> Moves(dec[a])
  BY <1>1 DEF Sensible, MustMove
<1>4. \A v, i : ~Booked(v, i, id)
  BY <1>1 DEF MovementRows, MustMove, Unresolved
<1>5. entry.amount = op[a].req.amount /\ entry.direction = dec[a].direction
      /\ entry.after = WalletAfter(wallets[w], op[a], dec[a]).balance
  BY DEF EntryFor
<1>6. w = op[a].req.wallet
  BY DEF WalletOf
<1>7. \A u \in DOMAIN txs : u \in DOMAIN txs' /\ txs'[u].req = txs[u].req
  BY RowsStay
<1> HIDE DEF id, w, n, entry
<1>8. Moves(dec[a]) => dec[a].direction = DirectionFor(op[a].req.kind, txs'[dec[a].resolved].req.kind)
  <2>1. CASE dec[a].resolved \in DOMAIN txs
    BY <1>1, <1>7, <2>1 DEF Sensible
  <2>2. CASE dec[a].resolved \notin DOMAIN txs
    BY <1>1, <2>2 DEF Sensible, RequiresReference, DirectionFor
  <2> QED BY <2>1, <2>2
<1>9. ASSUME Moves(dec[a]), NEW t, t = id PROVE MovedOnce(t)'
  <2>1. dec[a].status = "PROCESSED"
    BY <1>1, <1>9 DEF Sensible
  <2>2. PICK v, i : v = w /\ i = n + 1
    OBVIOUS
  <2>3. v = txs'[t].req.wallet
    BY <1>1, <1>6, <1>9, <2>2
  <2>4. TellsOf(ledger[v][i], t)'
    BY <1>1, <1>2, <1>5, <1>8, <1>9, <2>1, <2>2 DEF TellsOf
  <2>5. Booked(v, i, t)' /\ \A x, j : Booked(x, j, t)' => x = v /\ j = i
    BY <1>2, <1>4, <1>9, <2>2
  <2> QED BY <2>3, <2>4, <2>5 DEF MovedOnce
<1>10. ASSUME NEW t \in DOMAIN txs', t # id, MustMove(txs'[t]) PROVE MovedOnce(t)'
  <2>1. t \in DOMAIN txs /\ MustMove(txs[t])
    BY <1>1, <1>10
  <2>2. \A v, i : Booked(v, i, t) => ledger'[v][i] = ledger[v][i]
    BY <1>2 DEF Booked
  <2>3. \A v, i : Booked(v, i, t)' <=> Booked(v, i, t)
    <3>1. CASE Moves(dec[a])
      BY <1>2, <1>10, <3>1
    <3>2. CASE ~Moves(dec[a])
      BY <1>2, <3>2 DEF Booked
    <3> QED BY <3>1, <3>2
  <2> QED BY <2>1, <2>2, <2>3, MovedOnceStays
<1>11. ASSUME NEW v, NEW i, NEW t, Booked(v, i, t)'
       PROVE  t \in DOMAIN txs' /\ MustMove(txs'[t])
  <2>1. Booked(v, i, t) \/ (Moves(dec[a]) /\ t = id)
    <3>1. CASE Moves(dec[a])
      BY <1>2, <1>11, <3>1
    <3>2. CASE ~Moves(dec[a])
      BY <1>2, <1>11, <3>2 DEF Booked
    <3> QED BY <3>1, <3>2
  <2>2. CASE Booked(v, i, t)
    BY <1>1, <1>4, <2>2 DEF MovementRows
  <2> QED BY <1>1, <1>3, <2>1, <2>2
<1>12. ASSUME NEW t \in DOMAIN txs', MustMove(txs'[t]) PROVE MovedOnce(t)'
  BY <1>3, <1>9, <1>10, <1>12
<1> QED BY <1>11, <1>12 DEF MovementRows

LEMMA MovementNext ==
    Inv /\ OperationDiscipline /\ SoundRows /\ MovementRows /\ [Next]_vars => MovementRows'
<1> SUFFICES ASSUME Inv, OperationDiscipline, SoundRows, MovementRows, [Next]_vars
             PROVE  MovementRows'
  OBVIOUS
<1>1. CASE UNCHANGED tables
  BY <1>1 DEF tables, MovementRows, Booked, MovedOnce, TellsOf
<1> QED BY <1>1, OpenMovement, CommitMovement, TableSteps

LEMMA EntriesBooked ==
    ASSUME NEW t
    PROVE  \A e : e \in EntriesOf(t) <=> \E w, i : e = <<w, i>> /\ Booked(w, i, t)
BY DEF EntriesOf, Booked

LEMMA RowsInvariant == Spec => [](SoundRows /\ MovementRows)
<1>1. Init => SoundRows /\ MovementRows
  BY DEF Init, StoreInit, SoundRows, MovementRows, Booked
<1> QED BY Invariant, OperationInvariant, <1>1, SoundNext, MovementNext, PTL DEF Spec

\* An operation that was processed has moved its wallet once, by its amount and
\* in its direction, whatever was retried, resumed or raced; no other has.
THEOREM MovedExactlyOnce == Spec => []OneMovementPerOperation
<1>1. MovementRows => OneMovementPerOperation
  <2> SUFFICES ASSUME MovementRows, NEW t \in DOMAIN txs
               PROVE  LET row == txs[t]
                          mine == EntriesOf(t)
                      IN IF row.status = "PROCESSED" /\ row.req.kind # "LOSS"
                         THEN /\ Cardinality(mine) = 1
                              /\ \A e \in mine :
                                    LET entry == ledger[e[1]][e[2]] IN
                                    /\ e[1] = row.req.wallet
                                    /\ entry.amount = row.req.amount
                                    /\ entry.direction = DirectionOf(row)
                                    /\ entry.after = row.balance
                         ELSE mine = {}
    BY DEF OneMovementPerOperation
  <2>1. CASE MustMove(txs[t])
    <3>1. PICK w, i : /\ w = txs[t].req.wallet
                      /\ Booked(w, i, t) /\ TellsOf(ledger[w][i], t)
                      /\ \A v, j : Booked(v, j, t) => v = w /\ j = i
      BY <2>1 DEF MovementRows, MovedOnce
    <3>2. EntriesOf(t) = {<<w, i>>}
      BY <3>1, EntriesBooked
    <3>3. Cardinality(EntriesOf(t)) = 1
      BY <3>2, FS_Singleton
    <3>4. DirectionOf(txs[t]) = DirectionFor(txs[t].req.kind, txs[txs[t].resolved].req.kind)
      BY DEF DirectionOf, DirectionFor
    <3> QED BY <2>1, <3>1, <3>2, <3>3, <3>4 DEF MustMove, TellsOf
  <2>2. CASE ~MustMove(txs[t])
    <3>1. EntriesOf(t) = {}
      BY <2>2, EntriesBooked DEF MovementRows
    <3> QED BY <2>2, <3>1 DEF MustMove
  <2> QED BY <2>1, <2>2
<1> QED BY RowsInvariant, <1>1, PTL

-----------------------------------------------------------------------------
(* Events.                                                                 *)

Waits == Event("PendingReference", NONE)

\* What the outbox of a row says after the announcement of its wait, if any.
EndsOf(row) ==
    IF row.status = "REJECTED" THEN {<<Event("Rejected", NONE)>>}
    ELSE IF MustMove(row) THEN {<<Event("Processed", NONE), Event("BalanceChanged", n)>> : n \in Nat}
    ELSE IF row.status = "PROCESSED" THEN {<<Event("Processed", NONE)>>}
    ELSE {}

Story(t) ==
    IF txs[t].status = "PENDING_REFERENCE" THEN events[t] = <<Waits>>
    ELSE \E s \in EndsOf(txs[t]) : events[t] = s \/ events[t] = <<Waits>> \o s

StoryRows == \A t \in DOMAIN txs : Story(t)

LEMMA CommitStory ==
    ASSUME Inv, OperationDiscipline, StoryRows, NEW a \in Calls \cup Workers, Commit(a),
           NEW id, id = op[a].id
    PROVE  Story(id)'
<1> DEFINE w == wallets[WalletOf(a)]
           new == EventsFor(w, op[a], dec[a])
<1>1. pc[a] = "commit" /\ snap[a] = w /\ w \in Wallet /\ op[a] \in Row
  BY InHand DEF Commit
<1>2. /\ txs'[id].req = op[a].req /\ txs'[id].status = dec[a].status
      /\ id \in DOMAIN txs => op[a] = txs[id] /\ txs[id].status \in Unresolved
      /\ Sensible(op[a].req, dec[a])
  BY CommitRows
<1>3. DOMAIN events = DOMAIN txs /\ (id \in DOMAIN txs => events[id] \in Seq(OutboxRow))
  BY DEF Inv, TypeOK, StoreTypeOK
<1>4. events'[id] = OutboxOf(id) \o new
  BY <1>1 DEF Commit, PersistApply, Put
<1>5. \/ id \notin DOMAIN txs /\ op[a].status # "PENDING_REFERENCE" /\ OutboxOf(id) = <<>>
      \/ id \in DOMAIN txs /\ op[a].status = "PENDING_REFERENCE" /\ OutboxOf(id) = <<Waits>>
  <2>1. CASE id \in DOMAIN txs
    <3>1. txs[id].status = "PENDING_REFERENCE"
      BY <1>2, <2>1 DEF StoryRows, Story, EndsOf, MustMove, Unresolved
    <3> QED BY <1>2, <1>3, <2>1, <3>1 DEF StoryRows, Story, OutboxOf
  <2>2. CASE id \notin DOMAIN txs
    <3>1. a \in Calls
      BY <1>1, <2>2, InHand
    <3>2. PICK r \in Requests : op[a] = NewRow(a, r)
      BY <1>1, <3>1 DEF Inv, Discipline, CallDiscipline
    <3>3. op[a].status = "PENDING"
      BY <3>2 DEF NewRow
    <3> QED BY <1>3, <2>2, <3>3 DEF OutboxOf
  <2> QED BY <2>1, <2>2
<1>6. WalletAfter(w, op[a], dec[a]).version \in Nat
  BY <1>1 DEF WalletAfter, Wallet
<1> HIDE DEF w
<1>7. MustMove(txs'[id]) <=> Moves(dec[a])
  BY <1>2 DEF Sensible, MustMove
<1>8. CASE dec[a].status = "PENDING_REFERENCE"
  <2>1. new = IF op[a].status = "PENDING_REFERENCE" THEN <<>> ELSE <<Waits>>
    BY <1>8 DEF EventsFor, Waits
  <2>2. <<>> \o <<Waits>> = <<Waits>> /\ <<Waits>> \o <<>> = <<Waits>>
    OBVIOUS
  <2>3. events'[id] = <<Waits>>
    BY <1>4, <1>5, <2>1, <2>2
  <2> QED BY <1>2, <1>8, <2>3 DEF Story
<1>9. CASE dec[a].status # "PENDING_REFERENCE"
  <2>1. new \in EndsOf(txs'[id])
    BY <1>2, <1>6, <1>7, <1>9 DEF EventsFor, EndsOf, Sensible
  <2>2. <<>> \o new = new
    BY <1>9, <1>2 DEF EventsFor, Sensible
  <2> HIDE DEF new
  <2> QED BY <1>2, <1>4, <1>5, <1>9, <2>1, <2>2 DEF Story
<1> QED BY <1>8, <1>9

LEMMA StoryNext == Inv /\ OperationDiscipline /\ StoryRows /\ [Next]_vars => StoryRows'
<1> SUFFICES ASSUME Inv, OperationDiscipline, StoryRows, [Next]_vars
             PROVE  \A t \in DOMAIN txs' : Story(t)'
  BY DEF StoryRows
<1>1. ASSUME NEW t \in DOMAIN txs, txs'[t] = txs[t], events'[t] = events[t]
      PROVE  Story(t)'
  BY <1>1 DEF StoryRows, Story
<1>2. CASE UNCHANGED tables
  BY <1>1, <1>2 DEF tables
<1>3. ASSUME NEW o \in Openings, Open(o), NEW t \in DOMAIN txs' PROVE Story(t)'
  <2>1. \/ t \in DOMAIN txs /\ UNCHANGED <<txs, events>>
        \/ /\ txs' = Put(txs, o.wallet, OpeningRow(o))
           /\ events' = Put(events, o.wallet, <<Event("Processed", NONE), Event("BalanceChanged", 1)>>)
    BY <1>3 DEF Open, OpenWallet
  <2>2. DOMAIN events = DOMAIN txs
    BY DEF Inv, TypeOK, StoreTypeOK
  <2>3. \/ t \in DOMAIN txs /\ txs'[t] = txs[t] /\ events'[t] = events[t]
        \/ /\ txs'[t] = OpeningRow(o)
           /\ events'[t] = <<Event("Processed", NONE), Event("BalanceChanged", 1)>>
    BY <2>1, <2>2 DEF Put
  <2>4. MustMove(OpeningRow(o)) /\ OpeningRow(o).status = "PROCESSED"
    BY DEF MustMove, OpeningRow, OpeningRequest
  <2>5. <<Event("Processed", NONE), Event("BalanceChanged", 1)>> \in EndsOf(OpeningRow(o))
    BY <2>4 DEF EndsOf
  <2> QED BY <1>1, <2>3, <2>4, <2>5 DEF Story
<1>4. ASSUME NEW a \in Calls \cup Workers, Commit(a), NEW t \in DOMAIN txs' PROVE Story(t)'
  <2>1. CASE t = op[a].id
    BY <1>4, <2>1, CommitStory
  <2>2. CASE t # op[a].id
    <3>1. t \in DOMAIN txs /\ txs'[t] = txs[t]
      BY <1>4, <2>2, CommitRows
    <3>2. DOMAIN events = DOMAIN txs
      BY DEF Inv, TypeOK, StoreTypeOK
    <3>3. events'[t] = events[t]
      BY <1>4, <2>2, <3>1, <3>2 DEF Commit, PersistApply, Put
    <3> QED BY <1>1, <3>1, <3>3
  <2> QED BY <2>1, <2>2
<1> QED BY <1>2, <1>3, <1>4, TableSteps

LEMMA StoryInvariant == Spec => []StoryRows
<1>1. Init => StoryRows
  BY DEF Init, StoreInit, StoryRows
<1> QED BY Invariant, OperationInvariant, <1>1, StoryNext, PTL DEF Spec

LEMMA ShortSequences ==
    ASSUME NEW x, NEW y, NEW z
    PROVE  /\ <<>> \o <<x>> = <<x>> /\ <<>> \o <<x, y>> = <<x, y>>
           /\ <<x>> \o <<y>> = <<x, y>> /\ <<x>> \o <<y, z>> = <<x, y, z>>
<1> DEFINE S == {x, y, z}
           two == <<x>> \o <<y>>
           three == <<x>> \o <<y, z>>
<1>1. <<>> \o <<x>> = <<x>> /\ <<>> \o <<x, y>> = <<x, y>>
  <2>1. <<x>> \in Seq(S) /\ <<x, y>> \in Seq(S)
    OBVIOUS
  <2> QED BY <2>1, ConcatEmptySeq
<1>2. two \in Seq(S) /\ Len(two) = 2 /\ two[1] = x /\ two[2] = y
  OBVIOUS
<1>3. three \in Seq(S) /\ Len(three) = 3 /\ three[1] = x /\ three[2] = y /\ three[3] = z
  OBVIOUS
<1>4. <<x, y>> \in Seq(S) /\ <<x, y, z>> \in Seq(S)
  OBVIOUS
<1> HIDE DEF S, two, three
<1>5. two = <<x, y>>
  <2>1. \A i \in 1..2 : two[i] = <<x, y>>[i]
    BY <1>2
  <2> QED BY <1>2, <1>4, <2>1, SeqEqual
<1>6. three = <<x, y, z>>
  <2>1. \A i \in 1..3 : three[i] = <<x, y, z>>[i]
    BY <1>3
  <2> QED BY <1>3, <1>4, <2>1, SeqEqual
<1> QED BY <1>1, <1>5, <1>6 DEF two, three

\* The outbox of an operation tells its wait at most once and its outcome once,
\* whatever was retried: the story it would tell if it had run alone.
THEOREM AnnouncedOnce == Spec => []OutcomeAnnouncedOnce
<1>1. StoryRows /\ MovementRows => OutcomeAnnouncedOnce
  <2> DEFINE Kinds(t) == [i \in 1..Len(events[t]) |-> events[t][i].type]
             waited == {<<>>, <<"PendingReference">>}
             Told(t) ==
                CASE txs[t].status = "PENDING_REFERENCE" -> Kinds(t) = <<"PendingReference">>
                  [] txs[t].status = "REJECTED" -> \E p \in waited : Kinds(t) = p \o <<"Rejected">>
                  [] txs[t].status = "PROCESSED" ->
                       \E p \in waited :
                          Kinds(t) = p \o (IF EntriesOf(t) = {} THEN <<"Processed">>
                                           ELSE <<"Processed", "BalanceChanged">>)
                  [] OTHER -> FALSE
  <2> SUFFICES ASSUME StoryRows, MovementRows, NEW t \in DOMAIN txs
               PROVE  Told(t)
    BY DEF OutcomeAnnouncedOnce
  <2>0. PICK kinds : kinds = Kinds(t)
    OBVIOUS
  <2>00. /\ \A x : events[t] = <<x>> => kinds = <<x.type>>
         /\ \A x, y : events[t] = <<x, y>> => kinds = <<x.type, y.type>>
         /\ \A x, y, z : events[t] = <<x, y, z>> => kinds = <<x.type, y.type, z.type>>
    <3>1. ASSUME NEW x, events[t] = <<x>> PROVE kinds = <<x.type>>
      BY <2>0, <3>1
    <3>2. ASSUME NEW x, NEW y, events[t] = <<x, y>> PROVE kinds = <<x.type, y.type>>
      BY <2>0, <3>2
    <3>3. ASSUME NEW x, NEW y, NEW z, events[t] = <<x, y, z>> PROVE kinds = <<x.type, y.type, z.type>>
      BY <2>0, <3>3
    <3> QED BY <3>1, <3>2, <3>3
  <2> HIDE DEF Kinds
  <2>1. CASE txs[t].status = "PENDING_REFERENCE"
    <3>1. kinds = <<"PendingReference">>
      BY <2>1, <2>00 DEF StoryRows, Story, Waits, Event
    <3> QED BY <2>0, <2>1, <3>1
  <2>2. ASSUME NEW s, NEW type, s = <<Event(type, NONE)>>,
               events[t] = s \/ events[t] = <<Waits>> \o s
        PROVE  \E p \in waited : kinds = p \o <<type>>
    <3>1. kinds = <<type>> \/ kinds = <<"PendingReference", type>>
      <4>1. <<Waits>> \o <<Event(type, NONE)>> = <<Waits, Event(type, NONE)>>
        BY ShortSequences
      <4>2. Event(type, NONE).type = type /\ Waits.type = "PendingReference"
        BY DEF Event, Waits
      <4> QED BY <2>2, <2>00, <4>1, <4>2
    <3>2. <<>> \o <<type>> = <<type>> /\ <<"PendingReference">> \o <<type>> = <<"PendingReference", type>>
      BY ShortSequences
    <3> QED BY <3>1, <3>2
  <2>3. ASSUME NEW s, NEW n, s = <<Event("Processed", NONE), Event("BalanceChanged", n)>>,
               events[t] = s \/ events[t] = <<Waits>> \o s
        PROVE  \E p \in waited : kinds = p \o <<"Processed", "BalanceChanged">>
    <3> DEFINE x == Event("Processed", NONE)
               y == Event("BalanceChanged", n)
    <3>1. \/ kinds = <<"Processed", "BalanceChanged">>
          \/ kinds = <<"PendingReference", "Processed", "BalanceChanged">>
      <4>1. <<Waits>> \o <<x, y>> = <<Waits, x, y>>
        BY ShortSequences
      <4>2. x.type = "Processed" /\ y.type = "BalanceChanged" /\ Waits.type = "PendingReference"
        BY DEF Event, Waits
      <4> QED BY <2>3, <2>00, <4>1, <4>2
    <3>2. /\ <<>> \o <<"Processed", "BalanceChanged">> = <<"Processed", "BalanceChanged">>
          /\ <<"PendingReference">> \o <<"Processed", "BalanceChanged">>
                = <<"PendingReference", "Processed", "BalanceChanged">>
      BY ShortSequences
    <3> QED BY <3>1, <3>2
  <2>4. EntriesOf(t) = {} <=> ~MustMove(txs[t])
    <3>1. MustMove(txs[t]) => \E w, i : Booked(w, i, t)
      BY DEF MovementRows, MovedOnce
    <3> QED BY <3>1, EntriesBooked DEF MovementRows
  <2>5. CASE txs[t].status # "PENDING_REFERENCE"
    <3>1. PICK s \in EndsOf(txs[t]) : events[t] = s \/ events[t] = <<Waits>> \o s
      BY <2>5 DEF StoryRows, Story
    <3>2. CASE txs[t].status = "REJECTED"
      <4>1. s = <<Event("Rejected", NONE)>>
        BY <3>2 DEF EndsOf
      <4>2. \E p \in waited : Kinds(t) = p \o <<"Rejected">>
        BY <2>0, <2>2, <3>1, <4>1
      <4> QED BY <3>2, <4>2
    <3>3. CASE txs[t].status = "PROCESSED" /\ ~MustMove(txs[t])
      <4>1. s = <<Event("Processed", NONE)>>
        BY <3>3 DEF EndsOf
      <4>2. \E p \in waited : Kinds(t) = p \o <<"Processed">>
        BY <2>0, <2>2, <3>1, <4>1
      <4> QED BY <2>4, <3>3, <4>2
    <3>4. CASE MustMove(txs[t])
      <4>1. PICK n : s = <<Event("Processed", NONE), Event("BalanceChanged", n)>>
        BY <3>4 DEF EndsOf, MustMove
      <4>2. \E p \in waited : Kinds(t) = p \o <<"Processed", "BalanceChanged">>
        BY <2>0, <2>3, <3>1, <4>1
      <4> QED BY <2>4, <3>4, <4>2 DEF MustMove
    <3> QED BY <3>2, <3>3, <3>4 DEF EndsOf
  <2> QED BY <2>1, <2>5
<1> QED BY RowsInvariant, StoryInvariant, <1>1, PTL

\* The events of operation t end with a balance change to version n.
EndsAt(t, n) ==
    /\ events[t] # <<>>
    /\ events[t][Len(events[t])] = Event("BalanceChanged", n)
    /\ t \in WalletIds <=> n = 1

VersionRows ==
    /\ \A w, i, t : Booked(w, i, t) => EndsAt(t, wallets[w].version - Len(ledger[w]) + i)
    /\ \A w, i, t : Booked(w, i, t) /\ t \in WalletIds => t = w

LEMMA LastOfBoth ==
    ASSUME NEW S, NEW s \in Seq(S), NEW x \in S, NEW y \in S, NEW u, u = s \o <<x, y>>
    PROVE  u # <<>> /\ u[Len(u)] = y
<1>1. <<x, y>> \in Seq(S) /\ Len(<<x, y>>) = 2 /\ <<x, y>>[2] = y /\ Len(s) \in Nat
  OBVIOUS
<1>2. Len(u) = Len(s) + 2 /\ u[Len(s) + 2] = y
  BY <1>1, ConcatProperties
<1>3. Len(<<>>) = 0
  OBVIOUS
<1> QED BY <1>1, <1>2, <1>3

LEMMA VersionNext ==
    Inv /\ OperationDiscipline /\ MovementRows /\ VersionRows /\ [Next]_vars => VersionRows'
<1> SUFFICES ASSUME Inv, OperationDiscipline, MovementRows, VersionRows, [Next]_vars
             PROVE  VersionRows'
  OBVIOUS
<1>1. CASE UNCHANGED tables
  BY <1>1 DEF tables, VersionRows, Booked, EndsAt
<1>2. \A t \in DOMAIN txs : t \in DOMAIN events
  BY DEF Inv, TypeOK, StoreTypeOK
<1>3. ASSUME NEW o \in Openings, Open(o) PROVE VersionRows'
  <2> DEFINE id == o.wallet
             two == <<Event("Processed", NONE), Event("BalanceChanged", 1)>>
  <2>1. /\ id \notin DOMAIN wallets /\ id \in WalletIds
        /\ \A v \in DOMAIN wallets : wallets'[v] = wallets[v] /\ ledger'[v] = ledger[v]
    BY <1>3, StoreAssumption DEF Open, OpenWallet, Put, Inv, TypeOK, StoreTypeOK
  <2>2. id \notin DOMAIN txs
    BY <2>1, StoreAssumption DEF Inv, TypeOK, StoreTypeOK
  <2>3. \A t \in DOMAIN txs : events'[t] = events[t]
    BY <1>2, <1>3, <2>2 DEF Open, OpenWallet, Put
  <2>4. ASSUME NEW w, NEW i, NEW t, Booked(w, i, t)
        PROVE  EndsAt(t, wallets[w].version - Len(ledger[w]) + i)' /\ (t \in WalletIds => t = w)
    <3>1. t \in DOMAIN txs /\ w \in DOMAIN wallets
      BY <2>4 DEF MovementRows, Booked
    <3> QED BY <2>1, <2>3, <2>4, <3>1 DEF VersionRows, EndsAt
  <2>5. CASE \A v, i, t : Booked(v, i, t)' <=> Booked(v, i, t)
    BY <2>4, <2>5 DEF VersionRows
  <2>6. CASE /\ ledger'[id][1] = OpeningEntry(o) /\ txs' = Put(txs, id, OpeningRow(o))
             /\ \A v, i, t : Booked(v, i, t)' <=> Booked(v, i, t) \/ (v = id /\ i = 1 /\ t = id)
    <3>1. txs' # txs
      BY <2>2, <2>6 DEF Put
    <3>2. events'[id] = two /\ Len(ledger'[id]) = 1 /\ wallets'[id].version = 1
      BY <1>3, <3>1 DEF Open, OpenWallet, Put
    <3>3. two # <<>> /\ two[Len(two)] = Event("BalanceChanged", 1)
      OBVIOUS
    <3>4. EndsAt(id, wallets[id].version - Len(ledger[id]) + 1)'
      BY <2>1, <3>2, <3>3 DEF EndsAt
    <3> QED BY <2>4, <2>6, <3>4 DEF VersionRows
  <2> QED BY <1>3, <2>5, <2>6, OpenBooks
<1>4. ASSUME NEW a \in Calls \cup Workers, Commit(a) PROVE VersionRows'
  <2> DEFINE w == WalletOf(a)
             n == Len(ledger[w])
             id == op[a].id
             after == WalletAfter(wallets[w], op[a], dec[a])
             two == <<Event("Processed", NONE), Event("BalanceChanged", after.version)>>
  <2>1. /\ w \in DOMAIN wallets /\ n \in Nat
        /\ ~Moves(dec[a]) => UNCHANGED <<wallets, ledger>>
        /\ Moves(dec[a]) =>
              /\ \A v, i, t : Booked(v, i, t)' <=> Booked(v, i, t) \/ (v = w /\ i = n + 1 /\ t = id)
              /\ \A v, i, t : Booked(v, i, t) => ledger'[v][i] = ledger[v][i]
    BY <1>4, CommitBooks
  <2>2. /\ pc[a] = "commit" /\ snap[a] = wallets[w] /\ wallets[w] \in Wallet
        /\ id \in Calls /\ id \notin WalletIds
    BY <1>4, InHand, StoreAssumption DEF Commit
  <2>3. /\ id \in DOMAIN txs => txs[id].status \in Unresolved
        /\ Sensible(op[a].req, dec[a])
    BY <1>4, CommitRows
  <2>4. \A v, i : ~Booked(v, i, id)
    BY <2>3 DEF MovementRows, MustMove, Unresolved
  <2>5. \A t \in DOMAIN txs : t # id => events'[t] = events[t]
    BY <1>2, <1>4 DEF Commit, PersistApply, Put
  <2>6. ASSUME NEW v, NEW i, NEW t, Booked(v, i, t) PROVE t # id /\ t \in DOMAIN txs /\ events'[t] = events[t]
    BY <2>4, <2>5, <2>6 DEF MovementRows
  <2>7. CASE ~Moves(dec[a])
    <3>1. \A v, i, t : Booked(v, i, t)' <=> Booked(v, i, t)
      BY <2>1, <2>7 DEF Booked
    <3> QED BY <2>1, <2>6, <2>7, <3>1 DEF VersionRows, EndsAt
  <2>8. CASE Moves(dec[a])
    <3>1. /\ wallets' = [wallets EXCEPT ![w] = after]
          /\ ledger' = [ledger EXCEPT ![w] = Append(ledger[w], EntryFor(wallets[w], op[a], dec[a]))]
          /\ events'[id] = OutboxOf(id) \o EventsFor(wallets[w], op[a], dec[a])
      BY <1>4, <2>2, <2>8 DEF Commit, PersistApply, WalletOf, Put
    <3>2. after.version = wallets[w].version + 1 /\ wallets[w].version \in Nat \ {0}
      BY <2>2, <2>8 DEF WalletAfter, Wallet
    <3>3. EventsFor(wallets[w], op[a], dec[a]) = two
      BY <2>3, <2>8 DEF EventsFor, Sensible
    <3>4. events'[id] # <<>> /\ events'[id][Len(events'[id])] = Event("BalanceChanged", after.version)
      <4>1. OutboxOf(id) \in Seq(OutboxRow)
        BY DEF OutboxOf, Inv, TypeOK, StoreTypeOK
      <4>2. Event("Processed", NONE) \in OutboxRow /\ Event("BalanceChanged", after.version) \in OutboxRow
        BY <3>2 DEF Event, OutboxRow
      <4> QED BY <3>1, <3>3, <4>1, <4>2, LastOfBoth
    <3>5. /\ wallets'[w].version = wallets[w].version + 1
          /\ \A v \in DOMAIN wallets : v # w => wallets'[v] = wallets[v] /\ ledger'[v] = ledger[v]
      BY <2>1, <3>1, <3>2 DEF Inv, TypeOK, StoreTypeOK
    <3>6. Len(ledger'[w]) = n + 1
      BY <2>1, <3>1 DEF Inv, TypeOK, StoreTypeOK
    <3> HIDE DEF w, n, id, after
    <3>7. ASSUME NEW v, NEW i, NEW t, Booked(v, i, t)
          PROVE  EndsAt(t, wallets[v].version - Len(ledger[v]) + i)' /\ (t \in WalletIds => t = v)
      <4>1. EndsAt(t, wallets[v].version - Len(ledger[v]) + i) /\ (t \in WalletIds => t = v)
        BY <3>7 DEF VersionRows
      <4>2. v \in DOMAIN wallets /\ i \in 1..Len(ledger[v])
        BY <3>7 DEF Booked
      <4>3. wallets'[v].version - Len(ledger'[v]) + i = wallets[v].version - Len(ledger[v]) + i
        <5>1. CASE v = w
          <6>1. n = Len(ledger[v]) /\ n \in Nat /\ i \in Nat
            <7>1. n = Len(ledger[v])
              BY <5>1 DEF n
            <7>2. i \in 1..n
              BY <4>2, <7>1
            <7>3. n \in Nat
              BY <2>1
            <7> QED BY <7>1, <7>2, <7>3
          <6>2. wallets'[v].version = wallets[v].version + 1 /\ Len(ledger'[v]) = n + 1
            BY <3>5, <3>6, <5>1
          <6>3. wallets[v].version \in Nat
            BY <3>2, <5>1
          <6>4. \A x, y, j \in Int : (x + 1) - (y + 1) + j = x - y + j
            OBVIOUS
          <6>5. wallets[v].version \in Int /\ n \in Int /\ i \in Int
            BY <6>1, <6>3
          <6>6. (wallets[v].version + 1) - (n + 1) + i = wallets[v].version - n + i
            BY <6>4, <6>5
          <6> QED BY <6>1, <6>2, <6>6
        <5>2. CASE v # w
          BY <3>5, <4>2, <5>2
        <5> QED BY <5>1, <5>2
      <4> QED BY <2>6, <3>7, <4>1, <4>3 DEF EndsAt
    <3>8. ASSUME NEW v, NEW i, NEW t, v = w, i = n + 1, t = id
          PROVE  EndsAt(t, wallets[v].version - Len(ledger[v]) + i)' /\ t \notin WalletIds
      <4>1. wallets'[v].version - Len(ledger'[v]) + i = after.version /\ after.version # 1
        BY <2>1, <3>2, <3>5, <3>6, <3>8
      <4> QED BY <2>2, <3>4, <3>8, <4>1 DEF EndsAt
    <3> QED BY <2>1, <2>8, <3>7, <3>8 DEF VersionRows
  <2> QED BY <2>7, <2>8
<1> QED BY <1>1, <1>3, <1>4, TableSteps

LEMMA VersionInvariant == Spec => []VersionRows
<1>1. Init => VersionRows
  BY DEF Init, StoreInit, VersionRows, Booked
<1> QED BY Invariant, OperationInvariant, RowsInvariant, <1>1, VersionNext, PTL DEF Spec

\* The last event of the operation of the i-th entry carries the wallet version
\* of that entry: a consumer that orders by version rebuilds the ledger.
THEOREM VersionsAnnounced == Spec => []EventsCarryVersions
<1>1. Inv /\ VersionRows => EventsCarryVersions
  <2> SUFFICES ASSUME Inv, VersionRows, NEW w \in DOMAIN wallets, NEW i \in 1..Len(ledger[w]),
                      NEW t, t = ledger[w][i].tx,
                      NEW n, n = wallets[w].version - Len(ledger[w]) + i
               PROVE  /\ events[t] # <<>>
                      /\ events[t][Len(events[t])] = Event("BalanceChanged", n)
                      /\ t = w <=> n = 1
    BY DEF EventsCarryVersions
  <2>1. Booked(w, i, t)
    BY DEF Booked
  <2>2. w \in WalletIds
    BY DEF Inv, TypeOK, StoreTypeOK
  <2> QED BY <2>1, <2>2 DEF VersionRows, EndsAt
<1> QED BY Invariant, VersionInvariant, <1>1, PTL
=============================================================================
