---------------------------- MODULE SerialProofs ----------------------------
(***************************************************************************)
(* Proofs about an operation from its submission to its answer.            *)
(*                                                                         *)
(* Identities: one row per external id and key, answers that name that     *)
(* row, and refusals that are true, after a lost insert race too.          *)
(*                                                                         *)
(* Serial decisions: Wagering implements SerialWagering.  What an actor    *)
(* has in hand between its reads and its commit is still what one          *)
(* indivisible step would find and decide.                                 *)
(*                                                                         *)
(* Funds: money is refused only when the committed wallet has too little   *)
(* or no room for it, and nothing is booked that does not fit.             *)
(***************************************************************************)
EXTENDS OperationProofs, SerialWagering

\* The indexes on identities keep rows apart, those still uncommitted included.
\* An opening row has no identity; its provider is the absent value.
IdentityDiscipline ==
    /\ \A t, u \in DOMAIN txs :
          txs[t].req.provider # NONE /\ SameIdentity(txs[t].req, txs[u].req) => t = u
    /\ \A c \in Calls : pc[c] = "commit" =>
          /\ \A t \in DOMAIN txs : ~SameIdentity(op[c].req, txs[t].req)
          /\ \A b \in Calls \ {c} : pc[b] = "commit" => ~SameIdentity(op[c].req, op[b].req)

\* A refusal of command r with this code is true.
Real(r, code) ==
    /\ code = "IDEMPOTENCY_PAYLOAD_CONFLICT" =>
          \E t \in ByKey(r) : Payload(txs[t].req) # Payload(r)
    /\ code = "DUPLICATE_EXTERNAL_TRANSACTION" =>
          \E t \in ByExt(r.provider, r.ext) : txs[t].req.key # r.key
    /\ code # "CONFLICT"

\* Whoever recovers has lost to a committed row; once the key is ruled out it
\* is the external id that the row shares.
Answered(c) ==
    /\ pc[c] # "done" => answer[c] = Nothing
    /\ answer[c].tag \in {"created", "replay"} => answer[c].tx \in ByKey(op[c].req)
    /\ Real(op[c].req, answer[c].code)
    /\ pc[c] = "recoverKey" => \E t \in DOMAIN txs : SameIdentity(op[c].req, txs[t].req)
    /\ pc[c] = "recoverExt" => ByExt(op[c].req.provider, op[c].req.ext) # {}

AnswerDiscipline == \A c \in Calls : Answered(c)

-----------------------------------------------------------------------------
(* One row per identity.                                                   *)

\* Commands have an identity.
LEMMA CommandIdentity ==
    ASSUME Inv, NEW c \in Calls, pc[c] # "idle"
    PROVE  op[c].req.provider # NONE
<1>1. PICK r \in Requests : op[c] = NewRow(c, r)
  BY DEF Inv, Discipline, CallDiscipline
<1>2. op[c].req = r
  BY <1>1 DEF NewRow
<1> QED BY <1>2, StoreAssumption

\* A step that commits nothing and brings nobody to a commit.
LEMMA IdentityKept ==
    ASSUME IdentityDiscipline, UNCHANGED txs,
           \A c \in Calls : pc'[c] = "commit" => pc[c] = "commit" /\ op'[c] = op[c]
    PROVE  IdentityDiscipline'
BY DEF IdentityDiscipline

LEMMA QuietIdentity ==
    ASSUME IdentityDiscipline, Quiet
    PROVE  IdentityDiscipline'
BY IdentityKept DEF Quiet, Deciding

LEMMA DecideIdentity ==
    ASSUME Inv, IdentityDiscipline, NEW a \in Calls \cup Workers,
           NEW reference, NEW revs, Decide(a, reference, revs)
    PROVE  IdentityDiscipline'
<1> USE ActorFacts
<1>1. PICK d \in Outcomes(a, reference, revs) :
         IF d.status = "ERROR" THEN Fail(a, d.code)
         ELSE pc' = [pc EXCEPT ![a] = "persist"] /\ UNCHANGED <<txs, op>>
  BY DEF Decide
<1>2. CASE d.status = "ERROR"
  BY <1>1, <1>2, FailQuiet, QuietIdentity
<1>3. CASE d.status # "ERROR"
  BY <1>1, <1>3, IdentityKept DEF Inv, TypeOK, ActorTypeOK
<1> QED BY <1>2, <1>3

\* Before it commits a call waits for entries that clash and finds the others.
LEMMA PersistIdentity ==
    ASSUME Inv, IdentityDiscipline, NEW a \in Calls \cup Workers, Persist(a)
    PROVE  IdentityDiscipline'
<1> USE ActorFacts
<1>1. CASE Fail(a, "CONFLICT") \/ Fail(a, "OPTIMISTIC_LOCK")
  BY <1>1, FailQuiet, QuietIdentity
<1>2. CASE pc' = [pc EXCEPT ![a] = "recoverKey"] /\ UNCHANGED <<txs, op>>
  BY <1>2, IdentityKept DEF Inv, TypeOK, ActorTypeOK
<1>3. CASE ~CommittedClash(a) /\ pc' = [pc EXCEPT ![a] = "commit"] /\ UNCHANGED <<txs, op>>
  <2>1. a \in Calls =>
           /\ \A t \in DOMAIN txs : ~SameIdentity(op[a].req, txs[t].req)
           /\ \A b \in Calls \ {a} : pc[b] = "commit" => ~SameIdentity(op[a].req, op[b].req)
    BY <1>3 DEF CommittedClash, Persist, PendingClash
  <2>2. \A b \in Calls : pc'[b] = IF b = a THEN "commit" ELSE pc[b]
    BY <1>3 DEF Inv, TypeOK, ActorTypeOK
  <2> QED BY <1>3, <2>1, <2>2 DEF IdentityDiscipline, SameIdentity
<1> QED BY <1>1, <1>2, <1>3 DEF Persist, Conflict

LEMMA CommitIdentity ==
    ASSUME Inv, IdentityDiscipline, NEW a \in Calls \cup Workers, Commit(a)
    PROVE  IdentityDiscipline'
<1> USE ActorFacts
<1> DEFINE id == op[a].id
           row == RowAfter(wallets[WalletOf(a)], op[a], dec[a])
<1>1. pc[a] = "commit" /\ op[a] \in Row /\ (a \in Calls => id = a)
      /\ (a \in Workers => id \in DOMAIN txs)
  BY InHand DEF Commit
<1>2. /\ txs' = Put(txs, id, row)
      /\ id \in DOMAIN txs => op[a] = txs[id]
  BY CommitWrites
<1>3. row.req = op[a].req
  BY <1>1 DEF RowAfter, Row
<1> HIDE DEF row
<1>4. /\ DOMAIN txs' = DOMAIN txs \cup {id}
      /\ \A t \in DOMAIN txs' : txs'[t].req = IF t = id THEN op[a].req ELSE txs[t].req
  BY <1>2, <1>3 DEF Put
<1>5. id \notin DOMAIN txs =>
         /\ a \in Calls
         /\ \A t \in DOMAIN txs : ~SameIdentity(op[a].req, txs[t].req)
  BY <1>1 DEF IdentityDiscipline
<1>6. ASSUME NEW t \in DOMAIN txs', NEW u \in DOMAIN txs', txs'[t].req.provider # NONE,
             SameIdentity(txs'[t].req, txs'[u].req)
      PROVE  t = u
  <2>1. CASE id \in DOMAIN txs
    BY <1>2, <1>4, <1>6, <2>1 DEF IdentityDiscipline
  <2>2. CASE id \notin DOMAIN txs
    BY <1>4, <1>5, <1>6, <2>2 DEF IdentityDiscipline, SameIdentity
  <2> QED BY <2>1, <2>2
<1>7. \A c \in Calls : pc'[c] = "commit" => c # a /\ pc[c] = "commit" /\ op'[c] = op[c]
  BY DEF Commit, Inv, TypeOK, ActorTypeOK
<1>8. ASSUME NEW c \in Calls, pc'[c] = "commit", NEW t \in DOMAIN txs'
      PROVE  ~SameIdentity(op'[c].req, txs'[t].req)
  <2>1. CASE t \in DOMAIN txs
    BY <1>2, <1>4, <1>7, <1>8, <2>1 DEF IdentityDiscipline
  <2>2. CASE t \notin DOMAIN txs
    BY <1>1, <1>4, <1>5, <1>7, <1>8, <2>2 DEF IdentityDiscipline
  <2> QED BY <2>1, <2>2
<1> QED BY <1>6, <1>7, <1>8 DEF IdentityDiscipline

LEMMA OpenIdentity ==
    ASSUME Inv, IdentityDiscipline, NEW o \in Openings, Open(o)
    PROVE  IdentityDiscipline'
<1> USE ActorFacts
<1>1. UNCHANGED local /\ (UNCHANGED txs \/ txs' = Put(txs, o.wallet, OpeningRow(o)))
  BY DEF Open, OpenWallet
<1>2. OpeningRow(o).req.provider = NONE
  BY DEF OpeningRow, OpeningRequest
<1>3. o.wallet \notin DOMAIN txs
  BY StoreAssumption DEF Open, OpenWallet, Inv, TypeOK, StoreTypeOK
<1>4. CASE UNCHANGED txs
  BY <1>1, <1>4, IdentityKept DEF local
<1>5. CASE txs' = Put(txs, o.wallet, OpeningRow(o))
  <2>1. /\ \A t \in DOMAIN txs' : txs'[t].req.provider # NONE =>
              t \in DOMAIN txs /\ txs'[t] = txs[t]
        /\ \A t \in DOMAIN txs' : t \in DOMAIN txs => txs'[t] = txs[t]
        /\ \A t \in DOMAIN txs' : t \notin DOMAIN txs => txs'[t].req.provider = NONE
    BY <1>2, <1>3, <1>5 DEF Put
  <2>2. \A c \in Calls : pc[c] = "commit" => op[c].req.provider # NONE
    BY CommandIdentity
  <2>3. UNCHANGED <<pc, op>>
    BY <1>1 DEF local
  <2> QED BY <2>1, <2>2, <2>3 DEF IdentityDiscipline, SameIdentity
<1> QED BY <1>1, <1>4, <1>5

LEMMA IdentityNext == Inv /\ IdentityDiscipline /\ [Next]_vars => IdentityDiscipline'
<1> USE ActorFacts
<1> SUFFICES ASSUME Inv, IdentityDiscipline, [Next]_vars PROVE IdentityDiscipline'
  OBVIOUS
<1>1. CASE UNCHANGED vars
  BY <1>1, IdentityKept DEF vars
<1>2. CASE \E o \in Openings : Open(o)
  BY <1>2, OpenIdentity
<1>3. CASE \E c \in Calls, r \in Requests : Submit(c, r)
  BY <1>3, OtherStepsQuiet, QuietIdentity
<1>4. CASE \E c \in Calls : CallStep(c)
  BY <1>4, CallStepQuiet, QuietIdentity
<1>5. ASSUME NEW a \in Calls \cup Workers, Step(a) PROVE IdentityDiscipline'
  <2>1. LockWallet(a) => IdentityDiscipline'
    BY OtherStepsQuiet, QuietIdentity
  <2>2. ListReversals(a) => IdentityDiscipline'
    BY DecideIdentity DEF ListReversals
  <2>3. FindReference(a) => IdentityDiscipline'
    <3>1. ASSUME pc' = [pc EXCEPT ![a] = "listReversals"], UNCHANGED <<txs, op>>
          PROVE  IdentityDiscipline'
      BY <3>1, IdentityKept DEF Inv, TypeOK, ActorTypeOK
    <3> QED BY <3>1, DecideIdentity DEF FindReference
  <2> QED BY <1>5, <2>1, <2>2, <2>3, PersistIdentity, CommitIdentity DEF Step
<1>6. CASE \E a \in Workers : (\E t \in DOMAIN txs : Claim(a, t)) \/ LockRow(a)
  BY <1>6, OtherStepsQuiet, QuietIdentity
<1>7. CASE \E a \in Auditors : (\E w \in WalletIds : Reconcile(a, w)) \/ LockWallet(a) \/ SumLedger(a)
  BY <1>7, OtherStepsQuiet, QuietIdentity
<1>8. CASE \E a \in Actors : Rollback(a)
  BY <1>8, OtherStepsQuiet, QuietIdentity
<1>9. CASE Idle
  BY <1>1, <1>9 DEF Idle
<1> QED BY <1>1, <1>2, <1>3, <1>4, <1>5, <1>6, <1>7, <1>8, <1>9 DEF Next

\* No two committed rows share an external id or a key of one provider, and no
\* call is about to commit one that would.
THEOREM OneRowPerIdentity == Spec => []IdentityDiscipline
<1>1. Init => IdentityDiscipline
  <2> SUFFICES ASSUME Init PROVE IdentityDiscipline
    OBVIOUS
  <2>1. DOMAIN txs = {} /\ \A c \in Calls : pc[c] = "idle"
    BY ActorFacts DEF Init, StoreInit
  <2> QED BY <2>1 DEF IdentityDiscipline
<1> QED BY Invariant, <1>1, IdentityNext, PTL DEF Spec

-----------------------------------------------------------------------------
(* What calls are answered.                                                *)

\* What is asked of a call stays true while it does not move and rows stay.
LEMMA AnsweredKept ==
    ASSUME Inv, [Next]_vars, NEW c \in Calls, Answered(c),
           pc'[c] \in {pc[c]} \cup (Labels \ Recovering), pc[c] = "done" => pc'[c] = "done",
           op'[c] = op[c] \/ pc[c] = "idle", answer'[c] = answer[c]
    PROVE  Answered(c)'
<1> DEFINE r == op[c].req
<1>1. \A t \in DOMAIN txs : t \in DOMAIN txs' /\ txs'[t].req = txs[t].req
  BY RowsStay
<1>2. CASE pc[c] # "done"
  <2>1. answer'[c] = Nothing /\ Nothing.tag = "none" /\ Nothing.code = NONE
    BY <1>2 DEF Answered, Nothing, Answer
  <2>2. Real(op[c].req, NONE)' /\ \A q : Real(q, NONE)'
    BY ActorAssumption DEF Real, ErrorCodes
  <2>3. pc'[c] \in Recovering => pc'[c] = pc[c] /\ op'[c] = op[c]
    BY DEF Recovering
  <2>4. pc'[c] = "recoverKey" => \E t \in DOMAIN txs' : SameIdentity(op'[c].req, txs'[t].req)
    BY <1>1, <2>3 DEF Answered, Recovering
  <2>5. pc'[c] = "recoverExt" => ByExt(op[c].req.provider, op[c].req.ext)' # {}
    BY <1>1, <2>3 DEF Answered, Recovering, ByExt
  <2> QED BY <2>1, <2>2, <2>4, <2>5 DEF Answered
<1>3. CASE pc[c] = "done"
  <2>1. pc'[c] = "done" /\ op'[c] = op[c]
    BY <1>3
  <2>2. answer[c].tag \in {"created", "replay"} => answer'[c].tx \in ByKey(op[c].req)'
    BY <1>1, <2>1 DEF Answered, ByKey
  <2>3. Real(op[c].req, answer[c].code)'
    BY <1>1, <2>1 DEF Answered, Real, ByKey, ByExt
  <2> QED BY <2>1, <2>2, <2>3 DEF Answered
<1> QED BY <1>2, <1>3

\* A transaction that ends answers its call with what it has found.
LEMMA EndAnswered ==
    ASSUME Inv, NEW c \in Calls, NEW reply, End(c, reply),
           reply.tag \in {"created", "replay"} => reply.tx \in ByKey(op[c].req),
           Real(op[c].req, reply.code)
    PROVE  Answered(c)'
<1> USE ActorFacts
<1>1. pc'[c] = "done" /\ answer'[c] = reply /\ UNCHANGED <<op, txs>>
  BY DEF End, tables, Inv, TypeOK, ActorTypeOK
<1> QED BY <1>1 DEF Answered, ByKey, ByExt, Real

\* The codes that say nothing about identities.
PlainCodes == ErrorCodes \ {"IDEMPOTENCY_PAYLOAD_CONFLICT", "DUPLICATE_EXTERNAL_TRANSACTION", "CONFLICT"}

LEMMA FailAnswered ==
    ASSUME Inv, NEW c \in Calls, NEW code, Fail(c, code), Real(op[c].req, code)
    PROVE  Answered(c)'
BY EndAnswered DEF Fail, Answer

LEMMA PlainReal ==
    ASSUME NEW r, NEW code \in PlainCodes \cup {NONE}
    PROVE  Real(r, code)
BY ActorAssumption DEF PlainCodes, ErrorCodes, Real

LEMMA ReplayAnswered ==
    ASSUME Inv, NEW c \in Calls, NEW t \in ByKey(op[c].req), Replay(c, t)
    PROVE  Answered(c)'
BY EndAnswered, PlainReal DEF Replay, Answer

LEMMA ReplayByKeyAnswered ==
    ASSUME Inv, [Next]_vars, NEW c \in Calls, Answered(c), NEW label \in Labels, ReplayByKey(c, label),
           pc[c] # "done",
           label \in Recovering => pc[c] = "recoverKey" /\ label = "recoverExt"
    PROVE  Answered(c)'
<1> USE ActorFacts
<1>1. CASE ByKey(op[c].req) = {} /\ Goto(c, label)
  <2>1. pc'[c] = label /\ op'[c] = op[c] /\ answer'[c] = answer[c] /\ UNCHANGED txs
    BY <1>1 DEF Goto, Inv, TypeOK, ActorTypeOK
  <2>2. CASE label \notin Recovering
    BY <2>1, <2>2, AnsweredKept
  <2>3. CASE label \in Recovering
    <3>1. PICK t \in DOMAIN txs : SameIdentity(op[c].req, txs[t].req)
      BY <2>3 DEF Answered
    <3>2. txs[t].req.provider = op[c].req.provider /\ txs[t].req.ext = op[c].req.ext
      BY <1>1, <3>1 DEF SameIdentity, ByKey
    <3>3. ByExt(op[c].req.provider, op[c].req.ext) # {}
      BY <3>2 DEF ByExt
    <3>4. pc'[c] = "recoverExt" /\ answer[c] = Nothing
      BY <2>1, <2>3 DEF Answered
    <3> QED BY <2>1, <3>3, <3>4 DEF Answered, Real, ByKey, ByExt
  <2> QED BY <2>2, <2>3
<1>2. CASE \E t \in ByKey(op[c].req) : Replay(c, t)
  BY <1>2, ReplayAnswered
<1>3. ASSUME NEW t \in ByKey(op[c].req), Payload(txs[t].req) # Payload(op[c].req),
             Fail(c, "IDEMPOTENCY_PAYLOAD_CONFLICT")
      PROVE  Answered(c)'
  BY <1>3, FailAnswered DEF Real
<1> QED BY <1>1, <1>2, <1>3 DEF ReplayByKey

LEMMA ReplayByExtAnswered ==
    ASSUME Inv, NEW c \in Calls, ReplayByExt(c)
    PROVE  Answered(c)'
<1>1. ASSUME NEW t \in ByExt(op[c].req.provider, op[c].req.ext),
             txs[t].req.key = op[c].req.key, Replay(c, t)
      PROVE  Answered(c)'
  <2>1. t \in ByKey(op[c].req)
    BY <1>1 DEF ByExt, ByKey
  <2> QED BY <1>1, <2>1, ReplayAnswered
<1>2. ASSUME NEW t \in ByExt(op[c].req.provider, op[c].req.ext),
             txs[t].req.key # op[c].req.key, Fail(c, "DUPLICATE_EXTERNAL_TRANSACTION")
      PROVE  Answered(c)'
  BY <1>2, FailAnswered DEF Real
<1> QED BY <1>1, <1>2 DEF ReplayByExt

\* The lookup by external id of a recovery always finds the winner.
LEMMA CallStepAnswered ==
    ASSUME Inv, [Next]_vars, NEW c \in Calls, Answered(c), CallStep(c)
    PROVE  Answered(c)'
<1> USE ActorFacts
<1>1. /\ {"findExt", "lockWallet", "recheckExt", "findReference", "recoverExt"} \subseteq Labels
      /\ {"findExt", "lockWallet", "recheckExt", "findReference"} \cap Recovering = {}
  BY DEF Labels, InTransaction, Locking, Recovering
<1>2. ASSUME NEW label \in {"lockWallet", "findReference"}, Goto(c, label), pc[c] # "done"
      PROVE  Answered(c)'
  BY <1>1, <1>2, AnsweredKept DEF Goto, Inv, TypeOK, ActorTypeOK
<1>3. CASE FindKey(c)
  BY <1>1, <1>3, ReplayByKeyAnswered DEF FindKey
<1>4. CASE FindExt(c)
  BY <1>2, <1>4, ReplayByExtAnswered DEF FindExt
<1>5. CASE RecheckKey(c)
  BY <1>1, <1>5, ReplayByKeyAnswered DEF RecheckKey
<1>6. CASE RecheckExt(c)
  <2>1. Fail(c, "VALIDATION") => Answered(c)'
    BY FailAnswered, PlainReal DEF PlainCodes, ErrorCodes
  <2> QED BY <1>2, <1>6, <2>1, ReplayByExtAnswered DEF RecheckExt
<1>7. CASE RecoverKey(c)
  BY <1>1, <1>7, ReplayByKeyAnswered DEF RecoverKey
<1>8. CASE RecoverExt(c)
  <2>1. ~NoExt(c)
    BY <1>8 DEF RecoverExt, Answered, NoExt
  <2> QED BY <1>8, <2>1, ReplayByExtAnswered DEF RecoverExt
<1> QED BY <1>3, <1>4, <1>5, <1>6, <1>7, <1>8 DEF CallStep

-----------------------------------------------------------------------------
(* The decision, the insert and the commit.                                *)

\* The errors of a decision say nothing about identities.
LEMMA ApplyErrors ==
    ASSUME NEW w, NEW o, NEW reference, NEW revs,
           Apply(w, o, reference, revs).status = "ERROR"
    PROVE  Apply(w, o, reference, revs).code \in PlainCodes
<1> DEFINE r == o.req
<1>1. \A resolved : Credit(w, r, resolved).status = "ERROR" =>
         Credit(w, r, resolved).code \in PlainCodes
  BY DEF Credit, Process, Invalid, Decision, PlainCodes, ErrorCodes
<1>2. \A code, resolved : Debit(w, r, code, resolved).status # "ERROR"
  BY DEF Debit, Process, Reject, Decision
<1>3. \A kinds, equalAmount :
         LET stop == ReferenceStop(r, reference, kinds, equalAmount) IN
         stop # NONE => stop.status # "ERROR"
  BY DEF ReferenceStop, Wait, Reject, Decision
<1>4. \A code : Reject(code).status # "ERROR"
  BY DEF Reject, Decision
<1>5. ApplyBet(w, r).status # "ERROR" /\ ApplyLoss.status # "ERROR"
  BY <1>2 DEF ApplyBet, ApplyLoss, Process, Decision
<1>6. ApplyWin(w, r, reference).status = "ERROR" => ApplyWin(w, r, reference).code \in PlainCodes
  BY <1>1, <1>3 DEF ApplyWin
<1>7. ApplyRefund(w, r, reference, revs).status = "ERROR" =>
         ApplyRefund(w, r, reference, revs).code \in PlainCodes
  BY <1>1, <1>3, <1>4 DEF ApplyRefund
<1>8. ApplyRollback(w, r, reference, revs).status = "ERROR" =>
         ApplyRollback(w, r, reference, revs).code \in PlainCodes
  BY <1>1, <1>2, <1>3, <1>4 DEF ApplyRollback
<1>9. \A code \in {"INVALID_TRANSITION", "AMOUNT", "INVALID_KIND"} :
         Invalid(code).code \in PlainCodes
  BY DEF Invalid, Decision, PlainCodes, ErrorCodes
<1> QED BY <1>4, <1>5, <1>6, <1>7, <1>8, <1>9 DEF Apply

LEMMA DecideAnswered ==
    ASSUME Inv, [Next]_vars, NEW c \in Calls, Answered(c),
           pc[c] \in {"findReference", "listReversals"},
           NEW reference, NEW revs, Decide(c, reference, revs)
    PROVE  Answered(c)'
<1> USE ActorFacts
<1>1. PICK d \in Outcomes(c, reference, revs) :
         IF d.status = "ERROR" THEN Fail(c, d.code)
         ELSE pc' = [pc EXCEPT ![c] = "persist"] /\ UNCHANGED <<op, answer>>
  BY DEF Decide
<1>2. d = Apply(snap[c], op[c], reference, revs)
  BY DEF Outcomes
<1>3. CASE d.status = "ERROR"
  BY <1>1, <1>2, <1>3, ApplyErrors, PlainReal, FailAnswered
<1>4. CASE d.status # "ERROR"
  <2>1. "persist" \in Labels \ Recovering
    BY DEF Labels, InTransaction, Locking, Recovering
  <2> QED BY <1>1, <1>4, <2>1, AnsweredKept DEF Inv, TypeOK, ActorTypeOK
<1> QED BY <1>3, <1>4

\* A conflict is never one of reversals, so there is a row to be found.
LEMMA PersistAnswered ==
    ASSUME Inv, SafetyNetsUnused, [Next]_vars, NEW c \in Calls, Answered(c), Persist(c)
    PROVE  Answered(c)'
<1> USE ActorFacts
<1>1. pc[c] = "persist"
  BY DEF Persist
<1>2. CASE CommittedClash(c) /\ Conflict(c)
  <2>1. PICK t \in DOMAIN txs : SameIdentity(op[c].req, txs[t].req)
    BY <1>1, <1>2 DEF CommittedClash, SafetyNetsUnused
  <2>2. pc'[c] = "recoverKey" /\ UNCHANGED <<txs, op, answer>>
    BY <1>2 DEF Conflict, Inv, TypeOK, ActorTypeOK
  <2>3. answer[c] = Nothing
    BY <1>1 DEF Answered
  <2> QED BY <2>1, <2>2, <2>3 DEF Answered, Real, ByKey, ByExt
<1>3. CASE Fail(c, "OPTIMISTIC_LOCK")
  BY <1>3, PlainReal, FailAnswered DEF PlainCodes, ErrorCodes
<1>4. CASE pc' = [pc EXCEPT ![c] = "commit"] /\ UNCHANGED <<op, answer>>
  <2>1. "commit" \in Labels \ Recovering
    BY DEF Labels, InTransaction, Locking, Recovering
  <2> QED BY <1>1, <1>4, <2>1, AnsweredKept DEF Inv, TypeOK, ActorTypeOK
<1> QED BY <1>2, <1>3, <1>4 DEF Persist

LEMMA CommitAnswered ==
    ASSUME Inv, NEW c \in Calls, Commit(c)
    PROVE  Answered(c)'
<1> USE ActorFacts
<1> DEFINE row == RowAfter(wallets[WalletOf(c)], op[c], dec[c])
<1>1. op[c] \in Row /\ op[c].id = c
  BY InHand DEF Commit
<1>2. txs' = Put(txs, c, row) /\ row.req = op[c].req
  BY <1>1, CommitWrites DEF RowAfter, Row
<1> HIDE DEF row
<1>3. c \in DOMAIN txs' /\ txs'[c].req = op[c].req
  BY <1>2 DEF Put
<1>4. pc'[c] = "done" /\ op'[c] = op[c] /\ answer'[c] = Answer("created", c, NONE)
  BY DEF Commit, Inv, TypeOK, ActorTypeOK
<1>5. c \in ByKey(op[c].req)'
  BY <1>3, <1>4 DEF ByKey
<1>6. \A r : Real(r, NONE)'
  BY ActorAssumption DEF Real, ErrorCodes
<1> QED BY <1>4, <1>5, <1>6 DEF Answered, Answer

-----------------------------------------------------------------------------
(* A step of one actor leaves the others where they are.                   *)

StandsStill(c) == pc'[c] = pc[c] /\ op'[c] = op[c] /\ answer'[c] = answer[c]

LEMMA EndStandsStill ==
    ASSUME Inv, NEW a \in Actors, NEW reply, End(a, reply), NEW c \in Calls \ {a}
    PROVE  StandsStill(c)
BY ActorFacts DEF End, StandsStill, Inv, TypeOK, ActorTypeOK

LEMMA FailStandsStill ==
    ASSUME Inv, NEW a \in Actors, NEW code, Fail(a, code), NEW c \in Calls \ {a}
    PROVE  StandsStill(c)
BY EndStandsStill DEF Fail

LEMMA CallStandsStill ==
    ASSUME Inv, NEW a \in Calls, CallStep(a), NEW c \in Calls \ {a}
    PROVE  StandsStill(c)
<1> USE ActorFacts
<1>1. \A label : Goto(a, label) => StandsStill(c)
  BY DEF Goto, StandsStill, Inv, TypeOK, ActorTypeOK
<1>2. \A t : Replay(a, t) => StandsStill(c)
  BY EndStandsStill DEF Replay
<1>3. \A code : Fail(a, code) => StandsStill(c)
  BY FailStandsStill
<1>4. \A label : ReplayByKey(a, label) => StandsStill(c)
  BY <1>1, <1>2, <1>3 DEF ReplayByKey
<1>5. ReplayByExt(a) => StandsStill(c)
  BY <1>2, <1>3 DEF ReplayByExt
<1> QED BY <1>1, <1>3, <1>4, <1>5 DEF CallStep, FindKey, FindExt, RecheckKey, RecheckExt,
           RecoverKey, RecoverExt

LEMMA StepStandsStill ==
    ASSUME Inv, NEW a \in Calls \cup Workers, Step(a), NEW c \in Calls \ {a}
    PROVE  StandsStill(c)
<1> USE ActorFacts
<1> USE DEF Inv, TypeOK, ActorTypeOK
<1>1. LockWallet(a) => StandsStill(c)
  BY FailStandsStill DEF LockWallet, StandsStill
<1>2. \A reference, revs : Decide(a, reference, revs) => StandsStill(c)
  BY FailStandsStill DEF Decide, StandsStill
<1>3. FindReference(a) \/ ListReversals(a) => StandsStill(c)
  BY <1>2 DEF FindReference, ListReversals, StandsStill
<1>4. Persist(a) => StandsStill(c)
  BY FailStandsStill DEF Persist, Conflict, StandsStill
<1>5. Commit(a) => StandsStill(c)
  BY DEF Commit, StandsStill
<1> QED BY <1>1, <1>3, <1>4, <1>5 DEF Step

LEMMA AnswerNext ==
    Inv /\ SafetyNetsUnused /\ AnswerDiscipline /\ [Next]_vars => AnswerDiscipline'
<1> USE ActorFacts
<1> SUFFICES ASSUME Inv, SafetyNetsUnused, AnswerDiscipline, [Next]_vars, NEW c \in Calls
             PROVE  Answered(c)'
  BY DEF AnswerDiscipline
<1>0. Answered(c) /\ pc[c] \in Labels /\ (StandsStill(c) => Answered(c)')
  BY AnsweredKept DEF AnswerDiscipline, StandsStill, Inv, TypeOK, ActorTypeOK
<1>1. CASE UNCHANGED vars
  BY <1>0, <1>1 DEF vars, StandsStill
<1>2. CASE \E o \in Openings : Open(o)
  BY <1>0, <1>2 DEF Open, local, StandsStill
<1>3. ASSUME NEW b \in Calls, NEW r \in Requests, Submit(b, r) PROVE Answered(c)'
  <2>1. CASE b = c
    <3>1. "findKey" \in Labels \ Recovering
      BY DEF Labels, InTransaction, Recovering
    <3> QED BY <1>0, <1>3, <2>1, <3>1, AnsweredKept DEF Submit, Inv, TypeOK, ActorTypeOK
  <2>2. CASE b # c
    BY <1>0, <1>3, <2>2 DEF Submit, StandsStill, Inv, TypeOK, ActorTypeOK
  <2> QED BY <2>1, <2>2
<1>4. ASSUME NEW b \in Calls, CallStep(b) PROVE Answered(c)'
  BY <1>0, <1>4, CallStepAnswered, CallStandsStill
<1>5. ASSUME NEW a \in Calls \cup Workers, Step(a) PROVE Answered(c)'
  <2>1. CASE a # c
    BY <1>0, <1>5, <2>1, StepStandsStill
  <2>2. CASE a = c /\ LockWallet(c)
    <3>1. Fail(c, "NOT_FOUND") => Answered(c)'
      BY PlainReal, FailAnswered DEF PlainCodes, ErrorCodes
    <3>2. AfterLock(c) \in Labels \ Recovering /\ pc[c] # "done"
      BY <2>2 DEF AfterLock, LockWallet, Labels, InTransaction, Locking, Recovering
    <3>3. pc' = [pc EXCEPT ![c] = AfterLock(c)] /\ UNCHANGED <<op, answer>> => Answered(c)'
      BY <1>0, <3>2, AnsweredKept DEF Inv, TypeOK, ActorTypeOK
    <3> QED BY <2>2, <3>1, <3>3 DEF LockWallet
  <2>3. CASE a = c /\ FindReference(c)
    <3>1. "listReversals" \in Labels \ Recovering
      BY DEF Labels, InTransaction, Locking, Recovering
    <3>2. pc' = [pc EXCEPT ![c] = "listReversals"] /\ UNCHANGED <<op, answer>> => Answered(c)'
      BY <1>0, <2>3, <3>1, AnsweredKept DEF FindReference, Inv, TypeOK, ActorTypeOK
    <3> QED BY <1>0, <2>3, <3>2, DecideAnswered DEF FindReference
  <2>4. CASE a = c /\ ListReversals(c)
    BY <1>0, <2>4, DecideAnswered DEF ListReversals
  <2> QED BY <1>0, <1>5, <2>1, <2>2, <2>3, <2>4, PersistAnswered, CommitAnswered DEF Step
<1>6. ASSUME NEW p \in Workers, (\E t \in DOMAIN txs : Claim(p, t)) \/ LockRow(p) PROVE Answered(c)'
  <2>1. Fail(p, "SKIPPED") => StandsStill(c)
    BY FailStandsStill
  <2> QED BY <1>0, <1>6, <2>1 DEF Claim, LockRow, StandsStill, Inv, TypeOK, ActorTypeOK
<1>7. ASSUME NEW a \in Auditors, (\E w \in WalletIds : Reconcile(a, w)) \/ LockWallet(a) \/ SumLedger(a)
      PROVE  Answered(c)'
  <2>1. LockWallet(a) => StandsStill(c)
    BY FailStandsStill DEF LockWallet, StandsStill, Inv, TypeOK, ActorTypeOK
  <2>2. SumLedger(a) => StandsStill(c)
    BY EndStandsStill DEF SumLedger
  <2>3. \A w : Reconcile(a, w) => StandsStill(c)
    BY DEF Reconcile, StandsStill, Inv, TypeOK, ActorTypeOK
  <2> QED BY <1>0, <1>7, <2>1, <2>2, <2>3
<1>8. ASSUME NEW a \in Actors, Rollback(a) PROVE Answered(c)'
  <2>1. CASE a = c
    BY <1>8, <2>1, PlainReal, EndAnswered DEF Rollback, Answer
  <2>2. CASE a # c
    BY <1>0, <1>8, <2>2, EndStandsStill DEF Rollback
  <2> QED BY <2>1, <2>2
<1>9. CASE Idle
  BY <1>1, <1>9 DEF Idle
<1> QED BY <1>1, <1>2, <1>3, <1>4, <1>5, <1>6, <1>7, <1>8, <1>9 DEF Next

LEMMA AnswerInvariant == Spec => []AnswerDiscipline
<1>1. Init => AnswerDiscipline
  <2> SUFFICES ASSUME Init, NEW c \in Calls PROVE Answered(c)
    BY DEF AnswerDiscipline
  <2>1. pc[c] = "idle" /\ answer[c] = Nothing
    BY ActorFacts DEF Init
  <2>2. Nothing.tag = "none" /\ Nothing.code = NONE
    BY DEF Nothing, Answer
  <2> QED BY <2>1, <2>2, PlainReal DEF Answered
<1> QED BY Invariant, NetsUnused, <1>1, AnswerNext, PTL DEF Spec

\* Every call that is answered with a row, first or by replay, is answered with
\* the only committed row of its provider and key.
THEOREM AnswersAgreed == Spec => []AnswersAgree
<1>1. Inv /\ IdentityDiscipline /\ AnswerDiscipline => AnswersAgree
  <2> SUFFICES ASSUME Inv, IdentityDiscipline, AnswerDiscipline,
                      NEW c \in Calls, answer[c].tag \in {"created", "replay"}
               PROVE  ByKey(op[c].req) = {answer[c].tx}
    BY DEF AnswersAgree
  <2>1. answer[c].tx \in ByKey(op[c].req)
    BY DEF AnswerDiscipline, Answered
  <2>2. pc[c] # "idle"
    BY DEF AnswerDiscipline, Answered, Nothing, Answer
  <2>3. op[c].req.provider # NONE
    BY <2>2, CommandIdentity
  <2>4. \A t, u \in ByKey(op[c].req) : t = u
    BY <2>3 DEF IdentityDiscipline, SameIdentity, ByKey
  <2> QED BY <2>1, <2>4
<1> QED BY Invariant, OneRowPerIdentity, AnswerInvariant, <1>1, PTL

\* A refusal is true whenever it is looked at, and nobody is told of a conflict
\* without being told which: the winner of an insert race is always found.
THEOREM RefusalsReal == Spec => []RefusalsAreReal
<1>1. AnswerDiscipline => RefusalsAreReal
  BY DEF AnswerDiscipline, Answered, Real, RefusalsAreReal
<1> QED BY AnswerInvariant, <1>1, PTL

-----------------------------------------------------------------------------
(* Serial decisions.                                                       *)

\* What a call has shown of its command before it decides.
Admissible(r) == ValidRequest(r) /\ r.wallet \in DOMAIN wallets /\ wallets[r.wallet].player = r.player

AdmissionDiscipline ==
    /\ \A c \in Calls : pc[c] \in {"findReference"} \cup Deciding => Admissible(op[c].req)
    /\ \A t \in Calls \cap DOMAIN txs : txs[t].req.provider # NONE

\* What actor a has in hand is what a single step would find or decide now.  A
\* reference of another wallet may have been decided since it was read.
Grasped(a) ==
    LET r == op[a].req IN
    /\ pc[a] = "listReversals" =>
          LET t == ref[a].id IN
          /\ ref[a] \in Row
          /\ t \in ByExt(r.provider, r.ref)
          /\ ref[a].req = txs[t].req
          /\ r.wallet = txs[t].req.wallet \/ ref[a].status \in Terminal => ref[a] = txs[t]
    /\ pc[a] \in {"persist", "commit"} =>
          \E d \in Verdicts(snap[a], op[a]) :
             \/ dec[a] = d
             \/ a \in Workers /\ d = Wait /\ dec[a] = Reject("REFERENCE_NOT_FOUND")

GraspDiscipline == \A a \in Calls \cup Workers : Grasped(a)

\* No row of wallet v is new or another than before.
Away(v) == \A t \in DOMAIN txs' : txs'[t].req.wallet = v => t \in DOMAIN txs /\ txs'[t] = txs[t]

-----------------------------------------------------------------------------
LEMMA UndecidedReference ==
    ASSUME NEW w, NEW o, NEW reference, reference.status \in Unresolved, NEW revs
    PROVE  Apply(w, o, reference, revs) = Apply(w, o, NONE, {})
<1>1. \A r, kinds, equalAmount :
         /\ ReferenceStop(r, reference, kinds, equalAmount) = Wait
         /\ ReferenceStop(r, NONE, kinds, equalAmount) = Wait
  BY DEF ReferenceStop
<1>2. Wait # NONE
  BY NoneAssumption
<1> QED BY <1>1, <1>2 DEF Apply, ApplyWin, ApplyRefund, ApplyRollback

LEMMA ForeignReference ==
    ASSUME NEW w, NEW o, NEW reference, reference.req.wallet # o.req.wallet, NEW revs
    PROVE  Apply(w, o, reference, revs) = Apply(w, o, reference, {})
<1>1. \A kinds, equalAmount : ReferenceStop(o.req, reference, kinds, equalAmount) # NONE
  BY ReferenceAllowed
<1> QED BY <1>1 DEF Apply, ApplyRefund, ApplyRollback

\* The rows of a wallet that nobody else may commit to keep their reversals.
LEMMA ReversalsStay ==
    ASSUME Inv, ReversalDiscipline, ReversalDiscipline', [Next]_vars, NEW v, Away(v),
           NEW t \in DOMAIN txs, txs[t].req.wallet = v
    PROVE  ProcessedReversals(t)' = ProcessedReversals(t)
<1> DEFINE Reverses(u) == /\ txs[u].resolved = t
                          /\ txs[u].status = "PROCESSED"
                          /\ txs[u].req.kind \in {"REFUND", "ROLLBACK"}
<1>1. ASSUME NEW u \in DOMAIN txs, Reverses(u)
      PROVE  u \in DOMAIN txs' /\ txs'[u] = txs[u]
  BY <1>1, RowsStay DEF Terminal
<1>2. ASSUME NEW u \in DOMAIN txs', Reverses(u)'
      PROVE  u \in DOMAIN txs /\ txs'[u] = txs[u]
  <2>1. txs'[t].req.wallet = v /\ txs'[u].resolved = t
    BY <1>2, RowsStay
  <2>2. txs'[u].req.wallet = v
    BY <1>2, <2>1 DEF ReversalDiscipline, IsReversal, RequiresReference
  <2> QED BY <2>2 DEF Away
<1>3. ASSUME NEW x PROVE x \in ProcessedReversals(t)' <=> x \in ProcessedReversals(t)
  BY <1>1, <1>2 DEF ProcessedReversals
<1> QED BY <1>3

\* A verdict on a row stays one while no row of its wallet changes.
LEMMA VerdictStays ==
    ASSUME Inv, Inv', IdentityDiscipline', ReversalDiscipline, ReversalDiscipline', [Next]_vars,
           NEW w, NEW o, o.req.provider # NONE, Away(o.req.wallet), NEW d \in Verdicts(w, o)
    PROVE  d \in Verdicts(w, o)'
<1> DEFINE r == o.req
           found == ByExt(r.provider, r.ref)
<1>1. \A t \in found : t \in DOMAIN txs /\ txs[t].id = t /\ t \in found'
  BY RowsStay DEF ByExt, Inv, TypeOK, StoreTypeOK
<1>2. \A t \in found' : t \in DOMAIN txs' /\ txs'[t].id = t
  BY DEF ByExt, Inv, TypeOK, StoreTypeOK
<1>3. CASE d = Apply(w, o, NONE, {}) /\ ~\E t \in found : txs[t].req.wallet = r.wallet
  <2>1. ~\E t \in found' : txs'[t].req.wallet = r.wallet
    BY <1>3 DEF Away, ByExt
  <2> QED BY <1>3, <2>1 DEF Verdicts, ReferenceRow
<1>4. ASSUME NEW t \in found, d = Apply(w, o, txs[t], ProcessedReversals(t))
      PROVE  d \in Verdicts(w, o)'
  <2>1. \A revs : txs'[t] = txs[t] /\ revs = ProcessedReversals(t)' /\ d = Apply(w, o, txs[t], revs)
           => d \in Verdicts(w, o)'
    BY <1>1, <1>2 DEF Verdicts, ReferenceRow
  <2>2. CASE txs[t].req.wallet = r.wallet
    <3>1. t \in DOMAIN txs' /\ txs'[t].req.wallet = r.wallet
      BY <1>1, <2>2, RowsStay
    <3>2. txs'[t] = txs[t]
      BY <3>1 DEF Away
    <3>3. ProcessedReversals(t)' = ProcessedReversals(t)
      BY <1>1, <2>2, ReversalsStay
    <3> QED BY <1>4, <2>1, <3>2, <3>3
  <2>3. CASE txs[t].req.wallet # r.wallet /\ txs[t].status \in Terminal
    <3>1. txs'[t] = txs[t]
      BY <1>1, <2>3, RowsStay
    <3>2. PICK revs : revs = ProcessedReversals(t)'
      OBVIOUS
    <3>3. d = Apply(w, o, txs[t], revs)
      BY <1>4, <2>3, ForeignReference
    <3> QED BY <2>1, <3>1, <3>2, <3>3
  <2>4. CASE txs[t].req.wallet # r.wallet /\ txs[t].status \in Unresolved
    <3>1. d = Apply(w, o, NONE, {})
      BY <1>4, <2>4, UndecidedReference
    <3>2. ASSUME NEW u \in found' PROVE txs'[u].req.wallet # r.wallet
      <4>1. t \in found' /\ t \in DOMAIN txs' /\ u \in DOMAIN txs'
        BY <1>1, <1>2
      <4>2. u = t
        BY <3>2, <4>1 DEF IdentityDiscipline, SameIdentity, ByExt
      <4> QED BY <1>1, <2>4, <4>2, RowsStay
    <3> QED BY <3>1, <3>2 DEF Verdicts, ReferenceRow
  <2>5. txs[t].status \in Terminal \cup Unresolved
    BY <1>1 DEF Inv, TypeOK, StoreTypeOK, Row, Statuses
  <2> QED BY <2>2, <2>3, <2>4, <2>5
<1>5. \/ \E t \in found : d = Apply(w, o, txs[t], ProcessedReversals(t))
      \/ d = Apply(w, o, NONE, {}) /\ ~\E t \in found : txs[t].req.wallet = r.wallet
  BY <1>1 DEF Verdicts, ReferenceRow
<1> QED BY <1>3, <1>4, <1>5

\* What actor a has in hand stays what it is while others take their steps.
HandsStay(a) ==
    /\ pc[a] \in Deciding
    /\ pc'[a] = pc[a] \/ (pc[a] = "persist" /\ pc'[a] = "commit")
    /\ op'[a] = op[a] /\ dec'[a] = dec[a]
    /\ pc[a] = "listReversals" => ref'[a] = ref[a]

\* Whoever is about to decide or to write has done so before, or has just read
\* its reference, or has just decided.
LEMMA Hands ==
    ASSUME Inv, [Next]_vars, NEW a \in Calls \cup Workers, pc'[a] \in Deciding
    PROVE  HandsStay(a) \/ FindReference(a) \/ ListReversals(a)
<1> USE ActorFacts
<1>0. Quiet => HandsStay(a)
  BY DEF Quiet, HandsStay
<1>1. UNCHANGED local => HandsStay(a)
  BY DEF local, HandsStay
<1>2. ASSUME NEW b \in Calls \cup Workers, Step(b)
      PROVE  HandsStay(a) \/ FindReference(a) \/ ListReversals(a)
  <2>1. CASE LockWallet(b)
    BY <1>0, <2>1, OtherStepsQuiet
  <2>2. CASE Commit(b)
    BY <2>2, CommitOthers DEF HandsStay
  <2>3. ASSUME b # a, UNCHANGED op, pc' = [pc EXCEPT ![b] = pc'[b]],
               dec' = [dec EXCEPT ![b] = dec'[b]], ref' = [ref EXCEPT ![b] = ref'[b]]
        PROVE  HandsStay(a)
    BY <2>3 DEF HandsStay, Inv, TypeOK, ActorTypeOK
  <2>4. ASSUME b # a, NEW reference, NEW revs, Decide(b, reference, revs) PROVE HandsStay(a)
    BY <1>0, <2>4, FailQuiet DEF Decide, HandsStay, Inv, TypeOK, ActorTypeOK
  <2>5. CASE FindReference(b)
    BY <2>4, <2>5 DEF FindReference, HandsStay, Inv, TypeOK, ActorTypeOK
  <2>6. CASE ListReversals(b)
    BY <2>4, <2>6 DEF ListReversals
  <2>7. CASE Persist(b)
    <3>1. CASE Fail(b, "CONFLICT") \/ Fail(b, "OPTIMISTIC_LOCK")
      BY <1>0, <3>1, FailQuiet
    <3>2. CASE pc' = [pc EXCEPT ![b] = "recoverKey"] /\ Forget(b) /\ UNCHANGED op
      BY <3>2 DEF HandsStay, Forget, Inv, TypeOK, ActorTypeOK, Deciding
    <3>3. CASE pc' = [pc EXCEPT ![b] = "commit"] /\ UNCHANGED <<op, ref, dec>>
      BY <2>7, <3>3 DEF HandsStay, Persist, Inv, TypeOK, ActorTypeOK, Deciding
    <3> QED BY <2>7, <3>1, <3>2, <3>3 DEF Persist, Conflict
  <2> QED BY <1>2, <2>1, <2>2, <2>5, <2>6, <2>7 DEF Step
<1>3. ASSUME NEW o \in Openings, Open(o) PROVE HandsStay(a)
  BY <1>1, <1>3 DEF Open
<1>4. (\E c \in Calls, r \in Requests : Submit(c, r)) \/ (\E c \in Calls : CallStep(c)) => HandsStay(a)
  BY <1>0, OtherStepsQuiet, CallStepQuiet
<1>5. (\E p \in Workers : (\E t \in DOMAIN txs : Claim(p, t)) \/ LockRow(p)) => HandsStay(a)
  BY <1>0, OtherStepsQuiet
<1>6. (\E b \in Auditors : (\E w \in WalletIds : Reconcile(b, w)) \/ LockWallet(b) \/ SumLedger(b))
      => HandsStay(a)
  BY <1>0, OtherStepsQuiet
<1>7. (\E b \in Actors : Rollback(b)) => HandsStay(a)
  BY <1>0, OtherStepsQuiet
<1>8. UNCHANGED vars => HandsStay(a)
  BY <1>1 DEF vars, local
<1> QED BY <1>2, <1>3, <1>4, <1>5, <1>6, <1>7, <1>8 DEF Next, Idle

\* Nobody else changes the wallet, or a row of the wallet, that an actor holds.
LEMMA HeldStays ==
    ASSUME Inv, Inv', [Next]_vars, NEW a \in Calls \cup Workers, HandsStay(a)
    PROVE  Away(WalletOf(a)) /\ snap'[a] = snap[a]
<1> USE ActorFacts
<1>1. PICK w : /\ w = WalletOf(a) /\ w = WalletOf(a)' /\ w \in DOMAIN wallets
               /\ snap[a] = wallets[w] /\ snap'[a] = wallets'[w]
  BY InHand DEF HandsStay, Deciding, WalletOf, Inv, Discipline, LockDiscipline, Locking
<1>2. CASE UNCHANGED tables
  BY <1>1, <1>2 DEF tables, Away
<1>3. ASSUME NEW o \in Openings, Open(o) PROVE Away(w) /\ wallets'[w] = wallets[w]
  <2>1. o.wallet \notin DOMAIN wallets /\ wallets'[w] = wallets[w]
    BY <1>1, <1>3 DEF Open, OpenWallet, Put
  <2>2. o.wallet \notin DOMAIN txs /\ OpeningRow(o).req.wallet # w
    BY <1>1, <2>1, StoreAssumption DEF OpeningRow, OpeningRequest, Inv, TypeOK, StoreTypeOK
  <2> QED BY <1>3, <2>1, <2>2 DEF Open, OpenWallet, Put, Away
<1>4. ASSUME NEW b \in Calls \cup Workers, Commit(b) PROVE Away(w) /\ wallets'[w] = wallets[w]
  <2>1. pc'[a] \in Deciding
    BY DEF HandsStay, Deciding
  <2>2. b # a /\ pc[b] = "commit" /\ pc[a] \in Locking
    BY <1>4, <2>1, CommitOthers DEF Commit, HandsStay, Deciding, Locking
  <2>3. WalletOf(b) # w
    BY <1>1, <2>2, CommitDisjoint
  <2>4. PICK row : txs' = Put(txs, op[b].id, row) /\ row.req = op[b].req
    <3>1. op[b] \in Row
      BY <2>2, InHand
    <3>2. RowAfter(wallets[WalletOf(b)], op[b], dec[b]).req = op[b].req
      BY <3>1 DEF RowAfter, Row
    <3> QED BY <1>4, <3>2, CommitWrites
  <2>5. wallets'[w] = wallets[w]
    BY <1>1, <1>4, <2>3, CommitWrites
  <2>6. row.req.wallet # w
    BY <2>3, <2>4 DEF WalletOf
  <2> QED BY <2>4, <2>5, <2>6 DEF Put, Away
<1> QED BY <1>1, <1>2, <1>3, <1>4, TableSteps DEF tables

-----------------------------------------------------------------------------
(* Admission.                                                              *)

LEMMA ProviderInHand ==
    ASSUME Inv, AdmissionDiscipline, NEW a \in Calls \cup Workers, pc[a] \in {"findReference"} \cup Deciding
    PROVE  op[a].req.provider # NONE
<1>1. CASE a \in Calls
  BY <1>1, CommandIdentity DEF Deciding
<1>2. CASE a \in Workers
  <2>1. op[a].id \in DOMAIN txs /\ op[a] = txs[op[a].id] /\ op[a].id \in Calls
    BY <1>2, InHand DEF Deciding
  <2> QED BY <2>1 DEF AdmissionDiscipline
<1> QED BY <1>1, <1>2

\* A wallet stays, and stays with its player.
LEMMA WalletsStay ==
    ASSUME Inv, [Next]_vars, NEW w \in DOMAIN wallets
    PROVE  w \in DOMAIN wallets' /\ wallets'[w].player = wallets[w].player
<1>1. CASE UNCHANGED tables
  BY <1>1 DEF tables
<1>2. ASSUME NEW o \in Openings, Open(o)
      PROVE  w \in DOMAIN wallets' /\ wallets'[w].player = wallets[w].player
  BY <1>2 DEF Open, OpenWallet, Put
<1>3. ASSUME NEW a \in Calls \cup Workers, Commit(a)
      PROVE  w \in DOMAIN wallets' /\ wallets'[w].player = wallets[w].player
  <2> DEFINE v == WalletOf(a)
             after == WalletAfter(wallets[v], op[a], dec[a])
  <2>1. wallets[v] \in Wallet
    BY <1>3, InHand DEF Commit
  <2>2. after.player = wallets[v].player
    BY <2>1 DEF WalletAfter, Wallet
  <2> HIDE DEF after
  <2>3. wallets' = [wallets EXCEPT ![v] = after] \/ UNCHANGED wallets
    BY <1>3, CommitWrites DEF after
  <2> QED BY <2>2, <2>3
<1> QED BY <1>1, <1>2, <1>3, TableSteps

\* A call comes to look for its reference from its last look at identities.
LEMMA Arrives ==
    ASSUME Inv, [Next]_vars, NEW c \in Calls, pc'[c] = "findReference"
    PROVE  /\ op'[c] = op[c]
           /\ \/ pc[c] = "findReference"
              \/ pc[c] = "recheckExt" /\ snap[c].player = op[c].req.player /\ ValidRequest(op[c].req)
<1> USE ActorFacts
<1> DEFINE Arrived == /\ op'[c] = op[c]
                      /\ \/ pc[c] = "findReference"
                         \/ /\ pc[c] = "recheckExt"
                            /\ snap[c].player = op[c].req.player /\ ValidRequest(op[c].req)
<1> SUFFICES Arrived
  OBVIOUS
<1>0. StandsStill(c) => Arrived
  BY DEF StandsStill
<1>1. \A reply : ~End(c, reply)
  BY DEF End, Inv, TypeOK, ActorTypeOK
<1>2. (\A code : ~Fail(c, code)) /\ (\A t : ~Replay(c, t))
  BY <1>1 DEF Fail, Replay
<1>3. \A label : label # "findReference" => ~Goto(c, label)
  BY DEF Goto, Inv, TypeOK, ActorTypeOK
<1>4. CASE \E b \in Calls : CallStep(b)
  <2>1. CASE \E b \in Calls \ {c} : CallStep(b)
    BY <1>0, <2>1, CallStandsStill
  <2>2. CASE CallStep(c)
    <3>1. CASE RecheckExt(c)
      BY <1>2, <3>1 DEF RecheckExt, ReplayByExt, Goto
    <3>2. CASE ~RecheckExt(c)
      BY <1>2, <1>3, <2>2, <3>2 DEF CallStep, FindKey, FindExt, RecheckKey, RecoverKey, RecoverExt,
         ReplayByKey, ReplayByExt
    <3> QED BY <3>1, <3>2
  <2> QED BY <1>4, <2>1, <2>2
<1>5. CASE \E a \in Calls \cup Workers : Step(a)
  <2>1. CASE \E a \in (Calls \cup Workers) \ {c} : Step(a)
    BY <1>0, <2>1, StepStandsStill
  <2>2. CASE Step(c)
    <3> USE DEF Inv, TypeOK, ActorTypeOK
    <3>1. ~LockWallet(c)
      BY <1>2 DEF LockWallet, AfterLock
    <3>2. \A reference, revs : ~Decide(c, reference, revs)
      BY <1>2 DEF Decide
    <3>3. ~FindReference(c) /\ ~ListReversals(c)
      BY <3>2 DEF FindReference, ListReversals
    <3>4. ~Persist(c)
      BY <1>2 DEF Persist, Conflict
    <3>5. ~Commit(c)
      BY DEF Commit
    <3> QED BY <2>2, <3>1, <3>3, <3>4, <3>5 DEF Step
  <2> QED BY <1>5, <2>1, <2>2
<1>6. CASE UNCHANGED vars \/ \E o \in Openings : Open(o)
  BY <1>0, <1>6 DEF vars, Open, local, StandsStill
<1>7. CASE \E b \in Calls, r \in Requests : Submit(b, r)
  BY <1>0, <1>7 DEF Submit, StandsStill, Inv, TypeOK, ActorTypeOK
<1>8. CASE \E p \in Workers : (\E t \in DOMAIN txs : Claim(p, t)) \/ LockRow(p)
  <2>1. \A p \in Workers : Fail(p, "SKIPPED") => StandsStill(c)
    BY FailStandsStill
  <2> QED BY <1>0, <1>8, <2>1 DEF Claim, LockRow, StandsStill, Inv, TypeOK, ActorTypeOK
<1>9. CASE \E a \in Auditors : (\E w \in WalletIds : Reconcile(a, w)) \/ LockWallet(a) \/ SumLedger(a)
  <2>1. ASSUME NEW a \in Auditors PROVE LockWallet(a) \/ SumLedger(a) => StandsStill(c)
    BY FailStandsStill, EndStandsStill DEF LockWallet, SumLedger, StandsStill, Inv, TypeOK, ActorTypeOK
  <2> QED BY <1>0, <1>9, <2>1 DEF Reconcile, StandsStill, Inv, TypeOK, ActorTypeOK
<1>10. CASE \E a \in Actors : Rollback(a)
  BY <1>0, <1>1, <1>10, EndStandsStill DEF Rollback
<1> QED BY <1>4, <1>5, <1>6, <1>7, <1>8, <1>9, <1>10 DEF Next, Idle

LEMMA AdmissionNext == Inv /\ AdmissionDiscipline /\ [Next]_vars => AdmissionDiscipline'
<1> USE ActorFacts
<1> SUFFICES ASSUME Inv, AdmissionDiscipline, [Next]_vars PROVE AdmissionDiscipline'
  OBVIOUS
<1>1. ASSUME NEW c \in Calls, pc'[c] \in {"findReference"} \cup Deciding
      PROVE  Admissible(op[c].req)'
  <2>1. Admissible(op[c].req) /\ op'[c] = op[c]
    <3>1. CASE pc'[c] = "findReference" /\ pc[c] = "findReference"
      BY <3>1, Arrives DEF AdmissionDiscipline
    <3>2. CASE pc'[c] = "findReference" /\ pc[c] # "findReference"
      <4>1. /\ op'[c] = op[c] /\ pc[c] = "recheckExt"
            /\ snap[c].player = op[c].req.player /\ ValidRequest(op[c].req)
        BY <3>2, Arrives
      <4>2. WalletOf(c) \in DOMAIN wallets /\ snap[c] = wallets[WalletOf(c)]
        BY <4>1 DEF Inv, Discipline, LockDiscipline, Locking
      <4> QED BY <4>1, <4>2 DEF Admissible, WalletOf
    <3>3. CASE pc'[c] \in Deciding
      <4>1. FindReference(c) \/ ListReversals(c) => op'[c] = op[c] /\ pc[c] \in {"findReference"} \cup Deciding
        <5>1. \A reference, revs : Decide(c, reference, revs) => op'[c] = op[c]
          BY DEF Decide, Fail, End, Inv, TypeOK, ActorTypeOK
        <5> QED BY <5>1 DEF FindReference, ListReversals, Deciding
      <4> QED BY <3>3, <4>1, Hands DEF HandsStay, AdmissionDiscipline
    <3> QED BY <1>1, <3>1, <3>2, <3>3
  <2> QED BY <2>1, WalletsStay DEF Admissible
<1>2. ASSUME NEW t \in Calls \cap DOMAIN txs' PROVE txs'[t].req.provider # NONE
  <2>1. CASE t \in DOMAIN txs
    BY <2>1, RowsStay DEF AdmissionDiscipline
  <2>2. ASSUME NEW o \in Openings, Open(o), t \notin DOMAIN txs PROVE FALSE
    BY <2>2, StoreAssumption DEF Open, OpenWallet, Put
  <2>3. ASSUME NEW a \in Calls \cup Workers, Commit(a), t \notin DOMAIN txs
        PROVE  txs'[t].req.provider # NONE
    <3>1. pc[a] = "commit" /\ op[a] \in Row
      BY <2>3, InHand DEF Commit
    <3>2. PICK row : txs' = Put(txs, op[a].id, row) /\ row.req = op[a].req
      <4>1. RowAfter(wallets[WalletOf(a)], op[a], dec[a]).req = op[a].req
        BY <3>1 DEF RowAfter, Row
      <4> QED BY <2>3, <4>1, CommitWrites
    <3>3. t = op[a].id
      BY <2>3, <3>2 DEF Put
    <3>4. txs'[t].req = op[a].req
      BY <3>2, <3>3 DEF Put
    <3>5. op[a].req.provider # NONE
      BY <3>1, ProviderInHand DEF Deciding
    <3> QED BY <3>4, <3>5
  <2> QED BY <2>1, <2>2, <2>3, TableSteps DEF tables
<1> QED BY <1>1, <1>2 DEF AdmissionDiscipline

LEMMA AdmissionInvariant == Spec => []AdmissionDiscipline
<1>1. Init => AdmissionDiscipline
  BY ActorFacts DEF Init, StoreInit, AdmissionDiscipline, Deciding
<1> QED BY Invariant, <1>1, AdmissionNext, PTL DEF Spec

-----------------------------------------------------------------------------
(* What an actor has in hand.                                              *)

\* A verdict as the next state has it.
LEMMA GraspsVerdict ==
    ASSUME NEW a, pc'[a] \in {"persist", "commit"}, NEW w, w = snap'[a], NEW o, o = op'[a],
           NEW d \in Verdicts(w, o)',
           dec'[a] = d \/ (a \in Workers /\ d = Wait /\ dec'[a] = Reject("REFERENCE_NOT_FOUND"))
    PROVE  Grasped(a)'
BY DEF Grasped, Verdicts, ReferenceRow

LEMMA VerdictKept ==
    ASSUME UNCHANGED txs, NEW w, NEW o, NEW d \in Verdicts(w, o)
    PROVE  d \in Verdicts(w, o)'
<1>1. \A t : ProcessedReversals(t)' = ProcessedReversals(t)
  BY DEF ProcessedReversals
<1>2. \A p, x : ByExt(p, x)' = ByExt(p, x)
  BY DEF ByExt
<1> QED BY <1>1, <1>2 DEF Verdicts, ReferenceRow

\* A decision on what one step would find is a verdict.
LEMMA DecideGrasps ==
    ASSUME Inv, NEW a \in Calls \cup Workers, pc'[a] \in Deciding, NEW reference, NEW revs,
           Decide(a, reference, revs),
           Apply(snap[a], op[a], reference, revs) \in Verdicts(snap[a], op[a])
    PROVE  Grasped(a)'
<1> USE ActorFacts
<1>1. PICK d \in Outcomes(a, reference, revs) :
         IF d.status = "ERROR" THEN Fail(a, d.code)
         ELSE /\ pc' = [pc EXCEPT ![a] = "persist"] /\ dec' = [dec EXCEPT ![a] = d]
              /\ UNCHANGED <<txs, op, snap>>
  BY DEF Decide
<1>2. ~Fail(a, d.code)
  BY DEF Fail, End, Deciding, Inv, TypeOK, ActorTypeOK
<1>3. pc'[a] = "persist" /\ dec'[a] = d /\ UNCHANGED <<txs, op, snap>>
  BY <1>1, <1>2 DEF Inv, TypeOK, ActorTypeOK
<1>4. PICK w, o : w = snap[a] /\ o = op[a]
  OBVIOUS
<1>5. PICK verdict : verdict = Apply(w, o, reference, revs) /\ verdict \in Verdicts(w, o)
  BY <1>4
<1>6. verdict \in Verdicts(w, o)'
  BY <1>3, <1>5, VerdictKept
<1>7. d = verdict \/ (a \in Workers /\ verdict = Wait /\ d = Reject("REFERENCE_NOT_FOUND"))
  BY <1>4, <1>5 DEF Outcomes
<1> QED BY <1>3, <1>4, <1>6, <1>7, GraspsVerdict

\* Without a reference to find, the verdict is that of no reference; a reference
\* that was found is the row still, or one that was missed.
LEMMA FindReferenceGrasps ==
    ASSUME Inv, NEW a \in Calls \cup Workers, pc'[a] \in Deciding, FindReference(a)
    PROVE  Grasped(a)'
<1> USE ActorFacts
<1> DEFINE found == ByExt(op[a].req.provider, op[a].req.ref)
<1>1. CASE found = {} /\ Decide(a, NONE, {})
  <2>1. Apply(snap[a], op[a], NONE, {}) \in Verdicts(snap[a], op[a])
    BY <1>1 DEF Verdicts, ReferenceRow
  <2> QED BY <1>1, <2>1, DecideGrasps
<1>2. ASSUME NEW t \in found, pc' = [pc EXCEPT ![a] = "listReversals"],
             ref' = [ref EXCEPT ![a] = txs[t]], UNCHANGED <<txs, op>>
      PROVE  Grasped(a)'
  <2>1. pc'[a] = "listReversals" /\ ref'[a] = txs[t]
    BY <1>2 DEF Inv, TypeOK, ActorTypeOK
  <2>2. t \in DOMAIN txs /\ txs[t] \in Row /\ txs[t].id = t
    BY DEF ByExt, Inv, TypeOK, StoreTypeOK
  <2> QED BY <1>2, <2>1, <2>2 DEF Grasped, ByExt
<1> QED BY <1>1, <1>2 DEF FindReference

LEMMA ListReversalsGrasps ==
    ASSUME Inv, IdentityDiscipline, AdmissionDiscipline, NEW a \in Calls \cup Workers, Grasped(a),
           pc'[a] \in Deciding, ListReversals(a)
    PROVE  Grasped(a)'
<1> USE ActorFacts
<1> DEFINE r == op[a].req
           t == ref[a].id
<1>1. pc[a] = "listReversals" /\ Decide(a, ref[a], ProcessedReversals(t))
  BY DEF ListReversals
<1>2. /\ ref[a] \in Row /\ t \in ByExt(r.provider, r.ref) /\ ref[a].req = txs[t].req
      /\ r.wallet = txs[t].req.wallet \/ ref[a].status \in Terminal => ref[a] = txs[t]
  BY <1>1 DEF Grasped
<1>3. t \in DOMAIN txs /\ txs[t].id = t
  BY <1>2 DEF ByExt, Inv, TypeOK, StoreTypeOK
<1>4. CASE ref[a] = txs[t]
  <2>1. Apply(snap[a], op[a], ref[a], ProcessedReversals(t)) \in Verdicts(snap[a], op[a])
    BY <1>2, <1>3, <1>4 DEF Verdicts, ReferenceRow
  <2> QED BY <1>1, <2>1, DecideGrasps
<1>5. CASE ref[a] # txs[t]
  <2>1. ref[a].status \in Unresolved /\ r.wallet # txs[t].req.wallet
    BY <1>2, <1>5 DEF Row, Statuses
  <2>2. Apply(snap[a], op[a], ref[a], ProcessedReversals(t)) = Apply(snap[a], op[a], NONE, {})
    BY <2>1, UndecidedReference
  <2>3. r.provider # NONE
    BY <1>1, ProviderInHand DEF Deciding
  <2>4. \A u \in ByExt(r.provider, r.ref) : u = t
    BY <1>2, <2>3 DEF IdentityDiscipline, SameIdentity, ByExt
  <2>5. ~\E reference \in ReferenceRow(r) : reference.req.wallet = r.wallet
    BY <2>1, <2>4 DEF ReferenceRow
  <2>6. Apply(snap[a], op[a], NONE, {}) \in Verdicts(snap[a], op[a])
    BY <2>5 DEF Verdicts
  <2> QED BY <1>1, <2>2, <2>6, DecideGrasps
<1> QED BY <1>4, <1>5

\* While others step, the wallet is held: a verdict stays one, and a reference
\* of the wallet, or a decided one, stays the row it was.
LEMMA StayGrasps ==
    ASSUME Inv, Inv', IdentityDiscipline', AdmissionDiscipline,
           ReversalDiscipline, ReversalDiscipline', [Next]_vars,
           NEW a \in Calls \cup Workers, Grasped(a), HandsStay(a)
    PROVE  Grasped(a)'
<1> USE ActorFacts
<1>1. PICK w, o : w = snap[a] /\ w = snap'[a] /\ o = op[a] /\ o = op'[a]
  BY HeldStays DEF HandsStay
<1>2. o.req.provider # NONE /\ Away(o.req.wallet)
  BY <1>1, HeldStays, ProviderInHand DEF HandsStay, WalletOf
<1>3. CASE pc[a] = "listReversals"
  <2>1. pc'[a] = "listReversals" /\ ref'[a] = ref[a]
    BY <1>3 DEF HandsStay
  <2>2. PICK row, t : /\ row = ref[a] /\ row = ref'[a] /\ t = row.id
                      /\ row \in Row /\ t \in ByExt(o.req.provider, o.req.ref)
                      /\ row.req = txs[t].req
                      /\ o.req.wallet = txs[t].req.wallet \/ row.status \in Terminal => row = txs[t]
    BY <1>1, <1>3, <2>1 DEF Grasped
  <2>3. t \in DOMAIN txs /\ t \in DOMAIN txs' /\ txs'[t].req = txs[t].req
        /\ (txs[t].status \in Terminal => txs'[t] = txs[t])
    BY <2>2, RowsStay DEF ByExt
  <2>4. t \in ByExt(o.req.provider, o.req.ref)'
    BY <2>2, <2>3 DEF ByExt
  <2>5. o.req.wallet = txs'[t].req.wallet \/ row.status \in Terminal => row = txs'[t]
    BY <1>2, <2>2, <2>3 DEF Away
  <2> QED BY <1>1, <2>1, <2>2, <2>3, <2>4, <2>5 DEF Grasped, ByExt
<1>4. CASE pc[a] \in {"persist", "commit"}
  <2>1. pc'[a] \in {"persist", "commit"} /\ dec'[a] = dec[a]
    BY <1>4 DEF HandsStay
  <2>2. PICK d \in Verdicts(w, o) :
           dec[a] = d \/ (a \in Workers /\ d = Wait /\ dec[a] = Reject("REFERENCE_NOT_FOUND"))
    BY <1>1, <1>4 DEF Grasped
  <2>3. d \in Verdicts(w, o)'
    BY <1>2, VerdictStays
  <2> QED BY <1>1, <2>1, <2>2, <2>3, GraspsVerdict
<1> QED BY <1>3, <1>4 DEF HandsStay, Deciding

LEMMA GraspNext ==
    /\ Inv /\ IdentityDiscipline /\ AdmissionDiscipline /\ ReversalDiscipline
    /\ GraspDiscipline /\ [Next]_vars
    => GraspDiscipline'
<1> SUFFICES ASSUME Inv, IdentityDiscipline, AdmissionDiscipline, ReversalDiscipline,
                    GraspDiscipline, [Next]_vars, NEW a \in Calls \cup Workers
             PROVE  Grasped(a)'
  BY DEF GraspDiscipline
<1>1. Inv' /\ IdentityDiscipline' /\ ReversalDiscipline'
  BY NextInv, IdentityNext, ReversalNext
<1>2. Grasped(a)
  BY DEF GraspDiscipline
<1>3. CASE pc'[a] \in Deciding
  BY <1>1, <1>2, <1>3, Hands, FindReferenceGrasps, ListReversalsGrasps, StayGrasps
<1>4. CASE pc'[a] \notin Deciding
  BY <1>4 DEF Grasped, Deciding
<1> QED BY <1>3, <1>4

LEMMA GraspInvariant == Spec => []GraspDiscipline
<1>1. Init => GraspDiscipline
  BY ActorFacts DEF Init, GraspDiscipline, Grasped
<1> QED BY Invariant, OneRowPerIdentity, AdmissionInvariant, ReversalInvariant, <1>1, GraspNext, PTL DEF Spec

-----------------------------------------------------------------------------
(* Every step is a step of the serial service.                             *)

LEMMA CommitIsSerial ==
    ASSUME Inv, IdentityDiscipline, AdmissionDiscipline, OperationDiscipline, GraspDiscipline,
           NEW a \in Calls \cup Workers, Commit(a)
    PROVE  SerialNext
<1> USE ActorFacts
<1>1. pc[a] = "commit" /\ PersistApply(op[a], dec[a], snap[a])
  BY DEF Commit
<1>2. /\ op[a] \in Row /\ snap[a] = wallets[op[a].req.wallet] /\ op[a].req.wallet \in DOMAIN wallets
      /\ a \in Calls => a \notin DOMAIN txs
      /\ a \in Workers => op[a].id \in DOMAIN txs /\ op[a] = txs[op[a].id]
      /\ op[a].status \in Unresolved
  BY <1>1, InHand DEF WalletOf
<1>3. dec[a].status # "ERROR"
  BY <1>1 DEF OperationDiscipline, Sensible
<1>4. PICK d \in Verdicts(snap[a], op[a]) :
         dec[a] = d \/ (a \in Workers /\ d = Wait /\ dec[a] = Reject("REFERENCE_NOT_FOUND"))
  BY <1>1 DEF GraspDiscipline, Grasped
<1>5. CASE a \in Calls
  <2>1. PICK r \in Requests : op[a] = NewRow(a, r)
    BY <1>1, <1>5 DEF Inv, Discipline, CallDiscipline
  <2>2. op[a].req = r
    BY <2>1 DEF NewRow
  <2>3. \A t \in DOMAIN txs : ~SameIdentity(r, txs[t].req)
    BY <1>1, <1>5, <2>2 DEF IdentityDiscipline
  <2>4. Admissible(r)
    BY <1>1, <1>5, <2>2 DEF AdmissionDiscipline, Deciding
  <2>5. d \in Verdicts(wallets[r.wallet], NewRow(a, r)) /\ d.status # "ERROR"
        /\ PersistApply(NewRow(a, r), d, wallets[r.wallet])
    BY <1>1, <1>2, <1>3, <1>4, <1>5, <2>1, <2>2
  <2>6. Record(a, r)
    BY <1>2, <1>5, <2>3, <2>4, <2>5 DEF Record, Admissible
  <2> QED BY <1>5, <2>6 DEF SerialNext
<1>6. CASE a \in Workers
  <2>1. PICK t \in DOMAIN txs : t = op[a].id /\ op[a] = txs[t]
    BY <1>2, <1>6
  <2>2. snap[a] = wallets[txs[t].req.wallet] /\ txs[t].status \in Unresolved
    BY <1>2, <2>1
  <2>3. Resume(t)
    BY <1>1, <1>3, <1>4, <2>1, <2>2 DEF Resume
  <2> QED BY <2>3 DEF SerialNext
<1> QED BY <1>5, <1>6

LEMMA StepIsSerial ==
    /\ Inv /\ IdentityDiscipline /\ AdmissionDiscipline /\ OperationDiscipline
    /\ GraspDiscipline /\ [Next]_vars
    => [SerialNext]_tables
<1> SUFFICES ASSUME Inv, IdentityDiscipline, AdmissionDiscipline, OperationDiscipline,
                    GraspDiscipline, [Next]_vars, ~UNCHANGED tables
             PROVE  SerialNext
  OBVIOUS
<1>1. CASE \E o \in Openings : Open(o)
  BY <1>1 DEF Open, SerialNext
<1> QED BY <1>1, TableSteps, CommitIsSerial

\* The concurrent service decides every operation as if in one indivisible step.
THEOREM SerialImplemented == Spec => SerialSpec
<1>1. Init => StoreInit
  BY DEF Init
<1> QED BY Invariant, OneRowPerIdentity, AdmissionInvariant, OperationInvariant, GraspInvariant,
           <1>1, StepIsSerial, PTL DEF Spec, SerialSpec

-----------------------------------------------------------------------------
(* Money is refused only when it does not fit.                             *)

\* Where decision d refuses money, wallet w has too little or no room for it.
Founded(w, r, d) ==
    /\ RejectedForFunds(d) => w.balance < r.amount
    /\ d.status = "ERROR" /\ d.code = "OVERFLOW" => w.balance + r.amount > MaxMinor

LEMMA ApplyFounded ==
    ASSUME NEW w \in Wallet, NEW o \in Row, NEW reference, NEW revs
    PROVE  Founded(w, o.req, Apply(w, o, reference, revs))
<1> DEFINE r == o.req
<1>1. w.balance \in Int /\ r.amount \in Int
  BY RequestTypes, MaxMinorAssumption DEF Wallet, Row, Amounts
<1>2. \A code, resolved : Founded(w, r, Debit(w, r, code, resolved))
  BY <1>1 DEF Debit, After, Process, Reject, Decision, RejectedForFunds, Founded
<1>3. \A resolved : Founded(w, r, Credit(w, r, resolved))
  BY <1>1 DEF Credit, After, Process, Invalid, Decision, RejectedForFunds, Founded
<1>4. \A kinds, equalAmount :
         LET stop == ReferenceStop(r, reference, kinds, equalAmount) IN
         stop # NONE => Founded(w, r, stop)
  BY DEF ReferenceStop, Wait, Reject, Decision, RejectedForFunds, Founded
<1>5. Founded(w, r, Reject("DUPLICATE_REVERSAL")) /\ Founded(w, r, Reject("INCOMPATIBLE_CURRENCY"))
  BY DEF Reject, Decision, RejectedForFunds, Founded
<1>6. \A code \in {"INVALID_TRANSITION", "AMOUNT", "INVALID_KIND"} : Founded(w, r, Invalid(code))
  BY DEF Invalid, Decision, RejectedForFunds, Founded
<1>7. Founded(w, r, ApplyLoss)
  BY DEF ApplyLoss, Process, Decision, RejectedForFunds, Founded
<1>8. Founded(w, r, ApplyBet(w, r))
  BY <1>2 DEF ApplyBet
<1>9. Founded(w, r, ApplyWin(w, r, reference))
  BY <1>3, <1>4 DEF ApplyWin
<1>10. Founded(w, r, ApplyRefund(w, r, reference, revs))
  BY <1>3, <1>4, <1>5 DEF ApplyRefund
<1>11. Founded(w, r, ApplyRollback(w, r, reference, revs))
  BY <1>2, <1>3, <1>4, <1>5 DEF ApplyRollback
<1> QED BY <1>5, <1>6, <1>7, <1>8, <1>9, <1>10, <1>11 DEF Apply

\* What is about to be committed is founded on the wallet as it is.
LEMMA CommitFounded ==
    ASSUME Inv, GraspDiscipline, NEW a \in Calls \cup Workers, pc[a] = "commit"
    PROVE  Founded(wallets[WalletOf(a)], op[a].req, dec[a])
<1>1. op[a] \in Row /\ snap[a] = wallets[WalletOf(a)] /\ snap[a] \in Wallet
  BY InHand
<1>2. PICK d \in Verdicts(snap[a], op[a]) :
         dec[a] = d \/ (a \in Workers /\ d = Wait /\ dec[a] = Reject("REFERENCE_NOT_FOUND"))
  BY DEF GraspDiscipline, Grasped
<1>3. Founded(snap[a], op[a].req, d)
  BY <1>1, <1>2, ApplyFounded DEF Verdicts
<1>4. Founded(snap[a], op[a].req, Reject("REFERENCE_NOT_FOUND"))
  BY DEF Reject, Decision, RejectedForFunds, Founded
<1> QED BY <1>1, <1>2, <1>3, <1>4

\* A step that books a refusal for lack of funds finds too little in the wallet.
LEMMA RefusalFounded ==
    ASSUME Inv, OperationDiscipline, GraspDiscipline, [Next]_vars, NEW t \in DOMAIN txs',
           RejectedForFunds(txs'[t]), t \in DOMAIN txs => txs'[t] # txs[t]
    PROVE  wallets[txs'[t].req.wallet].balance < txs'[t].req.amount
<1>1. CASE UNCHANGED tables
  BY <1>1 DEF tables
<1>2. ASSUME NEW o \in Openings, Open(o)
      PROVE  FALSE
  <2>1. OpeningRow(o).status = "PROCESSED"
    BY DEF OpeningRow
  <2>2. \/ t \in DOMAIN txs /\ txs'[t] = txs[t]
        \/ txs'[t] = OpeningRow(o)
    BY <1>2 DEF Open, OpenWallet, Put
  <2> QED BY <2>1, <2>2 DEF RejectedForFunds
<1>3. ASSUME NEW a \in Calls \cup Workers, Commit(a)
      PROVE  wallets[txs'[t].req.wallet].balance < txs'[t].req.amount
  <2> DEFINE row == RowAfter(wallets[WalletOf(a)], op[a], dec[a])
  <2>1. pc[a] = "commit" /\ op[a] \in Row /\ txs' = Put(txs, op[a].id, row)
    BY <1>3, InHand, CommitWrites DEF Commit
  <2>2. row.req = op[a].req /\ row.status = dec[a].status /\ row.code = dec[a].code
    BY <2>1 DEF RowAfter, Row
  <2> HIDE DEF row
  <2>3. txs'[t] = row
    BY <2>1 DEF Put
  <2>4. Founded(wallets[WalletOf(a)], op[a].req, dec[a])
    BY <2>1, CommitFounded
  <2> QED BY <2>2, <2>3, <2>4 DEF Founded, RejectedForFunds, WalletOf
<1> QED BY <1>1, <1>2, <1>3, TableSteps

-----------------------------------------------------------------------------
(* An overflow is answered by the call's own decision.                     *)

\* A step answers call c with an overflow.
Overflows(c) == answer'[c].code = "OVERFLOW" /\ answer'[c] # answer[c]

\* The end of c's transaction answers with the code it is given.
LEMMA EndOverflows ==
    ASSUME Inv, NEW c \in Calls, NEW reply, End(c, reply), Overflows(c)
    PROVE  reply.code = "OVERFLOW"
BY ActorFacts DEF End, Overflows, Inv, TypeOK, ActorTypeOK

LEMMA FailOverflows ==
    ASSUME Inv, NEW c \in Calls, NEW code, Fail(c, code), Overflows(c)
    PROVE  code = "OVERFLOW"
BY EndOverflows DEF Fail, Answer

LEMMA ReplayOverflows ==
    ASSUME Inv, NEW c \in Calls, NEW t, Replay(c, t)
    PROVE  ~Overflows(c)
BY EndOverflows, ActorAssumption DEF Replay, Answer, ErrorCodes

\* The lookups of identities refuse a call for other reasons.
LEMMA CallStepOverflows ==
    ASSUME Inv, NEW c \in Calls, CallStep(c)
    PROVE  ~Overflows(c)
<1>1. \A label : Goto(c, label) => ~Overflows(c)
  BY DEF Goto, Overflows
<1>2. \A label : ReplayByKey(c, label) => ~Overflows(c)
  BY <1>1, FailOverflows, ReplayOverflows DEF ReplayByKey
<1>3. ReplayByExt(c) => ~Overflows(c)
  BY FailOverflows, ReplayOverflows DEF ReplayByExt
<1>4. ~(Fail(c, "VALIDATION") /\ Overflows(c)) /\ ~(Fail(c, "CONFLICT") /\ Overflows(c))
  BY FailOverflows
<1> QED BY <1>1, <1>2, <1>3, <1>4 DEF CallStep, FindKey, FindExt, RecheckKey, RecheckExt,
           RecoverKey, RecoverExt

\* A decision that overflows is Apply's on the wallet as it is.
LEMMA DecideOverflows ==
    ASSUME Inv, NEW c \in Calls, pc[c] \in {"findReference", "listReversals"},
           NEW reference, NEW revs, Decide(c, reference, revs), Overflows(c)
    PROVE  wallets[WalletOf(c)].balance + op[c].req.amount > MaxMinor
<1> USE ActorFacts
<1>1. PICK d \in Outcomes(c, reference, revs) :
         IF d.status = "ERROR" THEN Fail(c, d.code) ELSE UNCHANGED answer
  BY DEF Decide
<1>2. d = Apply(snap[c], op[c], reference, revs)
  BY DEF Outcomes
<1>3. d.status = "ERROR" /\ d.code = "OVERFLOW"
  BY <1>1, FailOverflows DEF Overflows
<1>4. op[c] \in Row /\ snap[c] = wallets[WalletOf(c)] /\ snap[c] \in Wallet
  BY InHand
<1>5. Founded(snap[c], op[c].req, d)
  BY <1>2, <1>4, ApplyFounded
<1> QED BY <1>3, <1>4, <1>5 DEF Founded

LEMMA StepOverflows ==
    ASSUME Inv, NEW c \in Calls, Step(c), Overflows(c)
    PROVE  wallets[WalletOf(c)].balance + op[c].req.amount > MaxMinor
<1> USE ActorFacts
<1>1. ~LockWallet(c)
  BY FailOverflows DEF LockWallet, Overflows
<1>2. ~Persist(c)
  BY FailOverflows DEF Persist, Conflict, Overflows
<1>3. ~Commit(c)
  BY ActorAssumption DEF Commit, Overflows, Answer, ErrorCodes, Inv, TypeOK, ActorTypeOK
<1>4. FindReference(c) => \E reference, revs : Decide(c, reference, revs)
  BY DEF FindReference, Overflows
<1>5. ListReversals(c) => \E reference, revs : Decide(c, reference, revs)
  BY DEF ListReversals
<1>6. FindReference(c) \/ ListReversals(c)
  BY <1>1, <1>2, <1>3 DEF Step
<1> QED BY <1>4, <1>5, <1>6, DecideOverflows DEF FindReference, ListReversals

LEMMA OverflowFounded ==
    ASSUME Inv, [Next]_vars, NEW c \in Calls, Overflows(c)
    PROVE  wallets[WalletOf(c)].balance + op[c].req.amount > MaxMinor
<1> USE ActorFacts
<1>0. ~StandsStill(c) /\ answer' # answer
  BY DEF StandsStill, Overflows
<1>1. /\ ~UNCHANGED vars
      /\ ~\E o \in Openings : Open(o)
      /\ ~\E b \in Calls, r \in Requests : Submit(b, r)
      /\ ~Idle
  BY <1>0 DEF vars, local, Open, Submit, Idle
<1>2. ASSUME NEW b \in Calls, CallStep(b) PROVE FALSE
  BY <1>0, <1>2, CallStepOverflows, CallStandsStill
<1>3. ASSUME NEW a \in Calls \cup Workers, Step(a) PROVE a = c
  BY <1>0, <1>3, StepStandsStill
<1>4. ASSUME NEW p \in Workers, (\E t \in DOMAIN txs : Claim(p, t)) \/ LockRow(p) PROVE FALSE
  <2>1. ~Fail(p, "SKIPPED")
    BY <1>0, FailStandsStill
  <2> QED BY <1>0, <1>4, <2>1 DEF Claim, LockRow
<1>5. ASSUME NEW a \in Auditors, (\E w \in WalletIds : Reconcile(a, w)) \/ LockWallet(a) \/ SumLedger(a)
      PROVE  FALSE
  <2>1. ~LockWallet(a)
    BY <1>0, FailStandsStill DEF LockWallet
  <2>2. ~SumLedger(a)
    BY <1>0, EndStandsStill DEF SumLedger
  <2>3. \A w : ~Reconcile(a, w)
    BY <1>0 DEF Reconcile
  <2> QED BY <1>5, <2>1, <2>2, <2>3
<1>6. ASSUME NEW a \in Actors, Rollback(a) PROVE FALSE
  <2>1. a = c
    BY <1>0, <1>6, EndStandsStill DEF Rollback
  <2>2. Answer("lost", NONE, NONE).code = "OVERFLOW"
    BY <1>6, <2>1, EndOverflows DEF Rollback
  <2> QED BY <2>2, ActorAssumption DEF Answer, ErrorCodes
<1> QED BY <1>1, <1>2, <1>3, <1>4, <1>5, <1>6, StepOverflows DEF Next

\* Nothing is booked that does not fit, and nobody is turned away on an old
\* balance: the check of Wallet.move and its outcome see the same wallet.
THEOREM FundsDecided == Spec => FundsDecide
<1>1. /\ Inv /\ Inv' /\ OperationDiscipline /\ GraspDiscipline /\ [Next]_vars
      => [/\ \A w \in DOMAIN wallets' : wallets'[w].balance \in Amounts
          /\ \A t \in DOMAIN txs' :
                /\ RejectedForFunds(txs'[t])
                /\ t \in DOMAIN txs => txs'[t] # txs[t]
                => wallets[txs'[t].req.wallet].balance < txs'[t].req.amount
          /\ \A c \in Calls :
                /\ answer'[c].code = "OVERFLOW"
                /\ answer'[c] # answer[c]
                => wallets[WalletOf(c)].balance + op[c].req.amount > MaxMinor]_vars
  <2> SUFFICES ASSUME Inv, Inv', OperationDiscipline, GraspDiscipline, [Next]_vars
               PROVE  /\ \A w \in DOMAIN wallets' : wallets'[w].balance \in Amounts
                      /\ \A t \in DOMAIN txs' :
                            /\ RejectedForFunds(txs'[t])
                            /\ t \in DOMAIN txs => txs'[t] # txs[t]
                            => wallets[txs'[t].req.wallet].balance < txs'[t].req.amount
                      /\ \A c \in Calls :
                            /\ answer'[c].code = "OVERFLOW"
                            /\ answer'[c] # answer[c]
                            => wallets[WalletOf(c)].balance + op[c].req.amount > MaxMinor
    OBVIOUS
  <2>1. \A w \in DOMAIN wallets' : wallets'[w].balance \in Amounts
    BY DEF Inv, TypeOK, StoreTypeOK, Wallet
  <2>2. \A t \in DOMAIN txs' :
           /\ RejectedForFunds(txs'[t])
           /\ t \in DOMAIN txs => txs'[t] # txs[t]
           => wallets[txs'[t].req.wallet].balance < txs'[t].req.amount
    BY RefusalFounded
  <2>3. \A c \in Calls : Overflows(c) => wallets[WalletOf(c)].balance + op[c].req.amount > MaxMinor
    BY OverflowFounded
  <2> QED BY <2>1, <2>2, <2>3 DEF Overflows
<1> QED BY Invariant, OperationInvariant, GraspInvariant, <1>1, PTL DEF Spec, FundsDecide
=============================================================================
