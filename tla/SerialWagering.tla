--------------------------- MODULE SerialWagering --------------------------
(***************************************************************************)
(* What the service promises about its tables: every operation is decided  *)
(* in one indivisible step, on the wallet as it is at that moment.  There  *)
(* are no locks, no reads that grow old, no unique indexes to lose a race  *)
(* on and no second attempts here.  Wagering implements this module.       *)
(*                                                                         *)
(* One thing is allowed to be old.  An operation that names a reference of *)
(* another wallet can never be processed with it, but it may miss it: the  *)
(* lock it decides under is not the lock of the wallet it looks at.        *)
(***************************************************************************)
EXTENDS WagerStore

ReferenceRow(r) == {txs[t] : t \in ByExt(r.provider, r.ref)}

Verdicts(w, row) ==
    {Apply(w, row, reference, ProcessedReversals(reference.id)) :
        reference \in ReferenceRow(row.req)}
    \cup (IF \E reference \in ReferenceRow(row.req) : reference.req.wallet = row.req.wallet
          THEN {} ELSE {Apply(w, row, NONE, {})})

\* A new operation, under an identity no committed row has.
Record(c, r) ==
    /\ c \notin DOMAIN txs
    /\ \A t \in DOMAIN txs : ~SameIdentity(r, txs[t].req)
    /\ ValidRequest(r)
    /\ r.wallet \in DOMAIN wallets
    /\ wallets[r.wallet].player = r.player
    /\ \E d \in Verdicts(wallets[r.wallet], NewRow(c, r)) :
          /\ d.status # "ERROR"
          /\ PersistApply(NewRow(c, r), d, wallets[r.wallet])

\* An operation that waits is decided, or given up.
Resume(t) ==
    LET w == wallets[txs[t].req.wallet] IN
    /\ txs[t].status \in Unresolved
    /\ \E d \in Verdicts(w, txs[t]) :
          \/ d.status # "ERROR" /\ PersistApply(txs[t], d, w)
          \/ d = Wait /\ PersistApply(txs[t], Reject("REFERENCE_NOT_FOUND"), w)

SerialNext ==
    \/ \E o \in Openings : OpenWallet(o)
    \/ \E c \in Calls, r \in Requests : Record(c, r)
    \/ \E t \in DOMAIN txs : Resume(t)

\* The committed tables change only as if each operation were decided and
\* written at one moment, whatever applyInTx and persistApply interleave with.
SerialSpec == StoreInit /\ [][SerialNext]_tables
=============================================================================
