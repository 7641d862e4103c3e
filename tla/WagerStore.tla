---------------------------- MODULE WagerStore -----------------------------
(***************************************************************************)
(* The committed tables of schema wagering: wallets, wager_transactions,   *)
(* wallet_ledger_entries and the outbox rows, with the lookups of the      *)
(* postgres adapter and the group of writes that one commit installs.      *)
(*                                                                         *)
(* A table is a function whose domain is the set of its primary keys.  The *)
(* ledger of a wallet and the outbox rows of a transaction are sequences   *)
(* in the order they were committed.                                       *)
(***************************************************************************)
EXTENDS WagerDomain, Sequences, FiniteSets

CONSTANTS
    Calls,      \* submit attempts; an attempt inserts at most one row, whose id it is
    WalletIds,  \* wallet ids; the opening row of a wallet has the wallet's id
    Requests,   \* the commands a call may carry
    Openings    \* the wallets that may be opened, [wallet, player, currency, initial]

VARIABLES wallets, txs, ledger, events

tables == <<wallets, txs, ledger, events>>

TxIds == Calls \cup WalletIds

OpeningRequest(o) ==
    [provider |-> NONE, ext |-> NONE, key |-> NONE, wallet |-> o.wallet,
     player |-> o.player, round |-> NONE, kind |-> "OPENING",
     amount |-> o.initial, currency |-> o.currency, ref |-> NONE]

AllRequests == Requests \cup {OpeningRequest(o) : o \in Openings}

RequestFields == {"provider", "ext", "key", "wallet", "player", "round",
                  "kind", "amount", "currency", "ref"}

ASSUME StoreAssumption ==
    /\ NONE \notin TxIds
    /\ Calls \cap WalletIds = {}
    /\ \A r \in Requests :
          /\ DOMAIN r = RequestFields
          /\ r.amount \in 0..MaxMinor
          /\ r.wallet \in WalletIds
          /\ NONE \notin {r.provider, r.ext, r.key}
    /\ \A o \in Openings : o.wallet \in WalletIds /\ o.initial \in 0..MaxMinor

-----------------------------------------------------------------------------
(* Types.                                                                  *)

Players == {o.player : o \in Openings}
Currencies == {o.currency : o \in Openings}
Amounts == 0..MaxMinor

Wallet == [player : Players, currency : Currencies, balance : Amounts, version : Nat \ {0}]

Row == [id : TxIds, req : AllRequests, status : Statuses,
        code : FailureCodes \cup {NONE}, resolved : TxIds \cup {NONE},
        balance : Amounts \cup {NONE}]

Entry == [tx : TxIds, direction : Directions, amount : Amounts,
          before : Amounts, after : Amounts]

OutboxRow == [type : {"Processed", "Rejected", "PendingReference", "BalanceChanged"},
              version : Nat \cup {NONE}]

StoreTypeOK ==
    /\ DOMAIN wallets \subseteq WalletIds
    /\ wallets \in [DOMAIN wallets -> Wallet]
    /\ ledger \in [DOMAIN wallets -> Seq(Entry)]
    /\ DOMAIN txs \subseteq TxIds
    /\ txs \in [DOMAIN txs -> Row]
    /\ \A t \in DOMAIN txs : txs[t].id = t
    /\ events \in [DOMAIN txs -> Seq(OutboxRow)]
    /\ WalletIds \cap DOMAIN txs \subseteq DOMAIN wallets

-----------------------------------------------------------------------------
(* Lookups; each reads the committed rows, as READ COMMITTED does.          *)

ByKey(r) == {t \in DOMAIN txs : txs[t].req.provider = r.provider /\ txs[t].req.key = r.key}

ByExt(provider, ext) ==
    {t \in DOMAIN txs : txs[t].req.provider = provider /\ txs[t].req.ext = ext}

ProcessedReversals(t) ==
    {txs[v] : v \in {u \in DOMAIN txs : /\ txs[u].resolved = t
                                        /\ txs[u].status = "PROCESSED"
                                        /\ txs[u].req.kind \in {"REFUND", "ROLLBACK"}}}

\* The two unique indexes over external identities.
SameIdentity(r, s) ==
    r.provider = s.provider /\ (r.ext = s.ext \/ r.key = s.key)

\* The unique index over (resolved_reference_id, kind) of processed reversals.
ReversalClash(t, kind, d, row) ==
    /\ d.status = "PROCESSED"
    /\ kind \in {"REFUND", "ROLLBACK"}
    /\ row.id # t
    /\ row.status = "PROCESSED" /\ row.req.kind = kind /\ row.resolved = d.resolved

-----------------------------------------------------------------------------
(* Writes that become visible in one commit.                               *)

Put(table, key, value) ==
    [k \in DOMAIN table \cup {key} |-> IF k = key THEN value ELSE table[k]]

OutboxOf(t) == IF t \in DOMAIN events THEN events[t] ELSE <<>>

\* Mutant of PersistApply: the wallet is saved without its ledger entry.
EntryLost(op, d, w) ==
    LET id == op.req.wallet IN
    /\ txs' = Put(txs, op.id, RowAfter(w, op, d))
    /\ events' = Put(events, op.id, OutboxOf(op.id) \o EventsFor(w, op, d))
    /\ wallets' = IF Moves(d) THEN [wallets EXCEPT ![id] = WalletAfter(w, op, d)] ELSE wallets
    /\ ledger' = ledger

\* Mutant of PersistApply: the UPDATE sets the version and leaves the balance.
BalanceNotSaved(op, d, w) ==
    LET id == op.req.wallet IN
    /\ txs' = Put(txs, op.id, RowAfter(w, op, d))
    /\ events' = Put(events, op.id, OutboxOf(op.id) \o EventsFor(w, op, d))
    /\ wallets' = [wallets EXCEPT ![id].version = WalletAfter(w, op, d).version]
    /\ ledger' = IF Moves(d) THEN [ledger EXCEPT ![id] = Append(@, EntryFor(w, op, d))] ELSE ledger

(***************************************************************************)
(* persistApply: the row inserted or updated, the ledger entry and the new *)
(* wallet version when the decision moves the balance, the outbox rows.    *)
(* w is the wallet as the caller read it.                                  *)
(***************************************************************************)
PersistApply(op, d, w) ==
    LET id == op.req.wallet IN
    /\ txs' = Put(txs, op.id, RowAfter(w, op, d))
    /\ events' = Put(events, op.id, OutboxOf(op.id) \o EventsFor(w, op, d))
    /\ wallets' = IF Moves(d) THEN [wallets EXCEPT ![id] = WalletAfter(w, op, d)] ELSE wallets
    /\ ledger' = IF Moves(d) THEN [ledger EXCEPT ![id] = Append(@, EntryFor(w, op, d))] ELSE ledger

OpeningRow(o) ==
    [id |-> o.wallet, req |-> OpeningRequest(o), status |-> "PROCESSED",
     code |-> NONE, resolved |-> NONE, balance |-> o.initial]

OpeningEntry(o) ==
    [tx |-> o.wallet, direction |-> "CREDIT", amount |-> o.initial,
     before |-> 0, after |-> o.initial]

(***************************************************************************)
(* Service.OpenWallet: a wallet at version 1; a positive balance is posted *)
(* as an OPENING row with its credit and its two events, a zero one leaves *)
(* no trace.  UNIQUE (player_id, currency) refuses a second wallet.        *)
(***************************************************************************)
OpenWallet(o) ==
    /\ o.wallet \notin DOMAIN wallets
    /\ \A w \in DOMAIN wallets :
          ~(wallets[w].player = o.player /\ wallets[w].currency = o.currency)
    /\ wallets' = Put(wallets, o.wallet,
                      [player |-> o.player, currency |-> o.currency,
                       balance |-> o.initial, version |-> 1])
    /\ IF o.initial = 0
       THEN /\ ledger' = Put(ledger, o.wallet, <<>>)
            /\ UNCHANGED <<txs, events>>
       ELSE /\ ledger' = Put(ledger, o.wallet, <<OpeningEntry(o)>>)
            /\ txs' = Put(txs, o.wallet, OpeningRow(o))
            /\ events' = Put(events, o.wallet, <<Event("Processed", NONE), Event("BalanceChanged", 1)>>)

StoreInit ==
    /\ wallets = [w \in {} |-> NONE]
    /\ txs = [t \in {} |-> NONE]
    /\ ledger = [w \in {} |-> NONE]
    /\ events = [t \in {} |-> NONE]

-----------------------------------------------------------------------------
(* What the tables promise together, whoever wrote them.                   *)

BalanceAt(entries, i) == IF i = 0 THEN 0 ELSE entries[i].after

(***************************************************************************)
(* The stored balance is the end of an unbroken chain of entries: the      *)
(* first starts at zero, each starts where the previous one ended and ends *)
(* one movement later.  Wallet, entry and row are written by different     *)
(* statements of persistApply; this is what their shared commit protects.  *)
(***************************************************************************)
LedgerChain ==
    \A w \in DOMAIN wallets :
       LET entries == ledger[w] IN
       /\ wallets[w].balance = BalanceAt(entries, Len(entries))
       /\ \A i \in 1..Len(entries) :
             /\ entries[i].before = BalanceAt(entries, i - 1)
             /\ entries[i].after = After(entries[i].before, entries[i].direction, entries[i].amount)

\* The ledger entries of a transaction, as pairs of wallet and position.
EntriesOf(t) ==
    UNION {{<<w, i>> : i \in {j \in 1..Len(ledger[w]) : ledger[w][j].tx = t}} : w \in DOMAIN wallets}

\* The direction in which a processed row has moved its wallet.
DirectionOf(row) ==
    IF row.req.kind = "BET" THEN "DEBIT"
    ELSE IF row.req.kind = "ROLLBACK" /\ txs[row.resolved].req.kind # "BET" THEN "DEBIT"
    ELSE "CREDIT"

(***************************************************************************)
(* An operation moves money at most once, however often it was submitted,  *)
(* resumed or replayed: a processed BET, WIN, REFUND, ROLLBACK or OPENING  *)
(* has exactly one entry, on its own wallet, for its own amount and in the *)
(* direction its kind calls for; every other row has none.                 *)
(***************************************************************************)
OneMovementPerOperation ==
    \A t \in DOMAIN txs :
       LET row == txs[t]
           mine == EntriesOf(t)
       IN IF row.status = "PROCESSED" /\ row.req.kind # "LOSS"
          THEN /\ Cardinality(mine) = 1
               /\ \A e \in mine :
                     LET entry == ledger[e[1]][e[2]] IN
                     /\ e[1] = row.req.wallet
                     /\ entry.amount = row.req.amount
                     /\ entry.direction = DirectionOf(row)
                     /\ entry.after = row.balance
          ELSE mine = {}

(***************************************************************************)
(* The WalletBalanceChanged event of the i-th entry carries the i-th       *)
(* version of the wallet, so a consumer that orders by walletVersion       *)
(* rebuilds the ledger without gaps and without two events for a version.  *)
(***************************************************************************)
EventsCarryVersions ==
    \A w \in DOMAIN wallets :
       \A i \in 1..Len(ledger[w]) :
          LET outbox == events[ledger[w][i].tx]
              version == wallets[w].version - Len(ledger[w]) + i
          IN /\ outbox # <<>>
             /\ outbox[Len(outbox)] = Event("BalanceChanged", version)
             /\ ledger[w][i].tx = w <=> version = 1

(***************************************************************************)
(* The outbox tells each row's story exactly once: at most one announcement *)
(* that it waits, then at most one outcome, the one the row has, followed  *)
(* by the balance change when there was one.                               *)
(***************************************************************************)
OutcomeAnnouncedOnce ==
    \A t \in DOMAIN txs :
       LET kinds == [i \in 1..Len(events[t]) |-> events[t][i].type]
           waited == {<<>>, <<"PendingReference">>}
       IN CASE txs[t].status = "PENDING_REFERENCE" -> kinds = <<"PendingReference">>
            [] txs[t].status = "REJECTED" -> \E p \in waited : kinds = p \o <<"Rejected">>
            [] txs[t].status = "PROCESSED" ->
                 \E p \in waited :
                    kinds = p \o (IF EntriesOf(t) = {} THEN <<"Processed">>
                                  ELSE <<"Processed", "BalanceChanged">>)
            [] OTHER -> FALSE

(***************************************************************************)
(* A BET is given back at most once, by a REFUND or by a ROLLBACK and      *)
(* never by both; a WIN or a REFUND is rolled back at most once.  The      *)
(* database has no constraint for the first half, only the wallet lock.    *)
(***************************************************************************)
ReversalsExclusive ==
    \A t \in DOMAIN txs : Cardinality(ProcessedReversals(t)) <= 1

(***************************************************************************)
(* What a processed operation resolved to is a processed operation of the  *)
(* same provider, player, wallet and round, of a kind it may refer to and, *)
(* for a reversal, of the same amount.                                     *)
(***************************************************************************)
ReferencesSound ==
    \A t \in DOMAIN txs :
       LET row == txs[t] IN
       /\ row.status = "PROCESSED" /\ RequiresReference(row.req.kind) => row.resolved # NONE
       /\ row.resolved # NONE =>
             LET target == txs[row.resolved] IN
             /\ row.resolved \in DOMAIN txs \ {t}
             /\ target.status = "PROCESSED"
             /\ target.req.kind \in (CASE row.req.kind = "ROLLBACK" -> {"BET", "WIN", "REFUND"}
                                       [] OTHER -> {"BET"})
             /\ target.req.ext = row.req.ref
             /\ \A f \in {"provider", "player", "wallet", "round", "currency"} :
                   target.req[f] = row.req[f]
             /\ RequiresReference(row.req.kind) => target.req.amount = row.req.amount

\* A decided row never changes again, no row disappears and no row changes
\* what was asked for: a committed outcome is what every later replay reports.
TerminalIsFinal ==
    [][\A t \in DOMAIN txs :
         /\ t \in DOMAIN txs'
         /\ txs'[t].req = txs[t].req
         /\ txs[t].status \in Terminal => txs'[t] = txs[t]]_tables

\* The ledger only grows, by one entry per wallet version: there is no movement
\* without a new version, no new version without a movement.
MovementsAreVersions ==
    [][\A w \in DOMAIN wallets :
         /\ w \in DOMAIN wallets'
         /\ \/ wallets'[w] = wallets[w] /\ ledger'[w] = ledger[w]
            \/ /\ wallets'[w].version = wallets[w].version + 1
               /\ Len(ledger'[w]) = Len(ledger[w]) + 1
               /\ SubSeq(ledger'[w], 1, Len(ledger[w])) = ledger[w]]_tables
=============================================================================
