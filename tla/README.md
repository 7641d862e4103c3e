# Wagering service: specification, model checking and proofs

This directory specifies the wagering service of this repository in TLA+. The
specifications are written from the code under `src/`; TLC checks them on small
instances and TLAPS proves the central properties for every instance.
`PROJECT.json` maps every definition to the lines it stands for and lists the
runs, the mutants that show each property can fail, the hazards and the theorems.

## 1. The system

A Go service books the bets of game providers on player wallets. It keeps its
state in PostgreSQL and runs as several identical processes.

| Component | State | Operations | Hard behaviour |
| --- | --- | --- | --- |
| Domain decision (`internal/domain`) | none | `Apply` decides one operation: processed, rejected, waiting or an error | which reference, funds and earlier reversals allow what |
| Tables (`migrations`, `adapter/postgres`) | wallets, wager_transactions, wallet_ledger_entries, outbox_events, inbox | lookups, `FOR UPDATE`, versioned update, unique indexes | READ COMMITTED: each statement sees a different state |
| Submit (`app/submit.go`) | one SQL transaction | two identity lookups, wallet lock, two lookups again, decision, writes; recovery after a lost insert race | concurrent calls with the same identity, on the same or another wallet |
| Open wallet (`app/open.go`) | | wallet, opening row, entry and events | the same player and currency twice |
| Pending resume (`app/pending.go`, `adapter/postgres/pending.go`) | next attempt, attempts and lease of each waiting row | `Claim`, `resumeOne`, `ScheduleRetry` | two workers with the same row, leases that end early, a hard stop |
| Reconcile (`app/reconcile.go`) | | locks a wallet, compares its balance with its ledger | commits between the two reads |
| Reads (`app/read.go`) | page cursor | wallet, transaction, ledger pages | entries appended while pages are read |
| Outbox relay (`app/relay.go`, `adapter/postgres/outbox.go`) | lease, attempts, published stamp of each event | claim, publish, mark or retry | crash between publish and mark, order within an aggregate |
| Inbound consumer (`adapter/sqs`, `app/inbound.go`) | inbox rows; visibility and receive count in the queue | receive, handle, delete, retry, dead-letter, recover a lost insert | redelivery while the handler still runs, a delete that fails, a wallet that is not there yet |
| Money (`domain/money.go`) | none | parse, format, checked addition | int64 limits |
| HTTP, authentication, configuration, metrics, composition, load test | none that outlives a request or a process | | start and stop order |

Calls reach `Submit` over HTTP or from the queue. `Submit`, `OpenWallet`, the
pending workers and `ReconcileWallet` meet only in the database: they share
rows, row locks and unique indexes and nothing else. The relay reads what they
commit; the consumer adds its inbox row to their commit.

What makes each part correct:

- decision and tables: the balance is the end of the ledger; an operation moves
  money at most once; nothing is given back twice; a committed outcome is final;
  events tell what was committed, once, with the version it produced;
- concurrency: the effect is that of deciding the operations one after the other;
- identities: one row per provider and key; whoever is answered with a row gets
  that row; a refusal is true; every call is answered;
- reconcile: it never reports a difference that is not there;
- pending rows: nobody works on a row somebody else has; a row is given up only
  when its reference cannot decide it and its attempts or time are spent; a row
  that can be decided is decided in the end;
- relay: only committed events are sent, only delivered ones are marked, every
  event the queue takes arrives whatever else is in the table;
- consumer: a message stays in the queue until its outcome is recorded or a copy
  of it is in the dead-letter queue; a record and its operation come with one
  commit; nothing takes effect twice, whichever channel brings it; only what will
  fail for ever is dead-lettered; nothing blocks its FIFO group for ever;
- pages: what was there when a client began is returned once, in order and without
  a hole, whatever is booked meanwhile; a client that goes on comes to the end;
- money: no amount is wrapped around, none that fits is refused, and an amount has
  one text.

## 2. Modules

| Module | Models | State and actions |
| --- | --- | --- |
| `WagerDomain` | `internal/domain` | no state; `Apply` and what follows from a decision: `WalletAfter`, `RowAfter`, `EntryFor`, `EventsFor` |
| `WagerStore` | the tables, the repositories' lookups and indexes, `persistApply`, `OpenWallet` | `wallets`, `txs`, `ledger`, `events`: functions from primary keys to rows |
| `Wagering` | callers, workers and auditors under READ COMMITTED | one actor per SQL transaction, one action per statement |
| `SerialWagering` | what the service promises | every operation decided in one step |
| `Leases` | what the two kinds of workers share | no state; `Backoff`, the order and the limit of a claim |
| `OutboxRelay` | `PublishDue` in every process, the table `outbox_events`, the queue | rows with attempts and time left; per relay its batch and its clock |
| `EventDelivery` | what the outbox promises | committed, delivered, settled |
| `PendingResume` | `ResumeDue` in every process, with time, attempts and leases | waiting rows with attempts, time left and age; per worker its batch and its clock |
| `InboundConsumer` | `Consumer.Run` and `Handle` in every process, `HandleInbound`, the FIFO queue and its dead-letter queue, other channels | `mail` and where each message is; `ops`, `inbox`; per consumer its next call, its message and what its transaction has found and inserted |
| `InboundSettlement` | what the inbound channel promises | sent, queued, recorded, buried, operations |
| `LedgerPaging` | `ListLedger` page by page, the query behind it and its cursor | `entries` in commit order; the client's cursor and what it has got |
| `Money` | `domain/money.go`, `money_json.go` | the value at hand and what it should be |
| `MCWagering`, `MCOutboxRelay`, `MCPendingResume`, `MCInboundConsumer`, `MCLedgerPaging`, `MCMoney` | instances for TLC | commands, wallets, references, messages and texts of each question |
| `WageringProofs` | proofs | the inductive invariant and what follows from it, reconciliation included |
| `OperationProofs` | proofs | reversals exclude each other by the wallet lock alone; what a committed operation stands for: its reference, its one movement, its events |
| `SerialProofs` | proofs | identities and answers; money is refused only when it does not fit; `Wagering` implements `SerialWagering` |
| `OutboxRelayProofs` | proofs | leases exclude relays, the order of the claims is one, the relays implement `EventDelivery` |
| `PendingProofs` | proofs | what a pending worker holds is current, waits are short, giving up is right, the order of the claims is one |
| `InboundProofs` | proofs | nothing is lost, nothing takes effect twice, the consumers implement `InboundSettlement` |
| `PagingProofs` | proofs | the pages of a client are a history without holes |
| `MoneyProofs` | proofs | arithmetic and texts for any width and radix |

### How the state corresponds to the code

A *row* of `txs` is a record of `wager_transactions`: the command it was created
from (`req`), its status, failure code, resolved reference and result balance.
Ids, time stamps, texts and the game id are left out. A command is a record of
the fields of `SubmitCommand`; the canonical payload hash of ADR 0012 is modelled
as the command without its idempotency key, so two hashes are equal exactly when
the payloads are. Outbox rows are kept per transaction in commit order, ledger
entries per wallet.

An *actor* is a goroutine inside one SQL transaction: a submit call, a pending
worker or a reconciliation. `pc` names the statement it sends next, `op` is the
row it works on, `snap` the wallet it read with `FOR UPDATE`, `ref` the reference
row, `dec` the decision. `walletLock` holds the row locks of wallets; the row
locks of waiting transactions follow from where the workers are (`RowLocked`).

| Action | Code |
| --- | --- |
| `Submit`, `FindKey`, `FindExt`, `RecheckKey`, `RecheckExt` | `Service.Submit`, `submitInTx`: the lookups before and after the wallet lock |
| `LockWallet` | `GetByIDForUpdate` of a call, a worker or a reconciliation |
| `FindReference`, `ListReversals` | `applyInTx`, which ends in `domain.Apply` |
| `Persist` | the inserts and updates of `persistApply`: it waits for an index entry that is not committed, fails on one that is, and updates the wallet only at the version it read |
| `Commit`, `Rollback` | the two ends of `unitOfWork.Within`; a crash is the rollback of every actor of the process |
| `RecoverKey`, `RecoverExt` | `loadReplay` in a new SQL transaction |
| `Claim`, `LockRow` | `PendingClaimer.Claim` and the second read of the row in `resumeOne` |
| `Reconcile`, `SumLedger` | `ReconcileWallet` |
| `Open` | `Service.OpenWallet` |

Writes are private until `Commit`, so the tables change in one step there; what
other actors may notice earlier, a pending index entry and the row locks, is in
the guards of `Persist`, `LockWallet` and `LockRow`.

`Claim` keeps nothing but the item: the lease is a time stamp, and the code does
not rely on it. The model lets any worker claim any waiting row at any moment, as
two workers do when a lease ends early. The number of attempts and the time to
live are not counted here; a worker that would wait may instead find them spent
and reject (`Outcomes`). Both are the subject of `PendingResume`.

### Relays and pending workers

`OutboxRelay` and `PendingResume` have the same shape, as the code has. Time is
counted in ticks: a row keeps the time *left* until `next_attempt_at`, a worker
the time *since* it read its clock, so no variable grows. `queue` is the order of
the due rows, which is all that is left of their stamps once they are due: a strict
total order, as the set of its pairs (`InLine`).
`elapsed = Lease` means that the context of the batch has ended; `Live` is the
test for it, and every action that touches a row carries it.

| Action | Code |
| --- | --- |
| `Commit`, `Submit` | the rows an operation's commit leaves behind |
| `Claim`, `LoseClaim` | the claim of a batch; it commits, and the answer arrives or not |
| `Send`, `Accept`, `SendFails`, `LateAccept` | one `SendMessage`: refused, lost, accepted with the answer lost, or accepted after its sender has given up |
| `Resume`, `ResumeFails` | `resumeOne`, which commits, is skipped, or returns an error, also after a commit whose answer is lost |
| `Mark`, `Retry`, `Abort`, `Finish` | the rest of the loop: an error of `MarkPublished` or `ScheduleRetry` ends the batch, executed or not |
| `Crash` | the process dies or reaches the deadline of its stop, and starts again |
| `Tick` | a second passes |

In `PendingResume` a resume is one step, which `Wagering` justifies: it holds the
wallet and the row, and `SerialSpec` says its effect is that of one step. The
decision is reduced to what the status of the reference allows; `Faulty` are the
operations whose decision is an error, such as a credit past the int64 range.

What is assumed and not checked: all processes read the same clock; a statement
that is outstanding when its context ends has no later effect; `RETURNING` has no
order, so a batch is worked on in any. The poll interval is left out: a claim may
come at any time.

### Inbound consumers

A message is a *letter* with its number, its place in the order of sending. A
letter is a record of its messageId, the identities, wallet and amount of its
command, and its `fate`: whether its body parses, its command is refused by the
domain, or the decision may end with an error. Two payload or body hashes agree
when the letters do. `place` says where a message is: unsent, visible, in flight or
gone, `receives` how often it was handed out.

| Action | Code |
| --- | --- |
| `Receive`, `LoseResponse` | one `ReceiveMessage` of `Consumer.Run`, and one whose response never arrives |
| `GetInbox`, `FindKey`, `FindExt`, `LockWallet`, `Recheck`, `InsertOperation`, `InsertRecord`, `Commit` | `inboundInTx` around `submitInTx`, one SQL statement each |
| `Recover`, `RecoverKey` | `recoverInbound` after a unique violation |
| `Fail` | a statement fails, or the context of the handler ends |
| `Finish`, `Retry`, `SendToDLQ`, `Delete` | `DispositionOf`, `Consumer.finish` and `retry`, `Client.SendToDLQ`, `Client.Delete` |
| `Stop`, `ReleaseInFlight`, `Restart` | `NewInboundWorker`'s `OnStop`, and a crash |
| `Send`, `Expire`, `Redrive` | the producers and the queue: at least once, FIFO by wallet, a redrive policy |
| `Open`, `Post` | `OpenWallet` and an HTTP call of `Submit` |

The composition with `Wagering` is by level: there each statement of `Submit` is a
step and `SerialSpec` shows that it works as one; here `Post` is that one step,
and what a message does is cut at the places where the consumers of a queue can
meet: the inbox row, the two identities, the wallet lock and the commit. The second
look at the identities and the decision under the wallet lock are one step
(`Recheck`).

The queue is external and modelled by what the code relies on. The visibility of a
message may end at any moment: the handler's context starts when the response
arrives and the visibility when the queue sends it, and a fraction of a second is
cut off, so a handler may outlast it. For the same reason a delete may or may not
work. The dead-letter queue drops a copy whose id it has seen. That id is the
messageId, so that of two bodies under one messageId only one may be there;
`NothingLost` therefore speaks of the identity of a copy.

### Pages and money

`LedgerPaging` keeps what the client keeps: between two pages the service has no
state. A page is the beginning of the one listing of the rows behind the cursor in
the order of the query (`InOrder`). A stamp is any instant. The clocks of two
processes need not agree, and `timestamptz` cuts off what is finer than a microsecond
(`Stored`), so entries may share a stamp, and one may be booked before the cursor of a
client that reads.

`Money` has the largest integer and the digits as parameters, and the
arithmetic wraps as Go's does (`Wrap`). Texts are sequences of characters, because
what is accepted and what is written is what the properties are about.

## 3. Runs

Calls and workers are interchangeable, so the three safety runs of `MCWagering`
use symmetry; no other run does. The first five runs use `MCWagering`.

| Run | Question | Instance |
| --- | --- | --- |
| `funds` | Do balance, ledger and events stay together when operations race for funds? Is money refused exactly when it does not fit? | 3 calls, 1 worker, 1 reconciliation, one wallet of 3 or 0; two bets of 2, a win on a bet, a win of 2 without a reference, a win that refers to itself, a loss, a foreign currency |
| `reversals` | Is anything given back twice, or announced twice, or decided twice? Does the wallet lock alone keep reversals apart? | 4 calls, 2 workers; a bet, two refunds of it, its rollback, the rollback of a refund |
| `references` | Is every interleaving one of serial decisions, and do answers agree when identities are reused? | 3 calls, 1 worker, two wallets; references to another wallet, another amount, a spent win; one external id and one key used again, on the same wallet and on another |
| `answers` | Is every call answered? | 2 calls, 1 worker, 1 reconciliation, with fairness |
| `replay_payload` | Is a replay always of the same payload, as the documents say? | 2 calls: it is not, see below |
| `delivery` | Is an event ever in two batches, sent after its mark, or marked without delivery? Do refused events starve the others? | 2 relays, 3 events of which two are always refused, batches of 2, lease of 2 ticks, with fairness |
| `order` | Do events of one aggregate leave in order, as ADR 0015 says? | 1 relay, 2 events: they do not, see below |
| `limits` | Is work in hand current, given up only rightly, tried again soon, and decided in the end? | 2 workers, a bet and two reversals of which one always ends with an error; batches of 1, lease of 2, 4 attempts or 4 ticks, with fairness |
| `inbound` | Is a message ever lost, effective twice, or buried without a reason? Does each leave the queue? | 2 consumers, one of which is stopped, 2 messages, 2 deliveries each, an HTTP call, a wallet that opens late or never; with fairness |
| `pages` | Does a client get each entry once, in order, and come to the end? | 2 wallets, 4 entries, three stamps of which two are stored as one, pages of 1 or 2 |
| `amounts` | Is every amount exact, and does it have one text? | an int of six bits with three digits: every text of up to four characters, every amount of up to four digits before the dot, every pair of operands |

The bounds are the smallest at which the cases occur: a loser of an insert race
needs two calls, the rollback of a refund of a bet needs three operations and a
fourth that competes, a stale claim two workers. In `funds` a win of 2 does not fit
on the balance of 3 below `MaxMinor = 4`, so the overflow path of `Wallet.move` is
taken, and does fit once a bet is booked; a second bet of 2 does not fit, and does
once the win is. No counter needs a bound: a call submits once, and the wallet
version grows only with the rows.

A worker may retry as often as it likes; that adds no state.

In the runs of relays and pending workers `AttemptsCap` bounds the counted
attempts at the value where the back-off has reached its maximum and the attempts
their limit, so counting further changes nothing. Two refused events fill a batch
and a faulty row fills one, so that the one behind is left behind; a lease of two
ticks is as long as the longest back-off, and a retry that is due before the lease
would have ended occurs at the first attempt. The integers of the model do not wrap
and attempts stop at `AttemptsCap`, so these runs show the cap of the delay, and not
what a shift wider than the type would give: the code cuts that off at 20 before it
shifts.

The four mails of `inbound` are the ways two messages can clash: one messageId on
two bodies, one command under two messageIds, one key for two wallets, and a body
that cannot be parsed in front of one with the identity of another. Two consumers
are needed for a lost insert and for a handler that outlasts its visibility, two
deliveries for a redelivery and for the redrive policy to act. A wallet that does
not exist at the start shows the failure that may go away. In `pages` a page of one
entry, one that is exactly full and one with a row to spare all occur. In
`amounts` the six bits put every operand at the edge of the type against every
other; the 31 units of which nine make one do not divide evenly, as int64 and 100
do not.

**What they show.** All properties hold, with two exceptions.

`replay_payload` finds that a key can be answered with the outcome of another
payload. The documents (`docs/api/wagering.md`, ADR 0012) say that the same key
with another payload is `IDEMPOTENCY_PAYLOAD_CONFLICT`. The code compares the
payload hashes only on the lookup by key; when the first call commits between the
second call's lookup by key and its lookup by external id, the latter compares
only the keys and returns the first call's row as a replay. Both lookups run under
READ COMMITTED, as do the two after the wallet lock and the two of the recovery;
between the latter nothing can change, between the first two it can. No money
moves: the books stay right, the caller is told the wrong thing.

`order` finds that an event can be sent before an earlier one of its aggregate.
ADR 0015 chose the FIFO queue for its per-aggregate order; the queue keeps the
order of the *sends*. A row whose send fails, or whose claim got lost, is due
later, and meanwhile the relay goes on with the next row. Consumers can order by
the wallet version of the payload.

One behaviour is no disagreement and still good to know: the limits of ADR 0019 are
looked at only after a decision that waits. A waiting row whose decision is an error,
such as a credit past the int64 range, is claimed again after every lease, for ever.
`WaitsEnd` in `limits` leaves such rows (`Faulty`) out and shows that they keep
nobody else from being decided.

### Properties worth a word

- `SerialSpec` (in `references`): `Wagering` implements `SerialWagering`, with the
  tables as they are. The only freedom the abstract specification leaves is that a
  reference of *another* wallet may be missed, because the lock held is not the
  lock of that wallet. Such an operation can never be processed with it.
- `FundsDecide`: the balance is compared with the amount some statements before the
  outcome is committed or answered. A bet refused, or a win reported as an overflow,
  on a balance that is no longer there could have been booked; with an unlocked read
  (`ReadWalletUnlocked`) that happens.
- `SafetyNetsUnused`: the versioned update and the unique index on reversals are
  never what saves the books; ADR 0010 calls the former an invariant failure.
- `AnswersAgree`, `RefusalsAreReal`: about the answers callers get, including
  after a lost insert race; `ErrConflict` itself is never an answer.
- `LeaseCovers`: that the context of a batch ends with its lease is what protects a
  row; a context one tick longer breaks it (the mutant `LiveTooLong`).
- `DeliveryLive`, `WaitsEnd`: what a claim takes first is the row that is due
  longest, and a claim moves a row behind the others. With the order reversed
  (`LastOf`) refused events starve the rest.
- `GivenUpRightly`: the decision comes first and the limits second, so a reference
  that arrives before the last attempt counts.
- `TerminalIsFinal`, `OneMovementPerOperation`: what protects against a worker
  that acts on an old claim.
- `RecoveryOnlyReads`: `recoverInbound` inserts an inbox row and ignores a
  conflict, but on PostgreSQL the conflict has aborted the transaction, so that the
  commit would fail. The property says that this insert is never reached: whoever
  loses the insert of an operation has lost it to a command for *another* wallet,
  which the payload hash tells apart, because the wallet lock decides among those
  for the same wallet; whoever loses the insert of the row finds the row.
- `SettlementSafe`, `SettlementLive`: the consumers implement `InboundSettlement`.
  The liveness holds although nothing is asked of the database or of wallets,
  because every delivery counts and the redrive policy ends the counting.
- `PagesAreHistory` is conditional: with clocks that disagree an entry may be booked
  before the place where a client stands, and it is not returned. `NothingSkipped`
  holds without the condition, for what was there when the client began.
- `OneText`: two texts for one amount would be two payload hashes, and the repetition
  of a call a conflict.

Not claimed: that messages of one wallet *take effect* in FIFO order. A handler
that outlasts its visibility can be overtaken by one of the next message, after the
first was redriven.

### Fairness

`Fairness` in `Wagering` asks that an actor inside a SQL transaction takes its
next step when it can (goroutines are scheduled and statements return), and that
an actor that waits for the row lock of a wallet gets it if it is free again and
again: PostgreSQL queues the waiters of a row, so strong fairness is what the
database provides. Nothing is asked of callers, failures, openings, claims or
reconciliations. `EveryCallAnswered` needs the strong form: with weak fairness a
worker that retries for ever may take the lock before a call every time.

The relays and pending workers run in a loop with a ticker, so each goroutine has
its turn and time passes: weak fairness of `Step` of each and of `Tick`. Crashes,
lost answers and batches that outlast their lease may happen any number of times,
but come to an end: `<>[][CalmStep]_vars`. Without this nothing is promised, since
a process may die after every claim. `CalmStep` still lets refused events and
faulty decisions fail for ever.

A handler of the consumer goes on or its context ends, so `Step` is weakly fair
with `Fail` among its steps: it may fail every time. A stopped process is started
again, visibility ends (both weak), and the first message of a group is handed out
if it is so again and again while consumers poll (strong, since consumers are
busy in between). Crashes may go on for ever. A client of pages is only asked to go
on (`WF_vars(Page)`).

## 4. Proofs

Every safety property that a passing run checks is a theorem.
`WageringProofs`, `OperationProofs` and `SerialProofs`, each on top of
the one before, prove for any sets of calls, workers, auditors, wallets and commands
and any `MaxMinor`; `OutboxRelayProofs` and
`PendingProofs` for any sets of rows and workers, batch, lease, back-off and
limits; `InboundProofs` for any sets of consumers, wallets, messages and what they
say, and any number of deliveries; `PagingProofs` for any wallets, entries, clocks
and limits; `MoneyProofs` for any width and radix, any texts and any calls:

| Theorem | Property |
| --- | --- |
| `TypeCorrect` | `TypeOK`: balances stay in the range of the column and never below zero |
| `SnapshotCurrent` | `SnapshotIsCurrent` |
| `ChainUnbroken` | `LedgerChain` |
| `ReconciliationTrue` | `ReconciliationConsistent` |
| `FinalOutcomes` | `TerminalIsFinal` |
| `VersionedMovements` | `MovementsAreVersions` |
| `ReversedOnce` | `ReversalsExclusive` |
| `NetsUnused` | `SafetyNetsUnused` |
| `SoundReferences` | `ReferencesSound` |
| `MovedExactlyOnce` | `OneMovementPerOperation` |
| `AnnouncedOnce`, `VersionsAnnounced` | `OutcomeAnnouncedOnce`, `EventsCarryVersions` |
| `FundsDecided` | `FundsDecide` |
| `OneRowPerIdentity` | one row per identity, those not committed yet included |
| `AnswersAgreed`, `RefusalsReal` | `AnswersAgree`, `RefusalsAreReal` |
| `SerialImplemented` | `SerialSpec`: every step is one serial decision or changes no table |
| `LeasesExclude`, `LeasesCover` | `LeaseExclusive`, `LeaseCovers` |
| `RelaysDisciplined` | `RelayDiscipline`, part of the invariant |
| `OutboxRelayProofs!TypeCorrect`, `PendingProofs!TypeCorrect` | `TypeOK` of relays and pending workers: the order in which claims take due rows is a total one of exactly these |
| `MarkedIsNotSent` | `NoSendAfterMark` |
| `RelaysDeliver` | `DeliverySafe`, the safety part of `EventDelivery` |
| `WorkStaysCurrent` | `WorkIsCurrent` |
| `WaitsBounded` | `TriedAgainSoon` |
| `GivesUpRightly` | `GivenUpRightly` |
| `InboundProofs!TypeCorrect` | `TypeOK` of the consumers |
| `NothingIsLost`, `OneEffectOnly` | `NothingLost`, `OneEffect` |
| `BuriedForAReason`, `RecoveryReads` | `BuriedRightly`, `RecoveryOnlyReads` |
| `InboxAlwaysBacked` | `InboxBacked`: each inbox row has its operation |
| `SettlementImplemented` | `SettlementSafe`, the safety part of `InboundSettlement` |
| `AddExact`, `SubExact`, `MinorExact` | the checked operations return the exact result or fail |
| `CallsExact` | a call on a value leaves `Exact` true |
| `AlwaysExact`, `AlwaysOneText` | `Exact`, `OneText` |
| `ReaderInvariant` | the invariant of a client that reads pages |
| `PagesOrdered`, `PagesComplete`, `PagesTellHistory` | `PagesInOrder`, `NothingSkipped`, `PagesAreHistory` |

They rest on the named assumptions of the modules: `MaxMinor` is a natural number
(`MaxMinorAssumption`), the absent value is none of the others
(`NoneAssumption`), a row id is the call that inserts it or the wallet it opens,
and commands carry an amount of the type and a wallet of the model
(`StoreAssumption`), and the classes of actors are disjoint and the absent value is neither an actor nor
the code of an error (`ActorAssumption`).
For the relays: sizes and ids are of their types (`RelayAssumption`) and a back-off
is a natural number of ticks (`BackoffAssumption`, which TLC evaluates); likewise
for pending rows (`ResumeAssumption`, `DelayAssumption`). For consumers: numbers
are natural, letters and calls name wallets of the model, and `NONE` is neither a
consumer nor a message (`InboundAssumption`). For pages: ids and instants are
numbers, limits and grains of their types, and `EMPTY`, the text of no cursor, is
no cursor (`PagingAssumption`). For money: the digits are at least two, differ from
each other and from the dot, the sign and the space, no capital is a space, and texts
are sequences of characters (`MoneyAssumption`).

**The argument.** `TypeOK` is not inductive: that a commit keeps the balance in
range depends on the decision fitting the wallet *as it is at the commit*. The
inductive invariant is `TypeOK /\ Discipline`:

- `LockDiscipline`: past its read and until its transaction ends an actor holds
  the lock of its wallet, and what it read is what is stored;
- `DecisionDiscipline`: a movement that was decided fits that balance;
- `CallDiscipline`, `WorkerDiscipline`, `AuditorDiscipline`: who may be where, and
  with what row in hand. A call's row does not exist before it commits. A worker's
  is, from `LockRow` on, the committed one and not yet decided; two workers
  cannot be there with the same row, because it has one wallet and the wallet one
  lock (`CommitDisjoint`).

One lemma per action shows that it keeps the invariant, one step per conjunct.
`ApplyFits` shows what the decision promises. `LedgerChain`,
`TerminalIsFinal` and `MovementsAreVersions` then need only look at the two steps
that change tables, `Open` and `Commit` (`TableSteps`, `CommitWrites`).

For reversals the lock of the wallet protects a fact about *other rows*: the list
of reversals read earlier is still empty at the commit. `ReversalDiscipline` says
why: a reversal has the wallet of what it reverses, so whoever could add to the
list needs the lock that is held. A refund refers only to a bet, so the two kinds
of reversal compete only for bets, which is why `ApplyRollback` may look at
refunds only for a bet.

What an operation stands for (`OperationProofs`) is settled when it is decided and
written later, and the rows it was decided by are of other transactions. A
reference counts only when it is decided, and a decided row is final (`RowsStay`),
so what a decision says of its reference is still true when it is committed
(`Sensible`, `SensibleStays`). A commit then adds one entry for a row that had none
(`MovementRows`), takes the story of the row one sentence further (`StoryRows`),
and leaves the version of a wallet as far ahead of its ledger's length as it was
(`VersionRows`).

Identities (`SerialProofs`): a call waits for an index entry that is not committed
and fails on one that is, so rows with a common identity are never both about to
commit (`IdentityDiscipline`). `SafetyNetsUnused` says that a conflict is never one
of reversals; so whoever recovers has lost to a committed row and finds it, by its
key or, once the key is ruled out, by its external id (`Answered`).

From what is `Grasped` (next paragraph) and `LockDiscipline` follows `FundsDecide`:
the decision in hand at a commit is one of `Apply` on the wallet as it is then, and
`ApplyFounded` says when such a decision refuses money. An overflow is answered in
the step that decides it, so it is enough to see that no other step of any actor
gives that answer (`OverflowFounded`).

That `Wagering` implements `SerialWagering` takes every invariant above. `Grasped`
says what is in hand between the reads and the commit: the reference that was read
is the row still, and the decision is one that a single step would take now. It
stays so because nobody else adds or changes a row of the wallet that is held
(`HeldStays`), reversals of its rows included (`ReversalsStay`). A reference of
*another* wallet may change or appear meanwhile. If it was decided it is final. If
it was undecided or missing, the verdict is that of no reference, and the serial
step may miss it too, because it is the only row of its identity
(`VerdictStays`). No operation can be processed with it in either case.

For relays the invariant is `Typed /\ LeaseExclusive /\ LeaseCovers /\
RelayDiscipline`; no part is inductive without the others. A claim takes only due
rows, `LeaseCovers` says no row of a running batch is due (`ClaimedRowsAreFree`),
and so the batches stay disjoint; disjoint batches in turn mean that nobody else
shortens the time a row has left. `ReleaseKeeps` and `AdvanceKeeps` state once what
a relay may do to the rows of its batch, and every action of the loop is an
instance. `StepDelivers` maps each step to one of `EventDelivery` or to none. The
order of the due rows (`queue`) plays no part in these: they hold for any.

For pending workers the argument is that of the relays, with the attempt count in
place of the mark: a row that is held by a running batch is waiting, is not due and
has the count the worker read (`WorkIsCurrent`), because only its holder changes
it while the lease runs (`ReleaseKeeps`, `AdvanceKeeps`). `GivenUpRow` then says
that a rejection comes from the outcome of that very attempt.

For consumers the invariant is `Typed /\ Discipline /\ Books`. `Books` are the
safety properties with `InboxBacked`; none is inductive. `Discipline` says what a
consumer knows at each label and why nobody can make it untrue:

- `OperationKnown`: past `LockWallet` it holds the lock of its wallet, and past
  `Recheck` no operation *of that wallet* has its identity; past `InsertOperation`
  none at all has, and no open transaction (`Apart`);
- `RecordKnown`: what it found in the inbox is there, what it is about to commit
  there is not;
- `RecoveryKnown`: whoever has lost an insert can see its row, or an operation of
  another wallet with its identity (`Elsewhere`);
- `EndKnown`: before `Delete` the message is kept, before `SendToDLQ` there is a
  reason.

Operations, inbox rows and dead letters only grow (`Grows`), so what was found
stays found (`FactsStay`), and a consumer that a step does not touch keeps what it
knows unless a commit adds something that meets what it has in hand (`GoodStays`);
`CommitKeeps` and `PostKeeps` show that none does. From `Elsewhere` and `OneEffect`
follows that a recovered operation is never a replay, which is `RecoveryOnlyReads`.
`SettlementStep` maps each step to one of `InboundSettlement` or to a stutter.

That a reconciliation finds no divergence adds a sum to the invariant: the auditor
holds the lock of the wallet, so what it sums is the whole ledger of it, and the
links of `LedgerChain` make that sum telescope to the balance. The sum is a recursive
function of the position; `ChainSum` looks at the least position at which it would
differ from the balance after (`Least`, a well-founded argument that takes the place
of induction over data).

That `queue` is an order is not inductive alone. A claim must take rows out of it
with which the lease has already begun, a retry with no delay must put its row in,
and a second passing must add those whose time comes. One lemma for each of the three
operators (`WithoutInLine`, `PlacedInLine`, `FollowedInLine`) and `LeaseCovers`,
which keeps the rows of a running batch out of the due ones, carry the order through
every step (`NextInLine`, `NextOrder`).

For pages, a finite set of rows with distinct ids has exactly one listing in order,
found by taking the least row again and again; a page is a beginning of it.
The invariant of the reader adds to the first two properties that the cursor is the
place of the last entry it has got (`ClientDiscipline`), and that, as long as stamps
grow with the commits, no entry before one it has got is missing (`NoHole`): a page
then begins where the last one ended, and what is booked meanwhile comes after both.

`MoneyProofs` shows that the comparison before each operation keeps `Wrap` from
acting, and that what is refused does not fit. For the texts it shows that a text of
digits without a needless zero (`Canonical`) is determined by its number
(`CanonicalUnique`, by a shortest counterexample, one last digit at a time), that
each number has one (`CanonicalExists`), and so that it is the one `Numeral` prints
(`NumeralFacts`). A well-formed amount is such a text, the dot and two digits
(`WellFormedWhole`, `WholeWellFormed`), its number is that of its digits without the
dot (`WholeNumber`), and trimming leaves it alone. Hence what is accepted is what is
written for its number (`ParseExact`), what is written is accepted unless a sign
stands before it (`ReadBack`, `SignRefused`), and texts of different numbers differ
(`TextsDiffer`). `MoneyInv` carries this through the calls: a value at hand is in
range, exact, has a currency that trimming leaves alone, and is written as it was
read.

The type invariant of `PendingResume` is proved and in no run: what could be wrong
with it, the count that comes with a claim, is part of `WorkIsCurrent`.
TLC checked the invariants of the proofs on small instances as well, except
`MovementRows`, `StoryRows` and `VersionRows`: they quantify over all positions and
operations there might be, and stand for properties the runs check.

**Only model-checked**: `EveryCallAnswered`, `DeliveryLive`, `WaitsEnd`,
`SettlementLive` and `ListingEnds`, which are liveness under fairness and outside
the reach of the prover; and the two disagreements with the documents, for which
a run shows the behaviour.

## 5. Plan

1. *Done*: decision, tables, concurrent callers, the serial specification;
   `OutboxRelay` with `EventDelivery`; `PendingResume` with the limits of
   ADR 0019; `InboundConsumer` with `InboundSettlement`; `LedgerPaging`; `Money`;
   the theorems above.
2. The order in which the modules of a process start and stop.

## 6. Not modelled

- **HTTP adapter, authentication.** Parsing, status codes and tokens keep no state
  the properties speak of; each request ends in one of the use cases that are
  modelled. Paging is modelled with its handler.
- **Configuration.** Read once; its limits are the constants and assumptions of the
  models.
- **Composition.** The loops of the three workers, their contexts and their stops
  are modelled with the workers; the order in which `fx` starts and stops them is
  not.
- **Observability, load test.** Metrics and logs are written only; the load test is
  a client.
- **Other reads.** `GetWallet`, `GetTransaction` and the lookup by external id are
  single statements that change nothing.
- Disk failures and the loss of a commit that was acknowledged are the database's
  business. Isolation levels other than READ COMMITTED are not used.

## 7. Running

    tlc -workers 2 -config MCWagering_funds.cfg MCWagering
    tlc -workers 2 -config MCInboundConsumer_inbound.cfg MCInboundConsumer
    tlapm InboundProofs.tla
