-------------------------- MODULE InboundConsumer -------------------------
(***************************************************************************)
(* The consumers of wager-transactions.fifo: one per process, each takes   *)
(* one message at a time, handles it in one SQL transaction together with  *)
(* its inbox row, and then deletes it, leaves it for later or copies it to *)
(* the dead-letter queue.  Other channels submit operations meanwhile.     *)
(*                                                                         *)
(* The queue delivers at least once.  A message that was received may be   *)
(* visible again at any moment: the context of the handler starts when the *)
(* response arrives, its visibility when the queue sends it, and a         *)
(* fraction of a second is cut off on the way, so a handler can outlast    *)
(* it.  For the same reason an old receipt may still work or not.          *)
(*                                                                         *)
(* Every statement of a SQL transaction is a step of its own, except for   *)
(* the second look at the identities and the decision under the wallet     *)
(* lock: what happens between those is the subject of Wagering.            *)
(***************************************************************************)
EXTENDS Integers, SequencesExt

CONSTANTS
    Consumers,      \* the processes that poll
    Messages,       \* positions in the order producers send
    Mails,          \* what producers may send: per message [id, fate, key, ext, wallet, amount]
    Posts,          \* the operations sent by HTTP: [key, ext, wallet, amount]
    Wallets,        \* the wallets that may be opened; a FIFO group is a wallet
    Founded,        \* those that exist from the start
    Stoppable,      \* the consumers that may be told to stop while the model runs
    MaxReceives,    \* maxReceiveCount of the queue's redrive policy
    NONE

Fates == {"sound", "malformed", "refused", "doubtful"}

ASSUME InboundAssumption ==
    /\ Messages \subseteq Nat
    /\ \A letters \in Mails : \A m \in Messages :
          letters[m].fate \in Fates /\ letters[m].wallet \in Wallets
    /\ \A r \in Posts : r.wallet \in Wallets
    /\ Founded \subseteq Wallets
    /\ NONE \notin Consumers \cup Messages
    /\ MaxReceives \in Nat \ {0}

VARIABLES
    mail,       \* what they do send; it does not change
    place,      \* where each message is
    receives,   \* how often the queue has handed it out
    dead,       \* messages of which the dead-letter queue has a copy
    open,       \* wallets that exist
    ops,        \* the committed operations, in commit order
    inbox,      \* inbox_messages: the body of each completed messageId
    pc,         \* the call each consumer makes next
    cur,        \* the message it handles
    found,      \* whether its transaction has found the message in the inbox
    new,        \* whether its transaction has inserted the operation
    lock,       \* the consumer that holds the row lock of each wallet
    polling     \* whether the consumer may receive: false once it is told to stop

queueVars == <<place, receives, dead>>
tables == <<open, ops, inbox>>
handler == <<cur, found, new, lock>>
vars == <<mail, place, receives, dead, open, ops, inbox, pc, cur, found, new, lock, polling>>

Places == {"unsent", "visible", "inflight", "gone"}

\* In the SQL transaction that may write the operation and the inbox row.
Handling == {"inbox", "key", "ext", "lock", "recheck", "insert", "record"}
\* In the one that looks for the winner of a lost insert.
Recovering == {"recover", "recoverKey"}
InTransaction == Handling \cup Recovering \cup {"commit"}
Labels == InTransaction \cup {"idle", "ack", "bury"}

-----------------------------------------------------------------------------
(* Messages and operations.                                                *)

Request(letter) == [f \in {"key", "ext", "wallet", "amount"} |-> letter[f]]

\* ParseInbound: the body is an envelope of the right type with data that make
\* a command.  It looks at nothing but the body.
Parses(letter) == letter.fate # "malformed"

\* MessageDeduplicationId of the copy: the envelope's id, or the hash of a body
\* that has none.
CopyId(letter) ==
    IF Parses(letter) THEN <<"id", letter.id>> ELSE <<"hash", letter>>

\* The canonical payload leaves out the idempotency key.
SamePayload(r, s) == r.ext = s.ext /\ r.wallet = s.wallet /\ r.amount = s.amount

SameIdentity(r, s) == r.key = s.key \/ r.ext = s.ext

Operations == ToSet(ops)

Replayable(r) == \E s \in Operations : s.key = r.key /\ SamePayload(r, s)
PayloadConflict(r) == \E s \in Operations : s.key = r.key /\ ~SamePayload(r, s)
Duplicate(r) == \E s \in Operations : s.ext = r.ext /\ s.key # r.key
Twin(r) == \E s \in Operations : s.ext = r.ext /\ s.key = r.key
KeyKnown(r) == \E s \in Operations : s.key = r.key
ExtKnown(r) == \E s \in Operations : s.ext = r.ext
Clash(r) == \E s \in Operations : SameIdentity(r, s)

\* The inbox row of a letter, as Get finds it and compares its hash; two hashes
\* agree when the bodies do.
Recorded(letter) == letter.id \in DOMAIN inbox /\ inbox[letter.id] = letter
Mismatch(letter) == letter.id \in DOMAIN inbox /\ inbox[letter.id] # letter

\* An index entry another consumer has inserted but not committed.
PendingOperation(r) ==
    {c \in Consumers : /\ pc[c] \in {"record", "commit"} /\ new[c]
                       /\ SameIdentity(r, Request(mail[cur[c]]))}
PendingRecord(i) ==
    {c \in Consumers : pc[c] = "commit" /\ ~found[c] /\ mail[cur[c]].id = i}

-----------------------------------------------------------------------------
(* The queue.                                                              *)

\* FIFO: a message is handed out when all earlier ones of its group have left.
First(m) ==
    /\ place[m] = "visible"
    /\ \A k \in Messages :
          k < m /\ mail[k].wallet = mail[m].wallet => place[k] = "gone"

Send(m) ==
    /\ place[m] = "unsent"
    /\ \A k \in Messages : k < m /\ mail[k].wallet = mail[m].wallet => place[k] # "unsent"
    /\ place' = [place EXCEPT ![m] = "visible"]
    /\ UNCHANGED <<mail, receives, dead, open, ops, inbox, pc, cur, found, new, lock, polling>>

HandOut(m) ==
    /\ First(m)
    /\ receives[m] < MaxReceives
    /\ place' = [place EXCEPT ![m] = "inflight"]
    /\ receives' = [receives EXCEPT ![m] = @ + 1]
    /\ UNCHANGED dead

\* A poll meets a message that was handed out MaxReceives times already.
Redrive(m) ==
    /\ First(m)
    /\ receives[m] = MaxReceives
    /\ \E c \in Consumers : polling[c]
    /\ place' = [place EXCEPT ![m] = "gone"]
    /\ dead' = dead \cup {m}
    /\ UNCHANGED <<mail, receives, open, ops, inbox, pc, cur, found, new, lock, polling>>

\* The visibility of a message ends.
Expire(m) ==
    /\ place[m] = "inflight"
    /\ place' = [place EXCEPT ![m] = "visible"]
    /\ UNCHANGED <<mail, receives, dead, open, ops, inbox, pc, cur, found, new, lock, polling>>

-----------------------------------------------------------------------------
(* A SQL transaction of a consumer.                                        *)

Goto(c, label) ==
    /\ pc' = [pc EXCEPT ![c] = label]
    /\ UNCHANGED <<mail, place, receives, dead, open, ops, inbox, cur, found, new, lock, polling>>

Unlock(c) == lock' = [w \in Wallets |-> IF lock[w] = c THEN NONE ELSE lock[w]]

\* The transaction ends without effect, committed or rolled back.
EndTo(c, label) ==
    /\ pc' = [pc EXCEPT ![c] = label]
    /\ found' = [found EXCEPT ![c] = FALSE]
    /\ new' = [new EXCEPT ![c] = FALSE]
    /\ Unlock(c)
    /\ UNCHANGED <<mail, place, receives, dead, open, ops, inbox, cur, polling>>

\* Mutant of Done: clearInFlight is forgotten.
DoneHolding(c) == pc' = [pc EXCEPT ![c] = "idle"] /\ UNCHANGED cur

Done(c) ==
    /\ pc' = [pc EXCEPT ![c] = "idle"]
    /\ cur' = [cur EXCEPT ![c] = NONE]

\* Mutant of Retry: the error is returned by the loop, which ends.
LoopEnded(c) ==
    /\ pc' = [pc EXCEPT ![c] = "ended"]
    /\ UNCHANGED cur
    /\ found' = [found EXCEPT ![c] = FALSE]
    /\ new' = [new EXCEPT ![c] = FALSE]
    /\ Unlock(c)
    /\ UNCHANGED <<mail, place, receives, dead, open, ops, inbox, polling>>

\* A message in flight is visible again at once when the delay is none, and
\* otherwise stays out of sight until the delay has passed.
ChangeVisibility(m, seconds) ==
    place' = IF place[m] = "inflight" /\ seconds = 0
             THEN [place EXCEPT ![m] = "visible"] ELSE place

\* A back-off is rounded up to a second.
ShortestBackoff == 1

\* It is rolled back and the message left for later, hidden for a back-off, or
\* until its visibility ends when the call fails.
Retry(c) ==
    /\ ChangeVisibility(cur[c], ShortestBackoff)
    /\ Done(c)
    /\ found' = [found EXCEPT ![c] = FALSE]
    /\ new' = [new EXCEPT ![c] = FALSE]
    /\ Unlock(c)
    /\ UNCHANGED <<mail, receives, dead, open, ops, inbox, polling>>

\* Mutant of Lasting: a wallet that is not found counts as a permanent failure.
LastingMissing == {"invalid", "mismatch", "validation", "rejection", "not found"}

\* DispositionOf: the failures that no further attempt will change.
Lasting == {"invalid", "mismatch", "validation", "rejection"}

\* finish: a message whose handling failed is copied or left for later.
Finish(c, failure) ==
    \/ failure \in Lasting /\ EndTo(c, "bury")
    \/ failure \notin Lasting /\ Retry(c)

\* submitInTx has the operation of this message: record it, unless it is.
Answered(c) == Goto(c, IF found[c] THEN "commit" ELSE "record")

\* Mutant of GetInbox: the hash of the body is not compared.
GetInboxAnyHash(c) ==
    /\ pc[c] = "inbox"
    /\ pc' = [pc EXCEPT ![c] = "key"]
    /\ found' = [found EXCEPT ![c] = mail[cur[c]].id \in DOMAIN inbox]
    /\ UNCHANGED <<mail, place, receives, dead, open, ops, inbox, cur, new, lock, polling>>

GetInbox(c) ==
    /\ pc[c] = "inbox"
    /\ \/ Mismatch(mail[cur[c]]) /\ Finish(c, "mismatch")
       \/ /\ ~Mismatch(mail[cur[c]])
          /\ pc' = [pc EXCEPT ![c] = "key"]
          /\ found' = [found EXCEPT ![c] = Recorded(mail[cur[c]])]
          /\ UNCHANGED <<mail, place, receives, dead, open, ops, inbox, cur, new, lock, polling>>

FindKey(c) ==
    LET r == Request(mail[cur[c]]) IN
    /\ pc[c] = "key"
    /\ \/ Replayable(r) /\ Answered(c)
       \/ PayloadConflict(r) /\ Finish(c, "rejection")
       \/ ~KeyKnown(r) /\ Goto(c, "ext")

\* The keys are compared here, the payloads are not.
FindExt(c) ==
    LET r == Request(mail[cur[c]]) IN
    /\ pc[c] = "ext"
    /\ \/ Twin(r) /\ Answered(c)
       \/ Duplicate(r) /\ Finish(c, "rejection")
       \/ ~ExtKnown(r) /\ Goto(c, "lock")

LockWallet(c) ==
    LET w == mail[cur[c]].wallet IN
    /\ pc[c] = "lock"
    /\ \/ w \notin open /\ Finish(c, "not found")
       \/ /\ w \in open
          /\ lock[w] = NONE
          /\ lock' = [lock EXCEPT ![w] = c]
          /\ pc' = [pc EXCEPT ![c] = "recheck"]
          /\ UNCHANGED <<mail, place, receives, dead, open, ops, inbox, cur, found, new, polling>>

\* Both lookups at once: what they may find that forbids the operation.
Refused(r) == PayloadConflict(r) \/ (~KeyKnown(r) /\ Duplicate(r))

\* Mutant of Recheck: the identities are not looked at again under the lock.
RecheckSkipped(c) ==
    LET letter == mail[cur[c]] IN
    /\ pc[c] = "recheck"
    /\ \/ letter.fate # "sound" /\ Finish(c, "validation")
       \/ letter.fate # "refused" /\ Goto(c, "insert")

\* A command may be invalid, or a credit pass the int64 range of its wallet.
Recheck(c) ==
    LET letter == mail[cur[c]]
        r == Request(letter)
    IN /\ pc[c] = "recheck"
       /\ \/ Replayable(r) /\ Answered(c)
          \/ Refused(r) /\ Finish(c, "rejection")
          \/ ~Clash(r) /\ letter.fate # "sound" /\ Finish(c, "validation")
          \/ ~Clash(r) /\ letter.fate # "refused" /\ Goto(c, "insert")

\* Mutant of InsertOperation: the unique indexes over identities are missing.
InsertUnchecked(c) ==
    /\ pc[c] = "insert"
    /\ pc' = [pc EXCEPT ![c] = IF found[c] THEN "commit" ELSE "record"]
    /\ new' = [new EXCEPT ![c] = TRUE]
    /\ UNCHANGED <<mail, place, receives, dead, open, ops, inbox, cur, found, lock, polling>>

\* A unique violation rolls everything back.
InsertOperation(c) ==
    LET r == Request(mail[cur[c]]) IN
    /\ pc[c] = "insert"
    /\ PendingOperation(r) = {}
    /\ \/ Clash(r) /\ EndTo(c, "recover")
       \/ /\ ~Clash(r)
          /\ pc' = [pc EXCEPT ![c] = IF found[c] THEN "commit" ELSE "record"]
          /\ new' = [new EXCEPT ![c] = TRUE]
          /\ UNCHANGED <<mail, place, receives, dead, open, ops, inbox, cur, found, lock, polling>>

InsertRecord(c) ==
    LET i == mail[cur[c]].id IN
    /\ pc[c] = "record"
    /\ PendingRecord(i) = {}
    /\ \/ i \in DOMAIN inbox /\ EndTo(c, "recover")
       \/ i \notin DOMAIN inbox /\ Goto(c, "commit")

\* What a commit makes visible.
Install(c) ==
    LET letter == mail[cur[c]] IN
    /\ ops' = IF new[c] THEN Append(ops, Request(letter)) ELSE ops
    /\ inbox' = IF found[c] THEN inbox
                ELSE [i \in DOMAIN inbox \cup {letter.id} |->
                         IF i = letter.id THEN letter ELSE inbox[i]]
    /\ UNCHANGED open

\* The answer of a commit that was executed may be lost.
Commit(c) ==
    /\ pc[c] = "commit"
    /\ Install(c)
    /\ \/ pc' = [pc EXCEPT ![c] = "ack"] /\ UNCHANGED cur
       \/ Done(c)
    /\ found' = [found EXCEPT ![c] = FALSE]
    /\ new' = [new EXCEPT ![c] = FALSE]
    /\ Unlock(c)
    /\ UNCHANGED <<mail, place, receives, dead, polling>>

\* recoverInbound, in a fresh transaction.
Recover(c) ==
    /\ pc[c] = "recover"
    /\ \/ Mismatch(mail[cur[c]]) /\ Finish(c, "mismatch")
       \/ /\ ~Mismatch(mail[cur[c]])
          /\ pc' = [pc EXCEPT ![c] = "recoverKey"]
          /\ found' = [found EXCEPT ![c] = Recorded(mail[cur[c]])]
          /\ UNCHANGED <<mail, place, receives, dead, open, ops, inbox, cur, new, lock, polling>>

\* recoverIdempotentInsert, and the inbox row when there is none: a conflict of
\* this insert is ignored, but it has aborted the transaction, so that the
\* commit fails.  An ErrConflict without a winner is retried.
RecoverKey(c) ==
    LET r == Request(mail[cur[c]])
        i == mail[cur[c]].id
    IN /\ pc[c] = "recoverKey"
       /\ \/ Replayable(r) /\ (found[c] \/ i \notin DOMAIN inbox) /\ Goto(c, "commit")
          \/ Replayable(r) /\ ~found[c] /\ i \in DOMAIN inbox /\ Finish(c, "aborted")
          \/ Refused(r) /\ Finish(c, "rejection")
          \/ ~Clash(r) /\ Finish(c, "conflict")
       /\ Replayable(r) /\ ~found[c] => PendingRecord(i) = {}

\* A statement fails, or the context of the handler ends.
Fail(c) == pc[c] \in InTransaction /\ Retry(c)

-----------------------------------------------------------------------------
(* One consumer.                                                           *)

Poller(c) == polling[c] /\ pc[c] = "idle"

Receive(c, m) ==
    /\ Poller(c)
    /\ HandOut(m)
    /\ pc' = [pc EXCEPT ![c] = IF Parses(mail[m]) THEN "inbox" ELSE "bury"]
    /\ cur' = [cur EXCEPT ![c] = m]
    /\ UNCHANGED <<mail, open, ops, inbox, found, new, lock, polling>>

\* The message is handed out and the response is lost.
LoseResponse(m) ==
    /\ \E c \in Consumers : Poller(c)
    /\ HandOut(m)
    /\ UNCHANGED <<mail, open, ops, inbox, pc, cur, found, new, lock, polling>>

\* The receipt may be too old to delete anything, or the call fail.
Delete(c) ==
    /\ pc[c] = "ack"
    /\ place' \in {place, [place EXCEPT ![cur[c]] = "gone"]}
    /\ Done(c)
    /\ UNCHANGED <<mail, receives, dead, open, ops, inbox, found, new, lock, polling>>

\* Mutant of SendToDLQ: the error of the send is not looked at.
DeadLetterUnsent(c) ==
    /\ pc[c] = "bury"
    /\ dead' \in {dead, dead \cup {cur[c]}}
    /\ pc' = [pc EXCEPT ![c] = "ack"]
    /\ UNCHANGED <<mail, place, receives, open, ops, inbox, cur, found, new, lock, polling>>

\* The dead-letter queue drops a copy whose id it has seen within minutes.
SendToDLQ(c) ==
    LET m == cur[c]
        seen == \E d \in dead : CopyId(mail[d]) = CopyId(mail[m])
    IN /\ pc[c] = "bury"
       /\ \/ Retry(c)
          \/ /\ dead' \in {dead \cup {m}} \cup (IF seen THEN {dead} ELSE {})
             /\ \/ pc' = [pc EXCEPT ![c] = "ack"] /\ UNCHANGED cur
                \/ Done(c)
             /\ UNCHANGED <<mail, place, receives, open, ops, inbox, found, new, lock, polling>>

\* OnStop: no further receive; what is in flight is finished.
Stop(c) ==
    /\ c \in Stoppable /\ polling[c]
    /\ polling' = [polling EXCEPT ![c] = FALSE]
    /\ UNCHANGED <<mail, place, receives, dead, open, ops, inbox, pc, cur, found, new, lock>>

\* The deadline of the stop comes first: the visibility is set to zero, and
\* the handler runs on until the process ends.
ReleaseInFlight(c) ==
    /\ ~polling[c] /\ pc[c] # "idle"
    /\ place[cur[c]] = "inflight"
    /\ ChangeVisibility(cur[c], 0)
    /\ UNCHANGED <<mail, receives, dead, open, ops, inbox, pc, cur, found, new, lock, polling>>

\* The process ends, by a crash or after its stop, and another one starts.
Restart(c) ==
    /\ pc[c] # "idle" \/ ~polling[c]
    /\ Done(c)
    /\ found' = [found EXCEPT ![c] = FALSE]
    /\ new' = [new EXCEPT ![c] = FALSE]
    /\ Unlock(c)
    /\ polling' = [polling EXCEPT ![c] = TRUE]
    /\ UNCHANGED <<mail, place, receives, dead, open, ops, inbox>>

-----------------------------------------------------------------------------
(* Other channels.                                                         *)

Open(w) ==
    /\ w \notin open
    /\ open' = open \cup {w}
    /\ UNCHANGED <<mail, place, receives, dead, ops, inbox, pc, cur, found, new, lock, polling>>

\* Submit of an HTTP call, whose statements Wagering shows to be one step.
Post(r) ==
    /\ r.wallet \in open
    /\ lock[r.wallet] = NONE
    /\ ~Clash(r) /\ PendingOperation(r) = {}
    /\ ops' = Append(ops, r)
    /\ UNCHANGED <<mail, place, receives, dead, open, inbox, pc, cur, found, new, lock, polling>>

Init ==
    /\ mail \in Mails
    /\ place = [m \in Messages |-> "unsent"]
    /\ receives = [m \in Messages |-> 0]
    /\ dead = {}
    /\ open = Founded /\ ops = <<>> /\ inbox = [i \in {} |-> NONE]
    /\ pc = [c \in Consumers |-> "idle"]
    /\ cur = [c \in Consumers |-> NONE]
    /\ found = [c \in Consumers |-> FALSE]
    /\ new = [c \in Consumers |-> FALSE]
    /\ lock = [w \in Wallets |-> NONE]
    /\ polling = [c \in Consumers |-> TRUE]

\* What a handler does next; its context makes sure that it does something.
Step(c) ==
    \/ GetInbox(c) \/ FindKey(c) \/ FindExt(c) \/ LockWallet(c) \/ Recheck(c)
    \/ InsertOperation(c) \/ InsertRecord(c) \/ Commit(c)
    \/ Recover(c) \/ RecoverKey(c)
    \/ Fail(c)
    \/ Delete(c) \/ SendToDLQ(c)

Poll(m) == Redrive(m) \/ \E c \in Consumers : Receive(c, m)

Next ==
    \/ \E m \in Messages : Send(m) \/ Expire(m) \/ Poll(m) \/ LoseResponse(m)
    \/ \E c \in Consumers : Step(c) \/ Stop(c) \/ ReleaseInFlight(c) \/ Restart(c)
    \/ \E w \in Wallets : Open(w)
    \/ \E r \in Posts : Post(r)

Spec == Init /\ [][Next]_vars

(***************************************************************************)
(* A handler goes on or its context ends, visibility ends, a stopped       *)
(* process is started again, and a message that is first in its group is   *)
(* handed out when consumers keep polling.  Nothing is assumed of the      *)
(* database, of the calls to the queue, or of wallets that may be missing. *)
(***************************************************************************)
Fairness ==
    /\ \A c \in Consumers : WF_vars(Step(c)) /\ WF_vars(~polling[c] /\ Restart(c))
    /\ \A m \in Messages : WF_vars(Expire(m)) /\ SF_vars(Poll(m))

FairSpec == Spec /\ Fairness

-----------------------------------------------------------------------------
(* Properties.                                                             *)

TypeOK ==
    /\ mail \in Mails
    /\ place \in [Messages -> Places]
    /\ receives \in [Messages -> 0..MaxReceives]
    /\ dead \subseteq Messages
    /\ open \subseteq Wallets
    /\ Operations \subseteq {Request(mail[m]) : m \in Messages} \cup Posts
    /\ \A i \in DOMAIN inbox : inbox[i].id = i /\ \E m \in Messages : inbox[i] = mail[m]
    /\ pc \in [Consumers -> Labels]
    /\ cur \in [Consumers -> Messages \cup {NONE}]
    /\ \A c \in Consumers : pc[c] = "idle" <=> cur[c] = NONE
    /\ found \in [Consumers -> BOOLEAN]
    /\ new \in [Consumers -> BOOLEAN]
    /\ lock \in [Wallets -> Consumers \cup {NONE}]
    /\ polling \in [Consumers -> BOOLEAN]

(* A message leaves the queue only when the inbox has its messageId with   *)
(* its body or the dead-letter queue has a copy under its id, however many *)
(* consumers handle it, whatever they crash between and however late       *)
(* deletes arrive (consumer.go:131 and 153, consume.go:104).               *)
NothingLost ==
    \A m \in Messages : place[m] = "gone" =>
       Recorded(mail[m]) \/ \E d \in dead : CopyId(mail[d]) = CopyId(mail[m])

(* A completed inbox row has an operation behind it, with the key and the  *)
(* external id of the message: both come with one commit, or the row with  *)
(* the replay of an operation that was there (inbound.go:84-98, 118-133).  *)
InboxBacked ==
    \A i \in DOMAIN inbox :
       \E s \in Operations : s.key = inbox[i].key /\ s.ext = inbox[i].ext

(* HTTP calls, redelivered messages and copies of a message under other    *)
(* ids make at most one operation per key and per external id.             *)
OneEffect ==
    \A i, j \in DOMAIN ops : SameIdentity(ops[i], ops[j]) => i = j

(* A message is dead-lettered only for a reason that does not go away: its *)
(* own content, another body or another operation under its identity, or   *)
(* MaxReceives deliveries.  A missing wallet, a lost race, a failure of    *)
(* the database or an end of the context is never enough.                  *)
BuriedRightly ==
    \A m \in dead :
       \/ mail[m].fate # "sound"
       \/ receives[m] = MaxReceives
       \/ Mismatch(mail[m])
       \/ PayloadConflict(Request(mail[m])) \/ Duplicate(Request(mail[m]))

(* A lost insert race is settled by looking, never by writing: whoever has *)
(* lost it finds its inbox row, or an operation that refuses its own.  So  *)
(* the insert of recoverInbound, whose conflict would be swallowed on an   *)
(* aborted transaction (inbound.go:124-132), is never executed, and there  *)
(* is a winner: the wallet lock and the wallet in the payload see to it.   *)
RecoveryOnlyReads ==
    \A c \in Consumers : pc[c] = "recoverKey" =>
       /\ Clash(Request(mail[cur[c]]))
       /\ Replayable(Request(mail[cur[c]])) => found[c]

Letters == UNION {{letters[m] : m \in Messages} : letters \in Mails}

Settlement == INSTANCE InboundSettlement WITH
    Numbers <- Messages,
    RequestOf <- Request,
    CopyOf <- CopyId,
    sent <- {<<m, mail[m]>> : m \in {k \in Messages : place[k] # "unsent"}},
    queued <- {<<m, mail[m]>> : m \in {k \in Messages : place[k] \in {"visible", "inflight"}}},
    recorded <- inbox,
    buried <- {CopyId(mail[m]) : m \in dead},
    operations <- Operations

(* The consumers implement the settlement of messages: no step of theirs   *)
(* does more than record, bury or remove a message, each in its time.      *)
SettlementSafe == Settlement!Safe

(* Every message that was sent leaves the queue in the end, even when its  *)
(* wallet never exists, the database never answers or consumers come and   *)
(* go: each delivery counts, and the redrive policy ends the counting.     *)
SettlementLive == Settlement!Live
=============================================================================
