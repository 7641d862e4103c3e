---------------------------- MODULE LedgerPaging --------------------------
(***************************************************************************)
(* GET /wallets/{walletId}/ledger: a client reads the ledger of a wallet   *)
(* page by page, each page in a request and a SQL statement of its own,    *)
(* while operations append entries.  Between two pages the service keeps   *)
(* nothing: the client carries (created_at, id) of its last entry.         *)
(*                                                                         *)
(* An entry takes its stamp from the clock of the process that books it,   *)
(* under the lock of the wallet, so that stamps of one clock grow with the *)
(* commits; clocks of different processes need not agree, and two stamps   *)
(* that differ in nanoseconds only are stored as one.  A stamp here is any *)
(* instant, and the properties say which order they need.                  *)
(***************************************************************************)
EXTENDS Integers, FiniteSets, SequencesExt

CONSTANTS
    Wallets,
    EntryIds,       \* ids of entries, which are ordered as the texts are
    Instants,       \* readings of the clocks, in the unit of RFC3339Nano
    Grain,          \* what created_at keeps: one in so many of those units
    Second,         \* units in a second
    Limits,         \* the values of the query parameter limit, EMPTY if absent
    DefaultLimit,   \* defaultLedgerLimit, 50
    MaxLimit,       \* maxLedgerLimit, 100
    MaxListLimit,   \* maxLedgerListLimit of the repository, 101
    EMPTY

ASSUME PagingAssumption ==
    /\ EntryIds \subseteq Nat /\ Instants \subseteq Nat
    /\ Grain \in Nat \ {0} /\ Second \in Nat \ {0}
    /\ EMPTY \notin Nat \cup [at : Nat, id : Nat]    \* no cursor is the empty text
    /\ Limits \subseteq Nat \cup {EMPTY}
    /\ DefaultLimit \in 1..MaxLimit
    /\ MaxLimit \in Nat /\ MaxListLimit = MaxLimit + 1

VARIABLES
    opened,     \* wallets that exist
    entries,    \* wallet_ledger_entries in commit order: [wallet, id, at]
    reading,    \* the wallet whose ledger the client reads
    phase,      \* "off", "paging" while it has a page to ask for, or "done"
    cursor,     \* the cursor it has been given, EMPTY at first
    seen,       \* the entries it has got, in the order of the pages
    base        \* the entries that were there when it began

vars == <<opened, entries, reading, phase, cursor, seen, base>>
client == <<reading, phase, cursor, seen, base>>

-----------------------------------------------------------------------------
(* The table.                                                              *)

Lowest(m, n) == IF m < n THEN m ELSE n

Precedes(a, b) == a.at < b.at \/ (a.at = b.at /\ a.id < b.id)

Ledger(w) == {e \in ToSet(entries) : e.wallet = w}

\* timestamptz cuts a stamp off at the microsecond.
Stored(instant) == (instant \div Grain) * Grain

Insert(w, i, instant) ==
    /\ \A e \in ToSet(entries) : e.id # i
    /\ entries' = Append(entries, [wallet |-> w, id |-> i, at |-> Stored(instant)])

\* Mutant of After: the place in the ledger is taken from the stamp alone.
AfterStamp(w, place) ==
    IF place = EMPTY THEN Ledger(w) ELSE {e \in Ledger(w) : place.at < e.at}

\* WHERE wallet_id = $1 AND (created_at, id) > ($2, $3).
After(w, place) ==
    IF place = EMPTY THEN Ledger(w) ELSE {e \in Ledger(w) : Precedes(place, e)}

Ordered(s) == \A i, j \in DOMAIN s : i < j => Precedes(s[i], s[j])

\* ORDER BY created_at, id.
InOrder(S) ==
    CHOOSE rows \in [1..Cardinality(S) -> S] : ToSet(rows) = S /\ Ordered(rows)

\* LIMIT n, where n is bounded once more.
ListByWallet(w, place, n) ==
    LET rows == InOrder(After(w, place))
    IN SubSeq(rows, 1, Lowest(Len(rows), Lowest(n, MaxListLimit)))

-----------------------------------------------------------------------------
(* The use case.                                                           *)

\* Mutant of EncodeCursor: the layout is RFC3339, without the fraction.
EncodeCursorSeconds(e) == [at |-> (e.at \div Second) * Second, id |-> e.id]

\* The text keeps nanoseconds, and the id behind the first bar as it is.
EncodeCursor(e) == [at |-> e.at, id |-> e.id]

\* What ParseLimit refuses never gets here; 0 is what other callers pass.
PageSize(limit) ==
    IF limit = EMPTY \/ limit = 0 THEN DefaultLimit ELSE Lowest(limit, MaxLimit)

\* One row more than the page holds shows that there is a next page.
Fetched(limit) == PageSize(limit) + 1

\* Mutant of ListLedger: the next page begins after the row that was cut off.
ListLedgerFromExtra(w, place, limit) ==
    LET items == ListByWallet(w, place, Fetched(limit))
        size == PageSize(limit)
    IN IF Len(items) > size
       THEN [entries |-> SubSeq(items, 1, size), next |-> EncodeCursor(items[size + 1])]
       ELSE [entries |-> items, next |-> EMPTY]

\* Mutant of ListLedger: a cursor is given back with the last page, too.
ListLedgerAlwaysNext(w, place, limit) ==
    LET items == ListByWallet(w, place, PageSize(limit))
    IN [entries |-> items, next |-> IF items = <<>> THEN place ELSE EncodeCursor(Last(items))]

ListLedger(w, place, limit) ==
    LET items == ListByWallet(w, place, Fetched(limit))
        size == PageSize(limit)
    IN IF Len(items) > size
       THEN [entries |-> SubSeq(items, 1, size), next |-> EncodeCursor(items[size])]
       ELSE [entries |-> items, next |-> EMPTY]

-----------------------------------------------------------------------------
(* Actions.                                                                *)

\* OpenWallet, with an entry when there is an initial balance.
Open(w) ==
    /\ w \notin opened
    /\ opened' = opened \cup {w}
    /\ \/ UNCHANGED entries
       \/ \E i \in EntryIds, t \in Instants : Insert(w, i, t)
    /\ UNCHANGED client

\* An operation that moves money commits.
Book(w) ==
    /\ w \in opened
    /\ \E i \in EntryIds, t \in Instants : Insert(w, i, t)
    /\ UNCHANGED <<opened, client>>

\* The client turns to a wallet; one that does not exist is answered with 404.
Begin(w) ==
    /\ phase \in {"off", "done"}
    /\ w \in opened
    /\ reading' = w
    /\ phase' = "paging"
    /\ cursor' = EMPTY
    /\ seen' = <<>>
    /\ base' = Ledger(w)
    /\ UNCHANGED <<opened, entries>>

\* A request; the limit may be another one in each.  A request that fails, or
\* whose answer is lost, changes nothing and is sent again.
Page ==
    /\ phase = "paging"
    /\ \E limit \in Limits :
          LET page == ListLedger(reading, cursor, limit) IN
          /\ seen' = seen \o page.entries
          /\ cursor' = page.next
          /\ phase' = IF page.next = EMPTY THEN "done" ELSE "paging"
    /\ UNCHANGED <<opened, entries, reading, base>>

Init ==
    /\ opened = {} /\ entries = <<>>
    /\ reading \in Wallets
    /\ phase = "off" /\ cursor = EMPTY /\ seen = <<>> /\ base = {}

Next ==
    \/ \E w \in Wallets : Open(w) \/ Book(w) \/ Begin(w)
    \/ Page

Spec == Init /\ [][Next]_vars

\* The client asks for the next page as long as there is one.
FairSpec == Spec /\ WF_vars(Page)

-----------------------------------------------------------------------------
(* Properties.                                                             *)

(* The pages together are entries of this wallet in the order created_at,  *)
(* id, without one twice, whatever is booked between two of them, with     *)
(* whatever stamp, and however the client changes the limit                *)
(* (docs/api/wallets.md:48).                                               *)
PagesInOrder ==
    /\ Ordered(seen)
    /\ ToSet(seen) \subseteq Ledger(reading)

(* No page leaves a hole: what was booked when the client began and lies   *)
(* before its cursor it has got, and when there is no next page it has got *)
(* all of it, also when entries share a stamp or stamps go backwards.      *)
NothingSkipped ==
    \A e \in base :
       phase = "done" \/ (cursor # EMPTY /\ ~Precedes(cursor, e)) => e \in ToSet(seen)

(* When the stamps of a wallet grow with its commits, as those of one      *)
(* clock do, pages taken in the middle of the booking are a history: what  *)
(* was booked before an entry that was returned has been returned before.  *)
PagesAreHistory ==
    LET booked == {i \in DOMAIN entries : entries[i].wallet = reading}
    IN (\A i, j \in booked : i < j => Precedes(entries[i], entries[j])) =>
       \A i, j \in booked, l \in DOMAIN seen :
          i < j /\ seen[l] = entries[j] => \E k \in 1..l - 1 : seen[k] = entries[i]

(* A client that goes on asking comes to the end once nothing is booked    *)
(* any more: every page with a next one takes it further (read.go:62-66).  *)
ListingEnds == phase = "paging" ~> phase = "done"
=============================================================================
