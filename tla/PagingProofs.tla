---------------------------- MODULE PagingProofs --------------------------
(***************************************************************************)
(* Proofs about LedgerPaging for any wallets, entries, clocks and limits.  *)
(*                                                                         *)
(* First, what a page is: the rows after a cursor are finitely many, so    *)
(* they have one listing in the order created_at, id, of which a page is a *)
(* beginning.  Then the invariant of a client that reads page after page.  *)
(***************************************************************************)
EXTENDS LedgerPaging, FiniteSetTheorems, SequenceTheorems, WellFoundedInduction, TLAPS

Row == [wallet : Wallets, id : EntryIds, at : Nat]

\* Rows of which no two have the same id.
Sortable(S) == S \subseteq Row /\ \A a, b \in S : a.id = b.id => a = b

\* What has a place in a ledger: a row or a cursor.
Places == Row \cup [at : Nat, id : Nat]

-----------------------------------------------------------------------------
(* The order of the rows.                                                  *)

LEMMA PrecedesOrder ==
    \A a, b, c \in Places :
       /\ Precedes(a, b) /\ Precedes(b, c) => Precedes(a, c)
       /\ Precedes(a, b) => ~Precedes(b, a)
       /\ ~Precedes(a, b) /\ ~Precedes(b, a) => a.id = b.id /\ a.at = b.at
<1> SUFFICES ASSUME NEW a \in Places, NEW b \in Places, NEW c \in Places
             PROVE  /\ Precedes(a, b) /\ Precedes(b, c) => Precedes(a, c)
                    /\ Precedes(a, b) => ~Precedes(b, a)
                    /\ ~Precedes(a, b) /\ ~Precedes(b, a) => a.id = b.id /\ a.at = b.at
  OBVIOUS
<1>1. \A p \in Places : p.at \in Nat /\ p.id \in Nat
  BY PagingAssumption DEF Places, Row
<1> QED BY <1>1 DEF Precedes

LEMMA SortableOrder ==
    ASSUME NEW S, Sortable(S)
    PROVE  /\ S \subseteq Places
           /\ \A a, b \in S : a # b => Precedes(a, b) \/ Precedes(b, a)
<1>1. S \subseteq Places
  BY DEF Sortable, Places
<1> QED BY <1>1, PrecedesOrder DEF Sortable

\* Every set of natural numbers has a least one: induction over data, in the
\* form of a least counterexample.
LEMMA Least ==
    ASSUME NEW T \in SUBSET Nat, T # {}
    PROVE  \E n \in T : \A m \in T : n <= m
<1> DEFINE R == OpToRel(<, Nat)
<1>1. IsWellFoundedOn(R, Nat)
  BY NatLessThanWellFounded
<1>2. PICK n \in T : \A m \in T : ~ (<<m, n>> \in R)
  <2> HIDE DEF R
  <2> QED BY <1>1, WFMin
<1>3. \A m \in T : ~ (m < n)
  BY <1>2 DEF OpToRel
<1> QED BY <1>3

\* A last row.
LastOf(S, m) == m \in S /\ \A e \in S \ {m} : Precedes(e, m)

LEMMA LastRow ==
    ASSUME NEW S, IsFiniteSet(S), Sortable(S), S # {}
    PROVE  \E m : LastOf(S, m)
<1> DEFINE Bad(T) == T \subseteq S /\ T # {} /\ ~ \E m : LastOf(T, m)
           sizes == {n \in Nat : \E T : Bad(T) /\ Cardinality(T) = n}
<1>1. \A T : T \subseteq S => IsFiniteSet(T) /\ Cardinality(T) \in Nat /\ Sortable(T)
  BY FS_Subset, FS_CardinalityType DEF Sortable
<1>2. ASSUME Bad(S) PROVE FALSE
  <2>1. sizes # {}
    BY <1>1, <1>2
  <2>2. PICK n \in sizes : \A m \in sizes : n <= m
    <3> HIDE DEF Bad
    <3> QED BY <2>1, Least
  <2>3. PICK T : Bad(T) /\ Cardinality(T) = n
    BY <2>2
  <2>4. PICK e \in T : TRUE
    BY <2>3
  <2> DEFINE rest == T \ {e}
  <2>5. IsFiniteSet(T) /\ Cardinality(rest) = n - 1 /\ Cardinality(rest) \in Nat
    BY <1>1, <2>3, <2>4, FS_RemoveElement
  <2>6. ~Bad(rest)
    <3> HIDE DEF Bad, rest
    <3> QED BY <2>2, <2>5
  <2>7. rest # {}
    BY <2>3, <2>4 DEF LastOf
  <2>8. PICK m : LastOf(rest, m)
    BY <2>3, <2>6, <2>7
  <2>9. m \in T /\ e \in T /\ m # e /\ \A x \in T \ {m, e} : Precedes(x, m)
    BY <2>4, <2>8 DEF LastOf
  <2>10. /\ T \subseteq Places /\ (Precedes(e, m) \/ Precedes(m, e))
    BY <1>1, <2>3, <2>9, SortableOrder
  <2>11. Precedes(m, e) => \A x \in T \ {m, e} : Precedes(x, e)
    BY <2>9, <2>10, PrecedesOrder
  <2>12. LastOf(T, m) \/ LastOf(T, e)
    BY <2>9, <2>10, <2>11 DEF LastOf
  <2> QED BY <2>3, <2>12
<1> QED BY <1>2

-----------------------------------------------------------------------------
(* The listing of a set of rows.                                           *)

Lists(rows, S) == rows \in [1..Cardinality(S) -> S] /\ ToSet(rows) = S /\ Ordered(rows)

LEMMA ListingExists ==
    ASSUME NEW S, IsFiniteSet(S), Sortable(S)
    PROVE  \E rows : Lists(rows, S)
<1> DEFINE Bad(T) == T \subseteq S /\ ~ \E rows : Lists(rows, T)
           sizes == {n \in Nat : \E T : Bad(T) /\ Cardinality(T) = n}
<1>1. \A T : T \subseteq S => IsFiniteSet(T) /\ Cardinality(T) \in Nat /\ Sortable(T)
  BY FS_Subset, FS_CardinalityType DEF Sortable
<1>2. ASSUME Bad(S) PROVE FALSE
  <2>1. sizes # {}
    BY <1>1, <1>2
  <2>2. PICK n \in sizes : \A m \in sizes : n <= m
    <3> HIDE DEF Bad
    <3> QED BY <2>1, Least
  <2>3. PICK T : Bad(T) /\ Cardinality(T) = n
    BY <2>2
  <2>4. T # {}
    <3>1. 1..0 = {} /\ Cardinality({}) = 0
      BY FS_EmptySet
    <3>2. Lists([i \in {} |-> i], {})
      BY <3>1 DEF Lists, ToSet, Ordered
    <3> QED BY <2>3, <3>2
  <2>5. PICK m : LastOf(T, m)
    BY <1>1, <2>3, <2>4, LastRow
  <2> DEFINE rest == T \ {m}
  <2>6. Cardinality(rest) = n - 1 /\ n - 1 \in Nat
    BY <1>1, <2>3, <2>5, FS_RemoveElement DEF LastOf
  <2>7. ~Bad(rest)
    <3> HIDE DEF Bad, rest
    <3> QED BY <2>2, <2>6
  <2>8. PICK front : Lists(front, rest)
    BY <2>3, <2>7
  <2> DEFINE rows == [i \in 1..n |-> IF i = n THEN m ELSE front[i]]
  <2>9. /\ n \in Nat \ {0} /\ front \in [1..n - 1 -> rest]
        /\ rest = {front[i] : i \in 1..n - 1} /\ Ordered(front)
    <3>1. front \in [1..Cardinality(rest) -> rest] /\ ToSet(front) = rest /\ Ordered(front)
      BY <2>8 DEF Lists
    <3> HIDE DEF rest
    <3>2. front \in [1..n - 1 -> rest] /\ DOMAIN front = 1..n - 1
      BY <2>6, <3>1
    <3> QED BY <2>6, <3>1, <3>2 DEF ToSet
  <2>10. rows \in [1..n -> T]
    BY <2>5, <2>9 DEF LastOf
  <2>11. ToSet(rows) = T
    <3>1. \A i \in 1..n - 1 : rows[i] = front[i] /\ i \in 1..n
      BY <2>9
    <3>2. rows[n] = m /\ n \in 1..n /\ m \in T
      BY <2>5, <2>9 DEF LastOf
    <3>3. \A x \in T : \E i \in 1..n : rows[i] = x
      BY <2>9, <3>1, <3>2
    <3> HIDE DEF rows
    <3> QED BY <2>10, <3>3 DEF ToSet
  <2>12. Ordered(rows)
    BY <2>5, <2>9 DEF Ordered, LastOf
  <2> QED BY <2>3, <2>10, <2>11, <2>12 DEF Lists
<1> QED BY <1>2

LEMMA InOrderLists ==
    ASSUME NEW S, IsFiniteSet(S), Sortable(S)
    PROVE  /\ InOrder(S) \in Seq(S)
           /\ \A e \in S : \E i \in 1..Len(InOrder(S)) : InOrder(S)[i] = e
           /\ \A i, j \in 1..Len(InOrder(S)) : i < j => Precedes(InOrder(S)[i], InOrder(S)[j])
<1>1. Lists(InOrder(S), S)
  BY ListingExists DEF InOrder, Lists
<1>2. Cardinality(S) \in Nat
  BY FS_CardinalityType
<1>3. InOrder(S) \in Seq(S) /\ Len(InOrder(S)) = Cardinality(S)
  BY <1>1, <1>2 DEF Lists
<1> QED BY <1>1, <1>3 DEF Lists, ToSet, Ordered

-----------------------------------------------------------------------------
(* A page.                                                                 *)

LEMMA LedgerSortable ==
    ASSUME NEW w, entries \in Seq(Row), \A i, j \in DOMAIN entries : entries[i].id = entries[j].id => i = j
    PROVE  /\ IsFiniteSet(ToSet(entries)) /\ Sortable(ToSet(entries))
           /\ \A place : /\ After(w, place) \subseteq Ledger(w) /\ Ledger(w) \subseteq ToSet(entries)
                         /\ IsFiniteSet(After(w, place)) /\ Sortable(After(w, place))
<1> DEFINE all == ToSet(entries)
<1>1. Len(entries) \in Nat /\ DOMAIN entries = 1..Len(entries) /\ entries \in [1..Len(entries) -> all]
  BY DEF ToSet
<1>2. entries \in Surjection(1..Len(entries), all)
  BY <1>1 DEF Surjection, ToSet
<1>3. IsFiniteSet(all)
  BY <1>1, <1>2, FS_Interval, FS_Surjection
<1>4. Sortable(all)
  <2>1. \A i \in 1..Len(entries) : entries[i] \in Row
    BY <1>1, ElementOfSeq
  <2>2. all \subseteq Row
    BY <1>1, <2>1 DEF ToSet
  <2>3. \A a \in all : \E i \in DOMAIN entries : entries[i] = a
    BY DEF ToSet
  <2> HIDE DEF all
  <2> QED BY <2>2, <2>3 DEF Sortable
<1>5. \A place : After(w, place) \subseteq Ledger(w) /\ Ledger(w) \subseteq all
  BY DEF After, Ledger
<1> HIDE DEF all
<1>6. \A T : T \subseteq all => IsFiniteSet(T) /\ Sortable(T)
  BY <1>3, <1>4, FS_Subset DEF Sortable
<1> QED BY <1>3, <1>4, <1>5, <1>6 DEF all

\* The first n rows of a listing, and what is left out lies behind them.
FirstRows(rows, S, n) ==
    /\ rows \in Seq(S) /\ Len(rows) <= n
    /\ \A i, j \in 1..Len(rows) : i < j => Precedes(rows[i], rows[j])
    /\ \A e \in S : \/ \E i \in 1..Len(rows) : rows[i] = e
                    \/ Len(rows) = n /\ \A i \in 1..n : Precedes(rows[i], e)

LEMMA ListingFirstRows ==
    ASSUME NEW w, NEW place, NEW n \in 1..MaxListLimit,
           IsFiniteSet(After(w, place)), Sortable(After(w, place))
    PROVE  FirstRows(ListByWallet(w, place, n), After(w, place), n)
<1> DEFINE S == After(w, place)
           rows == InOrder(S)
           size == Lowest(Len(rows), Lowest(n, MaxListLimit))
           front == SubSeq(rows, 1, size)
<1>1. /\ rows \in Seq(S)
      /\ \A e \in S : \E i \in 1..Len(rows) : rows[i] = e
      /\ \A i, j \in 1..Len(rows) : i < j => Precedes(rows[i], rows[j])
  BY InOrderLists
<1>2. ListByWallet(w, place, n) = front
  BY DEF ListByWallet
<1> HIDE DEF S, rows
<1>3. Len(rows) \in Nat /\ n \in Nat /\ MaxListLimit \in Nat /\ n <= MaxListLimit
  BY <1>1, PagingAssumption
<1>4. size \in 0..Len(rows) /\ size <= n /\ (size = n \/ size = Len(rows))
  BY <1>3 DEF Lowest
<1> HIDE DEF size
<1>5. \A i \in 1..size : rows[i] \in S
  BY <1>1, <1>3, <1>4, ElementOfSeq
<1>6. /\ front \in Seq(S) /\ Len(front) = size
      /\ \A i \in 1..size : front[i] = rows[i]
  BY <1>3, <1>4, <1>5, SubSeqProperties
<1> HIDE DEF front
<1>7. \A i, j \in 1..size : i < j => Precedes(front[i], front[j])
  <2>1. \A i \in 1..size : i \in 1..Len(rows)
    BY <1>3, <1>4
  <2> QED BY <1>1, <1>6, <2>1
<1>8. ASSUME NEW e \in S PROVE \/ \E i \in 1..size : front[i] = e
                               \/ size = n /\ \A i \in 1..n : Precedes(front[i], e)
  <2>1. PICK k \in 1..Len(rows) : rows[k] = e
    BY <1>1
  <2>2. CASE k <= size
    BY <1>4, <1>6, <2>1, <2>2
  <2>3. CASE k > size
    <3>1. size = n /\ \A i \in 1..n : i \in 1..Len(rows) /\ i < k
      BY <1>3, <1>4, <2>1, <2>3
    <3> QED BY <1>1, <1>6, <2>1, <3>1
  <2> QED BY <1>3, <1>4, <2>1, <2>2, <2>3
<1> QED BY <1>2, <1>4, <1>6, <1>7, <1>8 DEF FirstRows, S

\* A page is a beginning of what lies behind the cursor, and all of it when it
\* gives no cursor; the cursor it gives is the place of its last entry.
IsPage(page, S) ==
    /\ page.entries \in Seq(S)
    /\ \A i, j \in 1..Len(page.entries) : i < j => Precedes(page.entries[i], page.entries[j])
    /\ \A e \in S : \/ \E i \in 1..Len(page.entries) : page.entries[i] = e
                    \/ /\ page.next # EMPTY
                       /\ \A i \in 1..Len(page.entries) : Precedes(page.entries[i], e)
    /\ page.next # EMPTY => /\ Len(page.entries) \in Nat \ {0}
                            /\ page.next = EncodeCursor(page.entries[Len(page.entries)])

LEMMA PageIsPage ==
    ASSUME NEW w, NEW place, NEW limit \in Limits,
           IsFiniteSet(After(w, place)), Sortable(After(w, place))
    PROVE  IsPage(ListLedger(w, place, limit), After(w, place))
<1> DEFINE S == After(w, place)
           size == PageSize(limit)
           items == ListByWallet(w, place, Fetched(limit))
           front == SubSeq(items, 1, size)
           page == ListLedger(w, place, limit)
<1>1. size \in 1..MaxLimit /\ Fetched(limit) = size + 1 /\ Fetched(limit) \in 1..MaxListLimit
  BY PagingAssumption DEF PageSize, Fetched, Lowest
<1>2. FirstRows(items, S, size + 1)
  BY <1>1, ListingFirstRows
<1>3. page = IF Len(items) > size THEN [entries |-> front, next |-> EncodeCursor(items[size])]
             ELSE [entries |-> items, next |-> EMPTY]
  BY DEF ListLedger
<1> HIDE DEF S, size, items, page
<1>4. /\ size \in Nat \ {0} /\ items \in Seq(S) /\ Len(items) \in Nat /\ Len(items) <= size + 1
      /\ \A i, j \in 1..Len(items) : i < j => Precedes(items[i], items[j])
      /\ \A e \in S : \/ \E i \in 1..Len(items) : items[i] = e
                      \/ Len(items) = size + 1 /\ \A i \in 1..size + 1 : Precedes(items[i], e)
  BY <1>1, <1>2, PagingAssumption DEF FirstRows
<1>5. CASE Len(items) <= size
  <2>1. page.entries = items /\ page.next = EMPTY
    BY <1>3, <1>4, <1>5
  <2>2. \A e \in S : \E i \in 1..Len(items) : items[i] = e
    BY <1>4, <1>5
  <2> QED BY <1>4, <2>1, <2>2 DEF IsPage, S, page
<1>6. CASE Len(items) > size
  <2>1. page.entries = front /\ page.next = EncodeCursor(items[size]) /\ Len(items) = size + 1
    BY <1>3, <1>4, <1>6
  <2>2. \A i \in 1..size : items[i] \in S
    BY <1>4, <2>1, ElementOfSeq
  <2>3. /\ front \in Seq(S) /\ Len(front) = size
        /\ \A i \in 1..size : front[i] = items[i]
    BY <1>4, <2>2, SubSeqProperties
  <2> HIDE DEF front
  <2>4. \A i, j \in 1..size : i < j => Precedes(front[i], front[j])
    BY <1>4, <2>1, <2>3
  <2>5. front[size] = items[size]
    BY <1>4, <2>3
  <2>6. ASSUME NEW e \in S PROVE \/ \E i \in 1..size : front[i] = e
                                 \/ \A i \in 1..size : Precedes(front[i], e)
    <3>1. CASE \A i \in 1..size + 1 : Precedes(items[i], e)
      BY <1>4, <2>3, <3>1
    <3>2. CASE \E i \in 1..Len(items) : items[i] = e
      <4>1. PICK i \in 1..size + 1 : items[i] = e
        BY <2>1, <3>2
      <4>2. CASE i = size + 1
        BY <1>4, <2>1, <2>3, <4>1, <4>2
      <4>3. CASE i \in 1..size
        BY <2>3, <4>1, <4>3
      <4> QED BY <1>4, <4>1, <4>2, <4>3
    <3> QED BY <1>4, <2>6, <3>1, <3>2
  <2>7. EncodeCursor(items[size]) # EMPTY
    <3>1. items[size] \in Row
      BY <1>4, <2>2 DEF S, Sortable
    <3>2. EncodeCursor(items[size]) \in [at : Nat, id : Nat]
      BY <3>1, PagingAssumption DEF EncodeCursor, Row
    <3> QED BY <3>2, PagingAssumption
  <2> QED BY <1>4, <2>1, <2>3, <2>4, <2>5, <2>6, <2>7 DEF IsPage, S, page
<1> QED BY <1>4, <1>5, <1>6

-----------------------------------------------------------------------------
(* The client.                                                             *)

Typed ==
    /\ entries \in Seq(Row) /\ seen \in Seq(Row)
    /\ \A i, j \in DOMAIN entries : entries[i].id = entries[j].id => i = j

\* The cursor is the place of the last entry the client has got, as long as it
\* has another page to ask for; what it began with is still there.
ClientDiscipline ==
    /\ cursor # EMPTY => /\ phase = "paging" /\ Len(seen) # 0
                         /\ cursor = EncodeCursor(seen[Len(seen)])
    /\ phase = "paging" /\ cursor = EMPTY => seen = <<>>
    /\ base \subseteq Ledger(reading)

\* As long as stamps grow with the commits, nothing that lies before an entry
\* the client has got is missing.
Booked == {i \in DOMAIN entries : entries[i].wallet = reading}
StampsGrow == \A i, j \in Booked : i < j => Precedes(entries[i], entries[j])
NoHole ==
    StampsGrow => \A e \in Ledger(reading), l \in DOMAIN seen :
                     Precedes(e, seen[l]) => \E k \in 1..l - 1 : seen[k] = e

Inv == Typed /\ ClientDiscipline /\ PagesInOrder /\ NothingSkipped /\ NoHole

LEMMA InitInv == Init => Inv
<1> SUFFICES ASSUME Init PROVE Inv
  OBVIOUS
<1>1. entries = <<>> /\ seen = <<>> /\ cursor = EMPTY /\ phase = "off" /\ base = {}
  BY DEF Init
<1>2. DOMAIN seen = {} /\ DOMAIN entries = {} /\ ToSet(seen) = {}
  BY <1>1 DEF ToSet
<1>3. entries \in Seq(Row) /\ seen \in Seq(Row)
  BY <1>1
<1> QED BY <1>1, <1>2, <1>3 DEF Inv, Typed, ClientDiscipline, PagesInOrder, Ordered, NothingSkipped, NoHole

\* What an entry that is booked leaves as it was.
LEMMA InsertAdds ==
    ASSUME Typed, NEW w \in Wallets, NEW i \in EntryIds, NEW t \in Instants, Insert(w, i, t)
    PROVE  \E e \in Row : LET n == Len(entries) IN
              /\ entries' \in Seq(Row) /\ n \in Nat
              /\ DOMAIN entries = 1..n /\ DOMAIN entries' = 1..n + 1
              /\ entries'[n + 1] = e /\ \A k \in 1..n : entries'[k] = entries[k]
              /\ \A k \in 1..n : entries[k].id # e.id
<1> DEFINE e == [wallet |-> w, id |-> i, at |-> Stored(t)]
<1>1. Stored(t) \in Nat
  <2>1. t \in Nat /\ Grain \in Nat \ {0}
    BY PagingAssumption
  <2>2. t \div Grain \in Nat
    BY <2>1
  <2> QED BY <2>1, <2>2 DEF Stored
<1>2. e \in Row
  BY <1>1 DEF Row
<1>3. entries' = Append(entries, e) /\ \A x \in ToSet(entries) : x.id # e.id
  BY DEF Insert
<1>4. entries \in Seq(Row)
  BY DEF Typed
<1> HIDE DEF e
<1>5. /\ entries' \in Seq(Row) /\ Len(entries) \in Nat
      /\ DOMAIN entries = 1..Len(entries) /\ DOMAIN entries' = 1..Len(entries) + 1
      /\ entries'[Len(entries) + 1] = e
      /\ \A k \in 1..Len(entries) : entries'[k] = entries[k]
  BY <1>2, <1>3, <1>4, AppendProperties
<1>6. \A k \in 1..Len(entries) : entries[k].id # e.id
  BY <1>3, <1>5 DEF ToSet
<1> QED BY <1>2, <1>5, <1>6

\* What is booked while a client reads changes nothing of what it may rely on.
LEMMA InsertKeeps ==
    ASSUME Inv, NEW w \in Wallets, NEW i \in EntryIds, NEW t \in Instants, Insert(w, i, t),
           UNCHANGED client
    PROVE  Inv'
<1> DEFINE n == Len(entries)
<1>1. PICK e \in Row :
              /\ entries' \in Seq(Row) /\ n \in Nat
              /\ DOMAIN entries = 1..n /\ DOMAIN entries' = 1..n + 1
              /\ entries'[n + 1] = e /\ \A k \in 1..n : entries'[k] = entries[k]
              /\ \A k \in 1..n : entries[k].id # e.id
  BY InsertAdds DEF Inv
<1> HIDE DEF n
<1>2. UNCHANGED <<reading, phase, cursor, seen, base>>
  BY DEF client
<1>3. \A k \in DOMAIN entries' : k \in DOMAIN entries \/ k = n + 1
  BY <1>1
<1>4. Typed'
  BY <1>1, <1>2, <1>3 DEF Inv, Typed
<1>5. \A x : x \in Ledger(reading)' <=> x \in Ledger(reading) \/ (x = e /\ e.wallet = reading)
  <2>1. \A x : x \in ToSet(entries)' <=> x \in ToSet(entries) \/ x = e
    BY <1>1, <1>3 DEF ToSet
  <2> QED BY <1>2, <2>1 DEF Ledger
<1>6. ClientDiscipline' /\ PagesInOrder' /\ NothingSkipped'
  <2>1. Ledger(reading) \subseteq Ledger(reading)'
    BY <1>5
  <2> QED BY <1>2, <2>1 DEF Inv, ClientDiscipline, PagesInOrder, Ordered, NothingSkipped, ToSet
<1>7. NoHole'
  <2> SUFFICES ASSUME StampsGrow', NEW x \in Ledger(reading)', NEW l \in DOMAIN seen, Precedes(x, seen[l])
               PROVE  \E k \in 1..l - 1 : seen[k] = x
    BY <1>2 DEF NoHole, Precedes
  <2>1. /\ Booked' \cap DOMAIN entries = Booked
        /\ \A j \in Booked : j # n + 1
    BY <1>1, <1>2 DEF Booked
  <2>2. StampsGrow
    BY <1>1, <2>1 DEF StampsGrow, Booked, Precedes
  <2>3. CASE x \in Ledger(reading)
    BY <2>2, <2>3 DEF Inv, NoHole
  <2>4. CASE x = e /\ e.wallet = reading
    <3>1. seen[l] \in Ledger(reading)
      BY DEF Inv, PagesInOrder, ToSet
    <3>2. PICK j \in Booked : entries[j] = seen[l]
      BY <3>1 DEF Ledger, ToSet, Booked
    <3>3. n + 1 \in Booked' /\ j \in Booked' /\ j < n + 1
      BY <1>1, <1>2, <2>4, <3>2 DEF Booked
    <3>4. Precedes(seen[l], x)
      BY <1>1, <2>4, <3>2, <3>3 DEF StampsGrow, Booked, Precedes
    <3>5. seen[l] \in Places /\ x \in Places
      BY <2>4, <1>1 DEF Inv, Typed, Places
    <3> QED BY <3>4, <3>5, PrecedesOrder
  <2> QED BY <1>5, <2>3, <2>4
<1> QED BY <1>4, <1>6, <1>7 DEF Inv

LEMMA StillKeeps ==
    ASSUME Inv, UNCHANGED <<entries, reading, phase, cursor, seen, base>>
    PROVE  Inv'
BY DEF Inv, Typed, ClientDiscipline, PagesInOrder, Ordered, NothingSkipped, NoHole, StampsGrow,
       Booked, Ledger

LEMMA BeginKeeps ==
    ASSUME Inv, NEW w \in Wallets, Begin(w)
    PROVE  Inv'
<1>1. /\ seen' = <<>> /\ cursor' = EMPTY /\ phase' = "paging" /\ reading' = w /\ entries' = entries
      /\ base' = Ledger(w)
  BY DEF Begin
<1>2. seen' \in Seq(Row) /\ DOMAIN seen' = {} /\ ToSet(seen)' = {}
  BY <1>1 DEF ToSet
<1>3. Typed'
  BY <1>1, <1>2 DEF Inv, Typed
<1>4. ClientDiscipline'
  BY <1>1 DEF ClientDiscipline, Ledger
<1> QED BY <1>1, <1>2, <1>3, <1>4 DEF Inv, PagesInOrder, Ordered, NothingSkipped, NoHole

\* A page goes on where the one before it has ended.
LEMMA PageKeeps ==
    ASSUME Inv, Page
    PROVE  Inv'
<1> DEFINE S == After(reading, cursor)
<1>1. PICK limit \in Limits :
         LET page == ListLedger(reading, cursor, limit) IN
         /\ seen' = seen \o page.entries
         /\ cursor' = page.next
         /\ phase' = IF page.next = EMPTY THEN "done" ELSE "paging"
  BY DEF Page
<1> DEFINE page == ListLedger(reading, cursor, limit)
           new == page.entries
           n == Len(seen)
           m == Len(new)
<1>2. phase = "paging" /\ UNCHANGED <<entries, reading, base>>
  BY DEF Page
<1>3. /\ S \subseteq Ledger(reading) /\ Ledger(reading) \subseteq ToSet(entries)
      /\ IsFiniteSet(S) /\ Sortable(S) /\ Sortable(ToSet(entries))
  BY LedgerSortable DEF Inv, Typed
<1>4. IsPage(page, S)
  BY <1>3, PageIsPage
<1>5. /\ seen' = seen \o new /\ cursor' = page.next
      /\ phase' = IF page.next = EMPTY THEN "done" ELSE "paging"
  BY <1>1
<1>6. /\ seen \in Seq(Row) /\ new \in Seq(S) /\ S \subseteq Row /\ S \subseteq Places
      /\ Ledger(reading) \subseteq Places
  BY <1>3, <1>4 DEF Inv, Typed, IsPage, Sortable, Places
<1> HIDE DEF page
<1>7. /\ new \in Seq(Row) /\ n \in Nat /\ m \in Nat /\ \A k \in 1..m : new[k] \in S
      /\ DOMAIN seen = 1..n
  BY <1>6, SeqMonotonic, ElementOfSeq
<1> HIDE DEF new, S
<1>8. /\ seen' \in Seq(Row) /\ Len(seen') = n + m /\ DOMAIN seen' = 1..n + m
      /\ \A k \in 1..n : seen'[k] = seen[k]
      /\ \A k \in 1..m : seen'[n + k] = new[k]
  BY <1>5, <1>6, <1>7, ConcatProperties
<1> HIDE DEF n, m
<1>9. \A k \in 1..n + m : k \in 1..n \/ (k - n \in 1..m /\ seen'[k] = new[k - n])
  BY <1>7, <1>8
<1>10. Typed'
  BY <1>2, <1>8 DEF Inv, Typed
\* All that was got before lies before the rows of this page.
<1>11. ASSUME cursor # EMPTY
       PROVE  /\ n \in 1..n /\ seen[n] \in Ledger(reading) /\ cursor \in Places
              /\ \A p \in Places : (Precedes(seen[n], p) <=> Precedes(cursor, p))
                                /\ (Precedes(p, seen[n]) <=> Precedes(p, cursor))
              /\ S = {e \in Ledger(reading) : Precedes(cursor, e)}
  <2>1. n \in 1..n /\ cursor = EncodeCursor(seen[n])
    BY <1>7, <1>11 DEF Inv, ClientDiscipline, n
  <2>2. seen[n] \in Ledger(reading) /\ seen[n] \in Row
    BY <1>6, <1>7, <2>1 DEF Inv, PagesInOrder, ToSet
  <2>3. /\ cursor \in Places
        /\ \A p \in Places : (Precedes(seen[n], p) <=> Precedes(cursor, p))
                          /\ (Precedes(p, seen[n]) <=> Precedes(p, cursor))
    BY <2>1, <2>2, PagingAssumption DEF Precedes, EncodeCursor, Places, Row
  <2> QED BY <1>11, <2>1, <2>2, <2>3 DEF S, After
<1>12. cursor = EMPTY => n = 0 /\ S = Ledger(reading)
  BY <1>2 DEF Inv, ClientDiscipline, S, After, n
<1>13. \A i \in 1..n, e \in S : Precedes(seen[i], e)
  <2> SUFFICES ASSUME cursor # EMPTY, NEW i \in 1..n, NEW e \in S PROVE Precedes(seen[i], e)
    BY <1>7, <1>12
  <2>1. Precedes(seen[n], e)
    BY <1>6, <1>11
  <2>2. i = n \/ Precedes(seen[i], seen[n])
    BY <1>7, <1>11 DEF Inv, PagesInOrder, Ordered
  <2>3. seen[i] \in Places /\ seen[n] \in Places /\ e \in Places
    BY <1>6, <1>7, <1>11, ElementOfSeq DEF Places
  <2> QED BY <2>1, <2>2, <2>3, PrecedesOrder
<1>14. /\ \A i, j \in 1..m : i < j => Precedes(new[i], new[j])
       /\ \A e \in S : \/ \E i \in 1..m : new[i] = e
                       \/ page.next # EMPTY /\ \A i \in 1..m : Precedes(new[i], e)
       /\ page.next # EMPTY => m \in Nat \ {0} /\ page.next = EncodeCursor(new[m])
  BY <1>4 DEF IsPage, new, m, page
<1>15. PagesInOrder'
  <2>1. ASSUME NEW i \in 1..n + m, NEW j \in 1..n + m, i < j PROVE Precedes(seen'[i], seen'[j])
    <3>1. CASE j \in 1..n
      <4>1. i \in 1..n
        BY <1>7, <2>1, <3>1
      <4> QED BY <1>7, <1>8, <2>1, <3>1, <4>1 DEF Inv, PagesInOrder, Ordered
    <3>2. CASE i \in 1..n /\ j - n \in 1..m /\ seen'[j] = new[j - n]
      BY <1>7, <1>8, <1>13, <3>2
    <3>3. CASE i - n \in 1..m /\ seen'[i] = new[i - n] /\ j - n \in 1..m /\ seen'[j] = new[j - n]
      <4>1. i - n < j - n
        BY <1>7, <2>1
      <4> QED BY <1>14, <3>3, <4>1
    <3>4. ~ (i - n \in 1..m /\ j \in 1..n)
      BY <1>7, <2>1
    <3> QED BY <1>9, <3>1, <3>2, <3>3, <3>4
  <2>2. \A i \in 1..n + m : seen'[i] \in Ledger(reading)
    <3>1. \A i \in 1..n : seen[i] \in Ledger(reading)
      BY <1>7 DEF Inv, PagesInOrder, ToSet
    <3>2. \A i \in 1..m : new[i] \in Ledger(reading)
      BY <1>3, <1>7 DEF S
    <3> QED BY <1>8, <1>9, <3>1, <3>2
  <2>3. ToSet(seen)' \subseteq Ledger(reading)
    BY <1>8, <2>2 DEF ToSet
  <2>4. Ledger(reading)' = Ledger(reading)
    BY <1>2 DEF Ledger
  <2> QED BY <1>8, <2>1, <2>3, <2>4 DEF PagesInOrder, Ordered
<1>16. cursor' # EMPTY => /\ m \in Nat \ {0} /\ seen'[n + m] = new[m] /\ phase' = "paging"
                         /\ cursor' = EncodeCursor(new[m])
  BY <1>5, <1>7, <1>8, <1>14
<1>17. ClientDiscipline'
  <2>1. phase' = "paging" => cursor' # EMPTY
    BY <1>5
  <2>2. base' \subseteq Ledger(reading)'
    BY <1>2 DEF Inv, ClientDiscipline, Ledger
  <2> QED BY <1>7, <1>8, <1>16, <2>1, <2>2 DEF ClientDiscipline
\* What is not behind the old cursor has been got before, and is no new row.
<1>18. /\ \A i \in 1..n : seen[i] \in ToSet(seen)'
       /\ \A i \in 1..m : new[i] \in ToSet(seen)'
  <2>1. \A i \in 1..n : i \in DOMAIN seen' /\ seen'[i] = seen[i]
    BY <1>7, <1>8
  <2>2. \A i \in 1..m : n + i \in DOMAIN seen' /\ seen'[n + i] = new[i]
    BY <1>7, <1>8
  <2> QED BY <2>1, <2>2 DEF ToSet
<1>19. NothingSkipped'
  <2> SUFFICES ASSUME NEW e \in base, phase' = "done" \/ (cursor' # EMPTY /\ ~Precedes(cursor', e))
               PROVE  e \in ToSet(seen)'
    BY <1>2 DEF NothingSkipped, Precedes
  <2>1. e \in Ledger(reading) /\ e \in Places
    BY <1>6 DEF Inv, ClientDiscipline
  <2>2. CASE e \in S
    <3>1. CASE \E i \in 1..m : new[i] = e
      BY <1>18, <3>1
    <3>2. CASE page.next # EMPTY /\ \A i \in 1..m : Precedes(new[i], e)
      <4>1. Precedes(new[m], e) /\ cursor' = EncodeCursor(new[m]) /\ phase' # "done"
        BY <1>5, <1>7, <1>16, <3>2
      <4>2. Precedes(cursor', e)
        BY <4>1 DEF Precedes, EncodeCursor
      <4> QED BY <4>1, <4>2
    <3> QED BY <1>14, <2>2, <3>1, <3>2
  <2>3. CASE e \notin S
    <3>1. cursor # EMPTY /\ ~Precedes(cursor, e)
      BY <1>11, <1>12, <2>1, <2>3
    <3>2. e \in ToSet(seen)
      BY <3>1 DEF Inv, NothingSkipped
    <3> QED BY <1>7, <1>18, <3>2 DEF ToSet
  <2> QED BY <2>2, <2>3
<1>20. NoHole'
  <2> SUFFICES ASSUME StampsGrow, NEW e \in Ledger(reading), NEW l \in 1..n + m, Precedes(e, seen'[l])
               PROVE  \E k \in 1..l - 1 : seen'[k] = e
    BY <1>2, <1>8 DEF NoHole, StampsGrow, Booked, Ledger, Precedes
  <2>1. \A i \in 1..n : Precedes(e, seen[i]) => \E k \in 1..i - 1 : seen[k] = e
    BY <1>7 DEF Inv, NoHole
  <2>2. CASE l \in 1..n
    <3>1. PICK k \in 1..l - 1 : seen[k] = e
      BY <1>8, <2>1, <2>2
    <3>2. k \in 1..n
      BY <1>7, <2>2, <3>1
    <3> QED BY <1>8, <3>1, <3>2
  <2>3. CASE l - n \in 1..m /\ seen'[l] = new[l - n]
    <3>1. CASE e \in S
      <4>1. new[l - n] \in Places /\ e \in Places
        BY <1>6, <1>7, <2>3, <3>1
      <4>2. ~Precedes(new[l - n], e)
        BY <2>3, <4>1, PrecedesOrder
      <4>3. PICK k \in 1..m : new[k] = e
        BY <1>14, <2>3, <3>1, <4>2
      <4>4. k # l - n /\ ~(l - n < k)
        BY <1>14, <2>3, <4>1, <4>2, <4>3, PrecedesOrder
      <4>5. n + k \in 1..l - 1
        BY <1>7, <2>3, <4>3, <4>4
      <4> QED BY <1>8, <4>3, <4>5
    <3>2. CASE e \notin S
      <4>1. cursor # EMPTY /\ ~Precedes(cursor, e)
        BY <1>11, <1>12, <3>2
      <4>2. ~Precedes(seen[n], e) /\ seen[n] \in Ledger(reading) /\ n \in 1..n
        BY <1>6, <1>11, <4>1
      <4>3. e = seen[n] \/ Precedes(e, seen[n])
        BY <1>3, <4>2, SortableOrder
      <4>4. PICK k \in 1..n : seen[k] = e
        BY <1>7, <2>1, <4>2, <4>3
      <4>5. k \in 1..l - 1
        BY <1>7, <2>3, <4>4
      <4> QED BY <1>8, <4>4, <4>5
    <3> QED BY <3>1, <3>2
  <2> QED BY <1>9, <2>2, <2>3
<1> QED BY <1>10, <1>15, <1>17, <1>19, <1>20 DEF Inv

LEMMA NextInv == Inv /\ [Next]_vars => Inv'
<1> SUFFICES ASSUME Inv, [Next]_vars PROVE Inv'
  OBVIOUS
<1>1. CASE UNCHANGED vars
  BY <1>1, StillKeeps DEF vars
<1>2. ASSUME NEW w \in Wallets, Open(w) \/ Book(w) PROVE Inv'
  <2>1. UNCHANGED client
    BY <1>2 DEF Open, Book
  <2>2. CASE UNCHANGED entries
    BY <2>1, <2>2, StillKeeps DEF client
  <2>3. CASE \E i \in EntryIds, t \in Instants : Insert(w, i, t)
    BY <2>1, <2>3, InsertKeeps
  <2> QED BY <1>2, <2>2, <2>3 DEF Open, Book
<1>3. ASSUME NEW w \in Wallets, Begin(w) PROVE Inv'
  BY <1>3, BeginKeeps
<1>4. CASE Page
  BY <1>4, PageKeeps
<1> QED BY <1>1, <1>2, <1>3, <1>4 DEF Next

THEOREM ReaderInvariant == Spec => []Inv
BY InitInv, NextInv, PTL DEF Spec

\* Whatever is booked between two pages, with whatever stamp, the pages are
\* entries of the wallet in the order created_at, id, none of them twice.
THEOREM PagesOrdered == Spec => []PagesInOrder
<1>1. Inv => PagesInOrder
  BY DEF Inv
<1> QED BY ReaderInvariant, <1>1, PTL

\* What was there when the client began, it gets: nothing falls between pages.
THEOREM PagesComplete == Spec => []NothingSkipped
<1>1. Inv => NothingSkipped
  BY DEF Inv
<1> QED BY ReaderInvariant, <1>1, PTL

\* With stamps that grow with the commits, the pages are a history of the wallet.
THEOREM PagesTellHistory == Spec => []PagesAreHistory
<1>1. Inv => PagesAreHistory
  <2> SUFFICES ASSUME Inv, StampsGrow, NEW i \in Booked, NEW j \in Booked, NEW l \in DOMAIN seen,
                      i < j, seen[l] = entries[j]
               PROVE  \E k \in 1..l - 1 : seen[k] = entries[i]
    BY DEF PagesAreHistory, StampsGrow, Booked
  <2>1. Precedes(entries[i], seen[l])
    BY DEF StampsGrow
  <2>2. entries[i] \in Ledger(reading)
    BY DEF Booked, Ledger, ToSet
  <2> QED BY <2>1, <2>2 DEF Inv, NoHole
<1> QED BY ReaderInvariant, <1>1, PTL
=============================================================================
