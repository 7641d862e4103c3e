---------------------------- MODULE InboundProofs -------------------------
(***************************************************************************)
(* Proofs about InboundConsumer, for any number of consumers, messages and *)
(* wallets, whatever producers and other channels send.                    *)
(***************************************************************************)
EXTENDS InboundConsumer, TLAPS

Op(c) == Request(mail[cur[c]])
Id(c) == mail[cur[c]].id

Backed(r) == \E s \in Operations : s.key = r.key /\ s.ext = r.ext

(* An operation on another wallet has the identity.                        *)
Elsewhere(r) == \E s \in Operations : SameIdentity(s, r) /\ s.wallet # r.wallet

Kept(m) == Recorded(mail[m]) \/ \E d \in dead : CopyId(mail[d]) = CopyId(mail[m])

Reason(m) ==
    \/ mail[m].fate # "sound"
    \/ receives[m] = MaxReceives
    \/ Mismatch(mail[m])
    \/ PayloadConflict(Request(mail[m])) \/ Duplicate(Request(mail[m]))

Requests == {Request(mail[m]) : m \in Messages} \cup Posts

(* What a consumer knows at each label.                                    *)
OperationKnown(c) ==
    /\ pc[c] \in {"recheck", "insert"} \/ new[c] => lock[mail[cur[c]].wallet] = c
    /\ pc[c] = "insert" =>
          \A s \in Operations : s.wallet = Op(c).wallet => ~SameIdentity(s, Op(c))
    /\ new[c] => pc[c] \in {"record", "commit"} /\ ~Clash(Op(c))
    /\ pc[c] \in {"record", "commit"} /\ ~new[c] => Backed(Op(c))

RecordKnown(c) ==
    /\ found[c] => pc[c] \in InTransaction /\ Recorded(mail[cur[c]])
    /\ pc[c] = "commit" /\ ~found[c] => Id(c) \notin DOMAIN inbox

RecoveryKnown(c) ==
    /\ pc[c] = "recover" => Id(c) \in DOMAIN inbox \/ Elsewhere(Op(c))
    /\ pc[c] = "recoverKey" => found[c] \/ Elsewhere(Op(c))

EndKnown(c) ==
    /\ pc[c] = "ack" => Kept(cur[c])
    /\ pc[c] = "bury" => Reason(cur[c])
    /\ pc[c] # "idle" => place[cur[c]] # "unsent"

Good(c) == OperationKnown(c) /\ RecordKnown(c) /\ RecoveryKnown(c) /\ EndKnown(c)

(* Index entries that are not committed are unique, too.                   *)
Apart(c, d) ==
    /\ new[c] /\ new[d] => ~SameIdentity(Op(c), Op(d))
    /\ pc[c] = "commit" /\ ~found[c] /\ pc[d] = "commit" /\ ~found[d] => Id(c) # Id(d)

Discipline ==
    /\ \A c \in Consumers : Good(c)
    /\ \A c, d \in Consumers : c # d => Apart(c, d)

Books == OneEffect /\ InboxBacked /\ NothingLost /\ BuriedRightly

Typed == TypeOK /\ ops \in Seq(Requests)

Inv == Typed /\ Discipline /\ Books

-----------------------------------------------------------------------------
(* The operations after one more.                                          *)
LEMMA AppendSet ==
  ASSUME NEW S, NEW s \in Seq(S), NEW x \in S
  PROVE  /\ Append(s, x) \in Seq(S)
         /\ ToSet(Append(s, x)) = ToSet(s) \cup {x}
<1>1. Append(s, x) \in Seq(S)
  OBVIOUS
<1>2. /\ DOMAIN Append(s, x) = 1..Len(s) + 1 /\ DOMAIN s = 1..Len(s) /\ Len(s) \in Nat
      /\ Append(s, x)[Len(s) + 1] = x
      /\ \A i \in 1..Len(s) : Append(s, x)[i] = s[i]
  OBVIOUS
<1>3. ToSet(Append(s, x)) \subseteq ToSet(s) \cup {x}
  BY <1>2 DEF ToSet
<1>4. ToSet(s) \cup {x} \subseteq ToSet(Append(s, x))
  BY <1>2 DEF ToSet
<1> QED BY <1>1, <1>3, <1>4

(* The identities agree in both directions.                                *)
LEMMA IdentitySymmetric == \A r, s : SameIdentity(r, s) <=> SameIdentity(s, r)
BY DEF SameIdentity

LEMMA RequestFields ==
  ASSUME NEW letter
  PROVE  /\ Request(letter).key = letter.key
         /\ Request(letter).ext = letter.ext
         /\ Request(letter).wallet = letter.wallet
         /\ Request(letter).amount = letter.amount
BY DEF Request

(* A message that is handled exists.                                       *)
LEMMA Handled ==
  ASSUME Typed, NEW c \in Consumers, pc[c] # "idle"
  PROVE  cur[c] \in Messages /\ mail[cur[c]].wallet \in Wallets /\ Op(c) \in Requests
<1>1. cur[c] \in Messages
  BY DEF Typed, TypeOK
<1>2. mail[cur[c]].wallet \in Wallets
  BY <1>1, InboundAssumption DEF Typed, TypeOK
<1> QED BY <1>1, <1>2 DEF Op, Requests

(* Nothing has been sent and nobody is busy.                               *)
LEMMA InitInv == Init => Inv
<1> SUFFICES ASSUME Init PROVE Inv
  OBVIOUS
<1> USE InboundAssumption DEF Init
<1>1. Operations = {}
  BY DEF Operations, ToSet
<1>2. Typed
  BY <1>1 DEF Typed, TypeOK, Places, Labels
<1>3. Discipline
  BY DEF Discipline, Good, Apart, OperationKnown, RecordKnown, RecoveryKnown, EndKnown
<1>4. Books
  BY DEF Books, OneEffect, InboxBacked, NothingLost, BuriedRightly
<1> QED BY <1>2, <1>3, <1>4 DEF Inv

-----------------------------------------------------------------------------
(* Types.                                                                  *)

(* The tables and the mail stay as they are.                               *)
LEMMA TypesKept ==
  ASSUME Typed, mail' = mail, ops' = ops, inbox' = inbox,
         place' \in [Messages -> Places], receives' \in [Messages -> 0..MaxReceives],
         dead' \subseteq Messages, open' \subseteq Wallets,
         pc' \in [Consumers -> Labels], cur' \in [Consumers -> Messages \cup {NONE}],
         \A c \in Consumers : pc'[c] = "idle" <=> cur'[c] = NONE,
         found' \in [Consumers -> BOOLEAN], new' \in [Consumers -> BOOLEAN],
         lock' \in [Wallets -> Consumers \cup {NONE}], polling' \in [Consumers -> BOOLEAN]
  PROVE  Typed'
<1>1. Operations' = Operations
  BY DEF Operations
<1> QED BY <1>1 DEF Typed, TypeOK, Requests

LEMMA GotoTypes ==
  ASSUME Typed, NEW c \in Consumers, NEW l \in Labels \ {"idle"}, pc[c] # "idle", Goto(c, l)
  PROVE  Typed'
BY TypesKept DEF Goto, Typed, TypeOK

LEMMA EndTypes ==
  ASSUME Typed, NEW c \in Consumers, NEW l \in Labels \ {"idle"}, pc[c] # "idle", EndTo(c, l)
  PROVE  Typed'
<1>1. lock' \in [Wallets -> Consumers \cup {NONE}]
  BY DEF EndTo, Unlock, Typed, TypeOK
<1> QED BY <1>1, TypesKept DEF EndTo, Typed, TypeOK

LEMMA RetryTypes ==
  ASSUME Typed, NEW c \in Consumers, Retry(c)
  PROVE  Typed' /\ place' = place
<1>1. lock' \in [Wallets -> Consumers \cup {NONE}]
  BY DEF Retry, Unlock, Typed, TypeOK
<1>2. place' = place
  BY DEF Retry, ChangeVisibility, ShortestBackoff
<1>3. \A d \in Consumers : pc'[d] = "idle" <=> cur'[d] = NONE
  BY DEF Retry, Done, Typed, TypeOK
<1>4. pc' \in [Consumers -> Labels] /\ cur' \in [Consumers -> Messages \cup {NONE}]
  BY DEF Retry, Done, Typed, TypeOK, Labels
<1>5. found' \in [Consumers -> BOOLEAN] /\ new' \in [Consumers -> BOOLEAN]
  BY DEF Retry, Typed, TypeOK
<1> QED BY <1>1, <1>2, <1>3, <1>4, <1>5, TypesKept DEF Retry, Typed, TypeOK

LEMMA FinishTypes ==
  ASSUME Typed, NEW c \in Consumers, pc[c] # "idle", NEW failure, Finish(c, failure)
  PROVE  Typed'
BY EndTypes, RetryTypes DEF Finish, Labels

LEMMA AnsweredTypes ==
  ASSUME Typed, NEW c \in Consumers, pc[c] # "idle", Answered(c)
  PROVE  Typed'
BY GotoTypes DEF Answered, Labels, InTransaction, Handling

(* A handler's step keeps the types.                                       *)
LEMMA StepTypes ==
  ASSUME Typed, NEW c \in Consumers, Step(c)
  PROVE  Typed'
<1>1. pc[c] # "idle"
  BY DEF Step, GetInbox, FindKey, FindExt, LockWallet, Recheck, InsertOperation, InsertRecord,
         Commit, Recover, RecoverKey, Fail, Delete, SendToDLQ, InTransaction, Handling, Recovering
<1> DEFINE m == cur[c]
<1>2. m \in Messages /\ mail[m].wallet \in Wallets /\ Op(c) \in Requests
  BY <1>1, Handled
<1> HIDE DEF m
<1>3. ASSUME pc' = [pc EXCEPT ![c] = "key"] \/ pc' = [pc EXCEPT ![c] = "recoverKey"],
             found' = [found EXCEPT ![c] = Recorded(mail[cur[c]])],
             UNCHANGED <<mail, place, receives, dead, open, ops, inbox, cur, new, lock, polling>>
      PROVE  Typed'
  <2>1. found' \in [Consumers -> BOOLEAN]
    BY <1>3 DEF Typed, TypeOK, Recorded
  <2> QED BY <1>1, <1>3, <2>1, TypesKept DEF Typed, TypeOK, Labels, InTransaction, Handling, Recovering
<1>4. CASE GetInbox(c)
  BY <1>1, <1>3, <1>4, FinishTypes DEF GetInbox
<1>5. CASE FindKey(c)
  BY <1>1, <1>5, FinishTypes, AnsweredTypes, GotoTypes DEF FindKey, Labels, InTransaction, Handling
<1>6. CASE FindExt(c)
  BY <1>1, <1>6, FinishTypes, AnsweredTypes, GotoTypes DEF FindExt, Labels, InTransaction, Handling
<1>7. CASE LockWallet(c)
  <2>1. CASE Finish(c, "not found")
    BY <1>1, <2>1, FinishTypes
  <2>2. CASE ~Finish(c, "not found")
    <3>1. /\ lock' = [lock EXCEPT ![mail[m].wallet] = c]
          /\ pc' = [pc EXCEPT ![c] = "recheck"]
          /\ UNCHANGED <<mail, place, receives, dead, open, ops, inbox, cur, found, new, polling>>
      BY <1>7, <2>2 DEF LockWallet, m
    <3>2. lock' \in [Wallets -> Consumers \cup {NONE}]
      BY <3>1, <1>2 DEF Typed, TypeOK
    <3> QED BY <1>1, <3>1, <3>2, TypesKept DEF Typed, TypeOK, Labels, InTransaction, Handling
  <2> QED BY <2>1, <2>2
<1>8. CASE Recheck(c)
  BY <1>1, <1>8, FinishTypes, AnsweredTypes, GotoTypes DEF Recheck, Labels, InTransaction, Handling
<1>9. CASE InsertOperation(c)
  <2>1. CASE EndTo(c, "recover")
    BY <1>1, <2>1, EndTypes DEF Labels, InTransaction, Recovering
  <2>2. CASE ~EndTo(c, "recover")
    <3>1. /\ pc' = [pc EXCEPT ![c] = IF found[c] THEN "commit" ELSE "record"]
          /\ new' = [new EXCEPT ![c] = TRUE]
          /\ UNCHANGED <<mail, place, receives, dead, open, ops, inbox, cur, found, lock, polling>>
      BY <1>9, <2>2 DEF InsertOperation
    <3>2. pc' \in [Consumers -> Labels]
      <4>1. pc \in [Consumers -> Labels] /\ {"commit", "record"} \subseteq Labels
        BY DEF Typed, TypeOK, Labels, InTransaction, Handling
      <4> QED BY <3>1, <4>1
    <3>3. \A d \in Consumers : pc'[d] = "idle" <=> cur'[d] = NONE
      BY <1>1, <3>1 DEF Typed, TypeOK
    <3>4. new' \in [Consumers -> BOOLEAN]
      BY <3>1 DEF Typed, TypeOK
    <3> QED BY <3>1, <3>2, <3>3, <3>4, TypesKept DEF Typed, TypeOK
  <2> QED BY <2>1, <2>2
<1>10. CASE InsertRecord(c)
  BY <1>1, <1>10, EndTypes, GotoTypes DEF InsertRecord, Labels, InTransaction, Recovering
<1>11. CASE Commit(c)
  <2>1. Operations' \subseteq Requests /\ ops' \in Seq(Requests)
    <3>1. CASE new[c]
      <4>1. ops' = Append(ops, Op(c))
        BY <1>11, <3>1 DEF Commit, Install, Op
      <4>2. ops \in Seq(Requests) /\ Op(c) \in Requests /\ Operations \subseteq Requests
        BY <1>2 DEF Typed, TypeOK, Requests, Op
      <4> QED BY <4>1, <4>2, AppendSet DEF Operations
    <3>2. CASE ~new[c]
      BY <1>11, <3>2 DEF Commit, Install, Operations, Typed, TypeOK, Requests
    <3> QED BY <3>1, <3>2
  <2>2. mail' = mail /\ \A i \in DOMAIN inbox' :
           inbox'[i].id = i /\ \E k \in Messages : inbox'[i] = mail[k]
    <3>1. mail' = mail /\ cur[c] \in Messages
      BY <1>2, <1>11 DEF Commit, m
    <3>2. CASE found[c]
      BY <1>11, <3>1, <3>2 DEF Commit, Install, Typed, TypeOK
    <3>3. CASE ~found[c]
      <4>1. inbox' = [i \in DOMAIN inbox \cup {mail[cur[c]].id} |->
                         IF i = mail[cur[c]].id THEN mail[cur[c]] ELSE inbox[i]]
        BY <1>11, <3>3 DEF Commit, Install
      <4> QED BY <3>1, <4>1 DEF Typed, TypeOK
    <3> QED BY <3>2, <3>3
  <2>3. lock' \in [Wallets -> Consumers \cup {NONE}]
    BY <1>11 DEF Commit, Unlock, Typed, TypeOK
  <2>4. /\ pc' \in [Consumers -> Labels] /\ cur' \in [Consumers -> Messages \cup {NONE}]
        /\ \A d \in Consumers : pc'[d] = "idle" <=> cur'[d] = NONE
    <3>1. CASE pc' = [pc EXCEPT ![c] = "ack"] /\ cur' = cur
      BY <1>1, <3>1 DEF Typed, TypeOK, Labels
    <3>2. CASE Done(c)
      BY <3>2 DEF Done, Typed, TypeOK, Labels
    <3> QED BY <1>11, <3>1, <3>2 DEF Commit
  <2>5. /\ place' \in [Messages -> Places] /\ receives' \in [Messages -> 0..MaxReceives]
        /\ dead' \subseteq Messages /\ open' \subseteq Wallets
        /\ found' \in [Consumers -> BOOLEAN] /\ new' \in [Consumers -> BOOLEAN]
        /\ polling' \in [Consumers -> BOOLEAN]
    BY <1>11 DEF Commit, Install, Typed, TypeOK
  <2>6. mail' \in Mails /\ Requests' = Requests
    BY <2>2 DEF Typed, TypeOK, Requests
  <2> QED BY <2>1, <2>2, <2>3, <2>4, <2>5, <2>6 DEF Typed, TypeOK, Requests
<1>12. CASE Recover(c)
  BY <1>1, <1>3, <1>12, FinishTypes DEF Recover
<1>13. CASE RecoverKey(c)
  BY <1>1, <1>13, FinishTypes, GotoTypes DEF RecoverKey, Labels, InTransaction
<1>14. CASE Fail(c)
  BY <1>14, RetryTypes DEF Fail
<1>15. CASE Delete(c)
  <2>1. place' \in [Messages -> Places]
    BY <1>15 DEF Delete, Typed, TypeOK, Places
  <2> QED BY <1>15, <2>1, TypesKept DEF Delete, Done, Typed, TypeOK, Labels
<1>16. CASE SendToDLQ(c)
  <2>1. CASE Retry(c)
    BY <2>1, RetryTypes
  <2>2. CASE ~Retry(c)
    <3>1. /\ dead' \subseteq dead \cup {m}
          /\ (pc' = [pc EXCEPT ![c] = "ack"] /\ cur' = cur) \/ Done(c)
          /\ UNCHANGED <<mail, place, receives, open, ops, inbox, found, new, lock, polling>>
      BY <1>16, <2>2 DEF SendToDLQ, m
    <3>2. dead' \subseteq Messages
      BY <3>1, <1>2 DEF Typed, TypeOK
    <3>3. /\ pc' \in [Consumers -> Labels] /\ cur' \in [Consumers -> Messages \cup {NONE}]
          /\ \A d \in Consumers : pc'[d] = "idle" <=> cur'[d] = NONE
      <4>1. CASE pc' = [pc EXCEPT ![c] = "ack"] /\ cur' = cur
        BY <1>1, <4>1 DEF Typed, TypeOK, Labels
      <4>2. CASE Done(c)
        BY <4>2 DEF Done, Typed, TypeOK, Labels
      <4> QED BY <3>1, <4>1, <4>2
    <3> QED BY <3>1, <3>2, <3>3, TypesKept DEF Typed, TypeOK
  <2> QED BY <2>1, <2>2
<1> QED BY <1>4, <1>5, <1>6, <1>7, <1>8, <1>9, <1>10, <1>11, <1>12, <1>13, <1>14, <1>15, <1>16
        DEF Step

(* So do the queue, the processes and the other channels.                  *)
LEMMA QueueTypes ==
  ASSUME Typed, NEW m \in Messages, Send(m) \/ Expire(m) \/ Poll(m) \/ LoseResponse(m)
  PROVE  Typed'
<1>1. CASE Send(m)
  BY <1>1, TypesKept DEF Send, Typed, TypeOK, Places
<1>2. CASE Expire(m)
  BY <1>2, TypesKept DEF Expire, Typed, TypeOK, Places
<1>3. CASE Redrive(m)
  BY <1>3, TypesKept DEF Redrive, Typed, TypeOK, Places
<1>4. ASSUME HandOut(m)
      PROVE  /\ place' \in [Messages -> Places]
             /\ receives' \in [Messages -> 0..MaxReceives] /\ dead' \subseteq Messages
  <2>1. receives[m] \in 0..MaxReceives - 1 /\ MaxReceives \in Nat
    BY <1>4, InboundAssumption DEF HandOut, Typed, TypeOK
  <2> QED BY <1>4, <2>1 DEF HandOut, Typed, TypeOK, Places
<1>5. ASSUME NEW c \in Consumers, Receive(c, m) PROVE Typed'
  <2>1. pc' = [pc EXCEPT ![c] = IF Parses(mail[m]) THEN "inbox" ELSE "bury"] /\ m # NONE
    BY <1>5, InboundAssumption DEF Receive
  <2>2. pc' \in [Consumers -> Labels]
    BY <2>1 DEF Typed, TypeOK, Labels, InTransaction, Handling
  <2> QED BY <1>4, <1>5, <2>1, <2>2, TypesKept DEF Receive, Typed, TypeOK
<1>6. CASE LoseResponse(m)
  BY <1>4, <1>6, TypesKept DEF LoseResponse, Typed, TypeOK
<1> QED BY <1>1, <1>2, <1>3, <1>5, <1>6 DEF Poll

LEMMA ProcessTypes ==
  ASSUME Typed, NEW c \in Consumers, Stop(c) \/ ReleaseInFlight(c) \/ Restart(c)
  PROVE  Typed'
<1>1. CASE Stop(c)
  BY <1>1, TypesKept DEF Stop, Typed, TypeOK
<1>2. CASE ReleaseInFlight(c)
  BY <1>2, TypesKept DEF ReleaseInFlight, ChangeVisibility, Typed, TypeOK, Places
<1>3. CASE Restart(c)
  <2>1. lock' \in [Wallets -> Consumers \cup {NONE}]
    BY <1>3 DEF Restart, Unlock, Typed, TypeOK
  <2> QED BY <1>3, <2>1, TypesKept DEF Restart, Done, Typed, TypeOK, Labels
<1> QED BY <1>1, <1>2, <1>3

LEMMA OpenTypes == ASSUME Typed, NEW w \in Wallets, Open(w) PROVE Typed'
BY TypesKept DEF Open, Typed, TypeOK

LEMMA PostTypes == ASSUME Typed, NEW r \in Posts, Post(r) PROVE Typed'
<1>1. Operations' \subseteq Requests /\ ops' \in Seq(Requests)
  <2>1. ops \in Seq(Requests) /\ r \in Requests /\ Operations \subseteq Requests
    BY DEF Typed, TypeOK, Requests
  <2>2. ops' = Append(ops, r)
    BY DEF Post
  <2> QED BY <2>1, <2>2, AppendSet DEF Operations
<1>2. mail' = mail /\ Requests' = Requests
  BY DEF Post, Requests
<1> QED BY <1>1, <1>2 DEF Post, Typed, TypeOK, Requests

LEMMA NextTypes == ASSUME Typed, [Next]_vars PROVE Typed'
<1>1. CASE UNCHANGED vars
  BY <1>1, TypesKept DEF vars, Typed, TypeOK
<1>2. CASE Next
  BY <1>2, StepTypes, QueueTypes, ProcessTypes, OpenTypes, PostTypes DEF Next
<1> QED BY <1>1, <1>2

(* The type invariant holds for every number of everything.                *)
THEOREM TypeCorrect == Spec => []TypeOK
<1>1. Init => Typed
  BY InitInv DEF Inv
<1>2. Typed /\ [Next]_vars => Typed'
  BY NextTypes
<1>3. Typed => TypeOK
  BY DEF Typed
<1> QED BY <1>1, <1>2, <1>3, PTL DEF Spec

-----------------------------------------------------------------------------
(* What only grows.                                                        *)

Grows ==
    /\ mail' = mail
    /\ Operations \subseteq Operations'
    /\ DOMAIN inbox \subseteq DOMAIN inbox'
    /\ \A i \in DOMAIN inbox : inbox'[i] = inbox[i]
    /\ dead \subseteq dead'
    /\ \A m \in Messages :
          /\ receives[m] = MaxReceives => receives'[m] = MaxReceives
          /\ place[m] # "unsent" => place'[m] # "unsent"

(* A step that leaves a consumer, and the locks it holds, alone.           *)
Spared(c) ==
    /\ pc'[c] = pc[c] /\ cur'[c] = cur[c] /\ found'[c] = found[c] /\ new'[c] = new[c]
    /\ \A w \in Wallets : lock[w] = c => lock'[w] = c

(* What was found stays to be found.                                       *)
LEMMA FactsStay ==
  ASSUME Grows, NEW m \in Messages
  PROVE  /\ Recorded(mail[m]) => Recorded(mail[m])'
         /\ Kept(m) => Kept(m)'
         /\ Reason(m) => Reason(m)'
         /\ Backed(Request(mail[m])) => Backed(Request(mail[m]))'
         /\ Elsewhere(Request(mail[m])) => Elsewhere(Request(mail[m]))'
<1>1. Recorded(mail[m]) => Recorded(mail[m])'
  BY DEF Grows, Recorded
<1>2. Mismatch(mail[m]) => Mismatch(mail[m])'
  BY DEF Grows, Mismatch
<1>3. \A r : /\ PayloadConflict(r) => \E s \in Operations' : s.key = r.key /\ ~SamePayload(r, s)
             /\ Duplicate(r) => \E s \in Operations' : s.ext = r.ext /\ s.key # r.key
             /\ Backed(r) => \E s \in Operations' : s.key = r.key /\ s.ext = r.ext
             /\ Elsewhere(r) => \E s \in Operations' : SameIdentity(s, r) /\ s.wallet # r.wallet
  BY DEF Grows, PayloadConflict, Duplicate, Backed, Elsewhere
<1>4. Kept(m) => Kept(m)'
  BY <1>1 DEF Grows, Kept
<1>5. Reason(m) => Reason(m)'
  BY <1>2, <1>3 DEF Grows, Reason, PayloadConflict, Duplicate
<1> QED BY <1>1, <1>3, <1>4, <1>5 DEF Grows, Backed, Elsewhere

(* What a spared consumer knows stays true, when nothing that a commit     *)
(* adds meets what it has in hand.                                         *)
LEMMA GoodStays ==
  ASSUME Inv, Typed', Grows, NEW d \in Consumers, Spared(d),
         pc[d] = "insert" =>
            \A s \in Operations' \ Operations :
               s.wallet = Op(d).wallet => ~SameIdentity(s, Op(d)),
         new[d] => \A s \in Operations' \ Operations : ~SameIdentity(Op(d), s),
         pc[d] = "commit" /\ ~found[d] => Id(d) \notin DOMAIN inbox' \ DOMAIN inbox
  PROVE  Good(d)'
<1>0. Good(d) /\ mail' = mail
  BY DEF Inv, Discipline, Grows
<1>1. CASE pc[d] = "idle"
  BY <1>0, <1>1 DEF Spared, Good, OperationKnown, RecordKnown, RecoveryKnown, EndKnown,
                    InTransaction, Handling, Recovering
<1>2. CASE pc[d] # "idle"
  <2>1. cur[d] \in Messages /\ mail[cur[d]].wallet \in Wallets
    BY <1>2, Handled DEF Inv
  <2>2. Op(d)' = Op(d) /\ Id(d)' = Id(d) /\ cur'[d] = cur[d] /\ Op(d) = Request(mail[cur[d]])
    BY <1>0 DEF Spared, Op, Id
  <2>3. OperationKnown(d)'
    <3>1. Backed(Op(d)) => Backed(Op(d))'
      BY <2>1, <2>2, FactsStay DEF Grows, Backed
    <3>2. Clash(Op(d))' => Clash(Op(d)) \/ \E s \in Operations' \ Operations : SameIdentity(Op(d), s)
      BY <2>2 DEF Clash
    <3> QED BY <1>0, <2>1, <2>2, <3>1, <3>2 DEF Good, OperationKnown, Spared
  <2>4. RecordKnown(d)'
    <3>1. Recorded(mail[cur[d]]) => Recorded(mail[cur[d]])'
      BY <1>0, <2>1, <2>2 DEF Grows, Recorded
    <3> QED BY <1>0, <2>2, <3>1 DEF Good, RecordKnown, Spared
  <2>5. RecoveryKnown(d)'
    <3>1. Elsewhere(Op(d)) => Elsewhere(Op(d))'
      BY <2>2 DEF Grows, Elsewhere
    <3> QED BY <1>0, <2>2, <3>1 DEF Good, RecoveryKnown, Spared, Grows
  <2>6. EndKnown(d)'
    <3>1. (Kept(cur[d]) => Kept(cur[d])') /\ (Reason(cur[d]) => Reason(cur[d])')
      <4>1. \A k \in Messages : (Kept(k) => Kept(k)') /\ (Reason(k) => Reason(k)')
        BY FactsStay
      <4>2. \A k \in Messages : k = cur'[d] =>
               (Kept(k) => Kept(cur[d])') /\ (Reason(k) => Reason(cur[d])')
        BY <4>1 DEF Kept, Recorded, Reason, Mismatch, PayloadConflict, Duplicate
      <4> QED BY <2>1, <2>2, <4>2
    <3> QED BY <1>0, <2>1, <2>2, <3>1 DEF Good, EndKnown, Spared, Grows
  <2> QED BY <2>3, <2>4, <2>5, <2>6 DEF Good
<1> QED BY <1>1, <1>2

LEMMA ApartStays ==
  ASSUME Inv, NEW c \in Consumers, NEW d \in Consumers, c # d, mail' = mail, Spared(c), Spared(d)
  PROVE  Apart(c, d)'
BY DEF Inv, Discipline, Apart, Spared, Op, Id

(* Without a commit, the books stay right when what is taken from the      *)
(* queue is kept elsewhere and what is buried is buried for a reason.      *)
LEMMA BooksStay ==
  ASSUME Inv, Grows, ops' = ops, inbox' = inbox,
         \A m \in Messages : place'[m] = "gone" /\ place[m] # "gone" => Kept(m)',
         \A m \in Messages : m \in dead' \ dead => Reason(m)', Typed'
  PROVE  Books'
<1>1. OneEffect' /\ InboxBacked'
  BY DEF Inv, Books, OneEffect, InboxBacked, Operations
<1>2. NothingLost'
  <2>1. \A m \in Messages : Kept(m) => Kept(m)'
    BY FactsStay
  <2>2. \A m \in Messages : place'[m] = "gone" => Kept(m)'
    BY <2>1 DEF Inv, Books, NothingLost, Kept
  <2> QED BY <2>2 DEF NothingLost, Kept, Grows
<1>3. BuriedRightly'
  <2>1. \A m \in Messages : Reason(m) => Reason(m)'
    BY FactsStay
  <2>2. \A m \in Messages : m \in dead => Reason(m)
    BY DEF Inv, Books, BuriedRightly, Reason
  <2>3. \A m \in Messages : m \in dead' => Reason(m)'
    BY <2>1, <2>2
  <2>4. dead' \subseteq Messages
    BY DEF Typed, TypeOK
  <2> QED BY <2>3, <2>4 DEF BuriedRightly, Reason, Grows
<1> QED BY <1>1, <1>2, <1>3 DEF Books

(* A step of the queue or of a process, which no consumer notices.         *)
LEMMA UnnoticedKeeps ==
  ASSUME Inv, Typed', Grows, ops' = ops, inbox' = inbox,
         \A d \in Consumers : Spared(d),
         \A m \in Messages : place'[m] = "gone" /\ place[m] # "gone" => Kept(m)',
         \A m \in Messages : m \in dead' \ dead => Reason(m)'
  PROVE  Inv'
<1>1. Operations' = Operations
  BY DEF Operations
<1>2. \A d \in Consumers : Good(d)'
  BY <1>1, GoodStays
<1>3. \A c, d \in Consumers : c # d => Apart(c, d)'
  BY ApartStays DEF Grows
<1> QED BY <1>2, <1>3, BooksStay DEF Inv, Discipline

(* A step of one consumer that commits nothing.                            *)
LEMMA LocalKeeps ==
  ASSUME Inv, Typed', Grows, ops' = ops, inbox' = inbox,
         NEW c \in Consumers, \A d \in Consumers \ {c} : Spared(d),
         Good(c)', \A d \in Consumers \ {c} : Apart(c, d)' /\ Apart(d, c)',
         \A m \in Messages : place'[m] = "gone" /\ place[m] # "gone" => Kept(m)',
         \A m \in Messages : m \in dead' \ dead => Reason(m)'
  PROVE  Inv'
<1>1. Operations' = Operations
  BY DEF Operations
<1>2. \A d \in Consumers \ {c} : Good(d)'
  BY <1>1, GoodStays
<1>3. \A d, e \in Consumers \ {c} : d # e => Apart(d, e)'
  BY ApartStays DEF Grows
<1> QED BY <1>2, <1>3, BooksStay DEF Inv, Discipline

(* The messages, the tables and the queue stay as they are.                *)
Still == mail' = mail /\ place' = place /\ receives' = receives /\ dead' = dead
         /\ ops' = ops /\ inbox' = inbox

LEMMA StillGrows == ASSUME Still PROVE Grows
BY DEF Still, Grows, Operations

(* What a step that only reads, or writes nothing that is committed, has   *)
(* to show for the consumer that takes it.                                 *)
LEMMA StillKeeps ==
  ASSUME Inv, Typed', Still, NEW c \in Consumers, \A d \in Consumers \ {c} : Spared(d),
         OperationKnown(c)', RecordKnown(c)', RecoveryKnown(c)', EndKnown(c)',
         \A d \in Consumers \ {c} : Apart(c, d)' /\ Apart(d, c)'
  PROVE  Inv'
<1>1. Grows
  BY StillGrows
<1>2. Good(c)'
  BY DEF Good
<1>3. /\ \A m \in Messages : place'[m] = "gone" /\ place[m] # "gone" => Kept(m)'
      /\ \A m \in Messages : m \in dead' \ dead => Reason(m)'
  BY DEF Still
<1> QED BY <1>1, <1>2, <1>3, LocalKeeps DEF Still

(* A consumer that has nothing in the indexes is apart from all others.    *)
LEMMA NothingPending ==
  ASSUME NEW c, NEW d, ~new'[c], pc'[c] = "commit" => found'[c]
  PROVE  Apart(c, d)' /\ Apart(d, c)'
BY DEF Apart

-----------------------------------------------------------------------------
(* Ways a step of a handler ends.                                          *)

LEMMA UnlockSpares ==
  ASSUME Typed, NEW c \in Consumers, NEW d \in Consumers \ {c}, Unlock(c)
  PROVE  \A w \in Wallets : lock[w] = d => lock'[w] = d
BY DEF Unlock

(* Its transaction ends: it copies the message, for a reason, or looks for *)
(* a winner, of which there is a trace.                                    *)
LEMMA EndKeeps ==
  ASSUME Inv, NEW c \in Consumers, pc[c] # "idle",
         \/ EndTo(c, "bury") /\ Reason(cur[c])
         \/ EndTo(c, "recover") /\ (Id(c) \in DOMAIN inbox \/ Elsewhere(Op(c)))
  PROVE  Inv'
<1>1. PICK l \in {"bury", "recover"} :
         EndTo(c, l) /\ (l = "bury" => Reason(cur[c]))
         /\ (l = "recover" => Id(c) \in DOMAIN inbox \/ Elsewhere(Op(c)))
  OBVIOUS
<1>2. Typed'
  BY <1>1, EndTypes DEF Inv, Labels, InTransaction, Recovering
<1>3. Still /\ cur' = cur /\ Operations' = Operations
  BY <1>1 DEF EndTo, Still, Operations
<1>4. pc'[c] = l /\ ~found'[c] /\ ~new'[c]
  BY <1>1 DEF EndTo, Inv, Typed, TypeOK
<1>5. \A d \in Consumers \ {c} : Spared(d)
  BY <1>1, UnlockSpares DEF EndTo, Spared, Inv, Typed, TypeOK
<1>6. OperationKnown(c)' /\ RecordKnown(c)'
  BY <1>4 DEF OperationKnown, RecordKnown
<1>7. RecoveryKnown(c)'
  BY <1>1, <1>3, <1>4 DEF RecoveryKnown, Still, Op, Id, Elsewhere
<1>8. EndKnown(c)'
  <2>1. Reason(cur[c]) => Reason(cur[c])'
    BY <1>3 DEF Still, Reason, Mismatch, PayloadConflict, Duplicate
  <2>2. place[cur[c]] # "unsent"
    BY DEF Inv, Discipline, Good, EndKnown
  <2> QED BY <1>1, <1>3, <1>4, <2>1, <2>2 DEF EndKnown, Still
<1>9. \A d \in Consumers \ {c} : Apart(c, d)' /\ Apart(d, c)'
  BY <1>4, NothingPending
<1> QED BY <1>2, <1>3, <1>5, <1>6, <1>7, <1>8, <1>9, StillKeeps

(* It is idle.                                                             *)
LEMMA IdleKeeps ==
  ASSUME Inv, Typed', Grows, ops' = ops, inbox' = inbox,
         NEW c \in Consumers, \A d \in Consumers \ {c} : Spared(d),
         pc'[c] = "idle", ~found'[c], ~new'[c],
         \A m \in Messages : place'[m] = "gone" /\ place[m] # "gone" => Kept(m)',
         \A m \in Messages : m \in dead' \ dead => Reason(m)'
  PROVE  Inv'
<1>1. Good(c)'
  BY DEF Good, OperationKnown, RecordKnown, RecoveryKnown, EndKnown
<1>2. \A d \in Consumers \ {c} : Apart(c, d)' /\ Apart(d, c)'
  BY NothingPending
<1> QED BY <1>1, <1>2, LocalKeeps

LEMMA RetryKeeps == ASSUME Inv, NEW c \in Consumers, Retry(c) PROVE Inv'
<1>1. Typed' /\ place' = place
  BY RetryTypes DEF Inv
<1>2. Still
  BY <1>1 DEF Retry, Still
<1>3. pc'[c] = "idle" /\ ~found'[c] /\ ~new'[c]
  BY DEF Retry, Done, Inv, Typed, TypeOK
<1>4. \A d \in Consumers \ {c} : Spared(d)
  BY UnlockSpares DEF Retry, Done, Spared, Inv, Typed, TypeOK
<1> QED BY <1>1, <1>2, <1>3, <1>4, StillGrows, IdleKeeps DEF Still

(* The failures that bury a message are reasons to bury it.                *)
LEMMA FinishKeeps ==
  ASSUME Inv, NEW c \in Consumers, pc[c] # "idle", NEW failure, Finish(c, failure),
         failure \in Lasting => Reason(cur[c])
  PROVE  Inv'
BY EndKeeps, RetryKeeps DEF Finish

(* The operation is there, and so may be the row.                          *)
LEMMA AnsweredKeeps ==
  ASSUME Inv, NEW c \in Consumers, pc[c] \in {"key", "ext", "recheck"}, Answered(c), Backed(Op(c))
  PROVE  Inv'
<1>1. Typed'
  BY AnsweredTypes DEF Inv
<1>2. Still /\ UNCHANGED <<cur, found, new, lock>> /\ Operations' = Operations
  BY DEF Answered, Goto, Still, Operations
<1>3. pc'[c] = (IF found[c] THEN "commit" ELSE "record") /\ ~new[c]
  BY DEF Answered, Goto, Inv, Typed, TypeOK, Discipline, Good, OperationKnown
<1>4. \A d \in Consumers \ {c} : Spared(d)
  BY <1>2 DEF Answered, Goto, Spared, Inv, Typed, TypeOK
<1>5. OperationKnown(c)'
  BY <1>2, <1>3 DEF OperationKnown, Still, Op, Backed
<1>6. RecordKnown(c)'
  BY <1>2, <1>3 DEF RecordKnown, Still, Recorded, Inv, Discipline, Good, InTransaction, Handling
<1>7. RecoveryKnown(c)' /\ EndKnown(c)'
  BY <1>2, <1>3 DEF RecoveryKnown, EndKnown, Still, Inv, Discipline, Good
<1>8. \A d \in Consumers \ {c} : Apart(c, d)' /\ Apart(d, c)'
  BY <1>2, <1>3, NothingPending
<1> QED BY <1>1, <1>2, <1>4, <1>5, <1>6, <1>7, <1>8, StillKeeps

-----------------------------------------------------------------------------
(* The steps of a handler.                                                 *)

(* The first look at the inbox, and the second in recoverInbound.          *)
LEMMA LookKeeps ==
  ASSUME Inv, NEW c \in Consumers, NEW l \in {"key", "recoverKey"},
         pc[c] = IF l = "key" THEN "inbox" ELSE "recover",
         ~Mismatch(mail[cur[c]]),
         pc' = [pc EXCEPT ![c] = l],
         found' = [found EXCEPT ![c] = Recorded(mail[cur[c]])],
         UNCHANGED <<mail, place, receives, dead, open, ops, inbox, cur, new, lock, polling>>,
         Typed'
  PROVE  Inv'
<1>1. Still /\ Operations' = Operations
  BY DEF Still, Operations
<1>2. pc'[c] = l /\ found'[c] = Recorded(mail[cur[c]]) /\ ~new'[c]
  BY DEF Inv, Typed, TypeOK, Discipline, Good, OperationKnown
<1>3. \A d \in Consumers \ {c} : Spared(d)
  BY DEF Spared, Inv, Typed, TypeOK
<1>4. OperationKnown(c)'
  BY <1>2 DEF OperationKnown
<1>5. RecordKnown(c)'
  BY <1>2 DEF RecordKnown, Recorded, InTransaction, Handling, Recovering
<1>6. RecoveryKnown(c)'
  <2>1. l = "recoverKey" => Recorded(mail[cur[c]]) \/ Elsewhere(Op(c))
    BY DEF Inv, Discipline, Good, RecoveryKnown, Recorded, Mismatch, Id
  <2> QED BY <1>1, <1>2, <2>1 DEF RecoveryKnown, Op, Elsewhere
<1>7. EndKnown(c)'
  BY <1>2 DEF EndKnown, Inv, Discipline, Good
<1>8. \A d \in Consumers \ {c} : Apart(c, d)' /\ Apart(d, c)'
  BY <1>2, NothingPending
<1> QED BY <1>1, <1>3, <1>4, <1>5, <1>6, <1>7, <1>8, StillKeeps

LEMMA GetInboxKeeps == ASSUME Inv, NEW c \in Consumers, GetInbox(c) PROVE Inv'
<1>1. Typed'
  BY StepTypes DEF Step, Inv
<1>2. CASE Mismatch(mail[cur[c]])
  BY <1>2, FinishKeeps DEF GetInbox, Reason
<1>3. CASE ~Mismatch(mail[cur[c]])
  BY <1>1, <1>3, LookKeeps DEF GetInbox
<1> QED BY <1>2, <1>3

LEMMA RecoverKeeps == ASSUME Inv, NEW c \in Consumers, Recover(c) PROVE Inv'
<1>1. Typed'
  BY StepTypes DEF Step, Inv
<1>2. CASE Mismatch(mail[cur[c]])
  BY <1>2, FinishKeeps DEF Recover, Reason
<1>3. CASE ~Mismatch(mail[cur[c]])
  BY <1>1, <1>3, LookKeeps DEF Recover
<1> QED BY <1>2, <1>3

(* A step to another label of the transaction, with nothing to show there. *)
LEMMA GotoKeeps ==
  ASSUME Inv, NEW c \in Consumers, NEW l \in {"ext", "lock", "insert"},
         pc[c] \in {"key", "ext", "recheck"}, Goto(c, l),
         l = "insert" => ~Clash(Op(c)) /\ pc[c] = "recheck"
  PROVE  Inv'
<1>1. Typed'
  BY GotoTypes DEF Inv, Labels, InTransaction, Handling
<1>2. Still /\ UNCHANGED <<cur, found, new, lock>> /\ Operations' = Operations
  BY DEF Goto, Still, Operations
<1>3. pc'[c] = l /\ ~new[c]
  BY DEF Goto, Inv, Typed, TypeOK, Discipline, Good, OperationKnown
<1>4. \A d \in Consumers \ {c} : Spared(d)
  BY <1>2 DEF Goto, Spared, Inv, Typed, TypeOK
<1>5. OperationKnown(c)'
  <2>1. Op(c)' = Op(c) /\ mail' = mail
    BY <1>2 DEF Op, Still
  <2>2. l = "insert" => lock[mail[cur[c]].wallet] = c
    BY DEF Inv, Discipline, Good, OperationKnown
  <2>3. l = "insert" => \A s \in Operations : ~SameIdentity(s, Op(c))
    BY IdentitySymmetric DEF Clash
  <2> QED BY <1>2, <1>3, <2>1, <2>2, <2>3 DEF OperationKnown
<1>6. RecordKnown(c)'
  BY <1>2, <1>3 DEF RecordKnown, Still, Recorded, Inv, Discipline, Good, InTransaction, Handling
<1>7. RecoveryKnown(c)' /\ EndKnown(c)'
  BY <1>2, <1>3 DEF RecoveryKnown, EndKnown, Still, Inv, Discipline, Good
<1>8. \A d \in Consumers \ {c} : Apart(c, d)' /\ Apart(d, c)'
  BY <1>2, <1>3, NothingPending
<1> QED BY <1>1, <1>2, <1>4, <1>5, <1>6, <1>7, <1>8, StillKeeps

(* A replay has the external id, too.                                      *)
LEMMA ReplayBacked == ASSUME NEW r, Replayable(r) \/ Twin(r) PROVE Backed(r)
BY DEF Replayable, Twin, SamePayload, Backed

LEMMA FindKeyKeeps == ASSUME Inv, NEW c \in Consumers, FindKey(c) PROVE Inv'
<1>1. pc[c] = "key"
  BY DEF FindKey
<1>2. CASE Replayable(Op(c)) /\ Answered(c)
  BY <1>1, <1>2, ReplayBacked, AnsweredKeeps
<1>3. CASE PayloadConflict(Op(c)) /\ Finish(c, "rejection")
  BY <1>1, <1>3, FinishKeeps DEF Reason, Op
<1>4. CASE Goto(c, "ext")
  BY <1>1, <1>4, GotoKeeps
<1> QED BY <1>2, <1>3, <1>4 DEF FindKey, Op

LEMMA FindExtKeeps == ASSUME Inv, NEW c \in Consumers, FindExt(c) PROVE Inv'
<1>1. pc[c] = "ext"
  BY DEF FindExt
<1>2. CASE Twin(Op(c)) /\ Answered(c)
  BY <1>1, <1>2, ReplayBacked, AnsweredKeeps
<1>3. CASE Duplicate(Op(c)) /\ Finish(c, "rejection")
  BY <1>1, <1>3, FinishKeeps DEF Reason, Op
<1>4. CASE Goto(c, "lock")
  BY <1>1, <1>4, GotoKeeps
<1> QED BY <1>2, <1>3, <1>4 DEF FindExt, Op

LEMMA RecheckKeeps == ASSUME Inv, NEW c \in Consumers, Recheck(c) PROVE Inv'
<1>1. pc[c] = "recheck"
  BY DEF Recheck
<1>2. CASE Replayable(Op(c)) /\ Answered(c)
  BY <1>1, <1>2, ReplayBacked, AnsweredKeeps
<1>3. CASE Refused(Op(c)) /\ Finish(c, "rejection")
  BY <1>1, <1>3, FinishKeeps DEF Reason, Op, Refused
<1>4. CASE mail[cur[c]].fate # "sound" /\ Finish(c, "validation")
  BY <1>1, <1>4, FinishKeeps DEF Reason
<1>5. CASE ~Clash(Op(c)) /\ Goto(c, "insert")
  BY <1>1, <1>5, GotoKeeps
<1> QED BY <1>2, <1>3, <1>4, <1>5 DEF Recheck, Op

LEMMA LockWalletKeeps == ASSUME Inv, NEW c \in Consumers, LockWallet(c) PROVE Inv'
<1>1. pc[c] = "lock"
  BY DEF LockWallet
<1>2. CASE Finish(c, "not found")
  BY <1>1, <1>2, FinishKeeps DEF Lasting
<1>3. CASE ~Finish(c, "not found")
  <2> DEFINE w == mail[cur[c]].wallet
  <2>1. /\ lock[w] = NONE /\ lock' = [lock EXCEPT ![w] = c]
        /\ pc' = [pc EXCEPT ![c] = "recheck"]
        /\ UNCHANGED <<mail, place, receives, dead, open, ops, inbox, cur, found, new, polling>>
    BY <1>3 DEF LockWallet
  <2>2. w \in Wallets
    BY <1>1, Handled DEF Inv
  <2>3. Typed'
    BY StepTypes DEF Step, Inv
  <2>4. Still /\ Operations' = Operations
    BY <2>1 DEF Still, Operations
  <2>5. pc'[c] = "recheck" /\ ~new[c] /\ lock'[w] = c
    BY <1>1, <2>1, <2>2 DEF Inv, Typed, TypeOK, Discipline, Good, OperationKnown
  <2>6. \A d \in Consumers \ {c} : Spared(d)
    BY <2>1, <2>2, InboundAssumption DEF Spared, Inv, Typed, TypeOK
  <2>7. OperationKnown(c)'
    BY <2>1, <2>5 DEF OperationKnown
  <2>8. RecordKnown(c)'
    BY <1>1, <2>1, <2>5 DEF RecordKnown, Recorded, Inv, Discipline, Good, InTransaction, Handling
  <2>9. RecoveryKnown(c)' /\ EndKnown(c)'
    BY <1>1, <2>1, <2>5 DEF RecoveryKnown, EndKnown, Inv, Discipline, Good
  <2>10. \A d \in Consumers \ {c} : Apart(c, d)' /\ Apart(d, c)'
    BY <2>1, <2>5, NothingPending
  <2> QED BY <2>3, <2>4, <2>6, <2>7, <2>8, <2>9, <2>10, StillKeeps
<1> QED BY <1>2, <1>3

(* An index entry is inserted when neither the table nor another open      *)
(* transaction has its identities.                                         *)
LEMMA InsertOperationKeeps == ASSUME Inv, NEW c \in Consumers, InsertOperation(c) PROVE Inv'
<1>1. pc[c] = "insert" /\ PendingOperation(Op(c)) = {}
  BY DEF InsertOperation, Op
<1>2. CASE Clash(Op(c))
  <2>1. Elsewhere(Op(c))
    BY <1>1, <1>2, IdentitySymmetric, RequestFields
       DEF Clash, Elsewhere, Inv, Discipline, Good, OperationKnown, Op
  <2>2. EndTo(c, "recover")
    BY <1>2 DEF InsertOperation, Op
  <2> QED BY <1>1, <2>1, <2>2, EndKeeps
<1>3. CASE ~Clash(Op(c))
  <2>1. /\ pc' = [pc EXCEPT ![c] = IF found[c] THEN "commit" ELSE "record"]
        /\ new' = [new EXCEPT ![c] = TRUE]
        /\ UNCHANGED <<mail, place, receives, dead, open, ops, inbox, cur, found, lock, polling>>
    BY <1>3 DEF InsertOperation, Op
  <2>2. Typed'
    BY StepTypes DEF Step, Inv
  <2>3. Still /\ Operations' = Operations /\ Op(c)' = Op(c)
    BY <2>1 DEF Still, Operations, Op
  <2>4. pc'[c] = (IF found[c] THEN "commit" ELSE "record") /\ new'[c]
    BY <2>1 DEF Inv, Typed, TypeOK
  <2>5. \A d \in Consumers \ {c} : Spared(d)
    BY <2>1 DEF Spared, Inv, Typed, TypeOK
  <2>6. OperationKnown(c)'
    <3>1. lock[mail[cur[c]].wallet] = c
      BY <1>1 DEF Inv, Discipline, Good, OperationKnown
    <3>2. ~Clash(Op(c))'
      BY <1>3, <2>3 DEF Clash
    <3> QED BY <2>1, <2>4, <3>1, <3>2 DEF OperationKnown
  <2>7. RecordKnown(c)'
    BY <2>1, <2>4 DEF RecordKnown, Recorded, Inv, Discipline, Good, InTransaction, Handling
  <2>8. RecoveryKnown(c)' /\ EndKnown(c)'
    BY <1>1, <2>1, <2>4 DEF RecoveryKnown, EndKnown, Inv, Discipline, Good
  <2>9. ASSUME NEW d \in Consumers \ {c} PROVE Apart(c, d)' /\ Apart(d, c)'
    <3>1. new[d] => ~SameIdentity(Op(c), Op(d))
      BY <1>1 DEF PendingOperation, Op, Inv, Discipline, Good, OperationKnown
    <3>2. Op(d)' = Op(d) /\ new'[d] = new[d]
      BY <2>1, <2>5 DEF Op, Spared
    <3> QED BY <2>1, <2>3, <2>4, <3>1, <3>2, IdentitySymmetric DEF Apart
  <2> QED BY <2>2, <2>3, <2>5, <2>6, <2>7, <2>8, <2>9, StillKeeps
<1> QED BY <1>2, <1>3

(* The last statement before the commit: the row is new, in the table and  *)
(* among the open transactions.                                            *)
LEMMA RowKeeps ==
  ASSUME Inv, NEW c \in Consumers, pc[c] \in {"record", "recoverKey"}, Goto(c, "commit"),
         found[c] \/ (Id(c) \notin DOMAIN inbox /\ PendingRecord(Id(c)) = {}),
         new[c] \/ Backed(Op(c))
  PROVE  Inv'
<1>1. Typed'
  BY GotoTypes DEF Inv, Labels, InTransaction
<1>2. /\ Still /\ UNCHANGED <<cur, found, new, lock>> /\ Operations' = Operations
      /\ Op(c)' = Op(c) /\ Id(c)' = Id(c)
  BY DEF Goto, Still, Operations, Op, Id
<1>3. pc'[c] = "commit"
  BY DEF Goto, Inv, Typed, TypeOK
<1>4. \A d \in Consumers \ {c} : Spared(d)
  BY <1>2 DEF Goto, Spared, Inv, Typed, TypeOK
<1>5. OperationKnown(c)'
  <2>1. new[c] => lock[mail[cur[c]].wallet] = c /\ ~Clash(Op(c))
    BY DEF Inv, Discipline, Good, OperationKnown
  <2>2. Clash(Op(c))' => Clash(Op(c))
    BY <1>2 DEF Clash
  <2>3. Backed(Op(c)) => Backed(Op(c))'
    BY <1>2 DEF Backed
  <2> QED BY <1>2, <1>3, <2>1, <2>2, <2>3 DEF OperationKnown, Still
<1>6. RecordKnown(c)'
  BY <1>2, <1>3 DEF RecordKnown, Still, Recorded, Inv, Discipline, Good, InTransaction
<1>7. RecoveryKnown(c)' /\ EndKnown(c)'
  BY <1>2, <1>3 DEF RecoveryKnown, EndKnown, Still, Inv, Discipline, Good
<1>8. ASSUME NEW d \in Consumers \ {c} PROVE Apart(c, d)' /\ Apart(d, c)'
  <2>1. Apart(c, d) /\ Apart(d, c)
    BY DEF Inv, Discipline
  <2>2. Op(d)' = Op(d) /\ Id(d)' = Id(d) /\ pc'[d] = pc[d]
    BY <1>2, <1>4 DEF Op, Id, Spared, Still
  <2>3. ~found[c] /\ pc[d] = "commit" /\ ~found[d] => Id(d) # Id(c)
    BY DEF PendingRecord, Id
  <2> QED BY <1>2, <2>1, <2>2, <2>3 DEF Apart
<1> QED BY <1>1, <1>2, <1>4, <1>5, <1>6, <1>7, <1>8, StillKeeps

LEMMA InsertRecordKeeps == ASSUME Inv, NEW c \in Consumers, InsertRecord(c) PROVE Inv'
<1>1. pc[c] = "record" /\ PendingRecord(Id(c)) = {}
  BY DEF InsertRecord, Id
<1>2. CASE Id(c) \in DOMAIN inbox /\ EndTo(c, "recover")
  BY <1>1, <1>2, EndKeeps
<1>3. CASE Id(c) \notin DOMAIN inbox /\ Goto(c, "commit")
  <2>1. new[c] \/ Backed(Op(c))
    BY <1>1 DEF Inv, Discipline, Good, OperationKnown
  <2> QED BY <1>1, <1>3, <2>1, RowKeeps
<1> QED BY <1>2, <1>3 DEF InsertRecord, Id

LEMMA RecoverKeyKeeps == ASSUME Inv, NEW c \in Consumers, RecoverKey(c) PROVE Inv'
<1>1. pc[c] = "recoverKey"
  BY DEF RecoverKey
<1>2. CASE Replayable(Op(c)) /\ (found[c] \/ Id(c) \notin DOMAIN inbox) /\ Goto(c, "commit")
  <2>1. ~found[c] => PendingRecord(Id(c)) = {}
    BY <1>2 DEF RecoverKey, Op, Id
  <2>2. Backed(Op(c))
    BY <1>2, ReplayBacked
  <2> QED BY <1>1, <1>2, <2>1, <2>2, RowKeeps
<1>3. CASE Refused(Op(c)) /\ Finish(c, "rejection")
  BY <1>1, <1>3, FinishKeeps DEF Reason, Op, Refused
<1>4. CASE Finish(c, "aborted") \/ Finish(c, "conflict")
  BY <1>1, <1>4, FinishKeeps DEF Lasting
<1> QED BY <1>2, <1>3, <1>4 DEF RecoverKey, Op, Id

(* The tables after a commit, and what it leaves of the transaction.       *)
LEMMA Committed ==
  ASSUME Inv, NEW c \in Consumers, Commit(c)
  PROVE  /\ new[c] => Operations' = Operations \cup {Op(c)}
         /\ ~new[c] => Operations' = Operations
         /\ found[c] => inbox' = inbox
         /\ ~found[c] => inbox' = [i \in DOMAIN inbox \cup {Id(c)} |->
                                     IF i = Id(c) THEN mail[cur[c]] ELSE inbox[i]]
         /\ UNCHANGED <<mail, place, receives, dead>>
         /\ Grows
         /\ ~found'[c] /\ ~new'[c] /\ pc'[c] \in {"ack", "idle"}
         /\ pc'[c] = "ack" => cur'[c] = cur[c]
         /\ \A d \in Consumers \ {c} : Spared(d)
<1>1. pc[c] = "commit" /\ Op(c) \in Requests
  BY Handled DEF Commit, Inv
<1>2. (new[c] => Operations' = Operations \cup {Op(c)}) /\ (~new[c] => Operations' = Operations)
  <2>1. new[c] => ops' = Append(ops, Op(c))
    BY DEF Commit, Install, Op
  <2>2. ~new[c] => ops' = ops
    BY DEF Commit, Install
  <2>3. ToSet(Append(ops, Op(c))) = ToSet(ops) \cup {Op(c)}
    BY <1>1, AppendSet DEF Inv, Typed
  <2> QED BY <2>1, <2>2, <2>3 DEF Operations
<1>3. /\ found[c] => inbox' = inbox
      /\ ~found[c] => inbox' = [i \in DOMAIN inbox \cup {Id(c)} |->
                                  IF i = Id(c) THEN mail[cur[c]] ELSE inbox[i]]
  BY DEF Commit, Install, Id
<1>4. UNCHANGED <<mail, place, receives, dead>>
  BY DEF Commit
<1>5. Grows
  <2>1. ~found[c] => Id(c) \notin DOMAIN inbox
    BY <1>1 DEF Inv, Discipline, Good, RecordKnown
  <2>2. DOMAIN inbox \subseteq DOMAIN inbox' /\ \A i \in DOMAIN inbox : inbox'[i] = inbox[i]
    BY <1>3, <2>1
  <2> QED BY <1>2, <1>4, <2>2 DEF Grows
<1>6. ~found'[c] /\ ~new'[c] /\ pc'[c] \in {"ack", "idle"} /\ (pc'[c] = "ack" => cur'[c] = cur[c])
  BY DEF Commit, Done, Inv, Typed, TypeOK
<1>7. ASSUME NEW d \in Consumers \ {c} PROVE Spared(d)
  <2>1. pc'[d] = pc[d] /\ cur'[d] = cur[d]
    BY DEF Commit, Done, Inv, Typed, TypeOK
  <2>2. found'[d] = found[d] /\ new'[d] = new[d]
    BY DEF Commit, Inv, Typed, TypeOK
  <2> QED BY <2>1, <2>2, UnlockSpares DEF Commit, Spared, Inv
<1> QED BY <1>2, <1>3, <1>4, <1>5, <1>6, <1>7

(* At most one operation per identity, also after one more.                *)
LEMMA OneMore ==
  ASSUME OneEffect, NEW S, ops \in Seq(S), NEW r \in S, ops' = Append(ops, r), ~Clash(r)
  PROVE  OneEffect'
<1>1. /\ DOMAIN ops' = 1..Len(ops) + 1 /\ DOMAIN ops = 1..Len(ops) /\ Len(ops) \in Nat
      /\ ops'[Len(ops) + 1] = r
      /\ \A i \in 1..Len(ops) : ops'[i] = ops[i]
  OBVIOUS
<1>2. \A i \in 1..Len(ops) : ~SameIdentity(r, ops[i]) /\ ~SameIdentity(ops[i], r)
  BY <1>1, IdentitySymmetric DEF Clash, Operations, ToSet
<1>3. \A i, j \in 1..Len(ops) : SameIdentity(ops[i], ops[j]) => i = j
  BY <1>1 DEF OneEffect
<1>4. ASSUME NEW i \in DOMAIN ops', NEW j \in DOMAIN ops', SameIdentity(ops'[i], ops'[j])
      PROVE  i = j
  <2>1. CASE i \in 1..Len(ops) /\ j \in 1..Len(ops)
    BY <1>1, <1>3, <1>4, <2>1
  <2>2. CASE i = Len(ops) + 1 /\ j \in 1..Len(ops)
    BY <1>1, <1>2, <1>4, <2>2
  <2>3. CASE i \in 1..Len(ops) /\ j = Len(ops) + 1
    BY <1>1, <1>2, <1>4, <2>3
  <2> QED BY <1>1, <2>1, <2>2, <2>3
<1> QED BY <1>4 DEF OneEffect

(* What is kept stays kept, and what was buried for a reason was so.       *)
LEMMA QueueBooksStay ==
  ASSUME Inv, Grows, UNCHANGED <<place, dead>>
  PROVE  NothingLost' /\ BuriedRightly'
<1>1. \A m \in Messages : (Kept(m) => Kept(m)') /\ (Reason(m) => Reason(m)')
  BY FactsStay
<1>2. NothingLost'
  BY <1>1 DEF Inv, Books, NothingLost, Kept, Grows
<1>3. \A m \in dead : m \in Messages /\ Reason(m)
  BY DEF Inv, Typed, TypeOK, Books, BuriedRightly, Reason
<1>4. \A m \in dead' : Reason(m)'
  BY <1>1, <1>3
<1> QED BY <1>2, <1>4 DEF BuriedRightly, Reason, Grows

(* The operation and the row of a message become visible together, with    *)
(* nothing pending or decided elsewhere that they contradict.              *)
LEMMA CommitKeeps == ASSUME Inv, NEW c \in Consumers, Commit(c) PROVE Inv'
<1>1. /\ pc[c] = "commit" /\ Good(c) /\ cur[c] \in Messages /\ mail[cur[c]].wallet \in Wallets
      /\ Op(c) = Request(mail[cur[c]]) /\ Op(c) \in Requests
  BY Handled DEF Commit, Inv, Discipline, Op
<1>2. Typed'
  BY StepTypes DEF Step, Inv
<1>3. /\ Grows /\ UNCHANGED <<mail, place, receives, dead>>
      /\ ~found'[c] /\ ~new'[c] /\ pc'[c] \in {"ack", "idle"}
      /\ pc'[c] = "ack" => cur'[c] = cur[c]
      /\ \A d \in Consumers \ {c} : Spared(d)
  BY Committed
<1>4. (new[c] => Operations' = Operations \cup {Op(c)}) /\ (~new[c] => Operations' = Operations)
  BY Committed
<1>5. /\ found[c] => inbox' = inbox
      /\ ~found[c] => DOMAIN inbox' = DOMAIN inbox \cup {Id(c)} /\ inbox'[Id(c)] = mail[cur[c]]
  BY Committed
<1>6. Good(c)'
  <2>1. pc'[c] = "ack" => Kept(cur[c])'
    <3>1. SUFFICES ASSUME pc'[c] = "ack" PROVE Recorded(mail[cur[c]])'
      BY <3>1, <1>3 DEF Kept
    <3>2. cur'[c] = cur[c]
      BY <3>1, <1>3
    <3>3. CASE found[c]
      BY <1>1, <1>3, <1>5, <3>2, <3>3 DEF Recorded, Good, RecordKnown
    <3>4. CASE ~found[c]
      BY <1>3, <1>5, <3>2, <3>4 DEF Recorded, Id
    <3> QED BY <3>3, <3>4
  <2>2. pc'[c] # "idle" => place'[cur'[c]] # "unsent"
    BY <1>1, <1>3 DEF Good, EndKnown
  <2>3. pc'[c] = "ack" => Kept(cur[c])' /\ cur'[c] = cur[c]
    BY <2>1, <1>3
  <2> QED BY <2>2, <2>3, <1>3 DEF Good, OperationKnown, RecordKnown, RecoveryKnown, EndKnown
<1>7. ASSUME NEW d \in Consumers \ {c} PROVE Good(d)'
  <2>1. Good(d) /\ Apart(d, c) /\ Spared(d)
    BY <1>3 DEF Inv, Discipline
  <2>2. \A s \in Operations' \ Operations : s = Op(c) /\ new[c]
    BY <1>4
  <2>3. pc[d] = "insert" =>
           \A s \in Operations' \ Operations : s.wallet = Op(d).wallet => ~SameIdentity(s, Op(d))
    <3>1. new[c] => lock[Op(c).wallet] = c
      BY <1>1, RequestFields DEF Good, OperationKnown
    <3>2. pc[d] = "insert" => lock[Op(d).wallet] = d
      BY <2>1, RequestFields DEF Good, OperationKnown, Op
    <3> QED BY <2>2, <3>1, <3>2
  <2>4. new[d] => \A s \in Operations' \ Operations : ~SameIdentity(Op(d), s)
    BY <2>1, <2>2 DEF Apart
  <2>5. pc[d] = "commit" /\ ~found[d] => Id(d) \notin DOMAIN inbox' \ DOMAIN inbox
    BY <1>1, <1>5, <2>1 DEF Apart
  <2> QED BY <1>2, <1>3, <2>1, <2>3, <2>4, <2>5, GoodStays
<1>8. \A d, e \in Consumers : d # e => Apart(d, e)'
  <2>1. \A d \in Consumers \ {c} : Apart(c, d)' /\ Apart(d, c)'
    BY <1>3, NothingPending
  <2>2. \A d, e \in Consumers \ {c} : d # e => Apart(d, e)'
    BY <1>3, ApartStays
  <2> QED BY <2>1, <2>2
<1>9. OneEffect'
  <2>1. CASE new[c]
    <3>1. ~Clash(Op(c)) /\ ops' = Append(ops, Op(c))
      BY <1>1, <2>1 DEF Good, OperationKnown, Commit, Install
    <3> QED BY <1>1, <3>1, OneMore DEF Inv, Typed, Books
  <2>2. CASE ~new[c]
    BY <2>2 DEF Commit, Install, OneEffect, Inv, Books
  <2> QED BY <2>1, <2>2
<1>10. InboxBacked'
  <2>1. \A i \in DOMAIN inbox : \E s \in Operations' : s.key = inbox'[i].key /\ s.ext = inbox'[i].ext
    BY <1>3 DEF Grows, Inv, Books, InboxBacked
  <2>2. ~found[c] => \E s \in Operations' : s.key = mail[cur[c]].key /\ s.ext = mail[cur[c]].ext
    <3>1. Op(c).key = mail[cur[c]].key /\ Op(c).ext = mail[cur[c]].ext
      BY <1>1, RequestFields
    <3>2. CASE new[c]
      BY <1>4, <3>1, <3>2
    <3>3. CASE ~new[c]
      BY <1>1, <1>4, <3>1, <3>3 DEF Good, OperationKnown, Backed
    <3> QED BY <3>2, <3>3
  <2> QED BY <1>5, <2>1, <2>2 DEF InboxBacked
<1>11. NothingLost' /\ BuriedRightly'
  BY <1>3, QueueBooksStay
<1> QED BY <1>2, <1>6, <1>7, <1>8, <1>9, <1>10, <1>11 DEF Inv, Discipline, Books

(* A message is deleted once its outcome is kept.                          *)
LEMMA DeleteKeeps == ASSUME Inv, NEW c \in Consumers, Delete(c) PROVE Inv'
<1>1. pc[c] = "ack" /\ cur[c] \in Messages /\ Kept(cur[c])
  BY Handled DEF Delete, Inv, Discipline, Good, EndKnown
<1>2. Typed'
  BY StepTypes DEF Step, Inv
<1>3. /\ pc'[c] = "idle" /\ ~found'[c] /\ ~new'[c] /\ ops' = ops /\ inbox' = inbox
      /\ \A d \in Consumers \ {c} : Spared(d)
  <2>1. ~found[c] /\ ~new[c]
    BY <1>1 DEF Inv, Discipline, Good, OperationKnown, RecordKnown,
                InTransaction, Handling, Recovering
  <2>2. pc'[c] = "idle"
    BY DEF Delete, Done, Inv, Typed, TypeOK
  <2>3. \A d \in Consumers \ {c} : Spared(d)
    BY DEF Delete, Done, Spared, Inv, Typed, TypeOK
  <2> QED BY <2>1, <2>2, <2>3 DEF Delete
<1>4. \A m \in Messages : place'[m] = place[m] \/ (place'[m] = "gone" /\ m = cur[c])
  BY DEF Delete, Inv, Typed, TypeOK
<1>5. Grows
  BY <1>4 DEF Delete, Grows, Operations
<1>6. \A m \in Messages : place'[m] = "gone" /\ place[m] # "gone" => Kept(m)'
  BY <1>1, <1>4, <1>5, FactsStay
<1>7. \A m \in Messages : m \in dead' \ dead => Reason(m)'
  BY DEF Delete
<1> QED BY <1>2, <1>3, <1>5, <1>6, <1>7, IdleKeeps

(* Whether the queue takes the copy or has one, there is one.              *)
LEMMA SendToDLQKeeps == ASSUME Inv, NEW c \in Consumers, SendToDLQ(c) PROVE Inv'
<1>1. pc[c] = "bury" /\ cur[c] \in Messages /\ Reason(cur[c])
  BY Handled DEF SendToDLQ, Inv, Discipline, Good, EndKnown
<1>2. CASE Retry(c)
  BY <1>2, RetryKeeps
<1>3. CASE ~Retry(c)
  <2>1. /\ \/ dead' = dead \cup {cur[c]}
           \/ dead' = dead /\ \E d \in dead : CopyId(mail[d]) = CopyId(mail[cur[c]])
        /\ (pc' = [pc EXCEPT ![c] = "ack"] /\ cur' = cur) \/ Done(c)
        /\ UNCHANGED <<mail, place, receives, open, ops, inbox, found, new, lock, polling>>
    BY <1>3 DEF SendToDLQ
  <2>2. Typed'
    BY StepTypes DEF Step, Inv
  <2>3. Grows
    BY <2>1 DEF Grows, Operations
  <2>4. ~found'[c] /\ ~new'[c]
    BY <1>1, <2>1 DEF Inv, Discipline, Good, OperationKnown, RecordKnown,
                      InTransaction, Handling, Recovering
  <2>5. \A d \in Consumers \ {c} : Spared(d)
    BY <2>1 DEF Done, Spared, Inv, Typed, TypeOK
  <2>6. \A m \in Messages : place'[m] = "gone" /\ place[m] # "gone" => Kept(m)'
    BY <2>1
  <2>7. \A m \in Messages : m \in dead' \ dead => Reason(m)'
    BY <1>1, <2>1, <2>3, FactsStay
  <2>8. CASE Done(c)
    <3>1. pc'[c] = "idle"
      BY <2>8 DEF Done, Inv, Typed, TypeOK
    <3> QED BY <2>1, <2>2, <2>3, <2>4, <2>5, <2>6, <2>7, <3>1, IdleKeeps
  <2>9. CASE pc' = [pc EXCEPT ![c] = "ack"] /\ cur' = cur
    <3>1. pc'[c] = "ack" /\ place'[cur'[c]] # "unsent"
      BY <1>1, <2>1, <2>9 DEF Inv, Typed, TypeOK, Discipline, Good, EndKnown
    <3>2. Kept(cur[c])'
      BY <2>1, <2>9 DEF Kept
    <3>3. Good(c)'
      BY <2>4, <3>1, <3>2 DEF Good, OperationKnown, RecordKnown, RecoveryKnown, EndKnown
    <3>4. \A d \in Consumers \ {c} : Apart(c, d)' /\ Apart(d, c)'
      BY <2>4, <3>1, NothingPending
    <3> QED BY <2>1, <2>2, <2>3, <2>5, <2>6, <2>7, <3>3, <3>4, LocalKeeps
  <2> QED BY <2>1, <2>8, <2>9
<1> QED BY <1>2, <1>3

LEMMA StepKeeps == ASSUME Inv, NEW c \in Consumers, Step(c) PROVE Inv'
<1>1. CASE Fail(c)
  BY <1>1, RetryKeeps DEF Fail
<1> QED BY <1>1, GetInboxKeeps, FindKeyKeeps, FindExtKeeps, LockWalletKeeps, RecheckKeeps,
           InsertOperationKeeps, InsertRecordKeeps, CommitKeeps, RecoverKeeps, RecoverKeyKeeps,
           DeleteKeeps, SendToDLQKeeps DEF Step

-----------------------------------------------------------------------------
(* The queue, the processes and the other channels.                        *)

LEMMA QueueKeeps ==
  ASSUME Inv, NEW m \in Messages, Send(m) \/ Expire(m) \/ Redrive(m) \/ LoseResponse(m)
  PROVE  Inv'
<1>1. Typed'
  BY QueueTypes DEF Poll, Inv
<1>2. /\ mail' = mail /\ ops' = ops /\ inbox' = inbox
      /\ \A d \in Consumers : Spared(d)
  BY DEF Send, Expire, Redrive, LoseResponse, Spared
<1>3. /\ \A k \in Messages : place'[k] = place[k] \/ (k = m /\ place'[k] # "unsent")
      /\ \A k \in Messages : receives'[k] = receives[k] \/ receives[k] # MaxReceives
      /\ dead' = dead \/ Redrive(m)
  <2>1. m \in Messages /\ place \in [Messages -> Places] /\ receives \in [Messages -> 0..MaxReceives]
    BY DEF Inv, Typed, TypeOK
  <2>2. MaxReceives \in Nat
    BY InboundAssumption
  <2> QED BY <2>1, <2>2 DEF Send, Expire, Redrive, LoseResponse, HandOut
<1>4. Grows
  BY <1>2, <1>3 DEF Grows, Operations, Redrive
<1>5. \A k \in Messages : place'[k] = "gone" /\ place[k] # "gone" => Kept(k)'
  <2>1. CASE Redrive(m)
    BY <2>1 DEF Redrive, Kept, Inv, Typed, TypeOK
  <2>2. CASE ~Redrive(m)
    BY <2>2 DEF Send, Expire, LoseResponse, HandOut, Inv, Typed, TypeOK
  <2> QED BY <2>1, <2>2
<1>6. \A k \in Messages : k \in dead' \ dead => Reason(k)'
  BY <1>3 DEF Redrive, Reason
<1> QED BY <1>1, <1>2, <1>4, <1>5, <1>6, UnnoticedKeeps

(* A handler begins with nothing known; what cannot be parsed is not sound.*)
LEMMA ReceiveKeeps ==
  ASSUME Inv, NEW c \in Consumers, NEW m \in Messages, Receive(c, m)
  PROVE  Inv'
<1>1. Typed'
  BY QueueTypes DEF Poll, Inv
<1>2. pc[c] = "idle" /\ ops' = ops /\ inbox' = inbox /\ dead' = dead /\ mail' = mail
  BY DEF Receive, Poller, HandOut
<1>3. /\ pc'[c] = (IF Parses(mail[m]) THEN "inbox" ELSE "bury") /\ cur'[c] = m
      /\ ~found'[c] /\ ~new'[c]
      /\ \A d \in Consumers \ {c} : Spared(d)
  <2>1. /\ pc' = [pc EXCEPT ![c] = IF Parses(mail[m]) THEN "inbox" ELSE "bury"]
        /\ cur' = [cur EXCEPT ![c] = m]
        /\ UNCHANGED <<found, new, lock>>
    BY DEF Receive
  <2>2. /\ pc \in [Consumers -> Labels] /\ cur \in [Consumers -> Messages \cup {NONE}]
    BY DEF Inv, Typed, TypeOK
  <2>3. Good(c)
    BY DEF Inv, Discipline
  <2>4. ~found[c] /\ ~new[c]
    <3>1. "idle" \notin InTransaction
      BY DEF InTransaction, Handling, Recovering
    <3> QED BY <1>2, <2>3, <3>1 DEF Good, OperationKnown, RecordKnown
  <2> QED BY <2>1, <2>2, <2>4 DEF Spared
<1>4. /\ \A k \in Messages : place'[k] = place[k] \/ (k = m /\ place'[k] = "inflight")
      /\ place'[m] = "inflight"
      /\ \A k \in Messages : receives'[k] = receives[k] \/ receives[k] # MaxReceives
  <2>1. m \in Messages /\ place \in [Messages -> Places] /\ receives \in [Messages -> 0..MaxReceives]
    BY DEF Inv, Typed, TypeOK
  <2>2. MaxReceives \in Nat
    BY InboundAssumption
  <2> QED BY <2>1, <2>2 DEF Receive, HandOut
<1>5. Grows
  BY <1>2, <1>4 DEF Grows, Operations
<1>6. Good(c)'
  <2>1. pc'[c] = "bury" => Reason(cur[c])'
    BY <1>2, <1>3 DEF Parses, Reason
  <2>2. pc'[c] \in {"inbox", "bury"} /\ place'[cur'[c]] # "unsent"
    BY <1>3, <1>4
  <2> QED BY <1>3, <2>1, <2>2 DEF Good, OperationKnown, RecordKnown, RecoveryKnown, EndKnown
<1>7. \A d \in Consumers \ {c} : Apart(c, d)' /\ Apart(d, c)'
  BY <1>3, NothingPending
<1>8. /\ \A k \in Messages : place'[k] = "gone" /\ place[k] # "gone" => Kept(k)'
      /\ \A k \in Messages : k \in dead' \ dead => Reason(k)'
  BY <1>2, <1>4
<1> QED BY <1>1, <1>2, <1>3, <1>5, <1>6, <1>7, <1>8, LocalKeeps

LEMMA ProcessKeeps ==
  ASSUME Inv, NEW c \in Consumers, Stop(c) \/ ReleaseInFlight(c) \/ Restart(c)
  PROVE  Inv'
<1>1. Typed'
  BY ProcessTypes DEF Inv
<1>2. mail' = mail /\ ops' = ops /\ inbox' = inbox /\ dead' = dead /\ receives' = receives
  BY DEF Stop, ReleaseInFlight, Restart
<1>3. \A k \in Messages : place'[k] = place[k] \/ place'[k] = "visible"
  BY DEF Stop, ReleaseInFlight, Restart, ChangeVisibility, Inv, Typed, TypeOK
<1>4. Grows
  BY <1>2, <1>3 DEF Grows, Operations
<1>5. /\ \A k \in Messages : place'[k] = "gone" /\ place[k] # "gone" => Kept(k)'
      /\ \A k \in Messages : k \in dead' \ dead => Reason(k)'
  BY <1>2, <1>3
<1>6. CASE Restart(c)
  <2>1. pc'[c] = "idle" /\ ~found'[c] /\ ~new'[c]
    BY <1>6 DEF Restart, Done, Inv, Typed, TypeOK
  <2>2. \A d \in Consumers \ {c} : Spared(d)
    BY <1>6, UnlockSpares DEF Restart, Done, Spared, Inv, Typed, TypeOK
  <2> QED BY <1>1, <1>2, <1>4, <1>5, <2>1, <2>2, IdleKeeps
<1>7. CASE Stop(c) \/ ReleaseInFlight(c)
  <2>1. \A d \in Consumers : Spared(d)
    BY <1>7 DEF Stop, ReleaseInFlight, Spared
  <2> QED BY <1>1, <1>2, <1>4, <1>5, <2>1, UnnoticedKeeps
<1> QED BY <1>6, <1>7

LEMMA OpenKeeps == ASSUME Inv, NEW w \in Wallets, Open(w) PROVE Inv'
<1>1. Typed'
  BY OpenTypes DEF Inv
<1>2. Still /\ \A d \in Consumers : Spared(d)
  BY DEF Open, Still, Spared
<1>3. /\ \A k \in Messages : place'[k] = "gone" /\ place[k] # "gone" => Kept(k)'
      /\ \A k \in Messages : k \in dead' \ dead => Reason(k)'
  BY <1>2 DEF Still
<1> QED BY <1>1, <1>2, <1>3, StillGrows, UnnoticedKeeps DEF Still

(* The other channel takes the wallet lock and meets the same indexes.     *)
LEMMA PostKeeps == ASSUME Inv, NEW r \in Posts, Post(r) PROVE Inv'
<1>1. /\ lock[r.wallet] = NONE /\ ~Clash(r) /\ PendingOperation(r) = {} /\ r \in Requests
      /\ ops' = Append(ops, r)
      /\ UNCHANGED <<mail, place, receives, dead, open, inbox, pc, cur, found, new, lock, polling>>
  BY DEF Post, Requests
<1>2. Typed' /\ Operations' = Operations \cup {r}
  BY <1>1, PostTypes, AppendSet DEF Operations, Inv, Typed
<1>3. Grows /\ \A d \in Consumers : Spared(d)
  BY <1>1, <1>2 DEF Grows, Spared
<1>4. ASSUME NEW d \in Consumers PROVE Good(d)'
  <2>1. Good(d) /\ \A s \in Operations' \ Operations : s = r
    BY <1>2 DEF Inv, Discipline
  <2>2. pc[d] = "insert" => Op(d).wallet # r.wallet
    BY <1>1, <2>1, InboundAssumption, RequestFields DEF Good, OperationKnown, Op
  <2>3. new[d] => ~SameIdentity(Op(d), r)
    BY <1>1, <2>1, IdentitySymmetric DEF Good, OperationKnown, PendingOperation, Op
  <2>4. Id(d) \notin DOMAIN inbox' \ DOMAIN inbox
    BY <1>1
  <2> QED BY <1>2, <1>3, <2>1, <2>2, <2>3, <2>4, GoodStays DEF Inv
<1>5. \A c, d \in Consumers : c # d => Apart(c, d)'
  BY <1>1, <1>3, ApartStays
<1>6. OneEffect'
  BY <1>1, OneMore DEF Inv, Typed, Books
<1>7. InboxBacked'
  BY <1>1, <1>2 DEF InboxBacked, Inv, Books
<1>8. NothingLost' /\ BuriedRightly'
  BY <1>1, <1>3, QueueBooksStay
<1> QED BY <1>2, <1>4, <1>5, <1>6, <1>7, <1>8 DEF Inv, Discipline, Books

-----------------------------------------------------------------------------
(* The results.                                                            *)

LEMMA NextKeeps == ASSUME Inv, [Next]_vars PROVE Inv'
<1>1. CASE UNCHANGED vars
  <2>1. Typed'
    BY <1>1, NextTypes DEF Inv
  <2>2. Still /\ \A d \in Consumers : Spared(d)
    BY <1>1 DEF vars, Still, Spared
  <2>3. /\ \A k \in Messages : place'[k] = "gone" /\ place[k] # "gone" => Kept(k)'
        /\ \A k \in Messages : k \in dead' \ dead => Reason(k)'
    BY <2>2 DEF Still
  <2> QED BY <2>1, <2>2, <2>3, StillGrows, UnnoticedKeeps DEF Still
<1>2. CASE Next
  BY <1>2, StepKeeps, QueueKeeps, ReceiveKeeps, ProcessKeeps, OpenKeeps, PostKeeps DEF Next, Poll
<1> QED BY <1>1, <1>2

(* What the consumers know, at every label, is always so, and the books    *)
(* are right: the invariant behind the results below.                      *)
THEOREM ConsumerInvariant == Spec => []Inv
BY InitInv, NextKeeps, PTL DEF Spec

(* A message leaves the queue only with its outcome recorded or copied.    *)
THEOREM NothingIsLost == Spec => []NothingLost
<1>1. Inv => NothingLost
  BY DEF Inv, Books
<1> QED BY <1>1, ConsumerInvariant, PTL

(* One operation per key and per external id, whoever brought it and       *)
(* however often.                                                          *)
THEOREM OneEffectOnly == Spec => []OneEffect
<1>1. Inv => OneEffect
  BY DEF Inv, Books
<1> QED BY <1>1, ConsumerInvariant, PTL

(* Each row of the inbox has its operation.                                *)
THEOREM InboxAlwaysBacked == Spec => []InboxBacked
<1>1. Inv => InboxBacked
  BY DEF Inv, Books
<1> QED BY <1>1, ConsumerInvariant, PTL

(* A message is dead-lettered only for a reason that lasts.                *)
THEOREM BuriedForAReason == Spec => []BuriedRightly
<1>1. Inv => BuriedRightly
  BY DEF Inv, Books
<1> QED BY <1>1, ConsumerInvariant, PTL

(* Whoever has lost an insert finds the winner's row, or an operation that *)
(* refuses its own, so that recoverInbound never writes.                   *)
THEOREM RecoveryReads == Spec => []RecoveryOnlyReads
<1>1. ASSUME Inv, NEW c \in Consumers, pc[c] = "recoverKey"
      PROVE  Clash(Op(c)) /\ (Replayable(Op(c)) => found[c])
  <2>1. cur[c] \in Messages /\ (found[c] => Recorded(mail[cur[c]])) /\ (found[c] \/ Elsewhere(Op(c)))
    BY <1>1, Handled DEF Inv, Discipline, Good, RecordKnown, RecoveryKnown
  <2>2. ASSUME found[c] PROVE Clash(Op(c))
    <3>1. Recorded(mail[cur[c]])
      BY <2>1, <2>2
    <3>2. PICK s \in Operations : s.key = mail[cur[c]].key
      BY <1>1, <3>1 DEF Recorded, Inv, Books, InboxBacked
    <3> QED BY <3>2, RequestFields DEF Clash, SameIdentity, Op
  <2>3. Elsewhere(Op(c)) => Clash(Op(c))
    BY IdentitySymmetric DEF Elsewhere, Clash
  <2>4. Elsewhere(Op(c)) => ~Replayable(Op(c))
    <3>1. SUFFICES ASSUME Elsewhere(Op(c)), Replayable(Op(c)) PROVE FALSE
      OBVIOUS
    <3>2. PICK s \in Operations : SameIdentity(s, Op(c)) /\ s.wallet # Op(c).wallet
      BY <3>1 DEF Elsewhere
    <3>3. PICK t \in Operations : t.key = Op(c).key /\ SamePayload(Op(c), t)
      BY <3>1 DEF Replayable
    <3>4. SameIdentity(s, t) /\ s.wallet # t.wallet
      BY <3>2, <3>3 DEF SameIdentity, SamePayload
    <3>5. \A x, y \in Operations : SameIdentity(x, y) => x = y
      BY <1>1 DEF Inv, Books, OneEffect, Operations, ToSet
    <3> QED BY <3>4, <3>5
  <2> QED BY <2>1, <2>2, <2>3, <2>4
<1>2. Inv => RecoveryOnlyReads
  BY <1>1 DEF RecoveryOnlyReads, Op
<1> QED BY <1>2, ConsumerInvariant, PTL

-----------------------------------------------------------------------------
(* The refinement.                                                         *)

Sent == {<<m, mail[m]>> : m \in {k \in Messages : place[k] # "unsent"}}
Queued == {<<m, mail[m]>> : m \in {k \in Messages : place[k] \in {"visible", "inflight"}}}
Buried == {CopyId(mail[m]) : m \in dead}

LEMMA SettlementInit == Init => Settlement!Init
<1> SUFFICES ASSUME Init PROVE Settlement!Init
  OBVIOUS
<1>1. Sent = {} /\ Queued = {} /\ Buried = {} /\ Operations = {}
  BY DEF Init, Sent, Queued, Buried, Operations, ToSet
<1>2. inbox = [i \in {} |-> {}]
  BY DEF Init
<1> QED BY <1>1, <1>2 DEF Settlement!Init, Sent, Queued, Buried

(* What the abstract settlement sees is the same when these are.           *)
LEMMA Unseen ==
  ASSUME mail' = mail, Operations' = Operations, inbox' = inbox, dead' = dead,
         \A m \in Messages : /\ place'[m] = "unsent" <=> place[m] = "unsent"
                             /\ place'[m] \in {"visible", "inflight"} <=>
                                   place[m] \in {"visible", "inflight"}
  PROVE  UNCHANGED Settlement!settlementVars
<1>1. Sent' = Sent /\ Queued' = Queued /\ Buried' = Buried
  BY DEF Sent, Queued, Buried
<1> QED BY <1>1 DEF Settlement!settlementVars, Sent, Queued, Buried

LEMMA UnseenStill == ASSUME Still PROVE UNCHANGED Settlement!settlementVars
BY Unseen DEF Still, Operations

(* A message that is handled has been sent.                                *)
LEMMA HandledSent ==
  ASSUME Inv, NEW c \in Consumers, pc[c] # "idle"
  PROVE  cur[c] \in Messages /\ <<cur[c], mail[cur[c]]>> \in Sent
<1>1. cur[c] \in Messages /\ place[cur[c]] # "unsent"
  BY Handled DEF Inv, Discipline, Good, EndKnown
<1> QED BY <1>1 DEF Sent

LEMMA LetterKnown == ASSUME Inv, NEW m \in Messages PROVE mail[m] \in Letters
BY DEF Inv, Typed, TypeOK, Letters

LEMMA SettlementSend ==
  ASSUME Inv, NEW m \in Messages, NEW e, e = <<m, mail[m]>>, Send(m)
  PROVE  Settlement!Send(e) /\ e \in Settlement!Envelopes
<1>1. /\ place[m] = "unsent" /\ place' = [place EXCEPT ![m] = "visible"]
      /\ UNCHANGED <<mail, dead, inbox>> /\ Operations' = Operations
      /\ place \in [Messages -> Places]
  BY DEF Send, Operations, Inv, Typed, TypeOK
<1>2. <<m, mail[m]>> \notin Sent
  BY <1>1 DEF Sent
<1>3. Sent' = Sent \cup {<<m, mail[m]>>} /\ Queued' = Queued \cup {<<m, mail[m]>>} /\ Buried' = Buried
  BY <1>1 DEF Sent, Queued, Buried
<1>4. <<m, mail[m]>> \in Messages \X Letters
  BY LetterKnown
<1> QED BY <1>1, <1>2, <1>3, <1>4 DEF Settlement!Send, Settlement!Envelopes, Sent, Queued, Buried

(* The end of a message in the queue, when it was in the queue.            *)
LEMMA Gone ==
  ASSUME Inv, NEW m \in Messages, place[m] \in {"visible", "inflight"},
         place' = [place EXCEPT ![m] = "gone"], mail' = mail
  PROVE  /\ <<m, mail[m]>> \in Sent /\ <<m, mail[m]>> \in Queued
         /\ Sent' = Sent /\ Queued' = Queued \ {<<m, mail[m]>>}
<1>1. place \in [Messages -> Places]
  BY DEF Inv, Typed, TypeOK
<1>2. <<m, mail[m]>> \in Sent /\ <<m, mail[m]>> \in Queued
  BY DEF Sent, Queued
<1>3. Sent' = Sent
  BY <1>1 DEF Sent
<1>4. Queued' = Queued \ {<<m, mail[m]>>}
  BY <1>1 DEF Queued
<1> QED BY <1>2, <1>3, <1>4

LEMMA SettlementRedrive ==
  ASSUME Inv, NEW m \in Messages, NEW e, e = <<m, mail[m]>>, Redrive(m)
  PROVE  Settlement!Exhaust(e) /\ e \in Sent
<1>1. /\ place[m] = "visible" /\ place' = [place EXCEPT ![m] = "gone"]
      /\ dead' = dead \cup {m} /\ UNCHANGED <<mail, inbox>> /\ Operations' = Operations
  BY DEF Redrive, First, Operations
<1>2. /\ <<m, mail[m]>> \in Sent /\ <<m, mail[m]>> \in Queued
      /\ Sent' = Sent /\ Queued' = Queued \ {<<m, mail[m]>>}
  BY <1>1, Gone
<1>3. Buried' = Buried \cup {CopyId(mail[m])}
  BY <1>1 DEF Buried
<1> QED BY <1>1, <1>2, <1>3 DEF Settlement!Exhaust, Sent, Queued, Buried

LEMMA SettlementDelete ==
  ASSUME Inv, NEW c \in Consumers, NEW e, e = <<cur[c], mail[cur[c]]>>, Delete(c)
  PROVE  \/ Settlement!Leave(e) /\ e \in Sent
         \/ UNCHANGED Settlement!settlementVars
<1> DEFINE m == cur[c]
<1>1. /\ m \in Messages /\ Kept(m) /\ place[m] # "unsent" /\ place \in [Messages -> Places]
      /\ UNCHANGED <<mail, dead, inbox>> /\ Operations' = Operations
  BY Handled DEF Delete, Operations, Inv, Typed, TypeOK, Discipline, Good, EndKnown
<1>2. CASE place' = place \/ place[m] = "gone"
  <2>1. place' = place
    BY <1>1, <1>2 DEF Delete
  <2> QED BY <1>1, <2>1, Unseen
<1>3. CASE place' # place /\ place[m] # "gone"
  <2>1. place' = [place EXCEPT ![m] = "gone"] /\ place[m] \in {"visible", "inflight"}
    BY <1>1, <1>3 DEF Delete, Places
  <2>2. /\ <<m, mail[m]>> \in Sent /\ <<m, mail[m]>> \in Queued
        /\ Sent' = Sent /\ Queued' = Queued \ {<<m, mail[m]>>}
    <3>1. \A k \in Messages : k = m =>
             /\ <<k, mail[k]>> \in Sent /\ <<k, mail[k]>> \in Queued
             /\ Sent' = Sent /\ Queued' = Queued \ {<<k, mail[k]>>}
      BY <1>1, <2>1, Gone
    <3> QED BY <1>1, <3>1
  <2>3. Buried' = Buried
    BY <1>1 DEF Buried
  <2>4. Settlement!Settled(mail[m]) \/ CopyId(mail[m]) \in Buried
    BY <1>1 DEF Kept, Recorded, Settlement!Settled, Buried
  <2> QED BY <1>1, <2>2, <2>3, <2>4 DEF Settlement!Leave, Sent, Queued, Buried
<1> QED BY <1>2, <1>3

LEMMA SettlementBury ==
  ASSUME Inv, NEW c \in Consumers, NEW e, e = <<cur[c], mail[cur[c]]>>, SendToDLQ(c)
  PROVE  \/ Settlement!Bury(e) /\ e \in Sent
         \/ UNCHANGED Settlement!settlementVars
<1>1. CASE Retry(c)
  <2>1. place' = place
    BY <1>1, RetryTypes DEF Inv
  <2> QED BY <1>1, <2>1, UnseenStill DEF Retry, Still
<1>2. CASE ~Retry(c)
  <2>1. /\ \/ dead' = dead \cup {cur[c]}
           \/ dead' = dead /\ \E d \in dead : CopyId(mail[d]) = CopyId(mail[cur[c]])
        /\ UNCHANGED <<mail, place, inbox>> /\ Operations' = Operations
    BY <1>2 DEF SendToDLQ, Operations
  <2>2. Buried' = Buried \cup {CopyId(mail[cur[c]])}
    BY <2>1 DEF Buried
  <2>3. Sent' = Sent /\ Queued' = Queued
    BY <2>1 DEF Sent, Queued
  <2>4. <<cur[c], mail[cur[c]]>> \in Sent
    BY HandledSent DEF SendToDLQ
  <2> QED BY <2>1, <2>2, <2>3, <2>4 DEF Settlement!Bury, Sent, Queued, Buried
<1> QED BY <1>1, <1>2

LEMMA SettlementCommit ==
  ASSUME Inv, NEW c \in Consumers, NEW e, e = <<cur[c], mail[cur[c]]>>, Commit(c)
  PROVE  \/ Settlement!Record(e) /\ e \in Sent
         \/ UNCHANGED Settlement!settlementVars
<1>1. pc[c] = "commit" /\ Good(c) /\ Op(c) = Request(mail[cur[c]])
  BY DEF Commit, Inv, Discipline, Op
<1>2. <<cur[c], mail[cur[c]]>> \in Sent
  BY <1>1, HandledSent
<1>3. UNCHANGED <<mail, place, dead>> /\ Sent' = Sent /\ Queued' = Queued /\ Buried' = Buried
  BY DEF Commit, Sent, Queued, Buried
<1>4. (new[c] => Operations' = Operations \cup {Op(c)}) /\ (~new[c] => Operations' = Operations)
  BY Committed
<1>5. CASE found[c]
  <2>1. ~new[c]
    <3>1. PICK s \in Operations : s.key = mail[cur[c]].key
      BY <1>1, <1>5 DEF Good, RecordKnown, Recorded, Inv, Books, InboxBacked
    <3>2. Clash(Op(c))
      BY <1>1, <3>1, RequestFields DEF Clash, SameIdentity
    <3> QED BY <1>1, <3>2 DEF Good, OperationKnown
  <2>2. inbox' = inbox
    BY <1>5, Committed
  <2> QED BY <1>3, <1>4, <2>1, <2>2, Unseen
<1>6. CASE ~found[c]
  <2>1. /\ Id(c) \notin DOMAIN inbox
        /\ inbox' = [i \in DOMAIN inbox \cup {Id(c)} |->
                        IF i = Id(c) THEN mail[cur[c]] ELSE inbox[i]]
    BY <1>1, <1>6, Committed DEF Good, RecordKnown
  <2>2. \/ Settlement!Fresh(Op(c)) /\ Operations' = Operations \cup {Op(c)}
        \/ (\E s \in Operations : s.key = Op(c).key /\ s.ext = Op(c).ext) /\ Operations' = Operations
    <3>1. CASE new[c]
      BY <1>1, <1>4, <3>1 DEF Good, OperationKnown, Clash, SameIdentity, Settlement!Fresh
    <3>2. CASE ~new[c]
      BY <1>1, <1>4, <3>2 DEF Good, OperationKnown, Backed
    <3> QED BY <3>1, <3>2
  <2>3. Settlement!Record(e)
    BY <1>1, <1>3, <2>1, <2>2 DEF Settlement!Record, Sent, Queued, Buried, Id
  <2> QED BY <1>2, <2>3
<1> QED BY <1>5, <1>6

LEMMA SettlementPost == ASSUME Inv, NEW r \in Posts, Post(r) PROVE Settlement!Post(r)
<1>1. Operations' = Operations \cup {r} /\ inbox' = inbox /\ mail' = mail /\ place' = place /\ dead' = dead
  BY AppendSet DEF Post, Operations, Inv, Typed, Requests
<1>2. Settlement!Fresh(r)
  BY DEF Post, Clash, SameIdentity, Settlement!Fresh
<1> QED BY <1>1, <1>2 DEF Settlement!Post

LEMMA RetryStill == ASSUME Inv, NEW c \in Consumers, Retry(c) PROVE Still
<1>1. place' = place
  BY RetryTypes DEF Inv
<1> QED BY <1>1 DEF Retry, Still

LEMMA FinishStill == ASSUME Inv, NEW c \in Consumers, NEW failure, Finish(c, failure) PROVE Still
BY RetryStill DEF Finish, EndTo, Still

(* Every other step of a handler is unseen.                                *)
LEMMA ReadsUnseen ==
  ASSUME Inv, NEW c \in Consumers,
         \/ GetInbox(c) \/ FindKey(c) \/ FindExt(c) \/ LockWallet(c) \/ Recheck(c)
         \/ InsertOperation(c) \/ InsertRecord(c) \/ Recover(c) \/ RecoverKey(c) \/ Fail(c)
  PROVE  UNCHANGED Settlement!settlementVars
<1>1. \A failure : Finish(c, failure) => Still
  BY FinishStill
<1>2. \A l : Goto(c, l) => Still
  BY DEF Goto, Still
<1>3. \A l : EndTo(c, l) => Still
  BY DEF EndTo, Still
<1>4. Answered(c) => Still
  BY <1>2 DEF Answered
<1>5. CASE GetInbox(c) \/ Recover(c)
  BY <1>1, <1>5, UnseenStill DEF GetInbox, Recover, Still
<1>6. CASE FindKey(c) \/ FindExt(c) \/ Recheck(c) \/ RecoverKey(c)
  BY <1>1, <1>2, <1>4, <1>6, UnseenStill DEF FindKey, FindExt, Recheck, RecoverKey
<1>7. CASE LockWallet(c)
  BY <1>1, <1>7, UnseenStill DEF LockWallet, Still
<1>8. CASE InsertOperation(c) \/ InsertRecord(c)
  BY <1>2, <1>3, <1>8, UnseenStill DEF InsertOperation, InsertRecord, Still
<1>9. CASE Fail(c)
  BY <1>9, RetryStill, UnseenStill DEF Fail
<1> QED BY <1>5, <1>6, <1>7, <1>8, <1>9

(* Neither is what moves a message between visible and in flight, or no    *)
(* message at all.                                                         *)
LEMMA QueueUnseen ==
  ASSUME Inv, \/ \E m \in Messages : Expire(m) \/ LoseResponse(m)
              \/ \E c \in Consumers, m \in Messages : Receive(c, m)
              \/ \E c \in Consumers : Stop(c) \/ ReleaseInFlight(c) \/ Restart(c)
              \/ \E w \in Wallets : Open(w)
  PROVE  UNCHANGED Settlement!settlementVars
<1>1. mail' = mail /\ Operations' = Operations /\ inbox' = inbox /\ dead' = dead
  BY DEF Expire, LoseResponse, Receive, HandOut, Stop, ReleaseInFlight, Restart, Open, Operations
<1>2. place \in [Messages -> Places]
  BY DEF Inv, Typed, TypeOK
<1>3. \A k \in Messages : \/ place'[k] = place[k]
                          \/ /\ place[k] \in {"visible", "inflight"}
                             /\ place'[k] \in {"visible", "inflight"}
  <2>1. CASE \E c \in Consumers : ReleaseInFlight(c)
    BY <1>2, <2>1 DEF ReleaseInFlight, ChangeVisibility
  <2>2. CASE ~\E c \in Consumers : ReleaseInFlight(c)
    BY <1>2, <2>2 DEF Expire, LoseResponse, Receive, HandOut, First, Stop, Restart, Open
  <2> QED BY <2>1, <2>2
<1> QED BY <1>1, <1>3, Unseen

LEMMA SettlementSteps ==
  /\ \A m \in Settlement!Envelopes : Settlement!Send(m) => Settlement!Next
  /\ \A m \in Sent : Settlement!Record(m) \/ Settlement!Bury(m) \/ Settlement!Exhaust(m)
                       \/ Settlement!Leave(m) => Settlement!Next
  /\ \A r \in Posts : Settlement!Post(r) => Settlement!Next
BY DEF Settlement!Next, Sent

LEMMA SettlementStep ==
  ASSUME Inv, [Next]_vars PROVE [Settlement!Next]_Settlement!settlementVars
<1>1. CASE UNCHANGED vars
  BY <1>1, UnseenStill DEF vars, Still
<1>2. ASSUME NEW m \in Messages, Send(m) \/ Redrive(m) PROVE Settlement!Next
  <2>1. PICK e : e = <<m, mail[m]>>
    OBVIOUS
  <2> QED BY <1>2, <2>1, SettlementSend, SettlementRedrive, SettlementSteps
<1>3. ASSUME NEW c \in Consumers, Step(c)
      PROVE  Settlement!Next \/ UNCHANGED Settlement!settlementVars
  <2>1. CASE Delete(c) \/ SendToDLQ(c) \/ Commit(c)
    <3>1. PICK e : e = <<cur[c], mail[cur[c]]>>
      OBVIOUS
    <3> QED BY <2>1, <3>1, SettlementDelete, SettlementBury, SettlementCommit, SettlementSteps
  <2>2. CASE ~(Delete(c) \/ SendToDLQ(c) \/ Commit(c))
    BY <1>3, <2>2, ReadsUnseen DEF Step
  <2> QED BY <2>1, <2>2
<1>4. ASSUME NEW r \in Posts, Post(r) PROVE Settlement!Next
  BY <1>4, SettlementPost, SettlementSteps
<1> QED BY <1>1, <1>2, <1>3, <1>4, QueueUnseen DEF Next, Poll

(* The consumers implement the settlement of messages.                     *)
THEOREM SettlementImplemented == Spec => SettlementSafe
<1>1. Init => Settlement!Init
  BY SettlementInit
<1>2. Inv /\ [Next]_vars => [Settlement!Next]_Settlement!settlementVars
  BY SettlementStep
<1> QED BY <1>1, <1>2, ConsumerInvariant, PTL DEF Spec, SettlementSafe, Settlement!Safe
=============================================================================
