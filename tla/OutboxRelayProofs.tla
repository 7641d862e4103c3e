------------------------- MODULE OutboxRelayProofs ------------------------
(***************************************************************************)
(* Proofs about OutboxRelay, for any number of relays and events, any      *)
(* batch size and any lease.                                               *)
(***************************************************************************)
EXTENDS OutboxRelay, TLAPS

Inv == Typed /\ LeaseExclusive /\ LeaseCovers /\ RelayDiscipline

-----------------------------------------------------------------------------
(* Backoff of a number of claimed attempts is a delay.                     *)
LEMMA DelayType ==
  ASSUME NEW n \in 1..AttemptsCap, NEW t \in 0..Lease
  PROVE  TimeLeft(Backoff(n, BackoffMax), t) \in Nat
<1>1. Backoff(n, BackoffMax) \in Nat
  BY BackoffAssumption
<1> HIDE DEF Backoff
<1> QED BY <1>1, RelayAssumption DEF TimeLeft

LEMMA CountType ==
  ASSUME NEW n \in 0..AttemptsCap
  PROVE  Count(n) \in 1..AttemptsCap
BY RelayAssumption DEF Count

LEMMA EmptyClaim == [e \in {} |-> 0] \in Claims
<1>1. [e \in {} |-> 0] \in [{} -> 1..AttemptsCap]
  OBVIOUS
<1>2. {} \in SUBSET Events
  OBVIOUS
<1> QED BY <1>1, <1>2 DEF Claims

(* The relays have held nothing and nothing is committed.                  *)
LEMMA InitInv == Init => Inv
<1> SUFFICES ASSUME Init PROVE Inv
  OBVIOUS
<1> USE RelayAssumption
<1>1. [e \in {} |-> 0] \in Claims
  BY EmptyClaim
<1>2. Typed
  BY <1>1 DEF Init, Typed, Phases
<1>3. LeaseExclusive /\ LeaseCovers /\ RelayDiscipline
  BY DEF Init, LeaseExclusive, LeaseCovers, RelayDiscipline, Live
<1> QED BY <1>2, <1>3 DEF Inv

-----------------------------------------------------------------------------
(* Steps of one relay.  What is left of a batch only shrinks, except in a  *)
(* claim, which takes rows no running batch can hold.                      *)
LEMMA CommitInv ==
  ASSUME Inv, NEW e \in Events, Commit(e)
  PROVE  Inv'
<1> USE RelayAssumption DEF Inv, Commit
<1>1. Typed'
  BY DEF Typed
<1>2. LeaseExclusive'
  BY DEF LeaseExclusive, Live
<1>3. LeaseCovers'
  BY DEF LeaseCovers, Live, Typed
<1>4. RelayDiscipline'
  BY DEF RelayDiscipline
<1> QED BY <1>1, <1>2, <1>3, <1>4

LEMMA LateAcceptInv ==
  ASSUME Inv, NEW e \in Events, LateAccept(e)
  PROVE  Inv'
<1> USE DEF Inv, LateAccept
<1>1. Typed'
  BY DEF Typed
<1>2. LeaseExclusive' /\ LeaseCovers'
  BY DEF LeaseExclusive, LeaseCovers, Live
<1>3. RelayDiscipline'
  BY DEF RelayDiscipline
<1> QED BY <1>1, <1>2, <1>3

(* The update of a claim takes due rows, which no running batch holds.     *)
LEMMA ClaimedRowsAreFree ==
  ASSUME Inv, NEW r \in Relays, Live(r)
  PROVE  DOMAIN todo[r] \cap FirstDue = {}
<1> SUFFICES ASSUME NEW e \in DOMAIN todo[r], e \in FirstDue PROVE FALSE
  OBVIOUS
<1>1. wait[e] = 0
  BY DEF FirstDue, FirstOf, Due
<1>2. wait[e] >= Lease - elapsed[r] /\ elapsed[r] < Lease
  BY DEF Inv, LeaseCovers, Live
<1>3. elapsed[r] \in Nat
  BY RelayAssumption DEF Inv, Typed
<1> QED BY <1>1, <1>2, <1>3, RelayAssumption

LEMMA ClaimInv ==
  ASSUME Inv, NEW r \in Relays, Claim(r)
  PROVE  Inv'
<1> USE RelayAssumption
<1> DEFINE batch == [e \in FirstDue |-> Count(attempts[e])]
<1>1. FirstDue \subseteq Events /\ FirstDue \subseteq committed \ published
  BY DEF Inv, Typed, FirstDue, FirstOf, Due
<1>2. \A e \in Events : Count(attempts[e]) \in 1..AttemptsCap
  BY CountType DEF Inv, Typed
<1>3. batch \in Claims
  BY <1>1, <1>2 DEF Claims
<1>4. /\ phase' = [phase EXCEPT ![r] = "next"]
      /\ todo' = [todo EXCEPT ![r] = batch]
      /\ elapsed' = [elapsed EXCEPT ![r] = 0]
      /\ attempts' = [e \in Events |-> IF e \in FirstDue THEN Count(attempts[e]) ELSE attempts[e]]
      /\ wait' = [e \in Events |-> IF e \in FirstDue THEN Lease ELSE wait[e]]
      /\ UNCHANGED <<committed, published, cur, late, delivered>>
  BY DEF Claim, Claiming
<1>5. DOMAIN batch = FirstDue
  OBVIOUS
<1> HIDE DEF batch
<1>6. Typed'
  BY <1>2, <1>3, <1>4 DEF Inv, Typed, Phases
<1>7. \A q \in Relays : q # r => todo'[q] = todo[q] /\ elapsed'[q] = elapsed[q]
  BY <1>4 DEF Inv, Typed
<1>8. DOMAIN todo'[r] = FirstDue /\ elapsed'[r] = 0
  BY <1>4, <1>5 DEF Inv, Typed
<1>9. LeaseExclusive'
  BY <1>7, <1>8, ClaimedRowsAreFree DEF Inv, LeaseExclusive, Live
<1>10. LeaseCovers'
  <2> SUFFICES ASSUME NEW q \in Relays, Live(q)', NEW e \in DOMAIN todo'[q]
               PROVE  e \in committed \ published /\ wait'[e] >= Lease - elapsed'[q]
    BY <1>4 DEF LeaseCovers
  <2>1. CASE q = r
    <3>1. e \in FirstDue /\ e \in Events
      BY <2>1, <1>1, <1>8
    <3>2. wait'[e] = Lease
      BY <3>1, <1>4
    <3> QED BY <2>1, <3>1, <3>2, <1>1, <1>8
  <2>2. CASE q # r
    <3>1. e \in committed \ published /\ wait[e] >= Lease - elapsed[q]
      BY <2>2, <1>7 DEF Inv, LeaseCovers, Live
    <3>2. e \notin FirstDue
      BY <2>2, <1>7, ClaimedRowsAreFree DEF Live
    <3> QED BY <3>1, <3>2, <2>2, <1>4, <1>7 DEF Inv, Typed
  <2> QED BY <2>1, <2>2
<1>11. RelayDiscipline'
  BY <1>1, <1>4, <1>7, <1>8 DEF Inv, Typed, RelayDiscipline
<1> QED BY <1>6, <1>9, <1>10, <1>11 DEF Inv

LEMMA LoseClaimInv ==
  ASSUME Inv, NEW r \in Relays, LoseClaim(r)
  PROVE  Inv'
<1> USE RelayAssumption
<1>1. /\ attempts' = [e \in Events |-> IF e \in FirstDue THEN Count(attempts[e]) ELSE attempts[e]]
      /\ wait' = [e \in Events |-> IF e \in FirstDue THEN Lease ELSE wait[e]]
      /\ UNCHANGED <<committed, published, phase, todo, cur, elapsed, late, delivered>>
  BY DEF LoseClaim, Claiming
<1>2. \A e \in Events : Count(attempts[e]) \in 0..AttemptsCap
  BY CountType DEF Inv, Typed
<1>3. Typed'
  BY <1>1, <1>2 DEF Inv, Typed
<1>4. LeaseExclusive' /\ RelayDiscipline'
  BY <1>1 DEF Inv, LeaseExclusive, RelayDiscipline, Live
<1>5. LeaseCovers'
  <2> SUFFICES ASSUME NEW q \in Relays, Live(q), NEW e \in DOMAIN todo[q]
               PROVE  e \in committed \ published /\ wait'[e] >= Lease - elapsed[q]
    BY <1>1 DEF LeaseCovers, Live
  <2>1. e \in committed \ published /\ wait[e] >= Lease - elapsed[q]
    BY DEF Inv, LeaseCovers
  <2>2. e \notin FirstDue
    BY ClaimedRowsAreFree
  <2> QED BY <2>1, <2>2, <1>1 DEF Inv, Typed
<1> QED BY <1>3, <1>4, <1>5 DEF Inv

LEMMA SendInv ==
  ASSUME Inv, NEW r \in Relays, NEW e \in Events, Send(r, e)
  PROVE  Inv'
<1> USE DEF Inv, Send
<1>1. Typed'
  BY DEF Typed, Phases
<1>2. LeaseExclusive' /\ LeaseCovers'
  BY DEF LeaseExclusive, LeaseCovers, Live
<1>3. RelayDiscipline'
  BY DEF RelayDiscipline, Typed
<1> QED BY <1>1, <1>2, <1>3

LEMMA AcceptInv ==
  ASSUME Inv, NEW r \in Relays, Accept(r)
  PROVE  Inv'
<1> USE DEF Inv, Accept
<1>1. cur[r] \in committed
  BY DEF RelayDiscipline
<1>2. Typed'
  BY <1>1 DEF Typed, Phases
<1>3. LeaseExclusive' /\ LeaseCovers'
  BY DEF LeaseExclusive, LeaseCovers, Live
<1>4. RelayDiscipline'
  BY DEF RelayDiscipline, Typed
<1> QED BY <1>2, <1>3, <1>4

(* What is left on its way is a request for an event the queue may accept. *)
LEMMA AbandonType ==
  ASSUME Inv, NEW r \in Relays, Abandon(r)
  PROVE  late' \subseteq committed \ Refused
BY DEF Inv, RelayDiscipline, Abandon

LEMMA SendFailsInv ==
  ASSUME Inv, NEW r \in Relays, SendFails(r)
  PROVE  Inv'
<1> USE DEF Inv, SendFails
<1>1. late' \subseteq committed \ Refused
  BY AbandonType
<1> HIDE DEF Abandon
<1>2. Typed'
  BY <1>1 DEF Typed, Phases
<1>3. LeaseExclusive' /\ LeaseCovers'
  BY DEF LeaseExclusive, LeaseCovers, Live
<1>4. RelayDiscipline'
  BY <1>1 DEF RelayDiscipline, Typed
<1> QED BY <1>2, <1>3, <1>4

(* The end of a batch gives back all of it.                                *)
LEMMA ReleaseKeeps ==
  ASSUME Inv, NEW r \in Relays, Release(r), UNCHANGED <<committed, delivered>>,
         published \subseteq published', published' \subseteq committed,
         \A e \in published' \ published : e \in DOMAIN todo[r] /\ Live(r),
         \A e \in Events : wait'[e] # wait[e] => e \in DOMAIN todo[r] /\ Live(r),
         attempts' \in [Events -> 0..AttemptsCap], wait' \in [Events -> Nat],
         late' \subseteq committed \ Refused
  PROVE  Inv'
<1> USE RelayAssumption
<1>1. /\ phase' = [phase EXCEPT ![r] = "idle"]
      /\ cur' = [cur EXCEPT ![r] = NoEvent]
      /\ elapsed' = [elapsed EXCEPT ![r] = 0]
      /\ todo' = [todo EXCEPT ![r] = [e \in {} |-> 0]]
  BY DEF Release
<1>2. Typed'
  BY <1>1, EmptyClaim DEF Inv, Typed, Phases
<1>3. DOMAIN todo'[r] = {} /\ elapsed'[r] = 0 /\ phase'[r] = "idle"
  BY <1>1 DEF Inv, Typed
<1>4. \A q \in Relays : q # r => /\ todo'[q] = todo[q] /\ elapsed'[q] = elapsed[q]
                                 /\ phase'[q] = phase[q] /\ cur'[q] = cur[q]
  BY <1>1 DEF Inv, Typed
<1>5. LeaseExclusive'
  BY <1>3, <1>4 DEF Inv, LeaseExclusive, Live
<1>6. LeaseCovers'
  <2> SUFFICES ASSUME NEW q \in Relays, Live(q)', NEW e \in DOMAIN todo'[q]
               PROVE  e \in committed \ published' /\ wait'[e] >= Lease - elapsed'[q]
    BY DEF LeaseCovers
  <2>1. q # r /\ Live(q) /\ e \in DOMAIN todo[q]
    BY <1>3, <1>4 DEF Live
  <2>2. e \in committed \ published /\ wait[e] >= Lease - elapsed[q]
    BY <2>1 DEF Inv, LeaseCovers
  <2>3. ~(e \in DOMAIN todo[r] /\ Live(r))
    BY <2>1 DEF Inv, LeaseExclusive
  <2>4. e \in Events
    BY <2>2 DEF Inv, Typed
  <2> QED BY <2>1, <2>2, <2>3, <2>4, <1>4
<1>7. RelayDiscipline'
  BY <1>3, <1>4 DEF Inv, RelayDiscipline
<1> QED BY <1>2, <1>5, <1>6, <1>7 DEF Inv

(* The next record of the batch: the one that is done leaves it, and only  *)
(* its row has changed.                                                    *)
LEMMA AdvanceKeeps ==
  ASSUME Inv, NEW r \in Relays, Advance(r), Live(r), UNCHANGED <<committed, attempts, late, delivered>>,
         cur[r] \in DOMAIN todo[r],
         published' \subseteq published \cup {cur[r]},
         \A e \in Events : wait'[e] # wait[e] => e = cur[r],
         wait' \in [Events -> Nat]
  PROVE  Inv'
<1> USE RelayAssumption
<1> DEFINE rest == [e \in DOMAIN todo[r] \ {cur[r]} |-> todo[r][e]]
<1>1. /\ phase' = [phase EXCEPT ![r] = "next"]
      /\ cur' = [cur EXCEPT ![r] = NoEvent]
      /\ elapsed' = elapsed
      /\ todo' = [todo EXCEPT ![r] = rest]
  BY DEF Advance
<1>2. rest \in Claims
  <2>1. PICK S \in SUBSET Events : todo[r] \in [S -> 1..AttemptsCap]
    BY DEF Inv, Typed, Claims
  <2>2. rest \in [S \ {cur[r]} -> 1..AttemptsCap]
    BY <2>1
  <2>3. S \ {cur[r]} \in SUBSET Events
    BY <2>1
  <2> HIDE DEF rest
  <2> QED BY <2>2, <2>3 DEF Claims
<1>3. DOMAIN rest = DOMAIN todo[r] \ {cur[r]}
  OBVIOUS
<1> HIDE DEF rest
<1>4. cur[r] \in committed
  BY DEF Inv, RelayDiscipline
<1>5. Typed'
  BY <1>1, <1>2, <1>4 DEF Inv, Typed, Phases
<1>6. DOMAIN todo'[r] = DOMAIN todo[r] \ {cur[r]} /\ phase'[r] = "next"
  BY <1>1, <1>3 DEF Inv, Typed
<1>7. \A q \in Relays : q # r => /\ todo'[q] = todo[q] /\ phase'[q] = phase[q] /\ cur'[q] = cur[q]
  BY <1>1 DEF Inv, Typed
<1>8. LeaseExclusive'
  BY <1>1, <1>6, <1>7 DEF Inv, LeaseExclusive, Live
<1>9. LeaseCovers'
  <2> SUFFICES ASSUME NEW q \in Relays, Live(q), NEW e \in DOMAIN todo'[q]
               PROVE  e \in committed \ published' /\ wait'[e] >= Lease - elapsed[q]
    BY <1>1 DEF LeaseCovers, Live
  <2>1. e \in DOMAIN todo[q] /\ e # cur[r]
    BY <1>6, <1>7 DEF Inv, LeaseExclusive
  <2>2. e \in committed \ published /\ wait[e] >= Lease - elapsed[q]
    BY <2>1 DEF Inv, LeaseCovers
  <2>3. e \in Events
    BY <2>2 DEF Inv, Typed
  <2> QED BY <2>1, <2>2, <2>3
<1>10. RelayDiscipline'
  BY <1>1, <1>6, <1>7 DEF Inv, RelayDiscipline
<1> QED BY <1>5, <1>8, <1>9, <1>10 DEF Inv

LEMMA LateType ==
  ASSUME Inv
  PROVE  late \subseteq committed \ Refused
BY DEF Inv, RelayDiscipline

LEMMA FinishInv ==
  ASSUME Inv, NEW r \in Relays, Finish(r)
  PROVE  Inv'
<1>1. Release(r) /\ UNCHANGED <<committed, published, attempts, wait, late, delivered>>
  BY DEF Finish
<1>2. published \subseteq committed /\ attempts \in [Events -> 0..AttemptsCap] /\ wait \in [Events -> Nat]
  BY DEF Inv, Typed
<1> QED BY <1>1, <1>2, LateType, ReleaseKeeps

LEMMA CrashInv ==
  ASSUME Inv, NEW r \in Relays, Crash(r)
  PROVE  Inv'
<1>1. Release(r) /\ Abandon(r) /\ UNCHANGED <<committed, published, attempts, wait, delivered>>
  BY DEF Crash
<1>2. published \subseteq committed /\ attempts \in [Events -> 0..AttemptsCap] /\ wait \in [Events -> Nat]
  BY DEF Inv, Typed
<1> QED BY <1>1, <1>2, AbandonType, ReleaseKeeps

(* What MarkPublished and ScheduleRetry do to the row of the current event *)
(* of a relay whose batch still runs.                                      *)
LEMMA CurrentRow ==
  ASSUME Inv, NEW r \in Relays, phase[r] \in {"accepted", "failed"}
  PROVE  /\ cur[r] \in DOMAIN todo[r] /\ cur[r] \in committed /\ cur[r] \in Events
         /\ todo[r][cur[r]] \in 1..AttemptsCap
         /\ TimeLeft(Backoff(todo[r][cur[r]], BackoffMax), elapsed[r]) \in Nat
<1>1. cur[r] \in DOMAIN todo[r] /\ cur[r] \in committed /\ cur[r] \in Events
  BY DEF Inv, RelayDiscipline, Typed
<1>2. PICK S \in SUBSET Events : todo[r] \in [S -> 1..AttemptsCap]
  BY DEF Inv, Typed, Claims
<1>3. todo[r][cur[r]] \in 1..AttemptsCap
  BY <1>1, <1>2
<1>4. elapsed[r] \in 0..Lease
  BY DEF Inv, Typed
<1>5. TimeLeft(Backoff(todo[r][cur[r]], BackoffMax), elapsed[r]) \in Nat
  BY <1>3, <1>4, DelayType
<1> QED BY <1>1, <1>3, <1>5

LEMMA RetriedRow ==
  ASSUME Inv, NEW e \in Events, NEW time \in Nat, ScheduleRetry(e, time)
  PROVE  /\ UNCHANGED <<committed, published, attempts>>
         /\ wait' \in [Events -> Nat]
         /\ \A f \in Events : wait'[f] # wait[f] => f = e
<1>1. UNCHANGED <<committed, published, attempts>>
  BY DEF ScheduleRetry, rows
<1>2. wait' = wait \/ wait' = [wait EXCEPT ![e] = time]
  BY DEF ScheduleRetry, rows
<1>3. wait \in [Events -> Nat]
  BY DEF Inv, Typed
<1> QED BY <1>1, <1>2, <1>3

LEMMA MarkInv ==
  ASSUME Inv, NEW r \in Relays, Mark(r)
  PROVE  Inv'
<1>1. /\ Advance(r) /\ Live(r) /\ phase[r] = "accepted"
      /\ UNCHANGED <<committed, attempts, wait, late, delivered>>
      /\ published' = published \cup {cur[r]}
  BY DEF Mark, MarkPublished
<1>2. wait \in [Events -> Nat]
  BY DEF Inv, Typed
<1> QED BY <1>1, <1>2, CurrentRow, AdvanceKeeps

LEMMA RetryInv ==
  ASSUME Inv, NEW r \in Relays, Retry(r)
  PROVE  Inv'
<1> DEFINE time == TimeLeft(Backoff(todo[r][cur[r]], BackoffMax), elapsed[r])
<1>1. /\ Advance(r) /\ Live(r) /\ phase[r] = "failed"
      /\ UNCHANGED <<late, delivered>>
      /\ ScheduleRetry(cur[r], time)
  BY DEF Retry
<1>2. cur[r] \in DOMAIN todo[r] /\ cur[r] \in Events /\ time \in Nat
  BY <1>1, CurrentRow
<1> HIDE DEF time
<1>3. /\ UNCHANGED <<committed, published, attempts>>
      /\ wait' \in [Events -> Nat]
      /\ \A f \in Events : wait'[f] # wait[f] => f = cur[r]
  BY <1>1, <1>2, RetriedRow
<1> QED BY <1>1, <1>2, <1>3, AdvanceKeeps

LEMMA AbortInv ==
  ASSUME Inv, NEW r \in Relays, Abort(r)
  PROVE  Inv'
<1> DEFINE time == TimeLeft(Backoff(todo[r][cur[r]], BackoffMax), elapsed[r])
<1>1. /\ Release(r) /\ phase[r] \in {"accepted", "failed"}
      /\ UNCHANGED <<late, delivered>>
  BY DEF Abort
<1>2. cur[r] \in DOMAIN todo[r] /\ cur[r] \in committed /\ cur[r] \in Events /\ time \in Nat
  BY <1>1, CurrentRow
<1> HIDE DEF time
<1>3. published \subseteq committed /\ attempts \in [Events -> 0..AttemptsCap] /\ wait \in [Events -> Nat]
  BY DEF Inv, Typed
<1>4. CASE UNCHANGED rows
  BY <1>1, <1>3, <1>4, LateType, ReleaseKeeps DEF rows
<1>5. CASE Live(r) /\ MarkPublished(cur[r])
  <2>1. /\ UNCHANGED <<committed, attempts, wait>>
        /\ published' = published \cup {cur[r]}
    BY <1>5 DEF MarkPublished
  <2> QED BY <1>1, <1>2, <1>3, <1>5, <2>1, LateType, ReleaseKeeps
<1>6. CASE Live(r) /\ ScheduleRetry(cur[r], time)
  <2>1. /\ UNCHANGED <<committed, published, attempts>>
        /\ wait' \in [Events -> Nat]
        /\ \A f \in Events : wait'[f] # wait[f] => f = cur[r]
    BY <1>2, <1>6, RetriedRow
  <2> QED BY <1>1, <1>2, <1>3, <1>6, <2>1, LateType, ReleaseKeeps
<1> QED BY <1>4, <1>5, <1>6 DEF Abort, time

(* A second takes one from the time a row has left and one from the time   *)
(* its holder has left.                                                    *)
LEMMA TickInv ==
  ASSUME Inv, Tick
  PROVE  Inv'
<1> USE RelayAssumption
<1>1. /\ wait' = [e \in Events |-> IF wait[e] > 0 THEN wait[e] - 1 ELSE 0]
      /\ elapsed' = [r \in Relays |-> IF phase[r] # "idle" /\ elapsed[r] < Lease
                                      THEN elapsed[r] + 1 ELSE elapsed[r]]
      /\ UNCHANGED <<committed, published, attempts, phase, todo, cur, late, delivered>>
  BY DEF Tick
<1>2. Typed'
  BY <1>1 DEF Inv, Typed
<1>3. \A r \in Relays : /\ Live(r)' => Live(r)
                        /\ Live(r)' /\ DOMAIN todo[r] # {} => elapsed'[r] = elapsed[r] + 1
  BY <1>1 DEF Inv, Typed, Live, RelayDiscipline
<1>4. LeaseExclusive'
  BY <1>1, <1>3 DEF Inv, LeaseExclusive
<1>5. LeaseCovers'
  <2> SUFFICES ASSUME NEW r \in Relays, Live(r)', NEW e \in DOMAIN todo[r]
               PROVE  e \in committed \ published /\ wait'[e] >= Lease - elapsed'[r]
    BY <1>1 DEF LeaseCovers
  <2>1. e \in committed \ published /\ wait[e] >= Lease - elapsed[r]
    BY <1>3 DEF Inv, LeaseCovers
  <2>2. elapsed'[r] = elapsed[r] + 1 /\ elapsed[r] \in Nat /\ elapsed[r] < Lease
    BY <1>3 DEF Inv, Typed, Live
  <2>3. e \in Events /\ wait[e] \in Nat
    BY <2>1 DEF Inv, Typed
  <2>4. wait'[e] = wait[e] - 1
    BY <1>1, <2>1, <2>2, <2>3
  <2> QED BY <2>1, <2>2, <2>3, <2>4
<1>6. RelayDiscipline'
  BY <1>1 DEF Inv, RelayDiscipline
<1> QED BY <1>2, <1>4, <1>5, <1>6 DEF Inv

LEMMA NextInv ==
  ASSUME Inv, [Next]_vars
  PROVE  Inv'
<1>1. CASE UNCHANGED vars
  BY <1>1 DEF vars, Inv, Typed, LeaseExclusive, LeaseCovers, RelayDiscipline, Live
<1>2. ASSUME NEW e \in Events, Commit(e) \/ LateAccept(e) PROVE Inv'
  BY <1>2, CommitInv, LateAcceptInv
<1>3. ASSUME NEW r \in Relays, Step(r) PROVE Inv'
  BY <1>3, ClaimInv, FinishInv, AcceptInv, SendFailsInv, MarkInv, RetryInv, AbortInv, SendInv DEF Step
<1>4. ASSUME NEW r \in Relays, LoseClaim(r) \/ Crash(r) PROVE Inv'
  BY <1>4, LoseClaimInv, CrashInv
<1> QED BY <1>1, <1>2, <1>3, <1>4, TickInv DEF Next

(* Inv is inductive.                                                       *)
THEOREM RelayInvariant == Spec => []Inv
BY InitInv, NextInv, PTL DEF Spec

(* However many relays run, no event is in two running batches.            *)
THEOREM LeasesExclude == Spec => []LeaseExclusive
<1>1. Inv => LeaseExclusive
  BY DEF Inv
<1> QED BY <1>1, RelayInvariant, PTL

(* The lease of a row outlasts the batch that holds it.                    *)
THEOREM LeasesCover == Spec => []LeaseCovers
<1>1. Inv => LeaseCovers
  BY DEF Inv
<1> QED BY <1>1, RelayInvariant, PTL

(* What a relay accepts, marks or abandons is of its batch, and committed. *)
THEOREM RelaysDisciplined == Spec => []RelayDiscipline
<1>1. Inv => RelayDiscipline
  BY DEF Inv
<1> QED BY <1>1, RelayInvariant, PTL

(* A step that starts a send is Send, and its event is unpublished because *)
(* the batch still runs.                                                   *)
LEMMA SendIsUnmarked ==
  ASSUME Inv, Next, NEW r \in Relays, phase'[r] = "sending", phase[r] # "sending"
  PROVE  cur'[r] \notin published
<1>1. PICK q \in Relays : \E e \in Events : Send(q, e)
  <2>1. phase' # phase
    OBVIOUS
  <2>2. ASSUME NEW q \in Relays, Release(q) PROVE phase'[r] # "sending"
    BY <2>2 DEF Release, Inv, Typed
  <2>3. ASSUME NEW q \in Relays, Advance(q) PROVE phase'[r] # "sending"
    BY <2>3 DEF Advance, Inv, Typed
  <2>4. ASSUME NEW q \in Relays, Claim(q) \/ Accept(q) \/ SendFails(q) PROVE phase'[r] # "sending"
    BY <2>4 DEF Claim, Accept, SendFails, Inv, Typed
  <2>5. ASSUME NEW q \in Relays, LoseClaim(q) PROVE FALSE
    BY <2>5, <2>1 DEF LoseClaim
  <2>6. ASSUME NEW e \in Events, Commit(e) \/ LateAccept(e) PROVE FALSE
    BY <2>6, <2>1 DEF Commit, LateAccept
  <2>7. ASSUME Tick PROVE FALSE
    BY <2>7, <2>1 DEF Tick
  <2> QED BY <2>2, <2>3, <2>4, <2>5, <2>6, <2>7 DEF Next, Step, Finish, Mark, Retry, Abort, Crash
<1>2. PICK e \in Events : Send(q, e)
  BY <1>1
<1>3. q = r /\ cur'[r] = e
  BY <1>2 DEF Send, Inv, Typed
<1>4. e \notin published
  BY <1>2 DEF Send, Inv, LeaseCovers
<1> QED BY <1>3, <1>4

(* No relay starts to send an event that is marked.                        *)
THEOREM MarkedIsNotSent == Spec => NoSendAfterMark
<1>1. Inv /\ [Next]_vars =>
        [\A r \in Relays : phase'[r] = "sending" /\ phase[r] # "sending" => cur'[r] \notin published]_vars
  BY SendIsUnmarked
<1> QED BY <1>1, RelayInvariant, PTL DEF Spec, NoSendAfterMark

-----------------------------------------------------------------------------
(* The order of the claims.                                                *)

(* Rows that leave the order of the due rows leave the others in line.     *)
LEMMA WithoutInLine ==
  ASSUME NEW order, NEW due, InLine(order, due), NEW S
  PROVE  InLine(Without(order, S), due \ S)
BY DEF InLine, Without

(* A row that takes a place among the due rows stands in line with them.   *)
LEMMA PlacedInLine ==
  ASSUME NEW order, NEW due, InLine(order, due), NEW e, e \notin due, NEW behind, NEW before,
         NEW placed \in Placed(order, due, e, behind, before)
  PROVE  InLine(placed, due \cup {e})
<1>1. PICK ahead \in SUBSET due : /\ \A p \in order : p[2] \in ahead => p[1] \in ahead
                                  /\ placed = order \cup (ahead \X {e}) \cup ({e} \X (due \ ahead))
  BY DEF Placed
<1>2. \A d, f : <<d, f>> \in order => d \in due /\ f \in due /\ (f \in ahead => d \in ahead)
  BY <1>1 DEF InLine
<1>3. \A d, f : <<d, f>> \in placed <=> \/ <<d, f>> \in order
                                        \/ d \in ahead /\ f = e
                                        \/ d = e /\ f \in due \ ahead
  BY <1>1
<1>4. placed \subseteq (due \cup {e}) \X (due \cup {e})
  BY <1>1 DEF InLine
<1>5. \A d, f \in due \cup {e} : <<d, f>> \in placed <=> d # f /\ <<f, d>> \notin placed
  BY <1>2, <1>3 DEF InLine
<1>6. \A d, f, g \in due \cup {e} : <<d, f>> \in placed /\ <<f, g>> \in placed => <<d, g>> \in placed
  BY <1>2, <1>3 DEF InLine
<1> QED BY <1>4, <1>5, <1>6 DEF InLine

(* Rows that become due together stand in line behind the others.          *)
LEMMA FollowedInLine ==
  ASSUME NEW order, NEW due, InLine(order, due), NEW new \in SUBSET Nat, new \cap due = {}
  PROVE  InLine(Followed(order, due, new), due \cup new)
<1> DEFINE longer == Followed(order, due, new)
           First(d, e) == d < e
<1>1. \A d, e : <<d, e>> \in order => d \in due /\ e \in due
  BY DEF InLine
<1>2. \A d, e : <<d, e>> \in longer <=> \/ <<d, e>> \in order
                                        \/ d \in due /\ e \in new
                                        \/ d \in new /\ e \in new /\ First(d, e)
  BY DEF Followed
<1>3. longer \subseteq (due \cup new) \X (due \cup new)
  BY DEF InLine, Followed
<1>4. /\ \A d, e \in new : First(d, e) <=> d # e /\ ~First(e, d)
      /\ \A d, e, f \in new : First(d, e) /\ First(e, f) => First(d, f)
  OBVIOUS
<1> HIDE DEF longer, First
<1>5. \A d, e \in due \cup new : <<d, e>> \in longer <=> d # e /\ <<e, d>> \notin longer
  BY <1>1, <1>2, <1>4 DEF InLine
<1>6. \A d, e, f \in due \cup new : <<d, e>> \in longer /\ <<e, f>> \in longer => <<d, f>> \in longer
  BY <1>1, <1>2, <1>4 DEF InLine
<1>7. InLine(longer, due \cup new)
  BY <1>3, <1>5, <1>6 DEF InLine
<1> QED BY <1>7 DEF longer

(* A row that is put off leaves its place, and takes one anew when it is   *)
(* due at once.                                                            *)
LEMMA ScheduledInLine ==
  ASSUME TypeOK, NEW e \in committed, NEW time \in Nat, ScheduleRetry(e, time)
  PROVE  InLine(queue, Due)'
<1>1. InLine(queue, Due) /\ e \in Events /\ wait \in [Events -> Nat]
  BY DEF TypeOK, Typed
<1>2. CASE e \in published
  BY <1>1, <1>2 DEF ScheduleRetry, rows, Due
<1>3. CASE e \notin published
  <2> DEFINE others == Without(queue, {e})
  <2>1. InLine(others, Due \ {e})
    BY <1>1, WithoutInLine
  <2>2. /\ wait' = [wait EXCEPT ![e] = time]
        /\ queue' \in IF time = 0 THEN Placed(others, Due \ {e}, e, {}, {}) ELSE {others}
        /\ UNCHANGED <<committed, published>>
    BY <1>3 DEF ScheduleRetry
  <2> HIDE DEF others
  <2>3. CASE time = 0
    <3>1. Due' = (Due \ {e}) \cup {e}
      BY <1>1, <1>3, <2>2, <2>3 DEF Due, TypeOK, Typed
    <3>2. queue' \in Placed(others, Due \ {e}, e, {}, {})
      BY <2>2, <2>3
    <3>3. InLine(queue', (Due \ {e}) \cup {e})
      BY <2>1, <3>2, PlacedInLine
    <3> QED BY <3>1, <3>3
  <2>4. CASE time # 0
    <3>1. Due' = Due \ {e} /\ queue' = others
      BY <1>1, <1>3, <2>2, <2>4 DEF Due, TypeOK, Typed
    <3> QED BY <2>1, <3>1
  <2> QED BY <2>3, <2>4
<1> QED BY <1>2, <1>3

LEMMA MarkedInLine ==
  ASSUME TypeOK, NEW e, MarkPublished(e)
  PROVE  InLine(queue, Due)'
<1>1. Due' = Due \ {e} /\ queue' = Without(queue, {e})
  BY DEF MarkPublished, Due
<1> QED BY <1>1, WithoutInLine DEF TypeOK

(* The rows of a claim are due, and no longer so under their lease.        *)
LEMMA ClaimedInLine ==
  ASSUME TypeOK, Claiming(FirstDue)
  PROVE  InLine(queue, Due)'
<1>1. FirstDue \subseteq Due
  BY DEF FirstDue, FirstOf
<1>2. /\ wait' = [e \in Events |-> IF e \in FirstDue THEN Lease ELSE wait[e]]
      /\ queue' = Without(queue, FirstDue)
      /\ UNCHANGED <<committed, published>>
  BY DEF Claiming
<1> HIDE DEF FirstDue
<1>3. Due' = Due \ FirstDue
  BY <1>1, <1>2, RelayAssumption DEF Due, TypeOK, Typed
<1> QED BY <1>2, <1>3, WithoutInLine DEF TypeOK

LEMMA NextInLine ==
  ASSUME TypeOK, Inv, [Next]_vars
  PROVE  InLine(queue, Due)'
<1> USE RelayAssumption
<1>0. InLine(queue, Due) /\ Typed
  BY DEF TypeOK
<1>1. CASE UNCHANGED rows
  BY <1>0, <1>1 DEF rows, Due
<1>2. ASSUME NEW e \in Events, Commit(e) PROVE InLine(queue, Due)'
  <2>1. e \notin Due /\ Due' = Due \cup {e}
    BY <1>0, <1>2 DEF Commit, Due, Typed
  <2>2. queue' \in Placed(queue, Due, e, {d \in Events : <<d, e>> \in Before /\ attempts[d] = 0}, {})
    BY <1>2 DEF Commit
  <2>3. InLine(queue', Due \cup {e})
    BY <1>0, <2>1, <2>2, PlacedInLine
  <2> QED BY <2>1, <2>3
<1>3. ASSUME NEW r \in Relays, Claim(r) \/ LoseClaim(r) PROVE InLine(queue, Due)'
  BY <1>3, ClaimedInLine DEF Claim, LoseClaim
<1>4. ASSUME NEW r \in Relays, phase[r] = "accepted", MarkPublished(cur[r]) PROVE InLine(queue, Due)'
  BY <1>4, MarkedInLine
<1>5. ASSUME NEW r \in Relays, phase[r] = "failed",
             ScheduleRetry(cur[r], TimeLeft(Backoff(todo[r][cur[r]], BackoffMax), elapsed[r]))
      PROVE  InLine(queue, Due)'
  BY <1>5, CurrentRow, ScheduledInLine
<1>6. CASE Tick
  <2> DEFINE new == {e \in committed \ published : wait[e] = 1}
  <2>0. /\ wait' = [e \in Events |-> IF wait[e] > 0 THEN wait[e] - 1 ELSE 0]
        /\ UNCHANGED <<committed, published>>
        /\ \A e \in committed : e \in Events /\ wait[e] \in Nat
    BY <1>0, <1>6 DEF Tick, Typed
  <2>1. new \in SUBSET Nat /\ new \cap Due = {} /\ Due' = Due \cup new
    <3>1. \A e \in committed : wait'[e] = 0 <=> wait[e] \in {0, 1}
      BY <2>0
    <3>2. new \subseteq Events /\ new \cap Due = {}
      BY <2>0 DEF Due
    <3>3. Due' = Due \cup new
      BY <2>0, <3>1 DEF Due
    <3> QED BY <3>2, <3>3
  <2>2. queue' = Followed(queue, Due, new)
    BY <1>6 DEF Tick
  <2> HIDE DEF new
  <2>3. InLine(queue', Due \cup new)
    BY <1>0, <2>1, <2>2, FollowedInLine
  <2> QED BY <2>1, <2>3
<1>7. ASSUME NEW r \in Relays, Finish(r) \/ Accept(r) \/ SendFails(r) \/ Crash(r) PROVE UNCHANGED rows
  BY <1>7 DEF Finish, Accept, SendFails, Crash, rows
<1>8. ASSUME NEW r \in Relays, NEW e \in Events, Send(r, e) PROVE UNCHANGED rows
  BY <1>8 DEF Send, rows
<1>9. ASSUME NEW e \in Events, LateAccept(e) PROVE UNCHANGED rows
  BY <1>9 DEF LateAccept, rows
<1>10. ASSUME NEW r \in Relays, Mark(r) \/ Retry(r) \/ Abort(r) PROVE InLine(queue, Due)'
  BY <1>1, <1>4, <1>5, <1>10 DEF Mark, Retry, Abort
<1>11. CASE UNCHANGED vars
  BY <1>1, <1>11 DEF vars, rows
<1> QED BY <1>1, <1>2, <1>3, <1>6, <1>7, <1>8, <1>9, <1>10, <1>11 DEF Next, Step

(* Whatever is committed, claimed, marked, put off or falls due, the order *)
(* of the claims has every due row in one place, and no other row.         *)
THEOREM TypeCorrect == Spec => []TypeOK
<1>1. Init => TypeOK
  BY InitInv DEF Init, TypeOK, Inv, Due, InLine
<1>2. TypeOK /\ Inv /\ [Next]_vars => TypeOK'
  BY NextInv, NextInLine DEF TypeOK, Inv
<1> QED BY <1>1, <1>2, RelayInvariant, PTL DEF Spec

-----------------------------------------------------------------------------
(* Every step of the relays is one of EventDelivery or changes nothing it  *)
(* sees.                                                                   *)
LEMMA StepDelivers ==
  ASSUME Inv, [Next]_vars
  PROVE  [Delivery!Next]_<<committed, delivered, published>>
<1> DEFINE Same == UNCHANGED <<committed, delivered, published>>
<1> USE DEF Delivery!Next
<1>1. CASE UNCHANGED vars
  BY <1>1 DEF vars
<1>2. ASSUME NEW e \in Events, Commit(e) PROVE Delivery!Commit(e)
  BY <1>2 DEF Commit, Delivery!Commit
<1>3. ASSUME NEW e \in Events, e \in committed \ Refused, delivered' = delivered \cup {e},
             UNCHANGED <<committed, published>>
      PROVE  Same \/ Delivery!Deliver(e)
  BY <1>3 DEF Delivery!Deliver
<1>4. ASSUME NEW e \in Events, LateAccept(e) PROVE Same \/ Delivery!Deliver(e)
  BY <1>3, <1>4 DEF LateAccept, Inv, RelayDiscipline
<1>5. ASSUME NEW r \in Relays, Accept(r) PROVE Same \/ Delivery!Deliver(cur[r])
  <2>1. cur[r] \in committed /\ cur[r] \in Events
    BY <1>5 DEF Accept, Inv, RelayDiscipline, Typed
  <2> QED BY <1>3, <1>5, <2>1 DEF Accept
<1>6. ASSUME NEW r \in Relays, phase[r] = "accepted", MarkPublished(cur[r]), UNCHANGED delivered
      PROVE  Same \/ Delivery!Settle(cur[r])
  BY <1>6 DEF MarkPublished, Inv, RelayDiscipline, Delivery!Settle
<1>7. ASSUME NEW r \in Relays, ScheduleRetry(cur[r], TimeLeft(Backoff(todo[r][cur[r]], BackoffMax), elapsed[r])),
             UNCHANGED delivered
      PROVE  Same
  BY <1>7 DEF ScheduleRetry, rows
<1>8. ASSUME NEW r \in Relays, Mark(r) \/ Retry(r) \/ Abort(r)
      PROVE  Same \/ Delivery!Settle(cur[r])
  BY <1>6, <1>7, <1>8 DEF Mark, Retry, Abort, rows
<1>10. ASSUME NEW r \in Relays, Claim(r) \/ LoseClaim(r) \/ Finish(r) \/ SendFails(r) \/ Crash(r)
       PROVE  Same
  BY <1>10 DEF Claim, LoseClaim, Claiming, Finish, SendFails, Crash
<1>11. ASSUME NEW r \in Relays, NEW e \in Events, Send(r, e) PROVE Same
  BY <1>11 DEF Send
<1>12. ASSUME Tick PROVE Same
  BY <1>12 DEF Tick
<1>13. ASSUME NEW r \in Relays, Mark(r) \/ Retry(r) \/ Abort(r) PROVE cur[r] \in Events
  BY <1>13, CurrentRow DEF Mark, Retry, Abort
<1>14. ASSUME NEW r \in Relays, Accept(r) PROVE cur[r] \in Events
  BY <1>14 DEF Accept, Inv, RelayDiscipline, Typed
<1> HIDE DEF Same
<1>15. Same \/ Delivery!Next
  BY <1>1, <1>2, <1>4, <1>5, <1>8, <1>10, <1>11, <1>12, <1>13, <1>14 DEF Next, Step, Same, vars
<1> QED BY <1>15 DEF Same

(* The relays implement the safety of at-least-once delivery.              *)
THEOREM RelaysDeliver == Spec => DeliverySafe
<1>1. Init => Delivery!Init
  BY DEF Init, Delivery!Init
<1> QED BY <1>1, RelayInvariant, StepDelivers, PTL DEF Spec, DeliverySafe, Delivery!Safe, Delivery!deliveryVars
=============================================================================
