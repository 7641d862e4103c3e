---------------------------- MODULE PendingProofs -------------------------
(***************************************************************************)
(* Proofs about PendingResume, for any number of workers and operations,   *)
(* any references, batch size, lease, back-off and limits.                 *)
(***************************************************************************)
EXTENDS PendingResume, TLAPS

(* Two workers whose batches still run hold different rows.                *)
WorkExclusive ==
    \A w, v \in Workers :
       w # v /\ Live(w) /\ Live(v) => DOMAIN todo[w] \cap DOMAIN todo[v] = {}

WorkDiscipline ==
    \A w \in Workers :
       /\ phase[w] = "idle" => DOMAIN todo[w] = {} /\ elapsed[w] = 0
       /\ phase[w] = "waiting" => cur[w] \in DOMAIN todo[w]
       /\ DOMAIN todo[w] \subseteq Operations

WaitsAreShort ==
    \A t \in Operations : wait[t] <= Lease \/ wait[t] <= Ceiling(BackoffMax)

Inv == Typed /\ WorkExclusive /\ WorkIsCurrent /\ WorkDiscipline /\ WaitsAreShort

-----------------------------------------------------------------------------
(* Delays, counts and claims.                                              *)
LEMMA CeilingType == Ceiling(BackoffMax) \in Nat
BY ResumeAssumption DEF Ceiling

(* The back-off never passes the ceiling.                                  *)
LEMMA DelayShort ==
  ASSUME NEW n \in 1..AttemptsCap, NEW t \in 0..Lease
  PROVE  /\ TimeLeft(Backoff(n, BackoffMax), t) \in Nat
         /\ TimeLeft(Backoff(n, BackoffMax), t) <= Ceiling(BackoffMax)
<1>1. Backoff(n, BackoffMax) \in Nat
  BY DelayAssumption
<1>2. Backoff(n, BackoffMax) <= Ceiling(BackoffMax)
  <2> DEFINE C == Ceiling(BackoffMax)
             shift == IF n < 1 THEN 0 ELSE n - 1
             power == 2^shift
  <2>1. Backoff(n, BackoffMax) = IF shift > 20 \/ power > C THEN C ELSE power
    BY DEF Backoff
  <2>2. C \in Nat
    BY CeilingType
  <2> HIDE DEF C, power, shift
  <2> QED BY <1>1, <2>1, <2>2 DEF C
<1> DEFINE b == Backoff(n, BackoffMax)
<1> HIDE DEF b
<1>3. b \in Nat /\ b <= Ceiling(BackoffMax)
  BY <1>1, <1>2 DEF b
<1>4. TimeLeft(b, t) \in Nat /\ TimeLeft(b, t) <= Ceiling(BackoffMax)
  BY <1>3, CeilingType, ResumeAssumption DEF TimeLeft
<1> QED BY <1>4 DEF b

LEMMA CountType ==
  ASSUME NEW n \in 0..AttemptsCap
  PROVE  Count(n) \in 1..AttemptsCap
BY ResumeAssumption DEF Count

Batches == UNION {[S -> 1..AttemptsCap] : S \in SUBSET Operations}

LEMMA EmptyBatch == [t \in {} |-> 0] \in Batches
<1>1. [t \in {} |-> 0] \in [{} -> 1..AttemptsCap]
  OBVIOUS
<1>2. {} \in SUBSET Operations
  OBVIOUS
<1> QED BY <1>1, <1>2 DEF Batches

(* What resumeOne may make of a row.                                       *)
LEMMA OutcomesType ==
  ASSUME NEW t \in Operations, NEW tries
  PROVE  /\ Decisions(t) \subseteq {"PROCESSED", "REJECTED", "PENDING_REFERENCE", "ERROR"}
         /\ Outcomes(t, tries) \ {"ERROR"} \subseteq Statuses
<1>1. Decisions(t) \subseteq {"PROCESSED", "REJECTED", "PENDING_REFERENCE", "ERROR"}
  BY DEF Decisions
<1> QED BY <1>1 DEF Outcomes, Statuses

-----------------------------------------------------------------------------
LEMMA InitInv == Init => Inv
<1> SUFFICES ASSUME Init PROVE Inv
  OBVIOUS
<1>1. [t \in {} |-> 0] \in Batches
  BY EmptyBatch
<1>2. Typed
  <2>1. 0 \in 0..AttemptsCap /\ 0 \in 0..Lease /\ 0 \in 0..TTL /\ 0 \in Nat
    BY ResumeAssumption
  <2>2. /\ attempts \in [Operations -> 0..AttemptsCap] /\ elapsed \in [Workers -> 0..Lease]
        /\ wait \in [Operations -> Nat] /\ age \in [Operations -> 0..TTL]
    BY <2>1 DEF Init
  <2>3. /\ todo \in [Workers -> Batches] /\ cur \in [Workers -> Operations \cup {NoOperation}]
        /\ phase \in [Workers -> {"idle", "next", "waiting"}]
        /\ status \in [Operations -> Statuses]
    BY <1>1 DEF Init, Statuses
  <2> QED BY <2>2, <2>3 DEF Typed, Batches
<1>3. WorkExclusive /\ WorkIsCurrent /\ WorkDiscipline
  BY DEF Init, WorkExclusive, WorkIsCurrent, WorkDiscipline
<1>4. WaitsAreShort
  BY ResumeAssumption DEF Init, WaitsAreShort
<1> QED BY <1>2, <1>3, <1>4 DEF Inv

LEMMA SubmitInv ==
  ASSUME Inv, NEW t \in Operations, Submit(t)
  PROVE  Inv'
<1>1. PICK d \in Decisions(t) \ {"ERROR"} : status' = [status EXCEPT ![t] = d]
  BY DEF Submit
<1>2. /\ status[t] = "absent" /\ d \in Statuses
      /\ UNCHANGED <<attempts, wait, age, phase, todo, cur, elapsed>>
  BY <1>1, OutcomesType DEF Submit, Statuses
<1>3. Typed'
  BY <1>1, <1>2 DEF Inv, Typed
<1>4. WorkExclusive' /\ WorkDiscipline' /\ WaitsAreShort'
  BY <1>2 DEF Inv, WorkExclusive, WorkDiscipline, WaitsAreShort, Live
<1>5. WorkIsCurrent'
  BY <1>1, <1>2 DEF Inv, Typed, WorkIsCurrent, Waiting, Live
<1> QED BY <1>3, <1>4, <1>5 DEF Inv

-----------------------------------------------------------------------------
(* A claim takes due rows, which no running batch holds.                   *)
LEMMA ClaimedRowsAreFree ==
  ASSUME Inv, NEW w \in Workers, Live(w)
  PROVE  DOMAIN todo[w] \cap FirstDue = {}
<1> SUFFICES ASSUME NEW t \in DOMAIN todo[w], t \in FirstDue PROVE FALSE
  OBVIOUS
<1>1. wait[t] = 0
  BY DEF FirstDue, FirstOf, Due
<1>2. wait[t] >= Lease - elapsed[w] /\ elapsed[w] < Lease
  BY DEF Inv, WorkIsCurrent, Live
<1>3. elapsed[w] \in Nat
  BY ResumeAssumption DEF Inv, Typed
<1> QED BY <1>1, <1>2, <1>3, ResumeAssumption

LEMMA DueRows == Inv => FirstDue \subseteq Operations /\ FirstDue \subseteq Waiting
BY DEF FirstDue, FirstOf, Due, Waiting

(* The update of a claim, seen by the workers that hold other rows.        *)
LEMMA ClaimedRows ==
  ASSUME Inv, Claiming(FirstDue)
  PROVE  /\ attempts' \in [Operations -> 0..AttemptsCap]
         /\ wait' \in [Operations -> Nat]
         /\ UNCHANGED <<status, age>>
         /\ WaitsAreShort'
         /\ \A t \in FirstDue : wait'[t] = Lease /\ attempts'[t] = Count(attempts[t])
         /\ \A t \in Operations \ FirstDue : wait'[t] = wait[t] /\ attempts'[t] = attempts[t]
<1>1. /\ attempts' = [t \in Operations |-> IF t \in FirstDue THEN Count(attempts[t]) ELSE attempts[t]]
      /\ wait' = [t \in Operations |-> IF t \in FirstDue THEN Lease ELSE wait[t]]
      /\ UNCHANGED <<status, age>>
  BY DEF Claiming
<1>2. \A t \in Operations : Count(attempts[t]) \in 0..AttemptsCap
  BY CountType DEF Inv, Typed
<1>3. attempts' \in [Operations -> 0..AttemptsCap] /\ wait' \in [Operations -> Nat]
  BY <1>1, <1>2, ResumeAssumption DEF Inv, Typed
<1>4. WaitsAreShort'
  BY <1>1, ResumeAssumption DEF Inv, WaitsAreShort
<1>5. /\ \A t \in FirstDue : wait'[t] = Lease /\ attempts'[t] = Count(attempts[t])
      /\ \A t \in Operations \ FirstDue : wait'[t] = wait[t] /\ attempts'[t] = attempts[t]
  BY <1>1, DueRows
<1> QED BY <1>1, <1>3, <1>4, <1>5

LEMMA ClaimInv ==
  ASSUME Inv, NEW w \in Workers, Claim(w)
  PROVE  Inv'
<1> USE ResumeAssumption
<1> DEFINE batch == [t \in FirstDue |-> Count(attempts[t])]
<1>1. /\ phase' = [phase EXCEPT ![w] = "next"]
      /\ todo' = [todo EXCEPT ![w] = batch]
      /\ elapsed' = [elapsed EXCEPT ![w] = 0]
      /\ cur' = cur /\ Claiming(FirstDue)
  BY DEF Claim
<1>2. batch \in Batches
  <2>1. \A t \in FirstDue : Count(attempts[t]) \in 1..AttemptsCap
    BY DueRows, CountType DEF Inv, Typed
  <2>2. batch \in [FirstDue -> 1..AttemptsCap]
    BY <2>1
  <2> HIDE DEF batch
  <2> QED BY <2>2, DueRows DEF Batches
<1>3. DOMAIN batch = FirstDue /\ \A t \in FirstDue : batch[t] = Count(attempts[t])
  OBVIOUS
<1> HIDE DEF batch
<1>4. Typed'
  BY <1>1, <1>2, ClaimedRows DEF Inv, Typed, Batches
<1>5. \A v \in Workers : v # w => todo'[v] = todo[v] /\ elapsed'[v] = elapsed[v]
                                  /\ phase'[v] = phase[v] /\ cur'[v] = cur[v]
  BY <1>1 DEF Inv, Typed
<1>6. todo'[w] = batch /\ elapsed'[w] = 0 /\ phase'[w] = "next"
  BY <1>1 DEF Inv, Typed
<1>7. WorkExclusive'
  BY <1>3, <1>5, <1>6, ClaimedRowsAreFree DEF Inv, WorkExclusive, Live
<1>8. WorkDiscipline'
  BY <1>3, <1>5, <1>6, DueRows DEF Inv, WorkDiscipline
<1>9. WorkIsCurrent'
  <2> SUFFICES ASSUME NEW v \in Workers, Live(v)', NEW t \in DOMAIN todo'[v]
               PROVE  t \in Waiting /\ wait'[t] >= Lease - elapsed'[v] /\ todo'[v][t] = attempts'[t]
    BY <1>1, ClaimedRows DEF WorkIsCurrent, Waiting
  <2>1. CASE v = w
    <3>1. t \in FirstDue
      BY <2>1, <1>3, <1>6
    <3>2. wait'[t] = Lease /\ attempts'[t] = Count(attempts[t]) /\ t \in Waiting
      BY <3>1, <1>1, ClaimedRows, DueRows
    <3> QED BY <2>1, <3>1, <3>2, <1>3, <1>6
  <2>2. CASE v # w
    <3>1. Live(v) /\ t \in DOMAIN todo[v]
      BY <2>2, <1>5 DEF Live
    <3>2. t \in Waiting /\ wait[t] >= Lease - elapsed[v] /\ todo[v][t] = attempts[t]
      BY <3>1 DEF Inv, WorkIsCurrent
    <3>3. t \in Operations \ FirstDue
      BY <3>1, <3>2, ClaimedRowsAreFree DEF Waiting
    <3>4. wait'[t] = wait[t] /\ attempts'[t] = attempts[t]
      BY <3>3, <1>1, ClaimedRows
    <3> QED BY <2>2, <3>2, <3>4, <1>5
  <2> QED BY <2>1, <2>2
<1> QED BY <1>1, <1>4, <1>7, <1>8, <1>9, ClaimedRows DEF Inv

LEMMA LoseClaimInv ==
  ASSUME Inv, NEW w \in Workers, LoseClaim(w)
  PROVE  Inv'
<1>1. Claiming(FirstDue) /\ UNCHANGED <<phase, todo, cur, elapsed>>
  BY DEF LoseClaim, workers
<1>2. Typed'
  BY <1>1, ClaimedRows DEF Inv, Typed
<1>3. WorkExclusive' /\ WorkDiscipline'
  BY <1>1 DEF Inv, WorkExclusive, WorkDiscipline, Live
<1>4. WorkIsCurrent'
  <2> SUFFICES ASSUME NEW v \in Workers, Live(v), NEW t \in DOMAIN todo[v]
               PROVE  t \in Waiting /\ wait'[t] >= Lease - elapsed[v] /\ todo[v][t] = attempts'[t]
    BY <1>1, ClaimedRows DEF WorkIsCurrent, Waiting, Live
  <2>1. t \in Waiting /\ wait[t] >= Lease - elapsed[v] /\ todo[v][t] = attempts[t]
    BY DEF Inv, WorkIsCurrent
  <2>2. t \in Operations \ FirstDue
    BY <2>1, ClaimedRowsAreFree DEF Waiting
  <2> QED BY <1>1, <2>1, <2>2, ClaimedRows
<1> QED BY <1>1, <1>2, <1>3, <1>4, ClaimedRows DEF Inv

-----------------------------------------------------------------------------
(* A worker goes on: it only gives rows back, and changes only rows it has *)
(* held until now, under a lease that still runs.                          *)
Others(w) ==
    \A v \in Workers \ {w} : /\ todo'[v] = todo[v] /\ elapsed'[v] = elapsed[v]
                             /\ phase'[v] = phase[v] /\ cur'[v] = cur[v]

GivesBack(w) ==
    /\ DOMAIN todo'[w] \subseteq DOMAIN todo[w]
    /\ \A t \in DOMAIN todo'[w] : todo'[w][t] = todo[w][t] /\ elapsed'[w] = elapsed[w]
    /\ phase'[w] = "idle" => DOMAIN todo'[w] = {} /\ elapsed'[w] = 0
    /\ phase'[w] = "waiting" => cur'[w] \in DOMAIN todo'[w]

Touches(w) ==
    /\ UNCHANGED attempts
    /\ \A t \in Operations : status'[t] # status[t] \/ wait'[t] # wait[t] =>
                              t \in DOMAIN todo[w] \ DOMAIN todo'[w] /\ Live(w)

LEMMA GivesBackInv ==
  ASSUME Inv, NEW w \in Workers, Typed', WaitsAreShort', Others(w), GivesBack(w), Touches(w)
  PROVE  Inv'
<1>1. WorkExclusive'
  <2> SUFFICES ASSUME NEW v \in Workers, NEW u \in Workers, v # u, Live(v)', Live(u)',
                      NEW t \in DOMAIN todo'[v], t \in DOMAIN todo'[u]
               PROVE  FALSE
    BY DEF WorkExclusive
  <2>1. \A x \in {v, u} : Live(x) /\ t \in DOMAIN todo[x]
    BY DEF Others, GivesBack, Live
  <2> QED BY <2>1 DEF Inv, WorkExclusive
<1>2. WorkIsCurrent'
  <2> SUFFICES ASSUME NEW v \in Workers, Live(v)', NEW t \in DOMAIN todo'[v]
               PROVE  (t \in Waiting)' /\ wait'[t] >= Lease - elapsed'[v] /\ todo'[v][t] = attempts'[t]
    BY DEF WorkIsCurrent
  <2>1. Live(v) /\ t \in DOMAIN todo[v] /\ todo'[v][t] = todo[v][t] /\ elapsed'[v] = elapsed[v]
    BY DEF Others, GivesBack, Live
  <2>2. t \in Waiting /\ wait[t] >= Lease - elapsed[v] /\ todo[v][t] = attempts[t]
    BY <2>1 DEF Inv, WorkIsCurrent
  <2>3. ~(t \in DOMAIN todo[w] \ DOMAIN todo'[w] /\ Live(w))
    BY <2>1 DEF Inv, WorkExclusive
  <2>4. status'[t] = status[t] /\ wait'[t] = wait[t] /\ attempts'[t] = attempts[t]
    BY <2>2, <2>3 DEF Touches, Waiting
  <2> QED BY <2>1, <2>2, <2>4 DEF Waiting
<1>3. WorkDiscipline'
  BY DEF Inv, WorkDiscipline, Others, GivesBack
<1> QED BY <1>1, <1>2, <1>3 DEF Inv

(* Release and Advance are of this kind.                                   *)
LEMMA ReleaseKeeps ==
  ASSUME Inv, NEW w \in Workers, Release(w),
         status' \in [Operations -> Statuses], wait' \in [Operations -> Nat], WaitsAreShort',
         UNCHANGED <<attempts, age>>,
         \A t \in Operations : status'[t] # status[t] \/ wait'[t] # wait[t] =>
                               t \in DOMAIN todo[w] /\ Live(w)
  PROVE  Inv'
<1>1. /\ phase' = [phase EXCEPT ![w] = "idle"]
      /\ todo' = [todo EXCEPT ![w] = [t \in {} |-> 0]]
      /\ cur' = [cur EXCEPT ![w] = NoOperation]
      /\ elapsed' = [elapsed EXCEPT ![w] = 0]
  BY DEF Release
<1>2. Typed'
  <2>1. phase' \in [Workers -> {"idle", "next", "waiting"}]
    BY <1>1 DEF Inv, Typed
  <2>2. todo' \in [Workers -> Batches]
    <3>1. todo \in [Workers -> Batches]
      BY DEF Inv, Typed, Batches
    <3> QED BY <1>1, <3>1, EmptyBatch
  <2>3. cur' \in [Workers -> Operations \cup {NoOperation}]
    BY <1>1 DEF Inv, Typed
  <2>4. elapsed' \in [Workers -> 0..Lease]
    BY <1>1, ResumeAssumption DEF Inv, Typed
  <2>5. attempts' = attempts /\ age' = age
    OBVIOUS
  <2> QED BY <2>1, <2>2, <2>3, <2>4, <2>5 DEF Inv, Typed, Batches
<1>3. Others(w)
  BY <1>1 DEF Inv, Typed, Others
<1>4. DOMAIN todo'[w] = {} /\ elapsed'[w] = 0 /\ phase'[w] = "idle"
  BY <1>1 DEF Inv, Typed
<1>5. GivesBack(w) /\ Touches(w)
  BY <1>4 DEF GivesBack, Touches
<1> QED BY <1>2, <1>3, <1>5, GivesBackInv

LEMMA AdvanceKeeps ==
  ASSUME Inv, NEW w \in Workers, NEW t \in DOMAIN todo[w], Advance(w, t),
         status' \in [Operations -> Statuses], wait' \in [Operations -> Nat], WaitsAreShort',
         UNCHANGED <<attempts, age>>,
         \A o \in Operations : status'[o] # status[o] \/ wait'[o] # wait[o] => o = t /\ Live(w)
  PROVE  Inv'
<1> DEFINE rest == [o \in DOMAIN todo[w] \ {t} |-> todo[w][o]]
<1>1. /\ phase' = [phase EXCEPT ![w] = "next"]
      /\ todo' = [todo EXCEPT ![w] = rest]
      /\ cur' = [cur EXCEPT ![w] = NoOperation]
      /\ elapsed' = elapsed
  BY DEF Advance
<1>2. rest \in Batches
  <2>1. PICK S \in SUBSET Operations : todo[w] \in [S -> 1..AttemptsCap]
    BY DEF Inv, Typed
  <2>2. rest \in [S \ {t} -> 1..AttemptsCap]
    BY <2>1
  <2>3. S \ {t} \in SUBSET Operations
    BY <2>1
  <2> HIDE DEF rest
  <2> QED BY <2>2, <2>3 DEF Batches
<1>3. DOMAIN rest = DOMAIN todo[w] \ {t} /\ \A o \in DOMAIN rest : rest[o] = todo[w][o]
  OBVIOUS
<1> HIDE DEF rest
<1>4. Typed'
  BY <1>1, <1>2, ResumeAssumption DEF Inv, Typed, Batches
<1>5. Others(w)
  BY <1>1 DEF Inv, Typed, Others
<1>6. todo'[w] = rest /\ elapsed'[w] = elapsed[w] /\ phase'[w] = "next"
  BY <1>1 DEF Inv, Typed
<1>7. GivesBack(w) /\ Touches(w)
  BY <1>3, <1>6 DEF GivesBack, Touches
<1> QED BY <1>4, <1>5, <1>7, GivesBackInv

LEMMA SameRows ==
  ASSUME Inv, UNCHANGED rows
  PROVE  /\ status' \in [Operations -> Statuses] /\ wait' \in [Operations -> Nat]
         /\ WaitsAreShort' /\ UNCHANGED <<attempts, age, status, wait>>
BY DEF Inv, Typed, WaitsAreShort, rows

-----------------------------------------------------------------------------
(* The steps of a worker.                                                  *)
LEMMA FinishInv ==
  ASSUME Inv, NEW w \in Workers, Finish(w) \/ Crash(w)
  PROVE  Inv'
<1>1. Release(w) /\ UNCHANGED rows
  BY DEF Finish, Crash
<1> QED BY <1>1, SameRows, ReleaseKeeps

(* A row that a running batch holds gets an outcome.                       *)
LEMMA DecideRow ==
  ASSUME Inv, NEW w \in Workers, NEW t \in DOMAIN todo[w], t \in Operations, Live(w),
         NEW tries, NEW d \in Outcomes(t, tries) \ {"ERROR"}, Decide(t, d)
  PROVE  /\ status' \in [Operations -> Statuses] /\ wait' \in [Operations -> Nat]
         /\ WaitsAreShort' /\ UNCHANGED <<attempts, age, wait>>
         /\ \A o \in Operations : status'[o] # status[o] => o = t
         /\ d = "PENDING_REFERENCE" => status' = status
<1>1. /\ status' = [status EXCEPT ![t] = d] /\ d \in Statuses
      /\ UNCHANGED <<attempts, age, wait>>
  BY OutcomesType DEF Decide
<1>2. status[t] = "PENDING_REFERENCE"
  BY DEF Inv, WorkIsCurrent, Waiting
<1> QED BY <1>1, <1>2 DEF Inv, Typed, WaitsAreShort

LEMMA ResumeInv ==
  ASSUME Inv, NEW w \in Workers, NEW t \in Operations, Resume(w, t)
  PROVE  Inv'
<1>1. t \in DOMAIN todo[w] /\ Live(w) /\ phase[w] = "next"
  BY DEF Resume
<1>2. CASE Advance(w, t) /\ UNCHANGED rows
  BY <1>1, <1>2, SameRows, AdvanceKeeps
<1>3. ASSUME NEW d \in Outcomes(t, todo[w][t]) \ {"ERROR"}, Decide(t, d), Advance(w, t)
      PROVE  Inv'
  BY <1>1, <1>3, DecideRow, AdvanceKeeps
<1>4. ASSUME NEW d \in Outcomes(t, todo[w][t]) \ {"ERROR"}, Decide(t, d), d = "PENDING_REFERENCE",
             phase' = [phase EXCEPT ![w] = "waiting"], cur' = [cur EXCEPT ![w] = t],
             UNCHANGED <<todo, elapsed>>
      PROVE  Inv'
  <2>1. UNCHANGED <<status, attempts, age, wait>> /\ WaitsAreShort'
    BY <1>1, <1>4, DecideRow
  <2>2. Typed'
    BY <1>4, <2>1 DEF Inv, Typed
  <2>3. Others(w) /\ GivesBack(w) /\ Touches(w)
    BY <1>1, <1>4, <2>1 DEF Inv, Typed, Others, GivesBack, Touches
  <2> QED BY <2>1, <2>2, <2>3, GivesBackInv
<1> QED BY <1>2, <1>3, <1>4 DEF Resume

LEMMA ResumeFailsInv ==
  ASSUME Inv, NEW w \in Workers, NEW t \in Operations, ResumeFails(w, t)
  PROVE  Inv'
<1>1. t \in DOMAIN todo[w] /\ Advance(w, t)
  BY DEF ResumeFails
<1>2. CASE UNCHANGED rows
  BY <1>1, <1>2, SameRows, AdvanceKeeps
<1>3. ASSUME Live(w), NEW d \in Outcomes(t, todo[w][t]) \ {"ERROR"}, Decide(t, d)
      PROVE  Inv'
  BY <1>1, <1>3, DecideRow, AdvanceKeeps
<1> QED BY <1>2, <1>3 DEF ResumeFails

LEMMA RetriedRow ==
  ASSUME Inv, NEW w \in Workers, phase[w] = "waiting",
         ScheduleRetry(cur[w], TimeLeft(Backoff(todo[w][cur[w]], BackoffMax), elapsed[w]))
  PROVE  /\ cur[w] \in DOMAIN todo[w]
         /\ status' \in [Operations -> Statuses] /\ wait' \in [Operations -> Nat]
         /\ WaitsAreShort' /\ UNCHANGED <<status, attempts, age>>
         /\ \A o \in Operations : wait'[o] # wait[o] => o = cur[w]
<1> DEFINE time == TimeLeft(Backoff(todo[w][cur[w]], BackoffMax), elapsed[w])
<1>1. cur[w] \in DOMAIN todo[w]
  BY DEF Inv, WorkDiscipline
<1>2. PICK S \in SUBSET Operations : todo[w] \in [S -> 1..AttemptsCap]
  BY DEF Inv, Typed
<1>3. todo[w][cur[w]] \in 1..AttemptsCap /\ elapsed[w] \in 0..Lease
  BY <1>1, <1>2 DEF Inv, Typed
<1>4. time \in Nat /\ time <= Ceiling(BackoffMax)
  BY <1>3, DelayShort
<1>5. ScheduleRetry(cur[w], time)
  OBVIOUS
<1> HIDE DEF time
<1>6. /\ UNCHANGED <<status, attempts, age>>
      /\ wait' = wait \/ wait' = [wait EXCEPT ![cur[w]] = time]
  BY <1>5 DEF ScheduleRetry, rows
<1> QED BY <1>1, <1>4, <1>6 DEF Inv, Typed, WaitsAreShort

LEMMA RetryInv ==
  ASSUME Inv, NEW w \in Workers, Retry(w)
  PROVE  Inv'
<1>1. phase[w] = "waiting" /\ Live(w) /\ Advance(w, cur[w])
  BY DEF Retry
<1>2. ScheduleRetry(cur[w], TimeLeft(Backoff(todo[w][cur[w]], BackoffMax), elapsed[w]))
  BY DEF Retry
<1> HIDE DEF ScheduleRetry
<1> QED BY <1>1, <1>2, RetriedRow, AdvanceKeeps

LEMMA AbortInv ==
  ASSUME Inv, NEW w \in Workers, Abort(w)
  PROVE  Inv'
<1>1. phase[w] = "waiting" /\ Release(w)
  BY DEF Abort
<1>2. CASE UNCHANGED rows
  BY <1>1, <1>2, SameRows, ReleaseKeeps
<1>3. CASE Live(w) /\ ScheduleRetry(cur[w], TimeLeft(Backoff(todo[w][cur[w]], BackoffMax), elapsed[w]))
  BY <1>1, <1>3, RetriedRow, ReleaseKeeps
<1> QED BY <1>2, <1>3 DEF Abort

(* A second takes one from the time a row has left and one from the time   *)
(* its holder has left.                                                    *)
LEMMA TickInv ==
  ASSUME Inv, Tick
  PROVE  Inv'
<1> USE ResumeAssumption
<1>1. /\ wait' = [t \in Operations |-> IF wait[t] > 0 THEN wait[t] - 1 ELSE 0]
      /\ age' = [t \in Operations |-> IF t \in Waiting /\ age[t] < TTL THEN age[t] + 1 ELSE age[t]]
      /\ elapsed' = [w \in Workers |-> IF phase[w] # "idle" /\ elapsed[w] < Lease
                                       THEN elapsed[w] + 1 ELSE elapsed[w]]
      /\ UNCHANGED <<status, attempts, phase, todo, cur>>
  BY DEF Tick
<1>2. Typed'
  BY <1>1 DEF Inv, Typed
<1>3. \A w \in Workers : /\ Live(w)' => Live(w)
                         /\ Live(w)' /\ DOMAIN todo[w] # {} => elapsed'[w] = elapsed[w] + 1
  BY <1>1 DEF Inv, Typed, Live, WorkDiscipline
<1>4. WorkExclusive'
  BY <1>1, <1>3 DEF Inv, WorkExclusive
<1>5. WorkIsCurrent'
  <2> SUFFICES ASSUME NEW w \in Workers, Live(w)', NEW t \in DOMAIN todo[w]
               PROVE  t \in Waiting /\ wait'[t] >= Lease - elapsed'[w] /\ todo[w][t] = attempts[t]
    BY <1>1 DEF WorkIsCurrent, Waiting
  <2>1. t \in Waiting /\ wait[t] >= Lease - elapsed[w] /\ todo[w][t] = attempts[t]
    BY <1>3 DEF Inv, WorkIsCurrent
  <2>2. elapsed'[w] = elapsed[w] + 1 /\ elapsed[w] \in Nat /\ elapsed[w] < Lease
    BY <1>3 DEF Inv, Typed, Live
  <2>3. t \in Operations /\ wait[t] \in Nat
    BY <2>1 DEF Inv, Typed, Waiting
  <2>4. wait'[t] = wait[t] - 1
    BY <1>1, <2>1, <2>2, <2>3
  <2> QED BY <2>1, <2>2, <2>3, <2>4
<1>6. WorkDiscipline'
  BY <1>1 DEF Inv, WorkDiscipline, Typed
<1>7. WaitsAreShort'
  BY <1>1, CeilingType DEF Inv, Typed, WaitsAreShort
<1> QED BY <1>2, <1>4, <1>5, <1>6, <1>7 DEF Inv

LEMMA NextInv ==
  ASSUME Inv, [Next]_vars
  PROVE  Inv'
<1>1. CASE UNCHANGED vars
  BY <1>1 DEF vars, Inv, Typed, WorkExclusive, WorkIsCurrent, WorkDiscipline, WaitsAreShort, Live, Waiting
<1>2. ASSUME NEW w \in Workers, Step(w) \/ LoseClaim(w) \/ Crash(w) PROVE Inv'
  BY <1>2, ClaimInv, FinishInv, RetryInv, AbortInv, ResumeInv, ResumeFailsInv, LoseClaimInv DEF Step
<1> QED BY <1>1, <1>2, SubmitInv, TickInv DEF Next

(* Inv is inductive.                                                       *)
THEOREM ResumeInvariant == Spec => []Inv
BY InitInv, NextInv, PTL DEF Spec

(* What a worker holds is current while its lease runs.                    *)
THEOREM WorkStaysCurrent == Spec => []WorkIsCurrent
<1>1. Inv => WorkIsCurrent
  BY DEF Inv
<1> QED BY <1>1, ResumeInvariant, PTL

(* No row is put off beyond the lease or the longest back-off, whatever    *)
(* the attempts and the configured maximum.                                *)
THEOREM WaitsBounded == Spec => []TriedAgainSoon
<1>1. Inv => TriedAgainSoon
  BY DEF Inv, WaitsAreShort, TriedAgainSoon, Waiting
<1> QED BY <1>1, ResumeInvariant, PTL

-----------------------------------------------------------------------------
(* The order of the claims.                                                *)

\* An operation that has no row has not been put off.
Untouched == \A t \in Operations : status[t] = "absent" => wait[t] = 0

OrderInv == TypeOK /\ Untouched

(* Rows that leave the order of the due rows leave the others in line.     *)
LEMMA WithoutInLine ==
  ASSUME NEW order, NEW due, InLine(order, due), NEW S
  PROVE  InLine(Without(order, S), due \ S)
BY DEF InLine, Without

(* A row that takes a place among the due rows stands in line with them.   *)
LEMMA PlacedInLine ==
  ASSUME NEW order, NEW due, InLine(order, due), NEW e, e \notin due, NEW behind, NEW before,
         NEW placed \in Placed(order, due, e, behind, before)
  PROVE  InLine(placed, due \cup {e})
<1>1. PICK ahead \in SUBSET due : /\ \A p \in order : p[2] \in ahead => p[1] \in ahead
                                  /\ placed = order \cup (ahead \X {e}) \cup ({e} \X (due \ ahead))
  BY DEF Placed
<1>2. \A d, f : <<d, f>> \in order => d \in due /\ f \in due /\ (f \in ahead => d \in ahead)
  BY <1>1 DEF InLine
<1>3. \A d, f : <<d, f>> \in placed <=> \/ <<d, f>> \in order
                                        \/ d \in ahead /\ f = e
                                        \/ d = e /\ f \in due \ ahead
  BY <1>1
<1>4. placed \subseteq (due \cup {e}) \X (due \cup {e})
  BY <1>1 DEF InLine
<1>5. \A d, f \in due \cup {e} : <<d, f>> \in placed <=> d # f /\ <<f, d>> \notin placed
  BY <1>2, <1>3 DEF InLine
<1>6. \A d, f, g \in due \cup {e} : <<d, f>> \in placed /\ <<f, g>> \in placed => <<d, g>> \in placed
  BY <1>2, <1>3 DEF InLine
<1> QED BY <1>4, <1>5, <1>6 DEF InLine

(* Rows that become due together stand in line behind the others.          *)
LEMMA FollowedInLine ==
  ASSUME NEW order, NEW due, InLine(order, due), NEW new \in SUBSET Nat, new \cap due = {}
  PROVE  InLine(Followed(order, due, new), due \cup new)
<1> DEFINE longer == Followed(order, due, new)
           First(d, e) == d < e
<1>1. \A d, e : <<d, e>> \in order => d \in due /\ e \in due
  BY DEF InLine
<1>2. \A d, e : <<d, e>> \in longer <=> \/ <<d, e>> \in order
                                        \/ d \in due /\ e \in new
                                        \/ d \in new /\ e \in new /\ First(d, e)
  BY DEF Followed
<1>3. longer \subseteq (due \cup new) \X (due \cup new)
  BY DEF InLine, Followed
<1>4. /\ \A d, e \in new : First(d, e) <=> d # e /\ ~First(e, d)
      /\ \A d, e, f \in new : First(d, e) /\ First(e, f) => First(d, f)
  OBVIOUS
<1> HIDE DEF longer, First
<1>5. \A d, e \in due \cup new : <<d, e>> \in longer <=> d # e /\ <<e, d>> \notin longer
  BY <1>1, <1>2, <1>4 DEF InLine
<1>6. \A d, e, f \in due \cup new : <<d, e>> \in longer /\ <<e, f>> \in longer => <<d, f>> \in longer
  BY <1>1, <1>2, <1>4 DEF InLine
<1>7. InLine(longer, due \cup new)
  BY <1>3, <1>5, <1>6 DEF InLine
<1> QED BY <1>7 DEF longer

(* A row that is put off leaves its place, and takes one anew when it is   *)
(* due at once.                                                            *)
LEMMA ScheduledOrder ==
  ASSUME OrderInv, NEW t \in Operations, NEW time \in Nat, ScheduleRetry(t, time)
  PROVE  InLine(queue, Due)' /\ Untouched'
<1>1. InLine(queue, Due) /\ wait \in [Operations -> Nat]
  BY DEF OrderInv, TypeOK, Typed
<1>2. CASE t \notin Waiting
  BY <1>1, <1>2 DEF ScheduleRetry, rows, Due, Waiting, OrderInv, Untouched
<1>3. CASE t \in Waiting
  <2> DEFINE others == Without(queue, {t})
             first == {o \in Operations : attempts[o] = 0}
  <2>1. InLine(others, Due \ {t})
    BY <1>1, WithoutInLine
  <2>2. /\ wait' = [wait EXCEPT ![t] = time]
        /\ queue' \in IF time = 0 THEN Placed(others, Due \ {t}, t, first, {}) ELSE {others}
        /\ UNCHANGED status
    BY <1>3 DEF ScheduleRetry
  <2> HIDE DEF others, first
  <2>3. Untouched'
    BY <1>1, <1>3, <2>2 DEF OrderInv, Untouched, Waiting
  <2>4. Waiting' = Waiting
    BY <2>2 DEF Waiting
  <2>5. CASE time = 0
    <3>1. Due' = (Due \ {t}) \cup {t}
      BY <1>1, <1>3, <2>2, <2>4, <2>5 DEF Due, Waiting
    <3>2. queue' \in Placed(others, Due \ {t}, t, first, {})
      BY <2>2, <2>5
    <3>3. InLine(queue', (Due \ {t}) \cup {t})
      BY <2>1, <3>2, PlacedInLine
    <3> QED BY <2>3, <3>1, <3>3
  <2>6. CASE time # 0
    <3>1. Due' = Due \ {t} /\ queue' = others
      BY <1>1, <1>3, <2>2, <2>4, <2>6 DEF Due, Waiting
    <3> QED BY <2>1, <2>3, <3>1
  <2> QED BY <2>5, <2>6
<1> QED BY <1>2, <1>3

(* A row that is decided is due no more; one that goes on waiting stays.   *)
LEMMA DecidedOrder ==
  ASSUME OrderInv, NEW t \in Waiting, NEW d, d # "absent", Decide(t, d)
  PROVE  InLine(queue, Due)' /\ Untouched'
<1>1. /\ InLine(queue, Due) /\ t \in Operations /\ status[t] = "PENDING_REFERENCE"
      /\ status \in [Operations -> Statuses]
  BY DEF OrderInv, TypeOK, Typed, Waiting
<1>2. /\ status' = [status EXCEPT ![t] = d] /\ UNCHANGED wait
      /\ queue' = IF d = "PENDING_REFERENCE" THEN queue ELSE Without(queue, {t})
  BY DEF Decide
<1>3. Untouched'
  BY <1>1, <1>2 DEF OrderInv, Untouched
<1>4. CASE d = "PENDING_REFERENCE"
  <2>1. Due' = Due /\ queue' = queue
    BY <1>1, <1>2, <1>4 DEF Due, Waiting
  <2> QED BY <1>1, <1>3, <2>1
<1>5. CASE d # "PENDING_REFERENCE"
  <2>1. Due' = Due \ {t} /\ queue' = Without(queue, {t})
    BY <1>1, <1>2, <1>5 DEF Due, Waiting
  <2> QED BY <1>1, <1>3, <2>1, WithoutInLine
<1> QED BY <1>4, <1>5

(* The rows of a claim are due, and no longer so under their lease.        *)
LEMMA ClaimedOrder ==
  ASSUME OrderInv, Claiming(FirstDue)
  PROVE  InLine(queue, Due)' /\ Untouched'
<1>1. FirstDue \subseteq Due
  BY DEF FirstDue, FirstOf
<1>2. /\ wait' = [t \in Operations |-> IF t \in FirstDue THEN Lease ELSE wait[t]]
      /\ queue' = Without(queue, FirstDue)
      /\ UNCHANGED status
  BY DEF Claiming
<1> HIDE DEF FirstDue
<1>3. Due' = Due \ FirstDue
  BY <1>1, <1>2, ResumeAssumption DEF Due, Waiting
<1>4. Untouched'
  BY <1>1, <1>2 DEF OrderInv, Untouched, Due, Waiting
<1> QED BY <1>2, <1>3, <1>4, WithoutInLine DEF OrderInv, TypeOK

(* A row that is submitted and has to wait is due at once.                 *)
LEMMA SubmittedOrder ==
  ASSUME OrderInv, NEW t \in Operations, Submit(t)
  PROVE  InLine(queue, Due)' /\ Untouched'
<1>1. /\ InLine(queue, Due) /\ status[t] = "absent" /\ wait[t] = 0
      /\ status \in [Operations -> Statuses]
  BY DEF OrderInv, TypeOK, Typed, Untouched, Submit
<1> DEFINE tried == {o \in Operations : attempts[o] > 0}
<1>2. PICK d \in Decisions(t) :
        /\ status' = [status EXCEPT ![t] = d]
        /\ queue' \in IF d = "PENDING_REFERENCE" THEN Placed(queue, Due, t, {}, tried) ELSE {queue}
        /\ UNCHANGED wait
  BY DEF Submit
<1> HIDE DEF tried
<1>3. Untouched'
  BY <1>1, <1>2 DEF OrderInv, Untouched
<1>4. t \notin Due
  BY <1>1 DEF Due, Waiting
<1>5. CASE d = "PENDING_REFERENCE"
  <2>1. Due' = Due \cup {t} /\ queue' \in Placed(queue, Due, t, {}, tried)
    BY <1>1, <1>2, <1>5 DEF Due, Waiting
  <2>2. InLine(queue', Due \cup {t})
    BY <1>1, <1>4, <2>1, PlacedInLine
  <2> QED BY <1>3, <2>1, <2>2
<1>6. CASE d # "PENDING_REFERENCE"
  <2>1. Due' = Due /\ queue' = queue
    BY <1>1, <1>2, <1>6 DEF Due, Waiting
  <2> QED BY <1>1, <1>3, <2>1
<1> QED BY <1>5, <1>6

LEMMA TickOrder ==
  ASSUME OrderInv, Tick
  PROVE  InLine(queue, Due)' /\ Untouched'
<1> DEFINE new == {t \in Waiting : wait[t] = 1}
<1>1. /\ InLine(queue, Due) /\ wait \in [Operations -> Nat]
      /\ wait' = [t \in Operations |-> IF wait[t] > 0 THEN wait[t] - 1 ELSE 0]
      /\ queue' = Followed(queue, Due, new)
      /\ UNCHANGED status
  BY DEF OrderInv, TypeOK, Typed, Tick
<1>2. \A t \in Operations : wait'[t] = 0 <=> wait[t] \in {0, 1}
  BY <1>1
<1>3. new \in SUBSET Nat /\ new \cap Due = {}
  <2>1. new \subseteq Operations /\ Operations \subseteq Nat
    BY ResumeAssumption DEF Waiting
  <2>2. \A t \in new : t \notin Due
    BY DEF Due
  <2> HIDE DEF new
  <2> QED BY <2>1, <2>2
<1>4. Waiting' = Waiting
  BY <1>1 DEF Waiting
<1>5. Due' = Due \cup new
  BY <1>2, <1>4 DEF Due, Waiting
<1> HIDE DEF new
<1>6. InLine(queue', Due \cup new)
  BY <1>1, <1>3, FollowedInLine
<1>7. Untouched'
  BY <1>1, <1>2 DEF OrderInv, Untouched
<1> QED BY <1>5, <1>6, <1>7

LEMMA NextOrder ==
  ASSUME OrderInv, Inv, [Next]_vars
  PROVE  InLine(queue, Due)' /\ Untouched'
<1> DEFINE Goal == InLine(queue, Due)' /\ Untouched'
<1>1. CASE UNCHANGED rows
  BY <1>1 DEF OrderInv, TypeOK, Untouched, rows, Due, Waiting
<1>2. ASSUME NEW w \in Workers, Claim(w) \/ LoseClaim(w) PROVE Goal
  BY <1>2, ClaimedOrder DEF Claim, LoseClaim
<1>3. ASSUME NEW w \in Workers, phase[w] = "waiting",
             ScheduleRetry(cur[w], TimeLeft(Backoff(todo[w][cur[w]], BackoffMax), elapsed[w]))
      PROVE  Goal
  <2> DEFINE time == TimeLeft(Backoff(todo[w][cur[w]], BackoffMax), elapsed[w])
  <2>1. cur[w] \in DOMAIN todo[w] /\ cur[w] \in Operations
    BY <1>3 DEF Inv, WorkDiscipline
  <2>2. PICK S \in SUBSET Operations : todo[w] \in [S -> 1..AttemptsCap]
    BY DEF Inv, Typed
  <2>3. todo[w][cur[w]] \in 1..AttemptsCap /\ elapsed[w] \in 0..Lease
    BY <2>1, <2>2 DEF Inv, Typed
  <2>4. time \in Nat
    BY <2>3, DelayShort
  <2>5. ScheduleRetry(cur[w], time)
    BY <1>3
  <2> HIDE DEF time
  <2> QED BY <2>1, <2>4, <2>5, ScheduledOrder
<1>4. ASSUME NEW w \in Workers, NEW t \in DOMAIN todo[w], Live(w),
             NEW d \in Outcomes(t, todo[w][t]), Decide(t, d)
      PROVE  Goal
  <2>1. t \in Waiting
    BY <1>4 DEF Inv, WorkIsCurrent
  <2>2. d # "absent"
    BY <2>1, OutcomesType DEF Outcomes, Decisions
  <2> QED BY <1>4, <2>1, <2>2, DecidedOrder
<1>5. ASSUME NEW w \in Workers, NEW t \in Operations, Resume(w, t) \/ ResumeFails(w, t) PROVE Goal
  BY <1>1, <1>4, <1>5 DEF Resume, ResumeFails
<1>6. ASSUME NEW w \in Workers, Retry(w) \/ Abort(w) PROVE Goal
  BY <1>1, <1>3, <1>6 DEF Retry, Abort
<1>7. ASSUME NEW w \in Workers, Finish(w) \/ Crash(w) PROVE Goal
  BY <1>1, <1>7 DEF Finish, Crash
<1>8. CASE UNCHANGED vars
  BY <1>1, <1>8 DEF vars, rows
<1> QED BY <1>2, <1>5, <1>6, <1>7, <1>8, SubmittedOrder, TickOrder DEF Next, Step

(* Whatever is submitted, claimed, decided, put off or falls due, the      *)
(* order of the claims has every due row in one place, and no other row.   *)
THEOREM TypeCorrect == Spec => []TypeOK
<1>1. Init => OrderInv
  BY InitInv DEF Init, OrderInv, TypeOK, Untouched, Inv, Due, Waiting, InLine
<1>2. OrderInv /\ Inv /\ [Next]_vars => OrderInv'
  BY NextInv, NextOrder DEF OrderInv, TypeOK, Inv
<1>3. OrderInv => TypeOK
  BY DEF OrderInv
<1> QED BY <1>1, <1>2, <1>3, ResumeInvariant, PTL DEF Spec

-----------------------------------------------------------------------------
(* An outcome NOT_FOUND of a row that is held stands for a decision to     *)
(* wait with the limits of the row spent.                                  *)
LEMMA GivenUpRow ==
  ASSUME Inv, NEW w \in Workers, NEW t \in DOMAIN todo[w], t \in Operations, Live(w),
         "NOT_FOUND" \in Outcomes(t, todo[w][t])
  PROVE  Decisions(t) = {"PENDING_REFERENCE"} /\ Exhausted(t, attempts[t])
<1>1. todo[w][t] = attempts[t]
  BY DEF Inv, WorkIsCurrent
<1>2. "NOT_FOUND" \notin Decisions(t)
  BY OutcomesType
<1>3. "PENDING_REFERENCE" \in Decisions(t) /\ Exhausted(t, todo[w][t])
  BY <1>2 DEF Outcomes
<1>4. Decisions(t) = {"PENDING_REFERENCE"}
  BY <1>3 DEF Decisions
<1> QED BY <1>1, <1>3, <1>4

LEMMA GivenUpStep ==
  ASSUME Inv, Next, NEW t \in Operations, status'[t] = "NOT_FOUND", status[t] # "NOT_FOUND"
  PROVE  Decisions(t) = {"PENDING_REFERENCE"} /\ Exhausted(t, attempts[t])
<1>1. ASSUME NEW o \in Operations, NEW d, status' = [status EXCEPT ![o] = d]
      PROVE  o = t /\ d = "NOT_FOUND"
  BY <1>1 DEF Inv, Typed
<1>2. ASSUME NEW o \in Operations, Submit(o) PROVE FALSE
  <2>1. PICK d \in Decisions(o) \ {"ERROR"} : status' = [status EXCEPT ![o] = d]
    BY <1>2 DEF Submit
  <2> QED BY <1>1, <2>1, OutcomesType
<1>3. ASSUME NEW w \in Workers, NEW o \in Operations, Resume(w, o) \/ ResumeFails(w, o)
      PROVE  Decisions(t) = {"PENDING_REFERENCE"} /\ Exhausted(t, attempts[t])
  <2>1. o \in DOMAIN todo[w]
    BY <1>3 DEF Resume, ResumeFails
  <2>2. PICK d \in Outcomes(o, todo[w][o]) \ {"ERROR"} : Decide(o, d) /\ Live(w)
    BY <1>3 DEF Resume, ResumeFails, rows
  <2>3. o = t /\ d = "NOT_FOUND"
    BY <1>1, <2>2 DEF Decide
  <2> QED BY <2>1, <2>2, <2>3, GivenUpRow
<1>4. ASSUME NEW w \in Workers, Claim(w) \/ LoseClaim(w) \/ Finish(w) \/ Crash(w) \/ Retry(w) \/ Abort(w)
      PROVE  FALSE
  BY <1>4 DEF Claim, LoseClaim, Claiming, Finish, Crash, Retry, Abort, ScheduleRetry, rows
<1>5. ASSUME Tick PROVE FALSE
  BY <1>5 DEF Tick
<1> QED BY <1>2, <1>3, <1>4, <1>5 DEF Next, Step

(* Nothing is given up that could be decided, or before its time.          *)
THEOREM GivesUpRightly == Spec => GivenUpRightly
<1>1. Inv /\ [Next]_vars =>
        [\A t \in Operations : status'[t] = "NOT_FOUND" /\ status[t] # "NOT_FOUND" =>
            /\ Decisions(t) = {"PENDING_REFERENCE"}
            /\ Exhausted(t, attempts[t])]_vars
  BY GivenUpStep
<1> QED BY <1>1, ResumeInvariant, PTL DEF Spec, GivenUpRightly
=============================================================================
