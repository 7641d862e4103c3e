--------------------------- MODULE PendingResume --------------------------
(***************************************************************************)
(* The pending workers: operations that wait for their reference are       *)
(* claimed under a lease, decided again, and either done, rescheduled with *)
(* a back-off, or given up when their attempts or their time are spent     *)
(* (ADR 0019).  Wagering has the statements of one resume and what else    *)
(* runs at the same time; here a resume is one step, and time, attempts,   *)
(* leases and the failures around it are counted.                          *)
(***************************************************************************)
EXTENDS Leases

CONSTANTS
    Workers,        \* the processes that run a pending worker
    Operations,     \* ids of operations, which are ordered
    Reference,      \* the operation each refers to, NoOperation if none
    Faulty,         \* those whose decision ends with an error once they have
                    \* their reference, as a credit past int64 does
    Batch,          \* PENDING_BATCH_SIZE
    Lease,          \* PENDING_LEASE
    BackoffMax,     \* PENDING_BACKOFF_MAX
    MaxAttempts,    \* PENDING_MAX_ATTEMPTS
    TTL,            \* PENDING_TTL
    AttemptsCap,    \* attempts are not counted further: back-off and limit are reached
    NoOperation

ASSUME ResumeAssumption ==
    /\ Operations \subseteq Nat
    /\ NoOperation \notin Operations
    /\ Reference \in [Operations -> Operations \cup {NoOperation}]
    /\ Faulty \subseteq Operations
    /\ Batch \in Nat \ {0} /\ Lease \in Nat \ {0}
    /\ MaxAttempts \in Nat /\ TTL \in Nat /\ BackoffMax \in Int
    /\ AttemptsCap \in Nat \ {0} /\ AttemptsCap >= MaxAttempts

ASSUME DelayAssumption ==
    \A n \in 1..AttemptsCap : Backoff(n, BackoffMax) \in Nat

VARIABLES
    status,     \* of each row; NOT_FOUND is REJECTED with REFERENCE_NOT_FOUND
    attempts,   \* attempt_count
    wait,       \* the time until next_attempt_at, 0 as well while that is NULL
    age,        \* the time since created_at, up to the time to live
    queue,      \* the order of the due rows, by next_attempt_at, NULLS FIRST, and id
    phase,      \* what each worker does
    todo,       \* what is left of its batch: the claimed attempts of each row
    cur,        \* the row it reschedules
    elapsed     \* the time since it read its clock, up to the lease

rows == <<status, attempts, wait, age, queue>>
workers == <<phase, todo, cur, elapsed>>
vars == <<status, attempts, wait, age, queue, phase, todo, cur, elapsed>>

Statuses == {"absent", "PENDING_REFERENCE", "PROCESSED", "REJECTED", "NOT_FOUND"}
Terminal == {"PROCESSED", "REJECTED", "NOT_FOUND"}

Waiting == {t \in Operations : status[t] = "PENDING_REFERENCE"}
Due == {t \in Waiting : wait[t] = 0}

Typed ==
    /\ status \in [Operations -> Statuses]
    /\ attempts \in [Operations -> 0..AttemptsCap]
    /\ wait \in [Operations -> Nat]
    /\ age \in [Operations -> 0..TTL]
    /\ phase \in [Workers -> {"idle", "next", "waiting"}]
    /\ todo \in [Workers -> UNION {[S -> 1..AttemptsCap] : S \in SUBSET Operations}]
    /\ cur \in [Workers -> Operations \cup {NoOperation}]
    /\ elapsed \in [Workers -> 0..Lease]

(* The types, and that the order of the claims ranges over exactly the due *)
(* rows, each once.  An item in hand has an attempt that counts already:   *)
(* RETURNING reads the row as the claim has updated it (pending.go:47-52). *)
TypeOK == Typed /\ InLine(queue, Due)

-----------------------------------------------------------------------------
(* Decisions.                                                              *)

\* What Apply may say: a reference that is missing or waits itself makes the
\* operation wait, one that was rejected has it rejected, one that was
\* processed lets it through to the checks of WagerDomain.  An operation that
\* is refused before its reference is looked at is one without a reference.
Decisions(t) ==
    IF Reference[t] = NoOperation THEN {"PROCESSED", "REJECTED"}
    ELSE LET s == status[Reference[t]]
         IN IF s \notin Terminal THEN {"PENDING_REFERENCE"}
            ELSE IF s # "PROCESSED" THEN {"REJECTED"}
            ELSE IF t \in Faulty THEN {"ERROR"} ELSE {"PROCESSED", "REJECTED"}

\* pendingExhausted, with the attempts the claim returned.
Exhausted(t, tries) ==
    \/ MaxAttempts > 0 /\ tries >= MaxAttempts
    \/ TTL > 0 /\ age[t] >= TTL

\* Mutant of Outcomes: the limits are looked at before the decision.
OutcomesLimitFirst(t, tries) ==
    IF Exhausted(t, tries) THEN {"NOT_FOUND"} ELSE Decisions(t)

\* Mutant of Outcomes: nothing is ever given up.
OutcomesNoLimit(t, tries) == Decisions(t)

\* What resumeOne makes of it: the limits count only for what would wait.
Outcomes(t, tries) ==
    {IF d = "PENDING_REFERENCE" /\ Exhausted(t, tries) THEN "NOT_FOUND" ELSE d : d \in Decisions(t)}

\* A submitted operation is decided at once; if it waits, next_attempt_at is
\* NULL.  An error leaves no row.
Submit(t) ==
    /\ status[t] = "absent"
    /\ \E d \in Decisions(t) \ {"ERROR"} :
          /\ status' = [status EXCEPT ![t] = d]
          /\ queue' \in IF d = "PENDING_REFERENCE"
                        THEN Placed(queue, Due, t, {}, {o \in Operations : attempts[o] > 0})
                        ELSE {queue}
    /\ UNCHANGED <<attempts, wait, age, phase, todo, cur, elapsed>>

-----------------------------------------------------------------------------
(* One worker: ResumeDue, called by tick under a context with the lease as *)
(* its timeout.                                                            *)

FirstDue == FirstOf(queue, Due, Batch)

Count(n) == IF n < AttemptsCap THEN n + 1 ELSE n

\* Mutant of Claiming: the claim counts the attempt and leaves next_attempt_at.
ClaimingWithoutLease(S) ==
    /\ attempts' = [t \in Operations |-> IF t \in S THEN Count(attempts[t]) ELSE attempts[t]]
    /\ UNCHANGED <<wait, queue, status, age>>

Claiming(S) ==
    /\ attempts' = [t \in Operations |-> IF t \in S THEN Count(attempts[t]) ELSE attempts[t]]
    /\ wait' = [t \in Operations |-> IF t \in S THEN Lease ELSE wait[t]]
    /\ queue' = Without(queue, S)
    /\ UNCHANGED <<status, age>>

\* The context of the batch has not ended.
Live(w) == elapsed[w] < Lease

Release(w) ==
    /\ phase' = [phase EXCEPT ![w] = "idle"]
    /\ todo' = [todo EXCEPT ![w] = [t \in {} |-> 0]]
    /\ cur' = [cur EXCEPT ![w] = NoOperation]
    /\ elapsed' = [elapsed EXCEPT ![w] = 0]

\* On to the next item of the batch.
Advance(w, t) ==
    /\ phase' = [phase EXCEPT ![w] = "next"]
    /\ todo' = [todo EXCEPT ![w] = [o \in DOMAIN todo[w] \ {t} |-> todo[w][o]]]
    /\ cur' = [cur EXCEPT ![w] = NoOperation]
    /\ UNCHANGED elapsed

Claim(w) ==
    /\ phase[w] = "idle"
    /\ Due # {}
    /\ Claiming(FirstDue)
    /\ phase' = [phase EXCEPT ![w] = "next"]
    /\ todo' = [todo EXCEPT ![w] = [t \in FirstDue |-> Count(attempts[t])]]
    /\ elapsed' = [elapsed EXCEPT ![w] = 0]
    /\ UNCHANGED cur

\* The claim commits and its answer is lost.
LoseClaim(w) ==
    /\ phase[w] = "idle"
    /\ Due # {}
    /\ Claiming(FirstDue)
    /\ UNCHANGED workers

Finish(w) ==
    /\ phase[w] = "next"
    /\ DOMAIN todo[w] = {} \/ ~Live(w)
    /\ Release(w)
    /\ UNCHANGED rows

\* The row gets its outcome, and is due no more unless it still waits.
Decide(t, d) ==
    /\ status' = [status EXCEPT ![t] = d]
    /\ queue' = IF d = "PENDING_REFERENCE" THEN queue ELSE Without(queue, {t})
    /\ UNCHANGED <<attempts, wait, age>>

\* resumeOne commits: the row is decided, or waits and has to be rescheduled,
\* or has been decided by another worker and is skipped.
Resume(w, t) ==
    /\ phase[w] = "next"
    /\ t \in DOMAIN todo[w]
    /\ Live(w)
    /\ IF status[t] \in Terminal
       THEN Advance(w, t) /\ UNCHANGED rows
       ELSE \E d \in Outcomes(t, todo[w][t]) \ {"ERROR"} :
              /\ Decide(t, d)
              /\ IF d = "PENDING_REFERENCE"
                 THEN /\ phase' = [phase EXCEPT ![w] = "waiting"]
                      /\ cur' = [cur EXCEPT ![w] = t]
                      /\ UNCHANGED <<todo, elapsed>>
                 ELSE Advance(w, t)

\* resumeOne returns an error: counted as failed, and no more is done.  The
\* transaction is rolled back, or it has committed and the answer is lost.
ResumeFails(w, t) ==
    /\ phase[w] = "next"
    /\ t \in DOMAIN todo[w]
    /\ \/ UNCHANGED rows
       \/ /\ Live(w)
          /\ status[t] \notin Terminal
          /\ \E d \in Outcomes(t, todo[w][t]) \ {"ERROR"} : Decide(t, d)
    /\ Advance(w, t)

\* ScheduleRetry: only a row that still waits.
ScheduleRetry(t, time) ==
    IF t \notin Waiting
    THEN UNCHANGED rows
    ELSE /\ wait' = [wait EXCEPT ![t] = time]
         /\ LET others == Without(queue, {t})
            IN queue' \in IF time = 0
                          THEN Placed(others, Due \ {t}, t, {o \in Operations : attempts[o] = 0}, {})
                          ELSE {others}
         /\ UNCHANGED <<status, attempts, age>>

Retry(w) ==
    /\ phase[w] = "waiting"
    /\ Live(w)
    /\ ScheduleRetry(cur[w], TimeLeft(Backoff(todo[w][cur[w]], BackoffMax), elapsed[w]))
    /\ Advance(w, cur[w])

\* ScheduleRetry returns an error, which ends the batch.
Abort(w) ==
    /\ phase[w] = "waiting"
    /\ \/ UNCHANGED rows
       \/ /\ Live(w)
          /\ ScheduleRetry(cur[w], TimeLeft(Backoff(todo[w][cur[w]], BackoffMax), elapsed[w]))
    /\ Release(w)

\* The process dies, or is stopped at the deadline, and starts again.
Crash(w) ==
    /\ phase[w] # "idle"
    /\ Release(w)
    /\ UNCHANGED rows

-----------------------------------------------------------------------------
Tick ==
    /\ wait' = [t \in Operations |-> IF wait[t] > 0 THEN wait[t] - 1 ELSE 0]
    /\ age' = [t \in Operations |-> IF t \in Waiting /\ age[t] < TTL THEN age[t] + 1 ELSE age[t]]
    /\ queue' = Followed(queue, Due, {t \in Waiting : wait[t] = 1})
    /\ elapsed' = [w \in Workers |-> IF phase[w] # "idle" /\ elapsed[w] < Lease
                                     THEN elapsed[w] + 1 ELSE elapsed[w]]
    /\ UNCHANGED <<status, attempts, phase, todo, cur>>

Init ==
    /\ status = [t \in Operations |-> "absent"]
    /\ attempts = [t \in Operations |-> 0]
    /\ wait = [t \in Operations |-> 0]
    /\ age = [t \in Operations |-> 0]
    /\ queue = {}
    /\ phase = [w \in Workers |-> "idle"]
    /\ todo = [w \in Workers |-> [t \in {} |-> 0]]
    /\ cur = [w \in Workers |-> NoOperation]
    /\ elapsed = [w \in Workers |-> 0]

\* What the goroutine of a worker does on its own.
Step(w) ==
    \/ Claim(w) \/ Finish(w) \/ Retry(w) \/ Abort(w)
    \/ \E t \in Operations : Resume(w, t) \/ ResumeFails(w, t)

Next ==
    \/ \E t \in Operations : Submit(t)
    \/ \E w \in Workers : Step(w) \/ LoseClaim(w) \/ Crash(w)
    \/ Tick

Spec == Init /\ [][Next]_vars

\* A step while database and processes work: an operation fails only if its
\* decision does, nothing is lost, and a batch is through before its lease ends.
CalmStep ==
    \/ \E t \in Operations : Submit(t)
    \/ \E w \in Workers :
          \/ Claim(w) \/ Finish(w) \/ Retry(w)
          \/ \E t \in Operations : \/ Resume(w, t)
                                   \/ Decisions(t) = {"ERROR"} /\ ResumeFails(w, t)
    \/ Tick /\ \A w \in Workers : Live(w)'

\* Time passes, each goroutine has its turn, and outages come to an end.
FairSpec ==
    /\ Spec
    /\ WF_vars(Tick)
    /\ \A w \in Workers : WF_vars(Step(w))
    /\ <>[][CalmStep]_vars

-----------------------------------------------------------------------------
(* Properties.                                                             *)

(* What a worker holds is current while its context runs: the row waits,   *)
(* nobody can claim it before the context ends, and the attempts the limit *)
(* and the back-off are computed from (pending.go:84 and 162) are those of *)
(* the row.                                                                *)
WorkIsCurrent ==
    \A w \in Workers : Live(w) =>
       \A t \in DOMAIN todo[w] :
          /\ t \in Waiting
          /\ wait[t] >= Lease - elapsed[w]
          /\ todo[w][t] = attempts[t]

(* However often a row was tried, it is claimable again within the lease   *)
(* or the longest back-off, counted from its last claim: the shift of      *)
(* Backoff (envelope.go:27-44) never puts it off further.                  *)
TriedAgainSoon ==
    \A t \in Waiting : wait[t] <= Lease \/ wait[t] <= Ceiling(BackoffMax)

(* An operation is given up with REFERENCE_NOT_FOUND only when its         *)
(* reference does not decide it at that moment, and the attempts of the    *)
(* row or its time are spent: a reference that arrives before the last     *)
(* attempt still counts.                                                   *)
GivenUpRightly ==
    [][\A t \in Operations : status'[t] = "NOT_FOUND" /\ status[t] # "NOT_FOUND" =>
          /\ Decisions(t) = {"PENDING_REFERENCE"}
          /\ Exhausted(t, attempts[t])]_vars

(* Whatever arrives and whatever fails for a while, a row that waits is    *)
(* decided in the end, unless its decision is an error: also behind rows   *)
(* whose decision is one and that are claimed again and again.             *)
WaitsEnd ==
    \A t \in Operations \ Faulty :
       status[t] = "PENDING_REFERENCE" ~> status[t] # "PENDING_REFERENCE"
=============================================================================
