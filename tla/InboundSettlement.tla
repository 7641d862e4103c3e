------------------------- MODULE InboundSettlement ------------------------
(***************************************************************************)
(* What the inbound channel promises (ADR 0017 and 0018), whatever the     *)
(* queue, the consumers and the database do: a message stays in the queue  *)
(* until its outcome is recorded or it is buried in the dead-letter queue; *)
(* a record and the operation behind it appear in one step; an operation   *)
(* has an identity of its own, whichever channel brought it.               *)
(***************************************************************************)
CONSTANTS
    Numbers,        \* producers number what they send
    Letters,        \* the bodies they may send, [id, ...]
    RequestOf(_),   \* the operation a body asks for, [key, ext, ...]
    CopyOf(_),      \* the identity its copy has in the dead-letter queue
    Posts           \* the operations other channels ask for

VARIABLES
    sent,           \* the messages that were sent
    queued,         \* those that are in the queue
    recorded,       \* the inbox: a body for each messageId that is done
    buried,         \* the identities of the copies in the dead-letter queue
    operations      \* the operations that have taken effect

settlementVars == <<sent, queued, recorded, buried, operations>>

\* A message is a letter with its number.
Envelopes == Numbers \X Letters

Init ==
    /\ sent = {} /\ queued = {} /\ buried = {} /\ operations = {}
    /\ recorded = [i \in {} |-> {}]

Send(m) ==
    /\ m \notin sent
    /\ sent' = sent \cup {m}
    /\ queued' = queued \cup {m}
    /\ UNCHANGED <<recorded, buried, operations>>

Fresh(r) == \A s \in operations : s.key # r.key /\ s.ext # r.ext

\* An operation of another channel.
Post(r) ==
    /\ Fresh(r)
    /\ operations' = operations \cup {r}
    /\ UNCHANGED <<sent, queued, recorded, buried>>

\* The outcome of a message: of a new operation or of one that exists.  The
\* message may already have left the queue, when a consumer was late with it.
Record(m) ==
    LET letter == m[2]
        r == RequestOf(letter)
    IN /\ letter.id \notin DOMAIN recorded
       /\ recorded' = [i \in DOMAIN recorded \cup {letter.id} |->
                          IF i = letter.id THEN letter ELSE recorded[i]]
       /\ \/ Fresh(r) /\ operations' = operations \cup {r}
          \/ /\ \E s \in operations : s.key = r.key /\ s.ext = r.ext
             /\ UNCHANGED operations
       /\ UNCHANGED <<sent, queued, buried>>

Bury(m) ==
    /\ buried' = buried \cup {CopyOf(m[2])}
    /\ UNCHANGED <<sent, queued, recorded, operations>>

\* The queue itself buries and removes a message that was received too often.
Exhaust(m) ==
    /\ m \in queued
    /\ queued' = queued \ {m}
    /\ buried' = buried \cup {CopyOf(m[2])}
    /\ UNCHANGED <<sent, recorded, operations>>

Settled(letter) == letter.id \in DOMAIN recorded /\ recorded[letter.id] = letter

Leave(m) ==
    /\ m \in queued
    /\ Settled(m[2]) \/ CopyOf(m[2]) \in buried
    /\ queued' = queued \ {m}
    /\ UNCHANGED <<sent, recorded, buried, operations>>

Next ==
    \/ \E m \in Envelopes : Send(m)
    \/ \E m \in sent : Record(m) \/ Bury(m) \/ Exhaust(m) \/ Leave(m)
    \/ \E r \in Posts : Post(r)

Safe == Init /\ [][Next]_settlementVars

\* No message stays in the queue for ever.
Live == \A n \in Numbers : (\E m \in queued : m[1] = n) ~> (\A m \in queued : m[1] # n)
=============================================================================
