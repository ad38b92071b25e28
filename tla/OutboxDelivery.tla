--------------------------- MODULE OutboxDelivery ---------------------------
(***************************************************************************)
(* The transactional outbox of the backend and the delivery of approved    *)
(* communications through it (infrastructure/outbox.py).                   *)
(*                                                                         *)
(* A request handler inserts an event in the transaction of the change it  *)
(* announces.  The Celery task "outbox.publish" runs publish_batch: claim  *)
(* a batch under a lock that expires, dispatch its events one at a time,   *)
(* and mark each one published or record its failure.  Every database      *)
(* transaction is one action; a worker may stop between any two of them.   *)
(*                                                                         *)
(* Time is abstract: a claim's locked_until passes (LockExpires) and a     *)
(* retry's next_attempt_at arrives (BackoffElapses) at any moment, so a    *)
(* lock may expire while its holder is still working.                      *)
(***************************************************************************)
EXTENDS Naturals, FiniteSets

CONSTANTS
    Workers,      \* processes that run publish_batch (compose.yml starts one)
    Events,       \* ids of outbox rows
    Comms,        \* ids of communications
    NoComm,       \* the subject of an event that sends no communication
    Types,        \* the event types handlers other than the send gate insert
    MaxAttempts,  \* settings.outbox_max_attempts
    BatchSize,    \* settings.outbox_batch_size
    MaxCrashes    \* bound of the instance: how often workers stop

SendRequested == "CommunicationSendRequested"

ASSUME OutboxAssumption ==
    /\ MaxAttempts \in Nat \ {0}
    /\ BatchSize \in Nat
    /\ MaxCrashes \in Nat
    /\ NoComm \notin Comms
    /\ SendRequested \notin Types

VARIABLES
    row,          \* row[e]: the row e of outbox_events, NoRow before insertion
    deadLetters,  \* outbox_dead_letters: the events that have a row (original_event_id)
    requeued,     \* those whose row has requeued_at
    comm,         \* comm[c]: CommunicationModel.status, "absent" before insertion
    accepted,     \* external: communications whose uuid Feishu has accepted
    step,         \* step[w]: where w stands in publish_batch
    batch,        \* batch[w]: the events w has claimed and not dispatched yet
    current,      \* current[w]: the claimed event w is dispatching
    crashes       \* number of worker stops so far

vars == <<row, deadLetters, requeued, comm, accepted,
          step, batch, current, crashes>>

local == <<step, batch, current>>

-----------------------------------------------------------------------------
(* Rows, claims and the registry of handlers *)

CommStatus ==
    {"absent", "queued", "sending", "sent", "unknown", "failed", "dead_letter"}

Row == [inserted : BOOLEAN, type : Types \cup {SendRequested},
        subject : Comms \cup {NoComm}, published : BOOLEAN, dead : BOOLEAN,
        attempts : 0..MaxAttempts, lock : {"free", "held", "expired"},
        waiting : BOOLEAN]

NewRow(type, subject) ==
    [inserted |-> TRUE, type |-> type, subject |-> subject,
     published |-> FALSE, dead |-> FALSE, attempts |-> 0, lock |-> "free",
     waiting |-> FALSE]

NoRow == [NewRow(SendRequested, NoComm) EXCEPT !.inserted = FALSE]

\* A ClaimedOutboxEvent: the row's id and the attempts read under the claim.
Claim == [event : Events, attempts : 0..(MaxAttempts - 1)]

Step == {"ready", "calling", "answered", "raised", "publishing", "failing"}

NoClaim == [event |-> NoComm, attempts |-> 0]

\* The events whose dispatch hands a task to Celery, and those only logged.
TaskTypes ==
    {"FeishuMessageAnalysisRequested", "DocumentExtractionRequested",
     "CodexSetupCheckRequested", "LegalButlerRequested",
     "LegalAgentStepRerunRequested", "LegalAgentRecoveryRequested"}

NotificationTypes ==
    {"FeishuMessageReceived", "FeishuMessageAttachmentsPending",
     "LegalMatterCreated", "MessageCandidateCreated",
     "MessageCandidateResolved", "WorkItemCreated", "ReviewPackageCreated",
     "ReviewPackageReviewed", "DeadlineCreated", "WorkItemDependencyCreated",
     "WorkItemPriorityConfirmed"}

OUTBOX_HANDLERS == {SendRequested} \cup TaskTypes \cup NotificationTypes

-----------------------------------------------------------------------------
Init ==
    /\ row = [e \in Events |-> NoRow]
    /\ deadLetters = {}
    /\ requeued = {}
    /\ comm = [c \in Comms |-> "absent"]
    /\ accepted = {}
    /\ step = [w \in Workers |-> "ready"]
    /\ batch = [w \in Workers |-> {}]
    /\ current = [w \in Workers |-> NoClaim]
    /\ crashes = 0

-----------------------------------------------------------------------------
(* Request handlers *)

\* QueueCommunicationHandler: communication and event in one transaction.
QueueCommunication(c, e) ==
    /\ comm[c] = "absent"
    /\ ~row[e].inserted
    /\ comm' = [comm EXCEPT ![c] = "queued"]
    /\ row' = [row EXCEPT ![e] = NewRow(SendRequested, c)]
    /\ UNCHANGED <<deadLetters, requeued, accepted, crashes, local>>

\* uow.outbox_events.add of any other handler.
AddEvent(e, type) ==
    /\ ~row[e].inserted
    /\ row' = [row EXCEPT ![e] = NewRow(type, NoComm)]
    /\ UNCHANGED <<deadLetters, requeued, comm, accepted, crashes, local>>

\* Mutant: a dead letter is requeued as often as it is asked for.
MayRequeueMut(d) == TRUE

MayRequeue(d) == d \notin requeued

\* requeue_dead_letter of the dead letter of d; a replay of the same idempotency
\* key, or a second request, changes nothing.
RequeueDeadLetter(d, e) ==
    /\ d \in deadLetters
    /\ MayRequeue(d)
    /\ ~row[e].inserted
    /\ row' = [row EXCEPT ![e] = NewRow(row[d].type, row[d].subject)]
    /\ requeued' = requeued \cup {d}
    /\ UNCHANGED <<deadLetters, comm, accepted, crashes, local>>

-----------------------------------------------------------------------------
(* publish_batch *)

Open(e) == row[e].inserted /\ ~row[e].published /\ ~row[e].dead

\* Mutant: the claim query does not look at dead_lettered_at.
ClaimableMut(e) ==
    /\ row[e].inserted /\ ~row[e].published
    /\ ~row[e].waiting /\ row[e].lock # "held"

Claimable(e) == Open(e) /\ ~row[e].waiting /\ row[e].lock # "held"

\* Mutant: the event is acknowledged when it is claimed.
ClaimedRowMut(r) == [r EXCEPT !.published = TRUE]

ClaimedRow(r) == [r EXCEPT !.lock = "held"]

\* _claim_batch.  Rows another transaction has locked are skipped, so any part
\* of the claimable events may be what is claimed.
ClaimBatch(w) ==
    /\ step[w] = "ready" /\ batch[w] = {}
    /\ \E S \in SUBSET {e \in Events : Claimable(e)} :
         /\ S # {} /\ Cardinality(S) <= BatchSize
         /\ batch' = [batch EXCEPT ![w] =
                        {[event |-> e, attempts |-> row[e].attempts] : e \in S}]
         /\ row' = [e \in Events |->
                      IF e \in S THEN ClaimedRow(row[e]) ELSE row[e]]
    /\ UNCHANGED <<deadLetters, requeued, comm, accepted, step, current, crashes>>

\* The next event of the batch reaches its handler, which leaves w at s.
Begin(w, k, s) ==
    /\ step[w] = "ready" /\ k \in batch[w]
    /\ batch' = [batch EXCEPT ![w] = @ \ {k}]
    /\ current' = [current EXCEPT ![w] = k]
    /\ step' = [step EXCEPT ![w] = s]

Sendable == {"queued", "failed", "unknown"}

\* _mark_communication_sending moves the communication to SENDING before the
\* request; one already SENT is skipped.  Any other status is an error, and the
\* transaction may fail whatever the status.
BeginSend(w, k) ==
    LET c == row[k.event].subject
    IN  /\ row[k.event].type = SendRequested
        /\ \/ /\ comm[c] = "sent"
              /\ Begin(w, k, "publishing")
              /\ UNCHANGED comm
           \/ /\ comm[c] \in Sendable
              /\ comm' = [comm EXCEPT ![c] = "sending"]
              /\ Begin(w, k, "calling")
           \/ /\ Begin(w, k, "failing")
              /\ UNCHANGED comm
        /\ UNCHANGED <<row, deadLetters, requeued, accepted, crashes>>

\* Every other handler: a task is sent or the event logged, the broker or the
\* database refuses, or no handler is registered for the type.
BeginOther(w, k) ==
    /\ row[k.event].type # SendRequested
    /\ \/ row[k.event].type \in OUTBOX_HANDLERS /\ Begin(w, k, "publishing")
       \/ row[k.event].type \notin NotificationTypes /\ Begin(w, k, "failing")
    /\ UNCHANGED <<row, deadLetters, requeued, comm, accepted, crashes>>

Goto(w, s) == step' = [step EXCEPT ![w] = s] /\ UNCHANGED <<batch, current>>

Subject(w) == row[current[w].event].subject

\* send_communication.  Feishu accepts a uuid once however often it is posted;
\* the answer may be lost after it was accepted.
CallAccepted(w) ==
    /\ step[w] = "calling"
    /\ accepted' = accepted \cup {Subject(w)}
    /\ \/ Goto(w, "answered")
       \/ Goto(w, "raised")
    /\ UNCHANGED <<row, deadLetters, requeued, comm, crashes>>

\* Mutant: the error answer is taken for a message id.
CallRefusedMut(w) ==
    /\ step[w] = "calling"
    /\ Goto(w, "answered")
    /\ UNCHANGED <<row, deadLetters, requeued, comm, accepted, crashes>>

CallRefused(w) ==
    /\ step[w] = "calling"
    /\ Goto(w, "raised")
    /\ UNCHANGED <<row, deadLetters, requeued, comm, accepted, crashes>>

\* _mark_communication_sent, or its failure, which publish_batch records
\* without touching the communication.
MarkSent(w) ==
    /\ step[w] = "answered"
    /\ \/ /\ comm' = [comm EXCEPT ![Subject(w)] = "sent"]
          /\ Goto(w, "publishing")
       \/ /\ Goto(w, "failing")
          /\ UNCHANGED comm
    /\ UNCHANGED <<row, deadLetters, requeued, accepted, crashes>>

StatusAfterError(s) == IF s = "sent" THEN s ELSE "failed"

\* _mark_communication_failed, then the exception is raised again; if that
\* transaction fails, its own exception is raised instead.
MarkFailed(w) ==
    /\ step[w] = "raised"
    /\ \/ comm' = [comm EXCEPT ![Subject(w)] = StatusAfterError(@)]
       \/ UNCHANGED comm
    /\ Goto(w, "failing")
    /\ UNCHANGED <<row, deadLetters, requeued, accepted, crashes>>

Finish(w) ==
    /\ step' = [step EXCEPT ![w] = "ready"]
    /\ current' = [current EXCEPT ![w] = NoClaim]
    /\ UNCHANGED batch

MarkPublished(w) ==
    /\ step[w] = "publishing"
    /\ row' = [row EXCEPT ![current[w].event] =
                 [@ EXCEPT !.published = TRUE, !.lock = "free"]]
    /\ Finish(w)
    /\ UNCHANGED <<deadLetters, requeued, comm, accepted, crashes>>

\* Mutants: no limit on attempts; the attempts are not written back.
FailedMutUnbounded(r, k) ==
    [r EXCEPT !.attempts = k.attempts + 1, !.lock = "free", !.waiting = TRUE]

FailedMutUncounted(r, k) == [r EXCEPT !.lock = "free", !.waiting = TRUE]

\* The row after a failed attempt of the claim k: the attempt after the one the
\* claim was made at, whatever the row says by now.
Failed(r, k) ==
    LET n == k.attempts + 1
    IN  [r EXCEPT !.attempts = n, !.lock = "free", !.waiting = n < MaxAttempts,
                  !.dead = @ \/ n >= MaxAttempts]

SettledByAnother(e) == row[e].published

\* Mutant: the communication is left as it is when its event is dead-lettered.
BuriedCommMut(c) == comm

\* The communication table after the event that carries c is dead-lettered.
BuriedComm(c) ==
    IF c \in Comms THEN [comm EXCEPT ![c] = "dead_letter"] ELSE comm

\* publish_batch ends with what it claimed still locked.
Leave(w) ==
    /\ step' = [step EXCEPT ![w] = "ready"]
    /\ batch' = [batch EXCEPT ![w] = {}]
    /\ current' = [current EXCEPT ![w] = NoClaim]

LastAttempt(k) == k.attempts + 1 >= MaxAttempts

\* _record_failure.  original_event_id is unique: a second dead letter of an event
\* is refused, the transaction rolls back and publish_batch raises.
RecordFailure(w) ==
    LET k == current[w]
        e == k.event
    IN  /\ step[w] = "failing"
        /\ \/ /\ SettledByAnother(e)
              /\ Finish(w)
              /\ UNCHANGED <<row, deadLetters, comm>>
           \/ /\ ~SettledByAnother(e) /\ ~LastAttempt(k)
              /\ row' = [row EXCEPT ![e] = Failed(@, k)]
              /\ Finish(w)
              /\ UNCHANGED <<deadLetters, comm>>
           \/ /\ ~SettledByAnother(e) /\ LastAttempt(k) /\ e \notin deadLetters
              /\ row' = [row EXCEPT ![e] = Failed(@, k)]
              /\ deadLetters' = deadLetters \cup {e}
              /\ comm' = BuriedComm(row[e].subject)
              /\ Finish(w)
           \/ /\ ~SettledByAnother(e) /\ LastAttempt(k) /\ e \in deadLetters
              /\ Leave(w)
              /\ UNCHANGED <<row, deadLetters, comm>>
        /\ UNCHANGED <<requeued, accepted, crashes>>

-----------------------------------------------------------------------------
(* Time and failure *)

LockExpires(e) ==
    /\ row[e].lock = "held"
    /\ row' = [row EXCEPT ![e].lock = "expired"]
    /\ UNCHANGED <<deadLetters, requeued, comm, accepted, crashes, local>>

BackoffElapses(e) ==
    /\ row[e].waiting
    /\ row' = [row EXCEPT ![e].waiting = FALSE]
    /\ UNCHANGED <<deadLetters, requeued, comm, accepted, crashes, local>>

\* The process ends, or a transaction of _mark_published or _record_failure
\* raises and publish_batch with it: what was claimed stays locked.
Crash(w) ==
    /\ crashes < MaxCrashes
    /\ step[w] # "ready" \/ batch[w] # {}
    /\ Leave(w)
    /\ crashes' = crashes + 1
    /\ UNCHANGED <<row, deadLetters, requeued, comm, accepted>>

-----------------------------------------------------------------------------
Begins(w) == \E k \in batch[w] : BeginSend(w, k) \/ BeginOther(w, k)

Works(w) ==
    \/ ClaimBatch(w)
    \/ Begins(w)
    \/ CallAccepted(w)
    \/ CallRefused(w)
    \/ MarkSent(w)
    \/ MarkFailed(w)
    \/ MarkPublished(w)
    \/ RecordFailure(w)

\* What happens to the events once they are inserted.
Dispatch ==
    \/ \E d \in deadLetters, e \in Events : RequeueDeadLetter(d, e)
    \/ \E w \in Workers : Works(w) \/ Crash(w)
    \/ \E e \in Events : LockExpires(e) \/ BackoffElapses(e)

Next ==
    \/ \E c \in Comms, e \in Events : QueueCommunication(c, e)
    \/ \E e \in Events, type \in Types : AddEvent(e, type)
    \/ Dispatch

\* The beat schedule starts outbox.publish every five seconds and the worker
\* finishes what it starts; time passes.
Fairness ==
    /\ \A w \in Workers : WF_vars(Works(w))
    /\ \A e \in Events : WF_vars(LockExpires(e)) /\ WF_vars(BackoffElapses(e))

Spec == Init /\ [][Next]_vars /\ Fairness
-----------------------------------------------------------------------------
(* Properties of any number of workers *)

\* Every table and every local variable of publish_batch has its type.
TypeOK ==
    /\ row \in [Events -> Row]
    /\ deadLetters \subseteq Events
    /\ requeued \subseteq deadLetters
    /\ comm \in [Comms -> CommStatus]
    /\ accepted \subseteq Comms
    /\ step \in [Workers -> Step]
    /\ batch \in [Workers -> SUBSET Claim]
    /\ current \in [Workers -> Claim \cup {NoClaim}]
    /\ crashes \in 0..MaxCrashes

\* A queued communication is carried by an event that will still be claimed:
\* nothing publishes or dead-letters its last event and leaves it queued.
QueuedHasCarrier ==
    \A c \in Comms : comm[c] = "queued" =>
        \E e \in Events : Open(e) /\ row[e].subject = c

\* A communication recorded as sent was accepted by Feishu, whichever attempt
\* and whichever worker recorded it.
SentWasAccepted == \A c \in Comms : comm[c] = "sent" => c \in accepted

Carriers(c) == {e \in Events : row[e].inserted /\ row[e].subject = c}

\* A communication has the event of its request and one more for every dead
\* letter of it that was requeued, however often a requeue is asked for.
OneCarrierPerRequest ==
    \A c \in Comms :
        Cardinality(Carriers(c))
            <= 1 + Cardinality({d \in requeued : row[d].subject = c})

\* The late failure of a worker that lost its claim leaves an event that another
\* worker published as it is: no attempt is counted, nothing is dead-lettered.
PublishedIsFinal ==
    [][\A e \in Events : row[e].published =>
          /\ row'[e].published
          /\ row'[e].attempts = row[e].attempts
          /\ row'[e].dead = row[e].dead]_vars

\* A communication recorded as sent is not sent again: no late error of another
\* attempt takes it back to a status a send starts from.
SentIsNotReopened ==
    [][\A c \in Comms :
          comm[c] = "sent" => comm'[c] \in {"sent", "dead_letter"}]_vars

\* Every event is published or dead-lettered in the end, although workers stop,
\* claims expire under their holders and stale failures rewrite the attempts.
EveryEventSettles ==
    \A e \in Events :
        row[e].inserted ~> (row[e].published \/ row[e].dead)

-----------------------------------------------------------------------------
(* Properties of the deployment of compose.yml, one worker with --concurrency=1 *)

\* A communication that is on its way has an event that will be claimed again:
\* a stop in the middle of a send cannot strand it.
InFlightHasCarrier ==
    \A c \in Comms : comm[c] \in {"queued", "sending", "failed", "unknown"} =>
        \E e \in Events : Open(e) /\ row[e].subject = c

\* An event is published or dead-lettered, never both, it has a dead letter exactly
\* if it is dead-lettered, and no worker is about to fail for an event that has
\* one: the unique key of outbox_dead_letters never refuses a second dead letter,
\* which would end publish_batch in the middle of its batch.
OneOutcome ==
    /\ \A e \in Events : /\ ~(row[e].published /\ row[e].dead)
                         /\ row[e].dead <=> e \in deadLetters
    /\ \A w \in Workers : step[w] = "failing" => current[w].event \notin deadLetters

\* Once dead-lettered, a communication stays so: the event a requeue inserts
\* cannot send it, for DEAD_LETTER is no status a send starts from.
DeadLetterIsFinal ==
    [][\A c \in Comms : comm[c] = "dead_letter" => comm'[c] = "dead_letter"]_vars

\* Every queued communication is sent or dead-lettered in the end.
EveryCommunicationSettles ==
    \A c \in Comms :
        comm[c] = "queued" ~> comm[c] \in {"sent", "dead_letter"}

-----------------------------------------------------------------------------
(* What the documents say *)

\* docs/design/DATA_MODEL.md 4.6: no transition leaves sent.
SentIsFinal == [][\A c \in Comms : comm[c] = "sent" => comm'[c] = "sent"]_vars
=============================================================================
