----------------------------- MODULE DeliveryProofs -----------------------------
(***************************************************************************)
(* Safety of the outbox for every set of workers, events and               *)
(* communications and every bound on attempts, and what one worker adds;   *)
(* then the review gate in front of it: together they implement            *)
(* ApprovedDelivery, for any number of packages and of outbox processes.   *)
(***************************************************************************)
EXTENDS ReviewedCommunication, FiniteSetTheorems, TLAPS

-----------------------------------------------------------------------------
(* The inductive invariants *)

\* An inserted send event names a communication that exists; the subject of any
\* other event is none.
RowsAreSound ==
    \A e \in Events : row[e].inserted =>
        IF row[e].type = SendRequested
          THEN row[e].subject \in Comms /\ comm[row[e].subject] # "absent"
          ELSE row[e].subject = NoComm

\* An event whose attempts are used up is dead-lettered.
OpenHasAttemptsLeft ==
    \A e \in Events : ~row[e].dead => row[e].attempts < MaxAttempts

\* Only inserted events are published.
PublishedWasInserted ==
    \A e \in Events : row[e].published => row[e].inserted

\* Only inserted events are claimed and dead-lettered.
ClaimsAreInserted ==
    /\ \A w \in Workers : \A k \in batch[w] : row[k.event].inserted
    /\ \A w \in Workers : step[w] # "ready" =>
          current[w] \in Claim /\ row[current[w].event].inserted
    /\ \A d \in deadLetters : row[d].inserted

Posting == {"calling", "answered", "raised"}

\* A worker inside send_communication, or about to publish a send event, has
\* taken the communication out of the queue; once "answered", Feishu has it.
SendsAreUnderWay ==
    \A w \in Workers :
        /\ step[w] \in Posting => row[current[w].event].type = SendRequested
        /\ step[w] \in Posting \cup {"publishing"}
             /\ row[current[w].event].type = SendRequested =>
               comm[Subject(w)] \notin {"absent", "queued"}
        /\ step[w] = "answered" => Subject(w) \in accepted

IInv ==
    /\ TypeOK
    /\ OpenHasAttemptsLeft
    /\ PublishedWasInserted
    /\ RowsAreSound
    /\ ClaimsAreInserted
    /\ SendsAreUnderWay
    /\ QueuedHasCarrier
    /\ SentWasAccepted

-----------------------------------------------------------------------------
(* One worker *)

SingleWorker == \A v, w \in Workers : v = w

\* The claims of the worker are open events, each claimed once.
ClaimsAreOpen ==
    \A w \in Workers :
        /\ \A k \in batch[w] : Open(k.event)
        /\ \A k, l \in batch[w] : k.event = l.event => k = l
        /\ step[w] # "ready" =>
             /\ Open(current[w].event)
             /\ \A k \in batch[w] : k.event # current[w].event

\* What the status of a communication is while its event is dispatched.
StatusFollowsStep ==
    \A w \in Workers :
        /\ step[w] \in Posting => comm[Subject(w)] = "sending"
        /\ step[w] = "publishing" /\ row[current[w].event].type = SendRequested =>
             comm[Subject(w)] = "sent"

SoloInv ==
    /\ IInv
    /\ ClaimsAreOpen
    /\ StatusFollowsStep
    /\ InFlightHasCarrier
    /\ OneOutcome

-----------------------------------------------------------------------------
(* Type correctness *)

\* A freshly inserted event is a row of the table.
LEMMA NewRowIsRow ==
    ASSUME NEW type \in Types \cup {SendRequested},
           NEW subject \in Comms \cup {NoComm}
    PROVE  NewRow(type, subject) \in Row
  BY OutboxAssumption DEF NewRow, Row

\* The empty tables and idle workers have their types.
LEMMA InitTypeOK == Init => TypeOK
<1>. SUFFICES ASSUME Init PROVE TypeOK
  OBVIOUS
<1>1. NoRow \in Row
  <2>1. NewRow(SendRequested, NoComm) \in Row
    BY NewRowIsRow
  <2>. QED  BY <2>1 DEF NoRow, Row
<1>2. crashes \in 0..MaxCrashes
  BY OutboxAssumption DEF Init
<1>. QED  BY <1>1, <1>2 DEF Init, TypeOK, CommStatus, Step

\* Taking an event of the batch to its handler keeps the local state typed.
LEMMA BeginTypeOK ==
    ASSUME TypeOK, NEW w \in Workers, NEW k, NEW s \in Step, Begin(w, k, s)
    PROVE  /\ step' \in [Workers -> Step]
           /\ batch' \in [Workers -> SUBSET Claim]
           /\ current' \in [Workers -> Claim \cup {NoClaim}]
           /\ k \in Claim
  BY DEF TypeOK, Begin

\* Ending the dispatch of an event keeps the local state typed.
LEMMA FinishTypeOK ==
    ASSUME TypeOK, NEW w \in Workers, Finish(w)
    PROVE  /\ step' \in [Workers -> Step]
           /\ batch' \in [Workers -> SUBSET Claim]
           /\ current' \in [Workers -> Claim \cup {NoClaim}]
  BY DEF TypeOK, Finish, Step

\* The row a failed attempt writes is a row: its attempts stay within the limit.
LEMMA FailedIsRow ==
    ASSUME NEW r \in Row, NEW k \in Claim
    PROVE  Failed(r, k) \in Row
<1>. DEFINE n == k.attempts + 1
<1>1. n \in 0..MaxAttempts
  BY OutboxAssumption DEF Claim
<1>2. (n < MaxAttempts) \in BOOLEAN /\ (r.dead \/ n >= MaxAttempts) \in BOOLEAN
  OBVIOUS
<1>. HIDE DEF n
<1>3. [r EXCEPT !.attempts = n, !.lock = "free", !.waiting = n < MaxAttempts,
                !.dead = @ \/ n >= MaxAttempts] \in Row
  BY <1>1, <1>2 DEF Row
<1>. QED  BY <1>3 DEF Failed, n

\* Every transaction of the handlers and of publish_batch preserves the types.
LEMMA StepTypeOK ==
    ASSUME IInv, [Next]_vars
    PROVE  TypeOK'
<1>. USE OutboxAssumption DEF IInv
<1>1. ASSUME NEW c \in Comms, NEW e \in Events, QueueCommunication(c, e)
      PROVE  TypeOK'
  BY <1>1, NewRowIsRow DEF QueueCommunication, TypeOK, CommStatus, local
<1>2. ASSUME NEW e \in Events, NEW type \in Types, AddEvent(e, type)
      PROVE  TypeOK'
  BY <1>2, NewRowIsRow DEF AddEvent, TypeOK, local
<1>3. ASSUME NEW d \in deadLetters, NEW e \in Events, RequeueDeadLetter(d, e)
      PROVE  TypeOK'
  <2>1. d \in Events
    BY DEF TypeOK
  <2>2. NewRow(row[d].type, row[d].subject) \in Row
    BY <2>1, NewRowIsRow DEF TypeOK, Row
  <2>. QED  BY <1>3, <2>2 DEF RequeueDeadLetter, TypeOK, local
<1>4. ASSUME NEW w \in Workers, ClaimBatch(w)
      PROVE  TypeOK'
  <2>1. PICK S \in SUBSET {e \in Events : Claimable(e)} :
           /\ batch' = [batch EXCEPT ![w] =
                          {[event |-> e, attempts |-> row[e].attempts] : e \in S}]
           /\ row' = [e \in Events |->
                        IF e \in S THEN ClaimedRow(row[e]) ELSE row[e]]
    BY <1>4 DEF ClaimBatch
  <2>2. row' \in [Events -> Row]
    BY <2>1 DEF TypeOK, Row, ClaimedRow
  <2>3. \A e \in S : row[e].attempts \in 0..(MaxAttempts - 1)
    BY DEF TypeOK, Row, Claimable, Open, OpenHasAttemptsLeft
  <2>4. \A e \in S : [event |-> e, attempts |-> row[e].attempts] \in Claim
    BY <2>3 DEF Claim
  <2>5. {[event |-> e, attempts |-> row[e].attempts] : e \in S} \subseteq Claim
    BY <2>4
  <2>. QED  BY <2>1, <2>2, <2>5, <1>4 DEF ClaimBatch, TypeOK
<1>5. ASSUME NEW w \in Workers, NEW k \in batch[w], BeginSend(w, k)
      PROVE  TypeOK'
  <2>1. \E s \in Step : Begin(w, k, s)
    BY <1>5 DEF BeginSend, Step
  <2>2. comm' \in [Comms -> CommStatus]
    BY <1>5 DEF BeginSend, TypeOK, CommStatus
  <2>. QED  BY <1>5, <2>1, <2>2, BeginTypeOK DEF BeginSend, TypeOK
<1>6. ASSUME NEW w \in Workers, NEW k \in batch[w], BeginOther(w, k)
      PROVE  TypeOK'
  <2>1. \E s \in Step : Begin(w, k, s)
    BY <1>6 DEF BeginOther, Step
  <2>. QED  BY <1>6, <2>1, BeginTypeOK DEF BeginOther, TypeOK
<1>7. ASSUME NEW w \in Workers, CallAccepted(w) \/ CallRefused(w)
      PROVE  TypeOK'
  <2>1. step[w] = "calling"
    BY <1>7 DEF CallAccepted, CallRefused
  <2>2. Subject(w) \in Comms
    BY <2>1 DEF SendsAreUnderWay, Posting, ClaimsAreInserted, RowsAreSound,
                Subject, Claim
  <2>. QED  BY <1>7, <2>2 DEF CallAccepted, CallRefused, Goto, TypeOK, Step
<1>8. ASSUME NEW w \in Workers, MarkSent(w) \/ MarkFailed(w)
      PROVE  TypeOK'
  BY <1>8 DEF MarkSent, MarkFailed, StatusAfterError, Goto, TypeOK, Step, CommStatus
<1>9. ASSUME NEW w \in Workers, MarkPublished(w)
      PROVE  TypeOK'
  <2>0. current[w].event \in Events
    BY <1>9 DEF MarkPublished, ClaimsAreInserted, Claim
  <2>1. \A r \in Row : [r EXCEPT !.published = TRUE, !.lock = "free"] \in Row
    BY DEF Row
  <2>2. row' \in [Events -> Row]
    BY <1>9, <2>0, <2>1 DEF MarkPublished, TypeOK
  <2>. QED  BY <1>9, <2>2, FinishTypeOK DEF MarkPublished, TypeOK
<1>10. ASSUME NEW w \in Workers, RecordFailure(w)
       PROVE  TypeOK'
  <2>1. current[w] \in Claim /\ current[w].event \in Events
    BY <1>10 DEF ClaimsAreInserted, RecordFailure, Claim
  <2>2. row[current[w].event] \in Row
    BY <2>1 DEF TypeOK
  <2>3. Failed(row[current[w].event], current[w]) \in Row
    BY <2>1, <2>2, FailedIsRow
  <2>4. row' \in [Events -> Row]
    BY <1>10, <2>3 DEF RecordFailure, TypeOK
  <2>5. comm' \in [Comms -> CommStatus]
    BY <1>10 DEF RecordFailure, BuriedComm, TypeOK, CommStatus
  <2>6. deadLetters' \subseteq Events /\ deadLetters \subseteq deadLetters'
    BY <1>10, <2>1 DEF RecordFailure, TypeOK
  <2>7. /\ step' \in [Workers -> Step]
        /\ batch' \in [Workers -> SUBSET Claim]
        /\ current' \in [Workers -> Claim \cup {NoClaim}]
    BY <1>10, FinishTypeOK DEF RecordFailure, Leave, TypeOK, Step
  <2>. QED  BY <1>10, <2>4, <2>5, <2>6, <2>7 DEF RecordFailure, TypeOK
<1>11. ASSUME NEW w \in Workers, Crash(w)
       PROVE  TypeOK'
  BY <1>11 DEF Crash, Leave, TypeOK, Step
<1>12. ASSUME NEW e \in Events, LockExpires(e) \/ BackoffElapses(e)
       PROVE  TypeOK'
  <2>0. row[e] \in Row
    BY DEF TypeOK
  <2>1. [row[e] EXCEPT !.lock = "expired"] \in Row
    BY <2>0 DEF Row
  <2>2. [row[e] EXCEPT !.waiting = FALSE] \in Row
    BY <2>0 DEF Row
  <2>3. row' \in [Events -> Row]
    BY <1>12, <2>1, <2>2 DEF LockExpires, BackoffElapses, TypeOK
  <2>. QED  BY <1>12, <2>3 DEF LockExpires, BackoffElapses, TypeOK, local
<1>13. CASE UNCHANGED vars
  BY <1>13 DEF vars, TypeOK
<1>. QED
  BY <1>1, <1>2, <1>3, <1>4, <1>5, <1>6, <1>7, <1>8, <1>9, <1>10, <1>11, <1>12, <1>13
  DEF Next, Dispatch, Works, Begins

-----------------------------------------------------------------------------
(* The other conjuncts of the invariant *)

\* The invariant holds of the empty tables.
LEMMA InitIInv == Init => IInv
<1>. SUFFICES ASSUME Init PROVE IInv
  OBVIOUS
<1>1. TypeOK
  BY InitTypeOK
<1>2. \A e \in Events :
          ~row[e].inserted /\ ~row[e].published /\ row[e].attempts = 0
  BY DEF Init, NoRow, NewRow
<1>3. OpenHasAttemptsLeft /\ PublishedWasInserted
  BY <1>2, OutboxAssumption DEF OpenHasAttemptsLeft, PublishedWasInserted
<1>4. RowsAreSound
  BY <1>2 DEF RowsAreSound
<1>5. ClaimsAreInserted
  BY DEF Init, ClaimsAreInserted
<1>6. SendsAreUnderWay
  BY DEF Init, SendsAreUnderWay, Posting
<1>7. QueuedHasCarrier /\ SentWasAccepted
  BY DEF Init, QueuedHasCarrier, SentWasAccepted
<1>. QED  BY <1>1, <1>3, <1>4, <1>5, <1>6, <1>7 DEF IInv

\* What one step does to the row of e.
RowStep(e) ==
    \/ row'[e] \in {row[e], [row[e] EXCEPT !.lock = "held"],
                    [row[e] EXCEPT !.lock = "expired"],
                    [row[e] EXCEPT !.waiting = FALSE]}
    \/ /\ ~row[e].inserted
       /\ \/ \E c \in Comms : QueueCommunication(c, e)
          \/ \E type \in Types : AddEvent(e, type)
          \/ \E d \in deadLetters : RequeueDeadLetter(d, e)
    \/ \E w \in Workers :
         /\ MarkPublished(w) /\ current[w].event = e
         /\ row'[e] = [row[e] EXCEPT !.published = TRUE, !.lock = "free"]
    \/ \E w \in Workers :
         /\ RecordFailure(w) /\ current[w].event = e
         /\ row'[e] = Failed(row[e], current[w])

\* Every step does one of the listed things to a row.
LEMMA EveryRowStep ==
    ASSUME IInv, [Next]_vars, NEW e \in Events
    PROVE  RowStep(e)
<1>. USE DEF IInv
<1>0. row \in [Events -> Row]
  BY DEF TypeOK
<1>1. ASSUME NEW f \in Events,
             \/ \E c \in Comms : QueueCommunication(c, f)
             \/ \E type \in Types : AddEvent(f, type)
             \/ \E d \in deadLetters : RequeueDeadLetter(d, f)
      PROVE  RowStep(e)
  <2>1. ~row[f].inserted
    BY <1>1 DEF QueueCommunication, AddEvent, RequeueDeadLetter
  <2>2. CASE f = e
    BY <1>1, <2>1, <2>2 DEF RowStep
  <2>3. CASE f # e
    <3>1. row'[e] = row[e]
      BY <1>1, <1>0, <2>3 DEF QueueCommunication, AddEvent, RequeueDeadLetter
    <3>. QED  BY <3>1 DEF RowStep
  <2>. QED  BY <2>2, <2>3
<1>2. ASSUME NEW w \in Workers, ClaimBatch(w)
      PROVE  RowStep(e)
  <2>1. row'[e] = row[e] \/ row'[e] = [row[e] EXCEPT !.lock = "held"]
    BY <1>2, <1>0 DEF ClaimBatch, ClaimedRow
  <2>. QED  BY <2>1 DEF RowStep
<1>3. ASSUME NEW w \in Workers,
             \/ Begins(w) \/ CallAccepted(w) \/ CallRefused(w)
             \/ MarkSent(w) \/ MarkFailed(w) \/ Crash(w)
      PROVE  RowStep(e)
  <2>1. row' = row
    BY <1>3 DEF Begins, BeginSend, BeginOther, CallAccepted, CallRefused, MarkSent,
                MarkFailed, Crash
  <2>. QED  BY <2>1 DEF RowStep
<1>4. ASSUME NEW w \in Workers, MarkPublished(w)
      PROVE  RowStep(e)
  <2>1. CASE current[w].event = e
    BY <1>4, <1>0, <2>1 DEF MarkPublished, RowStep
  <2>2. CASE current[w].event # e
    BY <1>4, <1>0, <2>2 DEF MarkPublished, RowStep
  <2>. QED  BY <2>1, <2>2
<1>5. ASSUME NEW w \in Workers, RecordFailure(w)
      PROVE  RowStep(e)
  <2>1. \/ row' = row
        \/ row' = [row EXCEPT ![current[w].event] = Failed(@, current[w])]
    BY <1>5 DEF RecordFailure
  <2>2. CASE row' = row
    BY <2>2 DEF RowStep
  <2>3. CASE /\ row' = [row EXCEPT ![current[w].event] = Failed(@, current[w])]
             /\ current[w].event = e
    <3>1. row'[e] = Failed(row[e], current[w])
      BY <1>0, <2>3
    <3>. QED  BY <1>5, <2>3, <3>1 DEF RowStep
  <2>4. CASE /\ row' = [row EXCEPT ![current[w].event] = Failed(@, current[w])]
             /\ current[w].event # e
    <3>1. row'[e] = row[e]
      BY <1>0, <2>4
    <3>. QED  BY <3>1 DEF RowStep
  <2>. QED  BY <2>1, <2>2, <2>3, <2>4
<1>6. ASSUME NEW f \in Events, LockExpires(f) \/ BackoffElapses(f)
      PROVE  RowStep(e)
  <2>1. row'[e] \in {row[e], [row[e] EXCEPT !.lock = "expired"],
                     [row[e] EXCEPT !.waiting = FALSE]}
    BY <1>6, <1>0 DEF LockExpires, BackoffElapses
  <2>. QED  BY <2>1 DEF RowStep
<1>7. CASE UNCHANGED vars
  BY <1>7 DEF vars, RowStep
<1>. QED
  BY <1>1, <1>2, <1>3, <1>4, <1>5, <1>6, <1>7 DEF Next, Dispatch, Works

\* An inserted row keeps its type and its subject.
LEMMA RowsKeepIdentity ==
    ASSUME IInv, [Next]_vars, NEW e \in Events, row[e].inserted
    PROVE  /\ row'[e].inserted
           /\ row'[e].type = row[e].type
           /\ row'[e].subject = row[e].subject
<1>1. row[e] \in Row
  BY DEF IInv, TypeOK
<1>2. \/ row'[e] \in {row[e], [row[e] EXCEPT !.lock = "held"],
                      [row[e] EXCEPT !.lock = "expired"],
                      [row[e] EXCEPT !.waiting = FALSE]}
      \/ row'[e] = [row[e] EXCEPT !.published = TRUE, !.lock = "free"]
      \/ \E w \in Workers : row'[e] = Failed(row[e], current[w])
  BY EveryRowStep DEF RowStep
<1>. QED  BY <1>1, <1>2 DEF Failed, Row

\* What one step does to the communication c.
CommStep(c) ==
    \/ comm'[c] = comm[c]
    \/ /\ comm[c] = "absent" /\ comm'[c] = "queued"
       /\ \E e \in Events : QueueCommunication(c, e)
    \/ \E w \in Workers : \E k \in batch[w] :
         /\ BeginSend(w, k) /\ row[k.event].subject = c
         /\ comm[c] \in Sendable /\ comm'[c] = "sending"
    \/ \E w \in Workers :
         /\ MarkSent(w) /\ Subject(w) = c /\ comm'[c] = "sent"
    \/ \E w \in Workers :
         /\ MarkFailed(w) /\ Subject(w) = c
         /\ comm'[c] = StatusAfterError(comm[c])
    \/ \E w \in Workers :
         /\ RecordFailure(w) /\ Subject(w) = c /\ comm'[c] = "dead_letter"

\* Every step does one of the listed things to a communication.
LEMMA EveryCommStep ==
    ASSUME IInv, [Next]_vars, NEW c \in Comms
    PROVE  CommStep(c)
<1>. USE DEF IInv
<1>0. comm \in [Comms -> CommStatus]
  BY DEF TypeOK
<1>1. ASSUME NEW d \in Comms, NEW e \in Events, QueueCommunication(d, e)
      PROVE  CommStep(c)
  <2>1. comm[d] = "absent" /\ comm' = [comm EXCEPT ![d] = "queued"]
    BY <1>1 DEF QueueCommunication
  <2>2. CASE d = c
    BY <1>0, <1>1, <2>1, <2>2 DEF CommStep
  <2>3. CASE d # c
    BY <1>0, <2>1, <2>3 DEF CommStep
  <2>. QED  BY <2>2, <2>3
<1>2. ASSUME \/ \E e \in Events, type \in Types : AddEvent(e, type)
             \/ \E d \in deadLetters, e \in Events : RequeueDeadLetter(d, e)
             \/ \E e \in Events : LockExpires(e) \/ BackoffElapses(e)
             \/ \E w \in Workers :
                   \/ ClaimBatch(w) \/ CallAccepted(w) \/ CallRefused(w)
                   \/ MarkPublished(w) \/ Crash(w)
             \/ UNCHANGED vars
      PROVE  comm' = comm
  BY <1>2 DEF AddEvent, RequeueDeadLetter, LockExpires, BackoffElapses, ClaimBatch,
              CallAccepted, CallRefused, MarkPublished, Crash, vars
<1>3. ASSUME NEW w \in Workers, NEW k \in batch[w], BeginSend(w, k) \/ BeginOther(w, k)
      PROVE  CommStep(c)
  <2>. DEFINE d == row[k.event].subject
  <2>1. \/ comm' = comm
        \/ BeginSend(w, k) /\ comm[d] \in Sendable /\ comm' = [comm EXCEPT ![d] = "sending"]
    BY <1>3 DEF BeginSend, BeginOther
  <2>2. CASE comm' = comm
    BY <2>2 DEF CommStep
  <2>3. CASE /\ BeginSend(w, k) /\ comm[d] \in Sendable
             /\ comm' = [comm EXCEPT ![d] = "sending"] /\ d = c
    <3>1. comm'[c] = "sending"
      BY <1>0, <2>3
    <3>. QED  BY <2>3, <3>1 DEF CommStep
  <2>4. CASE comm' = [comm EXCEPT ![d] = "sending"] /\ d # c
    <3>1. comm'[c] = comm[c]
      BY <1>0, <2>4
    <3>. QED  BY <3>1 DEF CommStep
  <2>. QED  BY <2>1, <2>2, <2>3, <2>4
<1>4. ASSUME NEW w \in Workers, MarkSent(w)
      PROVE  CommStep(c)
  <2>1. comm' = comm \/ \E d : d = Subject(w) /\ comm' = [comm EXCEPT ![d] = "sent"]
    BY <1>4 DEF MarkSent
  <2>2. ASSUME NEW d, comm' = [comm EXCEPT ![d] = "sent"]
        PROVE  comm'[c] = comm[c] \/ (d = c /\ comm'[c] = "sent")
    BY <1>0, <2>2
  <2>. QED  BY <1>4, <2>1, <2>2 DEF CommStep
<1>5. ASSUME NEW w \in Workers, MarkFailed(w)
      PROVE  CommStep(c)
  <2>1. \/ comm' = comm
        \/ \E d : d = Subject(w) /\ comm' = [comm EXCEPT ![d] = StatusAfterError(comm[d])]
    BY <1>5 DEF MarkFailed
  <2>2. ASSUME NEW d, comm' = [comm EXCEPT ![d] = StatusAfterError(comm[d])]
        PROVE  comm'[c] = comm[c] \/ (d = c /\ comm'[c] = StatusAfterError(comm[c]))
    BY <1>0, <2>2
  <2>. QED  BY <1>5, <2>1, <2>2 DEF CommStep
<1>6. ASSUME NEW w \in Workers, RecordFailure(w)
      PROVE  CommStep(c)
  <2>1. comm' = comm \/ \E d : d = Subject(w) /\ comm' = [comm EXCEPT ![d] = "dead_letter"]
    BY <1>6 DEF RecordFailure, BuriedComm, Subject
  <2>2. ASSUME NEW d, comm' = [comm EXCEPT ![d] = "dead_letter"]
        PROVE  comm'[c] = comm[c] \/ (d = c /\ comm'[c] = "dead_letter")
    BY <1>0, <2>2
  <2>. QED  BY <1>6, <2>1, <2>2 DEF CommStep
<1>7. ASSUME comm' = comm PROVE CommStep(c)
  BY <1>7 DEF CommStep
<1>. QED
  BY <1>1, <1>2, <1>3, <1>4, <1>5, <1>6, <1>7 DEF Next, Dispatch, Works, Begins

\* A communication that left the queue does not return to it.
LEMMA CommsLeaveTheQueue ==
    ASSUME IInv, [Next]_vars, NEW c \in Comms
    PROVE  /\ comm[c] # "absent" => comm'[c] # "absent"
           /\ comm[c] \notin {"absent", "queued"} =>
                 comm'[c] \notin {"absent", "queued"}
  BY EveryCommStep DEF CommStep, StatusAfterError

\* Feishu forgets no uuid.
LEMMA AcceptedGrows == ASSUME [Next]_vars PROVE accepted \subseteq accepted'
  BY DEF Next, Dispatch, Works, Begins, QueueCommunication, AddEvent, RequeueDeadLetter, ClaimBatch,
         BeginSend, BeginOther, CallAccepted, CallRefused, MarkSent, MarkFailed,
         MarkPublished, RecordFailure, Crash, LockExpires, BackoffElapses, vars

\* The only rows a step inserts are those of the three inserting actions.
LEMMA InsertedRows ==
    ASSUME IInv, [Next]_vars, NEW e \in Events, ~row[e].inserted, row'[e].inserted
    PROVE  \/ \E c \in Comms : QueueCommunication(c, e)
           \/ \E type \in Types : AddEvent(e, type)
           \/ \E d \in deadLetters : RequeueDeadLetter(d, e)
<1>1. row[e] \in Row
  BY DEF IInv, TypeOK
<1>2. ASSUME NEW k, row'[e] = Failed(row[e], k) PROVE FALSE
  BY <1>1, <1>2 DEF Failed, Row
<1>. QED  BY <1>1, <1>2, EveryRowStep DEF RowStep, Row

\* What the rows and dead letters refer to keeps existing.
LEMMA StepRowsAreSound == ASSUME IInv, [Next]_vars PROVE RowsAreSound'
<1>. SUFFICES ASSUME NEW e \in Events, row'[e].inserted
              PROVE  IF row'[e].type = SendRequested
                       THEN /\ row'[e].subject \in Comms
                            /\ comm'[row'[e].subject] # "absent"
                       ELSE row'[e].subject = NoComm
  BY DEF RowsAreSound
<1>1. CASE row[e].inserted
  BY <1>1, RowsKeepIdentity, CommsLeaveTheQueue DEF RowsAreSound, IInv
<1>2. CASE ~row[e].inserted
  <2>. USE DEF IInv, NewRow
  <2>1. ASSUME NEW c \in Comms, QueueCommunication(c, e)
        PROVE  /\ row'[e].type = SendRequested /\ row'[e].subject = c
               /\ comm'[c] = "queued"
    BY <2>1 DEF QueueCommunication, TypeOK
  <2>2. ASSUME NEW type \in Types, AddEvent(e, type)
        PROVE  row'[e].type = type /\ row'[e].subject = NoComm
    BY <2>2 DEF AddEvent, TypeOK
  <2>3. ASSUME NEW d \in deadLetters, RequeueDeadLetter(d, e)
        PROVE  /\ row'[e].type = row[d].type /\ row'[e].subject = row[d].subject
               /\ comm' = comm /\ d \in Events /\ row[d].inserted
    BY <2>3 DEF RequeueDeadLetter, TypeOK, ClaimsAreInserted
  <2>. QED
    BY <1>2, <2>1, <2>2, <2>3, InsertedRows, OutboxAssumption DEF RowsAreSound
<1>. QED  BY <1>1, <1>2

\* A row that may be claimed has attempts left.
LEMMA StepOpenHasAttemptsLeft == ASSUME IInv, [Next]_vars PROVE OpenHasAttemptsLeft'
<1>. SUFFICES ASSUME NEW e \in Events, ~row'[e].dead
              PROVE  row'[e].attempts < MaxAttempts
  BY DEF OpenHasAttemptsLeft
<1>. USE DEF IInv
<1>0. row \in [Events -> Row] /\ row[e] \in Row
  BY DEF TypeOK
<1>1. CASE \/ \E c \in Comms : QueueCommunication(c, e)
           \/ \E type \in Types : AddEvent(e, type)
           \/ \E d \in deadLetters : RequeueDeadLetter(d, e)
  <2>1. row'[e].attempts = 0
    BY <1>0, <1>1 DEF QueueCommunication, AddEvent, RequeueDeadLetter, NewRow
  <2>. QED  BY <2>1, OutboxAssumption
<1>2. ASSUME NEW w \in Workers, RecordFailure(w), row'[e] = Failed(row[e], current[w])
      PROVE  row'[e].attempts < MaxAttempts
  <2>1. current[w].attempts + 1 \in Nat
    BY <1>2, OutboxAssumption DEF RecordFailure, ClaimsAreInserted, Claim
  <2>2. ~(current[w].attempts + 1 >= MaxAttempts)
    BY <1>0, <1>2 DEF Failed, Row
  <2>3. row'[e].attempts = current[w].attempts + 1
    BY <1>0, <1>2 DEF Failed, Row
  <2>. QED  BY <2>1, <2>2, <2>3, OutboxAssumption
<1>3. CASE row'[e].attempts = row[e].attempts /\ row'[e].dead = row[e].dead
  BY <1>3 DEF OpenHasAttemptsLeft
<1>4. CASE \/ row'[e] \in {row[e], [row[e] EXCEPT !.lock = "held"],
                           [row[e] EXCEPT !.lock = "expired"],
                           [row[e] EXCEPT !.waiting = FALSE]}
           \/ row'[e] = [row[e] EXCEPT !.published = TRUE, !.lock = "free"]
  BY <1>0, <1>3, <1>4 DEF Row
<1>. QED  BY <1>1, <1>2, <1>4, EveryRowStep DEF RowStep

\* What one step does to the local state of w.
LocalStep(w) ==
    \/ step'[w] = step[w] /\ batch'[w] = batch[w] /\ current'[w] = current[w]
    \/ /\ ClaimBatch(w)
       /\ step'[w] = "ready"
       /\ \A k \in batch'[w] : Claimable(k.event)
    \/ \E k \in batch[w] :
         /\ BeginSend(w, k) \/ BeginOther(w, k)
         /\ batch'[w] = batch[w] \ {k} /\ current'[w] = k
    \/ /\ CallAccepted(w) \/ CallRefused(w) \/ MarkSent(w) \/ MarkFailed(w)
       /\ step[w] # "ready" /\ batch'[w] = batch[w] /\ current'[w] = current[w]
    \/ step'[w] = "ready" /\ batch'[w] \subseteq batch[w]

\* Every step does one of the listed things to a worker's local state.
LEMMA EveryLocalStep ==
    ASSUME IInv, [Next]_vars, NEW w \in Workers
    PROVE  LocalStep(w)
<1>. USE DEF IInv
<1>0. /\ step \in [Workers -> Step]
      /\ batch \in [Workers -> SUBSET Claim]
      /\ current \in [Workers -> Claim \cup {NoClaim}]
  BY DEF TypeOK
<1>1. ASSUME UNCHANGED local PROVE LocalStep(w)
  BY <1>1 DEF local, LocalStep
<1>2. ASSUME NEW v \in Workers, ClaimBatch(v) PROVE LocalStep(w)
  <2>1. CASE v = w
    <3>1. \A k \in batch'[w] : Claimable(k.event)
      BY <1>0, <1>2, <2>1 DEF ClaimBatch
    <3>. QED  BY <1>2, <2>1, <3>1 DEF ClaimBatch, LocalStep
  <2>2. CASE v # w
    BY <1>0, <1>2, <2>2 DEF ClaimBatch, LocalStep
  <2>. QED  BY <2>1, <2>2
<1>3. ASSUME NEW v \in Workers, NEW k \in batch[v], BeginSend(v, k) \/ BeginOther(v, k)
      PROVE  LocalStep(w)
  <2>1. /\ batch' = [batch EXCEPT ![v] = @ \ {k}]
        /\ current' = [current EXCEPT ![v] = k]
        /\ \E s : step' = [step EXCEPT ![v] = s]
    BY <1>3 DEF BeginSend, BeginOther, Begin
  <2>2. CASE v = w
    <3>1. batch'[w] = batch[w] \ {k} /\ current'[w] = k
      BY <1>0, <2>1, <2>2
    <3>. QED  BY <1>3, <2>2, <3>1 DEF LocalStep
  <2>3. CASE v # w
    <3>1. step'[w] = step[w] /\ batch'[w] = batch[w] /\ current'[w] = current[w]
      BY <1>0, <2>1, <2>3
    <3>. QED  BY <3>1 DEF LocalStep
  <2>. QED  BY <2>2, <2>3
<1>4. ASSUME NEW v \in Workers,
             CallAccepted(v) \/ CallRefused(v) \/ MarkSent(v) \/ MarkFailed(v)
      PROVE  LocalStep(w)
  <2>1. /\ step[v] # "ready" /\ UNCHANGED <<batch, current>>
        /\ \E s : step' = [step EXCEPT ![v] = s]
    BY <1>4 DEF CallAccepted, CallRefused, MarkSent, MarkFailed, Goto
  <2>2. CASE v = w
    BY <1>4, <2>1, <2>2 DEF LocalStep
  <2>3. CASE v # w
    BY <1>0, <2>1, <2>3 DEF LocalStep
  <2>. QED  BY <2>2, <2>3
<1>5. ASSUME NEW v \in Workers, MarkPublished(v) \/ RecordFailure(v) \/ Crash(v)
      PROVE  LocalStep(w)
  <2>1. /\ step' = [step EXCEPT ![v] = "ready"]
        /\ current' = [current EXCEPT ![v] = NoClaim]
        /\ batch' = batch \/ batch' = [batch EXCEPT ![v] = {}]
    BY <1>5 DEF MarkPublished, RecordFailure, Finish, Crash, Leave
  <2>2. CASE v = w
    <3>1. step'[w] = "ready" /\ batch'[w] \subseteq batch[w]
      BY <1>0, <2>1, <2>2
    <3>. QED  BY <3>1 DEF LocalStep
  <2>3. CASE v # w
    <3>1. step'[w] = step[w] /\ batch'[w] = batch[w] /\ current'[w] = current[w]
      BY <1>0, <2>1, <2>3
    <3>. QED  BY <3>1 DEF LocalStep
  <2>. QED  BY <2>2, <2>3
<1>6. ASSUME \/ \E c \in Comms, e \in Events : QueueCommunication(c, e)
             \/ \E e \in Events, type \in Types : AddEvent(e, type)
             \/ \E d \in deadLetters, e \in Events : RequeueDeadLetter(d, e)
             \/ \E e \in Events : LockExpires(e) \/ BackoffElapses(e)
             \/ UNCHANGED vars
      PROVE  UNCHANGED local
  BY <1>6 DEF QueueCommunication, AddEvent, RequeueDeadLetter, LockExpires,
              BackoffElapses, vars, local
<1>. QED
  BY <1>1, <1>2, <1>3, <1>4, <1>5, <1>6 DEF Next, Dispatch, Works, Begins

\* A settled row was inserted, and a published one no longer waits.
LEMMA StepPublishedWasInserted == ASSUME IInv, [Next]_vars PROVE PublishedWasInserted'
<1>. SUFFICES ASSUME NEW e \in Events, row'[e].published
              PROVE  row'[e].inserted
  BY DEF PublishedWasInserted
<1>. USE DEF IInv
<1>0. row \in [Events -> Row] /\ row[e] \in Row
  BY DEF TypeOK
<1>1. CASE row[e].inserted
  BY <1>1, RowsKeepIdentity
<1>2. CASE ~row[e].inserted
  <2>1. \A w \in Workers : step[w] # "ready" => current[w].event # e
    BY <1>2 DEF ClaimsAreInserted
  <2>2. ~row[e].published
    BY <1>2 DEF PublishedWasInserted
  <2>3. CASE \/ \E c \in Comms : QueueCommunication(c, e)
             \/ \E type \in Types : AddEvent(e, type)
             \/ \E d \in deadLetters : RequeueDeadLetter(d, e)
    BY <1>0, <2>3 DEF QueueCommunication, AddEvent, RequeueDeadLetter, NewRow
  <2>4. CASE row'[e] \in {row[e], [row[e] EXCEPT !.lock = "held"],
                          [row[e] EXCEPT !.lock = "expired"],
                          [row[e] EXCEPT !.waiting = FALSE]}
    BY <1>0, <2>2, <2>4 DEF Row
  <2>5. RowStep(e)
    BY EveryRowStep
  <2>6. ~\E w \in Workers :
           (MarkPublished(w) \/ RecordFailure(w)) /\ current[w].event = e
    BY <2>1 DEF MarkPublished, RecordFailure
  <2>. QED  BY <2>3, <2>4, <2>5, <2>6 DEF RowStep
<1>. QED  BY <1>1, <1>2

\* What a worker has claimed was inserted.
LEMMA StepClaimsAreInserted == ASSUME IInv, [Next]_vars PROVE ClaimsAreInserted'
<1>. USE DEF IInv
<1>0. \A e \in Events : row[e].inserted => row'[e].inserted
  BY RowsKeepIdentity
<1>1. TypeOK'
  BY StepTypeOK
<1>2. ASSUME NEW w \in Workers, NEW k \in batch'[w]
      PROVE  row'[k.event].inserted
  <2>1. k.event \in Events
    BY <1>1 DEF TypeOK, Claim
  <2>2. CASE k \in batch[w]
    BY <1>0, <2>1, <2>2 DEF ClaimsAreInserted
  <2>3. CASE Claimable(k.event)
    BY <1>0, <2>1, <2>3 DEF Claimable, Open
  <2>. QED  BY <2>2, <2>3, EveryLocalStep DEF LocalStep
<1>3. ASSUME NEW w \in Workers, step'[w] # "ready"
      PROVE  current'[w] \in Claim /\ row'[current'[w].event].inserted
  <2>1. \/ step[w] # "ready" /\ current'[w] = current[w]
        \/ current'[w] \in batch[w]
    BY <1>3, EveryLocalStep DEF LocalStep
  <2>2. current'[w] \in Claim /\ row[current'[w].event].inserted
    BY <2>1 DEF ClaimsAreInserted, TypeOK
  <2>3. current'[w].event \in Events
    BY <2>2 DEF Claim
  <2>. QED  BY <1>0, <2>2, <2>3
<1>4. \A d \in deadLetters' : row'[d].inserted
  <2>1. ASSUME NEW w \in Workers, RecordFailure(w)
        PROVE  \A d \in deadLetters' : d \in deadLetters \/ d = current[w].event
    BY <2>1 DEF RecordFailure
  <2>2. ASSUME ~\E w \in Workers : RecordFailure(w)
        PROVE  deadLetters' = deadLetters
    BY <2>2
    DEF Next, Dispatch, Works, Begins, QueueCommunication, AddEvent, RequeueDeadLetter, ClaimBatch,
        BeginSend, BeginOther, CallAccepted, CallRefused, MarkSent, MarkFailed,
        MarkPublished, Crash, LockExpires, BackoffElapses, vars
  <2>3. \A d \in deadLetters : d \in Events /\ row[d].inserted
    BY DEF TypeOK, ClaimsAreInserted
  <2>4. ASSUME NEW w \in Workers, RecordFailure(w)
        PROVE  current[w].event \in Events /\ row[current[w].event].inserted
    BY <2>4 DEF RecordFailure, ClaimsAreInserted, Claim
  <2>. QED  BY <1>0, <2>1, <2>2, <2>3, <2>4
<1>. QED  BY <1>2, <1>3, <1>4 DEF ClaimsAreInserted

\* A worker in a send holds a send event of a communication that left the queue.
LEMMA StepSendsAreUnderWay == ASSUME IInv, [Next]_vars PROVE SendsAreUnderWay'
<1>. SUFFICES ASSUME NEW w \in Workers
     PROVE  /\ step'[w] \in Posting => row'[current'[w].event].type = SendRequested
            /\ step'[w] \in Posting \cup {"publishing"}
                 /\ row'[current'[w].event].type = SendRequested =>
                   comm'[Subject(w)'] \notin {"absent", "queued"}
            /\ step'[w] = "answered" => Subject(w)' \in accepted'
  BY DEF SendsAreUnderWay
<1>. USE DEF IInv
<1>. DEFINE e == current'[w].event
<1>0. /\ step \in [Workers -> Step] /\ comm \in [Comms -> CommStatus]
      /\ step' \in [Workers -> Step]
  BY StepTypeOK DEF TypeOK
<1>1. step'[w] # "ready" => /\ e \in Events /\ row[e].inserted
                            /\ row'[e].type = row[e].type
                            /\ row'[e].subject = row[e].subject
                            /\ row[e].type = SendRequested => row[e].subject \in Comms
  <2>1. ASSUME step'[w] # "ready"
        PROVE  e \in Events /\ row[e].inserted
    <3>1. \/ step[w] # "ready" /\ current'[w] = current[w]
          \/ current'[w] \in batch[w]
      BY <2>1, EveryLocalStep DEF LocalStep
    <3>. QED  BY <3>1 DEF ClaimsAreInserted, TypeOK, Claim
  <2>. QED  BY <2>1, RowsKeepIdentity DEF RowsAreSound
<1>2. CASE step'[w] = step[w] /\ current'[w] = current[w]
  BY <1>1, <1>2, CommsLeaveTheQueue, AcceptedGrows
  DEF SendsAreUnderWay, Subject, Posting
<1>3. ASSUME NEW k \in batch[w], current'[w] = k, BeginSend(w, k)
      PROVE  /\ step'[w] \in {"publishing", "calling", "failing"}
             /\ row[e].type = SendRequested
             /\ step'[w] # "failing" =>
                  comm'[row[e].subject] \notin {"absent", "queued"}
  <2>1. /\ row[e].type = SendRequested
        /\ \/ comm[row[e].subject] = "sent" /\ comm' = comm /\ step'[w] = "publishing"
           \/ /\ comm' = [comm EXCEPT ![row[e].subject] = "sending"]
              /\ step'[w] = "calling"
           \/ step'[w] = "failing"
    BY <1>0, <1>3 DEF BeginSend, Begin
  <2>. QED  BY <1>0, <1>1, <2>1
<1>4. ASSUME NEW k \in batch[w], current'[w] = k, BeginOther(w, k)
      PROVE  step'[w] \in {"publishing", "failing"} /\ row[e].type # SendRequested
  BY <1>0, <1>4 DEF BeginOther, Begin
<1>5. ASSUME current'[w] = current[w],
             CallAccepted(w) \/ CallRefused(w) \/ MarkSent(w) \/ MarkFailed(w)
      PROVE  /\ step[w] \in Posting
             /\ step'[w] \in {"answered", "raised", "publishing", "failing"}
             /\ step'[w] = "answered" => row[e].subject \in accepted'
  BY <1>0, <1>5 DEF CallAccepted, CallRefused, MarkSent, MarkFailed, Goto, Posting, Subject
<1>6. \/ step'[w] = step[w] /\ current'[w] = current[w]
      \/ step'[w] = "ready"
      \/ \E k \in batch[w] : current'[w] = k /\ (BeginSend(w, k) \/ BeginOther(w, k))
      \/ /\ CallAccepted(w) \/ CallRefused(w) \/ MarkSent(w) \/ MarkFailed(w)
         /\ current'[w] = current[w]
  BY EveryLocalStep DEF LocalStep
<1>7. CASE step'[w] = "ready"
  BY <1>7 DEF Posting
<1>8. CASE \E k \in batch[w] : current'[w] = k /\ BeginSend(w, k)
  BY <1>1, <1>3, <1>8 DEF Subject, Posting
<1>9. CASE \E k \in batch[w] : current'[w] = k /\ BeginOther(w, k)
  BY <1>1, <1>4, <1>9 DEF Subject, Posting
<1>10. CASE /\ CallAccepted(w) \/ CallRefused(w) \/ MarkSent(w) \/ MarkFailed(w)
            /\ current'[w] = current[w]
  <2>1. row[e].type = SendRequested /\ comm[row[e].subject] \notin {"absent", "queued"}
    BY <1>5, <1>10 DEF SendsAreUnderWay, Subject
  <2>. QED  BY <1>1, <1>5, <1>10, <2>1, CommsLeaveTheQueue DEF Subject, Posting
<1>. QED  BY <1>2, <1>6, <1>7, <1>8, <1>9, <1>10

\* No step settles the last event of a queued communication and leaves it queued.
LEMMA StepQueuedHasCarrier == ASSUME IInv, [Next]_vars PROVE QueuedHasCarrier'
<1>. SUFFICES ASSUME NEW c \in Comms, comm'[c] = "queued"
              PROVE  \E e \in Events : Open(e)' /\ row'[e].subject = c
  BY DEF QueuedHasCarrier
<1>. USE DEF IInv
<1>0. row \in [Events -> Row]
  BY DEF TypeOK
<1>1. CASE comm[c] # "queued"
  <2>1. PICK e \in Events : QueueCommunication(c, e)
    BY <1>1, EveryCommStep DEF CommStep, StatusAfterError
  <2>2. row'[e] = NewRow(SendRequested, c)
    BY <1>0, <2>1 DEF QueueCommunication
  <2>. QED  BY <2>2 DEF Open, NewRow
<1>2. CASE comm[c] = "queued"
  <2>1. PICK e \in Events : Open(e) /\ row[e].subject = c
    BY <1>2 DEF QueuedHasCarrier
  <2>2. row[e].inserted /\ row[e].type = SendRequested /\ row[e] \in Row
    BY <1>0, <2>1, OutboxAssumption DEF Open, RowsAreSound
  <2>3. row'[e].inserted /\ row'[e].subject = c
    BY <2>1, <2>2, RowsKeepIdentity
  <2>4. ASSUME NEW w \in Workers, MarkPublished(w), current[w].event = e
        PROVE  FALSE
    BY <1>2, <2>1, <2>2, <2>4 DEF MarkPublished, SendsAreUnderWay, Subject
  <2>5. ASSUME NEW w \in Workers, RecordFailure(w), current[w].event = e,
               row'[e] = Failed(row[e], current[w])
        PROVE  ~row'[e].published /\ ~row'[e].dead
    <3>1. ~(current[w].attempts + 1 >= MaxAttempts)
      <4>1. comm \in [Comms -> CommStatus] /\ ~SettledByAnother(e)
        BY <2>1 DEF TypeOK, Open, SettledByAnother
      <4>2. LastAttempt(current[w]) => row'[e].dead /\ row'[e] # row[e]
        BY <2>1, <2>2, <2>5 DEF LastAttempt, Failed, Open, Row
      <4>3. LastAttempt(current[w]) => row' = row \/ comm' = BuriedComm(row[e].subject)
        BY <2>5, <4>1 DEF RecordFailure
      <4>. QED  BY <2>1, <4>1, <4>2, <4>3 DEF LastAttempt, BuriedComm
    <3>. QED  BY <2>1, <2>2, <2>5, <3>1 DEF Open, Failed, Row
  <2>6. ASSUME row'[e] \in {row[e], [row[e] EXCEPT !.lock = "held"],
                            [row[e] EXCEPT !.lock = "expired"],
                            [row[e] EXCEPT !.waiting = FALSE]}
        PROVE  ~row'[e].published /\ ~row'[e].dead
    BY <2>1, <2>2, <2>6 DEF Open, Row
  <2>7. \/ row'[e] \in {row[e], [row[e] EXCEPT !.lock = "held"],
                       [row[e] EXCEPT !.lock = "expired"],
                       [row[e] EXCEPT !.waiting = FALSE]}
        \/ \E w \in Workers : /\ RecordFailure(w) /\ current[w].event = e
                              /\ row'[e] = Failed(row[e], current[w])
    BY <2>2, <2>4, EveryRowStep DEF RowStep
  <2>8. ~row'[e].published /\ ~row'[e].dead
    BY <2>5, <2>6, <2>7
  <2>. QED  BY <2>3, <2>8 DEF Open
<1>. QED  BY <1>1, <1>2

\* No step records as sent a communication Feishu has not accepted.
LEMMA StepSentWasAccepted == ASSUME IInv, [Next]_vars PROVE SentWasAccepted'
<1>. SUFFICES ASSUME NEW c \in Comms, comm'[c] = "sent"
              PROVE  c \in accepted'
  BY DEF SentWasAccepted
<1>1. comm[c] = "sent" \/ \E w \in Workers : MarkSent(w) /\ Subject(w) = c
  BY EveryCommStep DEF CommStep, StatusAfterError
<1>2. c \in accepted
  BY <1>1 DEF IInv, SentWasAccepted, SendsAreUnderWay, MarkSent
<1>. QED  BY <1>2, AcceptedGrows

\* The invariant is inductive.
LEMMA StepIInv == IInv /\ [Next]_vars => IInv'
  BY StepTypeOK, StepOpenHasAttemptsLeft, StepPublishedWasInserted, StepRowsAreSound, StepClaimsAreInserted,
     StepSendsAreUnderWay, StepQueuedHasCarrier, StepSentWasAccepted
  DEF IInv

-----------------------------------------------------------------------------
(* Theorems for any number of workers *)

\* The inductive invariant holds in every reachable state, for any number of workers.
THEOREM Invariance == Spec => []IInv
  BY InitIInv, StepIInv, PTL DEF Spec

\* Type correctness of the tables and of publish_batch's local state.
THEOREM TypeCorrect == Spec => []TypeOK
<1>1. IInv => TypeOK
  BY DEF IInv
<1>. QED  BY <1>1, Invariance, PTL

\* A queued communication is carried by an event that will still be claimed.
THEOREM QueuedIsCarried == Spec => []QueuedHasCarrier
<1>1. IInv => QueuedHasCarrier
  BY DEF IInv
<1>. QED  BY <1>1, Invariance, PTL

\* A communication recorded as sent was accepted by Feishu.
THEOREM SentImpliesAccepted == Spec => []SentWasAccepted
<1>1. IInv => SentWasAccepted
  BY DEF IInv
<1>. QED  BY <1>1, Invariance, PTL

\* A stale failure leaves an event that another worker published as it is.
THEOREM PublishedStaysPublished == Spec => PublishedIsFinal
<1>1. ASSUME IInv, [Next]_vars
      PROVE  [\A e \in Events : row[e].published =>
                 /\ row'[e].published
                 /\ row'[e].attempts = row[e].attempts
                 /\ row'[e].dead = row[e].dead]_vars
  <2>1. ASSUME NEW e \in Events, row[e].published
        PROVE  /\ row'[e].published
               /\ row'[e].attempts = row[e].attempts
               /\ row'[e].dead = row[e].dead
    <3>1. row \in [Events -> Row] /\ row[e] \in Row
      BY <1>1 DEF IInv, TypeOK
    <3>2. ASSUME NEW w \in Workers, RecordFailure(w), current[w].event = e
          PROVE  row' = row
      BY <2>1, <3>2 DEF RecordFailure, SettledByAnother
    <3>3. CASE row'[e] \in {row[e], [row[e] EXCEPT !.lock = "held"],
                            [row[e] EXCEPT !.lock = "expired"],
                            [row[e] EXCEPT !.waiting = FALSE],
                            [row[e] EXCEPT !.published = TRUE, !.lock = "free"]}
      BY <2>1, <3>1, <3>3 DEF Row
    <3>4. row[e].inserted
      BY <1>1, <2>1 DEF IInv, PublishedWasInserted
    <3>. QED  BY <1>1, <2>1, <3>2, <3>3, <3>4, EveryRowStep DEF RowStep
  <2>. QED  BY <2>1
<1>. QED  BY <1>1, Invariance, PTL DEF Spec, PublishedIsFinal

\* A communication recorded as sent is not taken back to be sent again, whichever
\* attempt's error comes late.
THEOREM SentIsNotSentAgain == Spec => SentIsNotReopened
<1>1. ASSUME IInv, [Next]_vars
      PROVE  [\A c \in Comms :
                comm[c] = "sent" => comm'[c] \in {"sent", "dead_letter"}]_vars
  BY <1>1, EveryCommStep DEF CommStep, Sendable, StatusAfterError
<1>. QED  BY <1>1, Invariance, PTL DEF Spec, SentIsNotReopened

-----------------------------------------------------------------------------
(* Counting the events of a communication *)

\* The events that carry c were inserted one at a time, each for the request or
\* for a dead letter that no later requeue uses again.
CarriersAreCounted ==
    /\ IsFiniteSet({e \in Events : row[e].inserted})
    /\ IsFiniteSet(requeued)
    /\ OneCarrierPerRequest

\* The requeued dead letters of c, one for each further event it was given.
RequeuesOf(c) == {d \in requeued : row[d].subject = c}

\* Nothing is counted before the first insertion.
LEMMA InitCarriersAreCounted == Init => CarriersAreCounted
<1>. SUFFICES ASSUME Init PROVE CarriersAreCounted
  OBVIOUS
<1>1. \A e \in Events : ~row[e].inserted
  BY DEF Init, NoRow, NewRow
<1>2. {e \in Events : row[e].inserted} = {} /\ requeued = {}
  BY <1>1 DEF Init
<1>3. ASSUME NEW c \in Comms
      PROVE  /\ Carriers(c) = {}
             /\ {d \in requeued : row[d].subject = c} = {}
  BY <1>1, <1>2 DEF Carriers
<1>. QED
  BY <1>2, <1>3, FS_EmptySet DEF CarriersAreCounted, OneCarrierPerRequest

\* Both sides of the count are finite.
LEMMA CountsAreNumbers ==
    ASSUME IInv, CarriersAreCounted, NEW c \in Comms
    PROVE  /\ IsFiniteSet(Carriers(c)) /\ Cardinality(Carriers(c)) \in Nat
           /\ IsFiniteSet(RequeuesOf(c)) /\ Cardinality(RequeuesOf(c)) \in Nat
           /\ Cardinality(Carriers(c)) <= 1 + Cardinality(RequeuesOf(c))
<1>1. Carriers(c) \in SUBSET {e \in Events : row[e].inserted}
  BY DEF Carriers
<1>2. RequeuesOf(c) \in SUBSET requeued
  BY DEF RequeuesOf
<1>3. IsFiniteSet(Carriers(c)) /\ IsFiniteSet(RequeuesOf(c))
  BY <1>1, <1>2, FS_Subset DEF CarriersAreCounted
<1>4. Cardinality(Carriers(c)) <= 1 + Cardinality(RequeuesOf(c))
  BY DEF CarriersAreCounted, OneCarrierPerRequest, RequeuesOf
<1>. QED
  BY <1>3, <1>4, FS_CardinalityType

\* A step that inserts e for the subject s, or no event, and requeues R: the sets
\* the count is about.
LEMMA CountedSets ==
    ASSUME IInv, [Next]_vars, NEW c \in Comms
    PROVE  /\ Carriers(c)' =
                 Carriers(c) \cup {e \in Events : /\ ~row[e].inserted
                                                  /\ row'[e].inserted
                                                  /\ row'[e].subject = c}
           /\ RequeuesOf(c)' =
                 RequeuesOf(c) \cup {d \in requeued' \ requeued : row'[d].subject = c}
<1>1. \A e \in Events : row[e].inserted =>
          row'[e].inserted /\ row'[e].subject = row[e].subject
  BY RowsKeepIdentity
<1>2. \A d \in requeued : d \in Events /\ row[d].inserted
  BY DEF IInv, TypeOK, ClaimsAreInserted
<1>3. requeued \subseteq requeued'
  BY DEF Next, Dispatch, Works, Begins, QueueCommunication, AddEvent, RequeueDeadLetter,
         ClaimBatch, BeginSend, BeginOther, CallAccepted, CallRefused, MarkSent, MarkFailed,
         MarkPublished, RecordFailure, Crash, LockExpires, BackoffElapses, vars
<1>4. Carriers(c)' = {e \in Events : row'[e].inserted /\ row'[e].subject = c}
  BY DEF Carriers
<1>5. RequeuesOf(c)' = {d \in requeued' : row'[d].subject = c}
  BY DEF RequeuesOf
<1>. QED
  BY <1>1, <1>2, <1>3, <1>4, <1>5 DEF Carriers, RequeuesOf

\* A step other than the three insertions inserts and requeues nothing.
LEMMA NothingIsInserted ==
    ASSUME IInv, [Next]_vars,
           ~ \E c \in Comms, e \in Events : QueueCommunication(c, e),
           ~ \E e \in Events, type \in Types : AddEvent(e, type),
           ~ \E d \in deadLetters, e \in Events : RequeueDeadLetter(d, e)
    PROVE  /\ \A e \in Events : row'[e].inserted => row[e].inserted
           /\ requeued' = requeued
<1>1. \A e \in Events : row'[e].inserted => row[e].inserted
  BY InsertedRows
<1>2. requeued' = requeued
  BY DEF Next, Dispatch, Works, Begins, ClaimBatch, BeginSend, BeginOther, CallAccepted,
         CallRefused, MarkSent, MarkFailed, MarkPublished, RecordFailure, Crash,
         LockExpires, BackoffElapses, vars
<1>. QED  BY <1>1, <1>2

\* An insertion inserts its own event only.
LEMMA OneIsInserted ==
    ASSUME IInv, NEW e \in Events,
           \/ \E c \in Comms : QueueCommunication(c, e)
           \/ \E type \in Types : AddEvent(e, type)
           \/ \E d \in deadLetters : RequeueDeadLetter(d, e)
    PROVE  /\ ~row[e].inserted /\ row'[e].inserted
           /\ \A f \in Events : f # e => row'[f] = row[f]
<1>1. row \in [Events -> Row]
  BY DEF IInv, TypeOK
<1>2. \E type, subject :
         ~row[e].inserted /\ row' = [row EXCEPT ![e] = NewRow(type, subject)]
  BY DEF QueueCommunication, AddEvent, RequeueDeadLetter
<1>. QED
  BY <1>1, <1>2 DEF NewRow

\* The count is kept: the request's own event is the first, and a requeue that
\* adds an event uses up a dead letter of the same communication.
LEMMA StepCarriersAreCounted ==
    ASSUME IInv, CarriersAreCounted, [Next]_vars PROVE CarriersAreCounted'
<1>. DEFINE Rows == {e \in Events : row[e].inserted}
            New(c) == {e \in Events : /\ ~row[e].inserted
                                      /\ row'[e].inserted /\ row'[e].subject = c}
            Used(c) == {d \in requeued' \ requeued : row'[d].subject = c}
<1>0. /\ row \in [Events -> Row]
      /\ \A c \in Comms : comm[c] = "absent" => Carriers(c) = {}
  BY OutboxAssumption DEF IInv, TypeOK, RowsAreSound, Carriers
<1>. SUFFICES /\ IsFiniteSet({e \in Events : row'[e].inserted})
              /\ IsFiniteSet(requeued')
              /\ \A c \in Comms :
                    Cardinality(Carriers(c)') <= 1 + Cardinality(RequeuesOf(c)')
  BY DEF CarriersAreCounted, OneCarrierPerRequest, Carriers, RequeuesOf
<1>1. ASSUME NEW e \in Events,
             \/ \E c \in Comms : QueueCommunication(c, e)
             \/ \E type \in Types : AddEvent(e, type)
             \/ \E d \in deadLetters : RequeueDeadLetter(d, e)
      PROVE  /\ IsFiniteSet({f \in Events : row'[f].inserted})
             /\ \A c \in Comms : New(c) = IF row'[e].subject = c THEN {e} ELSE {}
  <2>1. {f \in Events : row'[f].inserted} = Rows \cup {e}
    BY <1>1, OneIsInserted, RowsKeepIdentity
  <2>2. IsFiniteSet(Rows \cup {e})
    BY FS_AddElement DEF CarriersAreCounted
  <2>3. ASSUME NEW c \in Comms
        PROVE  New(c) = IF row'[e].subject = c THEN {e} ELSE {}
    BY <1>1, OneIsInserted
  <2>. QED  BY <2>1, <2>2, <2>3
<1>2. ASSUME NEW c \in Comms, NEW e \in Events, QueueCommunication(c, e)
      PROVE  /\ \A b \in Comms : Cardinality(Carriers(b)')
                    <= 1 + Cardinality(RequeuesOf(b)')
             /\ requeued' = requeued
  <2>1. row'[e].subject = c /\ requeued' = requeued /\ Carriers(c) = {}
    BY <1>0, <1>2 DEF QueueCommunication, NewRow
  <2>2. ASSUME NEW b \in Comms
        PROVE  Cardinality(Carriers(b)') <= 1 + Cardinality(RequeuesOf(b)')
    <3>0. Used(b) = {}
      BY <2>1
    <3>1. /\ Carriers(b)' = Carriers(b) \cup New(b)
          /\ RequeuesOf(b)' = RequeuesOf(b)
      BY <3>0, CountedSets
    <3>2. New(b) = IF c = b THEN {e} ELSE {}
      BY <1>1, <1>2, <2>1
    <3>3. CASE b = c
      <4>1. Carriers(b)' = {e}
        BY <2>1, <3>1, <3>2, <3>3
      <4>2. Cardinality(Carriers(b)') = 1
        BY <4>1, FS_Singleton
      <4>. QED  BY <3>1, <4>2, CountsAreNumbers
    <3>4. CASE b # c
      <4>1. Carriers(b)' = Carriers(b)
        BY <3>1, <3>2, <3>4
      <4>. QED  BY <3>1, <4>1, CountsAreNumbers
    <3>. QED  BY <3>3, <3>4
  <2>. QED  BY <2>1, <2>2
<1>3. ASSUME NEW e \in Events, NEW type \in Types, AddEvent(e, type)
      PROVE  /\ \A b \in Comms : Cardinality(Carriers(b)')
                    <= 1 + Cardinality(RequeuesOf(b)')
             /\ requeued' = requeued
  <2>1. row'[e].subject \notin Comms /\ requeued' = requeued
    BY <1>0, <1>3, OutboxAssumption DEF AddEvent, NewRow
  <2>2. ASSUME NEW b \in Comms
        PROVE  Cardinality(Carriers(b)') <= 1 + Cardinality(RequeuesOf(b)')
    <3>0. Used(b) = {}
      BY <2>1
    <3>1. Carriers(b)' = Carriers(b) \cup New(b) /\ RequeuesOf(b)' = RequeuesOf(b)
      BY <3>0, CountedSets
    <3>2. New(b) = {}
      BY <1>1, <1>3, <2>1
    <3>3. Carriers(b)' = Carriers(b)
      BY <3>1, <3>2
    <3>. QED  BY <3>1, <3>3, CountsAreNumbers
  <2>. QED  BY <2>1, <2>2
<1>4. ASSUME NEW d \in deadLetters, NEW e \in Events, RequeueDeadLetter(d, e)
      PROVE  /\ \A b \in Comms : Cardinality(Carriers(b)')
                    <= 1 + Cardinality(RequeuesOf(b)')
             /\ requeued' = requeued \cup {d}
  <2>1. /\ requeued' = requeued \cup {d} /\ d \notin requeued
        /\ d \in Events /\ row[d].inserted /\ ~row[e].inserted
        /\ row'[e].subject = row[d].subject
    BY <1>0, <1>4 DEF RequeueDeadLetter, MayRequeue, NewRow, IInv, TypeOK, ClaimsAreInserted
  <2>2. row'[d].subject = row[d].subject
    BY <2>1, RowsKeepIdentity
  <2>3. ASSUME NEW b \in Comms
        PROVE  Cardinality(Carriers(b)') <= 1 + Cardinality(RequeuesOf(b)')
    <3>1. /\ Carriers(b)' = Carriers(b) \cup New(b)
          /\ RequeuesOf(b)' = RequeuesOf(b) \cup Used(b)
      BY CountedSets
    <3>2. New(b) = IF row[d].subject = b THEN {e} ELSE {}
      BY <1>1, <1>4, <2>1
    <3>3. Used(b) = IF row[d].subject = b THEN {d} ELSE {}
      BY <2>1, <2>2
    <3>4. CASE row[d].subject = b
      <4>1. Carriers(b)' = Carriers(b) \cup {e} /\ e \notin Carriers(b)
        BY <2>1, <3>1, <3>2, <3>4 DEF Carriers
      <4>2. RequeuesOf(b)' = RequeuesOf(b) \cup {d} /\ d \notin RequeuesOf(b)
        BY <2>1, <3>1, <3>3, <3>4 DEF RequeuesOf
      <4>3. /\ Cardinality(Carriers(b)') = Cardinality(Carriers(b)) + 1
            /\ Cardinality(RequeuesOf(b)') = Cardinality(RequeuesOf(b)) + 1
        BY <4>1, <4>2, CountsAreNumbers, FS_AddElement
      <4>. QED  BY <4>3, CountsAreNumbers
    <3>5. CASE row[d].subject # b
      <4>1. Carriers(b)' = Carriers(b) /\ RequeuesOf(b)' = RequeuesOf(b)
        BY <3>1, <3>2, <3>3, <3>5
      <4>. QED  BY <4>1, CountsAreNumbers
    <3>. QED  BY <3>4, <3>5
  <2>. QED  BY <2>1, <2>3
<1>5. CASE /\ ~ \E c \in Comms, e \in Events : QueueCommunication(c, e)
           /\ ~ \E e \in Events, type \in Types : AddEvent(e, type)
           /\ ~ \E d \in deadLetters, e \in Events : RequeueDeadLetter(d, e)
  <2>1. (\A e \in Events : row'[e].inserted => row[e].inserted) /\ requeued' = requeued
    BY <1>5, NothingIsInserted
  <2>2. {e \in Events : row'[e].inserted} = Rows
    BY <2>1, RowsKeepIdentity
  <2>3. ASSUME NEW b \in Comms
        PROVE  Cardinality(Carriers(b)') <= 1 + Cardinality(RequeuesOf(b)')
    <3>1. Carriers(b)' = Carriers(b) /\ RequeuesOf(b)' = RequeuesOf(b)
      BY <2>1, CountedSets
    <3>. QED  BY <3>1, CountsAreNumbers
  <2>. QED  BY <2>1, <2>2, <2>3 DEF CarriersAreCounted
<1>. QED
  BY <1>1, <1>2, <1>3, <1>4, <1>5, FS_AddElement DEF CarriersAreCounted

\* A communication has the event of its request and one for every requeued dead
\* letter of it, for any number of workers, events and requeues.
THEOREM OneCarrierIsRequested == Spec => []OneCarrierPerRequest
<1>1. Init => IInv /\ CarriersAreCounted
  BY InitIInv, InitCarriersAreCounted
<1>2. IInv /\ CarriersAreCounted /\ [Next]_vars => (IInv /\ CarriersAreCounted)'
  BY StepIInv, StepCarriersAreCounted
<1>3. CarriersAreCounted => OneCarrierPerRequest
  BY DEF CarriersAreCounted
<1>. QED  BY <1>1, <1>2, <1>3, PTL DEF Spec

-----------------------------------------------------------------------------
(* Theorems for the single worker of compose.yml *)

\* The one-worker invariant holds of the empty tables.
LEMMA InitSoloInv == Init => SoloInv
<1>. SUFFICES ASSUME Init PROVE SoloInv
  OBVIOUS
<1>1. IInv
  BY InitIInv
<1>2. ClaimsAreOpen /\ StatusFollowsStep
  BY DEF Init, ClaimsAreOpen, StatusFollowsStep, Posting
<1>3. InFlightHasCarrier
  BY DEF Init, InFlightHasCarrier
<1>4. OneOutcome
  BY DEF Init, OneOutcome, NoRow, NewRow
<1>. QED  BY <1>1, <1>2, <1>3, <1>4 DEF SoloInv

\* Open(e) after the step.
OpenAfter(e) == row'[e].inserted /\ ~row'[e].published /\ ~row'[e].dead

\* Only the dispatch of its own claim settles an open event.
LEMMA OpenStaysOpen ==
    ASSUME IInv, [Next]_vars, NEW e \in Events, Open(e),
           \A w \in Workers : step[w] \in {"publishing", "failing"} =>
                current[w].event # e
    PROVE  OpenAfter(e)
<1>1. row[e] \in Row /\ row[e].inserted
  BY DEF IInv, TypeOK, Open
<1>2. row'[e] \in {row[e], [row[e] EXCEPT !.lock = "held"],
                   [row[e] EXCEPT !.lock = "expired"],
                   [row[e] EXCEPT !.waiting = FALSE]}
  <2>1. RowStep(e)
    BY EveryRowStep
  <2>2. ~\E w \in Workers :
           (MarkPublished(w) \/ RecordFailure(w)) /\ current[w].event = e
    BY DEF MarkPublished, RecordFailure
  <2>. QED  BY <1>1, <2>1, <2>2 DEF RowStep
<1>. QED  BY <1>1, <1>2 DEF Open, OpenAfter, Row

\* With one worker, what it has claimed is still open.
LEMMA StepClaimsAreOpen ==
    ASSUME SingleWorker, SoloInv, [Next]_vars
    PROVE  ClaimsAreOpen'
<1>. USE DEF SoloInv
<1>. SUFFICES ASSUME NEW w \in Workers
     PROVE  /\ \A k \in batch'[w] : OpenAfter(k.event)
            /\ \A k, l \in batch'[w] : k.event = l.event => k = l
            /\ step'[w] # "ready" =>
                 /\ OpenAfter(current'[w].event)
                 /\ \A k \in batch'[w] : k.event # current'[w].event
  BY DEF ClaimsAreOpen, Open, OpenAfter
<1>0. /\ batch \in [Workers -> SUBSET Claim] /\ batch' \in [Workers -> SUBSET Claim]
      /\ step \in [Workers -> Step] /\ row \in [Events -> Row]
  BY StepTypeOK DEF IInv, TypeOK
<1>1. \A k \in Claim : k.event \in Events
  BY DEF Claim
<1>2. ASSUME NEW k \in batch[w] PROVE OpenAfter(k.event)
  <2>1. \A v \in Workers : step[v] # "ready" => current[v].event # k.event
    BY DEF SingleWorker, ClaimsAreOpen
  <2>2. k.event \in Events /\ Open(k.event)
    BY <1>0, <1>1 DEF ClaimsAreOpen
  <2>. QED  BY <2>1, <2>2, OpenStaysOpen
<1>3. CASE step'[w] = step[w] /\ batch'[w] = batch[w] /\ current'[w] = current[w]
  <2>1. ASSUME step[w] # "ready" PROVE OpenAfter(current[w].event)
    <3>1. CASE step[w] \in {"publishing", "failing"}
      <4>1. ~\E v \in Workers : MarkPublished(v) \/ RecordFailure(v)
        BY <1>0, <1>3, <3>1 DEF SingleWorker, MarkPublished, RecordFailure, Finish, Leave
      <4>2. current[w].event \in Events /\ Open(current[w].event)
        BY <2>1, <1>1 DEF ClaimsAreOpen, IInv, ClaimsAreInserted
      <4>3. row'[current[w].event] \in
              {row[current[w].event], [row[current[w].event] EXCEPT !.lock = "held"],
               [row[current[w].event] EXCEPT !.lock = "expired"],
               [row[current[w].event] EXCEPT !.waiting = FALSE]}
        BY <4>1, <4>2, EveryRowStep DEF RowStep, Open
      <4>4. row[current[w].event] \in Row
        BY <1>0, <4>2
      <4>. QED  BY <4>2, <4>3, <4>4 DEF Open, OpenAfter, Row
    <3>2. CASE step[w] \notin {"publishing", "failing"}
      <4>1. current[w].event \in Events /\ Open(current[w].event)
        BY <2>1, <1>1 DEF ClaimsAreOpen, IInv, ClaimsAreInserted
      <4>. QED  BY <3>2, <4>1, OpenStaysOpen DEF SingleWorker
    <3>. QED  BY <3>1, <3>2
  <2>. QED  BY <1>2, <1>3, <2>1 DEF ClaimsAreOpen
<1>4. CASE ClaimBatch(w) /\ step'[w] = "ready"
  <2>1. PICK S \in SUBSET {e \in Events : Claimable(e)} :
           /\ batch' = [batch EXCEPT ![w] =
                          {[event |-> e, attempts |-> row[e].attempts] : e \in S}]
           /\ row' = [e \in Events |->
                        IF e \in S THEN ClaimedRow(row[e]) ELSE row[e]]
    BY <1>4 DEF ClaimBatch
  <2>2. batch'[w] = {[event |-> e, attempts |-> row[e].attempts] : e \in S}
    BY <1>0, <2>1
  <2>3. \A e \in S : OpenAfter(e)
    BY <1>0, <2>1 DEF Claimable, Open, OpenAfter, ClaimedRow, Row
  <2>. QED  BY <1>4, <2>2, <2>3
<1>5. ASSUME NEW k \in batch[w], batch'[w] = batch[w] \ {k}, current'[w] = k
      PROVE  /\ \A l \in batch'[w] : OpenAfter(l.event) /\ l.event # current'[w].event
             /\ \A l, m \in batch'[w] : l.event = m.event => l = m
             /\ OpenAfter(current'[w].event)
  BY <1>2, <1>5 DEF ClaimsAreOpen
<1>6. CASE /\ CallAccepted(w) \/ CallRefused(w) \/ MarkSent(w) \/ MarkFailed(w)
           /\ step[w] # "ready" /\ batch'[w] = batch[w] /\ current'[w] = current[w]
  <2>1. row' = row
    BY <1>6 DEF CallAccepted, CallRefused, MarkSent, MarkFailed
  <2>. QED  BY <1>2, <1>6, <2>1 DEF ClaimsAreOpen, Open, OpenAfter
<1>7. CASE step'[w] = "ready" /\ batch'[w] \subseteq batch[w]
  BY <1>2, <1>7 DEF ClaimsAreOpen
<1>. QED
  BY <1>3, <1>4, <1>5, <1>6, <1>7, EveryLocalStep DEF LocalStep

\* With one worker, a communication is SENDING exactly as its step says.
LEMMA StepStatusFollowsStep ==
    ASSUME SingleWorker, SoloInv, [Next]_vars
    PROVE  StatusFollowsStep'
<1>. USE DEF SoloInv
<1>. SUFFICES ASSUME NEW w \in Workers, step'[w] # "ready"
     PROVE  /\ step'[w] \in Posting => comm'[Subject(w)'] = "sending"
            /\ row'[current'[w].event].type = SendRequested =>
                 (step'[w] = "publishing" => comm'[Subject(w)'] = "sent")
  BY DEF StatusFollowsStep, Posting
<1>. DEFINE e == current'[w].event
<1>0. /\ step \in [Workers -> Step] /\ comm \in [Comms -> CommStatus]
  BY DEF IInv, TypeOK
<1>1. /\ e \in Events /\ row[e].inserted
      /\ row'[e].type = row[e].type /\ row'[e].subject = row[e].subject
      /\ row[e].type = SendRequested =>
           row[e].subject \in Comms /\ comm[row[e].subject] # "absent"
  <2>1. \/ step[w] # "ready" /\ current'[w] = current[w]
        \/ current'[w] \in batch[w]
    BY EveryLocalStep DEF LocalStep, IInv
  <2>2. e \in Events /\ row[e].inserted
    BY <2>1 DEF IInv, ClaimsAreInserted, TypeOK, Claim
  <2>. QED  BY <2>2, RowsKeepIdentity DEF IInv, RowsAreSound
<1>2. ASSUME UNCHANGED local,
             \A c \in Comms : comm[c] # "absent" => comm'[c] = comm[c]
      PROVE  /\ step'[w] \in Posting => comm'[Subject(w)'] = "sending"
             /\ row'[e].type = SendRequested =>
                  (step'[w] = "publishing" => comm'[Subject(w)'] = "sent")
  <2>1. step'[w] = step[w] /\ current'[w] = current[w]
    BY <1>2 DEF local
  <2>2. step[w] \in Posting => row[e].type = SendRequested
    BY <2>1 DEF IInv, SendsAreUnderWay
  <2>3. Subject(w)' = row[e].subject /\ Subject(w) = row[e].subject
    BY <1>1, <2>1 DEF Subject
  <2>. QED  BY <1>1, <1>2, <2>1, <2>2, <2>3 DEF StatusFollowsStep, Posting
<1>3. ASSUME NEW k \in batch[w], BeginSend(w, k), current'[w] = k
      PROVE  /\ row[e].type = SendRequested
             /\ \/ step'[w] = "publishing" /\ comm'[row[e].subject] = "sent"
                \/ step'[w] = "calling" /\ comm'[row[e].subject] = "sending"
                \/ step'[w] = "failing"
  BY <1>0, <1>1, <1>3 DEF BeginSend, Begin
<1>4. ASSUME NEW k \in batch[w], BeginOther(w, k), current'[w] = k
      PROVE  row[e].type # SendRequested /\ step'[w] \notin Posting
  BY <1>0, <1>4 DEF BeginOther, Begin, Posting
<1>5. ASSUME CallAccepted(w) \/ CallRefused(w) \/ MarkSent(w) \/ MarkFailed(w)
      PROVE  /\ row[e].type = SendRequested
             /\ \/ step'[w] \in {"answered", "raised"} /\ comm'[row[e].subject] = "sending"
                \/ step'[w] = "publishing" /\ comm'[row[e].subject] = "sent"
                \/ step'[w] = "failing"
  <2>1. step[w] \in Posting /\ current'[w] = current[w]
    BY <1>5 DEF CallAccepted, CallRefused, MarkSent, MarkFailed, Goto, Posting
  <2>2. /\ row[e].type = SendRequested /\ row[e].subject \in Comms
        /\ comm[row[e].subject] = "sending" /\ Subject(w) = row[e].subject
    BY <1>1, <2>1 DEF IInv, SendsAreUnderWay, StatusFollowsStep, Subject
  <2>. QED
    BY <1>0, <1>5, <2>2
    DEF CallAccepted, CallRefused, MarkSent, MarkFailed, Goto, StatusAfterError
<1>6. \/ UNCHANGED local /\ \A c \in Comms : comm[c] # "absent" => comm'[c] = comm[c]
      \/ \E k \in batch[w] : current'[w] = k /\ (BeginSend(w, k) \/ BeginOther(w, k))
      \/ CallAccepted(w) \/ CallRefused(w) \/ MarkSent(w) \/ MarkFailed(w)
  <2>1. ASSUME \/ \E c \in Comms, f \in Events : QueueCommunication(c, f)
               \/ \E f \in Events, type \in Types : AddEvent(f, type)
               \/ \E d \in deadLetters, f \in Events : RequeueDeadLetter(d, f)
               \/ \E f \in Events : LockExpires(f) \/ BackoffElapses(f)
               \/ UNCHANGED vars
        PROVE  UNCHANGED local /\ \A c \in Comms : comm[c] # "absent" => comm'[c] = comm[c]
    BY <1>0, <2>1 DEF QueueCommunication, AddEvent, RequeueDeadLetter, LockExpires,
                BackoffElapses, vars, local
  <2>2. ASSUME NEW v \in Workers,
               \/ ClaimBatch(v) \/ MarkPublished(v) \/ RecordFailure(v) \/ Crash(v)
        PROVE  FALSE
    <3>1. v = w
      BY DEF SingleWorker
    <3>. QED
      BY <1>0, <2>2, <3>1 DEF ClaimBatch, MarkPublished, RecordFailure, Finish, Crash, Leave
  <2>3. ASSUME NEW v \in Workers, NEW k \in batch[v], BeginSend(v, k) \/ BeginOther(v, k)
        PROVE  v = w /\ k \in batch[w] /\ current'[w] = k
    <3>1. v = w
      BY DEF SingleWorker
    <3>2. current \in [Workers -> Claim \cup {NoClaim}]
      BY DEF IInv, TypeOK
    <3>. QED  BY <2>3, <3>1, <3>2 DEF BeginSend, BeginOther, Begin
  <2>. QED  BY <2>1, <2>2, <2>3 DEF Next, Dispatch, Works, Begins, SingleWorker
<1>7. Subject(w)' = row[e].subject
  BY <1>1 DEF Subject
<1>. QED  BY <1>1, <1>2, <1>3, <1>4, <1>5, <1>6, <1>7 DEF Posting

\* With one worker, no step settles the last event of a communication on its way.
LEMMA StepInFlightHasCarrier ==
    ASSUME SingleWorker, SoloInv, [Next]_vars
    PROVE  InFlightHasCarrier'
<1>. USE DEF SoloInv
<1>. DEFINE InFlight == {"queued", "sending", "failed", "unknown"}
<1>. SUFFICES ASSUME NEW c \in Comms, comm'[c] \in InFlight
              PROVE  \E e \in Events : OpenAfter(e) /\ row'[e].subject = c
  BY DEF InFlightHasCarrier, Open, OpenAfter
<1>0. row \in [Events -> Row] /\ step \in [Workers -> Step]
  BY DEF IInv, TypeOK
<1>1. CASE comm[c] = "absent" /\ \E e \in Events : QueueCommunication(c, e)
  <2>1. PICK e \in Events : QueueCommunication(c, e)
    BY <1>1
  <2>2. row'[e] = NewRow(SendRequested, c)
    BY <1>0, <2>1 DEF QueueCommunication
  <2>. QED  BY <2>2 DEF OpenAfter, NewRow
<1>2. CASE comm[c] \in InFlight
  <2>1. PICK e \in Events : Open(e) /\ row[e].subject = c
    BY <1>2 DEF InFlightHasCarrier
  <2>2. row[e].inserted /\ row[e].type = SendRequested /\ row[e] \in Row
    BY <1>0, <2>1, OutboxAssumption DEF Open, RowsAreSound, IInv
  <2>3. row'[e].inserted /\ row'[e].subject = c
    BY <2>1, <2>2, RowsKeepIdentity DEF IInv
  <2>4. ASSUME NEW w \in Workers, MarkPublished(w), current[w].event = e
        PROVE  FALSE
    BY <1>2, <2>1, <2>2, <2>4 DEF MarkPublished, StatusFollowsStep, Subject
  <2>5. ASSUME NEW w \in Workers, RecordFailure(w), current[w].event = e,
               row'[e] = Failed(row[e], current[w])
        PROVE  ~row'[e].published /\ ~row'[e].dead
    <3>1. ~(current[w].attempts + 1 >= MaxAttempts)
      <4>1. comm \in [Comms -> CommStatus] /\ ~SettledByAnother(e)
        BY <2>1 DEF IInv, TypeOK, Open, SettledByAnother
      <4>2. LastAttempt(current[w]) => row'[e].dead /\ row'[e] # row[e]
        BY <2>1, <2>2, <2>5 DEF LastAttempt, Failed, Open, Row
      <4>3. LastAttempt(current[w]) => row' = row \/ comm' = BuriedComm(row[e].subject)
        BY <2>5, <4>1 DEF RecordFailure
      <4>. QED  BY <2>1, <4>1, <4>2, <4>3 DEF LastAttempt, BuriedComm
    <3>. QED  BY <2>1, <2>2, <2>5, <3>1 DEF Open, Failed, Row
  <2>6. ASSUME row'[e] \in {row[e], [row[e] EXCEPT !.lock = "held"],
                            [row[e] EXCEPT !.lock = "expired"],
                            [row[e] EXCEPT !.waiting = FALSE]}
        PROVE  ~row'[e].published /\ ~row'[e].dead
    BY <2>1, <2>2, <2>6 DEF Open, Row
  <2>7. \/ row'[e] \in {row[e], [row[e] EXCEPT !.lock = "held"],
                       [row[e] EXCEPT !.lock = "expired"],
                       [row[e] EXCEPT !.waiting = FALSE]}
        \/ \E w \in Workers : /\ RecordFailure(w) /\ current[w].event = e
                              /\ row'[e] = Failed(row[e], current[w])
    BY <2>2, <2>4, EveryRowStep DEF RowStep
  <2>. QED  BY <2>3, <2>5, <2>6, <2>7 DEF OpenAfter
<1>3. ASSUME NEW w \in Workers, MarkFailed(w), Subject(w) = c
      PROVE  comm[c] = "sending"
  BY <1>3 DEF MarkFailed, StatusFollowsStep, Posting
<1>. QED
  BY <1>1, <1>2, <1>3, EveryCommStep DEF CommStep, Sendable

\* A dead letter is written by the worker that records the failure of its event.
LEMMA EveryLetterStep ==
    ASSUME [Next]_vars
    PROVE  \A e : (e \in deadLetters' <=> e \in deadLetters)
                     \/ \E w \in Workers : RecordFailure(w) /\ current[w].event = e
<1>1. ASSUME NEW e, NEW w \in Workers, RecordFailure(w), current[w].event # e
      PROVE  e \in deadLetters' <=> e \in deadLetters
  BY <1>1 DEF RecordFailure
<1>2. ASSUME ~\E w \in Workers : RecordFailure(w)
      PROVE  deadLetters' = deadLetters
  BY <1>2
  DEF Next, Dispatch, Works, Begins, QueueCommunication, AddEvent, RequeueDeadLetter,
      ClaimBatch, BeginSend, BeginOther, CallAccepted, CallRefused, MarkSent, MarkFailed,
      MarkPublished, Crash, LockExpires, BackoffElapses, vars
<1>. QED  BY <1>1, <1>2

\* With one worker, no step publishes a dead-lettered event or the reverse, the step
\* that marks an event dead-lettered writes its dead letter, and no later one is due.
LEMMA StepOneOutcome ==
    ASSUME SingleWorker, SoloInv, [Next]_vars
    PROVE  OneOutcome'
<1>. USE DEF SoloInv
<1>0. row \in [Events -> Row] /\ deadLetters \subseteq Events
  BY DEF IInv, TypeOK
<1>1. ASSUME NEW e \in Events PROVE ~(row'[e].published /\ row'[e].dead)
  <2>1. ~(row[e].published /\ row[e].dead) /\ row[e] \in Row
    BY <1>0 DEF OneOutcome
  <2>2. CASE row'[e] \in {row[e], [row[e] EXCEPT !.lock = "held"],
                          [row[e] EXCEPT !.lock = "expired"],
                          [row[e] EXCEPT !.waiting = FALSE]}
    BY <2>1, <2>2 DEF Row
  <2>3. CASE \/ \E c \in Comms : QueueCommunication(c, e)
             \/ \E type \in Types : AddEvent(e, type)
             \/ \E d \in deadLetters : RequeueDeadLetter(d, e)
    BY <1>0, <2>3 DEF QueueCommunication, AddEvent, RequeueDeadLetter, NewRow
  <2>4. ASSUME NEW w \in Workers, MarkPublished(w) \/ RecordFailure(w),
               current[w].event = e
        PROVE  Open(e)
    BY <2>4 DEF ClaimsAreOpen, MarkPublished, RecordFailure
  <2>5. ASSUME row'[e] = [row[e] EXCEPT !.published = TRUE, !.lock = "free"], Open(e)
        PROVE  ~row'[e].dead
    BY <2>1, <2>5 DEF Open, Row
  <2>6. ASSUME NEW k, row'[e] = Failed(row[e], k), Open(e)
        PROVE  ~row'[e].published
    BY <2>1, <2>6 DEF Open, Failed, Row
  <2>. QED  BY <2>2, <2>3, <2>4, <2>5, <2>6, EveryRowStep DEF RowStep
<1>2. ASSUME NEW e \in Events
      PROVE  row'[e].dead <=> e \in deadLetters'
  <2>1. row[e].dead <=> e \in deadLetters
    BY DEF OneOutcome
  <2>2. ASSUME NEW w \in Workers, RecordFailure(w), current[w].event = e
        PROVE  row'[e].dead <=> e \in deadLetters'
    <3>1. Open(e) /\ ~SettledByAnother(e) /\ e \notin deadLetters
      BY <2>1, <2>2 DEF ClaimsAreOpen, RecordFailure, Open, SettledByAnother
    <3>2. row'[e] = Failed(row[e], current[w])
      BY <1>0, <2>2, <3>1 DEF RecordFailure
    <3>3. row'[e].dead <=> row[e].dead \/ current[w].attempts + 1 >= MaxAttempts
      <4>1. row[e] \in Row
        BY <1>0
      <4>2. row'[e].dead = (row[e].dead \/ current[w].attempts + 1 >= MaxAttempts)
        BY <3>2, <4>1 DEF Failed, Row
      <4>. QED  BY <4>2
    <3>4. e \in deadLetters' <=> LastAttempt(current[w])
      BY <1>0, <2>2, <3>1 DEF RecordFailure
    <3>. QED  BY <3>1, <3>3, <3>4 DEF Open, LastAttempt
  <2>3. CASE ~\E w \in Workers : RecordFailure(w) /\ current[w].event = e
    <3>1. e \in deadLetters' <=> e \in deadLetters
      BY <2>3, EveryLetterStep
    <3>2. ASSUME \/ \E c \in Comms : QueueCommunication(c, e)
                 \/ \E type \in Types : AddEvent(e, type)
                 \/ \E d \in deadLetters : RequeueDeadLetter(d, e)
          PROVE  ~row'[e].dead /\ e \notin deadLetters
      <4>1. ~row[e].inserted /\ ~row'[e].dead
        BY <1>0, <3>2 DEF QueueCommunication, AddEvent, RequeueDeadLetter, NewRow
      <4>. QED  BY <4>1 DEF IInv, ClaimsAreInserted
    <3>3. ASSUME NEW w \in Workers, MarkPublished(w), current[w].event = e
          PROVE  row'[e].dead = row[e].dead
      BY <1>0, <3>3 DEF MarkPublished, Row
    <3>4. CASE row'[e] \in {row[e], [row[e] EXCEPT !.lock = "held"],
                            [row[e] EXCEPT !.lock = "expired"],
                            [row[e] EXCEPT !.waiting = FALSE]}
      <4>1. row[e] \in Row
        BY <1>0
      <4>2. row'[e].dead = row[e].dead
        BY <3>4, <4>1 DEF Row
      <4>. QED  BY <2>1, <3>1, <4>2
    <3>. QED  BY <2>1, <2>3, <3>1, <3>2, <3>3, <3>4, EveryRowStep DEF RowStep
  <2>. QED  BY <2>2, <2>3
<1>3. ASSUME NEW w \in Workers, step'[w] = "failing"
      PROVE  current'[w].event \notin deadLetters'
  <2>1. ClaimsAreOpen' /\ TypeOK'
    BY StepClaimsAreOpen, StepTypeOK DEF IInv
  <2>2. ~row'[current'[w].event].dead
    BY <1>3, <2>1 DEF ClaimsAreOpen, Open
  <2>. QED  BY <1>2, <2>1, <2>2 DEF TypeOK
<1>. QED  BY <1>1, <1>2, <1>3 DEF OneOutcome

\* With one worker, the stronger invariant is inductive.
LEMMA StepSoloInv == ASSUME SingleWorker PROVE SoloInv /\ [Next]_vars => SoloInv'
<1>. SUFFICES ASSUME SoloInv, [Next]_vars PROVE SoloInv'
  OBVIOUS
<1>1. IInv'
  BY StepIInv DEF SoloInv
<1>. QED
  BY <1>1, StepClaimsAreOpen, StepStatusFollowsStep, StepInFlightHasCarrier,
     StepOneOutcome
  DEF SoloInv

\* With one worker the stronger invariant holds.
THEOREM SoloInvariance == ASSUME SingleWorker PROVE Spec => []SoloInv
  BY InitSoloInv, StepSoloInv, PTL DEF Spec

\* With one worker, a communication on its way has an event that will be claimed
\* again, whatever stops in the middle of a send.
THEOREM InFlightIsCarried == ASSUME SingleWorker PROVE Spec => []InFlightHasCarrier
<1>1. SoloInv => InFlightHasCarrier
  BY DEF SoloInv
<1>. QED  BY <1>1, SoloInvariance, PTL

\* With one worker no event is both published and dead-lettered, a dead-lettered one
\* has its dead letter, and no failure runs into the unique key of the dead letters,
\* whichever claims expired, were retried or were cut short.
THEOREM OneOutcomePerEvent == ASSUME SingleWorker PROVE Spec => []OneOutcome
<1>1. SoloInv => OneOutcome
  BY DEF SoloInv
<1>. QED  BY <1>1, SoloInvariance, PTL

\* A step of a worker on the communication c is a step of the send event it holds.
LEMMA SubjectIsSent ==
    ASSUME SoloInv, NEW w \in Workers, step[w] # "ready", Subject(w) \in Comms
    PROVE  row[current[w].event].type = SendRequested
<1>1. current[w].event \in Events /\ row[current[w].event].inserted
  BY DEF SoloInv, IInv, ClaimsAreInserted, Claim
<1>. QED  BY <1>1, OutboxAssumption DEF SoloInv, IInv, RowsAreSound, Subject

\* With one worker a dead-lettered communication is never sent again.
THEOREM DeadLetterStaysDead == ASSUME SingleWorker PROVE Spec => DeadLetterIsFinal
<1>1. ASSUME SoloInv, [Next]_vars
      PROVE  [\A c \in Comms : comm[c] = "dead_letter" => comm'[c] = "dead_letter"]_vars
  <2>1. ASSUME NEW c \in Comms, comm[c] = "dead_letter" PROVE comm'[c] = "dead_letter"
    <3>1. ~\E w \in Workers : (MarkSent(w) \/ MarkFailed(w)) /\ Subject(w) = c
      BY <1>1, <2>1 DEF MarkSent, MarkFailed, SoloInv, StatusFollowsStep, Posting
    <3>. QED
      BY <1>1, <2>1, <3>1, EveryCommStep DEF CommStep, Sendable, SoloInv
  <2>. QED  BY <2>1
<1>. QED  BY <1>1, SoloInvariance, PTL DEF Spec, DeadLetterIsFinal

-----------------------------------------------------------------------------
(* Part two: the review gate in front of the outbox *)

(* The inductive invariant *)

\* A package has an approval exactly when it is approved, and then one.
ApprovalIsFinal ==
    \A p \in Packages :
        IF package[p].status = "approved"
          THEN /\ approval[p].n = 1 /\ approval[p].content \in Contents
               /\ package[p].approvedHash = approval[p].content
          ELSE approval[p] = NoApproval

\* A package that exists has a proposed text.
ProposalExists ==
    \A p \in Packages :
        package[p].status # "absent" => package[p].proposed \in Contents

\* A communication carries the approval of its package.
MailCarriesApproval ==
    \A c \in Comms : comm[c] # "absent" =>
        /\ mail[c] \in Mail
        /\ mail[c].n = 1 /\ approval[mail[c].package].n = 1
        /\ mail[c].content = approval[mail[c].package].content

\* No two communications are of one package.
OneMailPerPackage ==
    \A c, d \in Comms :
        comm[c] # "absent" /\ comm[d] # "absent" /\ mail[c].package = mail[d].package
            => c = d

\* What Feishu accepted was queued.
AcceptedWasQueued == \A c \in accepted : c \in Comms /\ comm[c] # "absent"

RInv ==
    /\ IInv
    /\ ReviewTypeOK
    /\ ApprovalIsFinal
    /\ ProposalExists
    /\ MailCarriesApproval
    /\ OneMailPerPackage
    /\ AcceptedWasQueued

-----------------------------------------------------------------------------
(* Steps of the review gate are steps of the outbox *)

\* Every step of the composition is a step of the outbox.
LEMMA ReviewStepIsStep == [ReviewNext]_allVars => [Next]_vars
<1>. USE ReviewAssumption DEF ReviewEvents
<1>1. ASSUME NEW p, NEW x, NEW e \in Events, CreateReviewPackage(p, x, e)
      PROVE  Next
  BY <1>1 DEF CreateReviewPackage, Next
<1>2. ASSUME NEW p, NEW x, SynthesiseReviewPackage(p, x) PROVE UNCHANGED vars
  BY <1>2 DEF SynthesiseReviewPackage
<1>3. ASSUME NEW p, SubmitReviewPackage(p) PROVE UNCHANGED vars
  BY <1>3 DEF SubmitReviewPackage
<1>4. ASSUME NEW p, NEW x, NEW e \in Events, ApprovePackage(p, x, e) PROVE Next
  BY <1>4 DEF ApprovePackage, Next
<1>5. ASSUME NEW p, NEW e \in Events, DeclinePackage(p, e) PROVE Next
  BY <1>5 DEF DeclinePackage, Next
<1>6. ASSUME NEW p, NEW c \in Comms, NEW e \in Events, QueueApproved(p, c, e) PROVE Next
  BY <1>6 DEF QueueApproved, Next
<1>7. ASSUME NEW m, NEW s, NEW e \in Events, ReviewMatterUpdate(m, s, e) PROVE Next
  BY <1>7 DEF ReviewMatterUpdate, Next
<1>8. ASSUME UNCHANGED allVars PROVE UNCHANGED vars
  BY <1>8 DEF allVars
<1>9. ASSUME Dispatch PROVE Next
  BY <1>9 DEF Next
<1>. QED
  BY <1>1, <1>2, <1>3, <1>4, <1>5, <1>6, <1>7, <1>8, <1>9 DEF ReviewNext, Review

\* What a dispatch does to a communication that was not queued yet: nothing.
LEMMA DispatchQueuesNothing ==
    ASSUME IInv, Dispatch, NEW c \in Comms, comm[c] = "absent"
    PROVE  comm'[c] = "absent"
<1>. USE DEF IInv
<1>0. comm \in [Comms -> CommStatus]
  BY DEF TypeOK
<1>1. ASSUME \/ \E d \in deadLetters, e \in Events : RequeueDeadLetter(d, e)
             \/ \E e \in Events : LockExpires(e) \/ BackoffElapses(e)
             \/ \E w \in Workers :
                   \/ ClaimBatch(w) \/ CallAccepted(w) \/ CallRefused(w)
                   \/ MarkPublished(w) \/ Crash(w)
      PROVE  comm' = comm
  BY <1>1 DEF RequeueDeadLetter, LockExpires, BackoffElapses, ClaimBatch,
              CallAccepted, CallRefused, MarkPublished, Crash
<1>2. ASSUME NEW w \in Workers, NEW k \in batch[w], BeginSend(w, k) \/ BeginOther(w, k)
      PROVE  comm'[c] = "absent"
  <2>. DEFINE d == row[k.event].subject
  <2>1. comm' = comm \/ (comm[d] \in Sendable /\ comm' = [comm EXCEPT ![d] = "sending"])
    BY <1>2 DEF BeginSend, BeginOther
  <2>2. CASE d = c
    BY <1>0, <2>1, <2>2 DEF Sendable
  <2>3. CASE d # c
    <3>. HIDE DEF d
    <3>. QED  BY <1>0, <2>1, <2>3
  <2>. QED  BY <2>2, <2>3
<1>3. ASSUME NEW w \in Workers, MarkSent(w) \/ MarkFailed(w) \/ RecordFailure(w)
      PROVE  comm'[c] = "absent"
  <2>. DEFINE d == Subject(w)
  <2>1. \/ comm' = comm
        \/ \E v : comm' = [comm EXCEPT ![d] = v]
    BY <1>3 DEF MarkSent, MarkFailed, RecordFailure, BuriedComm, Subject
  <2>2. CASE d = c
    <3>1. current[w].event \in Events /\ row[current[w].event].inserted
      BY <1>3 DEF MarkSent, MarkFailed, RecordFailure, ClaimsAreInserted, Claim
    <3>. QED  BY <2>2, <3>1, OutboxAssumption DEF RowsAreSound, Subject
  <2>3. CASE d # c
    <3>. HIDE DEF d
    <3>. QED  BY <1>0, <2>1, <2>3
  <2>. QED  BY <2>2, <2>3
<1>. QED  BY <1>1, <1>2, <1>3 DEF Dispatch, Works, Begins

\* Only a call adds to what Feishu has accepted, and what it adds was queued.
LEMMA AcceptedStep ==
    ASSUME IInv, [Next]_vars
    PROVE  \/ accepted' = accepted
           \/ \E w \in Workers :
                 /\ CallAccepted(w) /\ accepted' = accepted \cup {Subject(w)}
                 /\ Subject(w) \in Comms /\ comm[Subject(w)] # "absent"
<1>1. ASSUME NEW w \in Workers, CallAccepted(w)
      PROVE  Subject(w) \in Comms /\ comm[Subject(w)] # "absent"
  <2>1. /\ current[w].event \in Events /\ row[current[w].event].inserted
        /\ row[current[w].event].type = SendRequested
    BY <1>1 DEF CallAccepted, IInv, ClaimsAreInserted, SendsAreUnderWay, Claim, Posting
  <2>. QED  BY <2>1 DEF IInv, RowsAreSound, Subject
<1>2. ASSUME NEW w \in Workers, CallAccepted(w)
      PROVE  accepted' = accepted \cup {Subject(w)}
  BY <1>2 DEF CallAccepted
<1>. QED
  BY <1>1, <1>2
  DEF Next, Dispatch, Works, Begins, QueueCommunication, AddEvent, RequeueDeadLetter,
      ClaimBatch, BeginSend, BeginOther, CallRefused, MarkSent, MarkFailed,
      MarkPublished, RecordFailure, Crash, LockExpires, BackoffElapses, vars

-----------------------------------------------------------------------------
(* The conjuncts of the invariant *)

\* The steps that move the package p, to which they leave the mail as it is.
PackageStep(p) ==
    \/ \E x \in Contents, e \in Events : CreateReviewPackage(p, x, e)
    \/ \E x \in Contents : SynthesiseReviewPackage(p, x)
    \/ SubmitReviewPackage(p)
    \/ \E final \in Text, e \in Events : ApprovePackage(p, final, e)
    \/ \E e \in Events : DeclinePackage(p, e)

\* A step moves one package, sets a matter's status, queues a mail or dispatches.
LEMMA EveryReviewStep ==
    ASSUME [ReviewNext]_allVars
    PROVE  \/ /\ comm' = comm /\ mail' = mail /\ accepted' = accepted
              /\ \/ UNCHANGED <<package, approval>>
                 \/ \E p \in Packages : PackageStep(p)
           \/ \E p \in Packages, c \in Comms, e \in Events : QueueApproved(p, c, e)
           \/ Dispatch /\ UNCHANGED reviewVars
<1>1. ASSUME NEW p \in Packages, PackageStep(p)
      PROVE  comm' = comm /\ mail' = mail /\ accepted' = accepted
  BY <1>1 DEF PackageStep, CreateReviewPackage, SynthesiseReviewPackage,
              SubmitReviewPackage, ApprovePackage, DeclinePackage, AddEvent, vars
<1>2. ASSUME NEW m, NEW s, NEW e, ReviewMatterUpdate(m, s, e)
      PROVE  /\ comm' = comm /\ mail' = mail /\ accepted' = accepted
             /\ UNCHANGED <<package, approval>>
  BY <1>2 DEF ReviewMatterUpdate, AddEvent
<1>3. ASSUME UNCHANGED allVars
      PROVE  /\ comm' = comm /\ mail' = mail /\ accepted' = accepted
             /\ UNCHANGED <<package, approval>>
  BY <1>3 DEF allVars, vars, reviewVars
<1>4. ASSUME Review
      PROVE  \/ \E p \in Packages : PackageStep(p)
             \/ \E p \in Packages, c \in Comms, e \in Events : QueueApproved(p, c, e)
             \/ \E m \in Matters, s \in WorkStatuses, e \in Events :
                   ReviewMatterUpdate(m, s, e)
  BY <1>4 DEF Review, PackageStep
<1>. QED  BY <1>1, <1>2, <1>3, <1>4 DEF ReviewNext

\* The invariant holds of the empty tables.
LEMMA InitRInv == ReviewInit => RInv
<1>. SUFFICES ASSUME ReviewInit PROVE RInv
  OBVIOUS
<1>1. IInv
  BY InitIInv DEF ReviewInit
<1>2. ReviewTypeOK
  BY DEF ReviewInit, ReviewTypeOK, NoPackage, Package, PackageStatus, NoApproval,
         Approval, Text
<1>3. ApprovalIsFinal /\ ProposalExists
  BY DEF ReviewInit, ApprovalIsFinal, ProposalExists, NoPackage
<1>4. MailCarriesApproval /\ OneMailPerPackage /\ AcceptedWasQueued
  BY DEF ReviewInit, Init, MailCarriesApproval, OneMailPerPackage, AcceptedWasQueued
<1>. QED  BY <1>1, <1>2, <1>3, <1>4 DEF RInv

\* An approval records a text: the reviewer's, or the one proposed.
LEMMA ApprovedContentIsText ==
    ASSUME RInv, NEW p \in Packages, NEW final \in Text, Reviewable(p)
    PROVE  ApprovedContent(p, final) \in Contents
  BY DEF RInv, ProposalExists, Reviewable, ApprovedContent, Text

\* Every step keeps the tables of the review gate typed.
LEMMA StepReviewTypeOK == ASSUME RInv, [ReviewNext]_allVars PROVE ReviewTypeOK'
<1>. USE DEF RInv, ReviewTypeOK
<1>1. ASSUME NEW p \in Packages, PackageStep(p)
      PROVE  /\ package' \in [Packages -> Package]
             /\ approval' \in [Packages -> Approval]
             /\ workStatus' = workStatus
  <2>1. CASE \E final \in Text, e \in Events : ApprovePackage(p, final, e)
    <3>1. PICK final \in Text, e \in Events : ApprovePackage(p, final, e)
      BY <2>1
    <3>. DEFINE x == ApprovedContent(p, final)
    <3>2. x \in Contents
      BY <3>1, ApprovedContentIsText DEF ApprovePackage
    <3>3. /\ package' = [package EXCEPT ![p].status = "approved", ![p].approvedHash = x]
          /\ approval' = [approval EXCEPT ![p] = [n |-> approval[p].n + 1, content |-> x]]
          /\ workStatus' = workStatus
      BY <3>1 DEF ApprovePackage
    <3>. HIDE DEF x
    <3>4. [n |-> approval[p].n + 1, content |-> x] \in Approval
      BY <3>2 DEF Approval, Text
    <3>5. [[package[p] EXCEPT !.status = "approved"] EXCEPT !.approvedHash = x] \in Package
      BY <3>2 DEF Package, PackageStatus, Text
    <3>. QED  BY <3>3, <3>4, <3>5
  <2>2. CASE \/ \E x \in Contents, e \in Events : CreateReviewPackage(p, x, e)
             \/ \E x \in Contents : SynthesiseReviewPackage(p, x)
    BY <2>2 DEF CreateReviewPackage, SynthesiseReviewPackage, NewPackage, Package,
                PackageStatus, Text
  <2>3. CASE SubmitReviewPackage(p) \/ \E e \in Events : DeclinePackage(p, e)
    BY <2>3 DEF SubmitReviewPackage, DeclinePackage, Package, PackageStatus
  <2>. QED  BY <1>1, <2>1, <2>2, <2>3 DEF PackageStep
<1>2. ASSUME NEW p \in Packages, NEW c \in Comms, NEW e \in Events,
             QueueApproved(p, c, e)
      PROVE  mail' \in [Comms -> Mail \cup {NoMail}]
  <2>1. approval[p].content \in Contents /\ approval[p].n \in Nat
    BY <1>2 DEF QueueApproved, ApprovalIsFinal, Approval
  <2>2. [package |-> p, n |-> approval[p].n, content |-> QueuedContent(p)] \in Mail
    BY <2>1 DEF Mail, QueuedContent
  <2>. QED  BY <1>2, <2>2 DEF QueueApproved
<1>3. workStatus' \in [Matters -> WorkStatuses \cup {"ready"}]
  <2>1. \/ workStatus' = workStatus
        \/ \E m \in Matters, s \in WorkStatuses :
              workStatus' = [workStatus EXCEPT ![m] = s]
    BY <1>1 DEF ReviewNext, Review, PackageStep, QueueApproved, ReviewMatterUpdate,
                allVars, reviewVars
  <2>. QED  BY <2>1
<1>. QED
  BY <1>1, <1>2, <1>3, EveryReviewStep DEF reviewVars, QueueApproved

\* A decided package keeps its decision; the first approval is the only one.
LEMMA StepApprovalIsFinal == ASSUME RInv, [ReviewNext]_allVars PROVE ApprovalIsFinal'
<1>. USE DEF RInv
<1>1. ASSUME NEW p \in Packages, PackageStep(p)
      PROVE  ApprovalIsFinal'
  <2>1. CASE \E final \in Text, e \in Events : ApprovePackage(p, final, e)
    <3>1. PICK final \in Text, e \in Events : ApprovePackage(p, final, e)
      BY <2>1
    <3>. DEFINE x == ApprovedContent(p, final)
    <3>2. x \in Contents /\ approval[p].n = 0
      BY <3>1, ApprovedContentIsText
      DEF ApprovePackage, Reviewable, ApprovalIsFinal, NoApproval
    <3>3. /\ package' = [package EXCEPT ![p].status = "approved", ![p].approvedHash = x]
          /\ approval' = [approval EXCEPT ![p] = [n |-> approval[p].n + 1, content |-> x]]
      BY <3>1 DEF ApprovePackage
    <3>. HIDE DEF x
    <3>. QED  BY <3>2, <3>3 DEF ApprovalIsFinal, ReviewTypeOK, Package, NoApproval
  <2>2. CASE \/ \E x \in Contents, e \in Events : CreateReviewPackage(p, x, e)
             \/ \E x \in Contents : SynthesiseReviewPackage(p, x)
    BY <2>2 DEF CreateReviewPackage, SynthesiseReviewPackage, NewPackage,
                ApprovalIsFinal, ReviewTypeOK
  <2>3. CASE SubmitReviewPackage(p) \/ \E e \in Events : DeclinePackage(p, e)
    BY <2>3 DEF SubmitReviewPackage, DeclinePackage, Reviewable, ApprovalIsFinal,
                ReviewTypeOK, Package
  <2>. QED  BY <1>1, <2>1, <2>2, <2>3 DEF PackageStep
<1>2. ASSUME UNCHANGED <<package, approval>> PROVE ApprovalIsFinal'
  BY <1>2 DEF ApprovalIsFinal
<1>. QED  BY <1>1, <1>2, EveryReviewStep DEF reviewVars, QueueApproved

\* Nothing removes the proposed text of a package.
LEMMA StepProposalExists == ASSUME RInv, [ReviewNext]_allVars PROVE ProposalExists'
<1>. USE DEF RInv
<1>1. ASSUME NEW p \in Packages, PackageStep(p)
      PROVE  ProposalExists'
  <2>1. CASE \/ \E x \in Contents, e \in Events : CreateReviewPackage(p, x, e)
             \/ \E x \in Contents : SynthesiseReviewPackage(p, x)
    BY <2>1 DEF CreateReviewPackage, SynthesiseReviewPackage, NewPackage,
                ProposalExists, ReviewTypeOK
  <2>2. CASE \/ SubmitReviewPackage(p) \/ \E e \in Events : DeclinePackage(p, e)
             \/ \E final \in Text, e \in Events : ApprovePackage(p, final, e)
    <3>1. package[p].status # "absent"
      BY <2>2 DEF SubmitReviewPackage, DeclinePackage, ApprovePackage, Reviewable
    <3>2. /\ \A q \in Packages \ {p} : package'[q] = package[q]
          /\ package'[p].proposed = package[p].proposed
      BY <2>2 DEF SubmitReviewPackage, DeclinePackage, ApprovePackage, ReviewTypeOK,
                  Package
    <3>. QED  BY <3>1, <3>2 DEF ProposalExists
  <2>. QED  BY <1>1, <2>1, <2>2 DEF PackageStep
<1>2. ASSUME UNCHANGED package PROVE ProposalExists'
  BY <1>2 DEF ProposalExists
<1>. QED  BY <1>1, <1>2, EveryReviewStep DEF reviewVars, QueueApproved

\* A mail carries the only approval of its package from the start, and neither
\* changes.
LEMMA StepMailCarriesApproval ==
    ASSUME RInv, [ReviewNext]_allVars PROVE MailCarriesApproval'
<1>. USE DEF RInv
<1>1. ASSUME NEW p \in Packages, PackageStep(p),
             comm' = comm, mail' = mail
      PROVE  MailCarriesApproval'
  <2>1. ASSUME NEW q \in Packages, approval[q].n = 1
        PROVE  approval'[q] = approval[q]
    <3>1. package[q].status = "approved"
      BY <2>1 DEF ApprovalIsFinal, NoApproval
    <3>2. approval' = approval \/ (package[p].status # "approved"
                                    /\ \E a : approval' = [approval EXCEPT ![p] = a])
      BY <1>1 DEF PackageStep, CreateReviewPackage, SynthesiseReviewPackage,
                  SubmitReviewPackage, DeclinePackage, ApprovePackage, Reviewable
    <3>. QED  BY <3>1, <3>2 DEF ReviewTypeOK
  <2>. QED  BY <1>1, <2>1 DEF MailCarriesApproval, Mail
<1>2. ASSUME comm' = comm, mail' = mail, UNCHANGED approval
      PROVE  MailCarriesApproval'
  BY <1>2 DEF MailCarriesApproval
<1>3. ASSUME NEW p \in Packages, NEW c \in Comms, NEW e \in Events,
             QueueApproved(p, c, e)
      PROVE  MailCarriesApproval'
  <2>1. approval[p].n = 1 /\ approval[p].content \in Contents
    BY <1>3 DEF QueueApproved, ApprovalIsFinal
  <2>2. /\ mail' = [mail EXCEPT ![c] = [package |-> p, n |-> approval[p].n,
                                        content |-> approval[p].content]]
        /\ comm' = [comm EXCEPT ![c] = "queued"] /\ approval' = approval
    BY <1>3 DEF QueueApproved, QueueCommunication, QueuedContent
  <2>3. [package |-> p, n |-> approval[p].n, content |-> approval[p].content] \in Mail
    BY <2>1 DEF Mail
  <2>. QED  BY <2>1, <2>2, <2>3 DEF MailCarriesApproval, ReviewTypeOK, IInv, TypeOK
<1>4. ASSUME Dispatch, UNCHANGED reviewVars
      PROVE  MailCarriesApproval'
  BY <1>4, DispatchQueuesNothing DEF MailCarriesApproval, reviewVars
<1>. QED  BY <1>1, <1>2, <1>3, <1>4, EveryReviewStep

\* A second mail of a package would be of the approval that has one.
LEMMA StepOneMailPerPackage ==
    ASSUME RInv, [ReviewNext]_allVars PROVE OneMailPerPackage'
<1>. USE DEF RInv
<1>1. ASSUME comm' = comm, mail' = mail PROVE OneMailPerPackage'
  BY <1>1 DEF OneMailPerPackage
<1>2. ASSUME NEW p \in Packages, NEW c \in Comms, NEW e \in Events,
             QueueApproved(p, c, e)
      PROVE  OneMailPerPackage'
  <2>1. approval[p].n = 1
    BY <1>2 DEF QueueApproved, ApprovalIsFinal
  <2>2. /\ mail' = [mail EXCEPT ![c] = [package |-> p, n |-> approval[p].n,
                                        content |-> approval[p].content]]
        /\ comm' = [comm EXCEPT ![c] = "queued"]
    BY <1>2 DEF QueueApproved, QueueCommunication, QueuedContent
  <2>3. \A d \in Comms : comm[d] # "absent" => mail[d].package # p
    BY <1>2, <2>1 DEF QueueApproved, AlreadyQueued, MailCarriesApproval
  <2>4. \A d \in Comms \ {c} : mail'[d] = mail[d] /\ comm'[d] = comm[d]
    BY <2>2 DEF ReviewTypeOK, IInv, TypeOK
  <2>5. mail'[c].package = p
    BY <2>2 DEF ReviewTypeOK
  <2>. QED  BY <2>3, <2>4, <2>5 DEF OneMailPerPackage
<1>3. ASSUME Dispatch, UNCHANGED reviewVars
      PROVE  OneMailPerPackage'
  BY <1>3, DispatchQueuesNothing DEF OneMailPerPackage, reviewVars
<1>. QED  BY <1>1, <1>2, <1>3, EveryReviewStep

\* A call posts a communication that was queued, and none is removed.
LEMMA StepAcceptedWasQueued ==
    ASSUME RInv, [ReviewNext]_allVars PROVE AcceptedWasQueued'
<1>. USE DEF RInv
<1>1. [Next]_vars
  BY ReviewStepIsStep
<1>2. \A c \in Comms : comm[c] # "absent" => comm'[c] # "absent"
  BY <1>1, CommsLeaveTheQueue
<1>. QED  BY <1>1, <1>2, AcceptedStep DEF AcceptedWasQueued

\* The invariant is preserved.
LEMMA StepRInv == RInv /\ [ReviewNext]_allVars => RInv'
<1>. SUFFICES ASSUME RInv, [ReviewNext]_allVars PROVE RInv'
  OBVIOUS
<1>1. IInv'
  BY StepIInv, ReviewStepIsStep DEF RInv
<1>. QED
  BY <1>1, StepReviewTypeOK, StepApprovalIsFinal, StepProposalExists,
     StepMailCarriesApproval, StepOneMailPerPackage, StepAcceptedWasQueued
  DEF RInv

-----------------------------------------------------------------------------
(* Results *)

\* The inductive invariant of the review gate and the outbox together.
THEOREM ReviewInvariance == ReviewSpec => []RInv
  BY InitRInv, StepRInv, PTL DEF ReviewSpec

\* The tables of the review gate keep their types: an approved text is never empty.
THEOREM ReviewTypeCorrect == ReviewSpec => []ReviewTypeOK
<1>1. RInv => ReviewTypeOK
  BY DEF RInv
<1>. QED  BY <1>1, ReviewInvariance, PTL

\* An approved package is delivered by at most one communication.
THEOREM OneDelivery == ReviewSpec => []OneDeliveryPerApproval
<1>1. RInv => OneDeliveryPerApproval
  BY DEF RInv, AcceptedWasQueued, OneMailPerPackage, OneDeliveryPerApproval
<1>. QED  BY <1>1, ReviewInvariance, PTL

-----------------------------------------------------------------------------
(* The refinement *)

approvedBar == [p \in Packages |-> approval[p].content]

\* Nothing is approved or delivered at first.
LEMMA InitPromise == ReviewInit => Promise!Init
<1>. SUFFICES ASSUME ReviewInit PROVE Promise!Init
  OBVIOUS
<1>1. approvedBar = [p \in Packages |-> NoContent]
  BY DEF ReviewInit, NoApproval, approvedBar
<1>2. Delivered = {}
  BY DEF ReviewInit, Init, Delivered
<1>. QED  BY <1>1, <1>2 DEF Promise!Init, approvedBar

\* Recording an approving review is the approval of the abstract specification.
LEMMA ApproveStep ==
    ASSUME RInv, NEW p \in Packages, NEW final \in Text, NEW e \in Events,
           ApprovePackage(p, final, e)
    PROVE  \E x \in Contents : Promise!Approve(p, x)
<1>. DEFINE x == ApprovedContent(p, final)
<1>1. x \in Contents
  BY ApprovedContentIsText DEF ApprovePackage
<1>2. approval[p] = NoApproval
  BY DEF RInv, ApprovalIsFinal, ApprovePackage, Reviewable
<1>3. /\ approval' = [approval EXCEPT ![p] = [n |-> approval[p].n + 1, content |-> x]]
      /\ mail' = mail /\ accepted' = accepted
  BY DEF ApprovePackage, AddEvent
<1>. HIDE DEF x
<1>4. approvedBar[p] = NoContent
  BY <1>2 DEF approvedBar, NoApproval
<1>5. approvedBar' = [approvedBar EXCEPT ![p] = x]
  BY <1>3 DEF approvedBar, RInv, ReviewTypeOK
<1>6. Delivered' = Delivered
  BY <1>3 DEF Delivered
<1>7. Promise!Approve(p, x)
  BY <1>4, <1>5, <1>6 DEF Promise!Approve, approvedBar
<1>. QED  BY <1>1, <1>7 DEF Promise!Approve

\* A call that Feishu accepts delivers what was approved for its package.
LEMMA DeliverStep ==
    ASSUME RInv, UNCHANGED reviewVars, NEW c \in Comms, comm[c] # "absent",
           accepted' = accepted \cup {c}
    PROVE  Promise!Deliver(mail[c].package) /\ mail[c].package \in Packages
<1>. DEFINE p == mail[c].package
<1>1. /\ p \in Packages /\ approval[p].n = 1
      /\ mail[c].content = approval[p].content
  BY DEF RInv, MailCarriesApproval, Mail
<1>2. approval[p].content \in Contents
  BY <1>1 DEF RInv, ApprovalIsFinal, NoApproval
<1>3. approvedBar[p] = approval[p].content /\ approvedBar' = approvedBar
  BY <1>1 DEF approvedBar, reviewVars
<1>4. approvedBar[p] # NoContent
  BY <1>2, <1>3, ReviewAssumption
<1>5. Delivered' = Delivered \cup {<<p, approvedBar[p]>>}
  BY <1>1, <1>3 DEF Delivered, reviewVars
<1>. QED  BY <1>1, <1>3, <1>4, <1>5 DEF Promise!Deliver, approvedBar

\* Every other step is a stuttering step of the abstract specification.
LEMMA StepPromise ==
    RInv /\ [ReviewNext]_allVars => [Promise!Next]_<<approvedBar, Delivered>>
<1>. SUFFICES ASSUME RInv, [ReviewNext]_allVars
              PROVE  Promise!Next \/ UNCHANGED <<approvedBar, Delivered>>
  OBVIOUS
<1>1. ASSUME NEW p \in Packages, PackageStep(p), mail' = mail, accepted' = accepted
      PROVE  Promise!Next \/ UNCHANGED <<approvedBar, Delivered>>
  <2>1. CASE \E final \in Text, e \in Events : ApprovePackage(p, final, e)
    BY <2>1, ApproveStep DEF Promise!Next
  <2>2. CASE UNCHANGED approval
    BY <1>1, <2>2 DEF approvedBar, Delivered
  <2>3. (\E final \in Text, e \in Events : ApprovePackage(p, final, e))
          \/ UNCHANGED approval
    BY <1>1 DEF PackageStep, CreateReviewPackage, SynthesiseReviewPackage,
                SubmitReviewPackage, DeclinePackage
  <2>. QED  BY <2>1, <2>2, <2>3
<1>2. ASSUME UNCHANGED <<package, approval>>, mail' = mail, accepted' = accepted
      PROVE  UNCHANGED <<approvedBar, Delivered>>
  BY <1>2 DEF approvedBar, Delivered
<1>3. ASSUME NEW p \in Packages, NEW c \in Comms, NEW e \in Events,
             QueueApproved(p, c, e)
      PROVE  UNCHANGED <<approvedBar, Delivered>>
  <2>1. c \notin accepted
    BY <1>3 DEF QueueApproved, QueueCommunication, RInv, AcceptedWasQueued
  <2>2. approval' = approval /\ accepted' = accepted
    BY <1>3 DEF QueueApproved, QueueCommunication
  <2>3. \A d \in accepted : mail'[d] = mail[d]
    BY <1>3, <2>1 DEF QueueApproved, RInv, ReviewTypeOK, AcceptedWasQueued
  <2>. QED  BY <2>2, <2>3 DEF approvedBar, Delivered
<1>4. ASSUME Dispatch, UNCHANGED reviewVars
      PROVE  Promise!Next \/ UNCHANGED <<approvedBar, Delivered>>
  <2>1. CASE accepted' = accepted
    BY <1>4, <2>1 DEF approvedBar, Delivered, reviewVars
  <2>2. CASE \E c \in Comms : comm[c] # "absent" /\ accepted' = accepted \cup {c}
    BY <1>4, <2>2, DeliverStep DEF Promise!Next
  <2>3. [Next]_vars
    BY <1>4 DEF Next
  <2>. QED  BY <2>1, <2>2, <2>3, AcceptedStep DEF RInv
<1>. QED  BY <1>1, <1>2, <1>3, <1>4, EveryReviewStep

\* The review gate and the outbox implement ApprovedDelivery: whatever is retried,
\* requeued, interrupted or sent twice, only approved contents are delivered.
THEOREM Refinement == ReviewSpec => KeepsThePromise
<1>1. [Promise!Next]_<<approvedBar, Delivered>>
        <=> [Promise!Next]_<<[p \in Packages |-> approval[p].content], Delivered>>
  BY DEF approvedBar
<1>. QED
  BY <1>1, InitPromise, StepPromise, ReviewInvariance, PTL
  DEF ReviewSpec, KeepsThePromise, Promise!Spec
=============================================================================
