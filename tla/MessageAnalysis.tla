-------------------------- MODULE MessageAnalysis --------------------------
(***************************************************************************)
(* The analysis of one Feishu message (application/message_analysis.py,    *)
(* agent_attempts.py, analysis_recovery.py, automatic_analysis_gate.py and *)
(* the Celery task of workers/tasks.py).  Every lock and every query of    *)
(* that code is per message, so other messages only keep workers busy.     *)
(*                                                                         *)
(* A step is a transaction.  The row locks and version columns serialise   *)
(* transactions or make the later one raise, which is Abort here.          *)
(*                                                                         *)
(* A task is the outbox event FeishuMessageAnalysisRequested and then the  *)
(* Celery message sent for it; when and how often the outbox dispatches an *)
(* event is the subject of OutboxDelivery.                                 *)
(***************************************************************************)
EXTENDS Naturals, Sequences, FiniteSets

CONSTANTS
    Workers,      \* Celery worker processes
    Tasks,        \* slots for events and messages under way
    MaxAttempts,  \* AgentRun.max_attempts
    MaxRetries,   \* max_retries of the Celery task
    MaxRuns,      \* bound on the runs of the message
    MaxRequests,  \* bound on gate requests, edits and requests of users
    MaxFaults,    \* bound on crashes, lost or doubled messages, aborts, cancellations
    NoTask        \* no task

ASSUME AnalysisAssumption ==
    /\ NoTask \notin Tasks
    /\ MaxAttempts \in Nat \ {0}
    /\ {MaxRetries, MaxRuns, MaxRequests, MaxFaults} \subseteq Nat

VARIABLES
    message,    \* the row of feishu_messages
    runs,       \* its agent_runs with their attempts, oldest first
    candidate,  \* its active row of message_candidates
    task,       \* task[t]: the task in slot t
    worker,     \* worker[w]: what worker process w is at
    used        \* requests and faults so far

vars == <<message, runs, candidate, task, worker, used>>

-----------------------------------------------------------------------------
\* UNSUPPORTED, which a message of an unsupported type has for ever, is left out.
MessageStatus ==
    {"RECEIVED", "QUEUED_FOR_ANALYSIS", "AGENT_QUEUED", "ANALYSING",
     "CANDIDATE_CREATED", "IGNORED", "ANALYSIS_FAILED", "DEAD_LETTER"}

\* CONTEXT_PREPARED, PREPARING and VALIDATING live within a transaction only.
RunStatus ==
    {"QUEUED", "RUNNING", "COMPLETED", "FAILED", "CANCELLED", "DEAD_LETTER"}

\* FAILED includes TIMED_OUT; LAPSED is RUNNING with lease_expires_at in the past.
AttemptStatus == {"NONE", "RUNNING", "LAPSED", "COMPLETED", "FAILED", "EXPIRED"}

Message == [status : MessageStatus, recalled : BOOLEAN]

Run == [status : RunStatus, number : 1..MaxAttempts,
        attempts : [1..MaxAttempts -> AttemptStatus]]

\* CONFIRMED stands for CONFIRMED and LINKED; run is Candidate.agent_run_id.
Candidate == [status : {"NONE", "PENDING", "CONFIRMED"}, run : 0..MaxRuns]

NoCandidate == [status |-> "NONE", run |-> 0]

\* recover stands for recover_interrupted: a recovery event, a retry, or a message
\* that is delivered again.
Task == [stage : {"outbox", "broker", "worker"}, force : BOOLEAN,
         override : BOOLEAN, recover : BOOLEAN, retries : 0..MaxRetries]

FreeSlot == [stage |-> "free"]

Idle == [step |-> "idle", task |-> NoTask, run |-> 0, number |-> 0]

Worker == [step : {"idle", "taken", "prepared", "running"},
           task : Tasks \cup {NoTask}, run : 0..MaxRuns, number : 0..MaxAttempts]

Active == {"QUEUED", "RUNNING"}

InAnalysis == {"QUEUED_FOR_ANALYSIS", "AGENT_QUEUED", "ANALYSING"}

Analysed == {"CANDIDATE_CREATED", "IGNORED", "ANALYSIS_FAILED", "DEAD_LETTER"}

Last == runs[Len(runs)]

-----------------------------------------------------------------------------
\* FeishuMessage.transition_to, over CONTEXT_PREPARED.
MessageMoves ==
    ({"RECEIVED"} \cup Analysed) \X {"QUEUED_FOR_ANALYSIS"}
    \cup {"QUEUED_FOR_ANALYSIS"} \X {"AGENT_QUEUED", "ANALYSIS_FAILED", "DEAD_LETTER"}
    \cup {"AGENT_QUEUED"} \X {"ANALYSING", "ANALYSIS_FAILED"}
    \cup {"ANALYSING"} \X {"CANDIDATE_CREATED", "IGNORED", "ANALYSIS_FAILED"}
    \cup {<<"ANALYSIS_FAILED", "DEAD_LETTER">>}

MayMove(status) == <<message.status, status>> \in MessageMoves

\* Mutant: the recall is looked at when the event is dispatched, not later.
AllowedMut(t) == message.recalled => task[t].override \/ task[t].stage = "worker"

\* MessageAnalysisEligibility.evaluate: only a user's event has the override.
Allowed(t) == message.recalled => task[t].override

Recovers(t) == task[t].recover

PendingEvent == \E t \in Tasks : task[t].stage = "outbox"

NewEvent(force, override, recover) ==
    [stage |-> "outbox", force |-> force, override |-> override,
     recover |-> recover, retries |-> 0]

AddEvent(event) ==
    \E t \in Tasks :
        /\ task[t] = FreeSlot
        /\ task' = [task EXCEPT ![t] = event]

RequestBudget ==
    /\ used.requests < MaxRequests
    /\ used' = [used EXCEPT !.requests = @ + 1]

FaultBudget ==
    /\ used.faults < MaxFaults
    /\ used' = [used EXCEPT !.faults = @ + 1]

Init ==
    /\ message = [status |-> "RECEIVED", recalled |-> FALSE]
    /\ runs = <<>>
    /\ candidate = NoCandidate
    /\ task = [t \in Tasks |-> FreeSlot]
    /\ worker = [w \in Workers |-> Idle]
    /\ used = [requests |-> 0, faults |-> 0]

-----------------------------------------------------------------------------
\* AutomaticAnalysisGate.request_if_allowed: from ingestion, an edit, or the end
\* of the attachment work.  A version above 1 forces a new run: edited covers the
\* versions an edit made, and every status but RECEIVED has one.
GateRequest(edited) ==
    /\ RequestBudget
    /\ ~message.recalled
    /\ ~PendingEvent
    /\ AddEvent(NewEvent(edited \/ message.status # "RECEIVED", FALSE, FALSE))
    /\ UNCHANGED <<message, runs, candidate, worker>>

\* The RECALL branch of IngestFeishuEventHandler.
RecallMessage ==
    /\ ~message.recalled
    /\ message' = [message EXCEPT !.recalled = TRUE]
    /\ UNCHANGED <<runs, candidate, task, worker, used>>

\* RequestFeishuMessageAnalysisHandler.execute, for a user.
RequestAnalysis(force, override) ==
    /\ RequestBudget
    /\ message.status \in {"RECEIVED", "QUEUED_FOR_ANALYSIS"}
          \cup (IF force THEN Analysed ELSE {})
    /\ message' = [message EXCEPT !.status = "QUEUED_FOR_ANALYSIS"]
    /\ AddEvent(NewEvent(force, override, FALSE))
    /\ UNCHANGED <<runs, candidate, worker>>

\* ConfirmCandidateCreateMatterHandler, or ResolveCandidateHandler linking it.
ConfirmCandidate ==
    /\ candidate.status = "PENDING"
    /\ candidate' = [candidate EXCEPT !.status = "CONFIRMED"]
    /\ UNCHANGED <<message, runs, task, worker, used>>

\* ResolveCandidateHandler with "ignore" or "information only".
DismissCandidate ==
    /\ candidate.status = "PENDING"
    /\ candidate' = NoCandidate
    /\ UNCHANGED <<message, runs, task, worker, used>>

\* CancelAgentRunHandler, for an operator.  The attempt stays as it is.
CancelAgentRun(r) ==
    /\ FaultBudget
    /\ runs[r].status \in Active
    /\ runs' = [runs EXCEPT ![r].status = "CANCELLED"]
    /\ message' = IF message.status \in InAnalysis
                  THEN [message EXCEPT !.status = "ANALYSIS_FAILED"] ELSE message
    /\ UNCHANGED <<candidate, task, worker>>

-----------------------------------------------------------------------------
\* _dispatch_feishu_message_analysis: the guard looks at the message again.
Dispatch(t) ==
    /\ task[t].stage = "outbox"
    /\ task' = IF Allowed(t) THEN [task EXCEPT ![t].stage = "broker"]
                             ELSE [task EXCEPT ![t] = FreeSlot]
    /\ UNCHANGED <<message, runs, candidate, worker, used>>

\* The dispatcher dies between send_task and its commit: the event stays.
DispatchTwice(t) ==
    /\ FaultBudget
    /\ task[t].stage = "outbox"
    /\ Allowed(t)
    /\ AddEvent([task[t] EXCEPT !.stage = "broker"])
    /\ UNCHANGED <<message, runs, candidate, worker>>

\* Redis loses a message.
LoseTask(t) ==
    /\ FaultBudget
    /\ task[t].stage = "broker"
    /\ task' = [task EXCEPT ![t] = FreeSlot]
    /\ UNCHANGED <<message, runs, candidate, worker>>

Take(w, t) ==
    /\ worker[w] = Idle
    /\ task[t].stage = "broker"
    /\ task' = [task EXCEPT ![t].stage = "worker"]
    /\ worker' = [worker EXCEPT ![w] = [Idle EXCEPT !.step = "taken", !.task = t]]
    /\ UNCHANGED <<message, runs, candidate, used>>

\* The process of w dies.  acks_late: the broker delivers its task again.
Crash(w) ==
    /\ FaultBudget
    /\ worker[w] # Idle
    /\ task' = [task EXCEPT ![worker[w].task] =
                   [@ EXCEPT !.stage = "broker", !.recover = TRUE]]
    /\ worker' = [worker EXCEPT ![w] = Idle]
    /\ UNCHANGED <<message, runs, candidate>>

-----------------------------------------------------------------------------
\* The task of w ends.
EndTask(w) ==
    /\ worker' = [worker EXCEPT ![w] = Idle]
    /\ task' = [task EXCEPT ![worker[w].task] = FreeSlot]

\* Mutant: one retry too many.
TryAgainMut(x) ==
    IF x.retries <= MaxRetries
    THEN [x EXCEPT !.stage = "broker", !.retries = @ + 1, !.recover = TRUE]
    ELSE FreeSlot

\* task.retry in process_feishu_message, a new message with the same arguments.
TryAgain(x) ==
    IF x.retries < MaxRetries
    THEN [x EXCEPT !.stage = "broker", !.retries = @ + 1, !.recover = TRUE]
    ELSE FreeSlot

RetryTask(w) ==
    /\ worker' = [worker EXCEPT ![w] = Idle]
    /\ task' = [task EXCEPT ![worker[w].task] = TryAgain(@)]

Prepared(w, r) ==
    /\ worker' = [worker EXCEPT ![w].step = "prepared", ![w].run = r]
    /\ UNCHANGED task

\* A step of w raises and its transaction is rolled back.
Abort(w) ==
    /\ FaultBudget
    /\ worker[w] # Idle
    /\ RetryTask(w)
    /\ UNCHANGED <<message, runs, candidate>>

-----------------------------------------------------------------------------
\* AnalyseFeishuMessageHandler.prepare, one action per way it ends.
Preparing(w) == worker[w].step = "taken"

\* _suppress_before_runtime: the message is recalled.
Suppress(w) ==
    /\ Preparing(w)
    /\ ~Allowed(worker[w].task)
    /\ message' = IF message.status \in InAnalysis
                  THEN [message EXCEPT !.status = "ANALYSIS_FAILED"] ELSE message
    /\ EndTask(w)
    /\ UNCHANGED <<runs, candidate, used>>

Admitted(w) == Preparing(w) /\ Allowed(worker[w].task)

Forced(w) == task[worker[w].task].force

\* The first two tests of prepare: there is an answer already.
Answered ==
    \/ candidate.status # "NONE"
    \/ message.status = "IGNORED" /\ runs # <<>>

Resumes(w) == ~Forced(w) /\ ~Answered /\ runs # <<>>

Retryable(run) == run.status = "FAILED" /\ run.number < MaxAttempts

Replay(w) ==
    /\ Admitted(w)
    /\ ~Forced(w)
    /\ \/ Answered
       \/ /\ runs # <<>>
          /\ Last.status \in Active => ~Recovers(worker[w].task)
          /\ ~Retryable(Last)
    /\ EndTask(w)
    /\ UNCHANGED <<message, runs, candidate, used>>

\* A queued run is handed on to the runtime as it is.
ResumeQueued(w) ==
    /\ Admitted(w)
    /\ Resumes(w)
    /\ Recovers(worker[w].task)
    /\ Last.status = "QUEUED"
    /\ Prepared(w, Len(runs))
    /\ UNCHANGED <<message, runs, candidate, used>>

\* AgentRunAttemptRepository.expire_current: only a lapsed lease.
ExpireCurrent(run) ==
    IF run.attempts[run.number] = "LAPSED"
    THEN [run EXCEPT !.attempts[run.number] = "EXPIRED"] ELSE run

NextAttempt(run) == [run EXCEPT !.status = "QUEUED", !.number = @ + 1]

Interrupted(w) ==
    /\ Admitted(w)
    /\ Resumes(w)
    /\ Recovers(worker[w].task)
    /\ Last.status = "RUNNING"

\* prepare does not look at what expire_current returns.
DeadLetterInterrupted(w) ==
    /\ Interrupted(w)
    /\ message.status \in InAnalysis
    /\ Last.number = MaxAttempts
    /\ runs' = [runs EXCEPT ![Len(runs)] = [ExpireCurrent(@) EXCEPT !.status = "DEAD_LETTER"]]
    /\ message' = [message EXCEPT !.status = "DEAD_LETTER"]
    /\ EndTask(w)
    /\ UNCHANGED <<candidate, used>>

RetryInterrupted(w) ==
    /\ Interrupted(w)
    /\ message.status \in InAnalysis
    /\ Last.number < MaxAttempts
    /\ runs' = [runs EXCEPT ![Len(runs)] = NextAttempt(ExpireCurrent(@))]
    /\ message' = [message EXCEPT !.status = "AGENT_QUEUED"]
    /\ Prepared(w, Len(runs))
    /\ UNCHANGED <<candidate, used>>

RetryFailed(w) ==
    /\ Admitted(w)
    /\ Resumes(w)
    /\ Retryable(Last)
    /\ MayMove("QUEUED_FOR_ANALYSIS")
    /\ runs' = [runs EXCEPT ![Len(runs)] = NextAttempt(@)]
    /\ message' = [message EXCEPT !.status = "AGENT_QUEUED"]
    /\ Prepared(w, Len(runs))
    /\ UNCHANGED <<candidate, used>>

StartsAfresh(w) == Forced(w) \/ (~Answered /\ runs = <<>>)

\* Mutant: a forced analysis does not look whether one is under way.
QueueableMut == TRUE

Queueable == message.status = "QUEUED_FOR_ANALYSIS" \/ MayMove("QUEUED_FOR_ANALYSIS")

NewRun(w) ==
    /\ Admitted(w)
    /\ StartsAfresh(w)
    /\ Queueable
    /\ Len(runs) < MaxRuns
    /\ runs' = Append(runs, [status |-> "QUEUED", number |-> 1,
                             attempts |-> [n \in 1..MaxAttempts |-> "NONE"]])
    /\ message' = [message EXCEPT !.status = "AGENT_QUEUED"]
    /\ Prepared(w, Len(runs) + 1)
    /\ UNCHANGED <<candidate, used>>

\* A transition prepare asks for is illegal: CONTEXT_BUILD_FAILED, retryable.
PrepareRaises(w) ==
    /\ Admitted(w)
    /\ \/ Interrupted(w) /\ message.status \notin InAnalysis
       \/ Resumes(w) /\ Retryable(Last) /\ ~MayMove("QUEUED_FOR_ANALYSIS")
       \/ StartsAfresh(w) /\ ~Queueable
    /\ RetryTask(w)
    /\ UNCHANGED <<message, runs, candidate, used>>

-----------------------------------------------------------------------------
RunOf(w) == runs[worker[w].run]

Started(run) == [run EXCEPT !.status = "RUNNING", !.attempts[run.number] = "RUNNING"]

\* _mark_running.
StartRun(w) ==
    /\ worker[w].step = "prepared"
    /\ Allowed(worker[w].task)
    /\ RunOf(w).status = "QUEUED"
    /\ MayMove("ANALYSING")
    /\ runs' = [runs EXCEPT ![worker[w].run] = Started(@)]
    /\ message' = [message EXCEPT !.status = "ANALYSING"]
    /\ worker' = [worker EXCEPT ![w].step = "running", ![w].number = RunOf(w).number]
    /\ UNCHANGED <<candidate, task, used>>

\* _mark_running of a message recalled since prepare.
CancelRun(w) ==
    /\ worker[w].step = "prepared"
    /\ ~Allowed(worker[w].task)
    /\ RunOf(w).status \in Active
    /\ runs' = [runs EXCEPT ![worker[w].run].status = "CANCELLED"]
    /\ message' = IF message.status \in InAnalysis
                  THEN [message EXCEPT !.status = "ANALYSIS_FAILED"] ELSE message
    /\ EndTask(w)
    /\ UNCHANGED <<candidate, used>>

StartRaises(w) ==
    /\ worker[w].step = "prepared"
    /\ IF Allowed(worker[w].task)
       THEN RunOf(w).status # "QUEUED" \/ ~MayMove("ANALYSING")
       ELSE RunOf(w).status \notin Active
    /\ RetryTask(w)
    /\ UNCHANGED <<message, runs, candidate, used>>

\* Mutant: the expiry of the lease is not compared with the clock.
HoldsLeaseMut(w) == RunOf(w).attempts[worker[w].number] \in {"RUNNING", "LAPSED"}

\* The lease predicates of complete, fail and heartbeat.
HoldsLease(w) == RunOf(w).attempts[worker[w].number] = "RUNNING"

\* The transition of the run that a result asks for, out of RUNNING, is legal.
Current(w) == HoldsLease(w) /\ RunOf(w).status = "RUNNING"

\* The run ends with status s, and the attempt of w with status a.
Ended(w, s, a) ==
    [runs EXCEPT ![worker[w].run] = [@ EXCEPT !.status = s, !.attempts[worker[w].number] = a]]

\* The candidate after a verdict: confirmed values stay.
Verdict(w, relevant) ==
    IF relevant
    THEN IF candidate.status = "CONFIRMED" THEN candidate
         ELSE [status |-> "PENDING", run |-> worker[w].run]
    ELSE IF candidate.status = "CONFIRMED" THEN candidate ELSE NoCandidate

Outcome(c) == IF c.status = "NONE" THEN "IGNORED" ELSE "CANDIDATE_CREATED"

\* _persist_success.  A message recalled meanwhile keeps the candidate it has.
Succeed(w, relevant) ==
    /\ worker[w].step = "running"
    /\ Current(w)
    /\ candidate' = IF Allowed(worker[w].task) THEN Verdict(w, relevant) ELSE candidate
    /\ MayMove(Outcome(candidate'))
    /\ message' = [message EXCEPT !.status = Outcome(candidate')]
    /\ runs' = Ended(w, "COMPLETED", "COMPLETED")
    /\ EndTask(w)
    /\ UNCHANGED used

\* _persist_failure: kind is retryable (FAILED or TIMED_OUT), fatal or cancelled.
Fail(w, kind) ==
    LET dead == kind = "fatal" \/ (kind = "retryable" /\ RunOf(w).number >= MaxAttempts) IN
    /\ worker[w].step = "running"
    /\ Current(w)
    /\ MayMove("ANALYSIS_FAILED")
    /\ runs' = Ended(w, CASE dead               -> "DEAD_LETTER"
                           [] kind = "cancelled" -> "CANCELLED"
                           [] OTHER              -> "FAILED", "FAILED")
    /\ message' = [message EXCEPT !.status = IF dead THEN "DEAD_LETTER" ELSE "ANALYSIS_FAILED"]
    /\ IF kind = "retryable" THEN RetryTask(w) ELSE EndTask(w)
    /\ UNCHANGED <<candidate, used>>

\* The lease is stale or a transition illegal: nothing is stored.
PersistRaises(w) ==
    /\ worker[w].step = "running"
    /\ ~Current(w) \/ message.status # "ANALYSING"
    /\ RetryTask(w)
    /\ UNCHANGED <<message, runs, candidate, used>>

Held(r, n) ==
    \E w \in Workers : worker[w].step = "running" /\ worker[w].run = r /\ worker[w].number = n

Lapse(r, n) ==
    /\ runs[r].attempts[n] = "RUNNING"
    /\ runs' = [runs EXCEPT ![r].attempts[n] = "LAPSED"]
    /\ UNCHANGED <<message, candidate, task, worker>>

\* No process sends heartbeats for the attempt.
LeaseLapses(r) ==
    \E n \in 1..MaxAttempts : ~Held(r, n) /\ Lapse(r, n) /\ UNCHANGED used

\* The process holding the lease stalls for longer than the lease.
WorkerStalls(r) ==
    \E n \in 1..MaxAttempts : Held(r, n) /\ Lapse(r, n) /\ FaultBudget

-----------------------------------------------------------------------------
\* AnalysisRecoveryService.recover, one action per row it handles: the rows are
\* locked until it commits, so what it does to each may as well be a step.
RecoveryEvent == NewEvent(FALSE, FALSE, TRUE)

RequeueMissing ==
    /\ message.status = "QUEUED_FOR_ANALYSIS"
    /\ \A r \in DOMAIN runs : runs[r].status \notin Active
    /\ ~PendingEvent
    /\ AddEvent(RecoveryEvent)
    /\ UNCHANGED <<message, runs, candidate, worker, used>>

RequeueStale ==
    /\ \E r \in DOMAIN runs : runs[r].status = "QUEUED"
    /\ ~PendingEvent
    /\ AddEvent(RecoveryEvent)
    /\ UNCHANGED <<message, runs, candidate, worker, used>>

\* Mutant: only a run whose message shows as ANALYSING is recovered.
RecoverLeaseMut(r) ==
    LET dead == runs[r].number >= MaxAttempts IN
    /\ message.status = "ANALYSING"
    /\ runs[r].status = "RUNNING"
    /\ runs[r].attempts[runs[r].number] = "LAPSED"
    /\ runs' = [runs EXCEPT ![r] =
                   [ExpireCurrent(@) EXCEPT !.status = IF dead THEN "DEAD_LETTER" ELSE "FAILED"]]
    /\ message' = [message EXCEPT !.status = IF dead THEN "DEAD_LETTER" ELSE "ANALYSIS_FAILED"]
    /\ IF dead \/ PendingEvent THEN UNCHANGED task ELSE AddEvent(RecoveryEvent)
    /\ UNCHANGED <<candidate, worker, used>>

RecoverLease(r) ==
    LET dead == runs[r].number >= MaxAttempts IN
    /\ runs[r].status = "RUNNING"
    /\ runs[r].attempts[runs[r].number] = "LAPSED"
    /\ runs' = [runs EXCEPT ![r] =
                   [ExpireCurrent(@) EXCEPT !.status = IF dead THEN "DEAD_LETTER" ELSE "FAILED"]]
    /\ message' = IF message.status \in InAnalysis \cup {"ANALYSIS_FAILED"}
                  THEN [message EXCEPT !.status =
                           IF dead THEN "DEAD_LETTER" ELSE "ANALYSIS_FAILED"]
                  ELSE message
    /\ IF dead \/ PendingEvent THEN UNCHANGED task ELSE AddEvent(RecoveryEvent)
    /\ UNCHANGED <<candidate, worker, used>>

-----------------------------------------------------------------------------
Outside ==
    \/ \E edited \in BOOLEAN : GateRequest(edited)
    \/ RecallMessage
    \/ \E force, override \in BOOLEAN : RequestAnalysis(force, override)
    \/ ConfirmCandidate
    \/ DismissCandidate
    \/ \E r \in DOMAIN runs : CancelAgentRun(r)

Faults ==
    \/ \E t \in Tasks : DispatchTwice(t) \/ LoseTask(t)
    \/ \E w \in Workers : Crash(w) \/ Abort(w)
    \/ \E r \in DOMAIN runs : WorkerStalls(r)

Prepare(w) ==
    \/ Suppress(w) \/ Replay(w) \/ ResumeQueued(w)
    \/ DeadLetterInterrupted(w) \/ RetryInterrupted(w) \/ RetryFailed(w)
    \/ NewRun(w) \/ PrepareRaises(w)

Start(w) == StartRun(w) \/ CancelRun(w) \/ StartRaises(w)

Finish(w) ==
    \/ \E relevant \in BOOLEAN : Succeed(w, relevant)
    \/ \E kind \in {"retryable", "fatal", "cancelled"} : Fail(w, kind)
    \/ PersistRaises(w)

Recover ==
    \/ RequeueMissing
    \/ RequeueStale
    \/ \E r \in DOMAIN runs : RecoverLease(r)

Next ==
    \/ Outside
    \/ Faults
    \/ \E t \in Tasks : Dispatch(t)
    \/ \E w \in Workers, t \in Tasks : Take(w, t)
    \/ \E w \in Workers : Prepare(w) \/ Start(w) \/ Finish(w)
    \/ \E r \in DOMAIN runs : LeaseLapses(r)
    \/ Recover

Spec == Init /\ [][Next]_vars

\* Beat starts the dispatcher and the recovery again and again, Redis hands out
\* its list in order, a running step of a worker ends, and a lease runs out.
Fairness ==
    /\ \A t \in Tasks : WF_vars(Dispatch(t))
    /\ \A t \in Tasks : SF_vars(\E w \in Workers : Take(w, t))
    /\ \A w \in Workers : WF_vars(Prepare(w)) /\ WF_vars(Start(w)) /\ WF_vars(Finish(w))
    /\ WF_vars(\E r \in DOMAIN runs : LeaseLapses(r))
    /\ SF_vars(\E r \in DOMAIN runs : RecoverLease(r))
    /\ SF_vars(RequeueMissing)
    /\ SF_vars(RequeueStale)

FairSpec == Spec /\ Fairness

-----------------------------------------------------------------------------
\* The columns of the tables keep their types.
AnalysisTypeOK ==
    /\ message \in Message
    /\ runs \in Seq(Run) /\ Len(runs) <= MaxRuns
    /\ candidate \in Candidate
    /\ task \in [Tasks -> Task \cup {FreeSlot}]
    /\ worker \in [Workers -> Worker]
    /\ used \in [requests : 0..MaxRequests, faults : 0..MaxFaults]

\* A message that is not recalled shows as queued, analysing or dead exactly when
\* its latest run is, and no earlier run is active, whichever of worker, recovery
\* and redelivery wrote last.
MessageFollowsRun ==
    ~message.recalled =>
        /\ message.status = "AGENT_QUEUED" <=> runs # <<>> /\ Last.status = "QUEUED"
        /\ message.status = "ANALYSING" <=> runs # <<>> /\ Last.status = "RUNNING"
        /\ message.status = "DEAD_LETTER" => runs # <<>> /\ Last.status = "DEAD_LETTER"
        /\ \A r \in DOMAIN runs : runs[r].status \in Active => r = Len(runs)

\* An attempt that is over stays as it ended, and one whose lease ran out ends in
\* no other way than expiry: the result of its worker is refused.
StaleAttemptStoresNothing ==
    [][\A r \in DOMAIN runs, n \in 1..MaxAttempts :
          LET old == runs[r].attempts[n]
              new == runs'[r].attempts[n] IN
          /\ old \in {"COMPLETED", "FAILED", "EXPIRED"} => new = old
          /\ old = "LAPSED" => new \in {"LAPSED", "EXPIRED"}]_vars

\* After the recall of a message its candidate is not replaced by a result,
\* unless the user overrode the recall for that analysis.
NoCandidateAfterRecall ==
    [][message.recalled /\ candidate'.run # candidate.run /\ candidate' # NoCandidate =>
          \E w \in Workers :
              /\ worker[w].step = "running"
              /\ worker[w].run = candidate'.run
              /\ task[worker[w].task].override]_vars

\* A started run ends, although its worker may die or stall: again and again there
\* is no run that runs.
StartedRunsEnd == []<>(\A r \in DOMAIN runs : runs[r].status # "RUNNING")
=============================================================================
